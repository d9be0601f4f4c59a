-------------------------- MODULE MCRepositoryAdmin ---------------------------
(***************************************************************************)
(* Instances of RepositoryAdmin: a fresh database, one with a repository,  *)
(* and one whose repository was sealed by another key.                     *)
(***************************************************************************)
EXTENDS RepositoryAdmin, TLC

CONSTANTS owner, first, second, s1, s2

MCMasterKey == [value |-> "key", bytes |-> KeyLength]
MCAdminToken == [value |-> "token", bytes |-> MinTokenLength + 1]

\* Names: two that are different in any spelling, and one that is refused.
Segment(word, length, legal) == [word |-> word, length |-> length, legal |-> legal]
RawName(segments) == [segments |-> segments]
Whole(word) == RawName(<<Segment(owner, 1, TRUE), Segment(word, MaxSegment, TRUE)>>)
Unowned == RawName(<<Segment(first, 1, TRUE)>>)
MCRawNames == {Whole(first), Whole(second), Unowned}
n1 == Canonical(Whole(first))

Secret(value, bytes) == [value |-> value, bytes |-> bytes, utf8 |-> TRUE]
Key1 == Secret(s1, 1)
Key2 == Secret(s2, MaxSecret)
MCRawSecrets == {Key1, Key2, Secret(s1, 0), Secret(s1, MaxSecret + 1)}

\* Sealed by another key.
Foreign == [Encrypt(n1, Key1) EXCEPT !.key = <<"repository-secret/v1", "another">>]
MCForeignBoxes == {Foreign}

Header(scheme, value) == <<[scheme |-> scheme, token |-> value]>>
MCHeaders == {Header("Bearer ", "token"), Header("Bearer ", "another")}

Digest(prefix, digits, hex, secret) ==
    [prefix |-> prefix, digits |-> digits, hex |-> hex, secret |-> secret]
Sha256(digits, hex) == Digest("sha256=", digits, hex, Key1)
MCSignatures ==
    {Digest("sha256=", 2 * DigestLength, TRUE, key) : key \in {Key1, Key2}} \cup {Sha256(DigestLength, TRUE)}

\* A database with one row, and a fresh one with none.
Holding(box) ==
    [i \in Ids |-> IF i = 1 THEN [name |-> n1, box |-> box, enabled |-> TRUE, born |-> 0] ELSE None]
MCDatabases ==
    {[i \in Ids |-> None], Holding(Encrypt(n1, Key1)), Holding(Foreign)}

Payload(kind, id, name, secret, enabled) ==
    [kind |-> kind, id |-> id, name |-> name, secret |-> secret, enabled |-> enabled]

\* Every operation: each name, each column alone, two columns at once, and every
\* way to be refused.
MCPayloads ==
    {Payload("Create", None, name, Key1, None) : name \in MCRawNames}
    \cup {Payload("Create", None, Whole(second), Secret(s1, 0), FALSE)}
    \cup {Payload("Update", 1, name, None, None) : name \in MCRawNames \cup {None}}
    \cup {Payload("Update", 1, None, Key2, None), Payload("Update", 1, None, Secret(s1, MaxSecret + 1), None),
          Payload("Update", 1, None, None, FALSE), Payload("Update", 1, Whole(second), Key2, None)}
    \cup {Payload("Delete", id, None, None, None) : id \in 0 .. MaxId}
    \cup {Payload("Get", 1, None, None, None), Payload("List", None, None, None, None)}

\* The databases name n1 and Key1, so only the requests can be exchanged.
Exchange == Permutations(Admins)

\* Every other way to be refused.
ASSUME
    /\ \A segments \in {<<>>, [i \in 1 .. 3 |-> Segment(owner, 1, TRUE)]}
           \cup {<<Segment(owner, 1, TRUE), Segment(first, length, legal)>> :
                     length \in {0, MaxSegment + 1}, legal \in BOOLEAN}
           \cup {<<Segment(owner, 1, FALSE), Segment(first, 1, TRUE)>>} :
           Canonical(RawName(segments)) = Invalid
    /\ \A header \in {<<>>, Header("Bearer ", ""), Header("Basic ", "token")} : ~Authorized(header)
    /\ \A signature \in {Sha256(2 * DigestLength, FALSE), Digest("sha1=", 2 * DigestLength, TRUE, Key1)} :
           Signature(signature) = Invalid
    /\ \A box \in {Foreign, [Encrypt(n1, Key1) EXCEPT !.version = 2],
                   [Encrypt(n1, Key1) EXCEPT !.nonce = 0], [Encrypt(n1, Key1) EXCEPT !.ciphertext = 1],
                   [Encrypt(n1, Key1) EXCEPT !.secret.utf8 = FALSE],
                   Encrypt(Canonical(Whole(second)), Key1), Encrypt(n1, Secret(s1, 0))} :
           Decrypt(n1, box) = Invalid
===============================================================================
