------------------------------ MODULE Credentials -----------------------------
(***************************************************************************)
(* What src/security accepts: names, secrets, tokens, signatures and the   *)
(* columns that hold a sealed secret.  A text is what its checks look at:  *)
(* how long it is, what it consists of, and which of the model's values it *)
(* spells.                                                                 *)
(***************************************************************************)
EXTENDS Integers, Sequences

CONSTANTS
    MasterKey,     \* the root key of this process: [value, bytes]
    AdminToken,    \* its administrator token: [value, bytes]
    MaxSegment,    \* MAX_REPOSITORY_NAME_SEGMENT_LENGTH
    MaxSecret,     \* MAX_REPOSITORY_SECRET_LENGTH
    KeyLength, MinTokenLength, NonceLength, TagLength, DigestLength,
    Invalid        \* what a constructor answers for a text that it refuses

-------------------------------------------------------------------------------
(* Names *)

ValidSegment(segment) == segment.legal /\ segment.length \in 1 .. MaxSegment

\* White space around the name is trimmed and case is folded: of a raw name
\* [padded, segments] only what the segments spell remains.
Canonical(raw) ==
    IF Len(raw.segments) = 2 /\ \A i \in 1 .. 2 : ValidSegment(raw.segments[i])
    THEN [i \in 1 .. 2 |-> raw.segments[i].word]
    ELSE Invalid

-------------------------------------------------------------------------------
(* Secrets *)

ValidSecretBytes(bytes) == bytes \in 1 .. MaxSecret

RepositorySecret(raw) == IF ValidSecretBytes(raw.bytes) THEN raw ELSE Invalid

ValidMasterKey(key) == key.bytes = KeyLength
ValidAdminToken(token) == token.bytes >= MinTokenLength

EncryptionVersion == 1

\* The root key is used for nothing else than to derive this one.
DerivedKey == <<"repository-secret/v1", MasterKey.value>>

\* A sealed secret opens only with the key and under the name it was sealed for.
Encrypt(name, secret) ==
    [version |-> EncryptionVersion, nonce |-> NonceLength, ciphertext |-> secret.bytes + TagLength,
     key |-> DerivedKey, name |-> name, secret |-> secret]

\* EncryptedRepositorySecret, of the columns of a row.
FromParts(box) ==
    IF box.version = EncryptionVersion /\ box.nonce = NonceLength /\ box.ciphertext >= TagLength
    THEN box ELSE Invalid

\* A plaintext that no constructor of this program would have sealed.
FromDecryptedBytes(secret) == IF secret.utf8 THEN RepositorySecret(secret) ELSE Invalid

Decrypt(name, box) ==
    IF FromParts(box) # Invalid /\ box.key = DerivedKey /\ box.name = name
    THEN FromDecryptedBytes(box.secret)
    ELSE Invalid

-------------------------------------------------------------------------------
(* Requests *)

\* AdminAuthenticator: the header Authorization, empty if there is none.
Authorized(header) ==
    \E i \in 1 .. Len(header) :
        header[i].scheme = "Bearer " /\ header[i].token # "" /\ header[i].token = AdminToken.value

\* WebhookSignature: the secret under which the digest verifies, if it is one.
Signature(raw) ==
    IF raw.prefix = "sha256=" /\ raw.digits = 2 * DigestLength /\ raw.hex THEN raw.secret ELSE Invalid
===============================================================================
