--------------------------- MODULE RepositoryAdmin ----------------------------
(***************************************************************************)
(* The repository administration API (src/api/repositories.rs), the table  *)
(* behind it (src/storage/repository_store.rs) and the webhook handlers    *)
(* that authenticate against the same table and later write rows that      *)
(* refer to it.                                                            *)
(*                                                                         *)
(* SQLite in WAL mode: a transaction reads the snapshot of its first       *)
(* statement and may write only if nobody has committed since; otherwise   *)
(* it is answered SQLITE_BUSY_SNAPSHOT.  The statements from a successful  *)
(* write to its commit hold the write lock and are one step here.  What     *)
(* requests carry is raw; Credentials says what is made of it.             *)
(***************************************************************************)
EXTENDS Credentials, FiniteSets

CONSTANTS
    Admins,        \* requests to the administration API that may be under way
    Handlers,      \* webhook requests that may be under way
    RawNames, RawSecrets, Headers, Signatures, \* what requests carry
    MaxId,         \* bound: row identifiers
    MaxRequests,   \* bound: administration requests ever received
    Modulus,       \* the gauge is an AtomicU64: it counts modulo this
    Payloads,      \* what the requests ask
    Databases,     \* tables a process may be started on
    ForeignBoxes,  \* columns of secrets that this process's cipher has not sealed
    None

Ids == 1 .. MaxId
Names == {Canonical(raw) : raw \in RawNames} \ {Invalid}
Secrets == {RepositorySecret(raw) : raw \in RawSecrets} \ {Invalid}

Boxes == {Encrypt(name, secret) : name \in Names, secret \in Secrets} \cup ForeignBoxes
Rows == [name : Names, box : Boxes, enabled : BOOLEAN, born : 0 .. MaxRequests]
Tables == [Ids -> Rows \cup {None}]

\* RepositoryMutation, and the other operations with their arguments.
Writes == {"Create", "Update", "Delete"}
Kinds == Writes \cup {"Get", "List"}

Operations ==
    [kind : {"Create"}, id : {None}, name : Names, secret : Secrets, enabled : BOOLEAN]
    \cup [kind : {"Update"}, id : Ids, name : Names \cup {None},
          secret : Secrets \cup {None}, enabled : BOOLEAN \cup {None}]
    \cup [kind : {"Delete", "Get"}, id : Ids, name : {None}, secret : {None}, enabled : {None}]
    \cup [kind : {"List"}, id : {None}, name : {None}, secret : {None}, enabled : {None}]

ASSUME AdminAssumption ==
    /\ IsFiniteSet(Admins)
    /\ MaxId \in Nat \ {0} /\ MaxRequests \in Nat /\ Modulus \in Nat \ {0}
    /\ ValidMasterKey(MasterKey) /\ ValidAdminToken(AdminToken)
    /\ None \notin Rows \cup Names \cup Secrets \cup BOOLEAN \cup Ids \cup Nat \cup Operations
    /\ Invalid \notin Nat /\ Invalid # None
    /\ \A box \in ForeignBoxes : box.secret \in RawSecrets
    /\ Databases \subseteq Tables
    /\ \A T \in Databases : \A i, j \in Ids :
           T[i] # None =>
               /\ T[i].born = 0
               /\ T[j] # None /\ T[i].name = T[j].name => i = j

\* What serde lets through: the fields that an operation has, each perhaps absent
\* where its type says so, with a row number that may be zero.
ASSUME PayloadAssumption ==
    \A raw \in Payloads :
        /\ raw.kind \in Kinds
        /\ raw.name \in RawNames \cup {None} /\ raw.secret \in RawSecrets \cup {None}
        /\ raw.enabled \in BOOLEAN \cup {None}
        /\ IF raw.kind \in {"Create", "List"} THEN raw.id = None ELSE raw.id \in 0 .. MaxId
        /\ raw.kind = "Create" => raw.name # None /\ raw.secret # None
        /\ raw.kind \in {"Delete", "Get", "List"} =>
               raw.name = None /\ raw.secret = None /\ raw.enabled = None

VARIABLES
    rows,       \* the table repositories
    children,   \* rows of the four tables that reference it, with the row authenticated
    gauge,      \* github_repository_configurations
    pc, op,     \* each administration request: where it stands, what it asks
    snap,       \* the row its transaction has read
    stale,      \* requests whose snapshot is older than the last commit
    answer,     \* each administration request's response: to what, and its status
    hook,       \* each webhook request: the identity it authenticated
    births,     \* requests received so far; stamps the rows they create
    intended,   \* history: what the accepted requests have asked each row to be
    applied,    \* history: requests whose write has committed
    unadjusted  \* history: commits less adjustments of requests that were dropped

tables == <<rows, children>>
requests == <<pc, op, snap, answer>>
vars == <<rows, children, gauge, pc, op, snap, stale, answer, hook, births,
          intended, applied, unadjusted>>

Count(T) == Cardinality({i \in Ids : T[i] # None})

\* authenticate_row and decode_row
Authentic(row) == Decrypt(row.name, row.box) # Invalid

\* INTEGER PRIMARY KEY without AUTOINCREMENT: one more than the largest in use.
NextId(id) == /\ \A j \in Ids : rows[j] # None => j < id
              /\ id > 1 => rows[id - 1] # None

\* UNIQUE(full_name)
Taken(name, id) == \E j \in Ids \ {id} : rows[j] # None /\ rows[j].name = name

\* AppError::repository_store and its response.
StatusOf(error) ==
    CASE error = "NotFound" -> 404
      [] error = "Conflict" -> 409
      [] error = "EmptyMutation" -> 400
      [] OTHER -> 500

\* A field that may be absent, after its constructor; the row number of a path.
Field(raw, constructed) == IF raw = None THEN None ELSE constructed
RepositoryId(raw) == IF raw > 0 THEN raw ELSE Invalid

\* What the handler makes of a raw request.  A new repository is enabled by default.
Parsed(raw) ==
    [kind |-> raw.kind, id |-> Field(raw.id, RepositoryId(raw.id)), name |-> Field(raw.name, Canonical(raw.name)),
     secret |-> Field(raw.secret, RepositorySecret(raw.secret)),
     enabled |-> IF raw.kind = "Create" /\ raw.enabled = None THEN TRUE ELSE raw.enabled]

\* AdminAuthorized, then the validation of the path, the body and its fields.
Refusal(o, header) ==
    CASE ~Authorized(header) -> 401
      [] /\ Authorized(header)
         /\ \/ o.id = Invalid \/ o.name = Invalid \/ o.secret = Invalid
            \/ o.kind = "Update" /\ o.name = None /\ o.secret = None /\ o.enabled = None -> 400
      [] OTHER -> None

Init ==
    /\ rows \in Databases
    /\ children = {}
    /\ gauge = Count(rows) % Modulus
    /\ pc = [r \in Admins |-> "Idle"]
    /\ op = [r \in Admins |-> None]
    /\ snap = [r \in Admins |-> None]
    /\ stale = {}
    /\ answer = [r \in Admins |-> None]
    /\ hook = [h \in Handlers |-> None]
    /\ births = 0
    /\ intended = rows
    /\ applied = {}
    /\ unadjusted = 0

-------------------------------------------------------------------------------
(* The administration API *)

\* The response of r is sent; what its transaction had read is gone.
Respond(r, response) ==
    /\ pc' = [pc EXCEPT ![r] = "Idle"]
    /\ op' = [op EXCEPT ![r] = None]
    /\ snap' = [snap EXCEPT ![r] = None]
    /\ stale' = stale \ {r}
    /\ answer' = [answer EXCEPT ![r] = response]

Fail(r, error) ==
    /\ Respond(r, <<op[r].kind, StatusOf(error)>>)
    /\ UNCHANGED <<tables, gauge, hook, births, intended, applied, unadjusted>>

Receive(r, raw, header) ==
    /\ pc[r] = "Idle" /\ births < MaxRequests
    /\ births' = births + 1
    /\ applied' = applied \ {r}
    /\ LET o == Parsed(raw)
       IN IF Refusal(o, header) = None
          THEN /\ pc' = [pc EXCEPT ![r] = "Store"]
               /\ op' = [op EXCEPT ![r] = o]
               /\ answer' = [answer EXCEPT ![r] = None]
               /\ UNCHANGED <<snap, stale>>
          ELSE Respond(r, <<o.kind, Refusal(o, header)>>)
    /\ UNCHANGED <<tables, gauge, hook, intended, unadjusted>>

\* A commit makes every other open snapshot unwritable.
OpenSnapshots == {q \in Admins : pc[q] = "Read"}
Outdated(r) == r \in stale

Commit(r) ==
    /\ pc' = [pc EXCEPT ![r] = "Committed"]
    /\ snap' = [snap EXCEPT ![r] = None]
    /\ stale' = (stale \cup OpenSnapshots) \ {r}
    /\ applied' = applied \cup {r}
    /\ UNCHANGED <<gauge, op, answer, hook, births, unadjusted>>

\* create_inner
Create(r) ==
    /\ pc[r] = "Store" /\ op[r].kind = "Create"
    /\ IF Taken(op[r].name, 0)
       THEN Fail(r, "Conflict")
       ELSE LET row == [name |-> op[r].name, box |-> Encrypt(op[r].name, op[r].secret),
                        enabled |-> op[r].enabled, born |-> births]
            IN \E id \in {i \in Ids : NextId(i)} :
                   /\ rows' = [rows EXCEPT ![id] = row]
                   /\ intended' = [intended EXCEPT ![id] = row]
                   /\ Commit(r)
                   /\ UNCHANGED children

\* The SELECT that opens the transaction of update_inner and delete_inner.
ReadRow(r) ==
    /\ pc[r] = "Store" /\ op[r].kind \in {"Update", "Delete"}
    /\ CASE rows[op[r].id] = None -> Fail(r, "NotFound")
         [] rows[op[r].id] # None /\ ~Authentic(rows[op[r].id]) -> Fail(r, "Cryptographic")
         [] OTHER ->
              /\ pc' = [pc EXCEPT ![r] = "Read"]
              /\ snap' = [snap EXCEPT ![r] = rows[op[r].id]]
              /\ UNCHANGED <<tables, gauge, op, stale, answer, hook, births,
                             intended, applied, unadjusted>>

\* The row that update_inner writes, from the row it has read: every column is
\* written, and a secret is sealed again for a new name.
Merge(o, row) ==
    LET name == IF o.name = None THEN row.name ELSE o.name
        secret == IF o.secret = None THEN row.box.secret ELSE o.secret
    IN [row EXCEPT !.name = name,
                   !.enabled = IF o.enabled = None THEN row.enabled ELSE o.enabled,
                   !.box = IF name # row.name \/ o.secret # None
                           THEN Encrypt(name, secret) ELSE row.box]

\* Mutant: the row read at the start is written back whatever was committed since.
UpdateBlind(r) ==
    /\ pc[r] = "Read" /\ op[r].kind = "Update"
    /\ LET id == op[r].id
           row == Merge(op[r], snap[r])
       IN IF rows[id] = None \/ Taken(row.name, id)
          THEN Fail(r, "Conflict")
          ELSE /\ rows' = [rows EXCEPT ![id] = row]
               /\ intended' = [intended EXCEPT ![id] = Merge(op[r], intended[id])]
               /\ Commit(r)
               /\ UNCHANGED children

\* The UPDATE of update_inner and the check of the row it returns.
Update(r) ==
    /\ pc[r] = "Read" /\ op[r].kind = "Update"
    /\ LET id == op[r].id
           row == Merge(op[r], snap[r])
       IN CASE Outdated(r) -> Fail(r, "Unavailable")
            [] ~Outdated(r) /\ Taken(row.name, id) -> Fail(r, "Conflict")
            [] ~Outdated(r) /\ ~Taken(row.name, id) /\ ~Authentic(row) -> Fail(r, "Cryptographic")
            [] OTHER ->
                 /\ rows' = [rows EXCEPT ![id] = row]
                 /\ intended' = [intended EXCEPT ![id] = Merge(op[r], intended[id])]
                 /\ Commit(r)
                 /\ UNCHANGED children

\* Mutant: a connection on which foreign keys are not enforced.
CascadeUnenforced(id) == {c \in children : c.repository \in Ids}

\* ON DELETE CASCADE, with foreign_keys(true) on every connection.
Cascade(id) == {c \in children : c.repository # id}

\* Mutant: the rows deleted are not counted and an old snapshot is no obstacle.
DeleteBlind(r) ==
    /\ pc[r] = "Read" /\ op[r].kind = "Delete"
    /\ rows' = [rows EXCEPT ![op[r].id] = None]
    /\ intended' = [intended EXCEPT ![op[r].id] = None]
    /\ children' = Cascade(op[r].id)
    /\ Commit(r)

\* The DELETE of delete_inner.
Delete(r) ==
    /\ pc[r] = "Read" /\ op[r].kind = "Delete"
    /\ IF Outdated(r)
       THEN Fail(r, "Unavailable")
       ELSE /\ rows' = [rows EXCEPT ![op[r].id] = None]
            /\ intended' = [intended EXCEPT ![op[r].id] = None]
            /\ children' = Cascade(op[r].id)
            /\ Commit(r)

\* What the handler does to the gauge once its write has committed.
Adjustment(o) ==
    CASE o.kind = "Create" -> 1
      [] o.kind = "Delete" -> -1
      [] OTHER -> 0

\* The rest of the handler: the gauge, then the response.
Finish(r) ==
    /\ pc[r] = "Committed"
    /\ gauge' = (gauge + Adjustment(op[r])) % Modulus
    /\ Respond(r, <<op[r].kind, CASE op[r].kind = "Create" -> 201
                                  [] op[r].kind = "Delete" -> 204
                                  [] OTHER -> 200>>)
    /\ UNCHANGED <<tables, hook, births, intended, applied, unadjusted>>

\* A row is answered only if its secret opens, and a list only if all of them do.
Read(r, ids) ==
    /\ pc[r] = "Store"
    /\ CASE \E i \in ids : rows[i] = None -> Fail(r, "NotFound")
         [] /\ \A i \in ids : rows[i] # None
            /\ \E i \in ids : ~Authentic(rows[i]) -> Fail(r, "Cryptographic")
         [] OTHER -> /\ Respond(r, <<op[r].kind, 200>>)
                     /\ UNCHANGED <<tables, gauge, hook, births, intended, applied, unadjusted>>

Get(r) == op[r] # None /\ op[r].kind = "Get" /\ Read(r, {op[r].id})
List(r) == op[r] # None /\ op[r].kind = "List" /\ Read(r, {i \in Ids : rows[i] # None})

\* The pool, the statement or the commit fails: the transaction rolls back.
StoreFails(r) ==
    /\ pc[r] \in {"Store", "Read"}
    /\ \E error \in {"Unavailable", "InternalData", "Internal"} : Fail(r, error)

\* The client disconnects and the handler is dropped where it is suspended;
\* a commit already sent to the connection's thread is not taken back.
Disconnect(r) ==
    /\ pc[r] # "Idle"
    /\ Respond(r, None)
    /\ unadjusted' = IF pc[r] = "Committed"
                     THEN (unadjusted + Adjustment(op[r])) % Modulus ELSE unadjusted
    /\ UNCHANGED <<tables, gauge, hook, births, intended, applied>>

-------------------------------------------------------------------------------
(* The webhook handlers *)

\* authentication_material_inner: the row of the name, if it is enabled.
Enabled(name) == {i \in Ids : rows[i] # None /\ rows[i].name = name /\ rows[i].enabled}

\* WebhookAuthenticator::authenticate: 401 for an unknown or disabled repository and
\* for a wrong signature, 503 when the secret cannot be read.
Authentication(name, secret) ==
    LET found == {Decrypt(name, rows[i].box) : i \in Enabled(name)}
    IN CASE found = {} -> 401
         [] Invalid \in found -> 503
         [] found # {} /\ Invalid \notin found /\ secret \notin found -> 401
         [] OTHER -> None

\* A signed request is admitted; a refused one leaves no trace.
Authenticate(h, rawname, signature) ==
    /\ hook[h] = None
    /\ Canonical(rawname) # Invalid /\ Signature(signature) # Invalid
    /\ Authentication(Canonical(rawname), Signature(signature)) = None
    /\ \E i \in Enabled(Canonical(rawname)) :
           hook' = [hook EXCEPT ![h] = [repository |-> i, born |-> rows[i].born]]
    /\ UNCHANGED <<tables, gauge, requests, stale, births, intended, applied, unadjusted>>

\* A store the handler writes to inserts a row under the identity authenticated
\* before; the reference is refused when no such repository exists any more.
Insert(h) ==
    /\ hook[h] # None
    /\ LET i == hook[h].repository
       IN IF rows[i] = None
          THEN UNCHANGED <<children, stale>>
          ELSE /\ children' = children \cup
                      {[repository |-> i, born |-> hook[h].born,
                        late |-> rows[i].born # hook[h].born]}
               /\ stale' = stale \cup OpenSnapshots
    /\ hook' = [hook EXCEPT ![h] = None]
    /\ UNCHANGED <<rows, gauge, requests, births, intended, applied, unadjusted>>

\* The handler fails, writes nothing, or is dropped.
Abandon(h) ==
    /\ hook[h] # None
    /\ hook' = [hook EXCEPT ![h] = None]
    /\ UNCHANGED <<tables, gauge, requests, stale, births, intended, applied, unadjusted>>

-------------------------------------------------------------------------------
(* The process *)

\* The process dies and starts again: initialize_repository_metrics counts the rows.
Restart ==
    /\ pc' = [r \in Admins |-> "Idle"]
    /\ op' = [r \in Admins |-> None]
    /\ snap' = [r \in Admins |-> None]
    /\ answer' = [r \in Admins |-> None]
    /\ hook' = [h \in Handlers |-> None]
    /\ stale' = {} /\ applied' = {} /\ unadjusted' = 0
    /\ gauge' = Count(rows) % Modulus
    /\ UNCHANGED <<tables, births, intended>>

AdminStep(r) ==
    \/ \E raw \in Payloads, header \in Headers : Receive(r, raw, header)
    \/ Create(r) \/ ReadRow(r) \/ Update(r) \/ Delete(r) \/ Get(r) \/ List(r)
    \/ Finish(r) \/ StoreFails(r) \/ Disconnect(r)

HookStep(h) ==
    \/ \E rawname \in RawNames, signature \in Signatures : Authenticate(h, rawname, signature)
    \/ Insert(h) \/ Abandon(h)

Next ==
    \/ \E r \in Admins : AdminStep(r)
    \/ \E h \in Handlers : HookStep(h)
    \/ Restart

Spec == Init /\ [][Next]_vars

-------------------------------------------------------------------------------
(* Properties *)

Identities == [repository : Ids, born : 0 .. MaxRequests]

\* Type correctness, and what each place of a request knows.
TypeOK ==
    /\ rows \in Tables /\ intended \in Tables
    /\ children \subseteq [repository : Ids, born : 0 .. MaxRequests, late : BOOLEAN]
    /\ gauge \in 0 .. Modulus - 1 /\ unadjusted \in 0 .. Modulus - 1
    /\ pc \in [Admins -> {"Idle", "Store", "Read", "Committed"}]
    /\ op \in [Admins -> Operations \cup {None}]
    /\ snap \in [Admins -> Rows \cup {None}]
    /\ stale \subseteq OpenSnapshots
    /\ answer \in [Admins -> (Kinds \X Nat) \cup {None}]
    /\ hook \in [Handlers -> Identities \cup {None}]
    /\ births \in 0 .. MaxRequests
    /\ applied \subseteq Admins
    /\ \A r \in Admins :
           /\ pc[r] = "Idle" <=> op[r] = None
           /\ pc[r] = "Read" <=> snap[r] # None
           /\ pc[r] = "Read" => op[r].kind \in {"Update", "Delete"} /\ op[r].id \in Ids

\* Each row is field by field what the writes accepted for it ask, in the order
\* of their commits: no update, although it writes every column from an earlier
\* read, takes back what another one has committed in between.  A creation, an
\* update or a deletion is answered as done when its own write has committed and
\* only then, and with an error only when it has written nothing.
RowsAsTold ==
    /\ rows = intended
    /\ \A r \in Admins :
           answer[r] # None => (r \in applied <=> answer[r][1] \in Writes /\ answer[r][2] < 400)

\* The gauge is the number of rows, modulo its width, but for the requests that
\* have committed and not adjusted it yet and those dropped in that state since
\* the process started: no other order of requests, failures and losers of a
\* race moves it away, and a restart makes it exact.
Pending(kind) == Cardinality({r \in Admins : pc[r] = "Committed" /\ op[r].kind = kind})
GaugeConserved ==
    (gauge + Pending("Create") - Pending("Delete") + unadjusted) % Modulus = Count(rows) % Modulus

\* A row that refers to a repository refers to one that exists, and to the one
\* whose signature was verified, although identifiers are used again: what was
\* written for a deleted repository is never inherited by the next one of its
\* number.  Only a handler that was suspended while its repository was deleted
\* and the number given away can write under the wrong one.
NothingInherited ==
    \A c \in children :
        /\ rows[c.repository] # None
        /\ c.born = rows[c.repository].born \/ c.late
===============================================================================
