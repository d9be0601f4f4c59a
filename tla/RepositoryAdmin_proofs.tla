----------------------- MODULE RepositoryAdmin_proofs ------------------------
(***************************************************************************)
(* Proofs about RepositoryAdmin for any requests, handlers, payloads,      *)
(* credentials and databases that satisfy AdminAssumption and              *)
(* PayloadAssumption.                                                      *)
(***************************************************************************)
EXTENDS RepositoryAdmin, TLAPS, FiniteSetTheorems

\* What a transaction has read opens under its name, and is still the row of the
\* table unless somebody has committed since.
SnapInv ==
    \A r \in Admins :
        pc[r] = "Read" => /\ Authentic(snap[r])
                          /\ r \notin stale => rows[op[r].id] = snap[r]

\* The write of a request precedes its answer.
AnswerInv ==
    \A r \in Admins :
        /\ pc[r] # "Idle" => answer[r] = None
        /\ pc[r] \in {"Store", "Read"} => r \notin applied
        /\ pc[r] = "Committed" => r \in applied /\ op[r].kind \in Writes

IInv == TypeOK /\ SnapInv /\ AnswerInv /\ RowsAsTold /\ NothingInherited

-------------------------------------------------------------------------------
(* Values *)

LEMMA CountIsNatural == ASSUME NEW T PROVE Count(T) \in Nat
<1>1. MaxId \in Nat
    BY AdminAssumption
<1>2. IsFiniteSet(Ids)
    BY <1>1, FS_Interval DEF Ids
<1>3. IsFiniteSet({i \in Ids : T[i] # None})
    BY <1>2, FS_Subset
<1> QED BY <1>3, FS_CardinalityType DEF Count

LEMMA GaugeInRange == ASSUME NEW n \in Int PROVE n % Modulus \in 0 .. Modulus - 1
<1>1. Modulus \in Nat \ {0}
    BY AdminAssumption
<1> QED BY <1>1

LEMMA AdjustmentIsInteger == ASSUME NEW o PROVE Adjustment(o) \in Int
BY DEF Adjustment

LEMMA StatusIsNatural ==
    ASSUME NEW e PROVE StatusOf(e) \in {400, 404, 409, 500}
BY DEF StatusOf

LEMMA NoneIsNothingElse ==
    /\ None \notin Rows /\ None \notin Names /\ None \notin Secrets /\ None \notin BOOLEAN
    /\ None \notin Ids /\ None \notin Nat /\ None \notin Operations
BY AdminAssumption

\* A request that is not refused is an operation.
LEMMA ParsedIsOperation ==
    ASSUME NEW raw \in Payloads, NEW header, Refusal(Parsed(raw), header) = None
    PROVE  Parsed(raw) \in Operations
<1> DEFINE o == Parsed(raw)
<1>1. 401 # None /\ 400 # None
    BY NoneIsNothingElse
<1>2. o.id # Invalid /\ o.name # Invalid /\ o.secret # Invalid
    BY <1>1 DEF Refusal
<1>3. raw.name # None => o.name \in Names
    BY <1>2, PayloadAssumption DEF Parsed, Field, Names
<1>4. raw.secret # None => o.secret \in Secrets
    BY <1>2, PayloadAssumption DEF Parsed, Field, Secrets
<1>5. (raw.name = None => o.name = None) /\ (raw.secret = None => o.secret = None)
    BY DEF Parsed, Field
<1>6. raw.id = None => o.id = None
    BY DEF Parsed, Field
<1>7. raw.kind \notin {"Create", "List"} => o.id \in Ids
    <2> SUFFICES ASSUME raw.kind \notin {"Create", "List"} PROVE o.id \in Ids
        OBVIOUS
    <2>1. raw.id \in 0 .. MaxId
        BY PayloadAssumption
    <2>2. raw.id # None
        BY <2>1, NoneIsNothingElse, AdminAssumption
    <2>3. o.id = RepositoryId(raw.id)
        BY <2>2 DEF Parsed, Field
    <2> QED BY <2>1, <2>3, <1>2, AdminAssumption DEF RepositoryId, Ids
<1>8. o.enabled = IF raw.kind = "Create" /\ raw.enabled = None THEN TRUE ELSE raw.enabled
    BY DEF Parsed
<1>9. o = [kind |-> raw.kind, id |-> o.id, name |-> o.name, secret |-> o.secret,
           enabled |-> o.enabled]
    BY DEF Parsed
<1>10. raw.kind \in {"Create", "Update", "Delete", "Get", "List"}
    BY PayloadAssumption DEF Kinds, Writes
<1>11. o.enabled \in BOOLEAN \cup {None} /\ (raw.kind = "Create" => o.enabled \in BOOLEAN)
    BY <1>8, PayloadAssumption
<1> HIDE DEF o
<1>12. CASE raw.kind = "Create"
    <2>1. o.id = None /\ o.name \in Names /\ o.secret \in Secrets /\ o.enabled \in BOOLEAN
        BY <1>12, <1>3, <1>4, <1>6, <1>11, PayloadAssumption
    <2> QED BY <2>1, <1>9, <1>12 DEF Operations, o
<1>13. CASE raw.kind = "Update"
    <2>1. o.id \in Ids /\ o.name \in Names \cup {None} /\ o.secret \in Secrets \cup {None}
        BY <1>13, <1>3, <1>4, <1>5, <1>7
    <2> QED BY <2>1, <1>9, <1>11, <1>13 DEF Operations, o
<1>14. CASE raw.kind \in {"Delete", "Get"}
    <2>1. o.id \in Ids /\ o.name = None /\ o.secret = None /\ o.enabled = None
        BY <1>14, <1>5, <1>7, <1>8, PayloadAssumption
    <2> QED BY <2>1, <1>9, <1>14 DEF Operations, o
<1>15. CASE raw.kind = "List"
    <2>1. o.id = None /\ o.name = None /\ o.secret = None /\ o.enabled = None
        BY <1>15, <1>5, <1>6, <1>8, PayloadAssumption
    <2> QED BY <2>1, <1>9, <1>15 DEF Operations, o
<1> QED BY <1>10, <1>12, <1>13, <1>14, <1>15

\* A secret that opens is one a constructor would have sealed.
LEMMA SealedIsBox ==
    ASSUME NEW name \in Names, NEW secret \in Secrets
    PROVE  Encrypt(name, secret) \in Boxes
BY DEF Boxes

LEMMA OpenedIsSecret ==
    ASSUME NEW row \in Rows, Authentic(row)
    PROVE  row.box.secret \in Secrets
<1>1. row.box \in Boxes
    BY DEF Rows
<1>2. row.box.secret \in RawSecrets
    <2>1. ASSUME NEW name \in Names, NEW secret \in Secrets, row.box = Encrypt(name, secret)
          PROVE  row.box.secret \in RawSecrets
        <3>1. row.box.secret = secret
            BY <2>1 DEF Encrypt
        <3>2. secret \in RawSecrets
            BY DEF Secrets, RepositorySecret
        <3> QED BY <3>1, <3>2
    <2>2. row.box \in ForeignBoxes => row.box.secret \in RawSecrets
        BY AdminAssumption
    <2> QED BY <1>1, <2>1, <2>2 DEF Boxes
<1>3. RepositorySecret(row.box.secret) # Invalid
    BY DEF Authentic, Decrypt, FromDecryptedBytes
<1>4. RepositorySecret(row.box.secret) = row.box.secret
    BY <1>3 DEF RepositorySecret
<1> QED BY <1>2, <1>3, <1>4 DEF Secrets

LEMMA MergedIsRow ==
    ASSUME NEW o \in Operations, o.kind = "Update", NEW row \in Rows, Authentic(row)
    PROVE  Merge(o, row) \in Rows /\ Merge(o, row).born = row.born
<1> DEFINE name == IF o.name = None THEN row.name ELSE o.name
           secret == IF o.secret = None THEN row.box.secret ELSE o.secret
           enabled == IF o.enabled = None THEN row.enabled ELSE o.enabled
           box == IF name # row.name \/ o.secret # None THEN Encrypt(name, secret) ELSE row.box
<1>1. /\ o.name \in Names \cup {None} /\ o.secret \in Secrets \cup {None}
      /\ o.enabled \in BOOLEAN \cup {None}
    BY DEF Operations
<1>2. row = [name |-> row.name, box |-> row.box, enabled |-> row.enabled, born |-> row.born]
    BY DEF Rows
<1>3. row.name \in Names /\ row.box \in Boxes /\ row.enabled \in BOOLEAN /\ row.born \in 0 .. MaxRequests
    BY DEF Rows
<1>4. name \in Names /\ secret \in Secrets /\ enabled \in BOOLEAN
    BY <1>1, <1>3, OpenedIsSecret
<1>5. box \in Boxes
    BY <1>3, <1>4, SealedIsBox
<1>6. Merge(o, row) = [row EXCEPT !.name = name, !.enabled = enabled, !.box = box]
    BY DEF Merge
<1> HIDE DEF name, secret, enabled, box
<1>7. Merge(o, row) = [name |-> name, box |-> box, enabled |-> enabled, born |-> row.born]
    BY <1>2, <1>6
<1> QED BY <1>3, <1>4, <1>5, <1>7 DEF Rows

-------------------------------------------------------------------------------
(* Steps *)

LEMMA InitIInv == Init => IInv
<1> SUFFICES ASSUME Init PROVE IInv
    OBVIOUS
<1>1. rows \in Tables /\ Databases \subseteq Tables
    BY AdminAssumption DEF Init
<1>2. gauge \in 0 .. Modulus - 1
    BY CountIsNatural, GaugeInRange DEF Init
<1>3. 0 \in 0 .. Modulus - 1 /\ 0 \in 0 .. MaxRequests
    BY AdminAssumption
<1>4. TypeOK
    BY <1>1, <1>2, <1>3 DEF Init, TypeOK
<1>5. SnapInv /\ AnswerInv /\ RowsAsTold /\ NothingInherited
    BY NoneIsNothingElse DEF Init, SnapInv, AnswerInv, RowsAsTold, NothingInherited
<1> QED BY <1>4, <1>5 DEF IInv

LEMMA OperationKinds == \A o \in Operations : o.kind \in Kinds
BY DEF Operations, Kinds, Writes

\* What is said of r is true of what it has written.
Truthful(response, written) ==
    response # None => (written <=> response[1] \in Writes /\ response[2] < 400)

\* A response changes nothing that the invariant says of the tables.
LEMMA RespondKeeps ==
    ASSUME IInv, NEW r \in Admins, NEW response \in (Kinds \X Nat) \cup {None}, Respond(r, response),
           UNCHANGED <<tables, hook, intended>>,
           births' \in 0 .. MaxRequests,
           gauge' \in 0 .. Modulus - 1, unadjusted' \in 0 .. Modulus - 1,
           applied' \subseteq Admins,
           \A q \in Admins \ {r} : q \in applied' <=> q \in applied,
           Truthful(response, r \in applied')
    PROVE  IInv'
<1> USE DEF IInv, tables, Respond
<1>1. TypeOK'
    BY DEF TypeOK, OpenSnapshots
<1>2. SnapInv' /\ AnswerInv'
    BY NoneIsNothingElse DEF TypeOK, SnapInv, AnswerInv, Authentic
<1>3. RowsAsTold'
    <2>1. rows' = intended'
        BY DEF RowsAsTold
    <2>2. ASSUME NEW q \in Admins PROVE Truthful(answer'[q], q \in applied')
        <3>1. CASE q = r
            BY <3>1 DEF TypeOK
        <3>2. CASE q # r
            BY <3>2 DEF TypeOK, RowsAsTold, Truthful
        <3> QED BY <3>1, <3>2
    <2> QED BY <2>1, <2>2 DEF RowsAsTold, Truthful
<1>4. NothingInherited'
    BY DEF NothingInherited
<1> QED BY <1>1, <1>2, <1>3, <1>4

\* A request past its refusals is an operation.
LEMMA StartedIsOperation ==
    ASSUME TypeOK, NEW r \in Admins, pc[r] # "Idle"
    PROVE  op[r] \in Operations
BY NoneIsNothingElse DEF TypeOK

LEMMA FailKeeps ==
    ASSUME IInv, NEW r \in Admins, pc[r] \in {"Store", "Read"}, NEW error, Fail(r, error)
    PROVE  IInv'
<1> DEFINE status == StatusOf(error)
           response == <<op[r].kind, status>>
<1>1. status \in Nat /\ ~(status < 400)
    BY StatusIsNatural
<1>2. op[r].kind \in Kinds /\ r \notin applied
    BY StartedIsOperation, OperationKinds DEF IInv, AnswerInv
<1>3. Respond(r, response) /\ applied' = applied /\ UNCHANGED <<tables, hook, intended>>
    BY DEF Fail
<1>4. births' \in 0 .. MaxRequests /\ gauge' \in 0 .. Modulus - 1 /\ unadjusted' \in 0 .. Modulus - 1
      /\ applied' \subseteq Admins
    BY DEF Fail, IInv, TypeOK
<1> HIDE DEF status
<1>5. response \in (Kinds \X Nat) \cup {None} /\ response[2] = status
    BY <1>1, <1>2
<1> HIDE DEF response
<1>6. Truthful(response, r \in applied')
    BY <1>1, <1>2, <1>3, <1>5 DEF Truthful
<1> QED BY <1>3, <1>4, <1>5, <1>6, RespondKeeps

\* The commit of one row: every other open transaction is told by its snapshot.
LEMMA CommitKeeps ==
    ASSUME IInv, NEW r \in Admins, pc[r] \in {"Store", "Read"}, op[r].kind \in Writes, Commit(r),
           NEW id \in Ids, NEW row \in Rows \cup {None},
           rows' = [rows EXCEPT ![id] = row], intended' = rows',
           children' \subseteq children, NothingInherited'
    PROVE  IInv'
<1> USE DEF IInv, Commit
<1>1. TypeOK'
    <2>1. rows' \in Tables
        BY DEF TypeOK, Tables
    <2>2. /\ pc' \in [Admins -> {"Idle", "Store", "Read", "Committed"}]
          /\ snap' \in [Admins -> Rows \cup {None}]
          /\ applied' \subseteq Admins
          /\ stale' \subseteq OpenSnapshots'
        BY DEF TypeOK, OpenSnapshots
    <2>3. \A q \in Admins :
              /\ pc'[q] = "Idle" <=> op'[q] = None
              /\ pc'[q] = "Read" <=> snap'[q] # None
              /\ pc'[q] = "Read" => op'[q].kind \in {"Update", "Delete"} /\ op'[q].id \in Ids
        BY DEF TypeOK
    <2> QED BY <2>1, <2>2, <2>3 DEF TypeOK
<1>2. SnapInv'
    BY DEF TypeOK, SnapInv, OpenSnapshots, Authentic
<1>3. AnswerInv'
    BY DEF TypeOK, AnswerInv
<1>4. RowsAsTold'
    BY NoneIsNothingElse DEF TypeOK, RowsAsTold, AnswerInv
<1> QED BY <1>1, <1>2, <1>3, <1>4

LEMMA ReceiveKeeps ==
    ASSUME IInv, NEW r \in Admins, NEW raw \in Payloads, NEW header, Receive(r, raw, header)
    PROVE  IInv'
<1> DEFINE o == Parsed(raw)
<1>1. births' \in 0 .. MaxRequests
    BY AdminAssumption DEF Receive, IInv, TypeOK
<1>2. applied' \subseteq Admins /\ \A q \in Admins \ {r} : q \in applied' <=> q \in applied
    BY DEF Receive, IInv, TypeOK
<1>3. r \notin applied'
    BY DEF Receive
<1>4. CASE Refusal(o, header) # None
    <2>1. Respond(r, <<o.kind, Refusal(o, header)>>)
        BY <1>4 DEF Receive
    <2> DEFINE status == Refusal(o, header)
               response == <<o.kind, status>>
    <2>2. status \in Nat /\ ~(status < 400)
        <3>1. status \in {400, 401}
            BY <1>4 DEF Refusal
        <3> QED BY <3>1
    <2>5. o.kind \in Kinds
        BY PayloadAssumption DEF Parsed
    <2>3. gauge' \in 0 .. Modulus - 1 /\ unadjusted' \in 0 .. Modulus - 1
        BY DEF Receive, IInv, TypeOK
    <2>4. UNCHANGED <<tables, hook, intended>>
        BY DEF Receive
    <2> HIDE DEF o, status
    <2>6. response \in (Kinds \X Nat) \cup {None} /\ response[2] = status
        BY <2>2, <2>5
    <2>7. Respond(r, response)
        BY <2>1 DEF status
    <2> HIDE DEF response
    <2>8. Truthful(response, r \in applied')
        BY <1>3, <2>2, <2>6 DEF Truthful
    <2> QED BY <1>1, <1>2, <2>3, <2>4, <2>6, <2>7, <2>8, RespondKeeps
<1>5. CASE Refusal(o, header) = None
    <2>1. o \in Operations
        BY <1>5, ParsedIsOperation
    <2>2. o # None
        BY <2>1, NoneIsNothingElse
    <2>3. /\ pc' = [pc EXCEPT ![r] = "Store"] /\ op' = [op EXCEPT ![r] = o]
          /\ answer' = [answer EXCEPT ![r] = None]
          /\ UNCHANGED <<rows, children, snap, stale, gauge, hook, intended, unadjusted>>
        BY <1>5 DEF Receive, tables
    <2>4. pc[r] = "Idle"
        BY DEF Receive
    <2> HIDE DEF o
    <2> USE DEF IInv
    <2>5. TypeOK'
        <3>1. stale' \subseteq OpenSnapshots'
            BY <2>3, <2>4 DEF TypeOK, OpenSnapshots
        <3> QED BY <1>1, <1>2, <2>1, <2>2, <2>3, <2>4, <3>1 DEF TypeOK
    <2>6. SnapInv' /\ AnswerInv'
        BY <1>2, <1>3, <2>3, <2>4 DEF TypeOK, SnapInv, AnswerInv, Authentic
    <2>7. RowsAsTold' /\ NothingInherited'
        BY <1>2, <1>3, <2>3, NoneIsNothingElse DEF TypeOK, RowsAsTold, NothingInherited
    <2> QED BY <2>5, <2>6, <2>7
<1> QED BY <1>4, <1>5

LEMMA CreateKeeps == ASSUME IInv, NEW r \in Admins, Create(r) PROVE IInv'
<1>1. pc[r] = "Store" /\ op[r].kind = "Create"
    BY DEF Create
<1>2. r \notin applied
    BY <1>1 DEF IInv, AnswerInv
<1>3. CASE Taken(op[r].name, 0)
    BY <1>1, <1>3, FailKeeps DEF Create
<1>4. CASE ~Taken(op[r].name, 0)
    <2> DEFINE row == [name |-> op[r].name, box |-> Encrypt(op[r].name, op[r].secret),
                       enabled |-> op[r].enabled, born |-> births]
    <2>1. PICK id \in Ids : /\ NextId(id)
                            /\ rows' = [rows EXCEPT ![id] = row]
                            /\ intended' = [intended EXCEPT ![id] = row]
                            /\ Commit(r) /\ UNCHANGED children
        BY <1>4 DEF Create
    <2>2. op[r] \in Operations
        BY <1>1, StartedIsOperation DEF IInv
    <2>3. op[r].name \in Names /\ op[r].secret \in Secrets /\ op[r].enabled \in BOOLEAN
        BY <1>1, <2>2 DEF Operations
    <2>4. births \in 0 .. MaxRequests
        BY DEF IInv, TypeOK
    <2>5. row \in Rows
        BY <2>3, <2>4, SealedIsBox DEF Rows
    <2> HIDE DEF row
    <2>6. intended' = rows'
        BY <2>1 DEF IInv, RowsAsTold
    <2>7. rows[id] = None
        BY <2>1 DEF NextId, Ids
    <2>8. NothingInherited'
        <3> SUFFICES ASSUME NEW c \in children
                     PROVE  /\ rows'[c.repository] # None
                            /\ c.born = rows'[c.repository].born \/ c.late
            BY <2>1 DEF NothingInherited
        <3>1. c.repository # id
            BY <2>7 DEF IInv, NothingInherited
        <3>2. rows'[c.repository] = rows[c.repository]
            BY <2>1, <3>1 DEF IInv, TypeOK, Tables
        <3> QED BY <3>2 DEF IInv, NothingInherited
    <2> QED BY <1>1, <2>1, <2>5, <2>6, <2>8, CommitKeeps DEF Writes
<1> QED BY <1>3, <1>4

LEMMA ReadRowKeeps == ASSUME IInv, NEW r \in Admins, ReadRow(r) PROVE IInv'
<1>1. pc[r] = "Store" /\ op[r].kind \in {"Update", "Delete"}
    BY DEF ReadRow
<1>2. r \notin applied
    BY <1>1 DEF IInv, AnswerInv
<1>3. op[r].id \in Ids
    <2>1. op[r] \in Operations
        BY <1>1, StartedIsOperation DEF IInv
    <2> QED BY <1>1, <2>1 DEF Operations
<1>4. CASE Fail(r, "NotFound") \/ Fail(r, "Cryptographic")
    BY <1>1, <1>4, FailKeeps
<1>5. CASE rows[op[r].id] # None /\ Authentic(rows[op[r].id])
    <2>1. /\ pc' = [pc EXCEPT ![r] = "Read"]
          /\ snap' = [snap EXCEPT ![r] = rows[op[r].id]]
          /\ UNCHANGED <<rows, children, gauge, op, stale, answer, hook, births, intended,
                         applied, unadjusted>>
        BY <1>5 DEF ReadRow, tables
    <2> USE DEF IInv
    <2>2. rows[op[r].id] \in Rows
        BY <1>3, <1>5 DEF TypeOK, Tables
    <2>3. TypeOK'
        <3>1. stale' \subseteq OpenSnapshots'
            BY <2>1, <1>1 DEF TypeOK, OpenSnapshots
        <3> QED BY <1>1, <1>3, <1>5, <2>1, <2>2, <3>1 DEF TypeOK
    <2>4. SnapInv'
        BY <1>5, <2>1 DEF TypeOK, SnapInv, Authentic
    <2>5. AnswerInv' /\ RowsAsTold' /\ NothingInherited'
        BY <1>1, <2>1 DEF TypeOK, AnswerInv, RowsAsTold, NothingInherited
    <2> QED BY <2>3, <2>4, <2>5
<1> QED BY <1>4, <1>5 DEF ReadRow

LEMMA UpdateKeeps == ASSUME IInv, NEW r \in Admins, Update(r) PROVE IInv'
<1> DEFINE id == op[r].id
           row == Merge(op[r], snap[r])
<1>1. pc[r] = "Read" /\ op[r].kind = "Update"
    BY DEF Update
<1>2. r \notin applied
    BY <1>1 DEF IInv, AnswerInv
<1>3. CASE Fail(r, "Unavailable") \/ Fail(r, "Conflict") \/ Fail(r, "Cryptographic")
    BY <1>1, <1>3, FailKeeps
<1>4. CASE /\ r \notin stale
           /\ rows' = [rows EXCEPT ![id] = row]
           /\ intended' = [intended EXCEPT ![id] = Merge(op[r], intended[id])]
           /\ Commit(r) /\ UNCHANGED children
    <2>1. op[r] \in Operations /\ id \in Ids
        BY <1>1, StartedIsOperation DEF IInv, TypeOK
    <2>2. snap[r] \in Rows /\ Authentic(snap[r]) /\ rows[id] = snap[r]
        BY <1>1, <1>4 DEF IInv, TypeOK, SnapInv
    <2>3. row \in Rows /\ row.born = rows[id].born
        BY <1>1, <2>1, <2>2, MergedIsRow
    <2>4. intended' = rows'
        BY <1>4, <2>2 DEF IInv, RowsAsTold
    <2> HIDE DEF row, id
    <2>5. NothingInherited'
        <3> SUFFICES ASSUME NEW c \in children
                     PROVE  /\ rows'[c.repository] # None
                            /\ c.born = rows'[c.repository].born \/ c.late
            BY <1>4 DEF NothingInherited
        <3>1. rows[c.repository] # None /\ (c.born = rows[c.repository].born \/ c.late)
            BY DEF IInv, NothingInherited
        <3>2. rows'[c.repository] = IF c.repository = id THEN row ELSE rows[c.repository]
            BY <1>4, <2>1 DEF IInv, TypeOK, Tables
        <3> QED BY <2>3, <3>1, <3>2, NoneIsNothingElse
    <2> QED BY <1>1, <1>4, <2>1, <2>3, <2>4, <2>5, CommitKeeps DEF Writes
<1> QED BY <1>3, <1>4 DEF Update, Outdated

LEMMA DeleteKeeps == ASSUME IInv, NEW r \in Admins, Delete(r) PROVE IInv'
<1> DEFINE id == op[r].id
<1>1. pc[r] = "Read" /\ op[r].kind = "Delete"
    BY DEF Delete
<1>2. r \notin applied
    BY <1>1 DEF IInv, AnswerInv
<1>3. CASE Fail(r, "Unavailable")
    BY <1>1, <1>3, FailKeeps
<1>4. CASE /\ rows' = [rows EXCEPT ![id] = None]
           /\ intended' = [intended EXCEPT ![id] = None]
           /\ children' = Cascade(id) /\ Commit(r)
    <2>1. id \in Ids
        BY <1>1 DEF IInv, TypeOK
    <2>2. intended' = rows'
        BY <1>4 DEF IInv, RowsAsTold
    <2> HIDE DEF id
    <2>3. NothingInherited'
        <3> SUFFICES ASSUME NEW c \in children, c.repository # id
                     PROVE  /\ rows'[c.repository] # None
                            /\ c.born = rows'[c.repository].born \/ c.late
            BY <1>4 DEF NothingInherited, Cascade
        <3>1. rows'[c.repository] = rows[c.repository]
            BY <1>4 DEF IInv, TypeOK, Tables
        <3> QED BY <3>1 DEF IInv, NothingInherited
    <2>4. children' \subseteq children
        BY <1>4 DEF Cascade
    <2> QED BY <1>1, <1>4, <2>1, <2>2, <2>3, <2>4, CommitKeeps DEF Writes
<1> QED BY <1>3, <1>4 DEF Delete

LEMMA FinishKeeps == ASSUME IInv, NEW r \in Admins, Finish(r) PROVE IInv'
<1> DEFINE status == CASE op[r].kind = "Create" -> 201
                       [] op[r].kind = "Delete" -> 204
                       [] OTHER -> 200
           response == <<op[r].kind, status>>
<1>1. Respond(r, response) /\ UNCHANGED <<tables, hook, births, intended, applied, unadjusted>>
    BY DEF Finish
<1>2. status \in Nat /\ status < 400
    OBVIOUS
<1>7. op[r].kind \in Kinds
    BY StartedIsOperation, OperationKinds DEF Finish, IInv
<1> HIDE DEF status
<1>8. response \in (Kinds \X Nat) \cup {None} /\ response[1] = op[r].kind /\ response[2] = status
    BY <1>2, <1>7
<1> HIDE DEF response
<1>3. r \in applied
    BY DEF Finish, IInv, AnswerInv
<1>4. gauge + Adjustment(op[r]) \in Int
    BY AdjustmentIsInteger, AdminAssumption DEF IInv, TypeOK
<1>5. gauge' \in 0 .. Modulus - 1
    BY <1>4, GaugeInRange DEF Finish
<1>6. births' \in 0 .. MaxRequests /\ unadjusted' \in 0 .. Modulus - 1 /\ applied' \subseteq Admins
    BY <1>1 DEF IInv, TypeOK
<1>9. op[r].kind \in Writes
    BY DEF Finish, IInv, AnswerInv
<1>10. Truthful(response, r \in applied')
    BY <1>1, <1>2, <1>3, <1>8, <1>9 DEF Truthful
<1> QED BY <1>1, <1>5, <1>6, <1>8, <1>10, RespondKeeps

LEMMA ReadKeeps ==
    ASSUME IInv, NEW r \in Admins, NEW ids, op[r].kind \in {"Get", "List"}, Read(r, ids) PROVE IInv'
<1>1. r \notin applied /\ pc[r] \in {"Store", "Read"}
    BY DEF Read, IInv, AnswerInv
<1>2. CASE Fail(r, "NotFound") \/ Fail(r, "Cryptographic")
    BY <1>1, <1>2, FailKeeps
<1>3. CASE /\ Respond(r, <<op[r].kind, 200>>)
           /\ UNCHANGED <<tables, gauge, hook, births, intended, applied, unadjusted>>
    <2>1. /\ births' \in 0 .. MaxRequests /\ gauge' \in 0 .. Modulus - 1
          /\ unadjusted' \in 0 .. Modulus - 1 /\ applied' \subseteq Admins
        BY <1>3 DEF IInv, TypeOK
    <2> DEFINE kind == op[r].kind
               response == <<kind, 200>>
    <2>2. kind \in Kinds /\ kind \notin Writes
        BY DEF Kinds, Writes
    <2> HIDE DEF kind
    <2>3. response \in (Kinds \X Nat) \cup {None} /\ response[1] = kind
        BY <2>2
    <2>4. Respond(r, response)
        BY <1>3 DEF kind
    <2> HIDE DEF response
    <2>5. Truthful(response, r \in applied')
        BY <1>1, <1>3, <2>2, <2>3 DEF Truthful
    <2> QED BY <1>3, <2>1, <2>3, <2>4, <2>5, RespondKeeps
<1> QED BY <1>2, <1>3 DEF Read

LEMMA DisconnectKeeps == ASSUME IInv, NEW r \in Admins, Disconnect(r) PROVE IInv'
<1>1. Respond(r, None) /\ UNCHANGED <<tables, gauge, hook, births, intended, applied>>
    BY DEF Disconnect
<1>2. unadjusted + Adjustment(op[r]) \in Int
    BY AdjustmentIsInteger, AdminAssumption DEF IInv, TypeOK
<1>3. unadjusted' \in 0 .. Modulus - 1
    BY <1>2, GaugeInRange DEF Disconnect, IInv, TypeOK
<1>4. births' \in 0 .. MaxRequests /\ gauge' \in 0 .. Modulus - 1 /\ applied' \subseteq Admins
    BY <1>1 DEF IInv, TypeOK
<1>5. Truthful(None, r \in applied')
    BY DEF Truthful
<1>6. UNCHANGED <<tables, hook, intended>> /\ \A q \in Admins \ {r} : q \in applied' <=> q \in applied
    BY <1>1
<1> QED BY <1>1, <1>3, <1>4, <1>5, <1>6, RespondKeeps

\* A webhook handler writes under what it authenticated, or marks what it writes.
LEMMA HookKeeps == ASSUME IInv, NEW h \in Handlers, HookStep(h) PROVE IInv'
<1> USE DEF IInv, tables, requests
<1>1. ASSUME NEW name, NEW signature, Authenticate(h, name, signature) PROVE IInv'
    <2>1. hook' \in [Handlers -> Identities \cup {None}]
        <3>1. PICK i \in Ids : /\ rows[i] # None
                               /\ hook' = [hook EXCEPT ![h] = [repository |-> i, born |-> rows[i].born]]
            BY <1>1 DEF Authenticate, Enabled
        <3>2. rows[i].born \in 0 .. MaxRequests
            BY <3>1 DEF TypeOK, Tables, Rows
        <3> QED BY <3>1, <3>2 DEF TypeOK, Identities
    <2>2. UNCHANGED <<rows, children, gauge, pc, op, snap, answer, stale, births, intended, applied, unadjusted>>
        BY <1>1 DEF Authenticate
    <2> QED BY <2>1, <2>2 DEF TypeOK, OpenSnapshots, SnapInv, AnswerInv, RowsAsTold,
                              NothingInherited, Authentic
<1>2. ASSUME Insert(h) PROVE IInv'
    <2>1. hook[h] \in Identities
        BY <1>2 DEF Insert, TypeOK
    <2>2. UNCHANGED <<rows, gauge, pc, op, snap, answer, births, intended, applied, unadjusted>>
          /\ hook' = [hook EXCEPT ![h] = None]
        BY <1>2 DEF Insert
    <2>3. stale \subseteq stale' /\ stale' \subseteq OpenSnapshots'
        BY <1>2, <2>2 DEF Insert, TypeOK, OpenSnapshots
    <2>4. ASSUME NEW c \in children'
          PROVE  /\ c \in [repository : Ids, born : 0 .. MaxRequests, late : BOOLEAN]
                 /\ rows[c.repository] # None
                 /\ c.born = rows[c.repository].born \/ c.late
        <3>1. CASE c \in children
            BY <3>1 DEF TypeOK, NothingInherited
        <3>2. CASE c \notin children
            <4> DEFINE i == hook[h].repository
            <4>1. /\ rows[i] # None
                  /\ c = [repository |-> i, born |-> hook[h].born,
                          late |-> rows[i].born # hook[h].born]
                BY <1>2, <3>2, <2>4 DEF Insert
            <4>2. i \in Ids /\ hook[h].born \in 0 .. MaxRequests
                BY <2>1 DEF Identities
            <4> QED BY <4>1, <4>2
        <3> QED BY <3>1, <3>2
    <2>5. TypeOK'
        BY <2>2, <2>3, <2>4 DEF TypeOK
    <2>6. SnapInv' /\ AnswerInv' /\ RowsAsTold'
        BY <2>2, <2>3 DEF SnapInv, AnswerInv, RowsAsTold, Authentic
    <2>7. NothingInherited'
        BY <2>2, <2>4 DEF NothingInherited
    <2> QED BY <2>5, <2>6, <2>7
<1>3. ASSUME Abandon(h) PROVE IInv'
    BY <1>3 DEF Abandon, TypeOK, OpenSnapshots, SnapInv, AnswerInv, RowsAsTold,
                NothingInherited, Authentic
<1> QED BY <1>1, <1>2, <1>3 DEF HookStep

LEMMA RestartKeeps == ASSUME IInv, Restart PROVE IInv'
<1> USE DEF IInv, tables, Restart
<1>1. gauge' \in 0 .. Modulus - 1
    BY CountIsNatural, GaugeInRange
<1>2. 0 \in 0 .. Modulus - 1
    BY AdminAssumption
<1>3. TypeOK'
    BY <1>1, <1>2 DEF TypeOK
<1>4. SnapInv' /\ AnswerInv' /\ RowsAsTold' /\ NothingInherited'
    BY NoneIsNothingElse DEF SnapInv, AnswerInv, RowsAsTold, NothingInherited
<1> QED BY <1>3, <1>4

LEMMA StepKeeps == IInv /\ [Next]_vars => IInv'
<1> SUFFICES ASSUME IInv, [Next]_vars PROVE IInv'
    OBVIOUS
<1>1. ASSUME NEW r \in Admins, AdminStep(r) PROVE IInv'
    <2>1. ASSUME NEW raw \in Payloads, NEW header, Receive(r, raw, header) PROVE IInv'
        BY <2>1, ReceiveKeeps
    <2>2. ASSUME Get(r) \/ List(r) PROVE IInv'
        BY <2>2, ReadKeeps DEF Get, List
    <2>3. ASSUME StoreFails(r) PROVE IInv'
        BY <2>3, FailKeeps DEF StoreFails
    <2> QED BY <1>1, <2>1, <2>2, <2>3, CreateKeeps, ReadRowKeeps, UpdateKeeps, DeleteKeeps,
               FinishKeeps, DisconnectKeeps DEF AdminStep
<1>2. ASSUME NEW h \in Handlers, HookStep(h) PROVE IInv'
    BY <1>2, HookKeeps
<1>3. ASSUME UNCHANGED vars PROVE IInv'
    BY <1>3 DEF vars, IInv, TypeOK, OpenSnapshots, SnapInv, AnswerInv, RowsAsTold,
                NothingInherited, Authentic
<1> QED BY <1>1, <1>2, <1>3, RestartKeeps DEF Next

LEMMA IInvAlways == Spec => []IInv
<1> QED BY InitIInv, StepKeeps, PTL DEF Spec

-------------------------------------------------------------------------------
(* The gauge *)

\* What the requests that have committed owe the gauge.
Owed == Pending("Create") - Pending("Delete")

LEMMA ModAdd ==
    ASSUME NEW a \in Int, NEW b \in Int
    PROVE  ((a % Modulus) + b) % Modulus = (a + b) % Modulus
<1> DEFINE m == Modulus
           r == a % m
           q == a \div m
           s == (r + b) % m
           t == (r + b) \div m
<1>1. m \in Nat \ {0}
    BY AdminAssumption
<1>2. a = m * q + r /\ q \in Int /\ r \in Int
    BY <1>1
<1>3. r + b = m * t + s /\ t \in Int /\ s \in 0 .. m - 1
    BY <1>1, <1>2
<1>4. a + b = m * (q + t) + s
    <2>1. a + b = m * q + (m * t + s)
        BY <1>1, <1>2, <1>3
    <2>2. m * q + m * t = m * (q + t)
        BY <1>1, <1>2, <1>3
    <2>3. m * q \in Int /\ m * t \in Int /\ s \in Int
        BY <1>1, <1>2, <1>3
    <2> HIDE DEF q, t, s, m
    <2> QED BY <2>1, <2>2, <2>3
<1>5. ASSUME NEW x \in Int, NEW k \in Int, NEW y \in 0 .. m - 1, x = m * k + y PROVE y = x % m
    BY <1>1, <1>5
<1>6. q + t \in Int /\ a + b \in Int
    BY <1>2, <1>3
<1> HIDE DEF q, t, s, m
<1>7. s = (a + b) % m
    BY <1>3, <1>4, <1>5, <1>6
<1> QED BY <1>7 DEF s, m, r

LEMMA ModShift ==
    ASSUME NEW a \in Int, NEW b \in Int, NEW k \in Int, a % Modulus = b % Modulus
    PROVE  (a + k) % Modulus = (b + k) % Modulus
<1>1. (a + k) % Modulus = ((a % Modulus) + k) % Modulus
    BY ModAdd
<1>2. (b + k) % Modulus = ((b % Modulus) + k) % Modulus
    BY ModAdd
<1> QED BY <1>1, <1>2

LEMMA CountChanges ==
    ASSUME NEW T \in Tables, NEW id \in Ids, NEW row
    PROVE  LET U == [T EXCEPT ![id] = row]
           IN  /\ T[id] = None /\ row # None => Count(U) = Count(T) + 1
               /\ T[id] # None /\ row = None => Count(U) = Count(T) - 1
               /\ T[id] # None /\ row # None => Count(U) = Count(T)
<1> DEFINE U == [T EXCEPT ![id] = row]
           S == {i \in Ids : T[i] # None}
           R == {i \in Ids : U[i] # None}
<1>1. IsFiniteSet(S)
    <2>1. MaxId \in Nat
        BY AdminAssumption
    <2>2. IsFiniteSet(Ids)
        BY <2>1, FS_Interval DEF Ids
    <2> QED BY <2>2, FS_Subset
<1>2. \A i \in Ids : U[i] = IF i = id THEN row ELSE T[i]
    BY DEF Tables
<1>3. Count(U) = Cardinality(R) /\ Count(T) = Cardinality(S)
    BY DEF Count
<1>4. /\ Cardinality(S \cup {id}) = IF id \in S THEN Cardinality(S) ELSE Cardinality(S) + 1
      /\ Cardinality(S \ {id}) = IF id \in S THEN Cardinality(S) - 1 ELSE Cardinality(S)
    BY <1>1, FS_AddElement, FS_RemoveElement
<1>5. T[id] = None /\ row # None => R = S \cup {id} /\ id \notin S
    BY <1>2
<1>6. T[id] # None /\ row = None => R = S \ {id} /\ id \in S
    BY <1>2
<1>7. T[id] # None /\ row # None => R = S
    BY <1>2
<1>8. /\ T[id] = None /\ row # None => Count(U) = Count(T) + 1
      /\ T[id] # None /\ row = None => Count(U) = Count(T) - 1
      /\ T[id] # None /\ row # None => Count(U) = Count(T)
    <2> HIDE DEF U, S, R
    <2> QED BY <1>3, <1>4, <1>5, <1>6, <1>7
<1> QED BY <1>8

LEMMA PendingIsNatural == ASSUME NEW kind PROVE Pending(kind) \in Nat
<1>1. IsFiniteSet({r \in Admins : pc[r] = "Committed" /\ op[r].kind = kind})
    BY AdminAssumption, FS_Subset
<1> QED BY <1>1, FS_CardinalityType DEF Pending

\* A request that commits owes its adjustment.
LEMMA CommitPends ==
    ASSUME IInv, NEW r \in Admins, pc[r] # "Committed", Commit(r), NEW kind
    PROVE  Pending(kind)' = Pending(kind) + (IF op[r].kind = kind THEN 1 ELSE 0)
<1> DEFINE S == {q \in Admins : pc[q] = "Committed" /\ op[q].kind = kind}
           R == {q \in Admins : pc'[q] = "Committed" /\ op'[q].kind = kind}
<1>1. IsFiniteSet(S) /\ r \notin S
    BY AdminAssumption, FS_Subset
<1>2. R = IF op[r].kind = kind THEN S \cup {r} ELSE S
    BY DEF Commit, IInv, TypeOK
<1>3. Pending(kind) = Cardinality(S) /\ Pending(kind)' = Cardinality(R)
    BY DEF Pending
<1> HIDE DEF S, R
<1>4. Cardinality(S \cup {r}) = Cardinality(S) + 1 /\ Cardinality(S) \in Nat
    BY <1>1, FS_AddElement, FS_CardinalityType
<1> QED BY <1>2, <1>3, <1>4

LEMMA CommitOwes ==
    ASSUME IInv, NEW r \in Admins, pc[r] # "Committed", Commit(r)
    PROVE  Owed' = Owed + Adjustment(op[r])
<1>1. /\ Pending("Create")' = Pending("Create") + (IF op[r].kind = "Create" THEN 1 ELSE 0)
      /\ Pending("Delete")' = Pending("Delete") + (IF op[r].kind = "Delete" THEN 1 ELSE 0)
    BY CommitPends
<1>2. Pending("Create") \in Nat /\ Pending("Delete") \in Nat
    BY PendingIsNatural
<1> QED BY <1>1, <1>2 DEF Owed, Adjustment

\* One that is answered or dropped after its commit owes it no longer.
LEMMA RespondPends ==
    ASSUME IInv, NEW r \in Admins, NEW status, Respond(r, status), NEW kind
    PROVE  Pending(kind)' =
               Pending(kind) - (IF pc[r] = "Committed" /\ op[r].kind = kind THEN 1 ELSE 0)
<1> DEFINE S == {q \in Admins : pc[q] = "Committed" /\ op[q].kind = kind}
           R == {q \in Admins : pc'[q] = "Committed" /\ op'[q].kind = kind}
<1>1. IsFiniteSet(S)
    BY AdminAssumption, FS_Subset
<1>2. R = S \ {r}
    BY DEF Respond, IInv, TypeOK
<1>3. Pending(kind) = Cardinality(S) /\ Pending(kind)' = Cardinality(R)
    BY DEF Pending
<1>4. r \in S <=> pc[r] = "Committed" /\ op[r].kind = kind
    OBVIOUS
<1> HIDE DEF S, R
<1>5. /\ Cardinality(S \ {r}) = IF r \in S THEN Cardinality(S) - 1 ELSE Cardinality(S)
      /\ Cardinality(S) \in Nat
    BY <1>1, FS_RemoveElement, FS_CardinalityType
<1> QED BY <1>2, <1>3, <1>4, <1>5

LEMMA RespondSettles ==
    ASSUME IInv, NEW r \in Admins, NEW status, Respond(r, status)
    PROVE  Owed' = Owed - (IF pc[r] = "Committed" THEN Adjustment(op[r]) ELSE 0)
<1> DEFINE settled(kind) == IF pc[r] = "Committed" /\ op[r].kind = kind THEN 1 ELSE 0
<1>1. /\ Pending("Create")' = Pending("Create") - settled("Create")
      /\ Pending("Delete")' = Pending("Delete") - settled("Delete")
    BY RespondPends
<1>2. Pending("Create") \in Nat /\ Pending("Delete") \in Nat
    BY PendingIsNatural
<1> QED BY <1>1, <1>2 DEF Owed, Adjustment

LEMMA OwedUnchanged ==
    ASSUME \A q \in Admins : /\ pc'[q] = "Committed" <=> pc[q] = "Committed"
                             /\ pc[q] = "Committed" => op'[q] = op[q]
    PROVE  Owed' = Owed
<1>1. ASSUME NEW kind PROVE Pending(kind)' = Pending(kind)
    <2>1. {q \in Admins : pc'[q] = "Committed" /\ op'[q].kind = kind} =
              {q \in Admins : pc[q] = "Committed" /\ op[q].kind = kind}
        OBVIOUS
    <2> QED BY <2>1 DEF Pending
<1> QED BY <1>1 DEF Owed

\* GaugeConserved with its debts in one number, and the numbers it is about.
Balanced == (gauge + Owed + unadjusted) % Modulus = Count(rows) % Modulus

LEMMA Numbers ==
    ASSUME IInv
    PROVE  gauge \in Int /\ unadjusted \in Int /\ Owed \in Int /\ Count(rows) \in Int
<1>1. Pending("Create") \in Nat /\ Pending("Delete") \in Nat /\ Count(rows) \in Nat
    BY PendingIsNatural, CountIsNatural
<1>2. gauge \in Int /\ unadjusted \in Int
    BY AdminAssumption DEF IInv, TypeOK
<1> QED BY <1>1, <1>2 DEF Owed

LEMMA NothingBalances ==
    ASSUME IInv, Balanced, UNCHANGED <<rows, gauge, unadjusted>>, Owed' = Owed
    PROVE  Balanced'
BY DEF Balanced, Count

LEMMA CommitBalances ==
    ASSUME IInv, Balanced, NEW r \in Admins, pc[r] # "Committed", Commit(r),
           Count(rows') = Count(rows) + Adjustment(op[r])
    PROVE  Balanced'
<1> DEFINE k == Adjustment(op[r])
           owed == Owed
           count == Count(rows)
<1>1. gauge \in Int /\ unadjusted \in Int /\ owed \in Int /\ count \in Int /\ k \in Int
    BY Numbers, AdjustmentIsInteger
<1>2. Owed' = owed + k /\ gauge' = gauge /\ unadjusted' = unadjusted
    BY CommitOwes DEF Commit
<1>3. (gauge + owed + unadjusted) % Modulus = count % Modulus
    BY DEF Balanced
<1>4. Count(rows)' = count + k
    BY DEF Count
<1> HIDE DEF k, owed, count
<1> DEFINE before == gauge + owed + unadjusted
<1>5. ((before + k) % Modulus) = (count + k) % Modulus
    <2>1. before \in Int /\ before % Modulus = count % Modulus
        BY <1>1, <1>3
    <2> HIDE DEF before
    <2> QED BY <1>1, <2>1, ModShift
<1>6. gauge + (owed + k) + unadjusted = (gauge + owed + unadjusted) + k
    BY <1>1
<1> QED BY <1>2, <1>4, <1>5, <1>6 DEF Balanced

LEMMA FailBalances ==
    ASSUME IInv, Balanced, NEW r \in Admins, NEW status, Respond(r, status),
           pc[r] # "Committed", UNCHANGED <<rows, gauge, unadjusted>>
    PROVE  Balanced'
<1>1. Owed' = Owed
    BY RespondSettles, Numbers
<1> QED BY <1>1, NothingBalances

LEMMA CreateBalances == ASSUME IInv, Balanced, NEW r \in Admins, Create(r) PROVE Balanced'
<1>1. pc[r] = "Store" /\ op[r].kind = "Create"
    BY DEF Create
<1>2. CASE Taken(op[r].name, 0)
    BY <1>1, <1>2, FailBalances DEF Create, Fail, tables
<1>3. CASE ~Taken(op[r].name, 0)
    <2> DEFINE row == [name |-> op[r].name, box |-> Encrypt(op[r].name, op[r].secret),
                       enabled |-> op[r].enabled, born |-> births]
    <2>1. PICK id \in Ids : /\ NextId(id)
                            /\ rows' = [rows EXCEPT ![id] = row]
                            /\ Commit(r)
        BY <1>3 DEF Create
    <2>2. row \in Rows
        <3>1. op[r] \in Operations
            BY <1>1, StartedIsOperation DEF IInv
        <3>2. op[r].name \in Names /\ op[r].secret \in Secrets /\ op[r].enabled \in BOOLEAN
            BY <1>1, <3>1 DEF Operations
        <3>3. births \in 0 .. MaxRequests
            BY DEF IInv, TypeOK
        <3> QED BY <3>2, <3>3, SealedIsBox DEF Rows
    <2> HIDE DEF row
    <2>3. rows[id] = None /\ row # None
        BY <2>1, <2>2, NoneIsNothingElse DEF NextId, Ids
    <2>4. Count(rows') = Count(rows) + 1
        BY <2>1, <2>3, CountChanges DEF IInv, TypeOK
    <2>5. Adjustment(op[r]) = 1
        BY <1>1 DEF Adjustment
    <2> QED BY <1>1, <2>1, <2>4, <2>5, CommitBalances
<1> QED BY <1>2, <1>3

LEMMA UpdateBalances == ASSUME IInv, Balanced, NEW r \in Admins, Update(r) PROVE Balanced'
<1> DEFINE id == op[r].id
           row == Merge(op[r], snap[r])
<1>1. pc[r] = "Read" /\ op[r].kind = "Update"
    BY DEF Update
<1>2. CASE Fail(r, "Unavailable") \/ Fail(r, "Conflict") \/ Fail(r, "Cryptographic")
    BY <1>1, <1>2, FailBalances DEF Fail, tables
<1>3. CASE r \notin stale /\ rows' = [rows EXCEPT ![id] = row] /\ Commit(r)
    <2>1. op[r] \in Operations /\ id \in Ids
        BY <1>1, StartedIsOperation DEF IInv, TypeOK
    <2>2. snap[r] \in Rows /\ Authentic(snap[r]) /\ rows[id] = snap[r]
        BY <1>1, <1>3 DEF IInv, TypeOK, SnapInv
    <2>3. row \in Rows
        BY <1>1, <2>1, <2>2, MergedIsRow
    <2> HIDE DEF row, id
    <2>4. rows[id] # None /\ row # None
        BY <2>2, <2>3, NoneIsNothingElse
    <2>5. Count(rows') = Count(rows)
        BY <1>3, <2>1, <2>4, CountChanges DEF IInv, TypeOK
    <2>6. Adjustment(op[r]) = 0
        BY <1>1 DEF Adjustment
    <2>7. Count(rows') = Count(rows) + Adjustment(op[r])
        BY <2>5, <2>6, Numbers
    <2> QED BY <1>1, <1>3, <2>7, CommitBalances
<1> QED BY <1>2, <1>3 DEF Update, Outdated

LEMMA DeleteBalances == ASSUME IInv, Balanced, NEW r \in Admins, Delete(r) PROVE Balanced'
<1> DEFINE id == op[r].id
<1>1. pc[r] = "Read" /\ op[r].kind = "Delete"
    BY DEF Delete
<1>2. CASE Fail(r, "Unavailable")
    BY <1>1, <1>2, FailBalances DEF Fail, tables
<1>3. CASE r \notin stale /\ rows' = [rows EXCEPT ![id] = None] /\ Commit(r)
    <2>1. id \in Ids /\ rows[id] # None
        BY <1>1, <1>3 DEF IInv, TypeOK, SnapInv
    <2> HIDE DEF id
    <2>2. Count(rows') = Count(rows) - 1
        BY <1>3, <2>1, CountChanges DEF IInv, TypeOK
    <2>3. Adjustment(op[r]) = -1
        BY <1>1 DEF Adjustment
    <2>4. Count(rows') = Count(rows) + Adjustment(op[r])
        BY <2>2, <2>3, Numbers
    <2> QED BY <1>1, <1>3, <2>4, CommitBalances
<1> QED BY <1>2, <1>3 DEF Delete, Outdated

LEMMA FinishBalances == ASSUME IInv, Balanced, NEW r \in Admins, Finish(r) PROVE Balanced'
<1> DEFINE k == Adjustment(op[r])
           owed == Owed
<1>1. gauge \in Int /\ unadjusted \in Int /\ owed \in Int /\ k \in Int
    BY Numbers, AdjustmentIsInteger
<1>2. Owed' = owed - k
    BY RespondSettles DEF Finish
<1>3. gauge' = (gauge + k) % Modulus /\ unadjusted' = unadjusted /\ rows' = rows
    BY DEF Finish, tables
<1>4. (gauge + owed + unadjusted) % Modulus = Count(rows) % Modulus
    BY DEF Balanced
<1>5. Count(rows)' = Count(rows)
    BY <1>3 DEF Count
<1> HIDE DEF k, owed
<1>6. (((gauge + k) % Modulus) + (owed - k + unadjusted)) % Modulus
          = ((gauge + k) + (owed - k + unadjusted)) % Modulus
    BY <1>1, ModAdd
<1>7. (gauge + k) + (owed - k + unadjusted) = gauge + owed + unadjusted
    BY <1>1
<1>8. (gauge + k) % Modulus \in Int
    BY <1>1, AdminAssumption
<1>9. ((gauge + k) % Modulus) + (owed - k) + unadjusted
          = ((gauge + k) % Modulus) + (owed - k + unadjusted)
    BY <1>1, <1>8
<1> QED BY <1>2, <1>3, <1>4, <1>5, <1>6, <1>7, <1>9 DEF Balanced

LEMMA DisconnectBalances ==
    ASSUME IInv, Balanced, NEW r \in Admins, Disconnect(r) PROVE Balanced'
<1> DEFINE k == Adjustment(op[r])
           owed == Owed
<1>1. CASE pc[r] # "Committed"
    BY <1>1, FailBalances DEF Disconnect, tables
<1>2. CASE pc[r] = "Committed"
    <2>1. gauge \in Int /\ unadjusted \in Int /\ owed \in Int /\ k \in Int
        BY Numbers, AdjustmentIsInteger
    <2>2. Owed' = owed - k
        BY <1>2, RespondSettles DEF Disconnect
    <2>3. unadjusted' = (unadjusted + k) % Modulus /\ gauge' = gauge /\ rows' = rows
        BY <1>2 DEF Disconnect, tables
    <2>4. (gauge + owed + unadjusted) % Modulus = Count(rows) % Modulus
        BY DEF Balanced
    <2>5. Count(rows)' = Count(rows)
        BY <2>3 DEF Count
    <2> HIDE DEF k, owed
    <2>6. (((unadjusted + k) % Modulus) + (gauge + owed - k)) % Modulus
              = ((unadjusted + k) + (gauge + owed - k)) % Modulus
        BY <2>1, ModAdd
    <2>7. (unadjusted + k) + (gauge + owed - k) = gauge + owed + unadjusted
        BY <2>1
    <2>8. (unadjusted + k) % Modulus \in Int
        BY <2>1, AdminAssumption
    <2>9. gauge + (owed - k) + ((unadjusted + k) % Modulus)
              = ((unadjusted + k) % Modulus) + (gauge + owed - k)
        BY <2>1, <2>8
    <2> QED BY <2>2, <2>3, <2>4, <2>5, <2>6, <2>7, <2>9 DEF Balanced
<1> QED BY <1>1, <1>2

\* A process that begins counts the rows, and owes nothing.
LEMMA RecountBalances ==
    ASSUME \A r \in Admins : pc[r] # "Committed", gauge = Count(rows) % Modulus, unadjusted = 0
    PROVE  Balanced
<1>1. ASSUME NEW kind PROVE Pending(kind) = 0
    <2>1. {r \in Admins : pc[r] = "Committed" /\ op[r].kind = kind} = {}
        OBVIOUS
    <2> QED BY <2>1, FS_EmptySet DEF Pending
<1>2. Owed = 0
    BY <1>1 DEF Owed
<1>3. Count(rows) \in Int /\ gauge \in Int
    BY CountIsNatural, AdminAssumption
<1>4. ((Count(rows) % Modulus) + 0) % Modulus = (Count(rows) + 0) % Modulus
    BY <1>3, ModAdd
<1> QED BY <1>2, <1>3, <1>4 DEF Balanced

LEMMA StepBalances == IInv /\ Balanced /\ [Next]_vars => Balanced'
<1> SUFFICES ASSUME IInv, Balanced, [Next]_vars PROVE Balanced'
    OBVIOUS
<1>1. ASSUME NEW r \in Admins, AdminStep(r) PROVE Balanced'
    <2>1. ASSUME NEW raw \in Payloads, NEW header, Receive(r, raw, header) PROVE Balanced'
        <3>1. UNCHANGED <<rows, gauge, unadjusted>>
            BY <2>1 DEF Receive, tables
        <3>2. \A q \in Admins : /\ pc'[q] = "Committed" <=> pc[q] = "Committed"
                                /\ pc[q] = "Committed" => op'[q] = op[q]
            BY <2>1 DEF Receive, Respond, IInv, TypeOK
        <3> QED BY <3>1, <3>2, OwedUnchanged, NothingBalances
    <2>2. ASSUME ReadRow(r) PROVE Balanced'
        <3>1. UNCHANGED <<rows, gauge, unadjusted>>
            BY <2>2 DEF ReadRow, Fail, tables
        <3>2. \A q \in Admins : /\ pc'[q] = "Committed" <=> pc[q] = "Committed"
                                /\ pc[q] = "Committed" => op'[q] = op[q]
            BY <2>2 DEF ReadRow, Fail, Respond, IInv, TypeOK
        <3> QED BY <3>1, <3>2, OwedUnchanged, NothingBalances
    <2>3. ASSUME Get(r) \/ List(r) PROVE Balanced'
        BY <2>3, FailBalances DEF Get, List, Read, Fail, tables
    <2>4. ASSUME StoreFails(r) PROVE Balanced'
        BY <2>4, FailBalances DEF StoreFails, Fail, tables
    <2> QED BY <1>1, <2>1, <2>2, <2>3, <2>4, CreateBalances, UpdateBalances, DeleteBalances,
               FinishBalances, DisconnectBalances DEF AdminStep
<1>2. ASSUME NEW h \in Handlers, HookStep(h) PROVE Balanced'
    <2>1. UNCHANGED <<rows, gauge, unadjusted, pc, op>>
        BY <1>2 DEF HookStep, Authenticate, Insert, Abandon, tables, requests
    <2> QED BY <2>1, OwedUnchanged, NothingBalances
<1>3. ASSUME Restart PROVE Balanced'
    <2>1. Count(rows)' = Count(rows) /\ rows' = rows
        BY <1>3 DEF Restart, tables, Count
    <2>2. \A kind : Pending(kind)' = 0
        <3>1. \A r \in Admins : pc'[r] # "Committed"
            BY <1>3 DEF Restart
        <3>2. ASSUME NEW kind PROVE Pending(kind)' = 0
            <4>1. {r \in Admins : pc'[r] = "Committed" /\ op'[r].kind = kind} = {}
                BY <3>1
            <4> QED BY <4>1, FS_EmptySet DEF Pending
        <3> QED BY <3>2
    <2>3. Owed' = 0
        BY <2>2 DEF Owed
    <2>4. gauge' = Count(rows) % Modulus /\ unadjusted' = 0
        BY <1>3 DEF Restart
    <2>5. Count(rows) \in Int /\ Count(rows) % Modulus \in Int
        BY CountIsNatural, AdminAssumption
    <2>6. ((Count(rows) % Modulus) + 0) % Modulus = (Count(rows) + 0) % Modulus
        BY <2>5, ModAdd
    <2> QED BY <2>1, <2>3, <2>4, <2>5, <2>6 DEF Balanced
<1>4. ASSUME UNCHANGED vars PROVE Balanced'
    <2>1. UNCHANGED <<rows, gauge, unadjusted, pc, op>>
        BY <1>4 DEF vars
    <2> QED BY <2>1, OwedUnchanged, NothingBalances
<1> QED BY <1>1, <1>2, <1>3, <1>4 DEF Next

-------------------------------------------------------------------------------
(* Theorems *)

\* Every reachable state is well typed: parsing lets only operations through, and a
\* request knows the row it has read exactly while its transaction is open.
THEOREM TypeCorrect == Spec => []TypeOK
<1>1. IInv => TypeOK
    BY DEF IInv
<1> QED BY <1>1, IInvAlways, PTL

\* No update is lost: each row is what the accepted writes ask in the order of their
\* commits, because a transaction whose snapshot is not the last commit cannot write
\* (repository_store.rs:237-330).  And an answer tells whether the request has
\* written: one of success to a write never precedes its commit, and an error never
\* follows one.
THEOREM NoUpdateIsLost == Spec => []RowsAsTold
<1>1. IInv => RowsAsTold
    BY DEF IInv
<1> QED BY <1>1, IInvAlways, PTL

\* The cascade leaves nothing behind that the next repository with the same row
\* number would inherit.
THEOREM RowNumbersInheritNothing == Spec => []NothingInherited
<1>1. IInv => NothingInherited
    BY DEF IInv
<1> QED BY <1>1, IInvAlways, PTL

\* Nothing moves the gauge away from the table but the requests dropped between
\* their commit and its adjustment, whatever the width of the counter.
THEOREM GaugeFollowsTable == Spec => []GaugeConserved
<1>1. Init => Balanced
    BY RecountBalances DEF Init
<1>2. IInv /\ Balanced => GaugeConserved
    <2> SUFFICES ASSUME IInv, Balanced PROVE GaugeConserved
        OBVIOUS
    <2>1. Pending("Create") \in Nat /\ Pending("Delete") \in Nat
        BY PendingIsNatural
    <2>2. gauge + Owed + unadjusted = gauge + Pending("Create") - Pending("Delete") + unadjusted
        BY <2>1, Numbers DEF Owed
    <2> QED BY <2>2 DEF Balanced, GaugeConserved
<1> QED BY <1>1, <1>2, IInvAlways, StepBalances, PTL DEF Spec
===============================================================================
