------------------------ MODULE IdentityRecordsProofs ------------------------
(* Theorems about identity records, for any records, profiles and requests. *)
EXTENDS IdentityRecords, TLAPS

(***************************************************************************)
(* The hashes.                                                             *)
(***************************************************************************)

LEMMA HashFacts ==
  ASSUME NEW f \in Profile
  PROVE  /\ PrimaryHash(f) \in Hash \cup {None}
         /\ PrimaryHash(f) # None => PrimaryHash(f) \in DedupHashes(f)
         /\ f.ref # None => PrimaryHash(f) = <<"booking_ref", f.ref>>
         /\ None \notin DedupHashes(f)
<1>1. f.ref \in Refs \cup {None} /\ f.name \in Names \cup {None}
  BY DEF Profile
<1>2. DedupHashes(f) \subseteq Hash
  BY <1>1 DEF DedupHashes, Hash
<1>3. PrimaryHash(f) \in Hash \cup {None}
  BY <1>1 DEF PrimaryHash, Hash
<1>4. PrimaryHash(f) # None => PrimaryHash(f) \in DedupHashes(f)
  BY <1>1 DEF PrimaryHash, DedupHashes
<1> QED
  BY <1>2, <1>3, <1>4, IdentityAssumption DEF PrimaryHash

LEMMA EmptyHash == Empty \in Profile /\ PrimaryHash(Empty) = None
  BY DEF Empty, Profile, PrimaryHash

(***************************************************************************)
(* The requests in progress.                                               *)
(***************************************************************************)

LEMMA RequestFields ==
  ASSUME NEW r \in Request
  PROVE  /\ r.at \in {"write", "log", "grant"} /\ r.op \in Operations
         /\ r.on \in Ids \cup {None} /\ r.form \in Profile
         /\ r.target \in Ids \cup {None} /\ r # NoRequest
  BY DEF Request, NoRequest

LEMMA BeginEffect ==
  ASSUME TypeOK, NEW p \in Handlers, NEW o \in Operations, NEW i \in Ids \cup {None},
         NEW f \in Profile, NEW t \in Ids \cup {None}, Begin(p, o, i, f, t)
  PROVE  /\ req' \in [Handlers -> Request \cup {NoRequest}]
         /\ req'[p].at = "write" /\ req'[p].op = o /\ req'[p].on = i
         /\ req'[p].form = f /\ req'[p] # NoRequest
         /\ req[p] = NoRequest /\ \A q \in Handlers \ {p} : req'[q] = req[q]
         /\ overlapped' \in BOOLEAN
         /\ overlapped' <=> overlapped \/ \E q \in Handlers : req[q] # NoRequest
         /\ UNCHANGED <<rows, audit, grants, faults>>
<1> DEFINE r == [at |-> "write", op |-> o, on |-> i, form |-> f, target |-> t]
<1>1. /\ r \in Request /\ r.at = "write" /\ r.op = o /\ r.on = i /\ r.form = f
      /\ r # NoRequest
  BY DEF Request, NoRequest
<1>2. req' = [req EXCEPT ![p] = r] /\ req[p] = NoRequest
  BY DEF Begin
<1>3. /\ overlapped' = (overlapped \/ \E q \in Handlers : req[q] # NoRequest)
      /\ UNCHANGED <<rows, audit, grants, faults>>
  BY DEF Begin
<1> HIDE DEF r
<1> QED
  BY <1>1, <1>2, <1>3 DEF TypeOK

LEMMA WroteEffect ==
  ASSUME TypeOK, NEW p \in Handlers, NEW i \in Ids \cup {None}, Wrote(p, i),
         req[p].at = "write"
  PROVE  /\ req' \in [Handlers -> Request \cup {NoRequest}]
         /\ req'[p].at = "log" /\ req'[p].op = req[p].op /\ req'[p].on = i
         /\ req'[p] # NoRequest
         /\ \A q \in Handlers \ {p} : req'[q] = req[q]
         /\ UNCHANGED <<audit, grants, overlapped, faults>>
<1> DEFINE r == [at |-> "log", op |-> req[p].op, on |-> i, form |-> Empty,
                 target |-> None]
<1>1. req[p] \in Request
  BY DEF TypeOK, NoRequest
<1>2. /\ r \in Request /\ r.at = "log" /\ r.op = req[p].op /\ r.on = i
      /\ r # NoRequest
  BY <1>1, RequestFields, EmptyHash DEF Request, NoRequest
<1>3. req' = [req EXCEPT ![p] = r] /\ UNCHANGED <<audit, grants, overlapped, faults>>
  BY DEF Wrote
<1> HIDE DEF r
<1> QED
  BY <1>2, <1>3 DEF TypeOK

\* The requests after one has ended.
LEMMA EndEffect ==
  ASSUME TypeOK, NEW p \in Handlers, req' = [req EXCEPT ![p] = NoRequest]
  PROVE  /\ req' \in [Handlers -> Request \cup {NoRequest}]
         /\ req'[p] = NoRequest /\ \A q \in Handlers \ {p} : req'[q] = req[q]
  BY DEF TypeOK

LEMMA LogEffect ==
  ASSUME TypeOK, NEW p \in Handlers, Log(p)
  PROVE  /\ req' \in [Handlers -> Request \cup {NoRequest}]
         /\ req[p] \in Request /\ req[p].at = "log"
         /\ req[p].op # "approve" => req'[p] = NoRequest
         /\ req[p].op = "approve" =>
              /\ req'[p].at = "grant" /\ req'[p].on = req[p].on
              /\ req'[p].op = "approve" /\ req'[p] # NoRequest
         /\ \A q \in Handlers \ {p} : req'[q] = req[q]
         /\ \A i \in Ids : audit'[i] =
              IF i = req[p].on THEN audit[i] \cup ({req[p].op} \cap Decisions) ELSE audit[i]
         /\ audit' \in [Ids -> SUBSET Decisions]
         /\ UNCHANGED <<rows, grants, overlapped, faults>>
<1>1. req[p] \in Request /\ req[p].at = "log"
  BY DEF Log, TypeOK, NoRequest
<1>2. req[p].op = "approve" => [req[p] EXCEPT !.at = "grant"] \in Request
  BY <1>1 DEF Request
<1>3. /\ [req[p] EXCEPT !.at = "grant"].at = "grant"
      /\ [req[p] EXCEPT !.at = "grant"].on = req[p].on
      /\ [req[p] EXCEPT !.at = "grant"].op = req[p].op
      /\ [req[p] EXCEPT !.at = "grant"] # NoRequest
  BY <1>1 DEF Request, NoRequest
<1>4. CASE req[p].op # "approve"
  BY <1>1, <1>4 DEF Log, TypeOK
<1>5. CASE req[p].op = "approve"
  BY <1>1, <1>2, <1>3, <1>5 DEF Log, TypeOK
<1> QED
  BY <1>4, <1>5

\* The five operations that begin a request, and the five that write.
Beginning(p) ==
  \/ \E f \in Forms : CreateCheck(p, f) \/ \E i \in Ids : RegisterCheck(p, i, f)
  \/ \E i \in Ids : \/ ApproveRead(p, i) \/ RejectRead(p, i)
                    \/ \E t \in Ids : MergeRead(p, i, t)
Updating(p) ==
  RegisterUpdate(p) \/ ApproveUpdate(p) \/ RejectUpdate(p) \/ MergeUpdate(p)

LEMMA BeginningEffect ==
  ASSUME TypeOK, NEW p \in Handlers, Beginning(p)
  PROVE  /\ req' \in [Handlers -> Request \cup {NoRequest}]
         /\ req[p] = NoRequest /\ req'[p] # NoRequest /\ req'[p].at = "write"
         /\ \A q \in Handlers \ {p} : req'[q] = req[q]
         /\ overlapped' \in BOOLEAN
         /\ overlapped' <=> overlapped \/ \E q \in Handlers : req[q] # NoRequest
         /\ UNCHANGED <<rows, audit, grants, faults>>
         /\ req'[p].op # "create" => req'[p].on \in Ids /\ status[req'[p].on] # "none"
         /\ req'[p].op \in {"create", "register"} => ~Duplicate(req'[p].form)
         /\ req'[p].op = "approve" =>
              /\ status[req'[p].on] = "PENDING"
              /\ req'[p].form = profile[req'[p].on]
<1> DEFINE
      Goal ==
        /\ req' \in [Handlers -> Request \cup {NoRequest}]
        /\ req[p] = NoRequest /\ req'[p] # NoRequest /\ req'[p].at = "write"
        /\ \A q \in Handlers \ {p} : req'[q] = req[q]
        /\ overlapped' \in BOOLEAN
        /\ overlapped' <=> overlapped \/ \E q \in Handlers : req[q] # NoRequest
        /\ UNCHANGED <<rows, audit, grants, faults>>
        /\ req'[p].op # "create" => req'[p].on \in Ids /\ status[req'[p].on] # "none"
        /\ req'[p].op \in {"create", "register"} => ~Duplicate(req'[p].form)
        /\ req'[p].op = "approve" =>
             /\ status[req'[p].on] = "PENDING"
             /\ req'[p].form = profile[req'[p].on]
<1>1. ASSUME NEW f \in Forms, CreateCheck(p, f) PROVE Goal
  <2>1. f \in Profile /\ Begin(p, "create", None, f, None) /\ ~Duplicate(f)
    BY <1>1, IdentityAssumption DEF CreateCheck
  <2> QED
    BY <2>1, BeginEffect DEF Operations, Decisions
<1>2. ASSUME NEW f \in Forms, NEW i \in Ids, RegisterCheck(p, i, f) PROVE Goal
  <2>1. /\ f \in Profile /\ Begin(p, "register", i, f, None)
        /\ ~Duplicate(f) /\ status[i] # "none"
    BY <1>2, IdentityAssumption DEF RegisterCheck
  <2> QED
    BY <2>1, BeginEffect DEF Operations, Decisions
<1>3. ASSUME NEW i \in Ids, ApproveRead(p, i) PROVE Goal
  <2>1. /\ profile[i] \in Profile /\ Begin(p, "approve", i, profile[i], None)
        /\ status[i] = "PENDING"
    BY <1>3 DEF ApproveRead, TypeOK
  <2> QED
    BY <2>1, BeginEffect DEF Operations, Decisions
<1>4. ASSUME NEW i \in Ids, RejectRead(p, i) PROVE Goal
  <2>1. Begin(p, "reject", i, Empty, None) /\ status[i] = "PENDING"
    BY <1>4 DEF RejectRead
  <2> QED
    BY <2>1, BeginEffect, EmptyHash DEF Operations, Decisions
<1>5. ASSUME NEW i \in Ids, NEW t \in Ids, MergeRead(p, i, t) PROVE Goal
  <2>1. Begin(p, "merge", i, Empty, t) /\ status[i] # "none"
    BY <1>5 DEF MergeRead
  <2> QED
    BY <2>1, BeginEffect, EmptyHash DEF Operations, Decisions
<1> QED
  BY <1>1, <1>2, <1>3, <1>4, <1>5 DEF Beginning

LEMMA NextCases ==
  ASSUME [Next]_vars
  PROVE  \/ \E p \in Handlers : \/ Beginning(p) \/ Updating(p) \/ Log(p)
                                \/ ApproveGrant(p) \/ Fails(p)
                                \/ \E i \in Ids : CreateInsert(p, i)
         \/ \E i \in Ids : Login(i)
         \/ UNCHANGED vars
  BY DEF Next, Continue, Beginning, Updating

\* What every write has in common: it is by id, and the audit row is next.
LEMMA UpdatingEffect ==
  ASSUME TypeOK, NEW p \in Handlers, Updating(p)
  PROVE  /\ req' \in [Handlers -> Request \cup {NoRequest}]
         /\ req[p] \in Request /\ req[p].at = "write" /\ req[p].op # "create"
         /\ req'[p].at = "log" /\ req'[p].op = req[p].op /\ req'[p].on = req[p].on
         /\ req'[p] # NoRequest
         /\ \A q \in Handlers \ {p} : req'[q] = req[q]
         /\ \A i \in Ids \ {req[p].on} :
              /\ status'[i] = status[i] /\ path'[i] = path[i]
              /\ profile'[i] = profile[i] /\ dedupHash'[i] = dedupHash[i]
         /\ UNCHANGED <<audit, grants, overlapped, faults>>
<1>1. /\ req[p].at = "write" /\ req[p].op # "create" /\ Wrote(p, req[p].on)
  BY DEF Updating, RegisterUpdate, ApproveUpdate, RejectUpdate, MergeUpdate, Writing
<1>2. req[p] \in Request
  BY <1>1 DEF TypeOK, NoRequest
<1>3. \A i \in Ids \ {req[p].on} :
        /\ status'[i] = status[i] /\ path'[i] = path[i]
        /\ profile'[i] = profile[i] /\ dedupHash'[i] = dedupHash[i]
  BY DEF Updating, RegisterUpdate, ApproveUpdate, RejectUpdate, MergeUpdate, TypeOK
<1> QED
  BY <1>1, <1>2, <1>3, RequestFields, WroteEffect

LEMMA RowTypes ==
  ASSUME TypeOK, NEW p \in Handlers, Updating(p) \/ \E i \in Ids : CreateInsert(p, i)
  PROVE  /\ status' \in [Ids -> Status]
         /\ path' \in [Ids -> {"A", "B"}]
         /\ profile' \in [Ids -> Profile]
         /\ dedupHash' \in [Ids -> Hash \cup {None}]
         /\ mergedInto' \in [Ids -> Ids \cup {None}]
<1>1. req[p] \in Request
  BY DEF Updating, RegisterUpdate, ApproveUpdate, RejectUpdate, MergeUpdate,
         CreateInsert, Writing, TypeOK, NoRequest
<1>2. req[p].form \in Profile /\ req[p].target \in Ids \cup {None}
  BY <1>1, RequestFields
<1>3. PrimaryHash(req[p].form) \in Hash \cup {None}
  BY <1>2, HashFacts
<1> HIDE DEF Hash
<1>4. CASE \E i \in Ids : CreateInsert(p, i)
  BY <1>2, <1>3, <1>4 DEF CreateInsert, TypeOK, Status
<1>5. CASE RegisterUpdate(p)
  BY <1>2, <1>3, <1>5 DEF RegisterUpdate, TypeOK, Status
<1>6. CASE ApproveUpdate(p)
  BY <1>2, <1>6 DEF ApproveUpdate, TypeOK, Status
<1>7. CASE RejectUpdate(p)
  BY <1>7 DEF RejectUpdate, TypeOK, Status
<1>8. CASE MergeUpdate(p)
  BY <1>2, <1>8 DEF MergeUpdate, TypeOK, Status
<1> QED
  BY <1>4, <1>5, <1>6, <1>7, <1>8 DEF Updating

\* The shape of the state: every command of a request leaves a legal one.
THEOREM TypeCorrect == Spec => []TypeOK
<1>1. Init => TypeOK
  <2> SUFFICES ASSUME Init PROVE TypeOK
    OBVIOUS
  <2>1. profile \in [Ids -> Profile] /\ req \in [Handlers -> Request \cup {NoRequest}]
    BY EmptyHash DEF Init
  <2>2. faults \in 0..MaxFaults
    BY IdentityAssumption DEF Init
  <2>3. /\ status \in [Ids -> Status] /\ path \in [Ids -> {"A", "B"}]
        /\ dedupHash \in [Ids -> Hash \cup {None}]
        /\ mergedInto \in [Ids -> Ids \cup {None}]
        /\ audit \in [Ids -> SUBSET Decisions] /\ grants \in [Ids -> Nat]
        /\ overlapped \in BOOLEAN
    BY DEF Init, Status
  <2> QED
    BY <2>1, <2>2, <2>3 DEF TypeOK
<1>2. ASSUME TypeOK, [Next]_vars PROVE TypeOK'
  <2>1. ASSUME NEW p \in Handlers, Beginning(p) PROVE TypeOK'
    BY <1>2, <2>1, BeginningEffect DEF TypeOK, rows
  <2>2. ASSUME NEW p \in Handlers, Updating(p) PROVE TypeOK'
    BY <1>2, <2>2, UpdatingEffect, RowTypes DEF TypeOK
  <2>3. ASSUME NEW p \in Handlers, NEW i \in Ids, CreateInsert(p, i) PROVE TypeOK'
    <3>1. req[p].at = "write" /\ Wrote(p, i)
      BY <2>3 DEF CreateInsert, Writing
    <3> QED
      BY <1>2, <2>3, <3>1, WroteEffect, RowTypes DEF TypeOK
  <2>4. ASSUME NEW p \in Handlers, Log(p) PROVE TypeOK'
    BY <1>2, <2>4, LogEffect DEF TypeOK, rows
  <2>5. ASSUME NEW p \in Handlers, ApproveGrant(p) PROVE TypeOK'
    <3>1. grants' \in [Ids -> Nat]
      <4>1. grants' = [grants EXCEPT ![req[p].on] = @ + 1]
        BY <2>5 DEF ApproveGrant
      <4>2. grants \in [Ids -> Nat]
        BY <1>2 DEF TypeOK
      <4>3. grants' = [i \in Ids |-> IF i = req[p].on THEN grants[i] + 1 ELSE grants[i]]
        BY <4>1, <4>2, Zenon
      <4>4. \A i \in Ids : grants[i] \in Nat /\ grants[i] + 1 \in Nat
        BY <4>2
      <4> QED
        BY <4>3, <4>4
    <3>2. req' = [req EXCEPT ![p] = NoRequest] /\ UNCHANGED <<rows, audit, overlapped, faults>>
      BY <2>5 DEF ApproveGrant
    <3> QED
      BY <1>2, <3>1, <3>2, EndEffect DEF TypeOK, rows
  <2>6. ASSUME NEW p \in Handlers, Fails(p) PROVE TypeOK'
    <3>1. faults' \in 0..MaxFaults
      BY <1>2, <2>6, IdentityAssumption DEF Fails, TypeOK
    <3>2. req' = [req EXCEPT ![p] = NoRequest] /\ UNCHANGED <<rows, audit, grants, overlapped>>
      BY <2>6 DEF Fails
    <3> QED
      BY <1>2, <3>1, <3>2, EndEffect DEF TypeOK, rows
  <2>7. ASSUME NEW i \in Ids, Login(i) PROVE TypeOK'
    BY <1>2, <2>7 DEF Login, TypeOK, Status
  <2>8. CASE UNCHANGED vars
    BY <1>2, <2>8 DEF vars, rows, TypeOK
  <2> QED
    BY <1>2, <2>1, <2>2, <2>3, <2>4, <2>5, <2>6, <2>7, <2>8, NextCases
<1> QED
  BY <1>1, <1>2, PTL DEF Spec

(***************************************************************************)
(* What the audit rows and the grants say.  A decision that a row or a     *)
(* request accounts for stays accounted for, as long as nothing fails.     *)
(***************************************************************************)

Accounted(o, i) ==
  \/ o \in audit[i]
  \/ \E p \in Handlers : req[p].at = "log" /\ req[p].on = i /\ req[p].op = o

LEMMA AccountedStays ==
  ASSUME TypeOK, [Next]_vars, faults = 0, faults' = 0,
         NEW o \in Decisions, NEW i \in Ids, Accounted(o, i)
  PROVE  Accounted(o, i)'
<1>1. ASSUME NEW p \in Handlers, Beginning(p) PROVE Accounted(o, i)'
  <2>1. UNCHANGED audit /\ req[p].at # "log" /\ \A q \in Handlers \ {p} : req'[q] = req[q]
    BY <1>1, BeginningEffect DEF NoRequest
  <2> QED
    BY <2>1 DEF Accounted
<1>2. ASSUME NEW p \in Handlers, Updating(p) PROVE Accounted(o, i)'
  <2>1. UNCHANGED audit /\ req[p].at # "log" /\ \A q \in Handlers \ {p} : req'[q] = req[q]
    BY <1>2, UpdatingEffect
  <2> QED
    BY <2>1 DEF Accounted
<1>3. ASSUME NEW p \in Handlers, NEW j \in Ids, CreateInsert(p, j)
      PROVE  Accounted(o, i)'
  <2>1. req[p].at = "write" /\ Wrote(p, j)
    BY <1>3 DEF CreateInsert, Writing
  <2>2. UNCHANGED audit /\ req[p].at # "log" /\ \A q \in Handlers \ {p} : req'[q] = req[q]
    BY <2>1, WroteEffect
  <2> QED
    BY <2>2 DEF Accounted
<1>4. ASSUME NEW p \in Handlers, Log(p) PROVE Accounted(o, i)'
  <2>1. /\ audit'[i] = IF i = req[p].on THEN audit[i] \cup ({req[p].op} \cap Decisions)
                       ELSE audit[i]
        /\ \A q \in Handlers \ {p} : req'[q] = req[q]
    BY <1>4, LogEffect
  <2> QED
    BY <2>1 DEF Accounted
<1>5. ASSUME NEW p \in Handlers, ApproveGrant(p) PROVE Accounted(o, i)'
  <2>1. UNCHANGED audit /\ req[p].at # "log" /\ \A q \in Handlers \ {p} : req'[q] = req[q]
    BY <1>5, EndEffect DEF ApproveGrant
  <2> QED
    BY <2>1 DEF Accounted
<1>6. ASSUME NEW p \in Handlers, Fails(p) PROVE FALSE
  BY <1>6 DEF Fails
<1>7. ASSUME NEW j \in Ids, Login(j) PROVE Accounted(o, i)'
  BY <1>7 DEF Login, Accounted
<1>8. CASE UNCHANGED vars
  BY <1>8 DEF vars, Accounted
<1> QED
  BY <1>1, <1>2, <1>3, <1>4, <1>5, <1>6, <1>7, <1>8, NextCases

\* How the status of one record can change.
LEMMA StatusStep ==
  ASSUME TypeOK, [Next]_vars, NEW i \in Ids, status'[i] # status[i]
  PROVE  \/ status'[i] = "PENDING"
         \/ status'[i] = "ACTIVE" /\ status[i] = "none"
              /\ Accounted("create", i)' /\ path'[i] = "A"
         \/ status'[i] = "ACTIVE" /\ Accounted("approve", i)'
         \/ status'[i] = "REJECTED" /\ Accounted("reject", i)'
         \/ status'[i] = "MERGED" /\ Accounted("merge", i)'
<1> DEFINE Goal ==
      \/ status'[i] = "PENDING"
      \/ status'[i] = "ACTIVE" /\ status[i] = "none"
           /\ Accounted("create", i)' /\ path'[i] = "A"
      \/ status'[i] = "ACTIVE" /\ Accounted("approve", i)'
      \/ status'[i] = "REJECTED" /\ Accounted("reject", i)'
      \/ status'[i] = "MERGED" /\ Accounted("merge", i)'
<1>1. ASSUME NEW p \in Handlers, Updating(p) PROVE Goal
  <2>1. /\ i = req[p].on /\ req'[p].at = "log"
        /\ req'[p].op = req[p].op /\ req'[p].on = req[p].on
    BY <1>1, UpdatingEffect
  <2>2. \A o \in Decisions : o = req[p].op => Accounted(o, i)'
    BY <2>1 DEF Accounted
  <2>3. \/ status'[i] = "PENDING"
        \/ status'[i] = "ACTIVE" /\ req[p].op = "approve"
        \/ status'[i] = "REJECTED" /\ req[p].op = "reject"
        \/ status'[i] = "MERGED" /\ req[p].op = "merge"
    BY <1>1, <2>1 DEF Updating, RegisterUpdate, ApproveUpdate, RejectUpdate,
                     MergeUpdate, Writing, TypeOK
  <2> QED
    BY <2>2, <2>3 DEF Decisions
<1>2. ASSUME NEW p \in Handlers, NEW j \in Ids, CreateInsert(p, j) PROVE Goal
  <2>1. req[p].at = "write" /\ Wrote(p, j) /\ req[p].op = "create"
    BY <1>2 DEF CreateInsert, Writing
  <2>2. req'[p].at = "log" /\ req'[p].op = "create" /\ req'[p].on = j
    BY <2>1, WroteEffect
  <2>3. /\ i = j /\ status'[i] = "ACTIVE" /\ status[i] = "none" /\ path'[i] = "A"
    BY <1>2 DEF CreateInsert, TypeOK
  <2>4. Accounted("create", i)'
    BY <2>2, <2>3 DEF Accounted
  <2> QED
    BY <2>3, <2>4, Zenon
<1>3. ASSUME NEW j \in Ids, Login(j) PROVE Goal
  BY <1>3 DEF Login, TypeOK
<1>4. ASSUME UNCHANGED status PROVE FALSE
  BY <1>4
<1>5. ASSUME NEW p \in Handlers, Beginning(p) \/ Log(p) \/ ApproveGrant(p) \/ Fails(p)
      PROVE  UNCHANGED status
  BY <1>5, BeginningEffect, LogEffect DEF ApproveGrant, Fails, rows
<1>6. CASE UNCHANGED vars
  BY <1>4, <1>6 DEF vars, rows
<1> QED
  BY <1>1, <1>2, <1>3, <1>4, <1>5, <1>6, NextCases

\* Whatever reviews, registrations and mergings race, a record is in the
\* status its audit rows explain, as long as no command has failed.
THEOREM AuditExplains == Spec => []AuditExplainsStatus
<1> DEFINE Explained(i) ==
      /\ status[i] = "REJECTED" => Accounted("reject", i)
      /\ status[i] = "MERGED" => Accounted("merge", i)
      /\ status[i] = "ACTIVE" => Accounted("approve", i) \/ Accounted("create", i)
<1> DEFINE Inv == faults = 0 => \A i \in Ids : Explained(i)
<1>1. Init => Inv
  BY DEF Init
<1>2. ASSUME TypeOK, Inv, [Next]_vars PROVE Inv'
  <2> SUFFICES ASSUME faults' = 0, NEW i \in Ids PROVE Explained(i)'
    OBVIOUS
  <2>1. faults = 0
    BY <1>2, NextCases, BeginningEffect, UpdatingEffect, LogEffect
       DEF ApproveGrant, Fails, CreateInsert, Wrote, Login, vars, TypeOK
  <2>2. \A o \in Decisions : Accounted(o, i) => Accounted(o, i)'
    BY <1>2, <2>1, AccountedStays
  <2>3. CASE status'[i] = status[i]
    <3>1. Explained(i)
      BY <1>2, <2>1
    <3> QED
      BY <2>2, <2>3, <3>1 DEF Decisions
  <2>4. CASE status'[i] # status[i]
    BY <1>2, <2>4, StatusStep, Zenon
  <2> QED
    BY <2>3, <2>4
<1>3. Inv => AuditExplainsStatus
  BY DEF AuditExplainsStatus, Accounted
<1> QED
  BY <1>1, <1>2, <1>3, TypeCorrect, PTL DEF Spec

\* A request that is about to issue a grant has logged the approval.
GrantLogged ==
  \A p \in Handlers, i \in Ids :
    req[p].at = "grant" /\ req[p].on = i =>
      req[p].op = "approve" /\ "approve" \in audit[i]

\* An approval is on its way to the grant of a record.
Approving(i) ==
  \E p \in Handlers :
    req[p].at \in {"log", "grant"} /\ req[p].on = i /\ req[p].op = "approve"

GrantInv ==
  /\ GrantLogged
  /\ \A i \in Ids : grants[i] > 0 => "approve" \in audit[i]
  /\ faults = 0 => \A i \in Ids :
       status[i] = "ACTIVE" /\ path[i] = "B" => grants[i] > 0 \/ Approving(i)

\* A write leaves GrantInv true: only an approval makes a registration ACTIVE.
LEMMA GrantInvAtWrite ==
  ASSUME TypeOK, GrantInv, NEW p \in Handlers, NEW i \in Ids \cup {None},
         req[p].at = "write", Wrote(p, i),
         \A j \in Ids : status'[j] = "ACTIVE" /\ path'[j] = "B" =>
           \/ status[j] = "ACTIVE" /\ path[j] = "B"
           \/ req[p].op = "approve" /\ j = i
  PROVE  GrantInv'
<1>1. /\ req'[p].at = "log" /\ req'[p].op = req[p].op /\ req'[p].on = i
      /\ \A q \in Handlers \ {p} : req'[q] = req[q]
      /\ UNCHANGED <<audit, grants, faults>>
  BY WroteEffect
<1>2. \A j \in Ids : Approving(j) => Approving(j)'
  BY <1>1 DEF Approving
<1>3. req[p].op = "approve" => \A j \in Ids : j = i => Approving(j)'
  BY <1>1 DEF Approving
<1>4. GrantLogged'
  BY <1>1 DEF GrantInv, GrantLogged
<1> QED
  BY <1>1, <1>2, <1>3, <1>4 DEF GrantInv

LEMMA GrantStep == TypeOK /\ GrantInv /\ [Next]_vars => GrantInv'
<1> SUFFICES ASSUME TypeOK, GrantInv, [Next]_vars PROVE GrantInv'
  OBVIOUS
<1>1. ASSUME NEW p \in Handlers, Beginning(p) PROVE GrantInv'
  <2>1. /\ UNCHANGED <<status, path, audit, grants, faults>>
        /\ req[p] = NoRequest /\ req'[p].at = "write"
        /\ \A q \in Handlers \ {p} : req'[q] = req[q]
    BY <1>1, BeginningEffect DEF rows
  <2>2. \A i \in Ids : Approving(i) => Approving(i)'
    BY <2>1 DEF Approving, NoRequest
  <2>3. GrantLogged'
    BY <2>1 DEF GrantInv, GrantLogged
  <2> QED
    BY <2>1, <2>2, <2>3 DEF GrantInv
<1>2. ASSUME NEW p \in Handlers, Updating(p) PROVE GrantInv'
  <2>1. /\ req[p].at = "write" /\ Wrote(p, req[p].on) /\ req[p].on \in Ids \cup {None}
    BY <1>2, UpdatingEffect, RequestFields
       DEF Updating, RegisterUpdate, ApproveUpdate, RejectUpdate, MergeUpdate, Writing
  <2>2. ASSUME NEW j \in Ids, status'[j] = "ACTIVE", path'[j] = "B"
        PROVE  \/ status[j] = "ACTIVE" /\ path[j] = "B"
               \/ req[p].op = "approve" /\ j = req[p].on
    BY <1>2, <2>2
       DEF Updating, RegisterUpdate, ApproveUpdate, RejectUpdate, MergeUpdate,
           Writing, TypeOK
  <2> QED
    BY <2>1, <2>2, GrantInvAtWrite
<1>3. ASSUME NEW p \in Handlers, NEW i \in Ids, CreateInsert(p, i) PROVE GrantInv'
  <2>1. /\ req[p].at = "write" /\ Wrote(p, i)
    BY <1>3 DEF CreateInsert, Writing
  <2>2. ASSUME NEW j \in Ids, status'[j] = "ACTIVE", path'[j] = "B"
        PROVE  status[j] = "ACTIVE" /\ path[j] = "B"
    BY <1>3, <2>2 DEF CreateInsert, TypeOK
  <2> QED
    BY <2>1, <2>2, GrantInvAtWrite
<1>4. ASSUME NEW p \in Handlers, Log(p) PROVE GrantInv'
  <2>1. /\ UNCHANGED <<status, path, grants, faults>> /\ req[p].at = "log"
        /\ req[p].op # "approve" => req'[p] = NoRequest
        /\ req[p].op = "approve" =>
             req'[p].at = "grant" /\ req'[p].on = req[p].on /\ req'[p].op = "approve"
        /\ \A q \in Handlers \ {p} : req'[q] = req[q]
        /\ \A i \in Ids : audit'[i] =
             IF i = req[p].on THEN audit[i] \cup ({req[p].op} \cap Decisions) ELSE audit[i]
    BY <1>4, LogEffect DEF rows
  <2>2. \A i \in Ids : Approving(i) => Approving(i)'
    BY <2>1 DEF Approving
  <2>3. GrantLogged'
    <3>1. GrantLogged /\ \A i \in Ids : audit[i] \subseteq audit'[i]
      BY <2>1 DEF GrantInv
    <3>2. ASSUME NEW i \in Ids, req'[p].at = "grant", req'[p].on = i
          PROVE  req'[p].op = "approve" /\ "approve" \in audit'[i]
      <4>1. NoRequest.at # "grant"
        BY DEF NoRequest
      <4>2. req[p].op = "approve"
        BY <2>1, <3>2, <4>1, Zenon
      <4>3. req'[p].op = "approve" /\ i = req[p].on
        BY <2>1, <3>2, <4>2, Zenon
      <4>4. audit'[i] = audit[i] \cup ({"approve"} \cap Decisions)
        BY <2>1, <4>2, <4>3
      <4> QED
        BY <4>3, <4>4 DEF Decisions
    <3> QED
      BY <2>1, <3>1, <3>2 DEF GrantLogged
  <2> QED
    BY <2>1, <2>2, <2>3 DEF GrantInv
<1>5. ASSUME NEW p \in Handlers, ApproveGrant(p) PROVE GrantInv'
  <2>1. /\ req'[p] = NoRequest /\ \A q \in Handlers \ {p} : req'[q] = req[q]
        /\ UNCHANGED <<status, path, audit, faults>> /\ req[p].at = "grant"
    BY <1>5, EndEffect DEF ApproveGrant, rows
  <2>2. \A i \in Ids : grants[i] \in Nat
                       /\ grants'[i] = IF i = req[p].on THEN grants[i] + 1 ELSE grants[i]
    BY <1>5 DEF ApproveGrant, TypeOK
  <2>3. \A i \in Ids : Approving(i) => i = req[p].on \/ Approving(i)'
    BY <2>1 DEF Approving
  <2>4. GrantLogged'
    <3>1. GrantLogged /\ UNCHANGED audit /\ req'[p].at # "grant"
      BY <2>1 DEF GrantInv, NoRequest
    <3> QED
      BY <2>1, <3>1 DEF GrantLogged
  <2>5. \A i \in Ids : grants'[i] > 0 => "approve" \in audit'[i]
    BY <2>1, <2>2 DEF GrantInv, GrantLogged
  <2> QED
    BY <2>1, <2>2, <2>3, <2>4, <2>5 DEF GrantInv
<1>6. ASSUME NEW p \in Handlers, Fails(p) PROVE GrantInv'
  <2>1. /\ req'[p] = NoRequest /\ \A q \in Handlers \ {p} : req'[q] = req[q]
        /\ UNCHANGED <<audit, grants>> /\ faults' # 0
    BY <1>6, EndEffect DEF Fails, TypeOK
  <2> QED
    BY <2>1 DEF GrantInv, GrantLogged, NoRequest
<1>7. ASSUME NEW i \in Ids, Login(i) PROVE GrantInv'
  <2>1. UNCHANGED <<path, audit, grants, req, faults>>
    BY <1>7 DEF Login
  <2>2. \A j \in Ids : status'[j] = "ACTIVE" => status[j] = "ACTIVE"
    BY <1>7 DEF Login, TypeOK
  <2> QED
    BY <2>1, <2>2 DEF GrantInv, GrantLogged, Approving
<1>8. CASE UNCHANGED vars
  BY <1>8 DEF vars, rows, GrantInv, GrantLogged, Approving
<1> QED
  BY <1>1, <1>2, <1>3, <1>4, <1>5, <1>6, <1>7, <1>8, NextCases

\* A grant follows a logged approval; and a guest who is ACTIVE after
\* registering has a grant, or an approval in progress is about to issue it.
THEOREM ApprovedAreGranted == Spec => []ApprovedIsGranted
<1>1. Init => GrantInv
  BY DEF Init, GrantInv, GrantLogged, NoRequest
<1>2. GrantInv => ApprovedIsGranted
  BY DEF GrantInv, ApprovedIsGranted, Approving
<1> QED
  BY <1>1, <1>2, GrantStep, TypeCorrect, PTL DEF Spec

(***************************************************************************)
(* Requests that do not overlap.  What a request has read is then still    *)
(* true when it writes.                                                    *)
(***************************************************************************)

\* Every request but a creation is about a record that exists.
Located ==
  \A p \in Handlers :
    req[p] # NoRequest /\ ~Writing(p, "create") =>
      req[p].on \in Ids /\ status[req[p].on] # "none"

\* An id that is not yet drawn, and the record of a login, have no key.
Blank ==
  \A i \in Ids : status[i] = "none" => profile[i] = Empty /\ dedupHash[i] = None

Alone == \A p, q \in Handlers : req[p] # NoRequest /\ req[q] # NoRequest => p = q

\* What a request has found is so.
StillTrue ==
  \A p \in Handlers :
    /\ Writing(p, "create") \/ Writing(p, "register") => ~Duplicate(req[p].form)
    /\ Writing(p, "approve") =>
         status[req[p].on] = "PENDING" /\ req[p].form = profile[req[p].on]

CurrentHash == \A i \in Ids : Live(i) => dedupHash[i] = PrimaryHash(profile[i])

OneBooking ==
  \A i, j \in Ids :
    Live(i) /\ Live(j) /\ profile[i].ref # None /\ profile[i].ref = profile[j].ref
      => i = j

RecordInv ==
  /\ Located /\ Blank
  /\ ~overlapped => Alone /\ StillTrue /\ CurrentHash /\ OneBooking

\* Nobody who has the booking reference of a profile without duplicate.
LEMMA NoDuplicateBooking ==
  ASSUME TypeOK, CurrentHash, NEW f \in Profile, ~Duplicate(f), f.ref # None,
         NEW i \in Ids, Live(i)
  PROVE  profile[i].ref # f.ref
<1> SUFFICES ASSUME profile[i].ref = f.ref PROVE FALSE
  OBVIOUS
<1>1. profile[i] \in Profile
  BY DEF TypeOK
<1>2. dedupHash[i] = PrimaryHash(profile[i])
  BY DEF CurrentHash
<1>3. PrimaryHash(profile[i]) = PrimaryHash(f)
  BY <1>1, HashFacts
<1>4. PrimaryHash(f) # None
  BY IdentityAssumption DEF Profile, Hash, PrimaryHash
<1>5. PrimaryHash(f) \in DedupHashes(f)
  BY <1>4, HashFacts
<1> QED
  BY <1>2, <1>3, <1>5 DEF Duplicate

\* A request that begins: nothing else is in progress, or there is an overlap.
LEMMA RecordInvAtBegin ==
  ASSUME TypeOK, RecordInv, NEW p \in Handlers, Beginning(p)
  PROVE  RecordInv'
<1>1. /\ req[p] = NoRequest /\ req'[p] # NoRequest /\ req'[p].at = "write"
      /\ \A q \in Handlers \ {p} : req'[q] = req[q]
      /\ overlapped' <=> overlapped \/ \E q \in Handlers : req[q] # NoRequest
      /\ UNCHANGED <<status, profile, dedupHash>>
      /\ req'[p].op # "create" => req'[p].on \in Ids /\ status[req'[p].on] # "none"
      /\ req'[p].op \in {"create", "register"} => ~Duplicate(req'[p].form)
      /\ req'[p].op = "approve" =>
           status[req'[p].on] = "PENDING" /\ req'[p].form = profile[req'[p].on]
  BY BeginningEffect DEF rows
<1>2. Located'
  <2> SUFFICES ASSUME NEW q \in Handlers, req'[q] # NoRequest, ~Writing(q, "create")'
               PROVE  req'[q].on \in Ids /\ status'[req'[q].on] # "none"
    BY DEF Located
  <2>1. CASE q = p
    BY <1>1, <2>1 DEF Writing
  <2>2. CASE q # p
    BY <1>1, <2>2 DEF RecordInv, Located, Writing
  <2> QED
    BY <2>1, <2>2
<1>3. Blank'
  BY <1>1 DEF RecordInv, Blank
<1>4. ASSUME ~overlapped' PROVE Alone' /\ StillTrue' /\ CurrentHash' /\ OneBooking'
  <2>1. ~overlapped /\ \A q \in Handlers \ {p} : req'[q] = NoRequest
    BY <1>1, <1>4
  <2>2. Alone'
    BY <2>1 DEF Alone
  <2>3. \A f : Duplicate(f)' = Duplicate(f)
    BY <1>1 DEF Duplicate, Live
  <2>4. StillTrue'
    BY <1>1, <2>1, <2>3 DEF StillTrue, Writing, NoRequest
  <2>5. CurrentHash' /\ OneBooking'
    BY <1>1, <2>1 DEF RecordInv, CurrentHash, OneBooking, Live
  <2> QED
    BY <2>2, <2>4, <2>5
<1> QED
  BY <1>2, <1>3, <1>4 DEF RecordInv

\* The rows stay, and a request ends or goes on from its log to its grant.
LEMMA RecordInvAtQuiet ==
  ASSUME RecordInv, NEW p \in Handlers, req[p] # NoRequest,
         UNCHANGED <<status, profile, dedupHash, overlapped>>,
         \/ req'[p] = NoRequest
         \/ req[p].at = "log" /\ req'[p].at = "grant" /\ req'[p].on = req[p].on,
         \A q \in Handlers \ {p} : req'[q] = req[q]
  PROVE  RecordInv'
<1>1. NoRequest.at # "write"
  BY DEF NoRequest
<1>2. \A q \in Handlers, o \in Operations :
        Writing(q, o)' => q # p /\ req'[q] = req[q] /\ Writing(q, o)
  BY <1>1 DEF Writing
<1>3. Located'
  <2> SUFFICES ASSUME NEW q \in Handlers, req'[q] # NoRequest, ~Writing(q, "create")'
               PROVE  req'[q].on \in Ids /\ status'[req'[q].on] # "none"
    BY DEF Located
  <2>1. CASE q = p
    BY <2>1 DEF RecordInv, Located, Writing
  <2>2. CASE q # p
    BY <2>2 DEF RecordInv, Located, Writing
  <2> QED
    BY <2>1, <2>2
<1>4. Blank'
  BY DEF RecordInv, Blank
<1>5. ASSUME ~overlapped' PROVE Alone' /\ StillTrue' /\ CurrentHash' /\ OneBooking'
  <2>1. Alone /\ StillTrue /\ CurrentHash /\ OneBooking
    BY <1>5 DEF RecordInv
  <2>2. Alone'
    BY <2>1 DEF Alone
  <2>3. \A f : Duplicate(f)' = Duplicate(f)
    BY DEF Duplicate, Live
  <2>4. StillTrue'
    BY <1>2, <2>1, <2>3 DEF StillTrue, Operations, Decisions
  <2>5. CurrentHash' /\ OneBooking'
    BY <2>1 DEF CurrentHash, OneBooking, Live
  <2> QED
    BY <2>2, <2>4, <2>5
<1> QED
  BY <1>3, <1>4, <1>5 DEF RecordInv

\* A write: the only request in progress is then about to log.
LEMMA RecordInvAtWrite ==
  ASSUME TypeOK, RecordInv, NEW p \in Handlers, NEW i \in Ids,
         req[p].at = "write", Wrote(p, i), status'[i] # "none",
         \A j \in Ids \ {i} : /\ status'[j] = status[j] /\ profile'[j] = profile[j]
                              /\ dedupHash'[j] = dedupHash[j],
         ~overlapped => CurrentHash' /\ OneBooking'
  PROVE  RecordInv'
<1>1. /\ req'[p].at = "log" /\ req'[p].on = i /\ req'[p] # NoRequest
      /\ \A q \in Handlers \ {p} : req'[q] = req[q]
      /\ UNCHANGED overlapped /\ req[p] # NoRequest
  BY WroteEffect DEF NoRequest
<1>2. Located'
  <2> SUFFICES ASSUME NEW q \in Handlers, req'[q] # NoRequest, ~Writing(q, "create")'
               PROVE  req'[q].on \in Ids /\ status'[req'[q].on] # "none"
    BY DEF Located
  <2>1. CASE q = p
    BY <1>1, <2>1
  <2>2. CASE q # p
    BY <1>1, <2>2 DEF RecordInv, Located, Writing
  <2> QED
    BY <2>1, <2>2
<1>3. Blank'
  BY DEF RecordInv, Blank
<1>4. ASSUME ~overlapped PROVE Alone' /\ StillTrue'
  <2>1. \A q \in Handlers \ {p} : req'[q] = NoRequest
    BY <1>1, <1>4 DEF RecordInv, Alone
  <2>2. NoRequest.at # "write"
    BY DEF NoRequest
  <2> QED
    BY <1>1, <2>1, <2>2 DEF Alone, StillTrue, Writing
<1> QED
  BY <1>1, <1>2, <1>3, <1>4 DEF RecordInv

LEMMA RecordInvAtLogin ==
  ASSUME TypeOK, RecordInv, NEW i \in Ids, Login(i)
  PROVE  RecordInv'
<1>1. /\ status[i] = "none" /\ status' = [status EXCEPT ![i] = "PENDING"]
      /\ UNCHANGED <<profile, dedupHash, req, overlapped>>
  BY DEF Login
<1>2. /\ \A j \in Ids \ {i} : status'[j] = status[j]
      /\ status'[i] = "PENDING" /\ ~Live(i)
  BY <1>1 DEF TypeOK, Live
<1>3. profile[i] = Empty /\ dedupHash[i] = None
  BY <1>1 DEF RecordInv, Blank
<1>4. Located' /\ Blank'
  BY <1>1, <1>2 DEF RecordInv, Located, Blank, Writing
<1>5. ASSUME ~overlapped PROVE Alone' /\ StillTrue' /\ CurrentHash' /\ OneBooking'
  <2>1. Alone /\ StillTrue /\ CurrentHash /\ OneBooking
    BY <1>5 DEF RecordInv
  <2>2. Alone'
    BY <1>1, <2>1 DEF Alone
  <2>3. ASSUME NEW f \in Profile, ~Duplicate(f) PROVE ~Duplicate(f)'
    <3>1. None \notin DedupHashes(f)
      BY HashFacts
    <3> QED
      BY <1>1, <1>2, <1>3, <2>3, <3>1 DEF Duplicate, Live
  <2>4. ASSUME NEW p \in Handlers, NEW o \in Operations, Writing(p, o)'
        PROVE  /\ Writing(p, o) /\ UNCHANGED req /\ req[p].form \in Profile
               /\ o # "create" => req[p].on \in Ids
    <3>1. req[p] \in Request /\ req[p] # NoRequest /\ Writing(p, o)
      BY <1>1, <2>4 DEF Writing, TypeOK, NoRequest
    <3>2. o # "create" => ~Writing(p, "create")
      BY <3>1 DEF Writing
    <3> QED
      BY <1>1, <3>1, <3>2, RequestFields DEF RecordInv, Located
  <2>5. StillTrue'
    <3> SUFFICES ASSUME NEW p \in Handlers
                 PROVE  /\ Writing(p, "create")' \/ Writing(p, "register")' =>
                             ~Duplicate(req[p].form)'
                        /\ Writing(p, "approve")' =>
                             /\ status'[req[p].on] = "PENDING"
                             /\ req[p].form = profile[req[p].on]
      BY <1>1 DEF StillTrue
    <3>1. ASSUME Writing(p, "create")' \/ Writing(p, "register")'
          PROVE  ~Duplicate(req[p].form)'
      <4>1. req[p].form \in Profile /\ ~Duplicate(req[p].form)
        BY <2>1, <2>4, <3>1 DEF StillTrue, Operations, Decisions
      <4>2. UNCHANGED req
        BY <1>1
      <4>3. PICK f \in Profile : f = req[p].form
        BY <4>1
      <4>4. ~Duplicate(f)'
        BY <2>3, <4>1, <4>3
      <4> QED
        BY <4>2, <4>3, <4>4 DEF Duplicate
    <3>2. ASSUME Writing(p, "approve")'
          PROVE  status'[req[p].on] = "PENDING" /\ req[p].form = profile[req[p].on]
      BY <1>1, <1>2, <2>1, <2>4, <3>2 DEF StillTrue, Operations, Decisions
    <3> QED
      BY <3>1, <3>2
  <2>6. CurrentHash'
    BY <1>1, <1>2, <1>3, <2>1, EmptyHash DEF CurrentHash, Live
  <2>7. OneBooking'
    BY <1>1, <1>2, <1>3, <2>1 DEF OneBooking, Live, Empty
  <2> QED
    BY <2>2, <2>5, <2>6, <2>7
<1> QED
  BY <1>1, <1>4, <1>5 DEF RecordInv

\* A profile without duplicate is written, with its hash, into record i.
LEMMA WriteOfChecked ==
  ASSUME TypeOK, CurrentHash, OneBooking, NEW i \in Ids, NEW f \in Profile,
         ~Duplicate(f), profile'[i] = f, dedupHash'[i] = PrimaryHash(f),
         \A j \in Ids \ {i} : /\ status'[j] = status[j] /\ profile'[j] = profile[j]
                              /\ dedupHash'[j] = dedupHash[j]
  PROVE  CurrentHash' /\ OneBooking'
<1>1. \A j \in Ids \ {i} : Live(j)' => Live(j)
  BY DEF Live
<1>2. CurrentHash'
  BY <1>1 DEF CurrentHash
<1>3. \A j \in Ids \ {i} : Live(j) /\ f.ref # None => profile[j].ref # f.ref
  BY NoDuplicateBooking
<1>4. OneBooking'
  BY <1>1, <1>3 DEF OneBooking
<1> QED
  BY <1>2, <1>4

LEMMA RecordStep == TypeOK /\ RecordInv /\ [Next]_vars => RecordInv'
<1> SUFFICES ASSUME TypeOK, RecordInv, [Next]_vars PROVE RecordInv'
  OBVIOUS
<1>1. ASSUME NEW p \in Handlers, Beginning(p) PROVE RecordInv'
  BY <1>1, RecordInvAtBegin
<1>2. ASSUME NEW p \in Handlers, Updating(p) PROVE RecordInv'
  <2> DEFINE i == req[p].on
  <2>1. /\ req[p] \in Request /\ req[p].at = "write" /\ req[p].op # "create"
        /\ \A j \in Ids \ {i} : /\ status'[j] = status[j] /\ profile'[j] = profile[j]
                                /\ dedupHash'[j] = dedupHash[j]
    BY <1>2, UpdatingEffect
  <2>2. i \in Ids /\ req[p].form \in Profile
    BY <2>1, RequestFields DEF RecordInv, Located, Writing
  <2>3. Wrote(p, i)
    BY <1>2 DEF Updating, RegisterUpdate, ApproveUpdate, RejectUpdate, MergeUpdate
  <2>4. status'[i] # "none"
    BY <1>2, <2>2 DEF Updating, RegisterUpdate, ApproveUpdate, RejectUpdate,
                      MergeUpdate, TypeOK
  <2>5. ASSUME ~overlapped PROVE CurrentHash' /\ OneBooking'
    <3>1. CurrentHash /\ OneBooking /\ StillTrue
      BY <2>5 DEF RecordInv
    <3>2. CASE RegisterUpdate(p)
      <4>1. ~Duplicate(req[p].form)
        BY <3>1, <3>2 DEF StillTrue, RegisterUpdate
      <4>2. /\ profile'[i] = req[p].form /\ dedupHash'[i] = PrimaryHash(req[p].form)
        BY <2>2, <3>2 DEF RegisterUpdate, TypeOK
      <4> QED
        BY <2>1, <2>2, <3>1, <4>1, <4>2, WriteOfChecked
    <3>3. CASE ApproveUpdate(p)
      <4>1. status[i] = "PENDING" /\ req[p].form = profile[i]
        BY <3>1, <3>3 DEF StillTrue, ApproveUpdate
      <4>2. status'[i] = "ACTIVE" /\ profile'[i] = profile[i] /\ UNCHANGED dedupHash
        BY <2>2, <3>3, <4>1 DEF ApproveUpdate, TypeOK
      <4>3. \A j \in Ids : profile'[j] = profile[j] /\ (Live(j)' <=> Live(j))
        BY <2>1, <4>1, <4>2 DEF Live
      <4> QED
        BY <3>1, <4>2, <4>3 DEF CurrentHash, OneBooking
    <3>4. CASE RejectUpdate(p) \/ MergeUpdate(p)
      <4>1. status'[i] \in {"REJECTED", "MERGED"} /\ UNCHANGED <<profile, dedupHash>>
        BY <2>2, <3>4 DEF RejectUpdate, MergeUpdate, TypeOK
      <4>2. \A j \in Ids : Live(j)' => Live(j)
        BY <2>1, <4>1 DEF Live
      <4> QED
        BY <3>1, <4>1, <4>2 DEF CurrentHash, OneBooking
    <3> QED
      BY <1>2, <3>2, <3>3, <3>4 DEF Updating
  <2> HIDE DEF i
  <2> QED
    BY <2>1, <2>2, <2>3, <2>4, <2>5, RecordInvAtWrite
<1>3. ASSUME NEW p \in Handlers, NEW i \in Ids, CreateInsert(p, i) PROVE RecordInv'
  <2>1. req[p].at = "write" /\ Wrote(p, i) /\ req[p] \in Request
    BY <1>3 DEF CreateInsert, Writing, TypeOK, NoRequest
  <2>2. /\ status'[i] = "ACTIVE" /\ profile'[i] = req[p].form
        /\ dedupHash'[i] = PrimaryHash(req[p].form)
        /\ \A j \in Ids \ {i} : /\ status'[j] = status[j] /\ profile'[j] = profile[j]
                                /\ dedupHash'[j] = dedupHash[j]
    BY <1>3 DEF CreateInsert, TypeOK
  <2>3. ASSUME ~overlapped PROVE CurrentHash' /\ OneBooking'
    <3>1. CurrentHash /\ OneBooking /\ ~Duplicate(req[p].form)
      BY <1>3, <2>3 DEF RecordInv, StillTrue, CreateInsert
    <3>2. req[p].form \in Profile
      BY <2>1, RequestFields
    <3> QED
      BY <2>2, <3>1, <3>2, WriteOfChecked
  <2> QED
    BY <2>1, <2>2, <2>3, RecordInvAtWrite
<1>4. ASSUME NEW p \in Handlers, Log(p) PROVE RecordInv'
  BY <1>4, LogEffect, RecordInvAtQuiet DEF rows, NoRequest
<1>5. ASSUME NEW p \in Handlers, ApproveGrant(p) PROVE RecordInv'
  <2>1. /\ req[p] # NoRequest
        /\ UNCHANGED <<status, profile, dedupHash, overlapped>>
        /\ req' = [req EXCEPT ![p] = NoRequest]
    BY <1>5 DEF ApproveGrant, rows, NoRequest
  <2> QED
    BY <2>1, EndEffect, RecordInvAtQuiet
<1>6. ASSUME NEW p \in Handlers, Fails(p) PROVE RecordInv'
  <2>1. /\ req[p] # NoRequest /\ UNCHANGED <<status, profile, dedupHash, overlapped>>
        /\ req' = [req EXCEPT ![p] = NoRequest]
    BY <1>6 DEF Fails, rows
  <2> QED
    BY <2>1, EndEffect, RecordInvAtQuiet
<1>7. ASSUME NEW i \in Ids, Login(i) PROVE RecordInv'
  BY <1>7, RecordInvAtLogin
<1>8. CASE UNCHANGED vars
  BY <1>8 DEF vars, rows, RecordInv, Located, Blank, Alone, StillTrue, CurrentHash,
              OneBooking, Writing, Duplicate, Live
<1> QED
  BY <1>1, <1>2, <1>3, <1>4, <1>5, <1>6, <1>7, <1>8, NextCases

LEMMA RecordInit == Init => RecordInv
  BY DEF Init, RecordInv, Located, Blank, Alone, StillTrue, CurrentHash, OneBooking,
         Writing, Live, NoRequest

\* As long as requests do not overlap, the stored hash is the hash of the
\* stored profile, after any creation, resubmission, review or login.
THEOREM HashesAreCurrent == Spec => []HashIsCurrent
<1>1. RecordInv => HashIsCurrent
  BY DEF RecordInv, CurrentHash, HashIsCurrent
<1> QED
  BY <1>1, RecordInit, RecordStep, TypeCorrect, PTL DEF Spec

\* As long as requests do not overlap, a booking reference is in use by one
\* record at most.
THEOREM BookingsAreUnique == Spec => []UniqueBooking
<1>1. RecordInv => UniqueBooking
  BY DEF RecordInv, OneBooking, UniqueBooking
<1> QED
  BY <1>1, RecordInit, RecordStep, TypeCorrect, PTL DEF Spec
=============================================================================
