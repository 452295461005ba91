--------------------------- MODULE IdentityRecords ---------------------------
(***************************************************************************)
(* IdentityService: registration of guests by staff (path A) or by         *)
(* themselves (path B), review, merging and the search for duplicates.     *)
(*                                                                         *)
(* Every database command is a step, with the code around it up to the     *)
(* next await; other requests run in between.  A booking reference or a    *)
(* name stands for all its spellings: the hashes trim and lower-case.      *)
(* The keys of match_any are the two that a tenant has by default.         *)
(* Other keys of a profile, and the tenant, are left out: no check reads   *)
(* them, and no request reaches the records of another tenant.             *)
(***************************************************************************)
EXTENDS Integers, FiniteSets

CONSTANTS
  Ids,        \* identity records
  Refs,       \* booking references
  Names,      \* full names
  Forms,      \* the profiles that callers send
  Handlers,   \* HTTP requests in progress at once
  MaxGrants,  \* bound: grants issued to a record
  MaxFaults,  \* bound: commands that fail and processes that crash
  None

Profile == [ref : Refs \cup {None}, name : Names \cup {None}]
Empty == [ref |-> None, name |-> None]
Hash == ({"booking_ref"} \X Refs) \cup ({"full_name"} \X Names)

ASSUME IdentityAssumption ==
  /\ MaxGrants \in Nat /\ MaxFaults \in Nat
  /\ None \notin Ids \cup Refs \cup Names \cup Hash
  /\ Forms \subseteq Profile

Status == {"none", "PENDING", "ACTIVE", "REJECTED", "MERGED"}
Decisions == {"create", "approve", "reject", "merge"}
Operations == Decisions \cup {"register"}

\* A request in progress: the command it is about to send, its operation and
\* record, the profile it was sent or has read, the record it merges into.
Request ==
  [at : {"write", "log", "grant"}, op : Operations, on : Ids \cup {None},
   form : Profile, target : Ids \cup {None}]
NoRequest ==
  [at |-> "idle", op |-> "none", on |-> None, form |-> Empty, target |-> None]

VARIABLES
  status,      \* "none": there is no such record yet
  path,        \* registrationPath
  profile,     \* its booking_ref and full_name
  dedupHash,
  mergedInto,  \* mergedIntoId
  audit,       \* the decisions a record has an audit row of
  grants,      \* HOTEL_STAY grants issued to it
  req,         \* the requests in progress
  overlapped,  \* history: has a request begun while another was in progress
  faults       \* faults so far

rows == <<status, path, profile, dedupHash, mergedInto>>
vars == <<rows, audit, grants, req, overlapped, faults>>

Init ==
  /\ status = [i \in Ids |-> "none"]
  /\ path = [i \in Ids |-> "B"]
  /\ profile = [i \in Ids |-> Empty]
  /\ dedupHash = [i \in Ids |-> None]
  /\ mergedInto = [i \in Ids |-> None]
  /\ audit = [i \in Ids |-> {}]
  /\ grants = [i \in Ids |-> 0]
  /\ req = [p \in Handlers |-> NoRequest]
  /\ overlapped = FALSE
  /\ faults = 0

----------------------------------------------------------------------------
(* The search for duplicates *)

\* computeDedupHashes: one per key with a value.
DedupHashes(f) ==
  {h \in {<<"booking_ref", f.ref>>, <<"full_name", f.name>>} : h[2] # None}

\* computePrimaryHash: the first key of match_any with a value.
PrimaryHash(f) ==
  IF f.ref # None THEN <<"booking_ref", f.ref>>
  ELSE IF f.name # None THEN <<"full_name", f.name>>
  ELSE None

Live(i) == status[i] \in {"PENDING", "ACTIVE"}

\* Mutant: records that wait for approval are not searched.
DuplicateOfActive(f) ==
  \E i \in Ids : status[i] = "ACTIVE" /\ dedupHash[i] \in DedupHashes(f)

\* checkDedup: any record that is not REJECTED or MERGED.
Duplicate(f) == \E i \in Ids : Live(i) /\ dedupHash[i] \in DedupHashes(f)

----------------------------------------------------------------------------
(* The beginning of a request: its reads and checks.  One that is refused   *)
(* (409, 400, 404) changes nothing.                                         *)

Begin(p, o, i, f, t) ==
  /\ req[p] = NoRequest
  /\ req' = [req EXCEPT ![p] =
       [at |-> "write", op |-> o, on |-> i, form |-> f, target |-> t]]
  /\ overlapped' = (overlapped \/ \E q \in Handlers : req[q] # NoRequest)
  /\ UNCHANGED <<rows, audit, grants, faults>>

\* createIdentity, path A.  The id is drawn by the insert.
CreateCheck(p, f) == ~Duplicate(f) /\ Begin(p, "create", None, f, None)

\* selfRegister: a form has both keys; the caller may be in any status.
RegisterCheck(p, i, f) ==
  /\ status[i] # "none" /\ f.ref # None /\ f.name # None
  /\ ~Duplicate(f)
  /\ Begin(p, "register", i, f, None)

ApproveRead(p, i) ==
  /\ status[i] = "PENDING" /\ grants[i] < MaxGrants
  /\ Begin(p, "approve", i, profile[i], None)

RejectRead(p, i) ==
  status[i] = "PENDING" /\ Begin(p, "reject", i, Empty, None)

\* merge reads both records and asks only for the target's status.
MergeRead(p, i, t) ==
  /\ status[i] # "none" /\ status[t] = "ACTIVE"
  /\ Begin(p, "merge", i, Empty, t)

----------------------------------------------------------------------------
(* The write of each operation: by id, whatever the status is by now *)

Writing(p, o) == req[p].at = "write" /\ req[p].op = o

\* The row of a request is written; the audit row is next, for which only
\* the operation and the record are still needed.
Wrote(p, i) ==
  /\ req' = [req EXCEPT ![p] =
       [at |-> "log", op |-> req[p].op, on |-> i, form |-> Empty, target |-> None]]
  /\ UNCHANGED <<audit, grants, overlapped, faults>>

CreateInsert(p, i) ==
  /\ Writing(p, "create") /\ status[i] = "none"
  /\ status' = [status EXCEPT ![i] = "ACTIVE"]
  /\ path' = [path EXCEPT ![i] = "A"]
  /\ profile' = [profile EXCEPT ![i] = req[p].form]
  /\ dedupHash' = [dedupHash EXCEPT ![i] = PrimaryHash(req[p].form)]
  /\ Wrote(p, i)
  /\ UNCHANGED mergedInto

\* Mutant: the hash is computed when a record is created and never again.
RegisterUpdateKeepsHash(p) ==
  LET i == req[p].on
  IN /\ Writing(p, "register")
     /\ status' = [status EXCEPT ![i] = "PENDING"]
     /\ path' = [path EXCEPT ![i] = "B"]
     /\ profile' = [profile EXCEPT ![i] = req[p].form]
     /\ Wrote(p, i)
     /\ UNCHANGED <<dedupHash, mergedInto>>

RegisterUpdate(p) ==
  LET i == req[p].on
  IN /\ Writing(p, "register")
     /\ status' = [status EXCEPT ![i] = "PENDING"]
     /\ path' = [path EXCEPT ![i] = "B"]
     /\ profile' = [profile EXCEPT ![i] = req[p].form]
     /\ dedupHash' = [dedupHash EXCEPT ![i] = PrimaryHash(req[p].form)]
     /\ Wrote(p, i)
     /\ UNCHANGED mergedInto

\* The profile as it was read, with the dates added.
ApproveUpdate(p) ==
  LET i == req[p].on
  IN /\ Writing(p, "approve")
     /\ status' = [status EXCEPT ![i] = "ACTIVE"]
     /\ profile' = [profile EXCEPT ![i] = req[p].form]
     /\ Wrote(p, i)
     /\ UNCHANGED <<path, dedupHash, mergedInto>>

\* Mutant: the request is over before the audit row is written.
RejectUpdateUnlogged(p) ==
  /\ Writing(p, "reject")
  /\ status' = [status EXCEPT ![req[p].on] = "REJECTED"]
  /\ req' = [req EXCEPT ![p] = NoRequest]
  /\ UNCHANGED <<path, profile, dedupHash, mergedInto, audit, grants,
                 overlapped, faults>>

RejectUpdate(p) ==
  LET i == req[p].on
  IN /\ Writing(p, "reject")
     /\ status' = [status EXCEPT ![i] = "REJECTED"]
     /\ Wrote(p, i)
     /\ UNCHANGED <<path, profile, dedupHash, mergedInto>>

MergeUpdate(p) ==
  LET i == req[p].on
  IN /\ Writing(p, "merge")
     /\ status' = [status EXCEPT ![i] = "MERGED"]
     /\ mergedInto' = [mergedInto EXCEPT ![i] = req[p].target]
     /\ Wrote(p, i)
     /\ UNCHANGED <<path, profile, dedupHash>>

----------------------------------------------------------------------------
(* What follows the write *)

\* Mutant: approve answers as soon as it has logged.
LogAndReturn(p) ==
  /\ req[p].at = "log"
  /\ audit' = [audit EXCEPT ![req[p].on] = @ \cup ({req[p].op} \cap Decisions)]
  /\ req' = [req EXCEPT ![p] = NoRequest]
  /\ UNCHANGED <<rows, grants, overlapped, faults>>

\* auditService.log; only approve goes on, to issue the grant.
Log(p) ==
  /\ req[p].at = "log"
  /\ audit' = [audit EXCEPT ![req[p].on] = @ \cup ({req[p].op} \cap Decisions)]
  /\ \/ req[p].op = "approve" /\ req' = [req EXCEPT ![p].at = "grant"]
     \/ req[p].op # "approve" /\ req' = [req EXCEPT ![p] = NoRequest]
  /\ UNCHANGED <<rows, grants, overlapped, faults>>

\* issueGrant, whose own commands are those of GrantEngine.
ApproveGrant(p) ==
  /\ req[p].at = "grant"
  /\ grants' = [grants EXCEPT ![req[p].on] = @ + 1]
  /\ req' = [req EXCEPT ![p] = NoRequest]
  /\ UNCHANGED <<rows, audit, overlapped, faults>>

\* A command throws, or the server process ends: the request is over.
Fails(p) ==
  /\ req[p] # NoRequest /\ faults < MaxFaults
  /\ faults' = faults + 1
  /\ req' = [req EXCEPT ![p] = NoRequest]
  /\ UNCHANGED <<rows, audit, grants, overlapped>>

\* The record a first login leaves: a number, and no key to be matched by.
Login(i) ==
  /\ status[i] = "none"
  /\ status' = [status EXCEPT ![i] = "PENDING"]
  /\ UNCHANGED <<path, profile, dedupHash, mergedInto, audit, grants, req,
                 overlapped, faults>>

Continue(p) ==
  \/ \E i \in Ids : CreateInsert(p, i)
  \/ RegisterUpdate(p) \/ ApproveUpdate(p) \/ RejectUpdate(p) \/ MergeUpdate(p)
  \/ Log(p) \/ ApproveGrant(p)

Next ==
  \/ \E p \in Handlers : Continue(p) \/ Fails(p)
  \/ \E p \in Handlers, f \in Forms :
       CreateCheck(p, f) \/ \E i \in Ids : RegisterCheck(p, i, f)
  \/ \E p \in Handlers, i \in Ids :
       \/ ApproveRead(p, i) \/ RejectRead(p, i)
       \/ \E t \in Ids : MergeRead(p, i, t)
  \/ \E i \in Ids : Login(i)

Spec == Init /\ [][Next]_vars

----------------------------------------------------------------------------
(* Properties *)

\* The shape of the state.
TypeOK ==
  /\ status \in [Ids -> Status]
  /\ path \in [Ids -> {"A", "B"}]
  /\ profile \in [Ids -> Profile]
  /\ dedupHash \in [Ids -> Hash \cup {None}]
  /\ mergedInto \in [Ids -> Ids \cup {None}]
  /\ audit \in [Ids -> SUBSET Decisions]
  /\ grants \in [Ids -> Nat]
  /\ req \in [Handlers -> Request \cup {NoRequest}]
  /\ overlapped \in BOOLEAN
  /\ faults \in 0..MaxFaults

\* As long as requests do not overlap, the stored hash is that of the stored
\* profile: no operation leaves one of the two behind, wherever one stops.
HashIsCurrent ==
  ~overlapped => \A i \in Ids :
    Live(i) => dedupHash[i] = PrimaryHash(profile[i])

\* REQ-ID-03: as long as requests do not overlap, no two records in use have
\* one booking reference, through resubmission, review and merging.
UniqueBooking ==
  ~overlapped => \A i, j \in Ids :
    Live(i) /\ Live(j) /\ profile[i].ref # None
      /\ profile[i].ref = profile[j].ref => i = j

\* While no command fails, a record is in the status that its audit rows
\* explain, or a request is about to write the row, whatever requests race.
AuditExplainsStatus ==
  faults = 0 => \A i \in Ids :
    LET Logged(o) == \/ o \in audit[i]
                     \/ \E p \in Handlers :
                          req[p].at = "log" /\ req[p].on = i /\ req[p].op = o
    IN /\ status[i] = "REJECTED" => Logged("reject")
       /\ status[i] = "MERGED" => Logged("merge")
       /\ status[i] = "ACTIVE" => Logged("approve") \/ Logged("create")

\* A grant is issued only after an approval that is on record; and while no
\* command fails, a guest who is ACTIVE after registering has a grant or is
\* about to get it, whatever other reviews and registrations race.
ApprovedIsGranted ==
  \A i \in Ids :
    /\ grants[i] > 0 => "approve" \in audit[i]
    /\ faults = 0 /\ status[i] = "ACTIVE" /\ path[i] = "B" =>
         \/ grants[i] > 0
         \/ \E p \in Handlers :
              /\ req[p].at \in {"log", "grant"}
              /\ req[p].on = i /\ req[p].op = "approve"

(* What the documentation says and the code does not do: it is refuted.    *)

\* "A match on either field must flag for review" (REQ-ID-02): no two records
\* in use have the same name either.
EitherKeyFlagged ==
  \A i, j \in Ids :
    Live(i) /\ Live(j) /\ profile[i].name # None
      /\ profile[i].name = profile[j].name => i = j
=============================================================================
