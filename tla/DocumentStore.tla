---------------------------- MODULE DocumentStore ----------------------------
(***************************************************************************)
(* DocumentsService and StorageService: the upload of an identity document *)
(* to the KYC bucket and its row in data_subject_records, beside the seed  *)
(* script that writes the rule of how long it is kept.                     *)
(*                                                                         *)
(* An upload sends four commands, each a step: it finds the identity, puts *)
(* the object, finds the retention rule, inserts the row.  A file of the   *)
(* wrong type or size is refused before the first and changes nothing.     *)
(* Nothing erases: deleteKycDocument has no caller and no code writes      *)
(* erasedAt, so both are left out.                                         *)
(***************************************************************************)
EXTENDS Seed

CONSTANTS
  Ids,          \* identity records of guests
  Docs,         \* keys of objects: a fresh UUID under kyc/{tenant}/{identity}
  Uploads,      \* upload requests in progress at once
  Kyc,          \* the category of these documents
  Year,         \* days in the platform's rule, and when there is no rule
  TenantDays,   \* days in the rule of the tenant, if it has one
  MaxFaults,    \* bound: commands that fail and processes that crash
  None

Row == [subject : Ids, days : {Year, TenantDays}]

ASSUME DocumentAssumption ==
  /\ Year \in Nat /\ TenantDays \in Nat /\ MaxFaults \in Nat
  /\ Kyc \in Categories
  /\ None \notin Ids \cup Docs \cup Nat /\ None \notin Row

Idle == [at |-> "idle", on |-> None, doc |-> None, days |-> None]

VARIABLES
  objects,    \* the bucket: the identity in each object's key, None if absent
  rows,       \* data_subject_records: the row whose dataRef is the key
  tenantRule, \* retention_rules: has the tenant a rule for these documents
  upload,     \* the upload requests in progress
  cut,        \* history: objects whose upload a fault has cut off
  faults      \* faults so far

docVars == <<objects, rows, tenantRule, upload, cut, faults>>
vars == <<seedVars, docVars>>

Init ==
  /\ SeedInit
  /\ objects = [d \in Docs |-> None]
  /\ rows = [d \in Docs |-> None]
  /\ tenantRule = FALSE
  /\ upload = [u \in Uploads |-> Idle]
  /\ cut = {}
  /\ faults = 0

\* The operator gives the tenant a rule of its own, by hand: no code does.
ConfigureRule ==
  /\ "tenant" \in units /\ ~tenantRule
  /\ tenantRule' = TRUE
  /\ UNCHANGED <<seedVars, objects, rows, upload, cut, faults>>

----------------------------------------------------------------------------
(* uploadKycDocument *)

\* DocumentsController.upload: a guest uploads for nobody else.
Effective(user, i) == IF user \in Ids THEN user ELSE i

\* The identity is of a guest of the tenant, so the tenant exists.
FindIdentity(u, user, i) ==
  /\ upload[u] = Idle /\ "tenant" \in units
  /\ upload' = [upload EXCEPT ![u] =
       [@ EXCEPT !.at = "put", !.on = Effective(user, i)]]
  /\ UNCHANGED <<seedVars, objects, rows, tenantRule, cut, faults>>

\* StorageService.uploadKycDocument: the key holds the identity.
PutObject(u, d) ==
  /\ upload[u].at = "put" /\ objects[d] = None
  /\ objects' = [objects EXCEPT ![d] = upload[u].on]
  /\ upload' = [upload EXCEPT ![u] = [@ EXCEPT !.at = "rule", !.doc = d]]
  /\ UNCHANGED <<seedVars, rows, tenantRule, cut, faults>>

\* getRetentionDays orders by tenantId descending, and PostgreSQL puts NULL,
\* the platform's rule, first; Year is also the fallback.
RetentionDays ==
  IF tenantRule /\ rules[Kyc] = 0 THEN TenantDays ELSE Year

LookUpDays(u) ==
  /\ upload[u].at = "rule"
  /\ upload' = [upload EXCEPT ![u] =
       [@ EXCEPT !.at = "row", !.days = RetentionDays]]
  /\ UNCHANGED <<seedVars, objects, rows, tenantRule, cut, faults>>

\* Mutant: the row refers to whichever object was uploaded last.
InsertRowOfOther(u) ==
  /\ upload[u].at = "row"
  /\ \E d \in Docs : objects[d] # None /\ rows' = [rows EXCEPT ![d] =
       [subject |-> upload[u].on, days |-> upload[u].days]]
  /\ upload' = [upload EXCEPT ![u] = Idle]
  /\ UNCHANGED <<seedVars, objects, tenantRule, cut, faults>>

InsertRow(u) ==
  /\ upload[u].at = "row"
  /\ rows' = [rows EXCEPT ![upload[u].doc] =
       [subject |-> upload[u].on, days |-> upload[u].days]]
  /\ upload' = [upload EXCEPT ![u] = Idle]
  /\ UNCHANGED <<seedVars, objects, tenantRule, cut, faults>>

\* A command throws or the server process ends: what is done stays done.
UploadFails(u) ==
  /\ upload[u] # Idle /\ faults < MaxFaults
  /\ faults' = faults + 1
  /\ upload' = [upload EXCEPT ![u] = Idle]
  /\ cut' = cut \cup ({upload[u].doc} \ {None})
  /\ UNCHANGED <<seedVars, objects, rows, tenantRule>>

----------------------------------------------------------------------------
(* What staff see *)

\* listDocuments; nothing is ever erased.
Listed(i) == {d \in Docs : rows[d] # None /\ rows[d].subject = i}

\* getDocumentSignedUrl: a URL of the row's key, whether or not there is an
\* object under it; None where the answer is 404.
SignedUrl(i, d) == IF d \in Listed(i) THEN d ELSE None

DocStep(u) ==
  \/ \E user \in Ids \cup {None}, i \in Ids : FindIdentity(u, user, i)
  \/ \E d \in Docs : PutObject(u, d)
  \/ LookUpDays(u) \/ InsertRow(u) \/ UploadFails(u)

Next ==
  \/ \E p \in Seeders : SeedStep(p) /\ UNCHANGED docVars
  \/ ConfigureRule
  \/ \E u \in Uploads : DocStep(u)

Spec == Init /\ [][Next]_vars

----------------------------------------------------------------------------
(* Properties *)

\* The shape of the state.
TypeOK ==
  /\ SeedTypeOK
  /\ objects \in [Docs -> Ids \cup {None}]
  /\ rows \in [Docs -> Row \cup {None}]
  /\ tenantRule \in BOOLEAN
  /\ upload \in [Uploads ->
       [at : {"idle", "put", "rule", "row"}, on : Ids \cup {None},
        doc : Docs \cup {None}, days : {Year, TenantDays, None}]]
  /\ cut \subseteq Docs
  /\ faults \in 0..MaxFaults

\* Every document that staff find listed can be opened and is the guest's
\* own; and an object without a row is one whose upload is in progress or
\* was cut off by a fault: uploads in parallel never lose or swap one.
StoredAndRecorded ==
  /\ \A i \in Ids : \A d \in Listed(i) : objects[SignedUrl(i, d)] = i
  /\ \A d \in Docs : objects[d] # None /\ rows[d] = None =>
       d \in cut \/ \E u \in Uploads : upload[u].doc = d

(* What the comments say and the code does not do: it is refuted.          *)

\* "Tenant-specific rule first, then platform default" (documents.service.ts).
TenantRuleWins ==
  [][\A u \in Uploads : LookUpDays(u) /\ tenantRule =>
       upload'[u].days = TenantDays]_vars
=============================================================================
