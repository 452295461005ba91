--------------------------- MODULE ServiceRequests ---------------------------
(***************************************************************************)
(* Service requests: guests place them, staff take them, composed with the *)
(* directory that says who the staff are.                                  *)
(*                                                                         *)
(* create looks for a grant and inserts: two steps, and a checkout may     *)
(* come between them.  The dashboard of a member of staff asks for the     *)
(* requests of the department that the login has put into sessionStorage.  *)
(* Who a request is assigned to, and the guest's list of requests, which   *)
(* is asked for once when the page opens, are left out.                    *)
(***************************************************************************)
EXTENDS Directory

CONSTANTS
  Guests,
  Requests,  \* rows of service_requests
  Asked      \* departments that a guest may choose

ASSUME RequestsAssumption == Asked \subseteq Depts

Status == {"SUBMITTED", "IN_PROGRESS", "COMPLETED", "CANCELLED"}
NoRow == [guest |-> None, dept |-> None, status |-> "SUBMITTED"]

VARIABLES
  grant,      \* guests who have an ACTIVE grant
  row,        \* the service requests
  form,       \* what a guest's page has sent: the department, and how far it is
  dashboard,  \* the list on the page of a member of staff
  looked,     \* history: staff whose dashboard has loaded what there was then
  late        \* history: guests whose stay ended between check and insert

reqVars == <<grant, row, form, dashboard, looked, late>>
vars == <<dirVars, reqVars>>

Unsent == [at |-> "form", dept |-> None]

Init ==
  /\ DirInit
  /\ grant = {} /\ late = {}
  /\ row = [q \in Requests |-> NoRow]
  /\ form = [g \in Guests |-> Unsent]
  /\ dashboard = [p \in People |-> {}]
  /\ looked = [p \in People |-> {}]

Made == {q \in Requests : row[q] # NoRow}

\* The access grant of a guest, external to this module (GrantEngine).
GrantChanges(g) ==
  /\ grant' = IF g \in grant THEN grant \ {g} ELSE grant \cup {g}
  /\ late' = IF g \in grant /\ form[g].at = "insert" THEN late \cup {g} ELSE late
  /\ UNCHANGED <<row, form, dashboard, looked>>

\* handleSubmit of the form, and the guards.  The button is disabled until
\* the answer is there.
Submit(g, d) ==
  /\ form[g].at = "form" /\ d \in Asked
  /\ form' = [form EXCEPT ![g] = [at |-> "check", dept |-> d]]
  /\ UNCHANGED <<grant, row, dashboard, looked, late>>

\* Mutant: the check is left to the token's role.
FindGrantNot(g) ==
  /\ form[g].at = "check"
  /\ form' = [form EXCEPT ![g] = [@ EXCEPT !.at = "insert"]]
  /\ UNCHANGED <<grant, row, dashboard, looked, late>>

\* create: findFirst of an ACTIVE grant; without one the page shows why.
FindGrant(g) ==
  /\ form[g].at = "check"
  /\ form' = [form EXCEPT ![g] = IF g \in grant THEN [@ EXCEPT !.at = "insert"]
                                 ELSE Unsent]
  /\ UNCHANGED <<grant, row, dashboard, looked, late>>

\* create: the insert.
Insert(g, q) ==
  /\ form[g].at = "insert" /\ q \notin Made
  /\ row' = [row EXCEPT ![q] = [NoRow EXCEPT !.guest = g, !.dept = form[g].dept]]
  /\ form' = [form EXCEPT ![g] = Unsent]
  /\ UNCHANGED <<grant, dashboard, looked, late>>

\* The login page takes the first of the token's grants for the department.
Department(p) == "STAFF_ACCESS"

\* listForDepartment
ForDepartment(d) ==
  {q \in Made : row[q].dept = d /\ row[q].status # "CANCELLED"}

\* The dashboard asks every ten seconds.  Its list being empty, it has no
\* button to press.
LoadDashboard(p) ==
  /\ p \in session
  /\ dashboard' = [dashboard EXCEPT ![p] = ForDepartment(Department(p))]
  /\ looked' = [looked EXCEPT ![p] = ForDepartment(DeptOf[p])]
  /\ UNCHANGED <<grant, row, form, late>>

\* updateStatus, which a member of staff may ask of the API: any status, at
\* any time, and of any department.
UpdateStatus(p, q, s) ==
  /\ p \in session /\ q \in Made /\ s \in Status \ {"SUBMITTED"}
  /\ row' = [row EXCEPT ![q] = [@ EXCEPT !.status = s]]
  /\ UNCHANGED <<grant, form, dashboard, looked, late>>

ReqNext ==
  \/ \E g \in Guests :
       \/ GrantChanges(g) \/ FindGrant(g)
       \/ \E d \in Asked : Submit(g, d)
       \/ \E q \in Requests : Insert(g, q)
  \/ \E p \in People :
       LoadDashboard(p) \/ \E q \in Requests, s \in Status : UpdateStatus(p, q, s)

Next ==
  \/ DirNext /\ UNCHANGED reqVars
  \/ ReqNext /\ UNCHANGED dirVars

Spec == Init /\ [][Next]_vars

----------------------------------------------------------------------------
(* Properties *)

\* The shape of the state.
TypeOK ==
  /\ DirTypeOK
  /\ grant \subseteq Guests /\ late \subseteq Guests
  /\ row \in [Requests -> [guest : Guests \cup {None}, dept : Asked \cup {None},
                           status : Status]]
  /\ form \in [Guests -> [at : {"form", "check", "insert"},
                          dept : Asked \cup {None}]]
  /\ dashboard \in [People -> SUBSET Requests]
  /\ looked \in [People -> SUBSET Requests]

\* A request is placed for a guest who is staying, whenever the handler's two
\* commands are run, unless the stay ends between them.
PlacedDuringStay ==
  [][\A q \in Requests : row[q] = NoRow /\ row'[q] # NoRow =>
       row'[q].guest \in grant \cup late]_vars

(* What the documents say and the code does not do: it is refuted.         *)

\* REQ-SVC-03: "Staff must be able to view, accept, and update the status of
\* service requests assigned to their department": a dashboard that has
\* loaded shows the requests of the department that there were.
RequestReachesStaff == \A p \in session : looked[p] \subseteq dashboard[p]
=============================================================================
