------------------------- MODULE ApiRequestsProofs -------------------------
(***************************************************************************)
(* Theorems about ApiRequests: what the guards promise of every handler    *)
(* that runs, that a call is listed once, and that the call log page shows *)
(* what it was asked for, for any number of requests, calls, loads and     *)
(* failures.                                                               *)
(***************************************************************************)
EXTENDS ApiRequests, TLAPS

\* The types of the requests, and what a post of the signaling server holds.
Posts == [call : Calls, outcome : Posted]
Args == {None} \cup Nat \cup Posts
Request ==
  [at : {"idle", "get", "find", "set", "handler", "answered"},
   from : Callers \cup {None}, route : Routes \cup {None}, arg : Args,
   tenant : BOOLEAN, active : BOOLEAN, code : Codes]

WellFormed ==
  /\ TypeOK
  /\ req \in [Requests -> Request]
  /\ \A r \in Requests : req[r].at # "idle" =>
       /\ req[r].route = "log" => req[r].arg \in Posts
       /\ req[r].from = "admin" => req[r].route = "calls" /\ req[r].arg \in 1..loads

\* Two stages of one request: what it carries does not change.
SameAs(p, q) ==
  p.from = q.from /\ p.route = q.route /\ p.arg = q.arg /\ p.tenant = q.tenant

\* One request moves in a step, and the others stay.
Moves(r, q) == r \in Requests /\ q \in Request /\ req' = [req EXCEPT ![r] = q]

----------------------------------------------------------------------------
(* Lemmas about the operators *)

\* An answer is nothing, or the request itself with a code: it never is at a
\* command again.
LEMMA AnswerShape ==
  ASSUME NEW q \in Request, NEW code \in Codes
  PROVE  LET a == Answer(q, code) IN
         /\ a \in Request
         /\ a = Idle \/ (a.at = "answered" /\ SameAs(a, q))
         /\ q.from = "admin" /\ q.route = "calls" => a.at = "answered" /\ SameAs(a, q)
BY ZenonT(60) DEF Answer, SameAs, Idle, Unsent, Request, Args, Codes, Callers, Routes

\* What the three guards make of a request that arrives: it is refused, or
\* its sender has a role the route is meant for, or the route is public.
Received(r, q, from, route, arg) ==
  /\ Moves(r, q)
  /\ q.at \in {"idle", "answered", "get", "handler"}
  /\ q.at # "idle" =>
       q.from = from /\ q.route = route /\ q.arg = arg /\ q.tenant = FALSE
  /\ q.at = "handler" => IsPublic(route)
  /\ q.at = "get" => ~IsPublic(route) /\ from \in RequiredRoles(route)
  /\ from = "admin" /\ route = "calls" => q.at # "idle"

LEMMA ArriveShape ==
  ASSUME WellFormed, NEW r \in Requests, NEW from \in Callers,
         NEW route \in Routes, NEW arg \in Args, Arrive(r, from, route, arg)
  PROVE  \E q \in Request : Received(r, q, from, route, arg)
PROOF
<1> DEFINE q0 == Unsent(from, route, arg)
<1>1. /\ q0 \in Request
      /\ q0.from = from /\ q0.route = route /\ q0.arg = arg /\ q0.tenant = FALSE
  BY DEF Unsent, Request, Codes
<1> HIDE DEF q0
<1>2. ASSUME NEW code \in {"UNAUTHORIZED", "FORBIDDEN"}
      PROVE  LET a == Answer(q0, code) IN
             /\ a \in Request /\ a.at \in {"idle", "answered"}
             /\ a.at # "idle" =>
                  a.from = from /\ a.route = route /\ a.arg = arg /\ a.tenant = FALSE
             /\ from = "admin" /\ route = "calls" => a.at # "idle"
  <2>1. code \in Codes
    BY DEF Codes
  <2>2. Idle.at = "idle"
    BY DEF Idle, Unsent
  <2> QED
    BY <1>1, <2>1, <2>2, AnswerShape DEF SameAs
<1>3. CASE ~JwtGuard(from, route) \/ ~RolesGuard(from, route)
  <2>1. PICK code \in {"UNAUTHORIZED", "FORBIDDEN"} :
          req' = [req EXCEPT ![r] = Answer(q0, code)]
    BY <1>3 DEF q0, Arrive
  <2>2. Moves(r, Answer(q0, code))
    BY <1>2, <2>1 DEF Moves
  <2> QED
    BY <1>2, <2>2 DEF Received
<1>4. CASE JwtGuard(from, route) /\ RolesGuard(from, route)
  <2> DEFINE q == [q0 EXCEPT !.at = IF IsPublic(route) THEN "handler" ELSE "get"]
  <2>1. q \in Request
    BY <1>1 DEF Request
  <2>2. Moves(r, q)
    BY <1>4, <2>1 DEF q0, Arrive, Moves
  <2>3. ~IsPublic(route) => from \in RequiredRoles(route)
    BY <1>4 DEF IsPublic, RolesGuard, RequiredRoles, Routes
  <2> QED
    BY <1>1, <2>1, <2>2, <2>3 DEF Request, Received
<1> QED
  BY <1>3, <1>4
----------------------------------------------------------------------------
(* The steps, by what they do to the requests *)

\* No request moves: the world around, and the calls that happen.
Quiet ==
  /\ req' = req /\ UNCHANGED <<logs, page>>
  /\ \A c \in Calls : unlogged'[c] # unlogged[c] => unlogged[c] = None
  /\ tenant => tenant'
  /\ verdict' = "1" => verdict = "1"

\* A request has been sent and has met the guards.
Arrival(r) ==
  \/ \E route \in {"grant", "calls"} : GuestAsks(r, route)
  \/ AskPrivilege(r)
  \/ \E c \in Calls, o \in Posted : PostLog(r, c, o)
  \/ Load(r)

\* A request goes through the tenant guard or its handler, or fails.
Advance(r) ==
  \/ CacheRead(r) \/ FindTenant(r) \/ CacheWrite(r)
  \/ ReadGrant(r) \/ CreateLog(r) \/ ListCalls(r) \/ Fails(r)

\* The sender has its answer.
Rest(r) == Loaded(r) \/ PrivilegeAnswered(r)

LEMMA StepCases ==
  ASSUME WellFormed, [Next]_vars
  PROVE  \/ Quiet
         \/ \E r \in Requests : Arrival(r) \/ Advance(r) \/ Rest(r)
PROOF
<1>1. CASE SeedTenant \/ GrantChanges \/ Handshake \/ VerdictExpires
  BY <1>1 DEF SeedTenant, GrantChanges, Handshake, VerdictExpires, Quiet,
              world, store, page
<1>2. CASE \E b \in Bearers : TokenIssued(b) \/ TokenExpires(b)
  BY <1>2 DEF TokenIssued, TokenExpires, Quiet, store, page
<1>3. CASE \E c \in Calls, o \in CallOutcome : CallHappens(c, o)
  BY <1>3 DEF CallHappens, Quiet, world, page, WellFormed, TypeOK
<1>4. CASE UNCHANGED vars
  BY <1>4 DEF vars, Quiet, world, store, page
<1> QED
  BY <1>1, <1>2, <1>3, <1>4 DEF Next, Proceeds, Arrival, Advance, Rest

\* What an advance makes of the request: it keeps what it carries, reaches
\* the handler only with a positive verdict or a tenant it has found, and an
\* administrator's load is not forgotten.
Advanced(r, q) ==
  /\ Moves(r, q) /\ req[r].at # "idle"
  /\ q.at # "idle" =>
       q.from = req[r].from /\ q.route = req[r].route /\ q.arg = req[r].arg
  /\ q.at \in {"idle", "find", "set", "handler", "answered"}
  /\ q.at \in {"find", "set", "handler"} => req[r].at \in {"get", "find", "set"}
  /\ q.at = "set" => q.tenant = tenant
  /\ q.at = "handler" => verdict = "1" \/ (req[r].at = "set" /\ req[r].tenant)
  /\ req[r].from = "admin" => q.at # "idle"

LEMMA AdvanceShape ==
  ASSUME WellFormed, NEW r \in Requests, Advance(r)
  PROVE  \E q \in Request : Advanced(r, q)
PROOF
<1> USE DEF WellFormed
<1> req[r] \in Request
  OBVIOUS
<1> Idle.at = "idle" /\ {"OK", "FORBIDDEN", "INTERNAL_SERVER_ERROR"} \subseteq Codes
  BY DEF Idle, Unsent, Codes
<1>1. ASSUME NEW code \in {"OK", "FORBIDDEN", "INTERNAL_SERVER_ERROR"},
             NEW q \in Request, SameAs(q, req[r]), req[r].at # "idle",
             req' = [req EXCEPT ![r] = Answer(q, code)]
      PROVE  Answer(q, code) \in Request /\ Advanced(r, Answer(q, code))
  BY <1>1, AnswerShape DEF SameAs, Moves, Advanced
<1>2. CASE CacheRead(r)
  <2>1. CASE verdict = "1"
    <3> DEFINE q == [req[r] EXCEPT !.at = "handler"]
    <3>1. q \in Request /\ SameAs(q, req[r]) /\ q.at = "handler"
      BY DEF Request, SameAs
    <3>2. Moves(r, q)
      BY <1>2, <2>1, <3>1 DEF CacheRead, Moves
    <3> QED
      BY <1>2, <2>1, <3>1, <3>2 DEF CacheRead, SameAs, Advanced
  <2>2. CASE verdict = "0"
    <3>1. req' = [req EXCEPT ![r] = Answer(req[r], "FORBIDDEN")] /\ req[r].at = "get"
      BY <1>2, <2>2 DEF CacheRead
    <3> QED
      BY <1>1, <3>1 DEF SameAs
  <2>3. CASE verdict = "none"
    <3> DEFINE q == [req[r] EXCEPT !.at = "find"]
    <3>1. q \in Request /\ SameAs(q, req[r]) /\ q.at = "find"
      BY DEF Request, SameAs
    <3>2. Moves(r, q)
      BY <1>2, <2>3, <3>1 DEF CacheRead, Moves
    <3> QED
      BY <1>2, <3>1, <3>2 DEF CacheRead, SameAs, Advanced
  <2> QED
    BY <2>1, <2>2, <2>3 DEF TypeOK
<1>3. CASE FindTenant(r)
  <2> DEFINE q == [req[r] EXCEPT !.at = "set", !.tenant = tenant]
  <2>1. /\ q \in Request /\ q.at = "set" /\ q.tenant = tenant
        /\ q.from = req[r].from /\ q.route = req[r].route /\ q.arg = req[r].arg
    BY DEF Request, TypeOK
  <2>2. Moves(r, q)
    BY <1>3, <2>1 DEF FindTenant, Moves
  <2> QED
    BY <1>3, <2>1, <2>2 DEF FindTenant, Advanced
<1>4. CASE CacheWrite(r)
  <2>1. CASE req[r].tenant
    <3> DEFINE q == [req[r] EXCEPT !.at = "handler"]
    <3>1. q \in Request /\ SameAs(q, req[r]) /\ q.at = "handler"
      BY DEF Request, SameAs
    <3>2. Moves(r, q)
      BY <1>4, <2>1, <3>1 DEF CacheWrite, Moves
    <3> QED
      BY <1>4, <2>1, <3>1, <3>2 DEF CacheWrite, SameAs, Advanced
  <2>2. CASE ~req[r].tenant
    <3>1. req' = [req EXCEPT ![r] = Answer(req[r], "FORBIDDEN")] /\ req[r].at = "set"
      BY <1>4, <2>2 DEF CacheWrite
    <3> QED
      BY <1>1, <3>1 DEF SameAs
  <2> QED
    BY <2>1, <2>2
<1>5. CASE ReadGrant(r)
  <2> DEFINE q == [req[r] EXCEPT !.active = grant]
  <2>1. q \in Request /\ SameAs(q, req[r])
    BY DEF Request, SameAs, TypeOK
  <2>2. req' = [req EXCEPT ![r] = Answer(q, "OK")] /\ req[r].at = "handler"
    BY <1>5 DEF ReadGrant
  <2> HIDE DEF q
  <2> QED
    BY <1>1, <2>1, <2>2
<1>6. CASE CreateLog(r) \/ ListCalls(r) \/ Fails(r)
  <2>1. PICK code \in {"OK", "INTERNAL_SERVER_ERROR"} :
          req' = [req EXCEPT ![r] = Answer(req[r], code)]
    BY <1>6 DEF CreateLog, ListCalls, Fails
  <2>2. req[r].at # "idle"
    BY <1>6 DEF CreateLog, ListCalls, Fails
  <2> QED
    BY <1>1, <2>1, <2>2 DEF SameAs
<1> QED
  BY <1>2, <1>3, <1>4, <1>5, <1>6 DEF Advance

\* Whatever arrives comes from one of the three callers, and what it carries
\* is right for its route.
Arrived(r, q) ==
  /\ Moves(r, q) /\ req[r].at = "idle"
  /\ q.at \in {"idle", "answered", "get", "handler"}
  /\ q.at # "idle" /\ q.route = "log" =>
       q.arg \in Posts /\ \E c \in Calls, o \in Posted :
         PostLog(r, c, o) /\ q.arg = [call |-> c, outcome |-> o]
  /\ q.at # "idle" /\ q.from = "admin" =>
       q.route = "calls" /\ Load(r) /\ q.arg = loads'
  /\ q.at = "handler" => IsPublic(q.route)
  /\ q.at = "get" => ~IsPublic(q.route) /\ q.from \in RequiredRoles(q.route)
  /\ Load(r) => q.at # "idle" /\ q.from = "admin"

LEMMA ArrivalShape ==
  ASSUME WellFormed, NEW r \in Requests, Arrival(r)
  PROVE  \E q \in Request : Arrived(r, q)
PROOF
<1>0. req[r] = Idle /\ Idle.at = "idle"
  BY DEF Arrival, GuestAsks, AskPrivilege, PostLog, Load, Ask, Idle, Unsent
<1>1. ASSUME NEW route \in {"grant", "calls"}, GuestAsks(r, route)
      PROVE  \E q \in Request :
               /\ Moves(r, q) /\ q.at \in {"idle", "answered", "get"}
               /\ q.at # "idle" => q.from = "guest" /\ q.route = route
               /\ q.at = "get" => ~IsPublic(q.route) /\ q.from \in RequiredRoles(q.route)
  <2>1. Arrive(r, "guest", route, None)
    BY <1>1 DEF GuestAsks, Ask
  <2>2. "guest" \in Callers /\ route \in Routes /\ None \in Args /\ ~IsPublic(route)
    BY DEF Callers, Routes, Args, IsPublic
  <2>3. PICK q \in Request : Received(r, q, "guest", route, None)
    BY <2>1, <2>2, ArriveShape
  <2> QED
    BY <2>2, <2>3 DEF Received
<1>2. ASSUME AskPrivilege(r)
      PROVE  \E q \in Request :
               /\ Moves(r, q) /\ q.at \in {"idle", "answered", "get"}
               /\ q.at # "idle" => q.from = "signaling" /\ q.route = "grant"
               /\ q.at = "get" => ~IsPublic(q.route) /\ q.from \in RequiredRoles(q.route)
  <2>1. Arrive(r, "signaling", "grant", None)
    BY <1>2 DEF AskPrivilege, Ask
  <2>2. "signaling" \in Callers /\ "grant" \in Routes /\ None \in Args /\ ~IsPublic("grant")
    BY DEF Callers, Routes, Args, IsPublic
  <2>3. PICK q \in Request : Received(r, q, "signaling", "grant", None)
    BY <2>1, <2>2, ArriveShape
  <2> QED
    BY <2>2, <2>3 DEF Received
<1>3. ASSUME NEW c \in Calls, NEW o \in Posted, PostLog(r, c, o)
      PROVE  \E q \in Request :
               /\ Moves(r, q) /\ q.at \in {"idle", "answered", "handler"}
               /\ q.at # "idle" => /\ q.from = "signaling" /\ q.route = "log"
                                  /\ q.arg = [call |-> c, outcome |-> o]
               /\ q.at = "handler" => IsPublic(q.route)
  <2> DEFINE arg == [call |-> c, outcome |-> o]
  <2>1. Arrive(r, "signaling", "log", arg)
    BY <1>3 DEF PostLog, Ask
  <2>2. "signaling" \in Callers /\ "log" \in Routes /\ arg \in Args /\ IsPublic("log")
    BY DEF Callers, Routes, Args, Posts, IsPublic
  <2> HIDE DEF arg
  <2>3. PICK q \in Request : Received(r, q, "signaling", "log", arg)
    BY <2>1, <2>2, ArriveShape
  <2>4. q.at # "get"
    BY <2>2, <2>3 DEF Received
  <2> QED
    BY <2>3, <2>4 DEF Received, arg
<1>4. ASSUME Load(r)
      PROVE  \E q \in Request :
               /\ Moves(r, q) /\ q.at \in {"answered", "get"}
               /\ q.from = "admin" /\ q.route = "calls" /\ q.arg = loads'
               /\ q.at = "get" => ~IsPublic(q.route) /\ q.from \in RequiredRoles(q.route)
  <2>1. Arrive(r, "admin", "calls", loads + 1) /\ loads' = loads + 1
    BY <1>4 DEF Load, Ask
  <2>2. /\ "admin" \in Callers /\ "calls" \in Routes /\ ~IsPublic("calls")
        /\ loads + 1 \in Args
    BY RequestsAssumption DEF Callers, Routes, Args, IsPublic, WellFormed, TypeOK
  <2>3. PICK q \in Request : Received(r, q, "admin", "calls", loads + 1)
    BY <2>1, <2>2, ArriveShape
  <2> QED
    BY <2>1, <2>2, <2>3 DEF Received
<1>5. ~Load(r) \/ loads' # loads
  BY RequestsAssumption DEF Load, WellFormed, TypeOK
<1>6. (\E route \in {"grant", "calls"} : GuestAsks(r, route)) \/ AskPrivilege(r)
         \/ (\E c \in Calls, o \in Posted : PostLog(r, c, o)) => loads' = loads
  BY DEF GuestAsks, AskPrivilege, PostLog, page
<1>7. CASE \E route \in {"grant", "calls"} : GuestAsks(r, route)
  BY <1>0, <1>1, <1>5, <1>6, <1>7 DEF Arrived
<1>8. CASE AskPrivilege(r)
  BY <1>0, <1>2, <1>5, <1>6, <1>8 DEF Arrived
<1>9. CASE \E c \in Calls, o \in Posted : PostLog(r, c, o)
  <2>1. PICK c \in Calls, o \in Posted : PostLog(r, c, o)
    BY <1>9
  <2>2. [call |-> c, outcome |-> o] \in Posts
    BY DEF Posts
  <2> QED
    BY <1>0, <1>3, <1>5, <1>6, <1>9, <2>1, <2>2 DEF Arrived
<1>10. CASE Load(r)
  BY <1>0, <1>4, <1>10 DEF Arrived
<1> QED
  BY <1>7, <1>8, <1>9, <1>10 DEF Arrival

----------------------------------------------------------------------------
(* The inductive invariants *)

\* A request on its way through the tenant guard is one its sender's role is
\* meant for; a positive verdict, in Redis or found and not yet written, is
\* that of a tenant that exists.
GuardInv ==
  /\ verdict = "1" => tenant
  /\ \A r \in Requests :
       /\ req[r].at \in {"get", "find", "set"} =>
            ~IsPublic(req[r].route) /\ req[r].from \in RequiredRoles(req[r].route)
       /\ req[r].at = "set" /\ req[r].tenant => tenant
       /\ req[r].at = "handler" /\ ~IsPublic(req[r].route) =>
            tenant /\ req[r].from \in RequiredRoles(req[r].route)

\* A completed call is still to be posted, or one post of it is at its
\* handler, or it may be listed: one of the three.
Owed(c) == unlogged[c] = None \/ "COMPLETED" \in unlogged[c]
Completing(r, c) ==
  /\ req[r].at = "handler" /\ req[r].route = "log"
  /\ req[r].arg = [call |-> c, outcome |-> "COMPLETED"]
LogInv ==
  \A c \in Calls :
    /\ logs[c] <= 1
    /\ Owed(c) => logs[c] = 0 /\ \A r \in Requests : ~Completing(r, c)
    /\ \A r \in Requests : Completing(r, c) =>
         logs[c] = 0 /\ \A s \in Requests : Completing(s, c) => s = r

\* While nothing has been overtaken or has failed, the last load is shown or
\* on its way.
TableInv ==
  ~upset => \/ shown = loads
            \/ \E r \in Requests :
                 req[r].at # "idle" /\ req[r].from = "admin" /\ req[r].arg = loads

----------------------------------------------------------------------------
(* The invariants hold at first and are kept by every step *)

\* What the state has besides the requests.
Scalars ==
  /\ tenant \in BOOLEAN /\ verdict \in {"none", "0", "1"}
  /\ tokens \subseteq Bearers /\ connected \in BOOLEAN /\ grant \in BOOLEAN
  /\ logs \in [Calls -> Nat]
  /\ unlogged \in [Calls -> (SUBSET Posted) \cup {None}]
  /\ loads \in 0..MaxLoads /\ shown \in 0..loads /\ upset \in BOOLEAN
  /\ faults \in 0..MaxFaults

LEMMA ScalarsStep ==
  ASSUME WellFormed, [Next]_vars
  PROVE  Scalars' /\ loads' >= loads
PROOF
<1>0. Scalars /\ loads \in Nat /\ MaxLoads \in Nat /\ MaxFaults \in Nat
  BY RequestsAssumption DEF WellFormed, TypeOK, Scalars
<1> USE DEF Scalars, world, store, page
<1>1. CASE SeedTenant \/ GrantChanges \/ Handshake \/ VerdictExpires
  <2>1. CASE SeedTenant
    BY <1>0, <2>1 DEF SeedTenant
  <2>2. CASE GrantChanges
    BY <1>0, <2>2 DEF GrantChanges
  <2>3. CASE Handshake
    BY <1>0, <2>3 DEF Handshake
  <2>4. CASE VerdictExpires
    BY <1>0, <2>4 DEF VerdictExpires
  <2> QED
    BY <1>1, <2>1, <2>2, <2>3, <2>4
<1>2. CASE \E b \in Bearers : TokenIssued(b) \/ TokenExpires(b)
  BY <1>0, <1>2 DEF TokenIssued, TokenExpires
<1>3. CASE \E c \in Calls, o \in CallOutcome : CallHappens(c, o)
  BY <1>0, <1>3 DEF CallHappens, Posted
<1>4. CASE \E r \in Requests : \E route \in {"grant", "calls"} : GuestAsks(r, route)
  BY <1>0, <1>4 DEF GuestAsks
<1>5. CASE \E r \in Requests : AskPrivilege(r)
  BY <1>0, <1>5 DEF AskPrivilege
<1>6. CASE \E r \in Requests : \E c \in Calls, o \in Posted : PostLog(r, c, o)
  <2>1. PICK r \in Requests, c \in Calls, o \in Posted : PostLog(r, c, o)
    BY <1>6
  <2>2. unlogged[c] \ {o} \in SUBSET Posted
    BY <1>0, <2>1 DEF PostLog
  <2> QED
    BY <1>0, <2>1, <2>2 DEF PostLog
<1>7. CASE \E r \in Requests : Load(r)
  BY <1>0, <1>7 DEF Load
<1>8. CASE \E r \in Requests : CacheRead(r) \/ FindTenant(r) \/ CacheWrite(r)
  BY <1>0, <1>8 DEF CacheRead, FindTenant, CacheWrite
<1>9. CASE \E r \in Requests : ReadGrant(r) \/ ListCalls(r) \/ Fails(r)
  BY <1>0, <1>9 DEF ReadGrant, ListCalls, Fails
<1>10. CASE \E r \in Requests : CreateLog(r)
  <2>1. PICK r \in Requests : CreateLog(r)
    BY <1>10
  <2>2. req[r].arg \in Posts
    BY <2>1 DEF CreateLog, WellFormed
  <2>3. req[r].arg.call \in Calls
    BY <2>2 DEF Posts
  <2>4. logs' = logs \/ logs' = [logs EXCEPT ![req[r].arg.call] = @ + 1]
    BY <2>1 DEF CreateLog
  <2> QED
    BY <1>0, <2>1, <2>3, <2>4 DEF CreateLog
<1>11. CASE \E r \in Requests : Loaded(r)
  <2>1. PICK r \in Requests : Loaded(r)
    BY <1>11
  <2>2. req[r].arg \in 1..loads
    BY <2>1 DEF Loaded, WellFormed
  <2>3. UNCHANGED <<world, verdict, store, loads, faults>>
    BY <2>1 DEF Loaded
  <2>4. shown' \in 0..loads /\ upset' \in BOOLEAN
    <3>1. shown' = req[r].arg \/ shown' = shown
      BY <2>1 DEF Loaded
    <3>2. upset' \in BOOLEAN
      BY <2>1, Zenon DEF Loaded
    <3> QED
      BY <1>0, <2>2, <3>1, <3>2
  <2> QED
    BY <1>0, <2>3, <2>4
<1>12. CASE \E r \in Requests : PrivilegeAnswered(r)
  BY <1>0, <1>12 DEF PrivilegeAnswered
<1>13. CASE UNCHANGED vars
  BY <1>0, <1>13 DEF vars
<1> QED
  BY <1>1, <1>2, <1>3, <1>4, <1>5, <1>6, <1>7, <1>8, <1>9, <1>10, <1>11, <1>12, <1>13
     DEF Next, Proceeds

\* A request whose answer has come is forgotten.
LEMMA RestShape ==
  ASSUME WellFormed, NEW r \in Requests, Rest(r)
  PROVE  Moves(r, Idle) /\ Idle.at = "idle" /\ req[r].at = "answered"
BY DEF Rest, Loaded, PrivilegeAnswered, Moves, Idle, Unsent, Request, Args,
       Codes, Callers, Routes

LEMMA WellFormedStep ==
  ASSUME WellFormed, [Next]_vars
  PROVE  WellFormed'
PROOF
<1>1. Scalars' /\ loads' >= loads /\ loads \in Nat /\ loads' \in Nat
  BY ScalarsStep, RequestsAssumption DEF Scalars, WellFormed, TypeOK
<1> DEFINE Fits(q, n) ==
      q.at # "idle" =>
        /\ q.route = "log" => q.arg \in Posts
        /\ q.from = "admin" => q.route = "calls" /\ q.arg \in 1..n
<1>2. /\ req \in [Requests -> Request]
      /\ \A r \in Requests : Fits(req[r], loads)
  BY DEF WellFormed
<1>3. \A r \in Requests : Fits(req[r], loads')
  BY <1>1, <1>2
<1>4. ASSUME NEW r \in Requests, NEW q \in Request, Moves(r, q), Fits(q, loads')
      PROVE  /\ req' \in [Requests -> Request]
             /\ \A s \in Requests : Fits(req[s], loads)'
  BY <1>2, <1>3, <1>4 DEF Moves
<1>5. /\ req' \in [Requests -> Request]
      /\ \A s \in Requests : Fits(req[s], loads)'
  <2>1. CASE Quiet
    BY <1>2, <1>3, <2>1 DEF Quiet
  <2>2. ASSUME NEW r \in Requests, Arrival(r)
        PROVE  \E q \in Request : Moves(r, q) /\ Fits(q, loads')
    <3>1. PICK q \in Request : Arrived(r, q)
      BY <2>2, ArrivalShape
    <3>2. Load(r) => loads' \in 1..loads'
      BY <1>1 DEF Load
    <3> QED
      BY <3>1, <3>2 DEF Arrived
  <2>3. ASSUME NEW r \in Requests, Advance(r)
        PROVE  \E q \in Request : Moves(r, q) /\ Fits(q, loads')
    <3>1. PICK q \in Request : Advanced(r, q)
      BY <2>3, AdvanceShape
    <3> QED
      BY <1>3, <3>1 DEF Advanced
  <2>4. ASSUME NEW r \in Requests, Rest(r)
        PROVE  \E q \in Request : Moves(r, q) /\ Fits(q, loads')
    BY <2>4, RestShape DEF Moves
  <2> QED
    BY <1>4, <2>1, <2>2, <2>3, <2>4, StepCases
<1>6. TypeOK'
  BY <1>1, <1>5 DEF TypeOK, Scalars, Request
<1> QED
  BY <1>1, <1>5, <1>6 DEF WellFormed, Scalars

\* Every reachable state is of the right type, for any number of requests,
\* calls, loads and failures.
THEOREM TypeCorrect == Spec => []WellFormed
PROOF
<1>1. ASSUME Init PROVE WellFormed
  <2>1. Idle \in Request /\ Idle.at = "idle"
    BY DEF Idle, Unsent, Request, Args, Codes, Callers, Routes
  <2>2. /\ req \in [Requests -> Request]
        /\ \A r \in Requests : req[r].at = "idle"
    BY <1>1, <2>1 DEF Init
  <2>3. Scalars
    <3>1. /\ logs \in [Calls -> Nat]
          /\ unlogged \in [Calls -> (SUBSET Posted) \cup {None}]
      BY <1>1 DEF Init
    <3>2. /\ loads \in 0..MaxLoads /\ shown \in 0..loads
          /\ faults \in 0..MaxFaults
      BY <1>1, RequestsAssumption DEF Init
    <3>3. /\ tenant \in BOOLEAN /\ verdict \in {"none", "0", "1"}
          /\ tokens \subseteq Bearers /\ connected \in BOOLEAN
          /\ grant \in BOOLEAN /\ upset \in BOOLEAN
      BY <1>1 DEF Init
    <3> QED
      BY <3>1, <3>2, <3>3 DEF Scalars
  <2> QED
    BY <2>2, <2>3 DEF WellFormed, TypeOK, Scalars, Request
<1> QED
  BY <1>1, WellFormedStep, PTL DEF Spec

LEMMA GuardStep ==
  ASSUME WellFormed, GuardInv, [Next]_vars
  PROVE  GuardInv'
PROOF
<1> DEFINE Passed(q, t) ==
      /\ q.at \in {"get", "find", "set"} =>
           ~IsPublic(q.route) /\ q.from \in RequiredRoles(q.route)
      /\ q.at = "set" /\ q.tenant => t
      /\ q.at = "handler" /\ ~IsPublic(q.route) =>
           t /\ q.from \in RequiredRoles(q.route)
<1>1. \A r \in Requests : Passed(req[r], tenant)
  BY DEF GuardInv
<1>2. CASE Quiet
  BY <1>1, <1>2 DEF Quiet, GuardInv
<1>3. ASSUME NEW r \in Requests, NEW q \in Request, Moves(r, q), Passed(q, tenant),
             tenant' = tenant, verdict' = "1" => tenant
      PROVE  GuardInv'
  <2>1. \A s \in Requests : req'[s] = IF s = r THEN q ELSE req[s]
    BY <1>3 DEF Moves, WellFormed
  <2>2. \A s \in Requests : Passed(req'[s], tenant')
    BY <1>1, <1>3, <2>1
  <2> QED
    BY <1>3, <2>2 DEF GuardInv
<1>4. ASSUME NEW r \in Requests, Arrival(r)
      PROVE  GuardInv'
  <2>1. PICK q \in Request : Arrived(r, q)
    BY <1>4, ArrivalShape
  <2>2. UNCHANGED <<tenant, verdict>>
    BY <1>4 DEF Arrival, GuestAsks, AskPrivilege, PostLog, Load, world
  <2> QED
    BY <1>3, <2>1, <2>2 DEF Arrived, GuardInv
<1>5. ASSUME NEW r \in Requests, Advance(r)
      PROVE  GuardInv'
  <2>1. PICK q \in Request : Advanced(r, q)
    BY <1>5, AdvanceShape
  <2>2. tenant' = tenant
    BY <1>5 DEF Advance, CacheRead, FindTenant, CacheWrite, ReadGrant, CreateLog,
                ListCalls, Fails, world
  <2>3. verdict' = "1" => verdict = "1" \/ (req[r].at = "set" /\ req[r].tenant)
    BY <1>5 DEF Advance, CacheRead, FindTenant, CacheWrite, ReadGrant, CreateLog,
                ListCalls, Fails
  <2>4. verdict = "1" \/ (req[r].at = "set" /\ req[r].tenant) => tenant
    BY DEF GuardInv
  <2>5. Passed(q, tenant)
    BY <1>1, <2>1, <2>4 DEF Advanced, WellFormed, TypeOK
  <2> QED
    BY <1>3, <2>1, <2>2, <2>3, <2>4, <2>5 DEF Advanced
<1>6. ASSUME NEW r \in Requests, Rest(r)
      PROVE  GuardInv'
  <2>1. Idle \in Request /\ Moves(r, Idle) /\ Passed(Idle, tenant)
    BY <1>6, RestShape DEF Moves
  <2>2. UNCHANGED <<tenant, verdict>>
    BY <1>6 DEF Rest, Loaded, PrivilegeAnswered, world
  <2> QED
    BY <1>3, <2>1, <2>2 DEF GuardInv
<1> QED
  BY <1>2, <1>4, <1>5, <1>6, StepCases

\* A handler behind the guards runs only for a role it is meant for and a
\* tenant that exists, for any number of requests that share the cache.
THEOREM GuardsHold == Spec => []HandlersAreGuarded
PROOF
<1>1. Init => GuardInv
  BY DEF Init, GuardInv, Idle, Unsent
<1>2. GuardInv => HandlersAreGuarded
  BY DEF GuardInv, HandlersAreGuarded
<1> QED
  BY <1>1, <1>2, TypeCorrect, GuardStep, PTL DEF Spec

LEMMA LogStep ==
  ASSUME WellFormed, GuardInv, LogInv, [Next]_vars
  PROVE  LogInv'
PROOF
<1> DEFINE Done(q, c) ==
      /\ q.at = "handler" /\ q.route = "log"
      /\ q.arg = [call |-> c, outcome |-> "COMPLETED"]
<1>1. \A c \in Calls :
        /\ logs[c] \in Nat /\ logs[c] <= 1
        /\ Owed(c) => logs[c] = 0 /\ \A r \in Requests : ~Done(req[r], c)
        /\ \A r \in Requests : Done(req[r], c) =>
             logs[c] = 0 /\ \A s \in Requests : Done(req[s], c) => s = r
  BY DEF LogInv, Completing, WellFormed, TypeOK
<1>2. ASSUME NEW r \in Requests, NEW q \in Request, Moves(r, q)
      PROVE  \A s \in Requests : req'[s] = IF s = r THEN q ELSE req[s]
  BY <1>2 DEF Moves, WellFormed
<1>0. ASSUME \A c \in Calls :
               /\ logs'[c] <= 1
               /\ Owed(c)' => logs'[c] = 0 /\ \A r \in Requests : ~Done(req'[r], c)
               /\ \A r \in Requests : Done(req'[r], c) =>
                    logs'[c] = 0 /\ \A s \in Requests : Done(req'[s], c) => s = r
      PROVE  LogInv'
  BY <1>0 DEF LogInv, Completing
<1>3. CASE Quiet
  <2>1. \A c \in Calls : Owed(c)' => Owed(c)
    BY <1>3 DEF Quiet, Owed
  <2> QED
    BY <1>1, <1>3, <2>1 DEF Quiet, LogInv, Completing
<1>4. ASSUME NEW r \in Requests, Arrival(r)
      PROVE  LogInv'
  <2>1. PICK q \in Request : Arrived(r, q)
    BY <1>4, ArrivalShape
  <2>2. logs' = logs
    BY <1>4 DEF Arrival, GuestAsks, AskPrivilege, PostLog, Load, store
  <2>3. ASSUME NEW c \in Calls, NEW o \in Posted, PostLog(r, c, o)
        PROVE  /\ \A d \in Calls : d # c => unlogged'[d] = unlogged[d]
               /\ unlogged'[c] = unlogged[c] \ {o} /\ o \in unlogged[c]
               /\ unlogged'[c] # None
    BY <2>3, RequestsAssumption DEF PostLog, WellFormed, TypeOK
  <2>4. \A c \in Calls : Owed(c)' => Owed(c)
    <3>1. CASE \E c \in Calls, o \in Posted : PostLog(r, c, o)
      BY <2>3, <3>1 DEF Owed
    <3>2. CASE ~\E c \in Calls, o \in Posted : PostLog(r, c, o)
      BY <1>4, <3>2 DEF Arrival, GuestAsks, AskPrivilege, Load, store, Owed
    <3> QED
      BY <3>1, <3>2
  <2>5. \A c \in Calls : Done(q, c) => Owed(c) /\ ~Owed(c)'
    <3> SUFFICES ASSUME NEW c \in Calls, Done(q, c)
                 PROVE  Owed(c) /\ ~Owed(c)'
      OBVIOUS
    <3>1. PICK d \in Calls, o \in Posted :
            PostLog(r, d, o) /\ q.arg = [call |-> d, outcome |-> o]
      BY <2>1 DEF Arrived
    <3>2. d = c /\ o = "COMPLETED"
      BY <3>1
    <3> QED
      BY <2>3, <3>1, <3>2 DEF Owed
  <2> HIDE DEF Done
  <2>6. \A s \in Requests, c \in Calls :
          Done(req'[s], c) => (s = r /\ Done(q, c)) \/ (s # r /\ Done(req[s], c))
    BY <1>2, <2>1 DEF Arrived
  <2> QED
    BY <1>0, <1>1, <2>2, <2>4, <2>5, <2>6
<1>5. ASSUME NEW r \in Requests, NEW q \in Request, Moves(r, q),
             \A c \in Calls : ~Done(q, c), unlogged' = unlogged,
             \A c \in Calls : \/ logs'[c] = logs[c]
                              \/ logs'[c] = logs[c] + 1 /\ Done(req[r], c)
      PROVE  LogInv'
  <2>1. \A s \in Requests, c \in Calls : Done(req'[s], c) => s # r /\ Done(req[s], c)
    BY <1>2, <1>5
  <2>2. \A c \in Calls : Owed(c)' = Owed(c)
    BY <1>5 DEF Owed
  <2> HIDE DEF Done
  <2>3. ASSUME NEW c \in Calls
        PROVE  /\ logs'[c] <= 1
               /\ Owed(c)' => logs'[c] = 0 /\ \A s \in Requests : ~Done(req'[s], c)
               /\ \A s \in Requests : Done(req'[s], c) =>
                    logs'[c] = 0 /\ \A t \in Requests : Done(req'[t], c) => t = s
    <3>1. CASE logs'[c] = logs[c]
      BY <1>1, <2>1, <2>2, <3>1
    <3>2. CASE logs'[c] = logs[c] + 1 /\ Done(req[r], c)
      BY <1>1, <2>1, <2>2, <3>2
    <3> QED
      BY <1>5, <3>1, <3>2
  <2> QED
    BY <1>0, <2>3
<1>6. ASSUME NEW r \in Requests, Advance(r)
      PROVE  LogInv'
  <2>1. PICK q \in Request : Advanced(r, q)
    BY <1>6, AdvanceShape
  <2>2. unlogged' = unlogged
    BY <1>6 DEF Advance, CacheRead, FindTenant, CacheWrite, ReadGrant, CreateLog,
                ListCalls, Fails, store
  <2>3. \A c \in Calls : ~Done(q, c)
    BY <2>1 DEF Advanced, GuardInv, IsPublic
  <2>4. \A c \in Calls : \/ logs'[c] = logs[c]
                         \/ logs'[c] = logs[c] + 1 /\ Done(req[r], c)
    <3>1. CASE CreateLog(r) /\ req[r].arg.outcome \in CallOutcome
      <4>1. req[r].arg \in Posts
        BY <3>1 DEF CreateLog, WellFormed
      <4>2. /\ req[r].arg.outcome = "COMPLETED"
            /\ req[r].arg = [call |-> req[r].arg.call, outcome |-> "COMPLETED"]
        BY <3>1, <4>1 DEF CallOutcome, Posts
      <4>3. \A c \in Calls :
              logs'[c] = IF c = req[r].arg.call THEN logs[c] + 1 ELSE logs[c]
        BY <3>1 DEF CreateLog, WellFormed, TypeOK
      <4> QED
        BY <3>1, <4>2, <4>3 DEF CreateLog
    <3>2. CASE ~(CreateLog(r) /\ req[r].arg.outcome \in CallOutcome)
      BY <1>6, <3>2 DEF Advance, CacheRead, FindTenant, CacheWrite, ReadGrant,
                        CreateLog, ListCalls, Fails, store
    <3> QED
      BY <3>1, <3>2
  <2> QED
    BY <1>5, <2>1, <2>2, <2>3, <2>4 DEF Advanced
<1>7. ASSUME NEW r \in Requests, Rest(r)
      PROVE  LogInv'
  <2>1. UNCHANGED store
    BY <1>7 DEF Rest, Loaded, PrivilegeAnswered
  <2>2. Idle \in Request /\ Moves(r, Idle) /\ \A c \in Calls : ~Done(Idle, c)
    BY <1>7, RestShape DEF Moves
  <2> QED
    BY <1>5, <2>1, <2>2 DEF store
<1> QED
  BY <1>3, <1>4, <1>6, <1>7, StepCases

\* A call is listed once at most, though it is posted when it is routed and
\* again when it ends, whatever becomes of the posts.
THEOREM CallsAreListedOnce == Spec => []CallsListedOnce
PROOF
<1>1. Init => GuardInv
  BY DEF Init, GuardInv, Idle, Unsent
<1>2. Init => LogInv
  BY DEF Init, LogInv, Completing, Idle, Unsent
<1>3. LogInv => CallsListedOnce
  BY DEF LogInv, CallsListedOnce
<1> QED
  BY <1>1, <1>2, <1>3, TypeCorrect, GuardStep, LogStep, PTL DEF Spec

LEMMA TableStep ==
  ASSUME WellFormed, TableInv, [Next]_vars
  PROVE  TableInv'
PROOF
<1> DEFINE Pending(q, n) == q.at # "idle" /\ q.from = "admin" /\ q.arg = n
<1>0. loads \in Nat /\ shown \in 0..loads
  BY RequestsAssumption DEF WellFormed, TypeOK
<1>1. ~upset => shown = loads \/ \E r \in Requests : Pending(req[r], loads)
  BY DEF TableInv
<1>2. CASE Quiet
  BY <1>1, <1>2 DEF Quiet, TableInv, page
<1>3. ASSUME NEW r \in Requests, NEW q \in Request, Moves(r, q)
      PROVE  \A s \in Requests : req'[s] = IF s = r THEN q ELSE req[s]
  BY <1>3 DEF Moves, WellFormed
<1>4. ASSUME NEW r \in Requests, Arrival(r)
      PROVE  TableInv'
  <2>1. PICK q \in Request : Arrived(r, q)
    BY <1>4, ArrivalShape
  <2>2. CASE Load(r)
    <3>1. Pending(q, loads') /\ req'[r] = q
      BY <1>3, <2>1, <2>2 DEF Arrived
    <3> QED
      BY <3>1 DEF TableInv
  <2>3. CASE ~Load(r)
    <3>1. UNCHANGED page
      BY <1>4, <2>3 DEF Arrival, GuestAsks, AskPrivilege, PostLog
    <3>2. \A s \in Requests : Pending(req[s], loads) => Pending(req'[s], loads)
      BY <1>3, <2>1 DEF Arrived
    <3> QED
      BY <1>1, <3>1, <3>2 DEF TableInv, page
  <2> QED
    BY <2>2, <2>3
<1>5. ASSUME NEW r \in Requests, Advance(r)
      PROVE  TableInv'
  <2>1. PICK q \in Request : Advanced(r, q)
    BY <1>5, AdvanceShape
  <2>2. UNCHANGED page
    BY <1>5 DEF Advance, CacheRead, FindTenant, CacheWrite, ReadGrant, CreateLog,
                ListCalls, Fails
  <2>3. \A s \in Requests : Pending(req[s], loads) => Pending(req'[s], loads)
    BY <1>3, <2>1 DEF Advanced
  <2> QED
    BY <1>1, <2>2, <2>3 DEF TableInv, page
<1>6. ASSUME NEW r \in Requests, Loaded(r)
      PROVE  TableInv'
  <2>1. /\ req[r].arg \in 1..loads /\ loads' = loads
        /\ \/ shown' = req[r].arg /\ upset' = (upset \/ req[r].arg < shown)
           \/ upset'
    BY <1>6 DEF Loaded, WellFormed
  <2>2. Idle \in Request /\ Moves(r, Idle)
    BY <1>6, RestShape DEF Rest, Moves
  <2>3. CASE req[r].arg = loads
    BY <2>1, <2>3 DEF TableInv
  <2>4. CASE req[r].arg # loads
    <3>1. \A s \in Requests : Pending(req[s], loads) => Pending(req'[s], loads)
      BY <1>3, <2>2, <2>4
    <3>2. shown = loads => req[r].arg < shown
      BY <1>0, <2>1, <2>4
    <3> QED
      BY <1>1, <2>1, <3>1, <3>2 DEF TableInv
  <2> QED
    BY <2>3, <2>4
<1>7. ASSUME NEW r \in Requests, PrivilegeAnswered(r)
      PROVE  TableInv'
  <2>1. UNCHANGED page /\ req[r].from = "signaling"
    BY <1>7 DEF PrivilegeAnswered
  <2>2. Idle \in Request /\ Moves(r, Idle)
    BY <1>7, RestShape DEF Rest, Moves
  <2>3. \A s \in Requests : Pending(req[s], loads) => Pending(req'[s], loads)
    BY <1>3, <2>1, <2>2
  <2> QED
    BY <1>1, <2>1, <2>3 DEF TableInv, page
<1> QED
  BY <1>2, <1>4, <1>5, <1>6, <1>7, StepCases DEF Rest

\* Once no load is under way the table shows the last filter asked for,
\* unless answers have come out of order or a load has failed.
THEOREM TableIsCurrent == Spec => []TableShowsLastLoad
PROOF
<1>1. Init => TableInv
  BY DEF Init, TableInv
<1>2. TableInv => TableShowsLastLoad
  BY DEF TableInv, TableShowsLastLoad
<1> QED
  BY <1>1, <1>2, TypeCorrect, TableStep, PTL DEF Spec
============================================================================
