---------------------------- MODULE ApiRequests ----------------------------
(***************************************************************************)
(* A request to the API server on its way through the guards (JWT, roles,  *)
(* tenant, in this order), the handler and the answer, for the routes that *)
(* the call log and the privilege check of the signaling server use:       *)
(*   GET /grants/subject/:id      the guest's pages, and the signaling     *)
(*                                server before it routes a call           *)
(*   POST /internal/call-logs     the signaling server                     *)
(*   GET /calls                   the call log page of admin-web           *)
(*                                                                         *)
(* Before these guards the throttler may refuse any request; that is left  *)
(* out, as one more request that fails.                                    *)
(*                                                                         *)
(* The JWT and roles guards decide at once.  The tenant guard awaits Redis *)
(* and the database, and each command is a step; so are the handler and    *)
(* the arrival of the answer, which may come in any order.                 *)
(***************************************************************************)
EXTENDS Integers

CONSTANTS
  Requests,   \* requests in progress at once
  Calls,      \* calls that the signaling server logs, one for each routing
  MaxLoads,   \* bound: loads of the call log page, each with its filter
  MaxFaults,  \* bound: Redis, database or network commands that fail
  None

\* Who sends: the pages with a bearer token, the signaling server with the
\* shared secret and no token.
Callers == {"guest", "admin", "signaling"}
Bearers == {"guest", "admin"}
Routes == {"grant", "log", "calls"}

\* @Public() and @Roles() of the routes.
IsPublic(route) == route = "log"
RequiredRoles(route) ==
  CASE route = "grant" -> {"guest", "admin"}
    [] route = "calls" -> {"admin"}
    [] OTHER -> {}

\* CallOutcome of the schema, whose members nothing here tells apart, and the
\* outcome that handleInitiate posts, which is not of it.
CallOutcome == {"COMPLETED"}
Posted == CallOutcome \cup {"INITIATED"}

ASSUME RequestsAssumption ==
  /\ MaxLoads \in Nat /\ MaxFaults \in Nat
  /\ \A outcomes \in SUBSET Posted : None # outcomes

\* HttpExceptionFilter: what an exception becomes; "OK" when there is none.
Codes == {"OK", "UNAUTHORIZED", "FORBIDDEN", "INTERNAL_SERVER_ERROR"}
Unsent(from, route, arg) ==
  [at |-> "idle", from |-> from, route |-> route, arg |-> arg,
   tenant |-> FALSE, active |-> FALSE, code |-> "OK"]
Idle == Unsent(None, None, None)

VARIABLES
  tenant,     \* does the row of the tenant exist
  verdict,    \* Redis: tenant_valid:{tenant}, "none" when there is no key
  tokens,     \* the pages whose access token has not expired
  grant,      \* is the guest's grant ACTIVE
  connected,  \* has the signaling server accepted the guest's socket
  logs,       \* call_logs: rows of a call
  unlogged,   \* outcomes of a call still to be posted; None before the call
  req,        \* the requests in progress
  loads,      \* call log page: loads begun
  shown,      \* call log page: the load whose rows it shows; 0 for none
  upset,      \* history: a load was overtaken by a later one, or has failed
  faults      \* faults so far

page == <<loads, shown, upset>>
world == <<tenant, tokens, grant, connected>>
store == <<logs, unlogged>>
vars == <<world, verdict, store, req, page, faults>>

Init ==
  /\ tenant = FALSE /\ verdict = "none"
  /\ tokens = {} /\ grant = FALSE /\ connected = FALSE
  /\ logs = [c \in Calls |-> 0]
  /\ unlogged = [c \in Calls |-> None]
  /\ req = [r \in Requests |-> Idle]
  /\ loads = 0 /\ shown = 0 /\ upset = FALSE
  /\ faults = 0

----------------------------------------------------------------------------
(* The world around *)

\* The seed script, which may run after the servers have started.
SeedTenant ==
  /\ ~tenant /\ tenant' = TRUE
  /\ UNCHANGED <<tokens, grant, connected, verdict, store, req, page, faults>>

\* A login, or a token kept from an earlier database; and its end.
TokenIssued(b) ==
  /\ b \notin tokens /\ tokens' = tokens \cup {b}
  /\ UNCHANGED <<tenant, grant, connected, verdict, store, req, page, faults>>

TokenExpires(b) ==
  /\ b \in tokens /\ tokens' = tokens \ {b}
  /\ UNCHANGED <<tenant, grant, connected, verdict, store, req, page, faults>>

GrantChanges ==
  /\ tenant /\ grant' = ~grant
  /\ UNCHANGED <<tenant, tokens, connected, verdict, store, req, page, faults>>

\* authMiddleware of the signaling server: verified once, at the handshake.
Handshake ==
  /\ "guest" \in tokens /\ ~connected
  /\ connected' = TRUE
  /\ UNCHANGED <<tenant, tokens, grant, verdict, store, req, page, faults>>

\* handleInitiate, and later endCall, decide to log a call.
CallHappens(c, o) ==
  /\ connected /\ unlogged[c] = None
  /\ unlogged' = [unlogged EXCEPT ![c] = {"INITIATED", o}]
  /\ UNCHANGED <<world, verdict, logs, req, page, faults>>

\* Mutant: only a positive verdict is set with an expiry.
VerdictExpiresValid ==
  /\ verdict = "1" /\ verdict' = "none"
  /\ UNCHANGED <<world, store, req, page, faults>>

\* Redis: EX 300, whichever the verdict.
VerdictExpires ==
  /\ verdict # "none" /\ verdict' = "none"
  /\ UNCHANGED <<world, store, req, page, faults>>

----------------------------------------------------------------------------
(* The guards *)

\* JwtAuthGuard and JwtStrategy: ignoreExpiration is false.
JwtGuard(from, route) == IsPublic(route) \/ from \in tokens

\* Mutant: any authenticated caller is let through.
RolesGuardOpen(from, route) == from \in Callers

RolesGuard(from, route) ==
  RequiredRoles(route) = {} \/ from \in RequiredRoles(route)

\* An answer, kept only where its arrival changes something here.
Answer(q, code) ==
  IF (q.from = "admin" /\ q.route = "calls") \/ (q.from = "signaling" /\ q.route = "grant")
  THEN [q EXCEPT !.at = "answered", !.code = code]
  ELSE Idle

\* A request arrives; TenantGuard lets a public route through.
Arrive(r, from, route, arg) ==
  LET q == Unsent(from, route, arg)
  IN req' = [req EXCEPT ![r] =
       IF ~JwtGuard(from, route)
       THEN Answer(q, "UNAUTHORIZED")
       ELSE IF ~RolesGuard(from, route)
       THEN Answer(q, "FORBIDDEN")
       ELSE [q EXCEPT !.at = IF IsPublic(route) THEN "handler" ELSE "get"]]

\* TenantGuard: GET of the cached verdict.
CacheRead(r) ==
  /\ req[r].at = "get"
  /\ req' = [req EXCEPT ![r] =
       CASE verdict = "1" -> [@ EXCEPT !.at = "handler"]
         [] verdict = "0" -> Answer(@, "FORBIDDEN")
         [] OTHER -> [@ EXCEPT !.at = "find"]]
  /\ UNCHANGED <<world, verdict, store, page, faults>>

FindTenant(r) ==
  /\ req[r].at = "find"
  /\ req' = [req EXCEPT ![r].at = "set", ![r].tenant = tenant]
  /\ UNCHANGED <<world, verdict, store, page, faults>>

CacheWrite(r) ==
  /\ req[r].at = "set"
  /\ verdict' = IF req[r].tenant THEN "1" ELSE "0"
  /\ req' = [req EXCEPT ![r] =
       IF @.tenant THEN [@ EXCEPT !.at = "handler"] ELSE Answer(@, "FORBIDDEN")]
  /\ UNCHANGED <<world, store, page, faults>>

----------------------------------------------------------------------------
(* The handlers.  What a handler reads is what its answer carries.          *)

\* AccessController.getActiveGrant: a guest's own grant, whatever it asks.
ReadGrant(r) ==
  /\ req[r].at = "handler" /\ req[r].route = "grant"
  /\ req' = [req EXCEPT ![r] = Answer([@ EXCEPT !.active = grant], "OK")]
  /\ UNCHANGED <<world, verdict, store, page, faults>>

\* Mutant: every outcome that is posted is one of the schema's.
CreateLogAny(r) ==
  /\ req[r].at = "handler" /\ req[r].route = "log"
  /\ logs' = [logs EXCEPT ![req[r].arg.call] = @ + 1]
  /\ req' = [req EXCEPT ![r] = Answer(@, "OK")]
  /\ UNCHANGED <<world, verdict, unlogged, page, faults>>

\* createLog: the secret is right; Prisma throws on an outcome that is not of
\* the enum.
CreateLog(r) ==
  /\ req[r].at = "handler" /\ req[r].route = "log"
  /\ IF req[r].arg.outcome \in CallOutcome
     THEN /\ logs' = [logs EXCEPT ![req[r].arg.call] = @ + 1]
          /\ req' = [req EXCEPT ![r] = Answer(@, "OK")]
     ELSE /\ req' = [req EXCEPT ![r] = Answer(@, "INTERNAL_SERVER_ERROR")]
          /\ UNCHANGED logs
  /\ UNCHANGED <<world, verdict, unlogged, page, faults>>

\* CallsController.list and listByTenant: the rows of the filter asked.
ListCalls(r) ==
  /\ req[r].at = "handler" /\ req[r].route = "calls"
  /\ req' = [req EXCEPT ![r] = Answer(@, "OK")]
  /\ UNCHANGED <<world, verdict, store, page, faults>>

\* A command of Redis or the database throws, or the caller gives up.
Fails(r) ==
  /\ req[r].at \in {"get", "find", "set", "handler"} /\ faults < MaxFaults
  /\ faults' = faults + 1
  /\ req' = [req EXCEPT ![r] = Answer(@, "INTERNAL_SERVER_ERROR")]
  /\ UNCHANGED <<world, verdict, store, page>>

----------------------------------------------------------------------------
(* The callers *)

Ask(r, from, route, arg) == req[r] = Idle /\ Arrive(r, from, route, arg)

\* A page of the guest asks for the grant, or for what its role is refused.
GuestAsks(r, route) ==
  /\ Ask(r, "guest", route, None)
  /\ UNCHANGED <<world, verdict, store, page, faults>>

\* checkPrivilege: no Authorization header, only the shared secret.
AskPrivilege(r) ==
  /\ connected
  /\ Ask(r, "signaling", "grant", None)
  /\ UNCHANGED <<world, verdict, store, page, faults>>

\* logCallMetadata, fire and forget.
PostLog(r, c, o) ==
  /\ unlogged[c] # None /\ o \in unlogged[c]
  /\ unlogged' = [unlogged EXCEPT ![c] = @ \ {o}]
  /\ Ask(r, "signaling", "log", [call |-> c, outcome |-> o])
  /\ UNCHANGED <<world, verdict, logs, page, faults>>

\* load() of the call log page: when it opens, and at each click with the
\* filter that is chosen then.
Load(r) ==
  /\ loads < MaxLoads /\ loads' = loads + 1
  /\ Ask(r, "admin", "calls", loads + 1)
  /\ UNCHANGED <<world, verdict, store, shown, upset, faults>>

\* Mutant: the page keeps the rows it has.
LoadedOnce(r) ==
  /\ req[r].at = "answered" /\ req[r].from = "admin"
  /\ IF req[r].code = "OK"
     THEN /\ shown' = IF shown = 0 THEN req[r].arg ELSE shown
          /\ upset' = (upset \/ req[r].arg < shown)
     ELSE upset' = TRUE /\ UNCHANGED shown
  /\ req' = [req EXCEPT ![r] = Idle]
  /\ UNCHANGED <<world, verdict, store, loads, faults>>

\* setLogs takes whatever answer comes, in whatever order; a failed load
\* rejects a promise that nothing catches.
Loaded(r) ==
  /\ req[r].at = "answered" /\ req[r].from = "admin"
  /\ IF req[r].code = "OK"
     THEN shown' = req[r].arg /\ upset' = (upset \/ req[r].arg < shown)
     ELSE upset' = TRUE /\ UNCHANGED shown
  /\ req' = [req EXCEPT ![r] = Idle]
  /\ UNCHANGED <<world, verdict, store, loads, faults>>

\* The end of checkPrivilege: an ACTIVE grant in the answer allows the call,
\* everything else denies it, errors included (Signaling has what follows).
PrivilegeAnswered(r) ==
  /\ req[r].at = "answered"
  /\ req[r].from = "signaling" /\ req[r].route = "grant"
  /\ req' = [req EXCEPT ![r] = Idle]
  /\ UNCHANGED <<world, verdict, store, page, faults>>

Proceeds(r) ==
  \/ CacheRead(r) \/ FindTenant(r) \/ CacheWrite(r)
  \/ ReadGrant(r) \/ CreateLog(r) \/ ListCalls(r) \/ Fails(r)
  \/ Loaded(r) \/ PrivilegeAnswered(r)

Next ==
  \/ SeedTenant \/ GrantChanges \/ Handshake \/ VerdictExpires
  \/ \E b \in Bearers : TokenIssued(b) \/ TokenExpires(b)
  \/ \E c \in Calls, o \in CallOutcome : CallHappens(c, o)
  \/ \E r \in Requests :
       \/ \E route \in {"grant", "calls"} : GuestAsks(r, route)
       \/ AskPrivilege(r) \/ Load(r)
       \/ \E c \in Calls, o \in Posted : PostLog(r, c, o)
       \/ Proceeds(r)

Spec == Init /\ [][Next]_vars

\* Redis expires its keys; a request that has begun goes on or fails.
FairSpec ==
  /\ Spec
  /\ WF_vars(VerdictExpires)
  /\ \A r \in Requests : WF_vars(Proceeds(r))

----------------------------------------------------------------------------
(* Properties *)

\* The shape of the state.
TypeOK ==
  /\ tenant \in BOOLEAN /\ verdict \in {"none", "0", "1"}
  /\ tokens \subseteq Bearers /\ connected \in BOOLEAN /\ grant \in BOOLEAN
  /\ logs \in [Calls -> Nat]
  /\ unlogged \in [Calls -> (SUBSET Posted) \cup {None}]
  /\ \A r \in Requests :
       /\ req[r].at \in {"idle", "get", "find", "set", "handler", "answered"}
       /\ req[r].from \in Callers \cup {None}
       /\ req[r].route \in Routes \cup {None}
       /\ req[r].code \in Codes
  /\ loads \in 0..MaxLoads /\ shown \in 0..loads /\ upset \in BOOLEAN
  /\ faults \in 0..MaxFaults

\* A handler behind the guards runs only for a role that it is meant for and
\* a tenant that exists, whichever of several requests has filled the cache
\* and whatever has expired since.
HandlersAreGuarded ==
  \A r \in Requests : req[r].at = "handler" /\ ~IsPublic(req[r].route) =>
    tenant /\ req[r].from \in RequiredRoles(req[r].route)

\* A verdict of before the seed is not for good: once the tenant exists,
\* only finitely many requests are still refused for it.
SeededTenantIsAdmitted == tenant ~> [](verdict # "0")

\* A call is listed once at most for each time it is routed, though the
\* signaling server posts it when it is routed and again when it ends.
CallsListedOnce == \A c \in Calls : logs[c] <= 1

\* When no load is under way, the call log page shows the rows of the filter
\* it was last asked for, unless an answer has overtaken that of a later load
\* or a load has failed.
TableShowsLastLoad ==
  ~upset /\ (\A r \in Requests : req[r].from # "admin") => shown = loads

(* What the documents say and the code does not do: it is refuted.         *)

\* REQ-CALL-02: "Guest can initiate a call to any of the three departments":
\* the privilege request for a guest with an ACTIVE grant is not refused
\* before the grant is looked at.
GrantedGuestMayCall ==
  [][\A r \in Requests : AskPrivilege(r) /\ grant => req'[r].at # "answered"]_vars
=============================================================================
