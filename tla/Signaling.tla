----------------------------- MODULE Signaling -----------------------------
(***************************************************************************)
(* The signaling server (apps/signaling-server): the call handler, the     *)
(* presence manager, the department round robin and the call rate limiter, *)
(* with the sockets of the guest and staff pages around them.              *)
(*                                                                         *)
(* Node runs one event at a time, so every handler is one step except      *)
(* handleInitiate, which awaits the privilege request, the Redis commands  *)
(* and the routing: it is cut at each await, and any other event may run   *)
(* in between.  A socket id is never used twice, so a reconnection is a    *)
(* fresh socket of the same page.                                          *)
(***************************************************************************)
EXTENDS Integers, Sequences, FiniteSets, SequencesExt

CONSTANTS
  Calls,          \* call ids: a guest call page draws one when it is mounted
  Guests,         \* identities of guests
  GuestSockets,   \* socket ids a guest page may get, one per connection
  StaffSockets,   \* socket ids a staff page may get
  Depts,          \* presence keys, a tenant and a department
  PageOf,         \* the call page behind each guest socket
  GuestOf,        \* the guest who opened a page
  DeptOf,         \* the department a page calls
  StaffDept,      \* the department a staff socket names in its handshake
  MaxCalls,       \* calls allowed per rate window
  MaxWindows,     \* bound: rate windows of a guest that elapse
  MaxCrashes,     \* bound: crashes of the server process
  ApiCanFail,     \* may the privilege request time out
  None

ASSUME ConstantsAssumption ==
  /\ PageOf \in [GuestSockets -> Calls]
  /\ GuestOf \in [Calls -> Guests]
  /\ DeptOf \in [Calls -> Depts]
  /\ StaffDept \in [StaffSockets -> Depts]
  /\ GuestSockets \cap StaffSockets = {}
  /\ None \notin GuestSockets \cup StaffSockets
  /\ MaxCalls \in Nat \ {0} /\ MaxWindows \in Nat /\ MaxCrashes \in Nat
  /\ ApiCanFail \in BOOLEAN

Sockets == GuestSockets \cup StaffSockets

Completions == {"ANSWERED", "MISSED", "REJECTED"}
Outcomes == Completions \cup {"INITIATED"}
Events == {"call:incoming", "call:accepted", "call:rejected", "call:ended",
           "call:error", "call:sdp"}
Message == [to : Sockets, ev : Events, call : Calls]
CallState == [caller : GuestSockets, callee : StaffSockets, answered : BOOLEAN]
NoCall == [caller |-> None, callee |-> None, answered |-> FALSE]

\* Where the one handleInitiate of a guest socket is: not yet received, at
\* each await, or over.
InFlight == {"privilege", "rate", "expire", "limited", "route"}
Stages == {"none", "sent", "done", "aborted"} \cup InFlight

VARIABLES
  sock,         \* the server's view of a socket: "fresh", "up" or "down"
  pageSock,     \* socketRef of a guest page
  hungUp,       \* pages whose call:end the server has received
  staffMap,     \* PresenceManager.staffMap
  guestMap,     \* PresenceManager.guestMap
  counters,     \* DepartmentRoundRobinStrategy.counters
  activeCalls,  \* CallHandler.activeCalls; NoCall where the map has no entry
  stage,        \* the handleInitiate of each guest socket
  count,        \* Redis: ratelimit:call:{subject}
  ttl,          \* Redis: does that key have an expiry
  windows,      \* rate windows of a guest that have elapsed
  grant,        \* the API server's grant of a guest
  emitted,      \* every message emitted to a socket that was connected
  callLog,      \* call-log rows posted for a call, by outcome
  crashes       \* crashes so far

presence == <<staffMap, guestMap>>
redis == <<count, ttl, windows>>
clients == <<sock, pageSock, hungUp>>
vars == <<clients, presence, counters, activeCalls, stage, redis, grant,
          emitted, callLog, crashes>>

Caller(s) == GuestOf[PageOf[s]]
IsActive(c) == activeCalls[c] # NoCall
Msg(x, e, c) == [to |-> x, ev |-> e, call |-> c]
Got(x, e, c) == Msg(x, e, c) \in emitted

\* io.to(id).emit and socket.emit: a message for a closed socket is dropped.
Emit(ms) == emitted' = emitted \cup {m \in ms : sock[m.to] = "up"}

\* logCallMetadata: one POST, fire and forget.
LogRow(c, o) == callLog' = [callLog EXCEPT ![c][o] = @ + 1]

Init ==
  /\ sock = [x \in Sockets |-> "fresh"]
  /\ pageSock = [c \in Calls |-> None]
  /\ hungUp = {}
  /\ staffMap = [d \in Depts |-> <<>>]
  /\ guestMap = [g \in Guests |-> None]
  /\ counters = [d \in Depts |-> 0]
  /\ activeCalls = [c \in Calls |-> NoCall]
  /\ stage = [s \in GuestSockets |-> "none"]
  /\ count = [g \in Guests |-> 0]
  /\ ttl = [g \in Guests |-> FALSE]
  /\ windows = [g \in Guests |-> 0]
  /\ grant = [g \in Guests |-> "ACTIVE"]
  /\ emitted = {}
  /\ callLog = [c \in Calls |-> [o \in Outcomes |-> 0]]
  /\ crashes = 0

----------------------------------------------------------------------------
(* Connections and presence *)

\* A page connects, or reconnects after its socket was lost: the server may
\* not have noticed yet that the earlier one is gone.  The page emits
\* call:initiate with its one call id on every 'connect'.
ConnectGuest(s) ==
  /\ sock[s] = "fresh"
  /\ PageOf[s] \notin hungUp
  /\ sock' = [sock EXCEPT ![s] = "up"]
  /\ pageSock' = [pageSock EXCEPT ![PageOf[s]] = s]
  /\ guestMap' = [guestMap EXCEPT ![Caller(s)] = s]
  /\ stage' = [stage EXCEPT ![s] = "sent"]
  /\ UNCHANGED <<hungUp, staffMap, counters, activeCalls, redis, grant,
                 emitted, callLog, crashes>>

ConnectStaff(t) ==
  /\ sock[t] = "fresh"
  /\ sock' = [sock EXCEPT ![t] = "up"]
  /\ staffMap' = [staffMap EXCEPT ![StaffDept[t]] = Append(@, t)]
  /\ UNCHANGED <<pageSock, hungUp, guestMap, counters, activeCalls, stage,
                 redis, grant, emitted, callLog, crashes>>

\* The disconnect handler of a guest removes the identity's entry whichever
\* socket it names.  A handleInitiate that has started goes on.
DisconnectGuest(s) ==
  /\ sock[s] = "up"
  /\ sock' = [sock EXCEPT ![s] = "down"]
  /\ guestMap' = [guestMap EXCEPT ![Caller(s)] = None]
  /\ stage' = [stage EXCEPT ![s] = IF @ = "sent" THEN "aborted" ELSE @]
  /\ UNCHANGED <<pageSock, hungUp, staffMap, counters, activeCalls, redis,
                 grant, emitted, callLog, crashes>>

\* Mutant: the newest entry is dropped instead of the closed socket's.
DisconnectStaffPopsLast(t) ==
  /\ sock[t] = "up"
  /\ sock' = [sock EXCEPT ![t] = "down"]
  /\ staffMap' = [staffMap EXCEPT ![StaffDept[t]] = Front(@)]
  /\ UNCHANGED <<pageSock, hungUp, guestMap, counters, activeCalls, stage,
                 redis, grant, emitted, callLog, crashes>>

\* A socket is in its department's list once, so filter drops one entry.
DisconnectStaff(t) ==
  /\ sock[t] = "up"
  /\ sock' = [sock EXCEPT ![t] = "down"]
  /\ staffMap' = [staffMap EXCEPT ![StaffDept[t]] = RemoveFirst(@, t)]
  /\ UNCHANGED <<pageSock, hungUp, guestMap, counters, activeCalls, stage,
                 redis, grant, emitted, callLog, crashes>>

----------------------------------------------------------------------------
(* call:initiate *)

HandleInitiate(s) ==
  /\ stage[s] = "sent"
  /\ stage' = [stage EXCEPT ![s] = "privilege"]
  /\ UNCHANGED <<clients, presence, counters, activeCalls, redis, grant,
                 emitted, callLog, crashes>>

Refuse(s) ==
  /\ stage' = [stage EXCEPT ![s] = "done"]
  /\ Emit({Msg(s, "call:error", PageOf[s])})

\* checkPrivilege: the grant as the API server has it when it answers; any
\* error (a status the client rejects, a timeout) is a refusal.
PrivilegeReply(s) ==
  /\ stage[s] = "privilege"
  /\ \/ /\ grant[Caller(s)] = "ACTIVE"
        /\ stage' = [stage EXCEPT ![s] = "rate"]
        /\ UNCHANGED emitted
     \/ /\ grant[Caller(s)] # "ACTIVE" \/ ApiCanFail
        /\ Refuse(s)
  /\ UNCHANGED <<clients, presence, counters, activeCalls, redis, grant,
                 callLog, crashes>>

\* Mutant: the limit is compared with the count before the increment.
RateIncrOffByOne(s) ==
  LET n == count[Caller(s)] + 1
  IN /\ stage[s] = "rate"
     /\ count' = [count EXCEPT ![Caller(s)] = n]
     /\ stage' = [stage EXCEPT ![s] = IF n = 1 THEN "expire"
                                      ELSE IF n - 1 > MaxCalls THEN "limited"
                                      ELSE "route"]
     /\ UNCHANGED <<clients, presence, counters, activeCalls, ttl, windows,
                    grant, emitted, callLog, crashes>>

\* Mutant: EXPIRE is sent for the call that passes the limit, not the first.
RateIncrExpiresLate(s) ==
  LET n == count[Caller(s)] + 1
  IN /\ stage[s] = "rate"
     /\ count' = [count EXCEPT ![Caller(s)] = n]
     /\ stage' = [stage EXCEPT ![s] = IF n = MaxCalls + 1 THEN "expire"
                                      ELSE IF n > MaxCalls THEN "limited"
                                      ELSE "route"]
     /\ UNCHANGED <<clients, presence, counters, activeCalls, ttl, windows,
                    grant, emitted, callLog, crashes>>

\* checkCallRate: INCR, then EXPIRE when the count came back as 1.
RateIncr(s) ==
  LET n == count[Caller(s)] + 1
  IN /\ stage[s] = "rate"
     /\ count' = [count EXCEPT ![Caller(s)] = n]
     /\ stage' = [stage EXCEPT ![s] = IF n = 1 THEN "expire"
                                      ELSE IF n > MaxCalls THEN "limited"
                                      ELSE "route"]
     /\ UNCHANGED <<clients, presence, counters, activeCalls, ttl, windows,
                    grant, emitted, callLog, crashes>>

RateExpire(s) ==
  /\ stage[s] = "expire"
  /\ ttl' = [ttl EXCEPT ![Caller(s)] = TRUE]
  /\ stage' = [stage EXCEPT ![s] = "route"]
  /\ UNCHANGED <<clients, presence, counters, activeCalls, count, windows,
                 grant, emitted, callLog, crashes>>

RateRefused(s) ==
  /\ stage[s] = "limited"
  /\ Refuse(s)
  /\ UNCHANGED <<clients, presence, counters, activeCalls, redis, grant,
                 callLog, crashes>>

\* DepartmentRoundRobinStrategy.route: whose turn it is in a list when the
\* counter is at k.
Turn(q, k) == q[(k % Len(q)) + 1]
Selected(d) == Turn(staffMap[d], counters[d])

\* Mutant: the entry is stored after the counter has moved on.
RouteCallSelectsTwice(s) ==
  LET c == PageOf[s]
      d == DeptOf[c]
      u == staffMap[d][((counters[d] + 1) % Len(staffMap[d])) + 1]
  IN /\ stage[s] = "route"
     /\ staffMap[d] # <<>>
     /\ stage' = [stage EXCEPT ![s] = "done"]
     /\ counters' = [counters EXCEPT ![d] = @ + 1]
     /\ activeCalls' = [activeCalls EXCEPT
          ![c] = [caller |-> s, callee |-> u, answered |-> FALSE]]
     /\ Emit({Msg(Selected(d), "call:incoming", c)})
     /\ LogRow(c, "INITIATED")
     /\ UNCHANGED <<clients, presence, redis, grant, crashes>>

\* Mutant: an entry routed again keeps its answered flag.
RouteCallKeepsAnswered(s) ==
  LET c == PageOf[s]
      t == Selected(DeptOf[c])
  IN /\ stage[s] = "route"
     /\ staffMap[DeptOf[c]] # <<>>
     /\ stage' = [stage EXCEPT ![s] = "done"]
     /\ counters' = [counters EXCEPT ![DeptOf[c]] = @ + 1]
     /\ activeCalls' = [activeCalls EXCEPT
          ![c] = [caller |-> s, callee |-> t, answered |-> @.answered]]
     /\ Emit({Msg(t, "call:incoming", c)})
     /\ LogRow(c, "INITIATED")
     /\ UNCHANGED <<clients, presence, redis, grant, crashes>>

\* Routing and storing run without yielding to another event.  The entry
\* replaces whatever the map holds under this call id.
RouteCall(s) ==
  LET c == PageOf[s]
      t == Selected(DeptOf[c])
  IN /\ stage[s] = "route"
     /\ staffMap[DeptOf[c]] # <<>>
     /\ stage' = [stage EXCEPT ![s] = "done"]
     /\ counters' = [counters EXCEPT ![DeptOf[c]] = @ + 1]
     /\ activeCalls' = [activeCalls EXCEPT
          ![c] = [caller |-> s, callee |-> t, answered |-> FALSE]]
     /\ Emit({Msg(t, "call:incoming", c)})
     /\ LogRow(c, "INITIATED")
     /\ UNCHANGED <<clients, presence, redis, grant, crashes>>

\* Mutant: the caller is not told that nobody is there.
NoStaffAvailableSilently(s) ==
  /\ stage[s] = "route"
  /\ staffMap[DeptOf[PageOf[s]]] = <<>>
  /\ stage' = [stage EXCEPT ![s] = "done"]
  /\ UNCHANGED <<clients, presence, counters, activeCalls, redis, grant,
                 emitted, callLog, crashes>>

NoStaffAvailable(s) ==
  /\ stage[s] = "route"
  /\ staffMap[DeptOf[PageOf[s]]] = <<>>
  /\ Refuse(s)
  /\ UNCHANGED <<clients, presence, counters, activeCalls, redis, grant,
                 callLog, crashes>>

----------------------------------------------------------------------------
(* The events of a call in progress *)

\* A staff page answers or declines a call it was rung for.
HandleAccept(t, c) ==
  /\ sock[t] = "up" /\ Got(t, "call:incoming", c)
  /\ IsActive(c) /\ activeCalls[c].callee = t
  /\ activeCalls' = [activeCalls EXCEPT ![c] =
       [caller |-> @.caller, callee |-> t, answered |-> TRUE]]
  /\ Emit({Msg(activeCalls[c].caller, "call:accepted", c),
           Msg(t, "call:accepted", c)})
  /\ UNCHANGED <<clients, presence, counters, stage, redis, grant, callLog,
                 crashes>>

\* Mutant: the row is posted and the entry stays.
EndCallKeepsEntry(c, outcome) ==
  /\ UNCHANGED activeCalls
  /\ LogRow(c, outcome)

\* endCall
EndCall(c, outcome) ==
  /\ activeCalls' = [activeCalls EXCEPT ![c] = NoCall]
  /\ LogRow(c, outcome)

HandleReject(t, c) ==
  /\ sock[t] = "up" /\ Got(t, "call:incoming", c)
  /\ IsActive(c) /\ activeCalls[c].callee = t
  /\ Emit({Msg(activeCalls[c].caller, "call:rejected", c)})
  /\ EndCall(c, "REJECTED")
  /\ UNCHANGED <<clients, presence, counters, stage, redis, grant, crashes>>

\* Any socket but the caller's is taken for the callee's.
Peer(x, c) == IF x = activeCalls[c].caller THEN activeCalls[c].callee
              ELSE activeCalls[c].caller

\* A page that is in the call: the guest's once accepted, the staff member's
\* once the offer has come.
InCall(x, c) ==
  /\ sock[x] = "up"
  /\ \/ x \in GuestSockets /\ Got(x, "call:accepted", c)
     \/ x \in StaffSockets /\ Got(x, "call:sdp", c)

\* handleSdp and handleIceCandidate, which relay alike.
Relay(x, c) ==
  /\ InCall(x, c)
  /\ IsActive(c)
  /\ Emit({Msg(Peer(x, c), "call:sdp", c)})
  /\ UNCHANGED <<clients, presence, counters, activeCalls, stage, redis,
                 grant, callLog, crashes>>

\* Mutant: a call that ends is always logged as answered.
HandleEndAnswered(x, c) ==
  IF IsActive(c)
  THEN /\ Emit({Msg(Peer(x, c), "call:ended", c)})
       /\ EndCall(c, "ANSWERED")
  ELSE UNCHANGED <<activeCalls, emitted, callLog>>

\* handleEnd, which asks nothing of the sender.
HandleEnd(x, c) ==
  IF IsActive(c)
  THEN /\ Emit({Msg(Peer(x, c), "call:ended", c)})
       /\ EndCall(c, IF activeCalls[c].answered THEN "ANSWERED" ELSE "MISSED")
  ELSE UNCHANGED <<activeCalls, emitted, callLog>>

\* Cancel and End Call on the guest's page, which follow its call:initiate
\* on the same socket: the page then closes and does not reconnect.
GuestEnds(c) ==
  /\ pageSock[c] # None /\ sock[pageSock[c]] = "up"
  /\ stage[pageSock[c]] # "sent" /\ c \notin hungUp
  /\ hungUp' = hungUp \cup {c}
  /\ HandleEnd(pageSock[c], c)
  /\ UNCHANGED <<sock, pageSock, presence, counters, stage, redis, grant,
                 crashes>>

StaffEnds(t, c) ==
  /\ InCall(t, c)
  /\ HandleEnd(t, c)
  /\ UNCHANGED <<clients, presence, counters, stage, redis, grant, crashes>>

----------------------------------------------------------------------------
(* The world around the server *)

WindowElapses(g) ==
  /\ ttl[g] /\ windows[g] < MaxWindows
  /\ count' = [count EXCEPT ![g] = 0]
  /\ ttl' = [ttl EXCEPT ![g] = FALSE]
  /\ windows' = [windows EXCEPT ![g] = @ + 1]
  /\ UNCHANGED <<clients, presence, counters, activeCalls, stage, grant,
                 emitted, callLog, crashes>>

\* Checkout revokes the grant; an administrator may restrict calling.
GrantWithdrawn(g) ==
  /\ grant[g] = "ACTIVE"
  /\ \E s \in {"RESTRICTED", "REVOKED"} : grant' = [grant EXCEPT ![g] = s]
  /\ UNCHANGED <<clients, presence, counters, activeCalls, stage, redis,
                 emitted, callLog, crashes>>

\* A restart, or a Redis command that fails inside handleInitiate: nothing
\* catches the rejected promise, and Node ends the process.
Crash ==
  /\ crashes < MaxCrashes
  /\ crashes' = crashes + 1
  /\ sock' = [x \in Sockets |-> IF sock[x] = "up" THEN "down" ELSE sock[x]]
  /\ staffMap' = [d \in Depts |-> <<>>]
  /\ guestMap' = [g \in Guests |-> None]
  /\ counters' = [d \in Depts |-> 0]
  /\ activeCalls' = [c \in Calls |-> NoCall]
  /\ stage' = [s \in GuestSockets |->
                 IF stage[s] \in {"none", "done"} THEN stage[s] ELSE "aborted"]
  /\ UNCHANGED <<pageSock, hungUp, redis, grant, emitted, callLog>>

\* The steps the server takes by itself once call:initiate has arrived.
InitiateStep(s) ==
  \/ HandleInitiate(s) \/ PrivilegeReply(s)
  \/ RateIncr(s) \/ RateExpire(s) \/ RateRefused(s)
  \/ RouteCall(s) \/ NoStaffAvailable(s)

Next ==
  \/ \E s \in GuestSockets :
       ConnectGuest(s) \/ DisconnectGuest(s) \/ InitiateStep(s)
  \/ \E t \in StaffSockets : ConnectStaff(t) \/ DisconnectStaff(t)
  \/ \E c \in Calls : GuestEnds(c)
  \/ \E t \in StaffSockets, c \in Calls :
       HandleAccept(t, c) \/ HandleReject(t, c) \/ StaffEnds(t, c)
  \/ \E x \in Sockets, c \in Calls : Relay(x, c)
  \/ \E g \in Guests : WindowElapses(g) \/ GrantWithdrawn(g)
  \/ Crash

Spec == Init /\ [][Next]_vars

\* The event loop runs every continuation: axios gives up after 3 seconds
\* and ioredis after 3 retries.  Users, networks and crashes are not fair.
FairSpec == Spec /\ \A s \in GuestSockets : WF_vars(InitiateStep(s))

----------------------------------------------------------------------------
(* Properties *)

\* The shape of the state.
TypeOK ==
  /\ sock \in [Sockets -> {"fresh", "up", "down"}]
  /\ pageSock \in [Calls -> GuestSockets \cup {None}]
  /\ hungUp \subseteq Calls
  /\ staffMap \in [Depts -> Seq(StaffSockets)]
  /\ guestMap \in [Guests -> GuestSockets \cup {None}]
  /\ counters \in [Depts -> Nat]
  /\ activeCalls \in [Calls -> CallState \cup {NoCall}]
  /\ stage \in [GuestSockets -> Stages]
  /\ count \in [Guests -> Nat]
  /\ ttl \in [Guests -> BOOLEAN]
  /\ windows \in [Guests -> 0..MaxWindows]
  /\ grant \in [Guests -> {"ACTIVE", "RESTRICTED", "REVOKED"}]
  /\ emitted \subseteq Message
  /\ callLog \in [Calls -> [Outcomes -> Nat]]
  /\ crashes \in 0..MaxCrashes

\* The list the round robin draws from holds exactly the connected staff of
\* the department, each once, through joins, losses and restarts.
PresenceMatchesSockets ==
  \A d \in Depts :
    /\ ToSet(staffMap[d]) = {t \in StaffSockets : sock[t] = "up" /\ StaffDept[t] = d}
    /\ IsInjective(staffMap[d])

\* One of the next turns in list q, as many as it is long, is t's.
HasOneTurn(t, q, k) ==
  \E i \in 0..(Len(q) - 1) : \A j \in 0..(Len(q) - 1) : Turn(q, k + j) = t <=> j = i

\* "round-robin rotation to distribute calls evenly" (department-round-
\* robin.strategy.ts): wherever joins, losses, calls and restarts have left
\* the list and its counter, each connected member of staff has exactly one
\* of the next turns, as many as there are members.
TurnsAreEven ==
  \A d \in Depts, t \in StaffSockets :
    sock[t] = "up" /\ StaffDept[t] = d => HasOneTurn(t, staffMap[d], counters[d])

\* A call is in the map only if the member of staff it waits for, of the
\* department the page called, was connected when it was routed and got
\* call:incoming: the presence read and the store are not torn apart.
CalleeWasRung ==
  \A c \in Calls : IsActive(c) =>
    /\ PageOf[activeCalls[c].caller] = c
    /\ StaffDept[activeCalls[c].callee] = DeptOf[c]
    /\ Got(activeCalls[c].callee, "call:incoming", c)

\* An answered call was answered by the callee it is routed to now, not by
\* one rung before the call was routed again; and no row says ANSWERED for a
\* call nobody accepted.
AnsweredByCallee ==
  \A c \in Calls :
    /\ activeCalls[c].answered => Got(activeCalls[c].callee, "call:accepted", c)
    /\ callLog[c]["ANSWERED"] > 0 =>
         \E t \in StaffSockets : Got(t, "call:accepted", c)

Completed(c) == callLog[c]["ANSWERED"] + callLog[c]["MISSED"] + callLog[c]["REJECTED"]

\* However call:end, call:reject, reconnections and crashes interleave, the
\* call log never has more completions of a call than routings of it, and
\* one still open when the call is in the map.
LogBalance ==
  \A c \in Calls :
    Completed(c) + (IF IsActive(c) THEN 1 ELSE 0) <= callLog[c]["INITIATED"]

\* The calls of a guest that were routed, one pair for each time.
Routings(g) ==
  UNION {{c} \X (1..callLog[c]["INITIATED"]) : c \in {d \in Calls : GuestOf[d] = g}}

\* REQ-CALL-06: a guest's routed calls never exceed the limit per elapsed
\* window, with any number of call:initiate in flight at once.
CallRateBounded ==
  \A g \in Guests : Cardinality(Routings(g)) <= MaxCalls * (windows[g] + 1)

\* While the server does not crash, the limiter implements the abstract rate
\* window, whatever calls of the guest overlap: an admission is the INCR that
\* returns at most the limit, and EXPIRE is part of the first.
Window == INSTANCE RateWindow WITH
  Keys <- Guests,
  Limit <- MaxCalls,
  left <- [g \in Guests |->
             IF count[g] < MaxCalls THEN MaxCalls - count[g] ELSE 0],
  open <- [g \in Guests |-> ttl[g] \/
             \E s \in GuestSockets : Caller(s) = g /\ stage[s] = "expire"]
ImplementsRateWindow == Window!Spec

\* A counted window always ends: its key has an expiry or is about to.
WindowAlwaysExpires ==
  \A g \in Guests : count[g] > 0 =>
    ttl[g] \/ \E s \in GuestSockets : Caller(s) = g /\ stage[s] = "expire"

\* A call leaves the map, the server staying up, exactly when one completion
\* row is posted for it, and that row says ANSWERED only of an answered call
\* and MISSED only of an unanswered one.
CompletionLoggedOnce ==
  [][\A c \in Calls : crashes' = crashes =>
       /\ (IsActive(c) /\ ~IsActive(c)') <=> Completed(c)' # Completed(c)
       /\ Completed(c)' \in {Completed(c), Completed(c) + 1}
       /\ callLog'[c]["ANSWERED"] # callLog[c]["ANSWERED"] => activeCalls[c].answered
       /\ callLog'[c]["MISSED"] # callLog[c]["MISSED"] => ~activeCalls[c].answered
    ]_vars

\* Every call:initiate the server receives is settled: the page is told it
\* failed, or a member of staff is rung for it, unless the caller's socket
\* or the server is lost first.
InitiateSettles ==
  \A s \in GuestSockets :
    stage[s] \in InFlight ~>
      \/ Got(s, "call:error", PageOf[s])
      \/ activeCalls[PageOf[s]].caller = s
      \/ sock[s] = "down"

(* What the documentation says and the code does not do: it is refuted.    *)

\* "5. Log call metadata to API server on completion" (call.handler.ts): a
\* call both of whose sockets are gone is completed and logged.
AbandonedCallCompletes ==
  \A c \in Calls :
    (IsActive(c) /\ sock[activeCalls[c].caller] = "down"
                 /\ sock[activeCalls[c].callee] = "down")
      ~> ~IsActive(c)
=============================================================================
