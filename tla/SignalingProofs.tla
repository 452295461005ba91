--------------------------- MODULE SignalingProofs ---------------------------
(* Theorems about the signaling server, for any pages, staff and bounds. *)
EXTENDS Signaling, SequenceTheorems, FiniteSetTheorems, TLAPS

(***************************************************************************)
(* The presence lists: what addStaff and removeStaff do to a list without  *)
(* repetitions.                                                            *)
(***************************************************************************)

LEMMA AppendDistinct ==
  ASSUME NEW S, NEW q \in Seq(S), NEW t \in S, IsInjective(q), t \notin ToSet(q)
  PROVE  /\ Append(q, t) \in Seq(S)
         /\ ToSet(Append(q, t)) = ToSet(q) \cup {t}
         /\ IsInjective(Append(q, t))
  BY AppendProperties DEF ToSet, IsInjective

\* In a list without repetitions the first occurrence is the only one, and
\* dropping it shifts what follows by one.
LEMMA RemoveFirstIsShift ==
  ASSUME NEW S, NEW q \in Seq(S), IsInjective(q), NEW k \in 1..Len(q)
  PROVE  /\ RemoveFirst(q, q[k]) \in Seq(S)
         /\ Len(RemoveFirst(q, q[k])) = Len(q) - 1
         /\ \A i \in 1..(Len(q) - 1) :
              RemoveFirst(q, q[k])[i] = IF i < k THEN q[i] ELSE q[i + 1]
<1> DEFINE I == {i \in 1..Len(q) : q[i] = q[k]}
           a == SubSeq(q, 1, k - 1)
           b == SubSeq(q, k + 1, Len(q))
<1>1. I = {k}
  BY DEF IsInjective
<1>2. Min(I) = k
  BY <1>1 DEF Min
<1>3. RemoveFirst(q, q[k]) = a \o b
  BY <1>1, <1>2 DEF RemoveFirst, SelectInSeq, RemoveAt
<1>4. /\ a \in Seq(S) /\ Len(a) = k - 1
      /\ \A i \in 1..(k - 1) : a[i] = q[i]
  BY SubSeqProperties, ElementOfSeq
<1>5. /\ b \in Seq(S) /\ Len(b) = Len(q) - k
      /\ \A i \in 1..(Len(q) - k) : b[i] = q[i + k]
  BY SubSeqProperties, ElementOfSeq
<1> HIDE DEF a, b
<1>6. /\ a \o b \in Seq(S)
      /\ Len(a \o b) = Len(a) + Len(b)
      /\ \A i \in 1..(Len(a) + Len(b)) :
           (a \o b)[i] = IF i <= Len(a) THEN a[i] ELSE b[i - Len(a)]
  BY ONLY <1>4, <1>5, ConcatProperties
<1>7. Len(q) \in Nat /\ k \in Nat
  BY LenProperties
<1>8. ASSUME NEW i \in 1..(Len(q) - 1)
      PROVE  (a \o b)[i] = IF i < k THEN q[i] ELSE q[i + 1]
  <2>1. CASE i < k
    BY <1>4, <1>5, <1>6, <1>7, <2>1
  <2>2. CASE ~(i < k)
    <3>1. i - (k - 1) \in 1..(Len(q) - k) /\ i - (k - 1) + k = i + 1
      BY <1>7, <2>2
    <3>2. (a \o b)[i] = b[i - (k - 1)]
      BY <1>4, <1>5, <1>6, <1>7, <2>2
    <3> QED
      BY <1>5, <1>7, <2>2, <3>1, <3>2
  <2> QED
    BY <1>7, <2>1, <2>2
<1> QED
  BY <1>3, <1>4, <1>5, <1>6, <1>7, <1>8

LEMMA RemoveFirstDistinct ==
  ASSUME NEW S, NEW q \in Seq(S), IsInjective(q), NEW t \in ToSet(q)
  PROVE  /\ RemoveFirst(q, t) \in Seq(S)
         /\ ToSet(RemoveFirst(q, t)) = ToSet(q) \ {t}
         /\ IsInjective(RemoveFirst(q, t))
<1>1. PICK k \in 1..Len(q) : q[k] = t
  BY DEF ToSet
<1> DEFINE r == RemoveFirst(q, t)
<1>2. /\ r \in Seq(S) /\ Len(r) = Len(q) - 1
      /\ \A i \in 1..(Len(q) - 1) : r[i] = IF i < k THEN q[i] ELSE q[i + 1]
  BY <1>1, RemoveFirstIsShift
<1>3. IsInjective(r)
  BY <1>2, SMTT(30) DEF IsInjective
<1>4. \A i \in 1..Len(r) : r[i] \in ToSet(q) \ {t}
  <2>1. k \in Nat /\ Len(q) \in Nat /\ Len(r) = Len(q) - 1
    BY <1>1, <1>2
  <2> SUFFICES ASSUME NEW i \in 1..Len(r) PROVE r[i] \in ToSet(q) \ {t}
    OBVIOUS
  <2>2. /\ i \in 1..Len(q) /\ i + 1 \in 1..Len(q)
        /\ r[i] = IF i < k THEN q[i] ELSE q[i + 1]
    BY <1>2, <2>1
  <2>3. \A j \in 1..Len(q) : q[j] \in ToSet(q) /\ (j # k => q[j] # t)
    BY <1>1 DEF ToSet, IsInjective
  <2>4. CASE i < k
    BY <2>1, <2>2, <2>3, <2>4
  <2>5. CASE ~(i < k)
    BY <2>1, <2>2, <2>3, <2>5
  <2> QED
    BY <2>4, <2>5
<1>5. ASSUME NEW x \in ToSet(q), x # t
      PROVE  x \in ToSet(r)
  <2>1. PICK j \in 1..Len(q) : q[j] = x
    BY DEF ToSet
  <2>2. CASE j < k
    <3>1. j \in 1..Len(r) /\ r[j] = x
      BY <1>1, <1>2, <2>1, <2>2, SMTT(30)
    <3> QED
      BY <1>2, <3>1 DEF ToSet
  <2>3. CASE j > k
    <3>1. j - 1 \in 1..Len(r) /\ r[j - 1] = x
      BY <1>1, <1>2, <2>1, <2>3, SMTT(30)
    <3> QED
      BY <1>2, <3>1 DEF ToSet
  <2> QED
    BY <1>1, <1>5, <2>1, <2>2, <2>3
<1>6. \A x \in ToSet(r) : \E i \in 1..Len(r) : x = r[i]
  BY <1>2 DEF ToSet
<1> HIDE DEF r
<1>7. ToSet(r) = ToSet(q) \ {t}
  BY <1>4, <1>5, <1>6
<1> QED
  BY <1>2, <1>3, <1>7 DEF r

----------------------------------------------------------------------------
(* Type correctness, with the presence lists it rests on *)

WellFormed == TypeOK /\ PresenceMatchesSockets

LEMMA InitWellFormed == Init => WellFormed
<1> SUFFICES ASSUME Init PROVE WellFormed
  OBVIOUS
<1>1. TypeOK
  BY ConstantsAssumption
  DEF Init, TypeOK, NoCall, Outcomes, Completions, Stages
<1>2. PresenceMatchesSockets
  BY ConstantsAssumption
  DEF Init, PresenceMatchesSockets, ToSet, IsInjective, Sockets
<1> QED
  BY <1>1, <1>2 DEF WellFormed

LEMMA SelectedIsListed ==
  ASSUME TypeOK, NEW d \in Depts, staffMap[d] # <<>>
  PROVE  /\ Selected(d) \in ToSet(staffMap[d])
         /\ Selected(d) \in StaffSockets
<1> DEFINE n == Len(staffMap[d])
<1>1. staffMap[d] \in Seq(StaffSockets) /\ counters[d] \in Nat
  BY DEF TypeOK
<1>2. n \in Nat \ {0}
  BY <1>1, EmptySeq
<1>3. (counters[d] % n) + 1 \in 1..n
  BY <1>1, <1>2
<1> QED
  BY <1>1, <1>3, ElementOfSeq DEF Selected, Turn, ToSet

\* A posted row adds one to one count.
LEMMA LogRowEffect ==
  ASSUME TypeOK, NEW c \in Calls, NEW o \in Outcomes, LogRow(c, o)
  PROVE  /\ callLog' \in [Calls -> [Outcomes -> Nat]]
         /\ \A d \in Calls, p \in Outcomes :
              callLog'[d][p] = callLog[d][p] + (IF d = c /\ p = o THEN 1 ELSE 0)
<1>1. callLog \in [Calls -> [Outcomes -> Nat]]
  BY DEF TypeOK
<1>2. callLog' = [callLog EXCEPT ![c] = [callLog[c] EXCEPT ![o] = callLog[c][o] + 1]]
  BY DEF LogRow
<1>3. [callLog[c] EXCEPT ![o] = callLog[c][o] + 1] \in [Outcomes -> Nat]
  BY <1>1
<1> QED
  BY <1>1, <1>2, <1>3

\* The steps of call:initiate keep the types.
LEMMA InitiateType ==
  ASSUME TypeOK, NEW s \in GuestSockets, InitiateStep(s)
  PROVE  TypeOK'
<1> USE ConstantsAssumption DEF TypeOK, clients, presence, redis
<1>1. CASE HandleInitiate(s)
  BY <1>1 DEF HandleInitiate, Stages, InFlight
<1> Msg(s, "call:error", PageOf[s]) \in Message
  BY DEF Msg, Message, Sockets, Events
<1>2. CASE PrivilegeReply(s)
  BY <1>2 DEF PrivilegeReply, Refuse, Emit, Stages, InFlight
<1>3. CASE RateIncr(s)
  <2>1. Caller(s) \in Guests
    BY DEF Caller
  <2> QED
    BY <1>3, <2>1 DEF RateIncr, Stages, InFlight
<1>4. CASE RateExpire(s)
  BY <1>4 DEF RateExpire, Stages, InFlight, Caller
<1>5. CASE RateRefused(s)
  BY <1>5 DEF RateRefused, Refuse, Emit, Stages
<1>6. CASE RouteCall(s)
  <2> DEFINE c == PageOf[s]
             t == Selected(DeptOf[c])
  <2>1. c \in Calls /\ DeptOf[c] \in Depts /\ t \in StaffSockets
    BY <1>6, SelectedIsListed DEF RouteCall
  <2>2. emitted' \subseteq Message
    BY <1>6, <2>1 DEF RouteCall, Emit, Msg, Message, Sockets, Events
  <2>3. activeCalls' \in [Calls -> CallState \cup {NoCall}]
    BY <1>6, <2>1 DEF RouteCall, CallState
  <2>4. callLog' \in [Calls -> [Outcomes -> Nat]]
    BY <1>6, <2>1, LogRowEffect DEF RouteCall, Outcomes
  <2>5. /\ stage' \in [GuestSockets -> Stages]
        /\ counters' \in [Depts -> Nat]
    BY <1>6, <2>1 DEF RouteCall, Stages
  <2> QED
    BY <1>6, <2>2, <2>3, <2>4, <2>5 DEF RouteCall
<1>7. CASE NoStaffAvailable(s)
  BY <1>7 DEF NoStaffAvailable, Refuse, Emit, Stages
<1> QED
  BY <1>1, <1>2, <1>3, <1>4, <1>5, <1>6, <1>7 DEF InitiateStep

LEMMA EmitType ==
  ASSUME TypeOK, NEW ms \in SUBSET Message, Emit(ms)
  PROVE  emitted' \subseteq Message
  BY DEF TypeOK, Emit

\* An entry of the map names two sockets.
LEMMA ActiveCallType ==
  ASSUME TypeOK, NEW c \in Calls, IsActive(c)
  PROVE  /\ activeCalls[c] \in CallState
         /\ activeCalls[c].caller \in GuestSockets
         /\ activeCalls[c].callee \in StaffSockets
  BY DEF TypeOK, IsActive, CallState

LEMMA HandleEndType ==
  ASSUME TypeOK, NEW x \in Sockets, NEW c \in Calls, HandleEnd(x, c)
  PROVE  /\ activeCalls' \in [Calls -> CallState \cup {NoCall}]
         /\ emitted' \subseteq Message
         /\ callLog' \in [Calls -> [Outcomes -> Nat]]
<1>1. CASE IsActive(c)
  <2>1. Msg(Peer(x, c), "call:ended", c) \in Message
    BY <1>1, ActiveCallType DEF Msg, Message, Peer, Sockets, Events
  <2>2. emitted' \subseteq Message
    BY <1>1, <2>1, EmitType DEF HandleEnd
  <2>3. PICK o \in Completions : EndCall(c, o)
    BY <1>1 DEF HandleEnd, Completions
  <2>4. callLog' \in [Calls -> [Outcomes -> Nat]]
    BY <2>3, LogRowEffect DEF EndCall, Outcomes
  <2> QED
    BY <2>2, <2>3, <2>4 DEF TypeOK, EndCall
<1>2. CASE ~IsActive(c)
  BY <1>2 DEF TypeOK, HandleEnd
<1> QED
  BY <1>1, <1>2

LEMMA CallEventsType ==
  ASSUME TypeOK, NEW c \in Calls,
         \/ GuestEnds(c)
         \/ \E t \in StaffSockets :
              HandleAccept(t, c) \/ HandleReject(t, c) \/ StaffEnds(t, c)
         \/ \E x \in Sockets : Relay(x, c)
  PROVE  TypeOK'
<1> USE DEF TypeOK, clients, presence, redis
<1>1. CASE GuestEnds(c)
  <2>1. pageSock[c] \in Sockets
    BY <1>1 DEF GuestEnds, Sockets
  <2> QED
    BY <1>1, <2>1, HandleEndType DEF GuestEnds
<1>2. ASSUME NEW t \in StaffSockets, HandleAccept(t, c) PROVE TypeOK'
  <2>1. {Msg(activeCalls[c].caller, "call:accepted", c),
         Msg(t, "call:accepted", c)} \subseteq Message
    BY <1>2, ActiveCallType DEF HandleAccept, Msg, Message, Sockets, Events
  <2>2. emitted' \subseteq Message
    BY <1>2, <2>1, EmitType DEF HandleAccept
  <2>3. activeCalls' \in [Calls -> CallState \cup {NoCall}]
    BY <1>2, ActiveCallType DEF HandleAccept, CallState
  <2> QED
    BY <1>2, <2>2, <2>3 DEF HandleAccept
<1>3. ASSUME NEW t \in StaffSockets, HandleReject(t, c) PROVE TypeOK'
  <2>1. {Msg(activeCalls[c].caller, "call:rejected", c)} \subseteq Message
    BY <1>3, ActiveCallType DEF HandleReject, Msg, Message, Sockets, Events
  <2>2. emitted' \subseteq Message
    BY <1>3, <2>1, EmitType DEF HandleReject
  <2>3. callLog' \in [Calls -> [Outcomes -> Nat]]
    BY <1>3, LogRowEffect DEF HandleReject, EndCall, Outcomes, Completions
  <2> QED
    BY <1>3, <2>2, <2>3 DEF HandleReject, EndCall
<1>4. ASSUME NEW t \in StaffSockets, StaffEnds(t, c) PROVE TypeOK'
  BY <1>4, HandleEndType DEF StaffEnds, Sockets
<1>5. ASSUME NEW x \in Sockets, Relay(x, c) PROVE TypeOK'
  <2>1. {Msg(Peer(x, c), "call:sdp", c)} \subseteq Message
    BY <1>5, ActiveCallType DEF Relay, Peer, Msg, Message, Sockets, Events
  <2> QED
    BY <1>5, <2>1, EmitType DEF Relay
<1> QED
  BY <1>1, <1>2, <1>3, <1>4, <1>5

LEMMA WorldType ==
  ASSUME TypeOK,
         Crash \/ \E g \in Guests : WindowElapses(g) \/ GrantWithdrawn(g)
  PROVE  TypeOK'
<1> USE DEF TypeOK, clients, presence, redis
<1>1. CASE Crash
  BY <1>1, ConstantsAssumption, EmptySeq DEF Crash, Stages
<1>2. ASSUME NEW g \in Guests, WindowElapses(g) PROVE TypeOK'
  BY <1>2, ConstantsAssumption DEF WindowElapses
<1>3. ASSUME NEW g \in Guests, GrantWithdrawn(g) PROVE TypeOK'
  BY <1>3 DEF GrantWithdrawn
<1> QED
  BY <1>1, <1>2, <1>3

----------------------------------------------------------------------------
(* The presence lists *)

Present(d) == {t \in StaffSockets : sock[t] = "up" /\ StaffDept[t] = d}

\* One member of staff comes or goes: only their department's list is another.
LEMMA OneListChanges ==
  ASSUME WellFormed, NEW t \in StaffSockets, NEW v, NEW q,
         sock' = [sock EXCEPT ![t] = v],
         staffMap' = [staffMap EXCEPT ![StaffDept[t]] = q],
         IsInjective(q),
         ToSet(q) = IF v = "up" THEN Present(StaffDept[t]) \cup {t}
                    ELSE Present(StaffDept[t]) \ {t}
  PROVE  PresenceMatchesSockets'
<1>1. StaffDept[t] \in Depts /\ t \in Sockets
  BY ConstantsAssumption DEF Sockets
<1>2. TypeOK
  BY DEF WellFormed
<1> SUFFICES ASSUME NEW e \in Depts
             PROVE  ToSet(staffMap'[e]) = Present(e)' /\ IsInjective(staffMap'[e])
  BY DEF PresenceMatchesSockets, Present
<1>3. CASE e = StaffDept[t]
  <2>1. ToSet(q) = Present(e)'
    BY <1>1, <1>2, <1>3 DEF Present, TypeOK, Sockets
  <2> QED
    BY <1>1, <1>2, <1>3, <2>1 DEF TypeOK
<1>4. CASE e # StaffDept[t]
  <2>1. Present(e)' = Present(e)
    BY <1>1, <1>2, <1>4 DEF Present, TypeOK, Sockets
  <2>2. staffMap'[e] = staffMap[e]
    BY <1>2, <1>4 DEF TypeOK
  <2> QED
    BY <2>1, <2>2 DEF WellFormed, PresenceMatchesSockets, Present
<1> QED
  BY <1>3, <1>4

LEMMA StaffConnectionWellFormed ==
  ASSUME WellFormed, NEW t \in StaffSockets, ConnectStaff(t) \/ DisconnectStaff(t)
  PROVE  WellFormed'
<1> DEFINE d == StaffDept[t]
<1>1. d \in Depts /\ t \in Sockets
  BY ConstantsAssumption DEF Sockets
<1>2. /\ TypeOK /\ staffMap[d] \in Seq(StaffSockets)
      /\ IsInjective(staffMap[d]) /\ ToSet(staffMap[d]) = Present(d)
  BY <1>1 DEF WellFormed, TypeOK, PresenceMatchesSockets, Present
<1>3. CASE ConnectStaff(t)
  <2>1. t \notin Present(d)
    BY <1>3 DEF ConnectStaff, Present
  <2>2. /\ Append(staffMap[d], t) \in Seq(StaffSockets)
        /\ ToSet(Append(staffMap[d], t)) = Present(d) \cup {t}
        /\ IsInjective(Append(staffMap[d], t))
    BY <1>2, <2>1, AppendDistinct
  <2>3. TypeOK'
    BY <1>1, <1>2, <1>3, <2>2 DEF ConnectStaff, TypeOK, redis
  <2> QED
    BY <1>3, <2>2, <2>3, OneListChanges DEF ConnectStaff, WellFormed
<1>4. CASE DisconnectStaff(t)
  <2>1. t \in Present(d)
    BY <1>4 DEF DisconnectStaff, Present
  <2>2. /\ RemoveFirst(staffMap[d], t) \in Seq(StaffSockets)
        /\ ToSet(RemoveFirst(staffMap[d], t)) = Present(d) \ {t}
        /\ IsInjective(RemoveFirst(staffMap[d], t))
    BY <1>2, <2>1, RemoveFirstDistinct
  <2>3. TypeOK'
    BY <1>1, <1>2, <1>4, <2>2 DEF DisconnectStaff, TypeOK, redis
  <2> QED
    BY <1>4, <2>2, <2>3, OneListChanges DEF DisconnectStaff, WellFormed
<1> QED
  BY <1>3, <1>4

LEMMA GuestConnectionWellFormed ==
  ASSUME WellFormed, NEW s \in GuestSockets, ConnectGuest(s) \/ DisconnectGuest(s)
  PROVE  WellFormed'
<1>1. /\ Caller(s) \in Guests /\ PageOf[s] \in Calls /\ s \in Sockets
      /\ s \notin StaffSockets
  BY ConstantsAssumption DEF Caller, Sockets
<1> USE DEF WellFormed, TypeOK, redis, Stages
<1>2. CASE ConnectGuest(s)
  BY <1>1, <1>2 DEF ConnectGuest, PresenceMatchesSockets, Sockets
<1>3. CASE DisconnectGuest(s)
  BY <1>1, <1>3 DEF DisconnectGuest, PresenceMatchesSockets, Sockets
<1> QED
  BY <1>2, <1>3

LEMMA CrashPresence ==
  ASSUME WellFormed, Crash
  PROVE  PresenceMatchesSockets'
<1>1. \A d \in Depts : staffMap'[d] = <<>>
  BY DEF Crash
<1>2. \A t \in StaffSockets : sock'[t] # "up"
  BY DEF Crash, Sockets
<1>3. ToSet(<<>>) = {} /\ IsInjective(<<>>)
  BY DEF ToSet, IsInjective
<1> QED
  BY <1>1, <1>2, <1>3 DEF PresenceMatchesSockets

LEMMA WellFormedStep == WellFormed /\ [Next]_vars => WellFormed'
<1> SUFFICES ASSUME WellFormed, [Next]_vars PROVE WellFormed'
  OBVIOUS
<1> TypeOK /\ PresenceMatchesSockets
  BY DEF WellFormed
<1> USE DEF clients, presence, redis
<1>1. ASSUME UNCHANGED <<sock, staffMap>> PROVE PresenceMatchesSockets'
  BY <1>1 DEF PresenceMatchesSockets
<1>2. ASSUME NEW s \in GuestSockets, InitiateStep(s) PROVE WellFormed'
  <2>1. UNCHANGED <<sock, staffMap>>
    BY <1>2 DEF InitiateStep, HandleInitiate, PrivilegeReply, RateIncr,
                RateExpire, RateRefused, RouteCall, NoStaffAvailable
  <2> QED
    BY <1>1, <1>2, <2>1, InitiateType DEF WellFormed
<1>3. ASSUME NEW c \in Calls,
             \/ GuestEnds(c)
             \/ \E t \in StaffSockets :
                  HandleAccept(t, c) \/ HandleReject(t, c) \/ StaffEnds(t, c)
             \/ \E x \in Sockets : Relay(x, c)
      PROVE  WellFormed'
  <2>1. UNCHANGED <<sock, staffMap>>
    BY <1>3 DEF GuestEnds, HandleAccept, HandleReject, StaffEnds, Relay
  <2> QED
    BY <1>1, <1>3, <2>1, CallEventsType DEF WellFormed
<1>4. ASSUME NEW g \in Guests, WindowElapses(g) \/ GrantWithdrawn(g)
      PROVE  WellFormed'
  <2>1. UNCHANGED <<sock, staffMap>>
    BY <1>4 DEF WindowElapses, GrantWithdrawn
  <2> QED
    BY <1>1, <1>4, <2>1, WorldType DEF WellFormed
<1>5. CASE Crash
  BY <1>5, WorldType, CrashPresence DEF WellFormed
<1>6. CASE UNCHANGED vars
  BY <1>6 DEF WellFormed, TypeOK, PresenceMatchesSockets, vars
<1> QED
  BY <1>2, <1>3, <1>4, <1>5, <1>6, StaffConnectionWellFormed,
     GuestConnectionWellFormed DEF Next

\* The state keeps its shape and the presence lists stay exact, through
\* connections, disconnections and restarts.
THEOREM AlwaysWellFormed == Spec => []WellFormed
<1>1. Init => WellFormed
  BY InitWellFormed
<1>2. WellFormed /\ [Next]_vars => WellFormed'
  BY WellFormedStep
<1> QED
  BY <1>1, <1>2, PTL DEF Spec

\* The server's maps, Redis keys and messages stay of their types.
THEOREM TypeCorrect == Spec => []TypeOK
  BY AlwaysWellFormed, PTL DEF WellFormed

----------------------------------------------------------------------------
(* The calls *)

\* The calls of the map, the messages and the call log, together: each
\* conjunct leans on the others and on the presence lists.
CallInv == CalleeWasRung /\ AnsweredByCallee /\ LogBalance

\* What holds of one call.
CallOK(c) ==
  /\ IsActive(c) =>
       /\ PageOf[activeCalls[c].caller] = c
       /\ StaffDept[activeCalls[c].callee] = DeptOf[c]
       /\ Got(activeCalls[c].callee, "call:incoming", c)
  /\ activeCalls[c].answered => Got(activeCalls[c].callee, "call:accepted", c)
  /\ callLog[c]["ANSWERED"] > 0 => \E t \in StaffSockets : Got(t, "call:accepted", c)
  /\ Completed(c) + (IF IsActive(c) THEN 1 ELSE 0) <= callLog[c]["INITIATED"]

LEMMA CallInvIsPointwise ==
  /\ CallInv <=> \A c \in Calls : CallOK(c)
  /\ CallInv' <=> \A c \in Calls : CallOK(c)'
  BY DEF CallInv, CalleeWasRung, AnsweredByCallee, LogBalance, CallOK

\* A call whose entry and rows a step leaves alone stays as it was, for no
\* message is ever taken back.
LEMMA UntouchedCall ==
  ASSUME NEW c \in Calls, CallOK(c), emitted \subseteq emitted',
         activeCalls'[c] = activeCalls[c],
         \A o \in Outcomes : callLog'[c][o] = callLog[c][o]
  PROVE  CallOK(c)'
<1>1. Completed(c)' = Completed(c)
  BY DEF Completed, Outcomes, Completions
<1>2. callLog'[c]["ANSWERED"] = callLog[c]["ANSWERED"]
      /\ callLog'[c]["INITIATED"] = callLog[c]["INITIATED"]
  BY DEF Outcomes, Completions
<1>3. \A x, e : Got(x, e, c) => Got(x, e, c)'
  BY DEF Got, Msg
<1> QED
  BY <1>1, <1>2, <1>3 DEF CallOK, IsActive

LEMMA InitCallInv == Init => CallInv
<1> SUFFICES ASSUME Init, NEW c \in Calls PROVE CallOK(c)
  BY CallInvIsPointwise
<1>1. activeCalls[c] = NoCall /\ \A o \in Outcomes : callLog[c][o] = 0
  BY DEF Init
<1> QED
  BY <1>1 DEF CallOK, IsActive, NoCall, Completed, Outcomes, Completions

LEMMA RouteCallOK ==
  ASSUME WellFormed, NEW s \in GuestSockets, CallOK(PageOf[s]), RouteCall(s)
  PROVE  CallOK(PageOf[s])'
<1> DEFINE c == PageOf[s]
           d == DeptOf[c]
           t == Selected(d)
<1>1. TypeOK /\ c \in Calls /\ d \in Depts
  BY ConstantsAssumption DEF WellFormed
<1>2. t \in ToSet(staffMap[d]) /\ t \in StaffSockets
  BY <1>1, SelectedIsListed DEF RouteCall
<1>3. sock[t] = "up" /\ StaffDept[t] = d
  BY <1>1, <1>2 DEF WellFormed, PresenceMatchesSockets
<1>4. activeCalls'[c] = [caller |-> s, callee |-> t, answered |-> FALSE]
  BY <1>1 DEF RouteCall, TypeOK
<1>5. emitted \subseteq emitted' /\ Msg(t, "call:incoming", c) \in emitted'
  BY <1>3 DEF RouteCall, Emit, Msg
<1>6. \A o \in Outcomes :
        callLog'[c][o] = callLog[c][o] + (IF o = "INITIATED" THEN 1 ELSE 0)
  BY <1>1, LogRowEffect DEF RouteCall, Outcomes
<1>7. \A o \in Outcomes : callLog[c][o] \in Nat
  BY <1>1 DEF TypeOK
<1>8. /\ Completed(c)' = Completed(c) /\ Completed(c) \in Nat
      /\ callLog'[c]["INITIATED"] = callLog[c]["INITIATED"] + 1
      /\ callLog[c]["INITIATED"] \in Nat
      /\ callLog'[c]["ANSWERED"] = callLog[c]["ANSWERED"]
  BY <1>6, <1>7 DEF Completed, Outcomes, Completions
<1>9. Completed(c) <= callLog[c]["INITIATED"]
  BY <1>8 DEF CallOK
<1>10. \A x, e : Got(x, e, c) => Got(x, e, c)'
  BY <1>5 DEF Got, Msg
<1> QED
  BY <1>3, <1>4, <1>5, <1>8, <1>9, <1>10 DEF CallOK, IsActive, Got, Msg

\* endCall closes the call it is given, with one row; the row says ANSWERED
\* only where the entry was answered.
LEMMA EndCallOK ==
  ASSUME TypeOK, NEW c \in Calls, NEW o \in Completions, CallOK(c), IsActive(c),
         EndCall(c, o), o = "ANSWERED" => activeCalls[c].answered,
         emitted \subseteq emitted'
  PROVE  CallOK(c)'
<1>1. activeCalls'[c] = NoCall
  BY DEF EndCall, TypeOK
<1>2. \A p \in Outcomes :
        callLog'[c][p] = callLog[c][p] + (IF p = o THEN 1 ELSE 0)
  BY LogRowEffect DEF EndCall, Outcomes
<1>3. \A p \in Outcomes : callLog[c][p] \in Nat
  BY DEF TypeOK
<1>4. /\ Completed(c)' = Completed(c) + 1 /\ Completed(c) \in Nat
      /\ callLog'[c]["INITIATED"] = callLog[c]["INITIATED"]
      /\ callLog[c]["INITIATED"] \in Nat
  BY <1>2, <1>3 DEF Completed, Outcomes, Completions
<1>5. Completed(c) + 1 <= callLog[c]["INITIATED"]
  BY DEF CallOK
<1>6. \A x, e : Got(x, e, c) => Got(x, e, c)'
  BY DEF Got, Msg
<1>7. ASSUME callLog'[c]["ANSWERED"] > 0
      PROVE  \E t \in StaffSockets : Got(t, "call:accepted", c)'
  <2>1. CASE o = "ANSWERED"
    BY <1>6, <2>1, ActiveCallType DEF CallOK
  <2>2. CASE o # "ANSWERED"
    BY <1>2, <1>3, <1>6, <1>7, <2>2 DEF CallOK, Outcomes, Completions
  <2> QED
    BY <2>1, <2>2
<1> QED
  BY <1>1, <1>4, <1>5, <1>7 DEF CallOK, IsActive, NoCall

LEMMA AcceptCallOK ==
  ASSUME TypeOK, NEW t \in StaffSockets, NEW c \in Calls, CallOK(c), HandleAccept(t, c)
  PROVE  CallOK(c)'
<1>1. activeCalls'[c] = [caller |-> activeCalls[c].caller, callee |-> t, answered |-> TRUE]
  BY DEF HandleAccept, TypeOK
<1>2. emitted \subseteq emitted' /\ Msg(t, "call:accepted", c) \in emitted'
  BY DEF HandleAccept, Emit, Msg
<1>3. \A x, e : Got(x, e, c) => Got(x, e, c)'
  BY <1>2 DEF Got, Msg
<1>4. /\ IsActive(c) /\ activeCalls[c].callee = t /\ callLog' = callLog
      /\ IsActive(c)'
  BY <1>1 DEF HandleAccept, IsActive, NoCall
<1>5. Completed(c)' = Completed(c)
  BY <1>4 DEF Completed
<1> QED
  BY <1>1, <1>2, <1>3, <1>4, <1>5 DEF CallOK, Got, Msg

\* What call:end does to the call it names.
LEMMA HandleEndOK ==
  ASSUME TypeOK, NEW x \in Sockets, NEW c \in Calls, CallOK(c), HandleEnd(x, c)
  PROVE  CallOK(c)'
<1>1. emitted \subseteq emitted'
  BY DEF HandleEnd, Emit
<1>2. CASE IsActive(c)
  <2>1. PICK o \in Completions :
          EndCall(c, o) /\ (o = "ANSWERED" => activeCalls[c].answered)
    BY <1>2 DEF HandleEnd, Completions
  <2> QED
    BY <1>1, <1>2, <2>1, EndCallOK
<1>3. CASE ~IsActive(c)
  BY <1>3, UntouchedCall DEF HandleEnd
<1> QED
  BY <1>2, <1>3

\* A step touches the entry and the rows of at most the call it is about.
LEMMA OtherCallsUntouched ==
  ASSUME TypeOK, NEW c \in Calls, NEW b \in Calls, b # c,
         \/ \E s \in GuestSockets : PageOf[s] = c /\ RouteCall(s)
         \/ \E t \in StaffSockets : HandleAccept(t, c) \/ HandleReject(t, c)
         \/ \E x \in Sockets : HandleEnd(x, c)
  PROVE  /\ activeCalls'[b] = activeCalls[b]
         /\ \A o \in Outcomes : callLog'[b][o] = callLog[b][o]
         /\ emitted \subseteq emitted'
<1>1. emitted \subseteq emitted'
  BY DEF RouteCall, HandleAccept, HandleReject, HandleEnd, Emit
<1>2. activeCalls'[b] = activeCalls[b]
  <2>1. ASSUME NEW s \in GuestSockets, PageOf[s] = c, RouteCall(s)
        PROVE  activeCalls'[b] = activeCalls[b]
    BY <2>1 DEF TypeOK, RouteCall
  <2>2. ASSUME NEW t \in StaffSockets, HandleAccept(t, c) \/ HandleReject(t, c)
        PROVE  activeCalls'[b] = activeCalls[b]
    BY <2>2 DEF TypeOK, HandleAccept, HandleReject, EndCall
  <2>3. ASSUME NEW x \in Sockets, HandleEnd(x, c)
        PROVE  activeCalls'[b] = activeCalls[b]
    BY <2>3 DEF TypeOK, HandleEnd, EndCall
  <2> QED
    BY <2>1, <2>2, <2>3
<1>3. callLog' = callLog \/ \E o \in Outcomes : LogRow(c, o)
  <2>1. ASSUME NEW x \in Sockets, HandleEnd(x, c)
        PROVE  callLog' = callLog \/ \E o \in Outcomes : LogRow(c, o)
    <3>1. \/ callLog' = callLog
          \/ LogRow(c, "ANSWERED") \/ LogRow(c, "MISSED")
      BY <2>1 DEF HandleEnd, EndCall
    <3> QED
      BY <3>1 DEF Outcomes, Completions
  <2> QED
    BY <2>1 DEF RouteCall, HandleAccept, HandleReject, EndCall, Outcomes, Completions
<1>4. \A o \in Outcomes : callLog'[b][o] = callLog[b][o]
  BY <1>3 DEF TypeOK, LogRow
<1> QED
  BY <1>1, <1>2, <1>4

\* A call at a time: the one the step is about, and the others.
LEMMA CallStepOK ==
  ASSUME WellFormed, CallInv, NEW c \in Calls,
         \/ \E s \in GuestSockets : PageOf[s] = c /\ RouteCall(s)
         \/ \E t \in StaffSockets : HandleAccept(t, c) \/ HandleReject(t, c)
         \/ \E x \in Sockets : HandleEnd(x, c)
  PROVE  CallInv'
<1>1. TypeOK /\ \A b \in Calls : CallOK(b)
  BY CallInvIsPointwise DEF WellFormed
<1>2. CallOK(c)'
  <2>1. ASSUME NEW t \in StaffSockets, HandleReject(t, c) PROVE CallOK(c)'
    <3>1. emitted \subseteq emitted' /\ EndCall(c, "REJECTED") /\ IsActive(c)
      BY <2>1 DEF HandleReject, Emit
    <3> QED
      BY <1>1, <3>1, EndCallOK DEF Completions
  <2> QED
    BY <1>1, <2>1, RouteCallOK, AcceptCallOK, HandleEndOK
<1>3. ASSUME NEW b \in Calls, b # c PROVE CallOK(b)'
  BY <1>1, <1>3, OtherCallsUntouched, UntouchedCall
<1>4. \A b \in Calls : CallOK(b)'
  BY <1>2, <1>3
<1> QED
  BY <1>4, CallInvIsPointwise

LEMMA QuietStep ==
  ASSUME CallInv, UNCHANGED <<activeCalls, callLog>>, emitted \subseteq emitted'
  PROVE  CallInv'
<1>1. \A c \in Calls : CallOK(c)
  BY CallInvIsPointwise
<1>2. \A c \in Calls : CallOK(c)'
  BY <1>1, UntouchedCall
<1> QED
  BY <1>2, CallInvIsPointwise

LEMMA CrashCallInv ==
  ASSUME TypeOK, CallInv, Crash
  PROVE  CallInv'
<1>1. \A c \in Calls : CallOK(c)
  BY CallInvIsPointwise
<1>2. ASSUME NEW c \in Calls PROVE CallOK(c)'
  <2>1. activeCalls'[c] = NoCall /\ UNCHANGED <<callLog, emitted>>
    BY DEF Crash
  <2>2. /\ Completed(c)' = Completed(c) /\ Completed(c) \in Nat
        /\ Completed(c) <= callLog[c]["INITIATED"]
        /\ callLog[c]["INITIATED"] \in Nat
    <3>1. \A o \in Outcomes : callLog[c][o] \in Nat /\ callLog'[c][o] = callLog[c][o]
      BY <2>1 DEF TypeOK
    <3>2. /\ Completed(c)' = Completed(c) /\ Completed(c) \in Nat
          /\ callLog[c]["INITIATED"] \in Nat
      BY <3>1 DEF Completed, Outcomes, Completions
    <3> QED
      BY <1>1, <3>2 DEF CallOK
  <2> QED
    BY <1>1, <2>1, <2>2 DEF CallOK, IsActive, NoCall, Got
<1> QED
  BY <1>2, CallInvIsPointwise

LEMMA CallInvStep == WellFormed /\ CallInv /\ [Next]_vars => CallInv'
<1> SUFFICES ASSUME WellFormed, CallInv, [Next]_vars PROVE CallInv'
  OBVIOUS
<1>1. ASSUME NEW s \in GuestSockets, InitiateStep(s) PROVE CallInv'
  <2>1. CASE RouteCall(s)
    <3>1. PageOf[s] \in Calls
      BY ConstantsAssumption
    <3> QED
      BY <2>1, <3>1, CallStepOK
  <2>2. CASE ~RouteCall(s)
    BY <1>1, <2>2, QuietStep
    DEF InitiateStep, HandleInitiate, PrivilegeReply, RateIncr, RateExpire,
        RateRefused, NoStaffAvailable, Refuse, Emit
  <2> QED
    BY <2>1, <2>2
<1>2. ASSUME NEW s \in GuestSockets, ConnectGuest(s) \/ DisconnectGuest(s)
      PROVE  CallInv'
  BY <1>2, QuietStep DEF ConnectGuest, DisconnectGuest
<1>3. ASSUME NEW t \in StaffSockets, ConnectStaff(t) \/ DisconnectStaff(t)
      PROVE  CallInv'
  BY <1>3, QuietStep DEF ConnectStaff, DisconnectStaff
<1>4. ASSUME NEW c \in Calls, GuestEnds(c) PROVE CallInv'
  <2>1. pageSock[c] \in Sockets
    BY <1>4 DEF GuestEnds, WellFormed, TypeOK, Sockets
  <2> QED
    BY <1>4, <2>1, CallStepOK DEF GuestEnds
<1>5. ASSUME NEW t \in StaffSockets, NEW c \in Calls,
             HandleAccept(t, c) \/ HandleReject(t, c) \/ StaffEnds(t, c)
      PROVE  CallInv'
  BY <1>5, CallStepOK DEF StaffEnds, Sockets
<1>6. ASSUME NEW x \in Sockets, NEW c \in Calls, Relay(x, c) PROVE CallInv'
  BY <1>6, QuietStep DEF Relay, Emit
<1>7. ASSUME NEW g \in Guests, WindowElapses(g) \/ GrantWithdrawn(g)
      PROVE  CallInv'
  BY <1>7, QuietStep DEF WindowElapses, GrantWithdrawn
<1>8. CASE Crash
  BY <1>8, CrashCallInv DEF WellFormed
<1>9. CASE UNCHANGED vars
  BY <1>9, QuietStep DEF vars
<1> QED
  BY <1>1, <1>2, <1>3, <1>4, <1>5, <1>6, <1>7, <1>8, <1>9 DEF Next

\* Routing, answering and logging of calls stay consistent: the inductive
\* invariant behind the three theorems below.
THEOREM CallsAreSound == Spec => []CallInv
<1>1. Init => CallInv
  BY InitCallInv
<1>2. WellFormed /\ CallInv /\ [Next]_vars => CallInv'
  BY CallInvStep
<1> QED
  BY <1>1, <1>2, AlwaysWellFormed, PTL DEF Spec

\* A call in the map rang a member of staff of the department it was for.
THEOREM CalleesAreRung == Spec => []CalleeWasRung
  BY CallsAreSound, PTL DEF CallInv

\* An answered call was answered by its present callee.
THEOREM AnswersAreCallees == Spec => []AnsweredByCallee
  BY CallsAreSound, PTL DEF CallInv

\* No call is completed in the log more often than it was routed.
THEOREM LogIsBalanced == Spec => []LogBalance
  BY CallsAreSound, PTL DEF CallInv

\* The round robin draws from exactly the connected staff.
THEOREM PresenceIsExact == Spec => []PresenceMatchesSockets
  BY AlwaysWellFormed, PTL DEF WellFormed

----------------------------------------------------------------------------
(* Completion rows *)

\* The step part of CompletionLoggedOnce, for one call.
RowsMatch(c) ==
  /\ (IsActive(c) /\ ~IsActive(c)') <=> Completed(c)' # Completed(c)
  /\ Completed(c)' \in {Completed(c), Completed(c) + 1}
  /\ callLog'[c]["ANSWERED"] # callLog[c]["ANSWERED"] => activeCalls[c].answered
  /\ callLog'[c]["MISSED"] # callLog[c]["MISSED"] => ~activeCalls[c].answered

LEMMA NoRowsMatch ==
  ASSUME NEW c \in Calls, IsActive(c) => IsActive(c)',
         \A o \in Completions : callLog'[c][o] = callLog[c][o]
  PROVE  RowsMatch(c)
  BY DEF RowsMatch, Completed, Completions

LEMMA EndCallRowsMatch ==
  ASSUME TypeOK, NEW c \in Calls, NEW o \in Completions, IsActive(c), EndCall(c, o),
         o = "ANSWERED" => activeCalls[c].answered,
         o = "MISSED" => ~activeCalls[c].answered
  PROVE  RowsMatch(c)
<1>1. ~IsActive(c)'
  BY DEF EndCall, TypeOK, IsActive
<1>2. \A p \in Completions :
        /\ callLog[c][p] \in Nat
        /\ callLog'[c][p] = callLog[c][p] + (IF p = o THEN 1 ELSE 0)
  <2>1. o \in Outcomes /\ Completions \subseteq Outcomes
    BY DEF Outcomes
  <2>2. LogRow(c, o)
    BY DEF EndCall
  <2>3. ASSUME NEW p \in Completions
        PROVE  callLog'[c][p] = callLog[c][p] + (IF p = o THEN 1 ELSE 0)
    BY <2>1, <2>2, LogRowEffect
  <2>4. \A p \in Outcomes : callLog[c][p] \in Nat
    BY DEF TypeOK
  <2> QED
    BY <2>1, <2>3, <2>4
<1>3. Completed(c)' = Completed(c) + 1 /\ Completed(c) \in Nat
  BY <1>2 DEF Completed, Completions
<1> QED
  BY <1>1, <1>2, <1>3 DEF RowsMatch, Completions

LEMMA CallStepRowsMatch ==
  ASSUME TypeOK, NEW c \in Calls, NEW b \in Calls,
         \/ \E s \in GuestSockets : PageOf[s] = c /\ RouteCall(s)
         \/ \E t \in StaffSockets : HandleAccept(t, c) \/ HandleReject(t, c)
         \/ \E x \in Sockets : HandleEnd(x, c)
  PROVE  RowsMatch(b)
<1>1. CASE b # c
  BY <1>1, OtherCallsUntouched, NoRowsMatch DEF IsActive, Outcomes
<1>2. ASSUME b = c, NEW s \in GuestSockets, PageOf[s] = c, RouteCall(s)
      PROVE  RowsMatch(c)
  <2>1. IsActive(c)'
    BY <1>2, ConstantsAssumption DEF RouteCall, TypeOK, IsActive, NoCall
  <2>2. LogRow(c, "INITIATED")
    BY <1>2 DEF RouteCall
  <2>3. "INITIATED" \in Outcomes /\ Completions \subseteq Outcomes
    BY DEF Outcomes
  <2>4. ASSUME NEW o \in Completions PROVE callLog'[c][o] = callLog[c][o]
    <3>1. callLog'[c][o] = callLog[c][o] + (IF o = "INITIATED" THEN 1 ELSE 0)
      BY <2>2, <2>3, LogRowEffect
    <3>2. o # "INITIATED"
      BY DEF Completions
    <3>3. callLog[c][o] \in Nat
      BY <2>3 DEF TypeOK
    <3> QED
      BY <3>1, <3>2, <3>3
  <2> QED
    BY <2>1, <2>4, NoRowsMatch
<1>3. ASSUME b = c, NEW t \in StaffSockets, HandleAccept(t, c)
      PROVE  RowsMatch(c)
  <2>1. IsActive(c)' /\ callLog' = callLog
    BY <1>3 DEF HandleAccept, TypeOK, IsActive, NoCall
  <2> QED
    BY <2>1, NoRowsMatch
<1>4. ASSUME b = c, NEW t \in StaffSockets, HandleReject(t, c)
      PROVE  RowsMatch(c)
  BY <1>4, EndCallRowsMatch DEF HandleReject, Completions
<1>5. ASSUME b = c, NEW x \in Sockets, HandleEnd(x, c)
      PROVE  RowsMatch(c)
  <2>1. CASE IsActive(c)
    <3>1. CASE activeCalls[c].answered
      BY <1>5, <2>1, <3>1, EndCallRowsMatch DEF HandleEnd, Completions
    <3>2. CASE ~activeCalls[c].answered
      BY <1>5, <2>1, <3>2, EndCallRowsMatch DEF HandleEnd, Completions
    <3> QED
      BY <3>1, <3>2
  <2>2. CASE ~IsActive(c)
    BY <1>5, <2>2, NoRowsMatch DEF HandleEnd
  <2> QED
    BY <2>1, <2>2
<1> QED
  BY <1>1, <1>2, <1>3, <1>4, <1>5

LEMMA RowsMatchStep ==
  ASSUME TypeOK, [Next]_vars, crashes' = crashes, NEW b \in Calls
  PROVE  RowsMatch(b)
<1>1. ASSUME UNCHANGED <<activeCalls, callLog>> PROVE RowsMatch(b)
  BY <1>1, NoRowsMatch DEF IsActive
<1>2. ASSUME NEW s \in GuestSockets, InitiateStep(s) PROVE RowsMatch(b)
  <2>1. CASE RouteCall(s)
    <3>1. PageOf[s] \in Calls
      BY ConstantsAssumption
    <3> QED
      BY <2>1, <3>1, CallStepRowsMatch
  <2>2. CASE ~RouteCall(s)
    BY <1>1, <1>2, <2>2
    DEF InitiateStep, HandleInitiate, PrivilegeReply, RateIncr, RateExpire,
        RateRefused, NoStaffAvailable
  <2> QED
    BY <2>1, <2>2
<1>3. ASSUME NEW s \in GuestSockets, ConnectGuest(s) \/ DisconnectGuest(s)
      PROVE  RowsMatch(b)
  BY <1>1, <1>3 DEF ConnectGuest, DisconnectGuest
<1>4. ASSUME NEW t \in StaffSockets, ConnectStaff(t) \/ DisconnectStaff(t)
      PROVE  RowsMatch(b)
  BY <1>1, <1>4 DEF ConnectStaff, DisconnectStaff
<1>5. ASSUME NEW c \in Calls, GuestEnds(c) PROVE RowsMatch(b)
  <2>1. pageSock[c] \in Sockets
    BY <1>5 DEF GuestEnds, TypeOK, Sockets
  <2> QED
    BY <1>5, <2>1, CallStepRowsMatch DEF GuestEnds
<1>6. ASSUME NEW t \in StaffSockets, NEW c \in Calls,
             HandleAccept(t, c) \/ HandleReject(t, c) \/ StaffEnds(t, c)
      PROVE  RowsMatch(b)
  BY <1>6, CallStepRowsMatch DEF StaffEnds, Sockets
<1>7. ASSUME NEW x \in Sockets, NEW c \in Calls, Relay(x, c) PROVE RowsMatch(b)
  BY <1>1, <1>7 DEF Relay
<1>8. ASSUME NEW g \in Guests, WindowElapses(g) \/ GrantWithdrawn(g)
      PROVE  RowsMatch(b)
  BY <1>1, <1>8 DEF WindowElapses, GrantWithdrawn
<1>9. ~Crash
  BY DEF Crash, TypeOK
<1>10. CASE UNCHANGED vars
  BY <1>1, <1>10 DEF vars
<1> QED
  BY <1>2, <1>3, <1>4, <1>5, <1>6, <1>7, <1>8, <1>9, <1>10 DEF Next

\* While the server stays up a call leaves the map exactly when its one
\* completion row is posted, and the row agrees with the entry.
THEOREM CompletionsAreLogged == Spec => CompletionLoggedOnce
<1>1. TypeOK /\ [Next]_vars =>
        [\A c \in Calls : crashes' = crashes => RowsMatch(c)]_vars
  BY RowsMatchStep
<1>2. TypeOK /\ [Next]_vars =>
        [\A c \in Calls : crashes' = crashes =>
           /\ (IsActive(c) /\ ~IsActive(c)') <=> Completed(c)' # Completed(c)
           /\ Completed(c)' \in {Completed(c), Completed(c) + 1}
           /\ callLog'[c]["ANSWERED"] # callLog[c]["ANSWERED"] => activeCalls[c].answered
           /\ callLog'[c]["MISSED"] # callLog[c]["MISSED"] => ~activeCalls[c].answered
        ]_vars
  BY <1>1 DEF RowsMatch
<1> QED
  BY <1>2, TypeCorrect, PTL DEF Spec, CompletionLoggedOnce

----------------------------------------------------------------------------
(* The rate window *)

\* A socket that never connected has started no call:initiate: connecting
\* one cannot undo another's pending EXPIRE.
FreshIsIdle == \A s \in GuestSockets : sock[s] = "fresh" => stage[s] = "none"

LEMMA FreshIsIdleStep == TypeOK /\ FreshIsIdle /\ [Next]_vars => FreshIsIdle'
<1> SUFFICES ASSUME TypeOK, FreshIsIdle, [Next]_vars,
                    NEW r \in GuestSockets, sock'[r] = "fresh"
             PROVE  stage'[r] = "none"
  BY DEF FreshIsIdle
<1>1. ASSUME sock'[r] = sock[r], stage'[r] = stage[r] PROVE stage'[r] = "none"
  BY <1>1 DEF FreshIsIdle
<1>2. r \in Sockets
  BY DEF Sockets
<1>3. ASSUME NEW s \in GuestSockets, InitiateStep(s) PROVE stage'[r] = "none"
  <2>1. stage[s] # "none" /\ sock' = sock
    BY <1>3 DEF InitiateStep, HandleInitiate, PrivilegeReply, RateIncr, RateExpire,
                RateRefused, RouteCall, NoStaffAvailable, clients
  <2>2. stage[r] = "none"
    BY <2>1 DEF FreshIsIdle
  <2>3. \E v : stage' = [stage EXCEPT ![s] = v]
    BY <1>3 DEF InitiateStep, HandleInitiate, PrivilegeReply, RateIncr, RateExpire,
                RateRefused, RouteCall, NoStaffAvailable, Refuse
  <2> QED
    BY <2>1, <2>2, <2>3 DEF TypeOK
<1>4. ASSUME NEW s \in GuestSockets, ConnectGuest(s) \/ DisconnectGuest(s)
      PROVE  stage'[r] = "none"
  BY <1>2, <1>4 DEF ConnectGuest, DisconnectGuest, TypeOK, FreshIsIdle, Sockets
<1>5. ASSUME NEW t \in StaffSockets, ConnectStaff(t) \/ DisconnectStaff(t)
      PROVE  stage'[r] = "none"
  <2>1. t # r
    BY ConstantsAssumption
  <2> QED
    BY <1>1, <1>2, <1>5, <2>1 DEF ConnectStaff, DisconnectStaff, TypeOK
<1>6. CASE Crash
  BY <1>2, <1>6 DEF Crash, FreshIsIdle, TypeOK
<1>7. ASSUME UNCHANGED <<sock, stage>> PROVE stage'[r] = "none"
  BY <1>1, <1>7
<1> QED
  BY <1>3, <1>4, <1>5, <1>6, <1>7
  DEF Next, GuestEnds, HandleAccept, HandleReject, StaffEnds, Relay,
      WindowElapses, GrantWithdrawn, vars, clients

\* Only RateIncr, RateExpire and the end of a window touch the counters and
\* the sockets that are about to send EXPIRE.
LEMMA LimiterStep ==
  ASSUME MaxCrashes = 0, TypeOK, FreshIsIdle, [Next]_vars
  PROVE  \/ \E s \in GuestSockets : RateIncr(s) \/ RateExpire(s)
         \/ \E g \in Guests : WindowElapses(g)
         \/ /\ UNCHANGED redis
            /\ \A r \in GuestSockets : stage'[r] = "expire" <=> stage[r] = "expire"
<1> DEFINE Quiet == /\ UNCHANGED redis
                    /\ \A r \in GuestSockets :
                         stage'[r] = "expire" <=> stage[r] = "expire"
<1>1. ASSUME NEW s \in GuestSockets, InitiateStep(s), ~RateIncr(s), ~RateExpire(s)
      PROVE  Quiet
  BY <1>1 DEF InitiateStep, HandleInitiate, PrivilegeReply, RateRefused, RouteCall,
              NoStaffAvailable, Refuse, TypeOK
<1>2. ASSUME NEW s \in GuestSockets, ConnectGuest(s) \/ DisconnectGuest(s)
      PROVE  Quiet
  <2>1. UNCHANGED redis
    BY <1>2 DEF ConnectGuest, DisconnectGuest
  <2>2. s \in Sockets
    BY DEF Sockets
  <2>3. stage'[s] = "expire" <=> stage[s] = "expire"
    BY <1>2, <2>2 DEF ConnectGuest, DisconnectGuest, TypeOK, FreshIsIdle
  <2>4. \A r \in GuestSockets \ {s} : stage'[r] = stage[r]
    BY <1>2 DEF ConnectGuest, DisconnectGuest, TypeOK
  <2> QED
    BY <2>1, <2>3, <2>4
<1>3. ~Crash
  BY DEF Crash, TypeOK
<1>4. UNCHANGED <<stage, redis>> => Quiet
  OBVIOUS
<1> QED
  BY <1>1, <1>2, <1>3, <1>4
  DEF Next, ConnectStaff, DisconnectStaff, GuestEnds, HandleAccept, HandleReject,
      StaffEnds, Relay, GrantWithdrawn, vars

\* What makes INCR and EXPIRE one admission: a key has an expiry only when it
\* has a count, and the call that opens a window is the only one about to send
\* EXPIRE.
OneOpener ==
  /\ \A g \in Guests : ttl[g] => count[g] > 0
  /\ \A s \in GuestSockets :
       stage[s] = "expire" => count[Caller(s)] > 0 /\ ~ttl[Caller(s)]
  /\ \A r, s \in GuestSockets :
       stage[r] = "expire" /\ stage[s] = "expire" /\ Caller(r) = Caller(s) => r = s

LimiterInv == FreshIsIdle /\ WindowAlwaysExpires /\ OneOpener

LEMMA CallerIsGuest ==
  ASSUME NEW s \in GuestSockets
  PROVE  Caller(s) \in Guests
  BY ConstantsAssumption DEF Caller

LEMMA RateIncrLimiter ==
  ASSUME TypeOK, LimiterInv, NEW s \in GuestSockets, RateIncr(s)
  PROVE  (WindowAlwaysExpires /\ OneOpener)'
<1> DEFINE h == Caller(s)
<1>1. h \in Guests /\ count[h] \in Nat /\ ttl' = ttl
  BY CallerIsGuest DEF RateIncr, TypeOK
<1>2. \A g \in Guests : count'[g] = IF g = h THEN count[h] + 1 ELSE count[g]
  BY <1>1 DEF RateIncr, TypeOK
<1>3. stage'[s] = "expire" <=> count[h] = 0
  BY <1>1 DEF RateIncr, TypeOK
<1>4. \A r \in GuestSockets \ {s} : stage'[r] = stage[r]
  BY DEF RateIncr, TypeOK
<1>5. stage[s] # "expire"
  BY DEF RateIncr
<1>6. \A r \in GuestSockets : Caller(r)' = Caller(r) /\ Caller(r) \in Guests
  BY CallerIsGuest DEF Caller
<1> HIDE DEF h
<1>7. WindowAlwaysExpires'
  <2> SUFFICES ASSUME NEW g \in Guests, count'[g] > 0, ~ttl'[g]
               PROVE  \E r \in GuestSockets : Caller(r) = g /\ stage'[r] = "expire"
    BY <1>6 DEF WindowAlwaysExpires
  <2>1. CASE g = h /\ count[h] = 0
    BY <1>3, <2>1 DEF h
  <2>2. CASE ~(g = h /\ count[h] = 0)
    <3>1. count[g] > 0 /\ ~ttl[g]
      BY <1>1, <1>2, <2>2
    <3> QED
      BY <1>4, <1>5, <3>1 DEF LimiterInv, WindowAlwaysExpires
  <2> QED
    BY <2>1, <2>2
<1>8. ASSUME NEW r \in GuestSockets, stage'[r] = "expire"
      PROVE  count'[Caller(r)] > 0 /\ ~ttl'[Caller(r)]
  <2>1. CASE r = s
    <3>1. Caller(r) = h /\ count[h] = 0
      BY <1>3, <1>8, <2>1 DEF h
    <3>2. ~ttl[h]
      BY <1>1, <3>1 DEF LimiterInv, OneOpener
    <3> QED
      BY <1>1, <1>2, <3>1, <3>2
  <2>2. CASE r # s
    <3>1. count[Caller(r)] > 0 /\ ~ttl[Caller(r)]
      BY <1>4, <1>8, <2>2 DEF LimiterInv, OneOpener
    <3> QED
      BY <1>1, <1>2, <1>6, <3>1
  <2> QED
    BY <2>1, <2>2
<1>9. \A g \in Guests : ttl'[g] => count'[g] > 0
  BY <1>1, <1>2 DEF LimiterInv, OneOpener
<1>10. ASSUME NEW q \in GuestSockets, NEW r \in GuestSockets,
             stage'[q] = "expire", stage'[r] = "expire", Caller(q) = Caller(r)
      PROVE  q = r
  <2>1. ASSUME NEW u \in GuestSockets, u # s, stage'[u] = "expire", Caller(u) = h
        PROVE  stage'[s] # "expire"
    BY <1>1, <1>3, <1>4, <2>1 DEF LimiterInv, OneOpener
  <2> QED
    BY <1>4, <1>10, <2>1 DEF LimiterInv, OneOpener, h
<1> QED
  BY <1>6, <1>7, <1>8, <1>9, <1>10 DEF OneOpener

LEMMA RateExpireLimiter ==
  ASSUME TypeOK, LimiterInv, NEW s \in GuestSockets, RateExpire(s)
  PROVE  (WindowAlwaysExpires /\ OneOpener)'
<1> DEFINE h == Caller(s)
<1>1. h \in Guests /\ count' = count /\ count[h] > 0
  BY CallerIsGuest DEF RateExpire, LimiterInv, OneOpener
<1>2. \A g \in Guests : ttl'[g] = (IF g = h THEN TRUE ELSE ttl[g])
  BY <1>1 DEF RateExpire, TypeOK
<1>3. stage[s] = "expire" /\ stage'[s] # "expire"
  BY DEF RateExpire, TypeOK
<1>4. \A r \in GuestSockets \ {s} : stage'[r] = stage[r]
  BY DEF RateExpire, TypeOK
<1>5. \A r \in GuestSockets : Caller(r)' = Caller(r) /\ Caller(r) \in Guests
  BY CallerIsGuest DEF Caller
<1>6. \A r \in GuestSockets :
        stage'[r] = "expire" => r # s /\ stage[r] = "expire" /\ Caller(r) # h
  BY <1>3, <1>4 DEF LimiterInv, OneOpener
<1> HIDE DEF h
<1>7. ASSUME NEW g \in Guests, count'[g] > 0, ~ttl'[g]
      PROVE  \E r \in GuestSockets : Caller(r) = g /\ stage'[r] = "expire"
  <2>1. g # h /\ ~ttl[g] /\ count[g] > 0
    BY <1>1, <1>2, <1>7
  <2>2. PICK r \in GuestSockets : Caller(r) = g /\ stage[r] = "expire"
    BY <2>1 DEF LimiterInv, WindowAlwaysExpires
  <2>3. r # s
    BY <2>1, <2>2 DEF h
  <2> QED
    BY <1>4, <2>2, <2>3
<1>8. WindowAlwaysExpires'
  BY <1>5, <1>7 DEF WindowAlwaysExpires
<1> QED
  BY <1>1, <1>2, <1>5, <1>6, <1>8 DEF LimiterInv, OneOpener

LEMMA WindowElapsesLimiter ==
  ASSUME TypeOK, LimiterInv, NEW h \in Guests, WindowElapses(h)
  PROVE  (WindowAlwaysExpires /\ OneOpener)'
<1>1. /\ ttl[h] /\ ~ttl'[h] /\ count'[h] = 0 /\ stage' = stage
      /\ \A g \in Guests \ {h} : ttl'[g] = ttl[g] /\ count'[g] = count[g]
  BY DEF WindowElapses, TypeOK
<1>2. \A r \in GuestSockets : Caller(r)' = Caller(r) /\ Caller(r) \in Guests
  BY CallerIsGuest DEF Caller
<1>3. \A r \in GuestSockets : stage[r] = "expire" => Caller(r) # h
  BY <1>1 DEF LimiterInv, OneOpener
<1>4. WindowAlwaysExpires'
  BY <1>1, <1>2 DEF LimiterInv, WindowAlwaysExpires
<1> QED
  BY <1>1, <1>2, <1>3, <1>4 DEF LimiterInv, OneOpener

LEMMA LimiterInvStep ==
  ASSUME MaxCrashes = 0, TypeOK, LimiterInv, [Next]_vars
  PROVE  LimiterInv'
<1>1. FreshIsIdle'
  BY FreshIsIdleStep DEF LimiterInv
<1>2. ASSUME UNCHANGED redis,
             \A r \in GuestSockets : stage'[r] = "expire" <=> stage[r] = "expire"
      PROVE  (WindowAlwaysExpires /\ OneOpener)'
  <2>1. \A r \in GuestSockets : Caller(r)' = Caller(r)
    BY DEF Caller
  <2> QED
    BY <1>2, <2>1 DEF LimiterInv, WindowAlwaysExpires, OneOpener, redis
<1> QED
  BY <1>1, <1>2, LimiterStep, RateIncrLimiter, RateExpireLimiter,
     WindowElapsesLimiter DEF LimiterInv

\* While the server stays up, an open window has an expiry, or exactly one
\* call:initiate that is about to set it.
THEOREM AlwaysLimiterInv ==
  ASSUME MaxCrashes = 0
  PROVE  Spec => []LimiterInv
<1>1. Init => LimiterInv
  BY DEF Init, LimiterInv, WindowAlwaysExpires, FreshIsIdle, OneOpener
<1>2. TypeOK /\ LimiterInv /\ [Next]_vars => LimiterInv'
  BY LimiterInvStep
<1> QED
  BY <1>1, <1>2, TypeCorrect, PTL DEF Spec

\* As long as the process never dies between INCR and EXPIRE, a counted
\* window has an expiry or is about to get one.
THEOREM WindowsExpire ==
  ASSUME MaxCrashes = 0
  PROVE  Spec => []WindowAlwaysExpires
<1>1. LimiterInv => WindowAlwaysExpires
  BY DEF LimiterInv
<1> QED
  BY <1>1, AlwaysLimiterInv, PTL

\* The refinement mapping of Window.
Left(g) == IF count[g] < MaxCalls THEN MaxCalls - count[g] ELSE 0
Open(g) == ttl[g] \/ \E s \in GuestSockets : Caller(s) = g /\ stage[s] = "expire"
AbstractLeft == [g \in Guests |-> Left(g)]
AbstractOpen == [g \in Guests |-> Open(g)]

\* An INCR that counts up to the limit is an admission; one beyond it leaves
\* the window as it was.
LEMMA RateIncrAdmits ==
  ASSUME TypeOK, LimiterInv, LimiterInv', NEW s \in GuestSockets, RateIncr(s)
  PROVE  Window!Admit(Caller(s)) \/ UNCHANGED Window!vars
<1> DEFINE h == Caller(s)
<1>1. h \in Guests /\ count[h] \in Nat /\ ttl' = ttl /\ MaxCalls \in Nat \ {0}
  BY CallerIsGuest, ConstantsAssumption DEF RateIncr, TypeOK
<1>2. \A g \in Guests : count'[g] = IF g = h THEN count[h] + 1 ELSE count[g]
  BY <1>1 DEF RateIncr, TypeOK
<1>3. \A r \in GuestSockets \ {s} : stage'[r] = stage[r]
  BY DEF RateIncr, TypeOK
<1>4. \A r \in GuestSockets : Caller(r)' = Caller(r)
  BY DEF Caller
<1>5. \A g \in Guests \ {h} : Left(g)' = Left(g) /\ Open(g)' = Open(g)
  BY <1>1, <1>2, <1>3, <1>4 DEF Left, Open
<1>6. Open(h)'
  <2>1. count'[h] > 0
    BY <1>1, <1>2
  <2> QED
    BY <1>1, <1>4, <2>1 DEF LimiterInv, WindowAlwaysExpires, Open
<1> HIDE DEF h
<1>7. CASE count[h] < MaxCalls
  <2>1. Left(h) > 0 /\ Left(h)' = Left(h) - 1
    BY <1>1, <1>2, <1>7 DEF Left
  <2>2. AbstractLeft' = [AbstractLeft EXCEPT ![h] = @ - 1]
    BY <1>1, <1>5, <2>1 DEF AbstractLeft
  <2>3. AbstractOpen' = [AbstractOpen EXCEPT ![h] = TRUE]
    <3>1. Open(h)' = TRUE
      BY <1>6 DEF Open
    <3>2. \A g \in Guests : Open(g)' = IF g = h THEN TRUE ELSE Open(g)
      BY <1>5, <3>1
    <3> QED
      BY <1>1, <3>2 DEF AbstractOpen
  <2>4. AbstractLeft[h] > 0
    BY <1>1, <2>1 DEF AbstractLeft
  <2> QED
    BY <2>2, <2>3, <2>4 DEF Window!Admit, AbstractLeft, AbstractOpen, Left, Open, h
<1>8. CASE ~(count[h] < MaxCalls)
  <2>1. Left(h)' = Left(h)
    BY <1>1, <1>2, <1>8 DEF Left
  <2>2. Open(h)
    BY <1>1, <1>8 DEF LimiterInv, WindowAlwaysExpires, Open
  <2>3. AbstractLeft' = AbstractLeft
    BY <1>5, <2>1 DEF AbstractLeft
  <2>4. AbstractOpen' = AbstractOpen
    BY <1>5, <1>6, <2>2 DEF AbstractOpen, Open
  <2> QED
    BY <2>3, <2>4 DEF Window!vars, AbstractLeft, AbstractOpen, Left, Open
<1> QED
  BY <1>7, <1>8

\* EXPIRE comes after the admission it belongs to, and changes nothing.
LEMMA RateExpireStutters ==
  ASSUME TypeOK, LimiterInv, LimiterInv', NEW s \in GuestSockets, RateExpire(s)
  PROVE  UNCHANGED Window!vars
<1>1. Caller(s) \in Guests /\ count' = count /\ count[Caller(s)] > 0
  BY CallerIsGuest DEF RateExpire, LimiterInv, OneOpener
<1>2. \A g \in Guests : ttl'[g] = (IF g = Caller(s) THEN TRUE ELSE ttl[g])
  BY <1>1 DEF RateExpire, TypeOK
<1>3. stage[s] = "expire" /\ \A r \in GuestSockets \ {s} : stage'[r] = stage[r]
  BY DEF RateExpire, TypeOK
<1>4. \A r \in GuestSockets : Caller(r)' = Caller(r)
  BY DEF Caller
<1>5. stage'[s] # "expire"
  BY DEF RateExpire, TypeOK
<1>6. \A g \in Guests : Open(g)' = Open(g)
  BY <1>1, <1>2, <1>3, <1>4, <1>5 DEF Open
<1>7. AbstractLeft' = AbstractLeft
  BY <1>1 DEF AbstractLeft, Left
<1>8. AbstractOpen' = AbstractOpen
  BY <1>6 DEF AbstractOpen
<1> QED
  BY <1>7, <1>8 DEF Window!vars, AbstractLeft, AbstractOpen, Left, Open

LEMMA WindowElapsesElapses ==
  ASSUME TypeOK, LimiterInv, NEW h \in Guests, WindowElapses(h)
  PROVE  Window!Elapse(h)
<1>1. /\ ttl[h] /\ ~ttl'[h] /\ count'[h] = 0 /\ stage' = stage
      /\ \A g \in Guests \ {h} : ttl'[g] = ttl[g] /\ count'[g] = count[g]
  BY DEF WindowElapses, TypeOK
<1>2. \A r \in GuestSockets : Caller(r)' = Caller(r)
  BY DEF Caller
<1>3. \A r \in GuestSockets : stage[r] = "expire" => Caller(r) # h
  BY <1>1 DEF LimiterInv, OneOpener
<1>4. Open(h) /\ ~Open(h)' /\ Left(h)' = MaxCalls
  BY <1>1, <1>2, <1>3, ConstantsAssumption DEF Open, Left
<1>5. \A g \in Guests \ {h} : Left(g)' = Left(g) /\ Open(g)' = Open(g)
  BY <1>1, <1>2 DEF Left, Open
<1>6. AbstractLeft' = [AbstractLeft EXCEPT ![h] = MaxCalls]
  BY <1>4, <1>5 DEF AbstractLeft
<1>7. AbstractOpen' = [AbstractOpen EXCEPT ![h] = FALSE]
  BY <1>4, <1>5 DEF AbstractOpen, Open
<1> QED
  BY <1>4, <1>6, <1>7 DEF Window!Elapse, AbstractLeft, AbstractOpen, Left, Open

LEMMA InitIsWindow == Init => Window!Init
<1> SUFFICES ASSUME Init PROVE Window!Init
  OBVIOUS
<1>1. \A g \in Guests : Left(g) = MaxCalls
  BY ConstantsAssumption DEF Init, Left
<1>2. \A g \in Guests : Open(g) = FALSE
  <2>1. \A g \in Guests : ~Open(g)
    BY DEF Init, Open
  <2> QED
    BY <2>1
<1>3. AbstractLeft = [g \in Guests |-> MaxCalls]
  BY <1>1 DEF AbstractLeft
<1>4. AbstractOpen = [g \in Guests |-> FALSE]
  BY <1>2, Zenon DEF AbstractOpen
<1> QED
  BY <1>3, <1>4 DEF Window!Init, AbstractLeft, AbstractOpen, Left, Open

LEMMA StepIsWindow ==
  ASSUME MaxCrashes = 0, TypeOK, LimiterInv, LimiterInv', [Next]_vars
  PROVE  [Window!Next]_(Window!vars)
<1>1. ASSUME UNCHANGED redis,
             \A r \in GuestSockets : stage'[r] = "expire" <=> stage[r] = "expire"
      PROVE  UNCHANGED Window!vars
  <2>1. \A r \in GuestSockets : Caller(r)' = Caller(r)
    BY DEF Caller
  <2>2. \A g \in Guests : Open(g)' = Open(g) /\ Left(g)' = Left(g)
    BY <1>1, <2>1 DEF Open, Left, redis
  <2>3. AbstractLeft' = AbstractLeft /\ AbstractOpen' = AbstractOpen
    BY <2>2 DEF AbstractLeft, AbstractOpen
  <2> QED
    BY <2>3 DEF Window!vars, AbstractLeft, AbstractOpen, Left, Open
<1>2. ASSUME NEW s \in GuestSockets, RateIncr(s)
      PROVE  [Window!Next]_(Window!vars)
  BY <1>2, RateIncrAdmits, CallerIsGuest DEF Window!Next
<1>3. ASSUME NEW s \in GuestSockets, RateExpire(s)
      PROVE  UNCHANGED Window!vars
  BY <1>3, RateExpireStutters
<1>4. ASSUME NEW g \in Guests, WindowElapses(g) PROVE Window!Next
  BY <1>4, WindowElapsesElapses DEF Window!Next
<1> QED
  BY <1>1, <1>2, <1>3, <1>4, LimiterStep DEF LimiterInv

\* As long as the process never dies between INCR and EXPIRE, the limiter is
\* the abstract rate window, however many calls of a guest overlap.
THEOREM LimiterIsRateWindow ==
  ASSUME MaxCrashes = 0
  PROVE  Spec => ImplementsRateWindow
<1>1. Init => Window!Init
  BY InitIsWindow
<1>2. TypeOK /\ LimiterInv /\ LimiterInv' /\ [Next]_vars
        => [Window!Next]_(Window!vars)
  BY StepIsWindow
<1> QED
  BY <1>1, <1>2, TypeCorrect, AlwaysLimiterInv, PTL
  DEF Spec, ImplementsRateWindow, Window!Spec

----------------------------------------------------------------------------
(* Counting the calls of a guest *)

\* Calls the limiter has let through that are not routed yet.
Passed(g) == {s \in GuestSockets : Caller(s) = g /\ stage[s] \in {"expire", "route"}}
Spent(g) == IF count[g] < MaxCalls THEN count[g] ELSE MaxCalls

\* Every call that was routed passed the limiter in this window or in an
\* earlier one, and so did every call that is about to be routed.
Paid(g) ==
  /\ IsFiniteSet(Passed(g)) /\ IsFiniteSet(Routings(g))
  /\ Cardinality(Routings(g)) + Cardinality(Passed(g))
       <= MaxCalls * windows[g] + Spent(g)

LEMMA PaidType ==
  ASSUME TypeOK, NEW g \in Guests
  PROVE  /\ MaxCalls \in Nat \ {0} /\ windows[g] \in Nat /\ count[g] \in Nat
         /\ MaxCalls * windows[g] \in Nat /\ Spent(g) \in 0..MaxCalls
         /\ Paid(g) => /\ Cardinality(Routings(g)) \in Nat
                       /\ Cardinality(Passed(g)) \in Nat
<1>1. MaxCalls \in Nat \ {0} /\ windows[g] \in Nat /\ count[g] \in Nat
  BY ConstantsAssumption DEF TypeOK
<1>2. MaxCalls * windows[g] \in Nat /\ Spent(g) \in 0..MaxCalls
  BY <1>1 DEF Spent
<1> QED
  BY <1>1, <1>2, FS_CardinalityType DEF Paid

\* No call of the guest passes the limiter or is routed.
LEMMA PaidRests ==
  ASSUME TypeOK, NEW g \in Guests, Paid(g),
         Routings(g)' = Routings(g), Passed(g)' \subseteq Passed(g),
         count'[g] = count[g], windows'[g] = windows[g]
  PROVE  Paid(g)'
<1>1. /\ IsFiniteSet(Passed(g)') /\ Cardinality(Passed(g)') <= Cardinality(Passed(g))
      /\ Cardinality(Passed(g)') \in Nat
  BY FS_Subset, FS_CardinalityType DEF Paid
<1>2. Spent(g)' = Spent(g)
  BY DEF Spent
<1> QED
  BY <1>1, <1>2, PaidType DEF Paid

\* A completion row is not a routing.
LEMMA CompletionIsNoRouting ==
  ASSUME TypeOK, NEW c \in Calls, NEW o \in Completions, LogRow(c, o), NEW g \in Guests
  PROVE  Routings(g)' = Routings(g)
<1>1. o \in Outcomes /\ o # "INITIATED" /\ "INITIATED" \in Outcomes
  BY DEF Outcomes, Completions
<1>2. \A d \in Calls : callLog'[d]["INITIATED"] = callLog[d]["INITIATED"]
  BY <1>1, LogRowEffect DEF TypeOK
<1> QED
  BY <1>2 DEF Routings

LEMMA HandleEndRoutes ==
  ASSUME TypeOK, NEW x, NEW c \in Calls, HandleEnd(x, c), NEW g \in Guests
  PROVE  Routings(g)' = Routings(g)
<1>1. CASE IsActive(c)
  <2>1. \E o \in Completions : LogRow(c, o)
    BY <1>1 DEF HandleEnd, EndCall, Completions
  <2> QED
    BY <2>1, CompletionIsNoRouting
<1>2. CASE ~IsActive(c)
  BY <1>2 DEF HandleEnd, Routings
<1> QED
  BY <1>1, <1>2

LEMMA RateIncrPaid ==
  ASSUME TypeOK, NEW s \in GuestSockets, RateIncr(s), NEW g \in Guests, Paid(g)
  PROVE  Paid(g)'
<1> DEFINE h == Caller(s)
<1>1. /\ h \in Guests /\ count[h] \in Nat /\ MaxCalls \in Nat \ {0}
      /\ windows' = windows /\ stage[s] = "rate"
  BY CallerIsGuest, PaidType DEF RateIncr
<1>2. \A i \in Guests : count'[i] = IF i = h THEN count[h] + 1 ELSE count[i]
  BY <1>1 DEF RateIncr, TypeOK
<1>3. /\ stage'[s] \in {"expire", "route"} <=> count[h] < MaxCalls
      /\ \A r \in GuestSockets \ {s} : stage'[r] = stage[r]
  BY <1>1 DEF RateIncr, TypeOK
<1>4. Routings(g)' = Routings(g)
  BY DEF RateIncr, Routings
<1>5. \A r \in GuestSockets : Caller(r)' = Caller(r)
  BY DEF Caller
<1>6. CASE g = h /\ count[h] < MaxCalls
  <2>1. Passed(g)' = Passed(g) \cup {s} /\ s \notin Passed(g)
    BY <1>1, <1>3, <1>5, <1>6 DEF Passed
  <2>2. /\ IsFiniteSet(Passed(g)')
        /\ Cardinality(Passed(g)') = Cardinality(Passed(g)) + 1
    BY <2>1, FS_AddElement DEF Paid
  <2>3. Spent(g)' = Spent(g) + 1
    BY <1>1, <1>2, <1>6 DEF Spent
  <2> QED
    BY <1>1, <1>4, <2>2, <2>3, PaidType DEF Paid
<1>7. CASE g = h /\ ~(count[h] < MaxCalls)
  <2>1. Passed(g)' = Passed(g)
    BY <1>1, <1>3, <1>5, <1>7 DEF Passed
  <2>2. Spent(g)' = Spent(g)
    BY <1>1, <1>2, <1>7 DEF Spent
  <2> QED
    BY <1>1, <1>4, <2>1, <2>2 DEF Paid
<1>8. CASE g # h
  <2>1. Passed(g)' = Passed(g)
    BY <1>1, <1>3, <1>5, <1>8 DEF Passed
  <2> QED
    BY <1>1, <1>2, <1>4, <1>8, <2>1, PaidRests
<1> QED
  BY <1>6, <1>7, <1>8

LEMMA RouteCallPaid ==
  ASSUME TypeOK, NEW s \in GuestSockets, RouteCall(s), NEW g \in Guests, Paid(g)
  PROVE  Paid(g)'
<1> DEFINE c == PageOf[s]
           n == callLog[c]["INITIATED"]
<1>1. /\ c \in Calls /\ n \in Nat /\ "INITIATED" \in Outcomes /\ Caller(s) = GuestOf[c]
  BY ConstantsAssumption DEF Caller, TypeOK, Outcomes
<1>2. \A d \in Calls :
        callLog'[d]["INITIATED"] = callLog[d]["INITIATED"] + (IF d = c THEN 1 ELSE 0)
  BY <1>1, LogRowEffect DEF RouteCall
<1>3. \A d \in Calls : callLog[d]["INITIATED"] \in Nat
  BY <1>1 DEF TypeOK
<1>4. /\ UNCHANGED redis /\ stage[s] = "route" /\ stage'[s] = "done"
      /\ \A r \in GuestSockets \ {s} : stage'[r] = stage[r]
  BY DEF RouteCall, TypeOK
<1>5. \A r \in GuestSockets : Caller(r)' = Caller(r)
  BY DEF Caller
<1>6. CASE GuestOf[c] = g
  <2>1. Passed(g)' = Passed(g) \ {s} /\ s \in Passed(g)
    BY <1>1, <1>4, <1>5, <1>6 DEF Passed
  <2>2. /\ IsFiniteSet(Passed(g)')
        /\ Cardinality(Passed(g)') = Cardinality(Passed(g)) - 1
    BY <2>1, FS_RemoveElement DEF Paid
  <2>3. Routings(g)' = Routings(g) \cup {<<c, n + 1>>}
    <3>1. \A d, i : <<d, i>> \in Routings(g) <=>
            d \in Calls /\ GuestOf[d] = g /\ i \in 1..callLog[d]["INITIATED"]
      BY DEF Routings
    <3>2. \A d, i : <<d, i>> \in Routings(g)' <=>
            d \in Calls /\ GuestOf[d] = g /\ i \in 1..callLog'[d]["INITIATED"]
      BY DEF Routings
    <3>3. \A d, i : <<d, i>> \in Routings(g)' <=>
            <<d, i>> \in Routings(g) \/ (d = c /\ i = n + 1)
      <4>1. \A i : i \in 1..(n + 1) <=> i \in 1..n \/ i = n + 1
        BY <1>1
      <4>2. callLog'[c]["INITIATED"] = n + 1
        BY <1>1, <1>2
      <4>3. \A d \in Calls \ {c} : callLog'[d]["INITIATED"] = callLog[d]["INITIATED"]
        BY <1>2, <1>3
      <4>4. ASSUME NEW i
            PROVE  <<c, i>> \in Routings(g)' <=> <<c, i>> \in Routings(g) \/ i = n + 1
        BY <1>1, <1>6, <3>1, <3>2, <4>1, <4>2
      <4>5. ASSUME NEW d, NEW i, d # c
            PROVE  <<d, i>> \in Routings(g)' <=> <<d, i>> \in Routings(g)
        BY <3>1, <3>2, <4>3, <4>5
      <4> HIDE DEF n, c
      <4> QED
        BY <4>4, <4>5
    <3>4. \A x \in Routings(g) : \E d, i : x = <<d, i>>
      BY DEF Routings
    <3>5. \A x \in Routings(g)' : \E d, i : x = <<d, i>>
      BY DEF Routings
    <3> QED
      BY <3>3, <3>4, <3>5
  <2>4. /\ IsFiniteSet(Routings(g)')
        /\ Cardinality(Routings(g)') \in
             {Cardinality(Routings(g)), Cardinality(Routings(g)) + 1}
    <3>1. IsFiniteSet(Routings(g))
      BY DEF Paid
    <3> QED
      BY <2>3, <3>1, FS_AddElement
  <2>5. Spent(g)' = Spent(g) /\ windows'[g] = windows[g]
    BY <1>4 DEF redis, Spent
  <2> QED
    BY <2>2, <2>4, <2>5, PaidType DEF Paid
<1>7. CASE GuestOf[c] # g
  <2>1. Passed(g)' = Passed(g)
    BY <1>1, <1>4, <1>5, <1>7 DEF Passed
  <2>2. Routings(g)' = Routings(g)
    <3>1. \A d \in {e \in Calls : GuestOf[e] = g} :
            callLog'[d]["INITIATED"] = callLog[d]["INITIATED"]
      BY <1>2, <1>3, <1>7
    <3> QED
      BY <3>1 DEF Routings
  <2> QED
    BY <1>4, <2>1, <2>2, PaidRests DEF redis
<1> QED
  BY <1>6, <1>7

LEMMA WindowElapsesPaid ==
  ASSUME TypeOK, NEW h \in Guests, WindowElapses(h), NEW g \in Guests, Paid(g)
  PROVE  Paid(g)'
<1>1. Routings(g)' = Routings(g) /\ Passed(g)' = Passed(g)
  BY DEF WindowElapses, Routings, Passed, Caller
<1>2. CASE g = h
  <2>1. Spent(g)' = 0 /\ windows'[g] = windows[g] + 1
    BY <1>2, PaidType DEF WindowElapses, Spent, TypeOK
  <2>2. MaxCalls * (windows[g] + 1) = MaxCalls * windows[g] + MaxCalls
    BY PaidType
  <2> QED
    BY <1>1, <2>1, <2>2, PaidType DEF Paid
<1>3. CASE g # h
  BY <1>1, <1>3, PaidRests DEF WindowElapses, TypeOK
<1> QED
  BY <1>2, <1>3

\* Every other step: a call may leave the limiter, none enters it.
LEMMA OtherStepsPaid ==
  ASSUME TypeOK, [Next]_vars, NEW g \in Guests, Paid(g),
         \A s \in GuestSockets : ~RateIncr(s) /\ ~RouteCall(s),
         \A h \in Guests : ~WindowElapses(h)
  PROVE  Paid(g)'
<1>1. count' = count /\ windows' = windows
  BY DEF Next, InitiateStep, HandleInitiate, PrivilegeReply, RateExpire, RateRefused,
     NoStaffAvailable, ConnectGuest, DisconnectGuest, ConnectStaff, DisconnectStaff,
     GuestEnds, HandleAccept, HandleReject, StaffEnds, Relay, GrantWithdrawn, Crash,
     vars, redis
<1>2. Routings(g)' = Routings(g)
  <2>1. ASSUME callLog' = callLog PROVE Routings(g)' = Routings(g)
    BY <2>1 DEF Routings
  <2>2. ASSUME NEW t \in StaffSockets, NEW c \in Calls, HandleReject(t, c)
        PROVE  Routings(g)' = Routings(g)
    BY <2>2, CompletionIsNoRouting DEF HandleReject, EndCall, Completions
  <2>3. ASSUME NEW t \in StaffSockets, NEW c \in Calls, StaffEnds(t, c)
        PROVE  Routings(g)' = Routings(g)
    BY <2>3, HandleEndRoutes DEF StaffEnds
  <2>4. ASSUME NEW c \in Calls, GuestEnds(c) PROVE Routings(g)' = Routings(g)
    BY <2>4, HandleEndRoutes DEF GuestEnds
  <2> QED
    BY <2>1, <2>2, <2>3, <2>4
    DEF Next, InitiateStep, HandleInitiate, PrivilegeReply, RateExpire, RateRefused,
        NoStaffAvailable, ConnectGuest, DisconnectGuest, ConnectStaff,
        DisconnectStaff, HandleAccept, Relay, GrantWithdrawn, Crash, vars
<1>3. \A s \in GuestSockets :
        stage'[s] \in {"expire", "route"} => stage[s] \in {"expire", "route"}
  <2>1. ASSUME NEW r \in GuestSockets, InitiateStep(r), NEW s \in GuestSockets,
               stage'[s] \in {"expire", "route"}
        PROVE  stage[s] \in {"expire", "route"}
    BY <2>1 DEF InitiateStep, HandleInitiate, PrivilegeReply, RateExpire, RateRefused,
                NoStaffAvailable, Refuse, TypeOK
  <2>2. ASSUME NEW r \in GuestSockets, ConnectGuest(r) \/ DisconnectGuest(r),
               NEW s \in GuestSockets, stage'[s] \in {"expire", "route"}
        PROVE  stage[s] \in {"expire", "route"}
    BY <2>2 DEF ConnectGuest, DisconnectGuest, TypeOK
  <2>3. CASE Crash
    BY <2>3 DEF Crash
  <2>4. CASE stage' = stage
    BY <2>4
  <2> QED
    BY <2>1, <2>2, <2>3, <2>4
    DEF Next, ConnectStaff, DisconnectStaff, GuestEnds, HandleAccept, HandleReject,
        StaffEnds, Relay, GrantWithdrawn, vars
<1>4. Passed(g)' \subseteq Passed(g)
  BY <1>3 DEF Passed, Caller
<1> QED
  BY <1>1, <1>2, <1>4, PaidRests

\* A guest's routed calls stay within the limit per elapsed window, whatever
\* calls overlap and wherever the server crashes.
THEOREM CallsAreBounded == Spec => []CallRateBounded
<1> DEFINE AllPaid == \A g \in Guests : Paid(g)
<1>1. Init => AllPaid
  <2> SUFFICES ASSUME Init, NEW g \in Guests PROVE Paid(g)
    OBVIOUS
  <2>1. Passed(g) = {}
    BY DEF Init, Passed
  <2>2. Routings(g) = {}
    BY DEF Init, Routings, Outcomes
  <2>3. Spent(g) = 0 /\ MaxCalls * windows[g] = 0
    BY ConstantsAssumption DEF Init, Spent
  <2> QED
    BY <2>1, <2>2, <2>3, FS_EmptySet DEF Paid
<1>2. TypeOK /\ AllPaid /\ [Next]_vars => AllPaid'
  BY RateIncrPaid, RouteCallPaid, WindowElapsesPaid, OtherStepsPaid
<1>3. TypeOK /\ AllPaid => CallRateBounded
  <2> SUFFICES ASSUME TypeOK, NEW g \in Guests, Paid(g)
               PROVE  Cardinality(Routings(g)) <= MaxCalls * (windows[g] + 1)
    BY DEF CallRateBounded
  <2>1. MaxCalls * (windows[g] + 1) = MaxCalls * windows[g] + MaxCalls
    BY PaidType
  <2> QED
    BY <2>1, PaidType DEF Paid
<1> HIDE DEF AllPaid
<1> QED
  BY <1>1, <1>2, <1>3, TypeCorrect, PTL DEF Spec
----------------------------------------------------------------------------
(* The round robin *)

LEMMA Division ==
  ASSUME NEW n \in Nat \ {0}, NEW i \in Nat,
         NEW a \in Int, a = i \div n, NEW r \in Int, r = i % n
  PROVE  i = a * n + r /\ r \in 0..(n - 1)
  BY SMTT(30)

LEMMA Multiples ==
  ASSUME NEW n \in Nat \ {0}, NEW a \in Int, NEW b \in Int, a < b
  PROVE  a * n \in Int /\ b * n \in Int /\ a * n + n <= b * n
  BY SMTT(30)

\* A remainder is determined by its number, and with its quotient determines it.
LEMMA Remainder ==
  ASSUME NEW n \in Nat \ {0}, NEW a \in Int, NEW m \in 0..(n - 1), a * n + m \in Nat
  PROVE  (a * n + m) % n = m
<1> DEFINE i == a * n + m
<1>1. i \div n \in Int /\ i % n \in Int
  BY SMT
<1>2. PICK b \in Int, r \in Int : b = i \div n /\ r = i % n
  BY <1>1
<1>3. a * n + m = b * n + r /\ r \in 0..(n - 1)
  BY <1>2, Division
<1>4. ~(a < b) /\ ~(b < a)
  BY <1>3, Multiples
<1> QED
  BY <1>2, <1>3, <1>4

LEMMA EqualRemainders ==
  ASSUME NEW n \in Nat \ {0}, NEW i \in Nat, NEW j \in Nat,
         i % n = j % n, i - j < n, j - i < n
  PROVE  i = j
<1>1. i \div n \in Int /\ j \div n \in Int /\ i % n \in Int
  BY SMT
<1>2. PICK a \in Int, b \in Int, r \in Int : a = i \div n /\ b = j \div n /\ r = i % n
  BY <1>1
<1>3. i = a * n + r /\ j = b * n + r /\ r \in 0..(n - 1)
  BY <1>2, Division
<1>4. CASE a < b
  BY <1>3, <1>4, Multiples
<1>5. CASE b < a
  BY <1>3, <1>5, Multiples
<1>6. CASE a = b
  BY <1>3, <1>6
<1> QED
  BY <1>4, <1>5, <1>6

\* Each remainder comes once among n numbers in a row.
LEMMA RemainderComes ==
  ASSUME NEW n \in Nat \ {0}, NEW k \in Nat, NEW m \in 0..(n - 1)
  PROVE  \E i \in 0..(n - 1) : (k + i) % n = m
<1>1. k \div n \in Int /\ k % n \in Int
  BY SMT
<1>2. PICK a \in Int, r \in Int : a = k \div n /\ r = k % n
  BY <1>1
<1>3. k = a * n + r /\ r \in 0..(n - 1)
  BY <1>2, Division
<1>4. a * n \in Int /\ (a + 1) * n = a * n + n
  BY SMT
<1>5. CASE m >= r
  <2>1. m - r \in 0..(n - 1) /\ k + (m - r) = a * n + m /\ a * n + m \in Nat
    BY <1>3, <1>4, <1>5
  <2> QED
    BY <2>1, Remainder
<1>6. CASE ~(m >= r)
  <2>1. /\ m - r + n \in 0..(n - 1) /\ k + (m - r + n) = (a + 1) * n + m
        /\ (a + 1) * n + m \in Nat
    BY <1>3, <1>4, <1>6
  <2>2. a + 1 \in Int
    OBVIOUS
  <2>3. ((a + 1) * n + m) % n = m
    BY <2>1, <2>2, Remainder
  <2> QED
    BY <2>1, <2>3
<1> QED
  BY <1>5, <1>6

\* Of as many turns in a row as a list has members, each member has one.
LEMMA EveryoneHasATurn ==
  ASSUME NEW S, NEW q \in Seq(S), IsInjective(q), NEW t \in ToSet(q), NEW k \in Nat
  PROVE  HasOneTurn(t, q, k)
<1>1. PICK p \in 1..Len(q) : q[p] = t
  BY DEF ToSet
<1> DEFINE n == Len(q)
<1>2. n \in Nat \ {0} /\ p - 1 \in 0..(n - 1) /\ p \in Nat
  BY <1>1
<1>3. PICK i \in 0..(n - 1) : (k + i) % n = p - 1
  BY <1>2, RemainderComes
<1>4. Turn(q, k + i) = t
  BY <1>1, <1>2, <1>3 DEF Turn
<1>5. ASSUME NEW j \in 0..(n - 1), Turn(q, k + j) = t
      PROVE  j = i
  <2>1. (k + j) % n \in 0..(n - 1)
    BY <1>2
  <2>2. PICK r \in 0..(n - 1) : r = (k + j) % n
    BY <2>1
  <2>3. q[r + 1] = q[p] /\ r + 1 \in 1..n /\ p \in 1..n
    BY <1>1, <1>2, <1>5, <2>2 DEF Turn
  <2>4. r + 1 = p
    BY <2>3 DEF IsInjective
  <2>5. (k + j) % n = (k + i) % n
    BY <1>2, <1>3, <2>2, <2>4
  <2>6. k + j \in Nat /\ k + i \in Nat /\ (k + j) - (k + i) < n /\ (k + i) - (k + j) < n
    BY <1>2
  <2>7. k + j = k + i
    BY <1>2, <2>5, <2>6, EqualRemainders
  <2> QED
    BY <1>2, <2>7
<1> QED
  BY <1>3, <1>4, <1>5 DEF HasOneTurn

\* Each connected member of staff has one of the next turns, one of as many as
\* there are members of the department.
THEOREM RotationIsEven == Spec => []TurnsAreEven
<1>1. TypeOK /\ PresenceMatchesSockets => TurnsAreEven
  <2> SUFFICES ASSUME TypeOK, PresenceMatchesSockets, NEW d \in Depts,
                      NEW t \in StaffSockets, sock[t] = "up", StaffDept[t] = d
               PROVE  HasOneTurn(t, staffMap[d], counters[d])
    BY DEF TurnsAreEven
  <2>1. /\ staffMap[d] \in Seq(StaffSockets) /\ counters[d] \in Nat
        /\ IsInjective(staffMap[d]) /\ t \in ToSet(staffMap[d])
    BY DEF TypeOK, PresenceMatchesSockets
  <2> QED
    BY <2>1, EveryoneHasATurn
<1> QED
  BY <1>1, TypeCorrect, PresenceIsExact, PTL
=============================================================================
