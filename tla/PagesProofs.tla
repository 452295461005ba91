----------------------------- MODULE PagesProofs -----------------------------
(* Theorems about the pages: the two call pages, for any guests, staff,    *)
(* connections and clicks, and the check-in pages with the front desk, for *)
(* any bookings and records. CallScreens and CheckIn share no variable;    *)
(* each theorem is about the specification of one of them.                 *)
EXTENDS CallScreens, CheckIn, SequenceTheorems, TLAPS

Peers == Guests \cup Staff
Waiting(s) == {s[i] : i \in 1..Len(s)}

(***************************************************************************)
(* The queues.                                                             *)
(***************************************************************************)

\* What waits in a queue after one message is taken, or one is added.
LEMMA QueueEffect ==
  ASSUME NEW S, NEW s \in Seq(S)
  PROVE  /\ Waiting(<<>>) = {}
         /\ s # <<>> => Tail(s) \in Seq(S) /\ Waiting(Tail(s)) \subseteq Waiting(s)
                        /\ Head(s) \in S /\ Head(s) \in Waiting(s)
         /\ \A m \in S : Append(s, m) \in Seq(S) /\ Waiting(Append(s, m)) = Waiting(s) \cup {m}
<1>1. Len(s) \in Nat /\ \A i \in 1..Len(s) : s[i] \in S
  BY LenProperties, ElementOfSeq
<1>2. Waiting(<<>>) = {}
  BY EmptySeq DEF Waiting
<1>3. ASSUME s # <<>>
      PROVE  /\ Tail(s) \in Seq(S) /\ Waiting(Tail(s)) \subseteq Waiting(s)
             /\ Head(s) \in S /\ Head(s) \in Waiting(s)
  <2>1. /\ Len(s) >= 1 /\ Head(s) \in S /\ Tail(s) \in Seq(S)
        /\ Len(Tail(s)) = Len(s) - 1
        /\ \A i \in 1..Len(Tail(s)) : Tail(s)[i] = s[i + 1]
    BY <1>1, <1>3, HeadTailProperties, EmptySeq
  <2>2. \A i \in 1..Len(Tail(s)) : i + 1 \in 1..Len(s)
    BY <1>1, <2>1
  <2>3. Head(s) = s[1] /\ 1 \in 1..Len(s)
    BY <1>1, <2>1
  <2> QED
    BY <2>1, <2>2, <2>3 DEF Waiting
<1>4. ASSUME NEW m \in S
      PROVE  Append(s, m) \in Seq(S) /\ Waiting(Append(s, m)) = Waiting(s) \cup {m}
  <2>1. /\ Append(s, m) \in Seq(S) /\ Len(Append(s, m)) = Len(s) + 1
        /\ \A i \in 1..Len(s) : Append(s, m)[i] = s[i]
        /\ Append(s, m)[Len(s) + 1] = m
    BY AppendProperties
  <2>2. /\ Len(s) + 1 \in 1..Len(Append(s, m))
        /\ \A i \in 1..Len(s) : i \in 1..Len(Append(s, m))
        /\ \A i \in 1..Len(Append(s, m)) : i \in 1..Len(s) \/ i = Len(s) + 1
    BY <1>1, <2>1
  <2> QED
    BY <2>1, <2>2 DEF Waiting
<1> QED
  BY <1>2, <1>3, <1>4

Queues == [Peers -> Seq(Message)]

\* Only the page itself gets what is emitted, and only while it is connected.
LEMMA EmitEffect ==
  ASSUME NEW b \in Queues, NEW x, NEW n, NEW m \in Message, up \subseteq Peers
  PROVE  /\ Emit(b, x, n, m) \in Queues
         /\ \A y \in Peers : \/ Emit(b, x, n, m)[y] = b[y]
                             \/ y = x /\ x \in up /\ Emit(b, x, n, m)[y] = Append(b[y], m)
<1>1. CASE x \in up /\ sock[x] = n
  <2>1. Emit(b, x, n, m) = [b EXCEPT ![x] = Append(@, m)]
    BY <1>1 DEF Emit
  <2>2. b[x] \in Seq(Message) /\ Append(b[x], m) \in Seq(Message)
    BY <1>1, QueueEffect DEF Queues
  <2> QED
    BY <1>1, <2>1, <2>2 DEF Queues
<1>2. CASE ~(x \in up /\ sock[x] = n)
  BY <1>2 DEF Emit
<1> QED
  BY <1>1, <1>2

(***************************************************************************)
(* What a step does to each page's queue.                                  *)
(***************************************************************************)

\* The queue loses what was in it, or gets one message more.
Loses(x) == box'[x] \in Seq(Message) /\ Waiting(box'[x]) \subseteq Waiting(box[x])
Gets(x, m) ==
  /\ x \in up /\ x \in up' /\ m \in Message
  /\ box'[x] \in Seq(Message) /\ Waiting(box'[x]) = Waiting(box[x]) \cup {m}

\* Who sends which message.
Rung(p, m) ==
  m.ev = "incoming" /\ p \in Staff
    /\ \E g \in Guests : m.call = g /\ \E n \in inFlight[g] : Route(g, n, p)
EndedBy(g, m) ==
  m.ev = "ended" /\ g \in Guests /\ \E p \in Staff : StaffEnds(p) /\ callId[p] = g
Other(x, m) ==
  m.ev # "incoming" /\ (m.ev = "ended" => x \notin Guests)

QueueStep(x) ==
  \/ Loses(x) /\ (x \in up \ up' => Waiting(box'[x]) = {})
  \/ \E m \in Message : Gets(x, m) /\ (Rung(x, m) \/ EndedBy(x, m) \/ Other(x, m))
QueuesStep == box' \in Queues /\ \A y \in Peers : QueueStep(y)

LEMMA Unmoved ==
  ASSUME TypeOK, UNCHANGED box, up \subseteq up'
  PROVE  QueuesStep
  BY DEF TypeOK, QueuesStep, QueueStep, Loses, Queues, Peers

LEMMA TakenStep ==
  ASSUME TypeOK, NEW x \in Peers, box[x] # <<>>, box' = Taken(x), UNCHANGED up
  PROVE  QueuesStep
<1>1. box \in Queues
  BY DEF TypeOK, Queues, Peers
<1>2. /\ box[x] \in Seq(Message) /\ Tail(box[x]) \in Seq(Message)
      /\ Waiting(Tail(box[x])) \subseteq Waiting(box[x])
  BY <1>1, QueueEffect DEF Queues
<1>3. box' \in Queues /\ \A y \in Peers : box'[y] = IF y = x THEN Tail(box[x]) ELSE box[y]
  BY <1>1, <1>2 DEF Taken, Queues
<1> QED
  BY <1>1, <1>2, <1>3 DEF QueuesStep, QueueStep, Loses, Queues

LEMMA ClearedStep ==
  ASSUME TypeOK, NEW x \in Peers, box' = [box EXCEPT ![x] = <<>>], up' = up \ {x}
  PROVE  QueuesStep
<1>1. box \in Queues
  BY DEF TypeOK, Queues, Peers
<1>2. <<>> \in Seq(Message) /\ Waiting(<<>>) = {}
  BY <1>1, QueueEffect, EmptySeq
<1>3. box' \in Queues /\ \A y \in Peers : box'[y] = IF y = x THEN <<>> ELSE box[y]
  BY <1>1, <1>2 DEF Queues
<1> QED
  BY <1>1, <1>2, <1>3 DEF QueuesStep, QueueStep, Loses, Queues

LEMMA EmitStep ==
  ASSUME TypeOK, NEW x, NEW n, NEW m \in Message, box' = Emit(box, x, n, m), UNCHANGED up,
         x \in up => Rung(x, m) \/ EndedBy(x, m) \/ Other(x, m)
  PROVE  QueuesStep
<1>1. box \in Queues /\ up \subseteq Peers
  BY DEF TypeOK, Queues, Peers
<1>2. /\ box' \in Queues
      /\ \A y \in Peers : \/ box'[y] = box[y]
                          \/ y = x /\ x \in up /\ box'[y] = Append(box[y], m)
  BY <1>1, EmitEffect
<1>3. ASSUME NEW y \in Peers PROVE QueueStep(y)
  <2>1. box[y] \in Seq(Message) /\ box'[y] \in Seq(Message)
    BY <1>1, <1>2 DEF Queues
  <2>2. CASE box'[y] = box[y]
    BY <2>1, <2>2 DEF QueueStep, Loses
  <2>3. CASE y = x /\ x \in up /\ box'[y] = Append(box[y], m)
    <3>1. Waiting(box'[y]) = Waiting(box[y]) \cup {m}
      BY <2>1, <2>3, QueueEffect
    <3>2. Gets(y, m)
      BY <2>1, <2>3, <3>1 DEF Gets
    <3> QED
      BY <2>3, <3>2 DEF QueueStep
  <2> QED
    BY <1>2, <2>2, <2>3
<1> QED
  BY <1>2, <1>3 DEF QueuesStep

\* One side goes, and the other is told.
LEMMA EmitClearStep ==
  ASSUME TypeOK, NEW z \in Peers, NEW x, NEW n, NEW m \in Message,
         box' = [Emit(box, x, n, m) EXCEPT ![z] = <<>>], up' = up \ {z},
         x \in up => Rung(x, m) \/ EndedBy(x, m) \/ Other(x, m)
  PROVE  QueuesStep
<1> DEFINE b == Emit(box, x, n, m)
<1>1. box \in Queues /\ up \subseteq Peers /\ <<>> \in Seq(Message) /\ Waiting(<<>>) = {}
  BY QueueEffect, EmptySeq DEF TypeOK, Queues, Peers
<1>2. /\ b \in Queues
      /\ \A y \in Peers : \/ b[y] = box[y]
                          \/ y = x /\ x \in up /\ b[y] = Append(box[y], m)
  BY <1>1, EmitEffect
<1> HIDE DEF b
<1>3. box' = [b EXCEPT ![z] = <<>>]
  BY DEF b
<1>4. box' \in Queues /\ box'[z] = <<>> /\ \A y \in Peers \ {z} : box'[y] = b[y]
  BY <1>1, <1>2, <1>3 DEF Queues
<1>5. ASSUME NEW y \in Peers PROVE QueueStep(y)
  <2>1. box[y] \in Seq(Message) /\ box'[y] \in Seq(Message)
    BY <1>1, <1>4 DEF Queues
  <2>2. CASE y = z
    BY <1>1, <1>4, <2>1, <2>2 DEF QueueStep, Loses
  <2>3. CASE y # z /\ box'[y] = box[y]
    BY <2>1, <2>3 DEF QueueStep, Loses
  <2>4. CASE y # z /\ y = x /\ x \in up /\ box'[y] = Append(box[y], m)
    <3>0. Waiting(Append(box[y], m)) = Waiting(box[y]) \cup {m}
      BY <2>1, QueueEffect
    <3>1. Waiting(box'[y]) = Waiting(box[y]) \cup {m}
      BY <2>4, <3>0
    <3>2. Gets(y, m)
      BY <2>1, <2>4, <3>1 DEF Gets
    <3> QED
      BY <2>4, <3>2 DEF QueueStep
  <2> QED
    BY <1>2, <1>4, <2>2, <2>3, <2>4
<1> QED
  BY <1>4, <1>5 DEF QueuesStep

LEMMA ServerQueues ==
  ASSUME TypeOK, NEW g \in Guests, NEW n \in inFlight[g],
         Refuse(g, n) \/ \E p \in Staff : Route(g, n, p)
  PROVE  QueuesStep
<1>1. CASE Refuse(g, n)
  <2> DEFINE m == [ev |-> "error", call |-> g]
  <2>1. m \in Message /\ Other(g, m)
    BY DEF Message, Other
  <2>2. box' = Emit(box, g, n, m) /\ UNCHANGED up
    BY <1>1 DEF Refuse
  <2> HIDE DEF m
  <2> QED
    BY <2>1, <2>2, EmitStep
<1>2. ASSUME NEW p \in Staff, Route(g, n, p) PROVE QueuesStep
  <2> DEFINE m == [ev |-> "incoming", call |-> g]
  <2>1. m \in Message /\ Rung(p, m)
    BY <1>2 DEF Message, Rung
  <2>2. box' = Emit(box, p, sock[p], m) /\ UNCHANGED up
    BY <1>2 DEF Route, Emit
  <2> HIDE DEF m
  <2> QED
    BY <2>1, <2>2, EmitStep
<1> QED
  BY <1>1, <1>2

\* What the server tells the member of staff of a call.
LEMMA ToCalleeIsOther ==
  ASSUME TypeOK, NEW g \in Guests, NEW ev \in {"ended", "sdp"}
  PROVE  LET m == [ev |-> ev, call |-> g] IN
         m \in Message /\ (calls[g].to \in up => Other(calls[g].to, m))
<1>1. calls[g].to \in Staff \cup {None}
  BY DEF TypeOK, Call, NoCall
<1> QED
  BY <1>1, ScreensAssumption DEF TypeOK, Message, Other

LEMMA GuestQueues ==
  ASSUME TypeOK, NEW g \in Guests, GuestStep(g)
  PROVE  QueuesStep
<1>0. g \in Peers /\ up \subseteq Peers
  BY DEF Peers, TypeOK
<1>1. CASE GuestConnects(g) \/ MicDenied(g)
  BY <1>1, Unmoved DEF GuestConnects, MicDenied
<1>2. CASE GuestRefused(g) \/ GuestAccepted(g)
  BY <1>0, <1>2, TakenStep DEF GuestRefused, GuestAccepted, Arrives
<1>3. CASE ConnectionLost(g) \/ Leave(g) \/ GuestEnded(g)
  BY <1>0, <1>3, ClearedStep DEF ConnectionLost, Leave, GuestEnded, Cleanup
<1>4. CASE HangUp(g)
  <2> DEFINE m == [ev |-> "ended", call |-> g]
  <2>1. m \in Message /\ (calls[g].to \in up => Other(calls[g].to, m))
    BY ToCalleeIsOther
  <2>2. up' = up \ {g}
    BY <1>4 DEF HangUp, Cleanup
  <2>3. CASE g \in up /\ calls[g].from = sock[g]
    <3>1. box' = [Emit(box, calls[g].to, calls[g].sock, m) EXCEPT ![g] = <<>>]
      BY <1>4, <2>3 DEF HangUp, EndHeard, ToCallee
    <3> HIDE DEF m
    <3> QED
      BY <1>0, <2>1, <2>2, <3>1, EmitClearStep
  <2>4. CASE ~(g \in up /\ calls[g].from = sock[g])
    <3>1. box' = [box EXCEPT ![g] = <<>>]
      BY <1>4, <2>4 DEF HangUp, EndHeard
    <3> QED
      BY <1>0, <2>2, <3>1, ClearedStep
  <2> QED
    BY <2>3, <2>4
<1>5. CASE MicGranted(g)
  <2> DEFINE m == [ev |-> "sdp", call |-> g]
  <2>1. m \in Message /\ (calls[g].to \in up => Other(calls[g].to, m))
    BY ToCalleeIsOther
  <2>2. UNCHANGED up
    BY <1>5 DEF MicGranted
  <2>3. UNCHANGED box \/ box' = Emit(box, calls[g].to, calls[g].sock, m)
    BY <1>5 DEF MicGranted, ToCallee
  <2> HIDE DEF m
  <2> QED
    BY <2>1, <2>2, <2>3, EmitStep, Unmoved
<1> QED
  BY <1>1, <1>2, <1>3, <1>4, <1>5 DEF GuestStep

LEMMA StaffQueues ==
  ASSUME TypeOK, NEW p \in Staff, StaffStep(p)
  PROVE  QueuesStep
<1>0. p \in Peers /\ up \subseteq Peers /\ callId[p] \in Guests \cup {None}
  BY DEF Peers, TypeOK
<1>1. CASE StaffConnects(p) \/ StaffMic(p) \/ Ready(p)
  BY <1>1, Unmoved DEF StaffConnects, StaffMic, Ready
<1>2. CASE Offer(p) \/ StaffEnded(p)
  BY <1>0, <1>2, TakenStep DEF Offer, StaffEnded, Arrives
<1>3. CASE Incoming(p)
  BY <1>0, <1>3, TakenStep, ClearedStep DEF Incoming, Recreate, Arrives
<1>4. CASE Accept(p)
  <2> DEFINE g == callId[p]
             m == [ev |-> "accepted", call |-> g]
  <2>1. g \in Guests
    BY <1>0, <1>4 DEF Accept
  <2>2. m \in Message /\ Other(g, m)
    BY <2>1 DEF Message, Other
  <2>3. box' = Emit(box, g, calls[g].from, m) /\ UNCHANGED up
    BY <1>4 DEF Accept, ToCaller
  <2> HIDE DEF m, g
  <2> QED
    BY <2>2, <2>3, EmitStep
<1>5. CASE Decline(p)
  <2> DEFINE g == callId[p]
             m == [ev |-> "rejected", call |-> g]
  <2>1. up' = up \ {p}
    BY <1>5 DEF Decline
  <2>2. CASE IsCallee(p, g) /\ g \in Guests
    <3>1. m \in Message /\ Other(g, m)
      BY <2>2 DEF Message, Other
    <3>2. box' = [Emit(box, g, calls[g].from, m) EXCEPT ![p] = <<>>]
      BY <1>5, <2>2 DEF Decline, ToCaller
    <3> HIDE DEF m, g
    <3> QED
      BY <1>0, <2>1, <3>1, <3>2, EmitClearStep
  <2>3. CASE ~IsCallee(p, g)
    <3>1. box' = [box EXCEPT ![p] = <<>>]
      BY <1>5, <2>3 DEF Decline
    <3> QED
      BY <1>0, <2>1, <3>1, ClearedStep
  <2> QED
    BY <1>0, <2>2, <2>3 DEF IsCallee
<1>6. CASE StaffEnds(p)
  <2> DEFINE g == callId[p]
             m == [ev |-> "ended", call |-> g]
  <2>1. g \in Guests
    BY <1>0, <1>6 DEF StaffEnds
  <2>2. m \in Message /\ EndedBy(g, m)
    BY <1>6, <2>1 DEF Message, EndedBy
  <2>3. UNCHANGED up /\ (UNCHANGED box \/ box' = Emit(box, g, calls[g].from, m))
    BY <1>6 DEF StaffEnds, ToCaller
  <2> HIDE DEF m, g
  <2> QED
    BY <2>2, <2>3, EmitStep, Unmoved
<1> QED
  BY <1>1, <1>2, <1>3, <1>4, <1>5, <1>6 DEF StaffStep

LEMMA EveryQueueStep ==
  ASSUME TypeOK, [Next]_vars
  PROVE  QueuesStep
<1>1. CASE UNCHANGED vars
  BY <1>1, Unmoved DEF vars
<1> QED
  BY <1>1, ServerQueues, GuestQueues, StaffQueues DEF Next

(***************************************************************************)
(* The shape of the state.                                                 *)
(***************************************************************************)

LEMMA NoCallType == NoCall \in Call \cup {NoCall} /\ NoCall.to = None /\ NoCall.answers = 0
  BY DEF NoCall

LEMMA ServerTypes ==
  ASSUME TypeOK, box' \in Queues, NEW g \in Guests, NEW n \in inFlight[g],
         Refuse(g, n) \/ \E p \in Staff : Route(g, n, p)
  PROVE  TypeOK'
<1>1. n \in Nat /\ inFlight[g] \ {n} \subseteq Nat
  BY DEF TypeOK
<1>2. CASE Refuse(g, n)
  BY <1>1, <1>2 DEF Refuse, TypeOK, guest, staff, Queues, Peers
<1>3. ASSUME NEW p \in Staff, Route(g, n, p) PROVE TypeOK'
  <2>1. sock[p] \in Nat
    BY DEF TypeOK
  <2>4. [from |-> n, to |-> p, sock |-> sock[p], answers |-> 0] \in Call
    BY <1>1, <2>1 DEF Call
  <2>5. calls' \in [Guests -> Call \cup {NoCall}] /\ inFlight' \in [Guests -> SUBSET Nat]
    BY <1>1, <1>3, <2>4 DEF Route, TypeOK
  <2> QED
    BY <1>3, <2>5 DEF Route, TypeOK, guest, staff, Queues, Peers
<1> QED
  BY <1>2, <1>3

LEMMA GuestTypes ==
  ASSUME TypeOK, box' \in Queues, NEW g \in Guests, GuestStep(g)
  PROVE  TypeOK'
<1>0. g \in Guests \cup Staff /\ sock[g] \in Nat /\ inFlight[g] \cup {sock[g] + 1} \subseteq Nat
  BY DEF TypeOK
<1>1. ASSUME Cleanup(g)
      PROVE  /\ gone' \subseteq Guests /\ raced' \subseteq Guests
             /\ up' \subseteq Guests \cup Staff
             /\ mic' \in [Guests -> {"off", "asking", "on"}]
  BY <1>1 DEF Cleanup, TypeOK
<1>2. CASE GuestConnects(g)
  BY <1>0, <1>2 DEF GuestConnects, TypeOK, staff, Queues, Peers
<1>3. CASE ConnectionLost(g)
  BY <1>3 DEF ConnectionLost, TypeOK, guest, staff, Queues, Peers
<1>4. CASE HangUp(g)
  <2>1. calls' \in [Guests -> Call \cup {NoCall}] /\ unheard' \subseteq Guests
    BY <1>4, NoCallType DEF HangUp, EndHeard, TypeOK
  <2>2. screen' \in [Guests -> {"CONNECTING", "RINGING", "CONNECTED", "ENDED", "ERROR", "LEFT"}]
    BY <1>4 DEF HangUp, Shows, TypeOK
  <2>3. Cleanup(g) /\ UNCHANGED <<sock, inFlight, staff>>
    BY <1>4 DEF HangUp
  <2> QED
    BY <1>1, <2>1, <2>2, <2>3 DEF TypeOK, staff, Queues, Peers
<1>5. CASE Leave(g)
  BY <1>1, <1>5 DEF Leave, Shows, TypeOK, staff, Queues, Peers
<1>6. CASE GuestRefused(g)
  BY <1>6 DEF GuestRefused, Shows, TypeOK, staff, Queues, Peers
<1>7. CASE GuestAccepted(g)
  BY <1>7 DEF GuestAccepted, TypeOK, staff, Queues, Peers
<1>8. CASE MicGranted(g)
  <2>1. screen' \in [Guests -> {"CONNECTING", "RINGING", "CONNECTED", "ENDED", "ERROR", "LEFT"}]
    BY <1>8 DEF MicGranted, Shows, TypeOK
  <2> QED
    BY <1>8, <2>1 DEF MicGranted, TypeOK, staff, Queues, Peers
<1>9. CASE MicDenied(g)
  BY <1>9 DEF MicDenied, TypeOK, staff, Queues, Peers
<1>10. CASE GuestEnded(g)
  BY <1>1, <1>10 DEF GuestEnded, Shows, TypeOK, staff, Queues, Peers
<1> QED
  BY <1>2, <1>3, <1>4, <1>5, <1>6, <1>7, <1>8, <1>9, <1>10 DEF GuestStep

\* What the page of a member of staff takes from its queue is a message.
LEMMA FirstIsMessage ==
  ASSUME TypeOK, NEW x \in Peers, box[x] # <<>>
  PROVE  Head(box[x]) \in Message /\ Head(box[x]) \in Waiting(box[x])
         /\ Head(box[x]).call \in Guests
<1>1. box[x] \in Seq(Message)
  BY DEF TypeOK, Peers
<1>2. Head(box[x]) \in Message /\ Head(box[x]) \in Waiting(box[x])
  BY <1>1, QueueEffect
<1> QED
  BY <1>2 DEF Message

LEMMA StaffTypes ==
  ASSUME TypeOK, box' \in Queues, NEW p \in Staff, StaffStep(p)
  PROVE  TypeOK'
<1>0. p \in Peers /\ p \in Guests \cup Staff /\ sock[p] \in Nat
      /\ callId[p] \in Guests \cup {None}
  BY DEF Peers, TypeOK
<1>1. CASE StaffConnects(p)
  BY <1>0, <1>1 DEF StaffConnects, TypeOK, guest, staff, Queues, Peers
<1>2. CASE Incoming(p)
  <2>1. Head(box[p]).call \in Guests
    BY <1>0, <1>2, FirstIsMessage DEF Incoming, Arrives
  <2>2. /\ up' \subseteq Guests \cup Staff /\ talk' \in [Staff -> {"none", "asking", "on", "denied"}]
        /\ callId' \in [Staff -> Guests \cup {None}]
    BY <1>2, <2>1 DEF Incoming, Recreate, TypeOK
  <2> QED
    BY <1>2, <2>2 DEF Incoming, TypeOK, guest, Queues, Peers
<1>3. CASE Accept(p)
  <2> DEFINE c == callId[p]
  <2>1. c \in Guests /\ calls[c].to = p
    BY <1>0, <1>3 DEF Accept, IsCallee
  <2>2. calls[c] \in Call
    BY <2>1, NoCallType, ScreensAssumption DEF TypeOK
  <2> DEFINE r == [calls[c] EXCEPT !.answers = @ + 1]
  <2>3. r \in Call
    BY <2>2 DEF Call
  <2>5. calls' = [calls EXCEPT ![c] = r]
    BY <1>3, Zenon DEF Accept
  <2> HIDE DEF r
  <2>4. calls' \in [Guests -> Call \cup {NoCall}]
    BY <2>3, <2>5 DEF TypeOK
  <2> QED
    BY <1>3, <2>4 DEF Accept, TypeOK, guest, staff, Queues, Peers
<1>4. CASE Decline(p)
  <2>1. calls' \in [Guests -> Call \cup {NoCall}]
    BY <1>4, NoCallType DEF Decline, TypeOK
  <2> QED
    BY <1>4, <2>1 DEF Decline, TypeOK, guest, Queues, Peers
<1>5. CASE Offer(p)
  BY <1>5 DEF Offer, TypeOK, guest, Queues, Peers
<1>6. CASE StaffMic(p)
  BY <1>6 DEF StaffMic, TypeOK, guest, Queues, Peers
<1>7. CASE StaffEnded(p)
  BY <1>7 DEF StaffEnded, StaffOver, TypeOK, guest, Queues, Peers
<1>8. CASE StaffEnds(p)
  <2>1. calls' \in [Guests -> Call \cup {NoCall}] /\ unheard' \subseteq Guests
    BY <1>0, <1>8, NoCallType DEF StaffEnds, TypeOK
  <2> QED
    BY <1>8, <2>1 DEF StaffEnds, StaffOver, TypeOK, Queues, Peers
<1>9. CASE Ready(p)
  BY <1>9 DEF Ready, TypeOK, guest, Queues, Peers
<1> QED
  BY <1>1, <1>2, <1>3, <1>4, <1>5, <1>6, <1>7, <1>8, <1>9 DEF StaffStep

LEMMA TypeStep ==
  ASSUME TypeOK, [Next]_vars
  PROVE  TypeOK'
<1>1. box' \in Queues
  BY EveryQueueStep DEF QueuesStep
<1>2. CASE UNCHANGED vars
  BY <1>2 DEF vars, guest, staff, TypeOK
<1> QED
  BY <1>1, <1>2, ServerTypes, GuestTypes, StaffTypes DEF Next

LEMMA InitTypes == Init => TypeOK
<1> SUFFICES ASSUME Init PROVE TypeOK
  OBVIOUS
<1>1. <<>> \in Seq(Message)
  BY EmptySeq
<1>2. box \in [Guests \cup Staff -> Seq(Message)]
  BY <1>1 DEF Init
<1> QED
  BY <1>2 DEF Init, TypeOK

\* Every variable of the two pages keeps its shape.
THEOREM TypeCorrect == Spec => []TypeOK
  BY InitTypes, TypeStep, PTL DEF Spec

(***************************************************************************)
(* The guest's page, and the call of a guest who is gone.                  *)
(***************************************************************************)

\* Nothing of the guest's call is at the server, or on its way there.
Over(g) == inFlight[g] = {} /\ calls[g] = NoCall

ClosedEmpty == \A x \in Peers : x \notin up => Waiting(box[x]) = {}

GuestInv(g) ==
  /\ screen[g] \in {"ENDED", "LEFT"} => g \in gone
  /\ g \in gone => /\ g \notin up
                   /\ mic[g] = "off" \/ g \in raced
                   /\ g \in unheard \/ Over(g)
  /\ (\E m \in Waiting(box[g]) : m.ev = "ended") => g \in unheard \/ Over(g)

PagesInv == TypeOK /\ ClosedEmpty /\ \A g \in Guests : GuestInv(g)

LEMMA ClosedEmptyStep ==
  ASSUME TypeOK, ClosedEmpty, [Next]_vars
  PROVE  ClosedEmpty'
<1> SUFFICES ASSUME NEW x \in Peers, x \notin up' PROVE Waiting(box'[x]) = {}
  BY DEF ClosedEmpty, Peers, Waiting
<1>1. QueueStep(x)
  BY EveryQueueStep DEF QueuesStep
<1>2. Loses(x) /\ (x \in up => Waiting(box'[x]) = {})
  BY <1>1 DEF QueueStep, Gets
<1> QED
  BY <1>2 DEF Loses, ClosedEmpty

\* A guest's page that is shut is not seen by any queue.
LEMMA NothingArrives ==
  ASSUME TypeOK, ClosedEmpty, NEW x \in Peers, box[x] # <<>>
  PROVE  x \in up
<1>1. Head(box[x]) \in Waiting(box[x])
  BY FirstIsMessage
<1> QED
  BY <1>1 DEF ClosedEmpty

\* What is not done by a guest's own page leaves it as it is.
LEMMA OthersLeaveIt ==
  ASSUME TypeOK, NEW g \in Guests, [Next]_vars, ~GuestStep(g)
  PROVE  /\ screen'[g] = screen[g] /\ mic'[g] = mic[g]
         /\ (g \in gone' <=> g \in gone) /\ (g \in up' <=> g \in up)
         /\ (g \in raced' <=> g \in raced)
<1>1. CASE UNCHANGED vars
  BY <1>1 DEF vars, guest
<1>2. ASSUME NEW h \in Guests, NEW n \in inFlight[h],
             Refuse(h, n) \/ \E p \in Staff : Route(h, n, p)
      PROVE  UNCHANGED <<guest, up>>
  BY <1>2 DEF Refuse, Route
<1>3. ASSUME NEW h \in Guests, h # g, GuestStep(h)
      PROVE  /\ screen'[g] = screen[g] /\ mic'[g] = mic[g]
             /\ (g \in gone' <=> g \in gone) /\ (g \in up' <=> g \in up)
             /\ (g \in raced' <=> g \in raced)
  <2>1. ASSUME Cleanup(h)
        PROVE  /\ mic'[g] = mic[g] /\ (g \in raced' <=> g \in raced)
               /\ (g \in gone' <=> g \in gone) /\ (g \in up' <=> g \in up)
    BY <1>3, <2>1 DEF Cleanup, TypeOK
  <2>2. CASE GuestConnects(h) \/ ConnectionLost(h)
    BY <1>3, <2>2 DEF GuestConnects, ConnectionLost, guest, TypeOK
  <2>3. CASE HangUp(h) \/ Leave(h) \/ GuestEnded(h)
    BY <1>3, <2>1, <2>3 DEF HangUp, Leave, GuestEnded, Shows, TypeOK
  <2>4. CASE GuestRefused(h) \/ GuestAccepted(h)
    BY <1>3, <2>4 DEF GuestRefused, GuestAccepted, Shows, TypeOK
  <2>5. CASE MicGranted(h) \/ MicDenied(h)
    BY <1>3, <2>5 DEF MicGranted, MicDenied, Shows, TypeOK
  <2> QED
    BY <1>3, <2>2, <2>3, <2>4, <2>5 DEF GuestStep
<1>4. ASSUME NEW p \in Staff, StaffStep(p)
      PROVE  UNCHANGED <<screen, gone, mic, raced>> /\ (g \in up' <=> g \in up)
  <2>1. g # p
    BY ScreensAssumption
  <2>2. CASE StaffConnects(p) \/ Incoming(p) \/ Decline(p)
    BY <2>1, <2>2 DEF StaffConnects, Incoming, Recreate, Decline, guest
  <2>3. CASE Accept(p) \/ Offer(p) \/ StaffMic(p) \/ StaffEnded(p) \/ Ready(p)
    BY <2>3 DEF Accept, Offer, StaffMic, StaffEnded, Ready, guest
  <2>4. CASE StaffEnds(p)
    BY <2>4 DEF StaffEnds
  <2> QED
    BY <1>4, <2>2, <2>3, <2>4 DEF StaffStep
<1> QED
  BY <1>1, <1>2, <1>3, <1>4 DEF Next, guest

LEMMA UnheardStays ==
  ASSUME [Next]_vars
  PROVE  unheard \subseteq unheard'
<1>1. ASSUME NEW h \in Guests, GuestStep(h) PROVE unheard \subseteq unheard'
  BY <1>1 DEF GuestStep, GuestConnects, ConnectionLost, HangUp, Leave, GuestRefused,
     GuestAccepted, MicGranted, MicDenied, GuestEnded, guest
<1>2. ASSUME NEW p \in Staff, StaffStep(p) PROVE unheard \subseteq unheard'
  BY <1>2 DEF StaffStep, StaffConnects, Incoming, Accept, Decline, Offer, StaffMic,
     StaffEnded, StaffEnds, Ready, guest
<1> QED
  BY <1>1, <1>2 DEF Next, Refuse, Route, guest, vars

\* A call that is over stays over until the page connects again.
LEMMA OverStays ==
  ASSUME TypeOK, NEW g \in Guests, Over(g), g \in up \cup gone, [Next]_vars
  PROVE  Over(g)'
<1>0. inFlight[g] = {} /\ calls[g] = NoCall /\ calls[g].to = None
  BY NoCallType DEF Over
<1>1. ASSUME NEW h \in Guests, NEW n \in inFlight[h],
             Refuse(h, n) \/ \E p \in Staff : Route(h, n, p)
      PROVE  Over(g)'
  <2>1. h # g
    BY <1>0
  <2>2. inFlight' = [inFlight EXCEPT ![h] = @ \ {n}]
    BY <1>1 DEF Refuse, Route
  <2>3. inFlight'[g] = {}
    BY <1>0, <2>1, <2>2 DEF TypeOK
  <2>4. calls'[g] = calls[g]
    BY <1>1, <2>1 DEF Refuse, Route, TypeOK
  <2> QED
    BY <1>0, <2>3, <2>4 DEF Over
<1>2. ASSUME NEW h \in Guests, GuestStep(h) PROVE Over(g)'
  <2>1. CASE GuestConnects(h)
    <3>1. h # g /\ UNCHANGED calls
      BY <2>1 DEF GuestConnects
    <3>2. inFlight'[g] = inFlight[g]
      BY <2>1, <3>1 DEF GuestConnects, TypeOK
    <3> QED
      BY <1>0, <3>1, <3>2 DEF Over
  <2>2. CASE HangUp(h)
    <3>1. UNCHANGED inFlight /\ (UNCHANGED calls \/ calls' = [calls EXCEPT ![h] = NoCall])
      BY <2>2 DEF HangUp, EndHeard
    <3> QED
      BY <1>0, <3>1 DEF Over, TypeOK
  <2> QED
    BY <1>0, <1>2, <2>1, <2>2 DEF GuestStep, ConnectionLost, Leave, GuestRefused,
       GuestAccepted, MicGranted, MicDenied, GuestEnded, Over
<1>3. ASSUME NEW p \in Staff, StaffStep(p) PROVE Over(g)'
  <2>0. UNCHANGED inFlight
    BY <1>3 DEF StaffStep, StaffConnects, Incoming, Accept, Decline, Offer, StaffMic,
       StaffEnded, StaffEnds, Ready
  <2>1. CASE Accept(p)
    <3>1. callId[p] # g
      BY <1>0, <2>1, ScreensAssumption DEF Accept, IsCallee
    <3>2. calls'[g] = calls[g]
      BY <2>1, <3>1 DEF Accept, TypeOK
    <3> QED
      BY <1>0, <2>0, <3>2 DEF Over
  <2>2. CASE Decline(p) \/ StaffEnds(p)
    <3>1. UNCHANGED calls \/ calls' = [calls EXCEPT ![callId[p]] = NoCall]
      BY <2>2 DEF Decline, StaffEnds
    <3> QED
      BY <1>0, <2>0, <3>1 DEF Over, TypeOK
  <2> QED
    BY <1>0, <1>3, <2>0, <2>1, <2>2 DEF StaffStep, StaffConnects, Incoming, Offer,
       StaffMic, StaffEnded, Ready, Over
<1> QED
  BY <1>0, <1>1, <1>2, <1>3 DEF Next, vars, Over

LEMMA EndedIsOver ==
  ASSUME PagesInv, [Next]_vars, NEW g \in Guests,
         NEW m \in Waiting(box'[g]), m.ev = "ended"
  PROVE  g \in unheard' \/ Over(g)'
<1>0. TypeOK /\ ClosedEmpty /\ GuestInv(g) /\ g \in Peers
  BY DEF PagesInv, Peers
<1>1. QueueStep(g)
  BY <1>0, EveryQueueStep DEF QueuesStep
<1>2. CASE m \in Waiting(box[g])
  <2>1. g \in up /\ (g \in unheard \/ Over(g))
    BY <1>0, <1>2 DEF ClosedEmpty, GuestInv
  <2> QED
    BY <1>0, <2>1, OverStays, UnheardStays
<1>3. CASE EndedBy(g, m)
  <2>1. PICK p \in Staff : StaffEnds(p) /\ callId[p] = g
    BY <1>3 DEF EndedBy
  <2>2. /\ calls' = [calls EXCEPT ![g] = NoCall] /\ UNCHANGED inFlight
        /\ inFlight[g] # {} => g \in unheard'
    BY <2>1 DEF StaffEnds
  <2> QED
    BY <1>0, <2>2 DEF Over, TypeOK
<1> QED
  BY <1>1, <1>2, <1>3 DEF QueueStep, Loses, Gets, Rung, Other

GoneInv(g) ==
  /\ screen[g] \in {"ENDED", "LEFT"} => g \in gone
  /\ g \in gone => /\ g \notin up
                   /\ mic[g] = "off" \/ g \in raced
                   /\ g \in unheard \/ Over(g)

LEMMA GoneStep ==
  ASSUME PagesInv, [Next]_vars, NEW g \in Guests
  PROVE  GoneInv(g)'
<1>0. /\ TypeOK /\ ClosedEmpty /\ GuestInv(g) /\ g \in Peers /\ GoneInv(g)
      /\ up \subseteq Peers
  BY DEF PagesInv, Peers, GuestInv, GoneInv, TypeOK
<1>1. g \in gone => g \in unheard' \/ Over(g)'
  BY <1>0, OverStays, UnheardStays DEF GoneInv
<1>2. CASE ~GuestStep(g)
  <2>1. /\ screen'[g] = screen[g] /\ mic'[g] = mic[g]
        /\ (g \in gone' <=> g \in gone) /\ (g \in up' <=> g \in up)
        /\ (g \in raced' <=> g \in raced)
    BY <1>0, <1>2, OthersLeaveIt
  <2> QED
    BY <1>0, <1>1, <2>1 DEF GoneInv
<1>3. ASSUME Cleanup(g)
      PROVE  g \in gone' /\ g \notin up' /\ (mic'[g] = "off" \/ g \in raced')
  BY <1>0, <1>3 DEF Cleanup, TypeOK
<1>4. \A ev : Arrives(g, ev) => g \in up /\ g \notin gone
  BY <1>0, NothingArrives DEF Arrives, GoneInv
<1>5. CASE GuestConnects(g)
  <2>1. g \notin gone' /\ screen'[g] = "RINGING"
    BY <1>0, <1>5 DEF GuestConnects, TypeOK
  <2> QED
    BY <2>1 DEF GoneInv
<1>6. CASE ConnectionLost(g)
  <2>1. UNCHANGED <<screen, gone, mic, raced>> /\ g \notin up'
    BY <1>6 DEF ConnectionLost, guest
  <2> QED
    BY <1>0, <1>1, <2>1 DEF GoneInv
<1>7. CASE HangUp(g)
  <2>1. Cleanup(g)
    BY <1>7 DEF HangUp
  <2>2. CASE g \notin up \/ inFlight[g] # {}
    <3>1. g \in unheard'
      BY <1>7, <2>2 DEF HangUp
    <3> QED
      BY <1>3, <2>1, <3>1 DEF GoneInv
  <2>3. CASE g \in up /\ inFlight[g] = {}
    <3>1. calls' = [calls EXCEPT ![g] = NoCall] /\ UNCHANGED inFlight
      BY <1>7, <2>3 DEF HangUp, EndHeard
    <3>2. Over(g)'
      BY <1>0, <2>3, <3>1 DEF Over, TypeOK
    <3> QED
      BY <1>3, <2>1, <3>2 DEF GoneInv
  <2> QED
    BY <2>2, <2>3
<1>8. CASE Leave(g)
  <2>1. Cleanup(g) /\ g \in unheard'
    BY <1>8 DEF Leave
  <2> QED
    BY <1>3, <2>1 DEF GoneInv
<1>9. CASE GuestRefused(g)
  <2>1. g \notin gone' /\ screen'[g] = "ERROR"
    BY <1>0, <1>4, <1>9 DEF GuestRefused, Shows, TypeOK
  <2> QED
    BY <2>1 DEF GoneInv
<1>10. CASE GuestAccepted(g)
  <2>1. g \notin gone' /\ UNCHANGED screen
    BY <1>4, <1>10 DEF GuestAccepted
  <2> QED
    BY <1>0, <1>10, <2>1 DEF GoneInv, GuestAccepted
<1>11. CASE MicGranted(g)
  <2>1. UNCHANGED <<gone, raced, up>> /\ mic[g] = "asking"
    BY <1>11 DEF MicGranted
  <2>2. CASE g \in gone
    <3>1. g \in raced
      BY <1>0, <2>1, <2>2 DEF GoneInv
    <3> QED
      BY <1>0, <1>1, <2>1, <2>2, <3>1 DEF GoneInv
  <2>3. CASE g \notin gone
    <3>1. screen'[g] = "CONNECTED"
      BY <1>0, <1>11, <2>3 DEF MicGranted, Shows, TypeOK
    <3> QED
      BY <2>1, <2>3, <3>1 DEF GoneInv
  <2> QED
    BY <2>2, <2>3
<1>12. CASE MicDenied(g)
  <2>1. /\ UNCHANGED <<gone, raced, up>> /\ mic'[g] = "off"
        /\ screen'[g] = "ERROR" \/ (screen'[g] = "LEFT" /\ screen[g] = "LEFT")
    BY <1>0, <1>12 DEF MicDenied, TypeOK
  <2> QED
    BY <1>0, <1>1, <2>1 DEF GoneInv
<1>13. CASE GuestEnded(g)
  <2>1. Arrives(g, "ended") /\ Cleanup(g)
    BY <1>13 DEF GuestEnded
  <2>2. Head(box[g]) \in Waiting(box[g]) /\ Head(box[g]).ev = "ended"
    BY <1>0, <2>1, FirstIsMessage DEF Arrives
  <2>3. g \in unheard \/ Over(g)
    BY <1>0, <2>2 DEF GuestInv
  <2>4. g \in unheard' \/ Over(g)'
    BY <1>0, <1>4, <2>1, <2>3, OverStays, UnheardStays
  <2> QED
    BY <1>3, <2>1, <2>4 DEF GoneInv
<1> QED
  BY <1>2, <1>5, <1>6, <1>7, <1>8, <1>9, <1>10, <1>11, <1>12, <1>13 DEF GuestStep

LEMMA PagesInvStep ==
  ASSUME PagesInv, [Next]_vars
  PROVE  PagesInv'
<1>1. TypeOK' /\ ClosedEmpty'
  BY TypeStep, ClosedEmptyStep DEF PagesInv
<1>2. ASSUME NEW g \in Guests PROVE GuestInv(g)'
  <2>1. GoneInv(g)'
    BY GoneStep
  <2>2. \A m \in Waiting(box'[g]) : m.ev = "ended" => g \in unheard' \/ Over(g)'
    BY EndedIsOver
  <2>3. Waiting(box[g])' = Waiting(box'[g])
    BY DEF Waiting
  <2> QED
    BY <2>1, <2>2, <2>3 DEF GuestInv, GoneInv
<1> QED
  BY <1>1, <1>2 DEF PagesInv

LEMMA InitPages == Init => PagesInv
<1> SUFFICES ASSUME Init PROVE PagesInv
  OBVIOUS
<1>1. \A x \in Peers : Waiting(box[x]) = {}
  <2>1. \A x \in Peers : box[x] = <<>>
    BY DEF Init, Peers
  <2>2. Waiting(<<>>) = {}
    BY EmptySeq DEF Waiting
  <2> QED
    BY <2>1, <2>2
<1>2. ASSUME NEW g \in Guests PROVE GuestInv(g)
  BY <1>1 DEF GuestInv, Init, Peers
<1> QED
  BY <1>1, <1>2, InitTypes DEF PagesInv, ClosedEmpty

LEMMA PagesAlways == Spec => []PagesInv
  BY InitPages, PagesInvStep, PTL DEF Spec

\* A call that outlives its guest's page is one that the page left, or ended
\* on a lost connection, or that was ended while an initiate was under way.
THEOREM CallsHaveSomebody == Spec => []NoCallOfNobody
<1>1. PagesInv => NoCallOfNobody
  BY DEF PagesInv, GuestInv, Over, NoCallOfNobody, TypeOK
<1> QED
  BY <1>1, PagesAlways, PTL

\* A page that shows the end of a call, or is shut, has let the microphone go
\* if it was accepted once and its prompt was answered before the end. Of the
\* other pages, those in raced, nothing is claimed: they may keep it.
THEOREM MicrophonesAreReleased == Spec => []MicrophoneReleased
<1>1. PagesInv => MicrophoneReleased
  BY DEF PagesInv, GuestInv, MicrophoneReleased
<1> QED
  BY <1>1, PagesAlways, PTL

(***************************************************************************)
(* Of which call the offers are that reach a staff page.                   *)
(***************************************************************************)

\* Every offer in the queue is of the call the page has, or comes after the
\* ring of its call: taking that ring, the page takes up the call, or leaves
\* the socket and all that waits there.
RingOf(g) == [ev |-> "incoming", call |-> g]
InStep(c, s) ==
  \A k \in 1..Len(s) : s[k].ev = "sdp" =>
    s[k].call = c \/ \E j \in 1..(k - 1) : s[j] = RingOf(s[k].call)

LEMMA InStepQueue ==
  ASSUME NEW c, NEW s \in Seq(Message), InStep(c, s)
  PROVE  /\ \A m \in Message :
              (m.ev = "sdp" => m.call = c \/ RingOf(m.call) \in Waiting(s))
                => InStep(c, Append(s, m))
         /\ s # <<>> =>
              /\ (Head(s).ev = "incoming" => Head(s).call = c) => InStep(c, Tail(s))
              /\ Head(s).ev = "sdp" => Head(s).call = c
              /\ Waiting(s) \subseteq Waiting(Tail(s)) \cup {Head(s)}
<1>1. Len(s) \in Nat
  BY LenProperties
<1>2. ASSUME NEW m \in Message,
             m.ev = "sdp" => m.call = c \/ RingOf(m.call) \in Waiting(s)
      PROVE  InStep(c, Append(s, m))
  <2>1. /\ Len(Append(s, m)) = Len(s) + 1
        /\ \A i \in 1..Len(s) : Append(s, m)[i] = s[i]
        /\ Append(s, m)[Len(s) + 1] = m
    BY AppendProperties
  <2> DEFINE t == Append(s, m)
  <2> SUFFICES ASSUME NEW k \in 1..Len(t), t[k].ev = "sdp"
               PROVE  t[k].call = c \/ \E j \in 1..(k - 1) : t[j] = RingOf(t[k].call)
    BY DEF InStep
  <2> HIDE DEF t
  <2>2. Len(t) = Len(s) + 1 /\ t[Len(s) + 1] = m /\ \A i \in 1..Len(s) : t[i] = s[i]
    BY <2>1 DEF t
  <2>3. CASE k \in 1..Len(s)
    <3>1. s[k].call = c \/ \E j \in 1..(k - 1) : s[j] = RingOf(s[k].call)
      BY <2>2, <2>3 DEF InStep
    <3>2. \A j \in 1..(k - 1) : t[j] = s[j]
      BY <1>1, <2>2, <2>3
    <3> QED
      BY <2>2, <2>3, <3>1, <3>2
  <2>4. CASE k = Len(s) + 1
    <3>1. m.call = c \/ \E j \in 1..Len(s) : s[j] = RingOf(m.call)
      BY <1>2, <2>2, <2>4 DEF Waiting
    <3> QED
      BY <1>1, <2>2, <2>4, <3>1
  <2> QED
    BY <1>1, <2>2, <2>3, <2>4
<1>3. ASSUME s # <<>>
      PROVE  /\ (Head(s).ev = "incoming" => Head(s).call = c) => InStep(c, Tail(s))
             /\ Head(s).ev = "sdp" => Head(s).call = c
             /\ Waiting(s) \subseteq Waiting(Tail(s)) \cup {Head(s)}
  <2>1. /\ Len(s) >= 1 /\ Head(s) = s[1] /\ Len(Tail(s)) = Len(s) - 1
        /\ \A i \in 1..Len(Tail(s)) : Tail(s)[i] = s[i + 1]
    BY <1>1, <1>3, HeadTailProperties, EmptySeq
  <2>2. Head(s).ev = "sdp" => Head(s).call = c
    BY <1>1, <2>1 DEF InStep
  <2>3. ASSUME Head(s).ev = "incoming" => Head(s).call = c,
               NEW k \in 1..Len(Tail(s)), Tail(s)[k].ev = "sdp"
        PROVE  \/ Tail(s)[k].call = c
               \/ \E j \in 1..(k - 1) : Tail(s)[j] = RingOf(Tail(s)[k].call)
    <3>1. k + 1 \in 1..Len(s) /\ Tail(s)[k] = s[k + 1]
      BY <1>1, <2>1
    <3>2. s[k + 1].call = c \/ \E j \in 1..k : s[j] = RingOf(s[k + 1].call)
      BY <2>3, <3>1 DEF InStep
    <3>3. ASSUME NEW j \in 1..k, s[j] = RingOf(s[k + 1].call), s[k + 1].call # c
          PROVE  \E i \in 1..(k - 1) : Tail(s)[i] = RingOf(s[k + 1].call)
      <4>1. j # 1
        BY <2>1, <2>3, <3>3 DEF RingOf
      <4>2. j - 1 \in 1..(k - 1) /\ j - 1 \in 1..Len(Tail(s)) /\ (j - 1) + 1 = j
        BY <1>1, <2>1, <4>1
      <4> QED
        BY <2>1, <3>3, <4>2
    <3> QED
      BY <3>1, <3>2, <3>3
  <2>4. ASSUME NEW i \in 1..Len(s) PROVE s[i] = Head(s) \/ s[i] \in Waiting(Tail(s))
    <3>1. CASE i = 1
      BY <2>1, <3>1
    <3>2. CASE i # 1
      <4>1. i - 1 \in 1..Len(Tail(s)) /\ (i - 1) + 1 = i
        BY <1>1, <2>1, <3>2
      <4> QED
        BY <2>1, <4>1 DEF Waiting
    <3> QED
      BY <3>1, <3>2
  <2>5. Waiting(s) \subseteq Waiting(Tail(s)) \cup {Head(s)}
    BY <2>4 DEF Waiting
  <2>6. (Head(s).ev = "incoming" => Head(s).call = c) => InStep(c, Tail(s))
    BY <2>3 DEF InStep
  <2> QED
    BY <2>2, <2>5, <2>6
<1> QED
  BY <1>2, <1>3

\* A page that the server knows as the callee of a call has the call, or has
\* its ring still to take.
OfferInv(p) ==
  /\ InStep(callId[p], box[p])
  /\ \A g \in Guests : calls[g].to = p => calls[g].sock <= sock[p]
  /\ \A g \in Guests : IsCallee(p, g) => callId[p] = g \/ RingOf(g) \in Waiting(box[p])
OffersInv == \A p \in Staff : OfferInv(p)

LEMMA PairTypes ==
  ASSUME TypeOK, NEW p \in Staff
  PROVE  /\ p # None /\ p \notin Guests /\ p \in Peers
         /\ sock[p] \in Nat /\ box[p] \in Seq(Message) /\ callId[p] \in Guests \cup {None}
         /\ \A g \in Guests : calls[g].sock \in Nat /\ g # None /\ g \in Peers
<1>1. p # None /\ p \notin Guests /\ p \in Peers /\ \A g \in Guests : g # None /\ g \in Peers
  BY ScreensAssumption DEF Peers
<1>2. sock[p] \in Nat /\ box[p] \in Seq(Message) /\ callId[p] \in Guests \cup {None}
  BY <1>1 DEF TypeOK, Peers
<1>3. ASSUME NEW g \in Guests PROVE calls[g].sock \in Nat
  BY DEF TypeOK, Call, NoCall
<1> QED
  BY <1>1, <1>2, <1>3

\* Where the page and its socket rest, its calls end at most, and what is
\* added to its queue is no offer of another call.
LEMMA OfferRests ==
  ASSUME TypeOK, NEW p \in Staff, OfferInv(p),
         sock'[p] = sock[p], callId'[p] = callId[p], p \in up' => p \in up,
         \A g \in Guests : calls'[g].to = p =>
           calls[g].to = p /\ calls'[g].sock = calls[g].sock,
         \/ box'[p] = box[p]
         \/ \E m \in Message : /\ box'[p] = Append(box[p], m)
                               /\ m.ev = "sdp" => m.call \in Guests /\ IsCallee(p, m.call)
  PROVE  OfferInv(p)'
<1>1. box[p] \in Seq(Message) /\ InStep(callId[p], box[p])
  BY PairTypes DEF OfferInv
<1>2. InStep(callId[p], box'[p]) /\ Waiting(box[p]) \subseteq Waiting(box'[p])
  <2>1. CASE box'[p] = box[p]
    BY <1>1, <2>1
  <2>2. ASSUME NEW m \in Message, box'[p] = Append(box[p], m),
               m.ev = "sdp" => m.call \in Guests /\ IsCallee(p, m.call)
        PROVE  InStep(callId[p], box'[p]) /\ Waiting(box[p]) \subseteq Waiting(box'[p])
    <3>1. m.ev = "sdp" => m.call = callId[p] \/ RingOf(m.call) \in Waiting(box[p])
      BY <2>2 DEF OfferInv
    <3>2. InStep(callId[p], Append(box[p], m))
      BY <1>1, <3>1, InStepQueue
    <3>3. Waiting(Append(box[p], m)) = Waiting(box[p]) \cup {m}
      BY <1>1, QueueEffect
    <3> QED
      BY <2>2, <3>2, <3>3
  <2> QED
    BY <2>1, <2>2
<1>3. \A g \in Guests : IsCallee(p, g)' => IsCallee(p, g)
  BY DEF IsCallee
<1>4. InStep(callId[p], box[p])' = InStep(callId'[p], box'[p])
  BY DEF InStep
<1>5. Waiting(box[p])' = Waiting(box'[p])
  BY DEF Waiting
<1>6. \A g \in Guests : RingOf(g)' = RingOf(g)
  BY DEF RingOf
<1> QED
  BY <1>2, <1>3, <1>4, <1>5, <1>6 DEF OfferInv

\* A page that has left its socket, with its queue, is nobody's callee.
LEMMA OfferGone ==
  ASSUME TypeOK, NEW p \in Staff, OfferInv(p), UNCHANGED sock, p \notin up', box'[p] = <<>>,
         \A g \in Guests : calls'[g].to = p =>
           calls[g].to = p /\ calls'[g].sock = calls[g].sock
  PROVE  OfferInv(p)'
<1>1. InStep(callId[p], box[p])'
  BY EmptySeq DEF InStep
<1>2. \A g \in Guests : ~IsCallee(p, g)'
  BY DEF IsCallee
<1> QED
  BY <1>1, <1>2 DEF OfferInv

LEMMA OfferByServer ==
  ASSUME TypeOK, NEW p \in Staff, OfferInv(p), NEW h \in Guests, NEW n \in inFlight[h],
         Refuse(h, n) \/ \E q \in Staff : Route(h, n, q)
  PROVE  OfferInv(p)'
<1>0. /\ p \notin Guests /\ p \in Peers /\ box \in Queues /\ up \subseteq Peers
      /\ sock[p] \in Nat /\ box[p] \in Seq(Message)
  BY PairTypes DEF TypeOK, Queues, Peers
<1>1. CASE Refuse(h, n)
  <2> DEFINE m == [ev |-> "error", call |-> h]
  <2>1. m \in Message /\ box' = Emit(box, h, n, m)
    BY <1>1 DEF Refuse, Message
  <2> HIDE DEF m
  <2>2. box'[p] = box[p]
    BY <1>0, <2>1, EmitEffect
  <2>3. UNCHANGED <<sock, up, callId, calls>>
    BY <1>1 DEF Refuse, staff
  <2> QED
    BY <2>2, <2>3, OfferRests
<1>2. ASSUME NEW q \in Staff, Route(h, n, q) PROVE OfferInv(p)'
  <2>1. /\ UNCHANGED <<sock, up, callId>> /\ RingOf(h) \in Message
        /\ box' = [box EXCEPT ![q] = Append(@, RingOf(h))]
    BY <1>2 DEF Route, staff, RingOf, Message
  <2>2. /\ \A g \in Guests \ {h} : calls'[g] = calls[g]
        /\ calls'[h].to = q /\ calls'[h].sock = sock[q]
    BY <1>2 DEF Route, TypeOK
  <2>3. CASE p # q
    <3>1. box'[p] = box[p]
      BY <1>0, <2>1, <2>3 DEF Queues
    <3> QED
      BY <2>1, <2>2, <2>3, <3>1, OfferRests
  <2>4. CASE p = q
    <3>1. box'[p] = Append(box[p], RingOf(h))
      BY <1>0, <2>1, <2>4 DEF Queues
    <3>2. RingOf(h).ev # "sdp"
      BY DEF RingOf
    <3>3. /\ InStep(callId[p], box'[p])
          /\ Waiting(box'[p]) = Waiting(box[p]) \cup {RingOf(h)}
      <4>1. InStep(callId[p], box[p])
        BY DEF OfferInv
      <4>2. InStep(callId[p], Append(box[p], RingOf(h)))
        BY <1>0, <2>1, <3>2, <4>1, InStepQueue
      <4>3. Waiting(Append(box[p], RingOf(h))) = Waiting(box[p]) \cup {RingOf(h)}
        BY <1>0, <2>1, QueueEffect
      <4> QED
        BY <3>1, <4>2, <4>3
    <3>4. \A g \in Guests : calls'[g].to = p => calls'[g].sock <= sock[p]
      BY <1>0, <2>2, <2>4 DEF OfferInv
    <3>5. \A g \in Guests \ {h} : IsCallee(p, g)' => IsCallee(p, g)
      BY <2>1, <2>2 DEF IsCallee
    <3>6. InStep(callId[p], box[p])' = InStep(callId'[p], box'[p])
      BY DEF InStep
    <3>7. Waiting(box[p])' = Waiting(box'[p])
      BY DEF Waiting
    <3>8. \A g \in Guests : RingOf(g)' = RingOf(g)
      BY DEF RingOf
    <3> QED
      BY <2>1, <3>3, <3>4, <3>5, <3>6, <3>7, <3>8 DEF OfferInv
  <2> QED
    BY <2>3, <2>4
<1> QED
  BY <1>1, <1>2

\* What the server tells the callee of a call goes to that page.
LEMMA ToCalleeEffect ==
  ASSUME TypeOK, NEW p \in Staff, NEW h \in Guests, NEW ev \in {"ended", "sdp"}
  PROVE  /\ ToCallee(h, ev) \in Queues
         /\ \/ ToCallee(h, ev)[p] = box[p]
            \/ IsCallee(p, h) /\ ToCallee(h, ev)[p] = Append(box[p], [ev |-> ev, call |-> h])
<1> DEFINE m == [ev |-> ev, call |-> h]
<1>0. p \in Peers /\ box \in Queues /\ up \subseteq Peers /\ h # None
  BY PairTypes DEF TypeOK, Queues, Peers
<1>1. m \in Message /\ ToCallee(h, ev) = Emit(box, calls[h].to, calls[h].sock, m)
  BY DEF ToCallee, Message
<1> HIDE DEF m
<1>2. Emit(box, calls[h].to, calls[h].sock, m) \in Queues
  BY <1>0, <1>1, EmitEffect
<1>3. CASE calls[h].to \in up /\ sock[calls[h].to] = calls[h].sock
  <2>1. ToCallee(h, ev) = [box EXCEPT ![calls[h].to] = Append(@, m)]
    BY <1>1, <1>3 DEF Emit
  <2> QED
    BY <1>0, <1>1, <1>2, <1>3, <2>1 DEF IsCallee, Queues, m
<1>4. CASE ~(calls[h].to \in up /\ sock[calls[h].to] = calls[h].sock)
  BY <1>0, <1>1, <1>4 DEF Emit
<1> QED
  BY <1>1, <1>2, <1>3, <1>4

LEMMA OfferByGuest ==
  ASSUME TypeOK, NEW p \in Staff, OfferInv(p), NEW h \in Guests, GuestStep(h)
  PROVE  OfferInv(p)'
<1>0. p # h /\ p \in Peers /\ box \in Queues /\ box[p] \in Seq(Message)
  BY PairTypes DEF TypeOK, Queues, Peers
<1>1. UNCHANGED callId
  BY DEF GuestStep, GuestConnects, ConnectionLost, HangUp, Leave, GuestRefused,
     GuestAccepted, MicGranted, MicDenied, GuestEnded, staff
<1>2. UNCHANGED calls \/ calls' = [calls EXCEPT ![h] = NoCall]
  BY DEF GuestStep, GuestConnects, ConnectionLost, HangUp, EndHeard, Leave, GuestRefused,
     GuestAccepted, MicGranted, MicDenied, GuestEnded
<1>3. UNCHANGED sock \/ sock' = [sock EXCEPT ![h] = @ + 1]
  BY DEF GuestStep, GuestConnects, ConnectionLost, HangUp, Leave, GuestRefused,
     GuestAccepted, MicGranted, MicDenied, GuestEnded
<1>4. up' = up \/ up' = up \cup {h} \/ up' = up \ {h}
  BY DEF GuestStep, GuestConnects, ConnectionLost, HangUp, Leave, GuestRefused,
     GuestAccepted, MicGranted, MicDenied, GuestEnded, Cleanup
<1>5. /\ sock'[p] = sock[p] /\ (p \in up' => p \in up)
      /\ \A g \in Guests : calls'[g].to = p => calls'[g] = calls[g]
  BY <1>0, <1>2, <1>3, <1>4, NoCallType, PairTypes DEF TypeOK
<1>6. \/ box'[p] = box[p]
      \/ \E m \in Message : /\ box'[p] = Append(box[p], m)
                            /\ m.ev = "sdp" => m.call \in Guests /\ IsCallee(p, m.call)
  <2> DEFINE b(ev) == ToCallee(h, ev)
  <2>1. ASSUME NEW ev \in {"ended", "sdp"}, box'[p] = b(ev)[p]
        PROVE  \/ box'[p] = box[p]
               \/ \E m \in Message :
                    /\ box'[p] = Append(box[p], m)
                    /\ m.ev = "sdp" => m.call \in Guests /\ IsCallee(p, m.call)
    <3>1. [ev |-> ev, call |-> h] \in Message
      BY DEF Message
    <3> QED
      BY <2>1, <3>1, ToCalleeEffect
  <2>2. \A ev \in {"ended", "sdp"} : b(ev) \in Queues
    BY ToCalleeEffect
  <2> HIDE DEF b
  <2>3. \/ box' = box \/ box' = [box EXCEPT ![h] = <<>>] \/ box' = [box EXCEPT ![h] = Tail(@)]
        \/ box' = b("sdp") \/ box' = [b("ended") EXCEPT ![h] = <<>>]
    BY DEF GuestStep, GuestConnects, ConnectionLost, HangUp, EndHeard, Leave, GuestRefused,
       GuestAccepted, MicGranted, MicDenied, GuestEnded, Taken, b
  <2>4. box'[p] = box[p] \/ box'[p] = b("sdp")[p] \/ box'[p] = b("ended")[p]
    BY <1>0, <2>2, <2>3 DEF Queues
  <2> QED
    BY <2>1, <2>4
<1> QED
  BY <1>1, <1>5, <1>6, OfferRests

\* Staff answer, end and decline calls; they route none.
LEMMA CallsOfStaff ==
  ASSUME TypeOK, NEW q \in Staff, StaffStep(q), NEW p \in Staff
  PROVE  \A g \in Guests : calls'[g].to = p =>
           calls[g].to = p /\ calls'[g].sock = calls[g].sock
<1>0. p # None
  BY PairTypes
<1>1. CASE Accept(q)
  <2> DEFINE c == callId[q]
             r == [calls[c] EXCEPT !.answers = @ + 1]
  <2>1. c \in Guests /\ calls[c].to = q
    BY <1>1, PairTypes DEF Accept, IsCallee
  <2>2. calls[c] \in Call
    BY <2>1, NoCallType, PairTypes DEF TypeOK
  <2>3. calls' = [calls EXCEPT ![c] = r]
    BY <1>1, Zenon DEF Accept
  <2>4. r.to = calls[c].to /\ r.sock = calls[c].sock
    BY <2>2 DEF Call
  <2> HIDE DEF c, r
  <2> QED
    BY <2>1, <2>3, <2>4 DEF TypeOK
<1>2. CASE ~Accept(q)
  <2>1. UNCHANGED calls \/ calls' = [calls EXCEPT ![callId[q]] = NoCall]
    BY <1>2 DEF StaffStep, StaffConnects, Incoming, Decline, Offer, StaffMic,
       StaffEnded, StaffEnds, Ready
  <2> QED
    BY <1>0, <2>1, NoCallType DEF TypeOK
<1> QED
  BY <1>1, <1>2

\* What a member of staff emits is for the guest.
LEMMA QueueOfOthers ==
  ASSUME TypeOK, NEW p \in Staff, NEW q \in Staff, StaffStep(q)
  PROVE  \/ /\ box'[p] = box[p]
            /\ \/ p # q \/ StaffConnects(p) \/ StaffMic(p) \/ Ready(p)
               \/ Accept(p) \/ StaffEnds(p)
         \/ /\ p = q /\ box'[p] = Tail(box[p])
            /\ \/ Incoming(p) /\ Head(box[p]).call = callId[p]
               \/ Offer(p) \/ StaffEnded(p)
         \/ /\ p = q /\ box'[p] = <<>> /\ p \notin up'
            /\ Incoming(p) \/ Decline(p)
<1>0. /\ p \in Peers /\ p \notin Guests /\ box \in Queues /\ up \subseteq Peers
      /\ callId[q] \in Guests \cup {None}
  BY PairTypes DEF TypeOK, Queues, Peers
<1>1. ASSUME NEW ev \in {"accepted", "rejected", "ended"}, callId[q] \in Guests
      PROVE  ToCaller(callId[q], ev) \in Queues /\ ToCaller(callId[q], ev)[p] = box[p]
  <2> DEFINE m == [ev |-> ev, call |-> callId[q]]
  <2>1. m \in Message /\ ToCaller(callId[q], ev) = Emit(box, callId[q], calls[callId[q]].from, m)
    BY <1>1 DEF Message, ToCaller
  <2> HIDE DEF m
  <2> QED
    BY <1>0, <1>1, <2>1, EmitEffect
<1>2. CASE StaffConnects(q) \/ StaffMic(q) \/ Ready(q)
  BY <1>2 DEF StaffConnects, StaffMic, Ready
<1>3. CASE Offer(q) \/ StaffEnded(q)
  <2>1. box' = [box EXCEPT ![q] = Tail(@)]
    BY <1>3 DEF Offer, StaffEnded, Taken
  <2> QED
    BY <1>0, <1>3, <2>1 DEF Queues
<1>4. CASE Incoming(q)
  <2>1. \/ box' = [box EXCEPT ![q] = Tail(@)] /\ Head(box[q]).call = callId[q]
        \/ box' = [box EXCEPT ![q] = <<>>] /\ up' = up \ {q}
    BY <1>4 DEF Incoming, Recreate, Taken
  <2> QED
    BY <1>0, <1>4, <2>1 DEF Queues
<1>5. CASE Accept(q)
  BY <1>0, <1>1, <1>5 DEF Accept
<1>6. CASE StaffEnds(q)
  BY <1>0, <1>1, <1>6 DEF StaffEnds
<1>7. CASE Decline(q)
  <2> DEFINE b == IF IsCallee(q, callId[q]) THEN ToCaller(callId[q], "rejected") ELSE box
  <2>1. b \in Queues /\ b[p] = box[p]
    BY <1>0, <1>1 DEF IsCallee
  <2>2. box' = [b EXCEPT ![q] = <<>>] /\ up' = up \ {q}
    BY <1>7 DEF Decline
  <2> HIDE DEF b
  <2> QED
    BY <1>0, <1>7, <2>1, <2>2 DEF Queues
<1> QED
  BY <1>2, <1>3, <1>4, <1>5, <1>6, <1>7 DEF StaffStep

LEMMA OfferByStaff ==
  ASSUME TypeOK, NEW p \in Staff, OfferInv(p), NEW q \in Staff, StaffStep(q)
  PROVE  OfferInv(p)'
<1>0. /\ p \in Peers /\ sock[p] \in Nat /\ box[p] \in Seq(Message) /\ p # None
      /\ \A g \in Guests : calls[g].sock \in Nat
  BY PairTypes
<1>1. \A g \in Guests : calls'[g].to = p =>
        calls[g].to = p /\ calls'[g].sock = calls[g].sock
  BY CallsOfStaff
<1>2. CASE StaffConnects(p)
  <2>1. UNCHANGED <<calls, callId, box>> /\ sock'[p] = sock[p] + 1
    BY <1>0, <1>2 DEF StaffConnects, staff, TypeOK, Peers
  <2>2. \A g \in Guests : calls'[g].to = p => calls'[g].sock < sock'[p]
    BY <1>0, <2>1 DEF OfferInv
  <2>3. \A g \in Guests : ~IsCallee(p, g)'
    BY <1>0, <2>1, <2>2 DEF IsCallee
  <2>4. InStep(callId[p], box[p])'
    BY <2>1 DEF OfferInv, InStep
  <2> QED
    BY <1>0, <2>1, <2>2, <2>3, <2>4 DEF OfferInv
<1>3. CASE /\ box'[p] = Tail(box[p])
           /\ \/ Incoming(p) /\ Head(box[p]).call = callId[p]
              \/ Offer(p) \/ StaffEnded(p)
  <2>1. /\ box[p] # <<>> /\ UNCHANGED <<sock, calls, up>> /\ callId'[p] = callId[p]
        /\ Head(box[p]).ev = "incoming" => Head(box[p]).call = callId[p]
    <3>1. CASE Incoming(p) /\ Head(box[p]).call = callId[p]
      BY <3>1 DEF Incoming, Recreate, Arrives, TypeOK
    <3>2. CASE Offer(p) \/ StaffEnded(p)
      BY <3>2 DEF Offer, StaffEnded, Arrives
    <3> QED
      BY <1>3, <3>1, <3>2
  <2>2. /\ InStep(callId[p], box'[p])
        /\ Waiting(box[p]) \subseteq Waiting(box'[p]) \cup {Head(box[p])}
    BY <1>0, <1>3, <2>1, InStepQueue DEF OfferInv
  <2>3. \A g \in Guests : IsCallee(p, g)' => IsCallee(p, g)
    BY <2>1 DEF IsCallee
  <2>4. ASSUME NEW g \in Guests, IsCallee(p, g), callId[p] # g
        PROVE  RingOf(g) \in Waiting(box'[p])
    <3>1. RingOf(g) \in Waiting(box[p])
      BY <2>4 DEF OfferInv
    <3>2. RingOf(g) # Head(box[p])
      BY <2>1, <2>4 DEF RingOf
    <3> QED
      BY <2>2, <3>1, <3>2
  <2>5. InStep(callId[p], box[p])' = InStep(callId'[p], box'[p])
    BY DEF InStep
  <2>6. Waiting(box[p])' = Waiting(box'[p])
    BY DEF Waiting
  <2>7. \A g \in Guests : RingOf(g)' = RingOf(g)
    BY DEF RingOf
  <2> QED
    BY <2>1, <2>2, <2>3, <2>4, <2>5, <2>6, <2>7 DEF OfferInv
<1>4. CASE box'[p] = <<>> /\ p \notin up' /\ (Incoming(p) \/ Decline(p))
  <2>1. UNCHANGED sock
    BY <1>4 DEF Incoming, Decline
  <2> QED
    BY <1>1, <1>4, <2>1, OfferGone
<1>5. CASE /\ box'[p] = box[p]
           /\ p # q \/ StaffMic(p) \/ Ready(p) \/ Accept(p) \/ StaffEnds(p)
  <2>1. sock'[p] = sock[p] /\ callId'[p] = callId[p] /\ (p \in up' => p \in up)
    <3>1. CASE StaffMic(p) \/ Ready(p) \/ Accept(p) \/ StaffEnds(p)
      BY <3>1 DEF Accept, StaffMic, StaffEnds, Ready, staff
    <3>2. CASE p # q
      BY <3>2 DEF StaffStep, StaffConnects, Incoming, Recreate, Accept, Decline, Offer,
         StaffMic, StaffEnded, StaffEnds, Ready, staff, TypeOK
    <3> QED
      BY <1>5, <3>1, <3>2
  <2> QED
    BY <1>1, <1>5, <2>1, OfferRests
<1> QED
  BY <1>2, <1>3, <1>4, <1>5, QueueOfOthers

LEMMA OfferStep ==
  ASSUME TypeOK, NEW p \in Staff, OfferInv(p), [Next]_vars
  PROVE  OfferInv(p)'
<1>1. CASE UNCHANGED vars
  <2>1. UNCHANGED <<sock, up, calls, callId, box>>
    BY <1>1 DEF vars, staff
  <2> QED
    BY <2>1, OfferRests
<1> QED
  BY <1>1, OfferByServer, OfferByGuest, OfferByStaff DEF Next

LEMMA InitOffers == Init => OffersInv
<1> SUFFICES ASSUME Init, NEW p \in Staff PROVE OfferInv(p)
  BY DEF OffersInv
<1>1. box[p] = <<>> /\ \A g \in Guests : calls[g].to = None
  BY NoCallType DEF Init
<1>2. None # p
  BY ScreensAssumption
<1>3. InStep(callId[p], box[p])
  BY <1>1, EmptySeq DEF InStep
<1> QED
  BY <1>1, <1>2, <1>3 DEF OfferInv, IsCallee

\* Whatever calls ring a staff page, and whenever, an offer that it takes is of
\* the call whose id it answers with.
THEOREM OffersAreOfCallShown == Spec => []OfferIsOfCallShown
<1>1. TypeOK /\ OffersInv /\ [Next]_vars => OffersInv'
  BY OfferStep DEF OffersInv
<1>2. TypeOK /\ OffersInv => OfferIsOfCallShown
  <2> SUFFICES ASSUME TypeOK, OffersInv, NEW p \in Staff, Arrives(p, "sdp")
               PROVE  Head(box[p]).call = callId[p]
    BY DEF OfferIsOfCallShown
  <2>1. box[p] \in Seq(Message) /\ InStep(callId[p], box[p])
    BY PairTypes DEF OffersInv, OfferInv
  <2> QED
    BY <2>1, InStepQueue DEF Arrives
<1> QED
  BY <1>1, <1>2, InitOffers, TypeCorrect, PTL DEF Spec

(***************************************************************************)
(* The guest's browser and the front desk.                                 *)
(***************************************************************************)
LEMMA DeskActions ==
  ASSUME [CheckInNext]_checkInVars
  PROVE  \/ \E p \in Pages : Visit(p)
         \/ TokenExpires \/ AnswerLost
         \/ \E b \in Bookings : SubmitDetails(b)
         \/ SendAnswered \/ Resend \/ SubmitCode \/ CodeAnswered
         \/ RegisterAnswered \/ Upload \/ UploadAnswered
         \/ \E p \in Polling : SendPoll(p)
         \/ PendingAnswered \/ DashboardAnswered
         \/ \E r \in Reviews : ReviewStep(r)
         \/ \E i \in Ids : Checkout(i)
         \/ UNCHANGED checkInVars
  BY DEF CheckInNext, PollAnswered

Statuses == {"none", "PENDING", "ACTIVE", "REJECTED"}

\* What a step does to the desk's records: nothing, or one of these.
RecordsRest == UNCHANGED <<status, desk, again>>
NewRecord(i) ==
  /\ status[i] = "none" /\ status' = [status EXCEPT ![i] = "PENDING"]
  /\ UNCHANGED <<desk, again>>
Registers(i) ==
  /\ status' = [status EXCEPT ![i] = "PENDING"] /\ UNCHANGED desk
  /\ again' = IF grants[i] > 0 \/ Granting(i) THEN again \cup {i} ELSE again
Begins(r, i, o) == status[i] = "PENDING" /\ Reads(r, i, o)
ChecksOut(i) ==
  /\ grants[i] > 0 /\ grants' = [grants EXCEPT ![i] = @ - 1]
  /\ UNCHANGED <<status, review, contested, again>>

RecordStep ==
  \/ RecordsRest
  \/ \E i \in Ids : NewRecord(i) \/ Registers(i) \/ ChecksOut(i)
  \/ \E r \in Reviews, i \in Ids : Begins(r, i, "approve") \/ Begins(r, i, "reject")
  \/ \E r \in Reviews :
       ApproveUpdate(r) \/ RejectUpdate(r) \/ ApproveGrant(r) \/ ReviewFails(r)

\* A code that is being checked is somebody's.
DeskInv == CheckInTypeOK /\ (form # Nil /\ form.op = "verify" => form.who \in Ids)

LEMMA DeskRecordStep ==
  ASSUME DeskInv, [CheckInNext]_checkInVars
  PROVE  RecordStep
<1>1. CASE SubmitCode
  <2>1. PICK i \in Ids : VerifyOtp(i)
    BY <1>1 DEF SubmitCode
  <2>2. UNCHANGED <<desk, again>>
    BY <1>1 DEF SubmitCode
  <2>3. CASE i \in Found /\ UNCHANGED status
    BY <2>2, <2>3 DEF RecordStep, RecordsRest
  <2>4. CASE /\ Unused # {} /\ i = CHOOSE j \in Unused : TRUE
             /\ status' = [status EXCEPT ![i] = "PENDING"]
    <3>1. i \in Unused
      BY <2>4
    <3> QED
      BY <2>2, <2>4, <3>1 DEF RecordStep, NewRecord, Unused
  <2> QED
    BY <2>1, <2>3, <2>4 DEF VerifyOtp
<1>2. CASE CodeAnswered
  <2>1. form.who \in Ids /\ UNCHANGED desk
    BY <1>2 DEF DeskInv, CodeAnswered
  <2>2. CASE form.res # "ok" \/ Duplicate(booking)
    BY <1>2, <2>2 DEF CodeAnswered, SelfRegister, RecordStep, RecordsRest
  <2>3. CASE form.res = "ok" /\ ~Duplicate(booking)
    <3>1. Registers(form.who)
      BY <1>2, <2>1, <2>3 DEF CodeAnswered, SelfRegister, Registers
    <3> QED
      BY <2>1, <3>1 DEF RecordStep
  <2> QED
    BY <2>2, <2>3
<1>3. CASE UNCHANGED <<status, desk, again>>
  BY <1>3 DEF RecordStep, RecordsRest
<1>4. ASSUME NEW i \in Ids, Checkout(i) PROVE RecordStep
  BY <1>4 DEF Checkout, RecordStep, ChecksOut
<1>9. ASSUME NEW r \in Reviews, ReviewStep(r) PROVE RecordStep
  BY <1>9 DEF ReviewStep, ApproveRead, RejectRead, RecordStep, Begins
<1>5. ASSUME NEW p, Visit(p) \/ SendPoll(p) PROVE RecordStep
  BY <1>3, <1>5 DEF Visit, SendPoll, server
<1>6. ASSUME NEW b, SubmitDetails(b) PROVE RecordStep
  BY <1>3, <1>6 DEF SubmitDetails
<1>7. CASE TokenExpires \/ AnswerLost \/ SendAnswered \/ Resend
  BY <1>3, <1>7 DEF TokenExpires, AnswerLost, SendAnswered, Resend,
     server
<1>8. CASE \/ RegisterAnswered \/ Upload \/ UploadAnswered
           \/ PendingAnswered \/ DashboardAnswered \/ UNCHANGED checkInVars
  BY <1>3, <1>8 DEF RegisterAnswered, Upload, UploadAnswered,
     PendingAnswered, DashboardAnswered, checkInVars, browser, server
<1> QED
  BY <1>1, <1>2, <1>4, <1>5, <1>6, <1>7, <1>8, <1>9, DeskActions

\* A record has at most one stay and, unless it is ACTIVE, none; and while a
\* review of it is in progress, no other is, and nothing has been granted.
Once(i) == grants[i] <= 1 /\ (status[i] # "ACTIVE" => grants[i] = 0)
Alone(i) ==
  \A q \in Reviews : review[q].on = i =>
    /\ \A r \in Reviews : review[r].on = i => r = q
    /\ grants[i] = 0
    /\ status[i] = IF review[q].at = "grant" THEN "ACTIVE" ELSE "PENDING"
Undisturbed == \A i \in Ids \ (again \cup contested) : Once(i) /\ Alone(i)

LEMMA UndisturbedStep ==
  ASSUME DeskInv, Undisturbed, [CheckInNext]_checkInVars
  PROVE  Undisturbed'
<1>1. /\ status \in [Ids -> Statuses] /\ grants \in [Ids -> Nat]
      /\ review \in [Reviews -> Review \cup {NoReview}]
  BY DEF DeskInv, CheckInTypeOK, Statuses
<1>2. \A i \in Ids \ (again \cup contested) : Once(i) /\ Alone(i)
  BY DEF Undisturbed
<1>3. RecordStep
  BY DeskRecordStep
<1>0. Nil \notin Ids
  BY CheckInAssumption
<1> SUFFICES ASSUME NEW j \in Ids \ (again' \cup contested') PROVE Once(j)' /\ Alone(j)'
  BY DEF Undisturbed
<1>4. CASE RecordsRest
  BY <1>2, <1>4 DEF RecordsRest, Once, Alone, desk
<1>5. ASSUME NEW i \in Ids, NewRecord(i) PROVE Once(j)' /\ Alone(j)'
  <2>1. Once(j) /\ Alone(j) /\ UNCHANGED <<grants, review>>
    BY <1>2, <1>5 DEF NewRecord, desk
  <2>2. j = i => \A q \in Reviews : review[q].on # j
    BY <1>5, <2>1 DEF NewRecord, Alone
  <2> QED
    BY <1>1, <1>5, <2>1, <2>2 DEF NewRecord, Once, Alone
<1>6. ASSUME NEW i \in Ids, Registers(i) PROVE Once(j)' /\ Alone(j)'
  <2>1. Once(j) /\ Alone(j) /\ UNCHANGED <<grants, review>>
    BY <1>2, <1>6 DEF Registers, desk
  <2>2. j = i => grants[j] = 0 /\ ~Granting(j)
    BY <1>1, <1>6 DEF Registers
  <2>3. ASSUME NEW q \in Reviews, j = i, review[q].on = j PROVE review[q].at # "grant"
    <3>1. review[q] \in Review
      BY <1>0, <1>1, <2>3 DEF NoReview
    <3> QED
      BY <2>2, <2>3, <3>1 DEF Granting, Review
  <2> QED
    BY <1>1, <1>6, <2>1, <2>2, <2>3 DEF Registers, Once, Alone
<1>7. ASSUME NEW i \in Ids, ChecksOut(i) PROVE Once(j)' /\ Alone(j)'
  <2>1. Once(j) /\ Alone(j) /\ UNCHANGED <<status, review>>
    BY <1>2, <1>7 DEF ChecksOut
  <2>2. grants' = [grants EXCEPT ![i] = grants[i] - 1] /\ grants[i] > 0
    BY <1>7 DEF ChecksOut
  <2> QED
    BY <1>1, <2>1, <2>2 DEF Once, Alone
<1>8. ASSUME NEW r \in Reviews, NEW i \in Ids, NEW o \in {"approve", "reject"},
             Begins(r, i, o)
      PROVE  Once(j)' /\ Alone(j)'
  <2>1. Once(j) /\ Alone(j) /\ UNCHANGED <<status, grants>>
    BY <1>2, <1>8 DEF Begins, Reads
  <2>2. /\ \E b : review' = [review EXCEPT ![r] = [at |-> o, on |-> i, read |-> b]]
        /\ review[r] = NoReview
    BY <1>8 DEF Begins, Reads
  <2>3. j = i => /\ \A q \in Reviews : review[q].on # i
                 /\ status[j] = "PENDING" /\ grants[j] = 0
    BY <1>8, <2>1 DEF Begins, Reads, Once
  <2> QED
    BY <1>1, <2>1, <2>2, <2>3 DEF Once, Alone
<1>9. ASSUME NEW r \in Reviews,
             ApproveUpdate(r) \/ RejectUpdate(r) \/ ApproveGrant(r) \/ ReviewFails(r)
      PROVE  Once(j)' /\ Alone(j)'
  <2>1. Once(j) /\ Alone(j)
    BY <1>2, <1>9 DEF ApproveUpdate, RejectUpdate, ApproveGrant, ReviewFails
  <2>2. NoReview.on # j
    BY <1>0 DEF NoReview
  <2>3. CASE ApproveUpdate(r)
    BY <1>1, <2>1, <2>3 DEF ApproveUpdate, Once, Alone
  <2>4. CASE RejectUpdate(r)
    BY <1>1, <2>1, <2>2, <2>4 DEF RejectUpdate, Once, Alone
  <2>5. CASE ApproveGrant(r)
    <3>1. grants' = [grants EXCEPT ![review[r].on] = grants[review[r].on] + 1]
      BY <2>5 DEF ApproveGrant
    <3>2. CASE review[r].on = j
      <4>1. grants[j] = 0 /\ status[j] = "ACTIVE"
        BY <2>1, <2>5, <3>2 DEF ApproveGrant, Alone
      <4>2. grants'[j] = 1 /\ status'[j] = "ACTIVE"
        BY <1>1, <2>5, <3>1, <3>2, <4>1 DEF ApproveGrant
      <4>3. \A q \in Reviews : review'[q].on # j
        BY <1>1, <2>1, <2>2, <2>5, <3>2 DEF ApproveGrant, Alone
      <4> QED
        BY <4>2, <4>3 DEF Once, Alone
    <3>3. CASE review[r].on # j
      <4>1. grants'[j] = grants[j] /\ UNCHANGED status
        BY <1>1, <2>5, <3>1, <3>3 DEF ApproveGrant
      <4> QED
        BY <1>1, <2>1, <2>2, <2>5, <4>1 DEF ApproveGrant, Once, Alone
    <3> QED
      BY <3>2, <3>3
  <2>6. CASE ReviewFails(r)
    BY <1>1, <2>1, <2>2, <2>6 DEF ReviewFails, Once, Alone
  <2> QED
    BY <1>9, <2>3, <2>4, <2>5, <2>6
<1> QED
  BY <1>3, <1>4, <1>5, <1>6, <1>7, <1>8, <1>9 DEF RecordStep

DeskTypes ==
  /\ status \in [Ids -> Statuses] /\ grants \in [Ids -> Nat]
  /\ review \in [Reviews -> Review \cup {NoReview}]
  /\ contested \subseteq Ids /\ again \subseteq Ids

LEMMA RecordTypes ==
  ASSUME DeskTypes, ref \in [Ids -> Bookings \cup {Nil}], RecordStep
  PROVE  DeskTypes'
<1>1. CASE RecordsRest
  BY <1>1 DEF RecordsRest, DeskTypes, desk
<1>2. ASSUME NEW i \in Ids, NewRecord(i) \/ Registers(i) PROVE DeskTypes'
  BY <1>2 DEF NewRecord, Registers, DeskTypes, desk, Statuses
<1>3. ASSUME NEW i \in Ids, ChecksOut(i) PROVE DeskTypes'
  <2>1. grants[i] - 1 \in Nat /\ grants' = [grants EXCEPT ![i] = grants[i] - 1]
    BY <1>3 DEF ChecksOut, DeskTypes
  <2> QED
    BY <1>3, <2>1 DEF ChecksOut, DeskTypes
<1>4. ASSUME NEW r \in Reviews, NEW i \in Ids, NEW o \in {"approve", "reject"},
             Begins(r, i, o)
      PROVE  DeskTypes'
  <2>1. /\ Begins(r, i, o) /\ UNCHANGED <<status, grants, again>>
        /\ contested' \subseteq contested \cup {i}
    BY <1>4 DEF Begins, Reads
  <2>2. PICK b \in Bookings \cup {Nil} :
          review' = [review EXCEPT ![r] = [at |-> o, on |-> i, read |-> b]]
    BY <1>4 DEF Begins, Reads
  <2>3. [at |-> o, on |-> i, read |-> b] \in Review
    BY DEF Review
  <2> QED
    BY <2>1, <2>2, <2>3 DEF DeskTypes
<1>5. ASSUME NEW r \in Reviews, ApproveUpdate(r) PROVE DeskTypes'
  <2>1. review[r] \in Review
    BY <1>5 DEF ApproveUpdate, DeskTypes, NoReview
  <2>2. [at |-> "grant", on |-> review[r].on, read |-> Nil] \in Review
    BY <2>1 DEF Review
  <2> QED
    BY <1>5, <2>2 DEF ApproveUpdate, DeskTypes, Statuses
<1>6. ASSUME NEW r \in Reviews, RejectUpdate(r) \/ ReviewFails(r) PROVE DeskTypes'
  BY <1>6 DEF RejectUpdate, ReviewFails, DeskTypes, Statuses
<1>7. ASSUME NEW r \in Reviews, ApproveGrant(r) PROVE DeskTypes'
  <2>1. review[r] \in Review
    BY <1>7 DEF ApproveGrant, DeskTypes, NoReview
  <2>2. /\ grants' = [grants EXCEPT ![review[r].on] = grants[review[r].on] + 1]
        /\ review[r].on \in Ids
    BY <1>7, <2>1 DEF ApproveGrant, Review
  <2> QED
    BY <1>7, <2>2 DEF ApproveGrant, DeskTypes
<1> QED
  BY <1>1, <1>2, <1>3, <1>4, <1>5, <1>6, <1>7 DEF RecordStep

\* The browser's part of the state.
BrowserTypes ==
  /\ page \in Pages /\ auth \in Ids \cup {Nil} /\ live \in BOOLEAN
  /\ booking \in Bookings \cup {Nil} /\ form \in Answer \cup {Nil}
  /\ poll \in Poll \cup {Nil} /\ code \in BOOLEAN
  /\ ref \in [Ids -> Bookings \cup {Nil}]
  /\ form # Nil /\ form.op = "verify" => form.who \in Ids

LEMMA OpensPages ==
  ASSUME NEW p \in Pages, NEW a
  PROVE  Opens(p, a) \in Pages
  BY DEF Opens, Pages

LEMMA AsksType ==
  ASSUME NEW o \in {"send", "verify", "register", "upload"}, NEW r \in {"ok", "refused"},
         NEW i \in Ids \cup {Nil}, NEW b \in Bookings \cup {Nil},
         Asks(o, r, i, b), o = "verify" => i \in Ids
  PROVE  /\ form' \in Answer \cup {Nil}
         /\ form' # Nil /\ form'.op = "verify" => form'.who \in Ids
  BY DEF Asks, Answer

LEMMA BrowserStep ==
  ASSUME BrowserTypes, DeskTypes, [CheckInNext]_checkInVars
  PROVE  BrowserTypes'
<1>0. form # Nil => form \in Answer
  BY DEF BrowserTypes
<1>1. CASE UNCHANGED checkInVars
  BY <1>1 DEF checkInVars, browser, server, BrowserTypes
<1>2. ASSUME NEW p \in Pages, Visit(p) PROVE BrowserTypes'
  BY <1>2, OpensPages DEF Visit, server, BrowserTypes
<1>3. CASE TokenExpires
  BY <1>3 DEF TokenExpires, server, BrowserTypes
<1>4. CASE AnswerLost
  <2>1. form' = [form EXCEPT !.res = "refused"] /\ form \in Answer
    BY <1>0, <1>4 DEF AnswerLost
  <2>2. form' \in Answer /\ form'.op = form.op /\ form'.who = form.who
    BY <2>1 DEF Answer
  <2>3. form'.op = "verify" => form'.who \in Ids
    BY <1>4, <2>2 DEF AnswerLost, BrowserTypes
  <2> QED
    BY <1>4, <2>2, <2>3 DEF AnswerLost, server, BrowserTypes
<1>5. ASSUME NEW b \in Bookings, SubmitDetails(b) PROVE BrowserTypes'
  <2>1. PICK sent \in BOOLEAN :
          /\ SendOtp(sent)
          /\ Asks("send", IF sent THEN "ok" ELSE "refused", Nil, b)
    BY <1>5 DEF SubmitDetails
  <2>2. /\ form' \in Answer \cup {Nil}
        /\ form' # Nil /\ form'.op = "verify" => form'.who \in Ids
    BY <2>1, AsksType
  <2>3. code' \in BOOLEAN
    BY <2>1, Zenon DEF SendOtp
  <2> QED
    BY <1>5, <2>2, <2>3 DEF SubmitDetails, BrowserTypes
<1>6. CASE SendAnswered
  <2>1. form \in Answer /\ form.ref \in Bookings \cup {Nil}
    BY <1>0, <1>6 DEF SendAnswered, Answer
  <2>2. "verify" \in Pages
    BY DEF Pages
  <2> QED
    BY <1>6, <2>1, <2>2 DEF SendAnswered, server, BrowserTypes
<1>7. CASE Resend
  <2>1. code' \in BOOLEAN
    BY <1>7, Zenon DEF Resend, SendOtp
  <2> QED
    BY <1>7, <2>1 DEF Resend, browser, BrowserTypes
<1>8. CASE SubmitCode
  <2>1. PICK i \in Ids : VerifyOtp(i) /\ Asks("verify", "ok", i, Nil)
    BY <1>8 DEF SubmitCode
  <2>2. /\ form' \in Answer \cup {Nil}
        /\ form' # Nil /\ form'.op = "verify" => form'.who \in Ids
    BY <2>1, AsksType
  <2>3. code' \in BOOLEAN
    BY <2>1 DEF VerifyOtp
  <2> QED
    BY <1>8, <2>2, <2>3 DEF SubmitCode, BrowserTypes
<1>9. CASE CodeAnswered
  <2>1. form.who \in Ids /\ UNCHANGED <<page, booking, poll, code>>
    BY <1>9 DEF CodeAnswered, BrowserTypes
  <2>2. CASE form.res = "ok"
    <3>1. auth' = form.who /\ live' = TRUE /\ SelfRegister(form.who, booking)
      BY <1>9, <2>2 DEF CodeAnswered
    <3>2. PICK r \in {"ok", "refused"} : Asks("register", r, Nil, Nil)
      BY <3>1 DEF SelfRegister
    <3>3. /\ form' \in Answer \cup {Nil}
          /\ form' # Nil /\ form'.op = "verify" => form'.who \in Ids
      BY <2>1, <3>2, AsksType DEF BrowserTypes
    <3>4. ref' \in [Ids -> Bookings \cup {Nil}]
      BY <3>1 DEF SelfRegister, BrowserTypes
    <3>5. live' \in BOOLEAN
      BY <3>1
    <3> QED
      BY <2>1, <3>1, <3>3, <3>4, <3>5 DEF BrowserTypes
  <2>3. CASE form.res # "ok"
    <3>1. form' = Nil /\ UNCHANGED <<auth, live, ref>>
      BY <1>9, <2>3 DEF CodeAnswered
    <3> QED
      BY <2>1, <3>1 DEF BrowserTypes
  <2> QED
    BY <2>2, <2>3
<1>10. CASE RegisterAnswered
  <2>1. page' \in Pages
    BY <1>10 DEF RegisterAnswered, Pages, BrowserTypes
  <2> QED
    BY <1>10, <2>1 DEF RegisterAnswered, server, BrowserTypes
<1>11. CASE Upload
  <2>1. PICK r \in {"ok", "refused"} : Asks("upload", r, Nil, Nil)
    BY <1>11 DEF Upload
  <2>2. /\ form' \in Answer \cup {Nil}
        /\ form' # Nil /\ form'.op = "verify" => form'.who \in Ids
    BY <2>1, AsksType DEF BrowserTypes
  <2> QED
    BY <1>11, <2>2 DEF Upload, server, BrowserTypes
<1>12. CASE UploadAnswered
  <2>1. page' \in Pages
    BY <1>12 DEF UploadAnswered, Pages, BrowserTypes
  <2> QED
    BY <1>12, <2>1 DEF UploadAnswered, server, BrowserTypes
<1>13. ASSUME NEW p \in Polling, SendPoll(p) PROVE BrowserTypes'
  <2>1. poll' \in Poll
    BY <1>13 DEF SendPoll, Poll
  <2> QED
    BY <1>13, <2>1 DEF SendPoll, server, BrowserTypes
<1>14. CASE PendingAnswered
  <2>1. page' \in Pages
    BY <1>14, OpensPages DEF PendingAnswered, Pages, BrowserTypes
  <2> QED
    BY <1>14, <2>1 DEF PendingAnswered, Answered, server, BrowserTypes
<1>15. CASE DashboardAnswered
  <2>1. page' \in Pages /\ auth' \in Ids \cup {Nil}
    BY <1>15 DEF DashboardAnswered, Pages, BrowserTypes
  <2> QED
    BY <1>15, <2>1 DEF DashboardAnswered, Answered, server, BrowserTypes
<1>16. ASSUME NEW i \in Ids, Checkout(i) PROVE BrowserTypes'
  BY <1>16 DEF Checkout, browser, BrowserTypes
<1>17. ASSUME NEW r \in Reviews, ReviewStep(r) PROVE BrowserTypes'
  <2>1. CASE ApproveUpdate(r)
    <3>1. review[r] \in Review
      BY <2>1 DEF ApproveUpdate, DeskTypes, NoReview
    <3>2. review[r].read \in Bookings \cup {Nil}
      BY <3>1 DEF Review
    <3>3. ref' \in [Ids -> Bookings \cup {Nil}] /\ UNCHANGED <<browser, code>>
      BY <2>1, <3>2 DEF ApproveUpdate, BrowserTypes
    <3> QED
      BY <3>3 DEF browser, BrowserTypes
  <2>2. CASE UNCHANGED <<browser, code, ref>>
    BY <2>2 DEF browser, BrowserTypes
  <2> QED
    BY <1>17, <2>1, <2>2 DEF ReviewStep, ApproveRead, RejectRead, Reads,
       RejectUpdate, ApproveGrant, ReviewFails
<1> QED
  BY <1>1, <1>2, <1>3, <1>4, <1>5, <1>6, <1>7, <1>8, <1>9, <1>10, <1>11, <1>12, <1>13,
     <1>14, <1>15, <1>16, <1>17, DeskActions

LEMMA DeskParts == DeskInv <=> BrowserTypes /\ DeskTypes
  BY DEF DeskInv, BrowserTypes, DeskTypes, CheckInTypeOK, Statuses

LEMMA InitDesk ==
  ASSUME CheckInInit
  PROVE  DeskInv /\ Undisturbed
<1>1. DeskTypes
  BY DEF CheckInInit, DeskTypes, Statuses
<1>2. live \in BOOLEAN /\ code \in BOOLEAN /\ page \in Pages
  <2>1. live = FALSE /\ code = FALSE /\ page = "landing"
    BY DEF CheckInInit
  <2> QED
    BY <2>1 DEF Pages
<1>3. BrowserTypes
  BY <1>2 DEF CheckInInit, BrowserTypes
<1>4. Undisturbed
  BY CheckInAssumption DEF CheckInInit, Undisturbed, Once, Alone, NoReview
<1> QED
  BY <1>1, <1>3, <1>4, DeskParts

LEMMA DeskInvStep ==
  ASSUME DeskInv, [CheckInNext]_checkInVars
  PROVE  DeskInv'
<1>1. BrowserTypes'
  BY DeskParts, BrowserStep DEF DeskTypes
<1>2. DeskTypes'
  BY DeskParts, DeskRecordStep, RecordTypes DEF BrowserTypes
<1>3. /\ status' \in [Ids -> {"none", "PENDING", "ACTIVE", "REJECTED"}]
      /\ grants' \in [Ids -> Nat]
      /\ review' \in [Reviews -> (Review \cup {NoReview})']
      /\ contested' \subseteq Ids /\ again' \subseteq Ids
  BY <1>2, Zenon DEF DeskTypes, Statuses, Review, NoReview
<1>4. /\ page' \in Pages' /\ auth' \in Ids \cup {Nil} /\ live' \in BOOLEAN
      /\ booking' \in Bookings \cup {Nil} /\ form' \in Answer' \cup {Nil}
      /\ poll' \in Poll' \cup {Nil} /\ code' \in BOOLEAN
      /\ ref' \in [Ids -> Bookings \cup {Nil}]
      /\ (form # Nil /\ form.op = "verify" => form.who \in Ids)'
  BY <1>1, Zenon DEF BrowserTypes
<1>5. CheckInTypeOK'
  BY <1>3, <1>4, Zenon DEF CheckInTypeOK
<1> QED
  BY <1>4, <1>5, Zenon DEF DeskInv

\* Every variable of the check-in pages and their records keeps its shape.
THEOREM CheckInTypeCorrect == CheckInSpec => []CheckInTypeOK
<1>1. CheckInInit => DeskInv
  BY InitDesk
<1>2. DeskInv /\ [CheckInNext]_checkInVars => DeskInv'
  BY DeskInvStep
<1>3. DeskInv => CheckInTypeOK
  BY DEF DeskInv
<1> QED
  BY <1>1, <1>2, <1>3, PTL DEF CheckInSpec

\* Any number of reviews, stopped anywhere, from desks with old lists, grant a
\* record at most one stay, and one that is not ACTIVE none; except a record
\* two reviews of which have overlapped, or whose guest has registered again
\* while it had a grant or was about to get one.
THEOREM GuestsAreDecidedOnce == CheckInSpec => []DecidedOnce
<1>1. CheckInInit => DeskInv /\ Undisturbed
  BY InitDesk
<1>2. DeskInv /\ Undisturbed /\ [CheckInNext]_checkInVars =>
        DeskInv' /\ Undisturbed'
  BY DeskInvStep, UndisturbedStep
<1>3. Undisturbed => DecidedOnce
  BY DEF Undisturbed, DecidedOnce, Once
<1> QED
  BY <1>1, <1>2, <1>3, PTL DEF CheckInSpec
=============================================================================
