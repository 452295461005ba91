----------------------------- MODULE CallScreens -----------------------------
(***************************************************************************)
(* The two call pages: what the guest and the member of staff see of a     *)
(* call, their sockets and their microphones.  Signaling has the server;   *)
(* here it is only what the pages make of it: a call is routed some time   *)
(* after the guest's page has connected, and what a page emits is handled  *)
(* when it is sent.  What the server emits waits in the socket's queue,    *)
(* and goes with the socket.                                               *)
(*                                                                         *)
(* A guest page draws one call id when it is mounted, so a call is named   *)
(* by its page.  A staff page has its socket from an effect that depends   *)
(* on the call id: when that changes the socket is closed and another one  *)
(* opened.                                                                 *)
(***************************************************************************)
EXTENDS Integers, Sequences, FiniteSets

CONSTANTS
  Guests,           \* call pages of guests
  Staff,            \* call pages of staff, all of one department
  MaxSockets,       \* bound: connections of each page
  MaxClicks,        \* bound: clicks on the Answer button of one call
  None

ASSUME ScreensAssumption ==
  /\ MaxSockets \in [Guests \cup Staff -> Nat] /\ MaxClicks \in Nat
  /\ Guests \cap Staff = {} /\ None \notin Guests \cup Staff

NoCall == [from |-> 0, to |-> None, sock |-> 0, answers |-> 0]

VARIABLES
  screen,    \* guest page: callState; LEFT when it is unmounted
  sock,      \* sockets each page has had; the last is its own
  up,        \* pages whose socket is connected
  gone,      \* guest pages that have run cleanup: they connect no more
  mic,       \* guest page: the microphone; "asking" at the permission prompt
  inFlight,  \* sockets of a guest page whose call:initiate is not settled
  calls,     \* CallHandler.activeCalls
  view,      \* staff page: callState
  callId,    \* staff page: callId; None for ''
  talk,      \* staff page: the peer connection behind pcRef
  box,       \* messages to a page's socket that have not arrived
  raced,     \* history: guest pages over, or accepted again, at the prompt
  unheard    \* history: guests who left the page, or whose call was ended
             \* unheard, or before all that the page sent was settled

guest == <<screen, gone, mic, raced, unheard>>
staff == <<view, callId, talk>>
vars == <<guest, sock, up, inFlight, calls, staff, box>>

Init ==
  /\ screen = [g \in Guests |-> "CONNECTING"]
  /\ sock = [x \in Guests \cup Staff |-> 0]
  /\ up = {} /\ gone = {}
  /\ mic = [g \in Guests |-> "off"]
  /\ inFlight = [g \in Guests |-> {}]
  /\ calls = [g \in Guests |-> NoCall]
  /\ view = [p \in Staff |-> "IDLE"]
  /\ callId = [p \in Staff |-> None]
  /\ talk = [p \in Staff |-> "none"]
  /\ box = [x \in Guests \cup Staff |-> <<>>]
  /\ raced = {} /\ unheard = {}

----------------------------------------------------------------------------
(* The server *)

\* io.to(id).emit: only the page's present socket can have the id.
Emit(b, x, n, m) ==
  IF x \in up /\ sock[x] = n THEN [b EXCEPT ![x] = Append(@, m)] ELSE b
ToCaller(g, ev) == Emit(box, g, calls[g].from, [ev |-> ev, call |-> g])
ToCallee(g, ev) == Emit(box, calls[g].to, calls[g].sock, [ev |-> ev, call |-> g])

\* call.calleeSocketId === socket.id
IsCallee(p, g) ==
  g # None /\ p \in up /\ calls[g].to = p /\ calls[g].sock = sock[p]

\* handleInitiate, to its end: a connected member of staff is rung.
Route(g, n, p) ==
  /\ p \in up
  /\ inFlight' = [inFlight EXCEPT ![g] = @ \ {n}]
  /\ calls' = [calls EXCEPT ![g] =
       [from |-> n, to |-> p, sock |-> sock[p], answers |-> 0]]
  /\ box' = [box EXCEPT ![p] = Append(@, [ev |-> "incoming", call |-> g])]
  /\ UNCHANGED <<guest, sock, up, staff>>

\* No grant, too many calls, nobody there.
Refuse(g, n) ==
  /\ inFlight' = [inFlight EXCEPT ![g] = @ \ {n}]
  /\ box' = Emit(box, g, n, [ev |-> "error", call |-> g])
  /\ UNCHANGED <<guest, sock, up, calls, staff>>

----------------------------------------------------------------------------
(* The guest's page *)

\* connect: at first, and again after the connection was lost.
GuestConnects(g) ==
  /\ g \notin up \cup gone /\ sock[g] < MaxSockets[g]
  /\ up' = up \cup {g}
  /\ sock' = [sock EXCEPT ![g] = @ + 1]
  /\ screen' = [screen EXCEPT ![g] = "RINGING"]
  /\ inFlight' = [inFlight EXCEPT ![g] = @ \cup {sock[g] + 1}]
  /\ UNCHANGED <<gone, mic, raced, unheard, calls, staff, box>>

\* disconnect: its listener has the callState of the first render, which is
\* not CONNECTED, and so changes nothing.
ConnectionLost(g) ==
  /\ g \in up
  /\ up' = up \ {g}
  /\ box' = [box EXCEPT ![g] = <<>>]
  /\ UNCHANGED <<guest, sock, inFlight, calls, staff>>

\* cleanup: the tracks are stopped if there are any yet, the socket closed.
Cleanup(g) ==
  /\ gone' = gone \cup {g}
  /\ up' = up \ {g}
  /\ raced' = IF mic[g] = "asking" THEN raced \cup {g} ELSE raced
  /\ mic' = [mic EXCEPT ![g] = IF @ = "on" THEN "off" ELSE @]

Shows(g, s) == screen' = [screen EXCEPT ![g] = s]

\* handleEnd of the server, for a call:end from the guest's own socket.
EndHeard(g) ==
  /\ calls' = [calls EXCEPT ![g] = NoCall]
  /\ box' = [IF calls[g].from = sock[g] THEN ToCallee(g, "ended") ELSE box
               EXCEPT ![g] = <<>>]

\* Mutant: the socket is closed before call:end is emitted.
HangUpCleansFirst(g) ==
  /\ screen[g] \in {"RINGING", "CONNECTED"} /\ g \notin gone
  /\ Shows(g, "ENDED") /\ Cleanup(g)
  /\ box' = [box EXCEPT ![g] = <<>>]
  /\ unheard' = IF g \notin up \/ inFlight[g] # {} THEN unheard \cup {g} ELSE unheard
  /\ UNCHANGED <<sock, inFlight, calls, staff>>

\* handleEndCall: what is emitted on a lost connection goes with the socket,
\* and a call:end before the call is routed finds no call.
HangUp(g) ==
  /\ screen[g] \in {"RINGING", "CONNECTED"} /\ g \notin gone
  /\ Shows(g, "ENDED") /\ Cleanup(g)
  /\ IF g \in up THEN EndHeard(g)
     ELSE box' = [box EXCEPT ![g] = <<>>] /\ UNCHANGED calls
  /\ unheard' = IF g \notin up \/ inFlight[g] # {} THEN unheard \cup {g} ELSE unheard
  /\ UNCHANGED <<sock, inFlight, staff>>

\* The page is unmounted, which ends nothing but the socket.
Leave(g) ==
  /\ screen[g] # "LEFT"
  /\ Shows(g, "LEFT") /\ Cleanup(g)
  /\ box' = [box EXCEPT ![g] = <<>>]
  /\ unheard' = unheard \cup {g}
  /\ UNCHANGED <<sock, inFlight, calls, staff>>

Arrives(x, ev) == box[x] # <<>> /\ Head(box[x]).ev = ev
Taken(x) == [box EXCEPT ![x] = Tail(@)]

\* call:error and call:rejected: the page shows why, and keeps the rest.
GuestRefused(g) ==
  /\ Arrives(g, "error") \/ Arrives(g, "rejected")
  /\ Shows(g, "ERROR") /\ box' = Taken(g)
  /\ UNCHANGED <<gone, mic, raced, unheard, sock, up, inFlight, calls, staff>>

\* call:accepted: a peer connection, and the prompt for the microphone.  A
\* second one overwrites what the first has left in the refs.
GuestAccepted(g) ==
  /\ Arrives(g, "accepted") /\ box' = Taken(g)
  /\ raced' = IF mic[g] = "off" THEN raced ELSE raced \cup {g}
  /\ mic' = [mic EXCEPT ![g] = "asking"]
  /\ UNCHANGED <<screen, gone, unheard, sock, up, inFlight, calls, staff>>

\* The prompt is answered with yes: addTrack throws if the peer connection
\* was closed meanwhile, else the offer is sent and relayed.
MicGranted(g) ==
  /\ mic[g] = "asking"
  /\ mic' = [mic EXCEPT ![g] = "on"]
  /\ IF g \in gone
     THEN screen' = [screen EXCEPT ![g] = IF @ = "LEFT" THEN @ ELSE "ERROR"]
          /\ UNCHANGED box
     ELSE /\ Shows(g, "CONNECTED")
          /\ box' = IF g \in up /\ calls[g].from = sock[g]
                    THEN ToCallee(g, "sdp") ELSE box
  /\ UNCHANGED <<gone, raced, unheard, sock, up, inFlight, calls, staff>>

MicDenied(g) ==
  /\ mic[g] = "asking"
  /\ mic' = [mic EXCEPT ![g] = "off"]
  /\ screen' = [screen EXCEPT ![g] = IF @ = "LEFT" THEN @ ELSE "ERROR"]
  /\ UNCHANGED <<gone, raced, unheard, sock, up, inFlight, calls, staff, box>>

\* Mutant: the end by the other side only changes what the page shows.
GuestEndedShown(g) ==
  /\ Arrives(g, "ended") /\ Shows(g, "ENDED")
  /\ box' = Taken(g)
  /\ UNCHANGED <<gone, up, mic, raced, unheard, sock, inFlight, calls, staff>>

\* call:ended
GuestEnded(g) ==
  /\ Arrives(g, "ended") /\ Shows(g, "ENDED") /\ Cleanup(g)
  /\ box' = [box EXCEPT ![g] = <<>>]
  /\ UNCHANGED <<unheard, sock, inFlight, calls, staff>>

----------------------------------------------------------------------------
(* The staff page *)

StaffConnects(p) ==
  /\ p \notin up /\ sock[p] < MaxSockets[p]
  /\ up' = up \cup {p}
  /\ sock' = [sock EXCEPT ![p] = @ + 1]
  /\ UNCHANGED <<guest, inFlight, calls, staff, box>>

\* The effect of the socket, when callId changes: the old one is closed and
\* cleanup run; the new one connects later.
Recreate(p, c) ==
  /\ callId' = [callId EXCEPT ![p] = c]
  /\ IF c = callId[p] THEN box' = Taken(p) /\ UNCHANGED <<up, talk>>
     ELSE /\ up' = up \ {p}
          /\ talk' = [talk EXCEPT ![p] = "none"]
          /\ box' = [box EXCEPT ![p] = <<>>]

\* Mutant: the effect does not depend on callId.
IncomingKeepsSocket(p) ==
  /\ Arrives(p, "incoming") /\ box' = Taken(p)
  /\ callId' = [callId EXCEPT ![p] = Head(box[p]).call]
  /\ view' = [view EXCEPT ![p] = "INCOMING"]
  /\ UNCHANGED <<guest, sock, up, inFlight, calls, talk>>

\* call:incoming, also during another call.
Incoming(p) ==
  /\ Arrives(p, "incoming")
  /\ Recreate(p, Head(box[p]).call)
  /\ view' = [view EXCEPT ![p] = "INCOMING"]
  /\ UNCHANGED <<guest, sock, inFlight, calls>>

\* handleAccept: the button stays until the page is CONNECTED.
Accept(p) ==
  /\ view[p] = "INCOMING" /\ callId[p] # None /\ IsCallee(p, callId[p])
  /\ calls[callId[p]].answers < MaxClicks
  /\ calls' = [calls EXCEPT ![callId[p]] =
       [calls[callId[p]] EXCEPT !.answers = @ + 1]]
  /\ box' = ToCaller(callId[p], "accepted")
  /\ UNCHANGED <<guest, sock, up, inFlight, staff>>

\* handleReject: call:reject, and the call id is cleared.
Decline(p) ==
  LET c == callId[p] IN
  /\ view[p] = "INCOMING"
  /\ view' = [view EXCEPT ![p] = "IDLE"]
  /\ callId' = [callId EXCEPT ![p] = None]
  /\ up' = up \ {p}
  /\ talk' = [talk EXCEPT ![p] = "none"]
  /\ LET b == IF IsCallee(p, c) THEN ToCaller(c, "rejected") ELSE box IN
       box' = [b EXCEPT ![p] = <<>>]
  /\ calls' = IF IsCallee(p, c) THEN [calls EXCEPT ![c] = NoCall] ELSE calls
  /\ UNCHANGED <<guest, sock, inFlight>>

\* call:sdp: the first offer opens the peer connection and the prompt; a
\* later one is answered at once.
Offer(p) ==
  /\ Arrives(p, "sdp") /\ box' = Taken(p)
  /\ talk' = [talk EXCEPT ![p] = IF @ = "none" THEN "asking" ELSE @]
  /\ UNCHANGED <<guest, sock, up, inFlight, calls, view, callId>>

\* The prompt is answered: a refusal rejects a promise that nobody catches.
StaffMic(p) ==
  /\ talk[p] = "asking"
  /\ \/ talk' = [talk EXCEPT ![p] = "on"] /\ view' = [view EXCEPT ![p] = "CONNECTED"]
     \/ talk' = [talk EXCEPT ![p] = "denied"] /\ UNCHANGED view
  /\ UNCHANGED <<guest, sock, up, inFlight, calls, callId, box>>

StaffOver(p) ==
  /\ view' = [view EXCEPT ![p] = "ENDED"]
  /\ talk' = [talk EXCEPT ![p] = "none"]

\* call:ended, whichever call it names.
StaffEnded(p) ==
  /\ Arrives(p, "ended") /\ box' = Taken(p) /\ StaffOver(p)
  /\ UNCHANGED <<guest, sock, up, inFlight, calls, callId>>

\* handleEnd: the server ends the call for whoever asks.
StaffEnds(p) ==
  /\ view[p] = "CONNECTED" /\ p \in up /\ callId[p] # None
  /\ calls' = [calls EXCEPT ![callId[p]] = NoCall]
  /\ box' = IF calls[callId[p]] # NoCall THEN ToCaller(callId[p], "ended") ELSE box
  /\ unheard' = IF inFlight[callId[p]] # {} THEN unheard \cup {callId[p]} ELSE unheard
  /\ StaffOver(p)
  /\ UNCHANGED <<screen, gone, mic, raced, sock, up, inFlight, callId>>

\* "Ready for next call": the call id stays.
Ready(p) ==
  /\ view[p] = "ENDED"
  /\ view' = [view EXCEPT ![p] = "IDLE"]
  /\ UNCHANGED <<guest, sock, up, inFlight, calls, callId, talk, box>>

GuestStep(g) ==
  \/ GuestConnects(g) \/ ConnectionLost(g) \/ HangUp(g) \/ Leave(g)
  \/ GuestRefused(g) \/ GuestAccepted(g) \/ MicGranted(g) \/ MicDenied(g)
  \/ GuestEnded(g)

StaffStep(p) ==
  \/ StaffConnects(p) \/ Incoming(p) \/ Accept(p) \/ Decline(p) \/ Offer(p)
  \/ StaffMic(p) \/ StaffEnded(p) \/ StaffEnds(p) \/ Ready(p)

Next ==
  \/ \E g \in Guests : \E n \in inFlight[g] :
       Refuse(g, n) \/ \E p \in Staff : Route(g, n, p)
  \/ \E g \in Guests : GuestStep(g)
  \/ \E p \in Staff : StaffStep(p)

Spec == Init /\ [][Next]_vars

----------------------------------------------------------------------------
(* Properties *)

Message == [ev : {"incoming", "error", "rejected", "accepted", "ended", "sdp"},
            call : Guests]
Call == [from : Nat, to : Staff, sock : Nat, answers : Nat]

\* The shape of the state.
TypeOK ==
  /\ screen \in [Guests -> {"CONNECTING", "RINGING", "CONNECTED", "ENDED",
                            "ERROR", "LEFT"}]
  /\ sock \in [Guests \cup Staff -> Nat]
  /\ up \subseteq Guests \cup Staff /\ gone \subseteq Guests
  /\ mic \in [Guests -> {"off", "asking", "on"}]
  /\ inFlight \in [Guests -> SUBSET Nat]
  /\ calls \in [Guests -> Call \cup {NoCall}]
  /\ view \in [Staff -> {"IDLE", "INCOMING", "CONNECTED", "ENDED"}]
  /\ callId \in [Staff -> Guests \cup {None}]
  /\ talk \in [Staff -> {"none", "asking", "on", "denied"}]
  /\ box \in [Guests \cup Staff -> Seq(Message)]
  /\ raced \subseteq Guests /\ unheard \subseteq Guests

\* The page answers an offer with the call id it has: an offer that reaches
\* it is of that call, whatever calls have rung it in between.
OfferIsOfCallShown ==
  \A p \in Staff : Arrives(p, "sdp") => Head(box[p]).call = callId[p]

\* The server keeps a call of a guest who is no longer there only if the
\* guest left the page without ending the call, ended it while the
\* connection was lost, or either side ended it while a call:initiate of the
\* page was still not settled.
NoCallOfNobody == \A g \in gone : calls[g] # NoCall => g \in unheard

\* When the page says that the call has ended, or is closed, the microphone
\* is off, unless the call was over, or accepted again, while the browser
\* asked for it.
MicrophoneReleased ==
  \A g \in Guests \ raced : screen[g] \in {"ENDED", "LEFT"} => mic[g] = "off"

(* What the design says and the code does not do: refuted.                 *)

\* "call.incoming, call.accept, call.accepted" (design.md, 3.4.2): while a
\* page rings for a call that is routed to it, its answer is taken from the
\* socket it has.
RungPageCanAnswer ==
  \A p \in Staff :
    view[p] = "INCOMING" /\ p \in up /\ callId[p] # None /\ calls[callId[p]].to = p
      => IsCallee(p, callId[p])
=============================================================================
