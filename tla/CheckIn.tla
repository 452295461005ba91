------------------------------- MODULE CheckIn -------------------------------
(***************************************************************************)
(* A guest's browser from check-in to checkout: the pages of the guest app *)
(* and its session, the front desk's check-in page, and what the API       *)
(* server does for both.                                                   *)
(*                                                                         *)
(* A request takes effect on the server as it is sent; its answer comes    *)
(* later, when the page that asked may be gone: a handler that still runs  *)
(* navigates all the same, for nothing cancels it.  The guest has one      *)
(* number, so every record here is one that its logins created.  The       *)
(* commands behind a request are in OtpService, IdentityRecords,           *)
(* DocumentStore and GrantEngine; here a request of the guest's browser is *)
(* one step, and a review of the front desk is cut at each await.          *)
(***************************************************************************)
EXTENDS Integers

CONSTANTS
  Ids,        \* identity records
  Bookings,   \* booking references the guest may type
  Reviews,    \* requests of the front desks in progress at once
  MaxGrants,  \* bound: a record with so many active grants is not approved
  Nil

ASSUME CheckInAssumption ==
  MaxGrants \in Nat /\ Nil \notin Ids \cup Bookings

Pages == {"landing", "checkin", "verify", "upload", "pending", "dashboard"}
Polling == {"pending", "dashboard"}
Answer == [op : {"send", "verify", "register", "upload"},
           res : {"ok", "refused"},
           who : Ids \cup {Nil}, ref : Bookings \cup {Nil}]
Poll == [of : Polling, res : {"ACTIVE", "none", "error"}]
Review == [at : {"approve", "reject", "grant"}, on : Ids, read : Bookings \cup {Nil}]
NoReview == [at |-> "idle", on |-> Nil, read |-> Nil]

VARIABLES
  page,     \* the page the guest is on
  auth,     \* sessionStorage: identity_id, and the token of that identity
  live,     \* has that access token not expired
  booking,  \* sessionStorage: checkin_booking_ref, set with the number
  code,     \* has a code been sent that is not used
  form,     \* the handler in progress and its answer; Nil
  poll,     \* a poll whose answer is still to come; Nil
  status,   \* identity_records: status
  ref,      \* identity_records: booking_ref of the profile
  grants,   \* access_grants: ACTIVE ones
  review,   \* each review in progress: the command that is next, its record
            \* and the booking it read there
  contested,\* history: records whose reviews have overlapped
  again     \* history: records registered again while they had a grant, or
            \* were about to get it

browser == <<page, auth, live, booking, form, poll>>
desk == <<grants, review, contested>>
server == <<code, status, ref, desk, again>>
checkInVars == <<browser, server>>

CheckInInit ==
  /\ page = "landing" /\ auth = Nil /\ live = FALSE
  /\ booking = Nil /\ form = Nil /\ poll = Nil
  /\ code = FALSE
  /\ status = [i \in Ids |-> "none"]
  /\ ref = [i \in Ids |-> Nil]
  /\ grants = [i \in Ids |-> 0]
  /\ review = [r \in Reviews |-> NoReview]
  /\ contested = {} /\ again = {}

----------------------------------------------------------------------------
(* Navigation and the session *)

\* The page that opening p leads to: the effects of the landing page and of
\* the dashboard redirect by the session.
Opens(p, a) ==
  CASE p = "landing" /\ a # Nil -> "dashboard"
    [] p = "dashboard" /\ a = Nil -> "landing"
    [] OTHER -> p

\* A link, the history, or an address typed into the bar.
Visit(p) ==
  /\ page' = Opens(p, auth)
  /\ UNCHANGED <<auth, live, booking, form, poll, server>>

\* Fifteen minutes after the login; nothing in the app calls /auth/refresh.
TokenExpires ==
  /\ live /\ live' = FALSE
  /\ UNCHANGED <<page, auth, booking, form, poll, server>>

\* apiFetch: what the guards say of the token it attaches.
Authorized == auth # Nil /\ live

Asks(o, r, i, b) == form' = [op |-> o, res |-> r, who |-> i, ref |-> b]

\* An answer that never arrives: fetch rejects, though the server has acted.
AnswerLost ==
  /\ form # Nil /\ form.res = "ok"
  /\ form' = [form EXCEPT !.res = "refused"]
  /\ UNCHANGED <<page, auth, live, booking, poll, server>>

----------------------------------------------------------------------------
(* Details, code and registration *)

\* AuthController.sendOtp: sent, or refused by the rate limit or SNS.
SendOtp(sent) == code' = (code \/ sent)

\* handleSubmit
SubmitDetails(b) ==
  /\ page = "checkin" /\ form = Nil
  /\ \E sent \in BOOLEAN :
       SendOtp(sent) /\ Asks("send", IF sent THEN "ok" ELSE "refused", Nil, b)
  /\ UNCHANGED <<page, auth, live, booking, poll, status, ref, desk, again>>

SendAnswered ==
  /\ form # Nil /\ form.op = "send"
  /\ form' = Nil
  /\ \/ form.res = "ok" /\ booking' = form.ref /\ page' = "verify"
     \/ form.res = "refused" /\ UNCHANGED <<booking, page>>
  /\ UNCHANGED <<auth, live, poll, server>>

\* handleResend, once the countdown is over.
Resend ==
  /\ page = "verify" /\ booking # Nil /\ ~code
  /\ SendOtp(TRUE)
  /\ UNCHANGED <<browser, status, ref, desk, again>>

\* The records of this number that were not rejected; a new one without any.
Found == {i \in Ids : status[i] \notin {"none", "REJECTED"}}
Unused == {i \in Ids : status[i] = "none"}

\* AuthController.verifyOtp: the code is used up, and the tokens are i's.
VerifyOtp(i) ==
  /\ code /\ code' = FALSE
  /\ \/ i \in Found /\ UNCHANGED status
     \/ /\ Found = {} /\ Unused # {} /\ i = CHOOSE j \in Unused : TRUE
        /\ status' = [status EXCEPT ![i] = "PENDING"]

\* handleVerify, up to its first answer.
SubmitCode ==
  /\ page = "verify" /\ form = Nil /\ booking # Nil
  /\ \E i \in Ids : VerifyOtp(i) /\ Asks("verify", "ok", i, Nil)
  /\ UNCHANGED <<page, auth, live, booking, poll, ref, desk, again>>

\* checkDedup: the guest's own record is a duplicate like any other.
Duplicate(b) == \E i \in Ids : status[i] \in {"PENDING", "ACTIVE"} /\ ref[i] = b

Granting(i) == \E r \in Reviews : review[r].at = "grant" /\ review[r].on = i

\* selfRegister, whatever the status of the caller's record.
SelfRegister(i, b) ==
  IF Duplicate(b)
  THEN Asks("register", "refused", Nil, Nil) /\ UNCHANGED <<status, ref, again>>
  ELSE /\ Asks("register", "ok", Nil, Nil)
       /\ status' = [status EXCEPT ![i] = "PENDING"]
       /\ ref' = [ref EXCEPT ![i] = b]
       /\ again' = IF grants[i] > 0 \/ Granting(i) THEN again \cup {i} ELSE again

\* The rest of handleVerify: log in, then register with what the first page
\* has left in the session.
CodeAnswered ==
  /\ form # Nil /\ form.op = "verify"
  /\ IF form.res = "ok"
     THEN /\ auth' = form.who /\ live' = TRUE
          /\ SelfRegister(form.who, booking)
     ELSE form' = Nil /\ UNCHANGED <<auth, live, status, ref, again>>
  /\ UNCHANGED <<page, booking, poll, code, desk>>

RegisterAnswered ==
  /\ form # Nil /\ form.op = "register"
  /\ form' = Nil
  /\ page' = IF form.res = "ok" THEN "upload" ELSE page
  /\ UNCHANGED <<auth, live, booking, poll, server>>

----------------------------------------------------------------------------
(* The document *)

\* handleUpload, refused when the session has expired or a command fails.
Upload ==
  /\ page = "upload" /\ auth # Nil /\ form = Nil
  /\ \E r \in {"ok", "refused"} :
       (r = "ok" => Authorized) /\ Asks("upload", r, Nil, Nil)
  /\ UNCHANGED <<page, auth, live, booking, poll, server>>

UploadAnswered ==
  /\ form # Nil /\ form.op = "upload"
  /\ form' = Nil
  /\ page' = IF form.res = "ok" THEN "pending" ELSE page
  /\ UNCHANGED <<auth, live, booking, poll, server>>

----------------------------------------------------------------------------
(* The two pages that poll the guest's grant *)

\* One poll is in the air at a time (bound): an answer takes less than the
\* five seconds, or the minute, to the next.  An error is a token that has
\* run out; a network error would have the same effect on each page.
SendPoll(p) ==
  /\ page = p /\ auth # Nil /\ poll = Nil
  /\ poll' = [of |-> p, res |-> IF ~Authorized THEN "error"
                               ELSE IF grants[auth] > 0 THEN "ACTIVE" ELSE "none"]
  /\ UNCHANGED <<page, auth, live, booking, form, server>>

Answered(p) == poll # Nil /\ poll.of = p /\ poll' = Nil

\* Mutant: the page waits for the answer it has had, not for ACTIVE.
PendingAnsweredNothing ==
  /\ Answered("pending")
  /\ page' = IF poll.res = "none" THEN Opens("dashboard", auth) ELSE page
  /\ UNCHANGED <<auth, live, booking, form, server>>

\* checkStatus: every other answer, and every error, keeps the page polling.
PendingAnswered ==
  /\ Answered("pending")
  /\ page' = IF poll.res = "ACTIVE" THEN Opens("dashboard", auth) ELSE page
  /\ UNCHANGED <<auth, live, booking, form, server>>

\* Mutant: an error keeps the dashboard polling, as it does the pending page.
DashboardAnsweredKeepsPolling ==
  /\ Answered("dashboard")
  /\ IF poll.res = "none" THEN page' = "landing" /\ auth' = Nil
     ELSE UNCHANGED <<page, auth>>
  /\ UNCHANGED <<live, booking, form, server>>

\* fetchGrant: no ACTIVE grant logs the guest out, any error sends them to
\* check in again.
DashboardAnswered ==
  /\ Answered("dashboard")
  /\ CASE poll.res = "none" -> page' = "landing" /\ auth' = Nil
       [] poll.res = "error" -> page' = "checkin" /\ UNCHANGED auth
       [] OTHER -> UNCHANGED <<page, auth>>
  /\ UNCHANGED <<live, booking, form, server>>

----------------------------------------------------------------------------
(* The front desk.  Its page loads the PENDING records once, and again after *)
(* a decision; several desks may be open, so any record that was PENDING     *)
(* once may still be on one of their lists.  A review reads the record,      *)
(* updates it by its id alone, and an approval then issues a grant; the      *)
(* audit row in between is in IdentityRecords.                               *)

Listed(i) == status[i] # "none"

Reads(r, i, o) ==
  /\ review[r] = NoReview
  /\ review' = [review EXCEPT ![r] = [at |-> o, on |-> i, read |-> IF o = "approve" THEN ref[i] ELSE Nil]]
  /\ contested' = IF \E q \in Reviews : review[q].on = i
                  THEN contested \cup {i} ELSE contested
  /\ UNCHANGED <<browser, code, status, ref, grants, again>>

\* Mutant: the server trusts the page's list.
ApproveReadListed(r, i) == Listed(i) /\ Reads(r, i, "approve")

\* handleApprove, and findOrFail with the check behind it: a record that is
\* no longer PENDING is refused, whatever grants it has.
ApproveRead(r, i) ==
  /\ Listed(i) /\ status[i] = "PENDING" /\ grants[i] < MaxGrants
  /\ Reads(r, i, "approve")

\* handleReject, and the same check.
RejectRead(r, i) ==
  /\ Listed(i) /\ status[i] = "PENDING"
  /\ Reads(r, i, "reject")

\* The update by id, whatever the status is by now, with the profile as read.
ApproveUpdate(r) ==
  LET i == review[r].on
  IN /\ review[r].at = "approve"
     /\ status' = [status EXCEPT ![i] = "ACTIVE"]
     /\ ref' = [ref EXCEPT ![i] = review[r].read]
     /\ review' = [review EXCEPT ![r] = [at |-> "grant", on |-> i, read |-> Nil]]
     /\ UNCHANGED <<browser, code, grants, contested, again>>

RejectUpdate(r) ==
  /\ review[r].at = "reject"
  /\ status' = [status EXCEPT ![review[r].on] = "REJECTED"]
  /\ review' = [review EXCEPT ![r] = NoReview]
  /\ UNCHANGED <<browser, code, ref, grants, contested, again>>

\* issueGrant, whatever has become of the record.
ApproveGrant(r) ==
  /\ review[r].at = "grant"
  /\ grants' = [grants EXCEPT ![review[r].on] = @ + 1]
  /\ review' = [review EXCEPT ![r] = NoReview]
  /\ UNCHANGED <<browser, code, status, ref, contested, again>>

\* A command throws, or the server process ends: what is done stays done.
ReviewFails(r) ==
  /\ review[r] # NoReview
  /\ review' = [review EXCEPT ![r] = NoReview]
  /\ UNCHANGED <<browser, code, status, ref, grants, contested, again>>

ReviewStep(r) ==
  \/ \E i \in Ids : ApproveRead(r, i) \/ RejectRead(r, i)
  \/ ApproveUpdate(r) \/ RejectUpdate(r) \/ ApproveGrant(r) \/ ReviewFails(r)

\* Checkout by staff, or the expiry job: one grant is no longer ACTIVE.
Checkout(i) ==
  /\ grants[i] > 0
  /\ grants' = [grants EXCEPT ![i] = @ - 1]
  /\ UNCHANGED <<browser, code, status, ref, review, contested, again>>

PollAnswered == PendingAnswered \/ DashboardAnswered

CheckInNext ==
  \/ \E p \in Pages : Visit(p)
  \/ TokenExpires \/ AnswerLost
  \/ \E b \in Bookings : SubmitDetails(b)
  \/ SendAnswered \/ Resend \/ SubmitCode \/ CodeAnswered \/ RegisterAnswered
  \/ Upload \/ UploadAnswered
  \/ (\E p \in Polling : SendPoll(p)) \/ PollAnswered
  \/ (\E r \in Reviews : ReviewStep(r)) \/ \E i \in Ids : Checkout(i)

CheckInSpec == CheckInInit /\ [][CheckInNext]_checkInVars

\* An open page polls on its timer and handles each answer.  Nothing is
\* assumed of guests, of staff or of the front desk.
FairCheckInSpec ==
  /\ CheckInSpec
  /\ \A p \in Polling : WF_checkInVars(SendPoll(p))
  /\ WF_checkInVars(PollAnswered)

----------------------------------------------------------------------------
(* Properties *)

\* The shape of the state.
CheckInTypeOK ==
  /\ page \in Pages
  /\ auth \in Ids \cup {Nil} /\ live \in BOOLEAN
  /\ booking \in Bookings \cup {Nil}
  /\ form \in Answer \cup {Nil}
  /\ poll \in Poll \cup {Nil}
  /\ code \in BOOLEAN
  /\ status \in [Ids -> {"none", "PENDING", "ACTIVE", "REJECTED"}]
  /\ ref \in [Ids -> Bookings \cup {Nil}]
  /\ grants \in [Ids -> Nat]
  /\ review \in [Reviews -> Review \cup {NoReview}]
  /\ contested \subseteq Ids /\ again \subseteq Ids

\* However old the front desks' lists are, and wherever a review stops, a
\* record has at most one stay and, unless it is ACTIVE, none -- as long as no
\* two reviews of it have overlapped, and its guest has not registered again
\* during the stay (which puts the record back to PENDING under its grant).
DecidedOnce ==
  \A i \in Ids \ (again \cup contested) :
    grants[i] <= 1 /\ (status[i] # "ACTIVE" => grants[i] = 0)

InHouse == auth # Nil /\ grants[auth] > 0

\* "This page will update automatically once approved", as far as it is
\* true: the pending page of an approved guest goes on to the dashboard
\* unless the access token runs out or the stay ends first.
ApprovedPageAdvances ==
  (page = "pending" /\ InHouse) ~> (page # "pending" \/ ~live \/ ~InHouse)

\* "Revoked grant redirects guest out of dashboard" (tasks.md): an open
\* dashboard does not outlive the guest's last grant, whatever is lost.
CheckoutLeavesDashboard ==
  (page = "dashboard" /\ ~InHouse) ~> (page # "dashboard" \/ InHouse)

(* What the comments say and the code does not do: each is refuted.        *)

\* "Only PENDING records can be approved" (identity.service.ts): an approval
\* never decides a record that another review has decided.
OnlyPendingIsApproved ==
  [][\A r \in Reviews : ApproveUpdate(r) => status[review[r].on] = "PENDING"]_checkInVars

\* "No grant -- redirect to check-in" (dashboard/page.tsx): a poll sends the
\* guest to check in only when they have no grant.
SentToCheckInWithoutGrant ==
  [][DashboardAnswered /\ page' = "checkin" => ~InHouse]_checkInVars
=============================================================================
