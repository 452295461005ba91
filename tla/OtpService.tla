----------------------------- MODULE OtpService -----------------------------
(***************************************************************************)
(* Guest login by one-time password: OtpService on Redis and SNS, and      *)
(* GuestAuthService, which finds or creates the guest's identity.          *)
(*                                                                         *)
(* Every Redis command, SNS call and database command is a step of its     *)
(* own; other requests run in between.  A code is a member of Codes drawn  *)
(* once: that two of a million codes coincide is left out, as are the      *)
(* bypass code of development builds and the hash the code is stored as.   *)
(***************************************************************************)
EXTENDS Integers, FiniteSets

CONSTANTS
  Mobiles,      \* phone numbers
  Codes,        \* one-time passwords that may be drawn
  Handlers,     \* HTTP requests in progress at once
  MaxAttempts,  \* OTP_MAX_ATTEMPTS
  MaxWindows,   \* bound: rate windows of a number that elapse
  MaxRefusals,  \* bound: refused sends of a number in a window
  MaxGuests,    \* bound: identities of a number beside which staff add none
  MaxFaults,    \* bound: commands that fail and processes that crash
  None

ASSUME OtpAssumption ==
  /\ MaxAttempts \in Nat \ {0} /\ MaxWindows \in Nat
  /\ MaxRefusals \in Nat /\ MaxGuests \in Nat /\ MaxFaults \in Nat
  /\ None \notin Codes

Sending == {"expire", "refused", "store", "publish", "discard"}
Verifying == {"delete", "findGuest", "createGuest", "issueTokens"}

VARIABLES
  stored,     \* Redis otp:{mobile}
  attempts,   \* Redis otp_rate:{mobile}
  ttl,        \* does that key have an expiry
  windows,    \* rate windows of a number that have elapsed
  sms,        \* codes a number has received
  drawn,      \* codes drawn so far
  verified,   \* how often verifyOtp has returned true for a code
  guests,     \* GUEST identities with this number
  rejected,   \* has staff rejected one of them
  sessions,   \* refresh tokens issued to them
  crossed,    \* history: numbers two of whose logins were to create a guest
              \* at once, or for which staff added one during such a login or
              \* beside another
  at,         \* where each request is
  mobile,     \* its number
  code,       \* its code
  faults      \* faults so far

limiter == <<attempts, ttl, windows>>
accounts == <<guests, rejected, sessions, crossed>>
procs == <<at, mobile, code>>
codes == <<sms, drawn, verified>>
vars == <<stored, limiter, codes, accounts, procs, faults>>

Init ==
  /\ stored = [m \in Mobiles |-> None]
  /\ attempts = [m \in Mobiles |-> 0]
  /\ ttl = [m \in Mobiles |-> FALSE]
  /\ windows = [m \in Mobiles |-> 0]
  /\ sms = [m \in Mobiles |-> {}]
  /\ drawn = {}
  /\ verified = [c \in Codes |-> 0]
  /\ guests = [m \in Mobiles |-> 0]
  /\ rejected = [m \in Mobiles |-> FALSE]
  /\ sessions = [m \in Mobiles |-> 0]
  /\ crossed = {}
  /\ at = [p \in Handlers |-> "idle"]
  /\ mobile \in [Handlers -> Mobiles]
  /\ code = [p \in Handlers |-> None]
  /\ faults = 0

Goto(p, l) ==
  /\ at' = [at EXCEPT ![p] = l]
  /\ UNCHANGED <<mobile, code>>

----------------------------------------------------------------------------
(* sendOtp *)

\* Mutant: the limit is compared with the count before the increment.
SendIncrOffByOne(p, m) ==
  LET n == attempts[m] + 1
  IN /\ at[p] = "idle" /\ n <= MaxAttempts + MaxRefusals
     /\ attempts' = [attempts EXCEPT ![m] = n]
     /\ at' = [at EXCEPT ![p] = IF n = 1 THEN "expire"
                                ELSE IF n - 1 > MaxAttempts THEN "refused"
                                ELSE "store"]
     /\ mobile' = [mobile EXCEPT ![p] = m]
     /\ UNCHANGED <<stored, ttl, windows, codes, accounts, code, faults>>

\* Mutant: EXPIRE is sent for the send that is refused, not for the first.
SendIncrExpiresLate(p, m) ==
  LET n == attempts[m] + 1
  IN /\ at[p] = "idle" /\ n <= MaxAttempts + MaxRefusals
     /\ attempts' = [attempts EXCEPT ![m] = n]
     /\ at' = [at EXCEPT ![p] = IF n = MaxAttempts + 1 THEN "expire"
                                ELSE IF n > MaxAttempts THEN "refused"
                                ELSE "store"]
     /\ mobile' = [mobile EXCEPT ![p] = m]
     /\ UNCHANGED <<stored, ttl, windows, codes, accounts, code, faults>>

\* checkRateLimit: INCR, then EXPIRE when the count came back as 1.
SendIncr(p, m) ==
  LET n == attempts[m] + 1
  IN /\ at[p] = "idle" /\ n <= MaxAttempts + MaxRefusals
     /\ attempts' = [attempts EXCEPT ![m] = n]
     /\ at' = [at EXCEPT ![p] = IF n = 1 THEN "expire"
                                ELSE IF n > MaxAttempts THEN "refused"
                                ELSE "store"]
     /\ mobile' = [mobile EXCEPT ![p] = m]
     /\ UNCHANGED <<stored, ttl, windows, codes, accounts, code, faults>>

SendExpire(p) ==
  /\ at[p] = "expire"
  /\ ttl' = [ttl EXCEPT ![mobile[p]] = TRUE]
  /\ Goto(p, "store")
  /\ UNCHANGED <<stored, attempts, windows, codes, accounts, faults>>

\* 429, once the TTL has been read.
SendRefused(p) ==
  /\ at[p] = "refused"
  /\ Goto(p, "idle")
  /\ UNCHANGED <<stored, limiter, codes, accounts, faults>>

\* A new code replaces the one stored before.
StoreCode(p, c) ==
  /\ at[p] = "store" /\ c \notin drawn
  /\ drawn' = drawn \cup {c}
  /\ stored' = [stored EXCEPT ![mobile[p]] = c]
  /\ at' = [at EXCEPT ![p] = "publish"]
  /\ code' = [code EXCEPT ![p] = c]
  /\ UNCHANGED <<limiter, sms, verified, accounts, mobile, faults>>

\* A publish that throws may have been delivered all the same.
Publish(p) ==
  /\ at[p] = "publish"
  /\ LET delivered == [sms EXCEPT ![mobile[p]] = @ \cup {code[p]}]
     IN \/ sms' = delivered /\ Goto(p, "idle")
        \/ sms' \in {sms, delivered} /\ Goto(p, "discard")
  /\ UNCHANGED <<stored, limiter, drawn, verified, accounts, faults>>

\* Mutant: a failed delivery leaves the code in place.
DiscardNothing(p) ==
  /\ at[p] = "discard"
  /\ Goto(p, "idle")
  /\ UNCHANGED <<stored, limiter, codes, accounts, faults>>

\* "Clean up the stored OTP on delivery failure": the key, whatever it holds.
Discard(p) ==
  /\ at[p] = "discard"
  /\ stored' = [stored EXCEPT ![mobile[p]] = None]
  /\ Goto(p, "idle")
  /\ UNCHANGED <<limiter, codes, accounts, faults>>

----------------------------------------------------------------------------
(* verifyOtp, of OtpService and then of GuestAuthService *)

\* GET and compare: a guest types a code that has come by SMS.
VerifyRead(p, m, c) ==
  /\ at[p] = "idle"
  /\ c \in sms[m] /\ stored[m] = c
  /\ at' = [at EXCEPT ![p] = "delete"]
  /\ mobile' = [mobile EXCEPT ![p] = m]
  /\ code' = [code EXCEPT ![p] = c]
  /\ UNCHANGED <<stored, limiter, codes, accounts, faults>>

\* Mutant: the rate key is deleted instead of the code.
VerifyDeleteRate(p) ==
  /\ at[p] = "delete"
  /\ attempts' = [attempts EXCEPT ![mobile[p]] = 0]
  /\ ttl' = [ttl EXCEPT ![mobile[p]] = FALSE]
  /\ verified' = [verified EXCEPT ![code[p]] = @ + 1]
  /\ Goto(p, "findGuest")
  /\ UNCHANGED <<stored, windows, sms, drawn, accounts, faults>>

\* DEL: the key, whatever it holds by now.  verifyOtp returns true.
VerifyDelete(p) ==
  /\ at[p] = "delete"
  /\ stored' = [stored EXCEPT ![mobile[p]] = None]
  /\ verified' = [verified EXCEPT ![code[p]] = @ + 1]
  /\ Goto(p, "findGuest")
  /\ UNCHANGED <<limiter, sms, drawn, accounts, faults>>

\* Mutant: the guest is looked up by the code instead of the number.
FindGuestNever(p) ==
  /\ at[p] = "findGuest"
  /\ Goto(p, "createGuest")
  /\ UNCHANGED <<stored, limiter, codes, accounts, faults>>

Registering(m) == {p \in Handlers : at[p] = "createGuest" /\ mobile[p] = m}

\* findFirst passes over a REJECTED identity, until its guest registers again.
FindGuest(p) ==
  LET m == mobile[p]
  IN /\ at[p] = "findGuest"
     /\ \/ guests[m] > 0 /\ Goto(p, "issueTokens") /\ UNCHANGED crossed
        \/ /\ guests[m] = 0 \/ rejected[m]
           /\ Goto(p, "createGuest")
           /\ crossed' = IF Registering(m) # {} THEN crossed \cup {m} ELSE crossed
     /\ UNCHANGED <<stored, limiter, codes, guests, rejected, sessions, faults>>

CreateGuest(p) ==
  /\ at[p] = "createGuest"
  /\ guests' = [guests EXCEPT ![mobile[p]] = @ + 1]
  /\ Goto(p, "issueTokens")
  /\ UNCHANGED <<stored, limiter, codes, rejected, sessions, crossed, faults>>

IssueTokens(p) ==
  /\ at[p] = "issueTokens"
  /\ sessions' = [sessions EXCEPT ![mobile[p]] = @ + 1]
  /\ Goto(p, "idle")
  /\ UNCHANGED <<stored, limiter, codes, guests, rejected, crossed, faults>>

----------------------------------------------------------------------------
(* The world around the server *)

CodeExpires(m) ==
  /\ stored[m] # None
  /\ stored' = [stored EXCEPT ![m] = None]
  /\ UNCHANGED <<limiter, codes, accounts, procs, faults>>

WindowElapses(m) ==
  /\ ttl[m] /\ windows[m] < MaxWindows
  /\ attempts' = [attempts EXCEPT ![m] = 0]
  /\ ttl' = [ttl EXCEPT ![m] = FALSE]
  /\ windows' = [windows EXCEPT ![m] = @ + 1]
  /\ UNCHANGED <<stored, codes, accounts, procs, faults>>

\* POST /identities with the number in the profile: createIdentity compares
\* hashes, which do not have the number in them.
StaffCreates(m) ==
  /\ guests[m] < MaxGuests
  /\ guests' = [guests EXCEPT ![m] = @ + 1]
  /\ crossed' = IF guests[m] > 0 \/ Registering(m) # {} THEN crossed \cup {m} ELSE crossed
  /\ UNCHANGED <<stored, limiter, codes, rejected, sessions, procs, faults>>

\* Staff reject an identity (IdentityRecords), its guest having registered.
Rejected(m) ==
  /\ guests[m] > 0 /\ ~rejected[m]
  /\ rejected' = [rejected EXCEPT ![m] = TRUE]
  /\ UNCHANGED <<stored, limiter, codes, guests, sessions, crossed, procs, faults>>

\* A command throws, or the server process ends: the request is over.
Fails(p) ==
  /\ at[p] # "idle" /\ faults < MaxFaults
  /\ faults' = faults + 1
  /\ Goto(p, "idle")
  /\ UNCHANGED <<stored, limiter, codes, accounts>>

Continue(p) ==
  \/ SendExpire(p) \/ SendRefused(p) \/ \E c \in Codes : StoreCode(p, c)
  \/ Publish(p) \/ Discard(p)
  \/ VerifyDelete(p) \/ FindGuest(p) \/ CreateGuest(p) \/ IssueTokens(p)

Next ==
  \/ \E p \in Handlers : Continue(p) \/ Fails(p)
  \/ \E p \in Handlers, m \in Mobiles :
       SendIncr(p, m) \/ \E c \in Codes : VerifyRead(p, m, c)
  \/ \E m \in Mobiles :
       CodeExpires(m) \/ WindowElapses(m) \/ StaffCreates(m) \/ Rejected(m)

Spec == Init /\ [][Next]_vars

----------------------------------------------------------------------------
(* Properties *)

\* The shape of the state.
TypeOK ==
  /\ stored \in [Mobiles -> Codes \cup {None}]
  /\ attempts \in [Mobiles -> Nat]
  /\ ttl \in [Mobiles -> BOOLEAN]
  /\ windows \in [Mobiles -> 0..MaxWindows]
  /\ sms \in [Mobiles -> SUBSET Codes]
  /\ drawn \subseteq Codes
  /\ verified \in [Codes -> Nat]
  /\ guests \in [Mobiles -> Nat] /\ sessions \in [Mobiles -> Nat]
  /\ rejected \in [Mobiles -> BOOLEAN] /\ crossed \subseteq Mobiles
  /\ at \in [Handlers -> {"idle"} \cup Sending \cup Verifying]
  /\ mobile \in [Handlers -> Mobiles]
  /\ code \in [Handlers -> Codes \cup {None}]
  /\ faults \in 0..MaxFaults

\* REQ-AUTH-05: a number never gets more codes than the limit per elapsed
\* window, with any number of requests in flight and wherever one fails.
SendRateBounded ==
  \A m \in Mobiles : Cardinality(sms[m]) <= MaxAttempts * (windows[m] + 1)

\* "don't leave a dangling entry" (otp.service.ts): while no command fails, a
\* code that can be verified has been delivered, or the request that drew it
\* is about to deliver or discard it, whatever other sends overlap with it.
NoDanglingCode ==
  faults = 0 => \A m \in Mobiles : stored[m] # None =>
    \/ stored[m] \in sms[m]
    \/ \E p \in Handlers : /\ at[p] \in {"publish", "discard"}
                           /\ mobile[p] = m /\ code[p] = stored[m]

\* A code that has verified is not stored, so it verifies again only for a
\* request that had read it before: sends, failures and other logins that
\* overlap never bring a used code back.
UsedCodeIsGone ==
  \A m \in Mobiles : stored[m] # None => verified[stored[m]] = 0

\* "Find or create": logins one after the other, whatever fails in between,
\* leave a number with one identity. It has a second only if staff rejected
\* one or added one, or if two logins were to create one at the same time.
SecondGuestOnlyByOverlap ==
  \A m \in Mobiles : ~rejected[m] /\ m \notin crossed => guests[m] <= 1

\* Until a command fails, the send limiter implements the abstract rate
\* window, whatever sends overlap: an admission is the INCR that returns at
\* most the limit, and EXPIRE is part of the first.
Window == INSTANCE RateWindow WITH
  Keys <- Mobiles,
  Limit <- MaxAttempts,
  left <- [m \in Mobiles |->
             IF attempts[m] < MaxAttempts THEN MaxAttempts - attempts[m] ELSE 0],
  open <- [m \in Mobiles |->
             ttl[m] \/ \E p \in Handlers : at[p] = "expire" /\ mobile[p] = m]
ImplementsRateWindow ==
  Window!Init /\ [][faults' = 0 => [Window!Next]_(Window!vars)]_vars

(* What the documentation says and the code does not do: it is refuted.    *)

\* "Delete on successful verification (one-time use)" (otp.service.ts): a
\* code verifies once.
OneTimeUse == \A c \in Codes : verified[c] <= 1
=============================================================================
