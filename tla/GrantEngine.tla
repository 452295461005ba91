---------------------------- MODULE GrantEngine ----------------------------
(***************************************************************************)
(* The access grants of the API server: AccessService, the expiry job and  *)
(* the refresh tokens of TokenService, on one database.                    *)
(*                                                                         *)
(* No operation runs in a transaction.  Each is cut at its awaits, so a    *)
(* step is one database command and other requests, on this server or on   *)
(* another, run in between.  The checks an operation made are as old as    *)
(* the command that read them.                                             *)
(*                                                                         *)
(* Left out: the privilege cache, a key that is only deleted (no route     *)
(* calls checkPrivilege, which fills it); the grants copied into access    *)
(* tokens, which no guard reads; the seven days a refresh token lasts.     *)
(***************************************************************************)
EXTENDS Integers, FiniteSets

CONSTANTS
  Subjects,       \* identities of guests
  Grants,         \* ids of access grants
  Tokens,         \* refresh tokens that may be drawn
  Handlers,       \* HTTP requests in progress at once
  Jobs,           \* expiry jobs in progress at once
  SubjectOf,      \* the subject of each grant
  OwnerOf,        \* the subject of each token
  MaxFaults,      \* bound: commands that fail and processes that crash
  None

Procs == Handlers \cup Jobs

ASSUME GrantAssumption ==
  /\ SubjectOf \in [Grants -> Subjects]
  /\ OwnerOf \in [Tokens -> Subjects]
  /\ Handlers \cap Jobs = {}
  /\ Grants \cap Tokens = {}
  /\ None \notin Grants \cup Tokens
  /\ MaxFaults \in Nat

\* What a request does next.  The first five belong to revokeGrant.
Revoking == {"revoke", "findVouchers", "revokeVouchers", "revokeTokens", "logRevoked"}
Labels == {"idle", "provision", "logIssued", "restrict", "unrestrict",
           "rotate", "mint", "expiry"} \cup Revoking

VARIABLES
  status,        \* access_grants.status; "none" before the row exists
  callingRestricted,  \* the grants with calling_restricted
  revokeReason,  \* access_grants.revoke_reason
  due,           \* the grants whose valid_until has passed
  voucher,       \* wifi_vouchers.status of a grant's voucher
  token,         \* refresh_tokens: "none", "live", or "revoked" (revoked_at)
  mintedFrom,    \* the token a token was minted in exchange for
  issuedRows,    \* GRANT_ISSUED rows in the audit log
  revokedRows,   \* GRANT_REVOKED rows in the audit log
  at,            \* where each request is
  on,            \* the grant or token it is about
  todo,          \* the grants an expiry job has still to process
  existing,      \* history: tokens and voucher there were when a grant was
                 \* last marked REVOKED
  faults         \* faults so far

grants == <<status, callingRestricted, revokeReason, due>>
sessions == <<token, mintedFrom>>
audit == <<issuedRows, revokedRows>>
procs == <<at, on, todo>>
vars == <<grants, voucher, sessions, audit, procs, existing, faults>>

Init ==
  /\ status = [g \in Grants |-> "none"]
  /\ callingRestricted = {}
  /\ revokeReason = [g \in Grants |-> "none"]
  /\ due = {}
  /\ voucher = [g \in Grants |-> "none"]
  /\ token = [k \in Tokens |-> "none"]
  /\ mintedFrom = [k \in Tokens |-> None]
  /\ issuedRows = [g \in Grants |-> 0]
  /\ revokedRows = [g \in Grants |-> 0]
  /\ at = [p \in Procs |-> "idle"]
  /\ on = [p \in Procs |-> None]
  /\ todo = [j \in Jobs |-> {}]
  /\ existing = [g \in Grants |-> {}]
  /\ faults = 0

\* A request p begins to work on x at label l, goes on to l, or is over.
Begin(p, l, x) ==
  /\ p \in Handlers /\ at[p] = "idle"
  /\ at' = [at EXCEPT ![p] = l]
  /\ on' = [on EXCEPT ![p] = x]
  /\ UNCHANGED todo

Goto(p, l) ==
  /\ at' = [at EXCEPT ![p] = l]
  /\ UNCHANGED <<on, todo>>

\* A job returns to its loop, a handler to its caller.
Finish(p) ==
  /\ at' = [at EXCEPT ![p] = IF p \in Jobs THEN "expiry" ELSE "idle"]
  /\ on' = [on EXCEPT ![p] = None]
  /\ UNCHANGED todo

IssuedTokens(s) == {k \in Tokens : OwnerOf[k] = s /\ token[k] # "none"}

----------------------------------------------------------------------------
(* issueGrant *)

IssueGrant(p, g) ==
  /\ status[g] = "none"
  /\ status' = [status EXCEPT ![g] = "ACTIVE"]
  /\ Begin(p, "provision", g)
  /\ UNCHANGED <<callingRestricted, revokeReason, due, voucher, sessions,
                 audit, existing, faults>>

\* provisionWifi: a missing adapter and an error are both passed over.
ProvisionWifi(p) ==
  /\ at[p] = "provision"
  /\ \/ voucher' = [voucher EXCEPT ![on[p]] = "ACTIVE"]
     \/ UNCHANGED voucher
  /\ Goto(p, "logIssued")
  /\ UNCHANGED <<grants, sessions, audit, existing, faults>>

LogIssued(p) ==
  /\ at[p] = "logIssued"
  /\ issuedRows' = [issuedRows EXCEPT ![on[p]] = @ + 1]
  /\ Finish(p)
  /\ UNCHANGED <<grants, voucher, sessions, revokedRows, existing, faults>>

----------------------------------------------------------------------------
(* revokeGrant *)

\* The read and the check; a grant that is not ACTIVE is a 400.
RevokeRead(p, g) ==
  /\ status[g] = "ACTIVE"
  /\ Begin(p, "revoke", g)
  /\ UNCHANGED <<grants, voucher, sessions, audit, existing, faults>>

\* The update, by id alone.
RevokeUpdate(p) ==
  LET g == on[p]
  IN /\ at[p] = "revoke"
     /\ status' = [status EXCEPT ![g] = "REVOKED"]
     /\ revokeReason' = [revokeReason EXCEPT
          ![g] = IF p \in Jobs THEN "SCHEDULED_EXPIRY" ELSE "CHECKOUT"]
     /\ existing' = [existing EXCEPT
          ![g] = IssuedTokens(SubjectOf[g]) \cup
                   (IF voucher[g] = "none" THEN {} ELSE {g})]
     /\ Goto(p, "findVouchers")
     /\ UNCHANGED <<callingRestricted, due, voucher, sessions, audit, faults>>

\* Mutant: finding no voucher ends the whole revocation.
FindVouchersReturns(p) ==
  /\ at[p] = "findVouchers"
  /\ Goto(p, IF voucher[on[p]] = "ACTIVE" THEN "revokeVouchers" ELSE "logRevoked")
  /\ UNCHANGED <<grants, voucher, sessions, audit, existing, faults>>

\* revokeWifiVouchers returns at once when it finds none.
FindVouchers(p) ==
  /\ at[p] = "findVouchers"
  /\ Goto(p, IF voucher[on[p]] = "ACTIVE" THEN "revokeVouchers" ELSE "revokeTokens")
  /\ UNCHANGED <<grants, voucher, sessions, audit, existing, faults>>

RevokeVouchers(p) ==
  /\ at[p] = "revokeVouchers"
  /\ voucher' = [voucher EXCEPT ![on[p]] = IF @ = "ACTIVE" THEN "REVOKED" ELSE @]
  /\ Goto(p, "revokeTokens")
  /\ UNCHANGED <<grants, sessions, audit, existing, faults>>

\* Mutant: the audit row of a revocation is forgotten.
RevokeTokensUnlogged(p) ==
  /\ at[p] = "revokeTokens"
  /\ token' = [k \in Tokens |->
       IF token[k] = "live" /\ OwnerOf[k] = SubjectOf[on[p]] THEN "revoked" ELSE token[k]]
  /\ Finish(p)
  /\ UNCHANGED <<grants, voucher, mintedFrom, audit, existing, faults>>

\* revokeAllTokensForSubject
RevokeTokens(p) ==
  /\ at[p] = "revokeTokens"
  /\ token' = [k \in Tokens |->
       IF token[k] = "live" /\ OwnerOf[k] = SubjectOf[on[p]] THEN "revoked" ELSE token[k]]
  /\ Goto(p, "logRevoked")
  /\ UNCHANGED <<grants, voucher, mintedFrom, audit, existing, faults>>

LogRevoked(p) ==
  /\ at[p] = "logRevoked"
  /\ revokedRows' = [revokedRows EXCEPT ![on[p]] = @ + 1]
  /\ Finish(p)
  /\ UNCHANGED <<grants, voucher, sessions, issuedRows, existing, faults>>

----------------------------------------------------------------------------
(* expireGrants, run by the cron job *)

\* Mutant: the query leaves valid_until out.
ExpiryScanAll(j) ==
  LET expired == {g \in Grants : status[g] = "ACTIVE"}
  IN /\ j \in Jobs /\ at[j] = "idle" /\ expired # {}
     /\ at' = [at EXCEPT ![j] = "expiry"]
     /\ todo' = [todo EXCEPT ![j] = expired]
     /\ UNCHANGED <<on, grants, voucher, sessions, audit, existing, faults>>

ExpiryScan(j) ==
  LET expired == {g \in Grants : status[g] = "ACTIVE" /\ g \in due}
  IN /\ j \in Jobs /\ at[j] = "idle" /\ expired # {}
     /\ at' = [at EXCEPT ![j] = "expiry"]
     /\ todo' = [todo EXCEPT ![j] = expired]
     /\ UNCHANGED <<on, grants, voucher, sessions, audit, existing, faults>>

\* revokeGrant's read for the next grant of the list; one that is no longer
\* ACTIVE is skipped.
ExpiryNext(j) ==
  /\ at[j] = "expiry"
  /\ \E g \in todo[j] :
       /\ todo' = [todo EXCEPT ![j] = @ \ {g}]
       /\ IF status[g] = "ACTIVE"
          THEN /\ at' = [at EXCEPT ![j] = "revoke"]
               /\ on' = [on EXCEPT ![j] = g]
          ELSE UNCHANGED <<at, on>>
  /\ UNCHANGED <<grants, voucher, sessions, audit, existing, faults>>

\* Mutant: a job that is through its list never gives way to the next.
ExpiryDoneWedged(j) ==
  /\ at[j] = "expiry" /\ todo[j] = {}
  /\ Goto(j, "expiry")
  /\ UNCHANGED <<grants, voucher, sessions, audit, existing, faults>>

ExpiryDone(j) ==
  /\ at[j] = "expiry" /\ todo[j] = {}
  /\ Goto(j, "idle")
  /\ UNCHANGED <<grants, voucher, sessions, audit, existing, faults>>

----------------------------------------------------------------------------
(* restrictCalling *)

\* findFirst: any ACTIVE grant of the subject.
RestrictRead(p, g, l) ==
  /\ l \in {"restrict", "unrestrict"}
  /\ status[g] = "ACTIVE"
  /\ Begin(p, l, g)
  /\ UNCHANGED <<grants, voucher, sessions, audit, existing, faults>>

\* Mutant: the row that was read is saved whole.
RestrictUpdateSavesRow(p) ==
  /\ at[p] \in {"restrict", "unrestrict"}
  /\ callingRestricted' = IF at[p] = "restrict" THEN callingRestricted \cup {on[p]}
                          ELSE callingRestricted \ {on[p]}
  /\ status' = [status EXCEPT ![on[p]] = "ACTIVE"]
  /\ Finish(p)
  /\ UNCHANGED <<revokeReason, due, voucher, sessions, audit, existing, faults>>

RestrictUpdate(p) ==
  /\ at[p] \in {"restrict", "unrestrict"}
  /\ callingRestricted' = IF at[p] = "restrict" THEN callingRestricted \cup {on[p]}
                          ELSE callingRestricted \ {on[p]}
  /\ Finish(p)
  /\ UNCHANGED <<status, revokeReason, due, voucher, sessions, audit,
                 existing, faults>>

----------------------------------------------------------------------------
(* Refresh tokens *)

Create(k, from) ==
  /\ token[k] = "none"
  /\ token' = [token EXCEPT ![k] = "live"]
  /\ mintedFrom' = [mintedFrom EXCEPT ![k] = from]

\* A login ends in issueTokenPair; a guest may log in at any time.
Login(k) ==
  /\ Create(k, None)
  /\ UNCHANGED <<grants, voucher, audit, procs, existing, faults>>

\* Mutant: the new token is minted without the old one being revoked.
RefreshReadOnly(p, k) ==
  /\ token[k] = "live"
  /\ Begin(p, "mint", k)
  /\ UNCHANGED <<grants, voucher, sessions, audit, existing, faults>>

\* refreshAccessToken: the read and its checks,
RefreshRead(p, k) ==
  /\ token[k] = "live"
  /\ Begin(p, "rotate", k)
  /\ UNCHANGED <<grants, voucher, sessions, audit, existing, faults>>

\* the update of the old token, by id alone,
RefreshRotate(p) ==
  /\ at[p] = "rotate"
  /\ token' = [token EXCEPT ![on[p]] = "revoked"]
  /\ Goto(p, "mint")
  /\ UNCHANGED <<grants, voucher, mintedFrom, audit, existing, faults>>

\* and the new one.
RefreshMint(p, k) ==
  /\ at[p] = "mint"
  /\ OwnerOf[k] = OwnerOf[on[p]]
  /\ Create(k, on[p])
  /\ Finish(p)
  /\ UNCHANGED <<grants, voucher, audit, existing, faults>>

\* revokeToken
Logout(k) ==
  /\ token[k] = "live"
  /\ token' = [token EXCEPT ![k] = "revoked"]
  /\ UNCHANGED <<grants, voucher, mintedFrom, audit, procs, existing, faults>>

----------------------------------------------------------------------------
(* The world around the server *)

FallsDue(g) ==
  /\ g \notin due
  /\ due' = due \cup {g}
  /\ UNCHANGED <<status, callingRestricted, revokeReason, voucher, sessions,
                 audit, procs, existing, faults>>

\* A command throws.  A request is over; the loop of expireGrants catches
\* the error and goes on with the next grant.
Throws(p) ==
  /\ at[p] # "idle" /\ faults < MaxFaults
  /\ faults' = faults + 1
  /\ \/ at[p] # "expiry" /\ Finish(p)
     \/ /\ at[p] = "expiry"
        /\ \E g \in todo[p] : todo' = [todo EXCEPT ![p] = @ \ {g}]
        /\ UNCHANGED <<at, on>>
  /\ UNCHANGED <<grants, voucher, sessions, audit, existing>>

\* The server process ends: nothing in progress is taken up again.
Crash ==
  /\ faults < MaxFaults
  /\ faults' = faults + 1
  /\ at' = [p \in Procs |-> "idle"]
  /\ on' = [p \in Procs |-> None]
  /\ todo' = [j \in Jobs |-> {}]
  /\ UNCHANGED <<grants, voucher, sessions, audit, existing>>

\* What an operation does once it has begun.
Continue(p) ==
  \/ ProvisionWifi(p) \/ LogIssued(p)
  \/ RevokeUpdate(p) \/ FindVouchers(p) \/ RevokeVouchers(p)
  \/ RevokeTokens(p) \/ LogRevoked(p)
  \/ ExpiryNext(p) \/ ExpiryDone(p)
  \/ RestrictUpdate(p)
  \/ RefreshRotate(p) \/ \E k \in Tokens : RefreshMint(p, k)

Next ==
  \/ \E p \in Procs : Continue(p) \/ Throws(p)
  \/ \E j \in Jobs : ExpiryScan(j)
  \/ \E p \in Handlers, g \in Grants :
       \/ IssueGrant(p, g) \/ RevokeRead(p, g)
       \/ \E l \in {"restrict", "unrestrict"} : RestrictRead(p, g, l)
  \/ \E p \in Handlers, k \in Tokens : RefreshRead(p, k)
  \/ \E k \in Tokens : Login(k) \/ Logout(k)
  \/ \E g \in Grants : FallsDue(g)
  \/ Crash

Spec == Init /\ [][Next]_vars

\* A request that has begun goes on (or throws), and cron starts the job
\* again every five minutes.
FairSpec ==
  Spec /\ \A p \in Procs : WF_vars(Continue(p))
       /\ \A j \in Jobs : WF_vars(ExpiryScan(j))

----------------------------------------------------------------------------
(* Properties *)

\* The shape of the state.
TypeOK ==
  /\ status \in [Grants -> {"none", "ACTIVE", "REVOKED"}]
  /\ callingRestricted \subseteq Grants
  /\ revokeReason \in [Grants -> {"none", "CHECKOUT", "SCHEDULED_EXPIRY"}]
  /\ due \subseteq Grants
  /\ voucher \in [Grants -> {"none", "ACTIVE", "REVOKED"}]
  /\ token \in [Tokens -> {"none", "live", "revoked"}]
  /\ mintedFrom \in [Tokens -> Tokens \cup {None}]
  /\ issuedRows \in [Grants -> Nat] /\ revokedRows \in [Grants -> Nat]
  /\ at \in [Procs -> Labels]
  /\ on \in [Procs -> Grants \cup Tokens \cup {None}]
  /\ todo \in [Jobs -> SUBSET Grants]
  /\ existing \in [Grants -> SUBSET (Tokens \cup Grants)]
  /\ faults \in 0..MaxFaults

\* Some request is at one of the labels ls of a revocation of g.
BeingRevoked(g, ls) == \E p \in Procs : on[p] = g /\ at[p] \in ls

\* When a checkout is over every refresh token there was when the grant was
\* marked REVOKED is dead, and so is its voucher, whatever refreshes, logins
\* and other checkouts ran meanwhile, as long as no command failed.
CheckoutEndsWhatExisted ==
  faults = 0 => \A g \in Grants : status[g] = "REVOKED" =>
    /\ (\E k \in Tokens : k \in existing[g] /\ token[k] = "live") =>
         BeingRevoked(g, {"findVouchers", "revokeVouchers", "revokeTokens"})
    /\ (g \in existing[g] /\ voucher[g] = "ACTIVE") =>
         BeingRevoked(g, {"findVouchers", "revokeVouchers"})

\* The audit trail tells each revocation: a grant that is REVOKED has its
\* row, or a request about to write it, and no row is there for one that is
\* not, as long as no command failed.
RevocationAudited ==
  \A g \in Grants :
    /\ revokedRows[g] > 0 => status[g] = "REVOKED"
    /\ faults = 0 /\ status[g] = "REVOKED" =>
         revokedRows[g] > 0 \/ BeingRevoked(g, Revoking \ {"revoke"})

\* No guest is put out by the expiry job before valid_until, however long
\* the list it read has been waiting.
NeverExpiredEarly ==
  \A g \in Grants : revokeReason[g] = "SCHEDULED_EXPIRY" => g \in due

\* REVOKED is final: no update made from an older read brings a grant, or a
\* rotated or revoked refresh token, back.
RevokedForever ==
  [][/\ \A g \in Grants : status[g] = "REVOKED" => status'[g] = "REVOKED"
     /\ \A k \in Tokens : token[k] = "revoked" => token'[k] = "revoked"]_vars

\* "Rotates the refresh token: old one is revoked": by the time a new token
\* exists the one it was minted from is dead.
RotatedTokenIsDead ==
  \A k \in Tokens : mintedFrom[k] # None => token[mintedFrom[k]] = "revoked"

\* REQ-AC-03: every grant past its end is revoked, though jobs overlap with
\* checkouts and fail or crash a bounded number of times.
GrantsExpire ==
  \A g \in Grants : (status[g] = "ACTIVE" /\ g \in due) ~> status[g] = "REVOKED"

\* design.md 3.7.4: a checkout that has marked the grant goes on to end every
\* session there was, unless a command fails.
CheckoutCompletes ==
  \A g \in Grants, k \in Tokens :
    (status[g] = "REVOKED" /\ k \in existing[g]) ~> token[k] # "live" \/ faults > 0

(* What the documentation says and the code does not do: each is refuted.  *)

\* design.md 3.3.3: the job calls revokeGrant, which "is idempotent", so a
\* revocation that failed half-way is completed by a later one.
CheckoutSurvivesFaults ==
  \A g \in Grants, k \in Tokens :
    (status[g] = "REVOKED" /\ k \in existing[g]) ~> token[k] # "live"

\* REQ-AUTH-04: a session from before the checkout ends with it.
SessionsEndAtCheckout ==
  faults = 0 => \A g \in Grants :
    status[g] = "REVOKED" /\ ~BeingRevoked(g, Revoking) =>
      \A k \in Tokens : mintedFrom[k] \in existing[g] => token[k] # "live"
=============================================================================
