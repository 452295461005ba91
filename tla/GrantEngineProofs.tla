------------------------- MODULE GrantEngineProofs -------------------------
(***************************************************************************)
(* What holds of GrantEngine for any number of guests, grants, tokens,     *)
(* requests and jobs.                                                      *)
(*                                                                         *)
(* The inductive invariant has four parts: Located says what each request  *)
(* is working on, OnTime that a job works on grants that are due, Rooted   *)
(* that the history of a checkout names only what was there, and the       *)
(* properties themselves.                                                  *)
(***************************************************************************)
EXTENDS GrantEngine, TLAPS

GrantLabels == {"provision", "logIssued", "restrict", "unrestrict"} \cup Revoking

\* What a request works on exists, and is as its earlier steps left it.
LocatedAt(p) ==
  /\ at[p] \in GrantLabels => on[p] \in Grants
  /\ at[p] \in {"rotate", "mint"} => on[p] \in Tokens
  /\ at[p] = "mint" => token[on[p]] = "revoked"
  /\ at[p] = "revoke" => status[on[p]] # "none"
  /\ at[p] \in Revoking \ {"revoke"} => status[on[p]] = "REVOKED"
  /\ p \in Handlers => at[p] # "expiry"

Located == \A p \in Procs : LocatedAt(p)

\* A job has only grants that are past their end on its list and in hand.
OnTimeAt(j) == todo[j] \subseteq due /\ (at[j] = "revoke" => on[j] \in due)
OnTime == \A j \in Jobs : OnTimeAt(j)

WellFormed == TypeOK /\ Located

----------------------------------------------------------------------------
(* Types *)

LEMMA InitWellFormed == Init => WellFormed /\ OnTime
  BY GrantAssumption
  DEF Init, WellFormed, TypeOK, Located, LocatedAt, OnTime, OnTimeAt, GrantLabels,
      Revoking, Labels, Procs

\* A step of the request p alone.
LEMMA ContinueType ==
  ASSUME WellFormed, NEW p \in Procs, Continue(p)
  PROVE  TypeOK'
<1> USE GrantAssumption
<1>1. TypeOK /\ LocatedAt(p)
  BY DEF WellFormed, Located
<1>2. CASE ProvisionWifi(p)
  BY <1>1, <1>2 DEF ProvisionWifi, TypeOK, LocatedAt, Goto, GrantLabels, Labels,
                    grants, sessions, audit
<1>3. CASE LogIssued(p)
  BY <1>1, <1>3 DEF LogIssued, TypeOK, LocatedAt, Finish, GrantLabels, Labels,
                    grants, sessions
<1>4. CASE RevokeUpdate(p)
  <2>1. on[p] \in Grants
    BY <1>1, <1>4 DEF RevokeUpdate, LocatedAt, GrantLabels, Revoking
  <2>2. IssuedTokens(SubjectOf[on[p]]) \cup
          (IF voucher[on[p]] = "none" THEN {} ELSE {on[p]}) \in SUBSET (Tokens \cup Grants)
    BY <2>1 DEF IssuedTokens
  <2> QED
    BY <1>1, <1>4, <2>1, <2>2 DEF RevokeUpdate, TypeOK, Goto, Labels, Revoking,
                                  sessions, audit
<1>5. CASE FindVouchers(p)
  BY <1>1, <1>5 DEF FindVouchers, TypeOK, Goto, Labels, Revoking, grants, sessions, audit
<1>6. CASE RevokeVouchers(p)
  BY <1>1, <1>6 DEF RevokeVouchers, TypeOK, Goto, Labels, Revoking, grants, sessions, audit
<1>7. CASE RevokeTokens(p)
  BY <1>1, <1>7 DEF RevokeTokens, TypeOK, Goto, Labels, Revoking, grants, audit
<1>8. CASE LogRevoked(p)
  BY <1>1, <1>8 DEF LogRevoked, TypeOK, LocatedAt, Finish, GrantLabels, Revoking, Labels,
                    grants, sessions
<1>9. CASE ExpiryNext(p)
  BY <1>1, <1>9 DEF ExpiryNext, TypeOK, LocatedAt, Procs, Labels, Revoking,
                    grants, sessions, audit
<1>10. CASE ExpiryDone(p)
  BY <1>1, <1>10 DEF ExpiryDone, TypeOK, Goto, Labels, grants, sessions, audit
<1>11. CASE RestrictUpdate(p)
  BY <1>1, <1>11 DEF RestrictUpdate, TypeOK, LocatedAt, Finish, GrantLabels, Labels,
                     sessions, audit
<1>12. CASE RefreshRotate(p)
  BY <1>1, <1>12 DEF RefreshRotate, TypeOK, Goto, Labels, grants, audit
<1>13. ASSUME NEW k \in Tokens, RefreshMint(p, k) PROVE TypeOK'
  BY <1>1, <1>13 DEF RefreshMint, Create, TypeOK, LocatedAt, Finish, Labels, grants, audit
<1> QED
  BY <1>2, <1>3, <1>4, <1>5, <1>6, <1>7, <1>8, <1>9, <1>10, <1>11, <1>12, <1>13
  DEF Continue

\* A step that begins an operation, or that the world takes.
LEMMA OtherStepsType ==
  ASSUME WellFormed, [Next]_vars, \A p \in Procs : ~Continue(p)
  PROVE  TypeOK'
<1> USE GrantAssumption DEF TypeOK, grants, sessions, audit, procs
<1>1. TypeOK /\ Located
  BY DEF WellFormed
<1>2. ASSUME NEW p \in Procs, Throws(p) PROVE TypeOK'
  BY <1>1, <1>2 DEF Throws, Finish, Located, LocatedAt, Procs, Labels
<1>3. ASSUME NEW j \in Jobs, ExpiryScan(j) PROVE TypeOK'
  BY <1>1, <1>3 DEF ExpiryScan, Procs, Labels
<1>4. ASSUME NEW p \in Handlers, NEW g \in Grants, NEW l \in {"restrict", "unrestrict"},
             IssueGrant(p, g) \/ RevokeRead(p, g) \/ RestrictRead(p, g, l)
      PROVE  TypeOK'
  BY <1>1, <1>4 DEF IssueGrant, RevokeRead, RestrictRead, Begin, Procs, Labels, Revoking
<1>5. ASSUME NEW p \in Handlers, NEW k \in Tokens, RefreshRead(p, k) PROVE TypeOK'
  BY <1>1, <1>5 DEF RefreshRead, Begin, Procs, Labels
<1>6. ASSUME NEW k \in Tokens, Login(k) \/ Logout(k) PROVE TypeOK'
  BY <1>1, <1>6 DEF Login, Create, Logout
<1>7. ASSUME NEW g \in Grants, FallsDue(g) PROVE TypeOK'
  BY <1>1, <1>7 DEF FallsDue
<1>8. CASE Crash
  BY <1>1, <1>8 DEF Crash, Labels
<1>9. CASE UNCHANGED vars
  BY <1>1, <1>9 DEF vars
<1> QED
  BY <1>2, <1>3, <1>4, <1>5, <1>6, <1>7, <1>8, <1>9 DEF Next

----------------------------------------------------------------------------
(* What no step undoes *)

\* A row that is there stays; REVOKED and revoked_at are final.
Final ==
  /\ \A g \in Grants : /\ status[g] # "none" => status'[g] # "none"
                       /\ status[g] = "REVOKED" => status'[g] = "REVOKED"
  /\ \A k \in Tokens : /\ token[k] # "none" => token'[k] # "none"
                       /\ token[k] = "revoked" => token'[k] = "revoked"
  /\ \A g \in Grants : voucher[g] # "none" => voucher'[g] # "none"
  /\ due \subseteq due'
  /\ faults <= faults'

LEMMA StepIsFinal ==
  ASSUME WellFormed, [Next]_vars
  PROVE  Final
<1> USE DEF Final, TypeOK, grants, sessions, audit, procs
<1>1. TypeOK /\ Located
  BY DEF WellFormed
<1>2. ASSUME NEW p \in Procs, Continue(p) PROVE Final
  BY <1>1, <1>2
  DEF Continue, ProvisionWifi, LogIssued, RevokeUpdate, FindVouchers, RevokeVouchers,
      RevokeTokens, LogRevoked, ExpiryNext, ExpiryDone, RestrictUpdate, RefreshRotate,
      RefreshMint, Create
<1>3. ASSUME NEW p \in Procs, Throws(p) PROVE Final
  BY <1>1, <1>3 DEF Throws
<1>4. ASSUME NEW p \in Handlers, NEW g \in Grants, IssueGrant(p, g) PROVE Final
  BY <1>1, <1>4 DEF IssueGrant
<1>5. ASSUME NEW k \in Tokens, Login(k) \/ Logout(k) PROVE Final
  BY <1>1, <1>5 DEF Login, Create, Logout
<1>6. ASSUME NEW g \in Grants, FallsDue(g) PROVE Final
  BY <1>1, <1>6 DEF FallsDue
<1>7. CASE Crash
  BY <1>1, <1>7 DEF Crash
<1>8. ASSUME UNCHANGED <<grants, voucher, sessions, faults>> PROVE Final
  BY <1>1, <1>8
<1> QED
  BY <1>2, <1>3, <1>4, <1>5, <1>6, <1>7, <1>8
  DEF Next, vars, ExpiryScan, RevokeRead, RestrictRead, RefreshRead

----------------------------------------------------------------------------
(* Where requests are *)

\* A request that does not move stays located.
LEMMA StillLocated ==
  ASSUME WellFormed, Final, NEW q \in Procs, at'[q] = at[q], on'[q] = on[q]
  PROVE  LocatedAt(q)'
<1>1. LocatedAt(q)
  BY DEF WellFormed, Located
<1> QED
  BY <1>1 DEF LocatedAt, Final, GrantLabels, Revoking

\* One that moves is located where it goes.
LEMMA MoverLocated ==
  ASSUME WellFormed, Final, NEW p \in Procs, Continue(p)
  PROVE  LocatedAt(p)'
<1> USE DEF LocatedAt, TypeOK, GrantLabels, Revoking, Goto, Finish
<1>1. TypeOK /\ LocatedAt(p)
  BY DEF WellFormed, Located
<1>2. CASE ProvisionWifi(p)
  BY <1>1, <1>2 DEF ProvisionWifi
<1>3. CASE LogIssued(p) \/ LogRevoked(p) \/ RestrictUpdate(p)
  BY <1>1, <1>3, GrantAssumption DEF LogIssued, LogRevoked, RestrictUpdate
<1>4. CASE RevokeUpdate(p)
  BY <1>1, <1>4 DEF RevokeUpdate
<1>5. CASE FindVouchers(p) \/ RevokeVouchers(p) \/ RevokeTokens(p)
  <2>1. on[p] \in Grants /\ status[on[p]] = "REVOKED" /\ status' = status /\ on' = on
    BY <1>1, <1>5 DEF FindVouchers, RevokeVouchers, RevokeTokens, grants
  <2>2. at'[p] \in {"revokeVouchers", "revokeTokens", "logRevoked"}
    BY <1>1, <1>5 DEF FindVouchers, RevokeVouchers, RevokeTokens
  <2> QED
    BY <2>1, <2>2
<1>6. CASE ExpiryNext(p) \/ ExpiryDone(p)
  BY <1>1, <1>6, GrantAssumption DEF ExpiryNext, ExpiryDone, grants, sessions, Procs
<1>7. CASE RefreshRotate(p)
  BY <1>1, <1>7 DEF RefreshRotate
<1>8. ASSUME NEW k \in Tokens, RefreshMint(p, k) PROVE LocatedAt(p)'
  BY <1>1, <1>8, GrantAssumption DEF RefreshMint
<1> QED
  BY <1>2, <1>3, <1>4, <1>5, <1>6, <1>7, <1>8 DEF Continue

\* Only the request a step is about moves.
LEMMA OthersStay ==
  ASSUME WellFormed, NEW p \in Procs, Continue(p) \/ Throws(p), NEW q \in Procs \ {p}
  PROVE  at'[q] = at[q] /\ on'[q] = on[q]
<1>1. TypeOK
  BY DEF WellFormed
<1> QED
  BY <1>1
  DEF TypeOK, Continue, ProvisionWifi, LogIssued, RevokeUpdate, FindVouchers,
      RevokeVouchers, RevokeTokens, LogRevoked, ExpiryNext, ExpiryDone, RestrictUpdate,
      RefreshRotate, RefreshMint, Goto, Finish, Throws

LEMMA LocatedStep ==
  ASSUME WellFormed, [Next]_vars
  PROVE  Located'
<1>1. TypeOK /\ Located /\ Final
  BY StepIsFinal DEF WellFormed
<1> SUFFICES ASSUME NEW q \in Procs PROVE LocatedAt(q)'
  BY DEF Located
<1>2. ASSUME NEW p \in Procs, Continue(p) PROVE LocatedAt(q)'
  BY <1>1, <1>2, MoverLocated, OthersStay, StillLocated
<1>3. ASSUME NEW p \in Procs, Throws(p) PROVE LocatedAt(q)'
  <2>1. CASE q # p
    BY <1>1, <1>3, <2>1, OthersStay, StillLocated
  <2>2. CASE q = p
    BY <1>1, <1>3, <2>2, StillLocated, GrantAssumption
    DEF Throws, Finish, TypeOK, LocatedAt, Located, GrantLabels, Revoking, Procs
  <2> QED
    BY <2>1, <2>2
<1>4. ASSUME NEW p \in Handlers, NEW g \in Grants, NEW l \in {"restrict", "unrestrict"},
             IssueGrant(p, g) \/ RevokeRead(p, g) \/ RestrictRead(p, g, l)
      PROVE  LocatedAt(q)'
  <2>1. CASE q # p
    BY <1>1, <1>4, <2>1, StillLocated
    DEF IssueGrant, RevokeRead, RestrictRead, Begin, TypeOK
  <2>2. CASE q = p
    BY <1>1, <1>4, <2>2
    DEF IssueGrant, RevokeRead, RestrictRead, Begin, TypeOK, LocatedAt, GrantLabels,
        Revoking, Procs, grants
  <2> QED
    BY <2>1, <2>2
<1>5. ASSUME NEW p \in Handlers, NEW k \in Tokens, RefreshRead(p, k) PROVE LocatedAt(q)'
  <2>1. CASE q # p
    BY <1>1, <1>5, <2>1, StillLocated DEF RefreshRead, Begin, TypeOK
  <2>2. CASE q = p
    BY <1>1, <1>5, <2>2
    DEF RefreshRead, Begin, TypeOK, LocatedAt, GrantLabels, Revoking, Procs
  <2> QED
    BY <2>1, <2>2
<1>6. ASSUME NEW j \in Jobs, ExpiryScan(j) PROVE LocatedAt(q)'
  <2>1. CASE q # j
    BY <1>1, <1>6, <2>1, StillLocated DEF ExpiryScan, TypeOK
  <2>2. CASE q = j
    BY <1>1, <1>6, <2>2, GrantAssumption
    DEF ExpiryScan, TypeOK, LocatedAt, GrantLabels, Revoking, Procs
  <2> QED
    BY <2>1, <2>2
<1>7. CASE Crash
  BY <1>7 DEF Crash, LocatedAt, GrantLabels, Revoking
<1>8. ASSUME UNCHANGED procs PROVE LocatedAt(q)'
  BY <1>1, <1>8, StillLocated DEF procs
<1> QED
  BY <1>2, <1>3, <1>4, <1>5, <1>6, <1>7, <1>8
  DEF Next, vars, Login, Logout, FallsDue

LEMMA WellFormedStep == WellFormed /\ [Next]_vars => WellFormed'
<1> SUFFICES ASSUME WellFormed, [Next]_vars PROVE WellFormed'
  OBVIOUS
<1>1. TypeOK'
  BY ContinueType, OtherStepsType
<1>2. Located'
  BY LocatedStep
<1> QED
  BY <1>1, <1>2 DEF WellFormed

THEOREM AlwaysWellFormed == Spec => []WellFormed
<1>1. Init => WellFormed
  BY InitWellFormed
<1> QED
  BY <1>1, WellFormedStep, PTL DEF Spec

\* The state keeps its shape.
THEOREM TypeCorrect == Spec => []TypeOK
  BY AlwaysWellFormed, PTL DEF WellFormed

\* A revoked grant is never active again, nor a revoked token.
THEOREM RevocationIsFinal == Spec => RevokedForever
<1>1. WellFormed /\ [Next]_vars =>
        [/\ \A g \in Grants : status[g] = "REVOKED" => status'[g] = "REVOKED"
         /\ \A k \in Tokens : token[k] = "revoked" => token'[k] = "revoked"]_vars
  BY StepIsFinal DEF Final
<1> QED
  BY <1>1, AlwaysWellFormed, PTL DEF Spec, RevokedForever

----------------------------------------------------------------------------
(* Expiry *)

LEMMA OnTimeStep ==
  ASSUME WellFormed, OnTime, [Next]_vars
  PROVE  OnTime'
<1>1. TypeOK /\ Located /\ Final
  BY StepIsFinal DEF WellFormed
<1> SUFFICES ASSUME NEW j \in Jobs PROVE OnTimeAt(j)'
  BY DEF OnTime
<1>2. OnTimeAt(j) /\ j \in Procs
  BY DEF OnTime, Procs
<1>3. ASSUME at'[j] = at[j], on'[j] = on[j], todo'[j] = todo[j] PROVE OnTimeAt(j)'
  BY <1>1, <1>2, <1>3 DEF OnTimeAt, Final
<1>4. ASSUME NEW p \in Procs, Continue(p) PROVE OnTimeAt(j)'
  <2>1. CASE p # j
    <3>1. at'[j] = at[j] /\ on'[j] = on[j]
      BY <1>2, <1>4, <2>1, OthersStay
    <3>2. todo'[j] = todo[j]
      BY <1>1, <1>4, <2>1
      DEF TypeOK, Continue, ProvisionWifi, LogIssued, RevokeUpdate, FindVouchers,
          RevokeVouchers, RevokeTokens, LogRevoked, ExpiryNext, ExpiryDone,
          RestrictUpdate, RefreshRotate, RefreshMint, Goto, Finish
    <3> QED
      BY <1>3, <3>1, <3>2
  <2>2. CASE p = j /\ ExpiryNext(j)
    BY <1>1, <1>2, <2>2 DEF ExpiryNext, OnTimeAt, TypeOK, grants
  <2>3. CASE p = j /\ ~ExpiryNext(j)
    <3>1. todo' = todo /\ at'[j] # "revoke"
      BY <1>1, <1>2, <1>4, <2>3
      DEF TypeOK, Continue, ProvisionWifi, LogIssued, RevokeUpdate, FindVouchers,
          RevokeVouchers, RevokeTokens, LogRevoked, ExpiryDone,
          RestrictUpdate, RefreshRotate, RefreshMint, Goto, Finish
    <3> QED
      BY <1>1, <1>2, <3>1 DEF OnTimeAt, Final
  <2> QED
    BY <1>4, <2>1, <2>2, <2>3
<1>5. ASSUME NEW p \in Procs, Throws(p) PROVE OnTimeAt(j)'
  BY <1>1, <1>2, <1>5 DEF Throws, Finish, OnTimeAt, TypeOK, grants
<1>6. ASSUME NEW p \in Handlers, NEW x, NEW l, Begin(p, l, x) PROVE OnTimeAt(j)'
  <2>1. p # j
    BY GrantAssumption
  <2> QED
    BY <1>1, <1>2, <1>3, <1>6, <2>1 DEF Begin, TypeOK
<1>7. ASSUME NEW i \in Jobs, ExpiryScan(i) PROVE OnTimeAt(j)'
  BY <1>1, <1>2, <1>7 DEF ExpiryScan, OnTimeAt, TypeOK, grants
<1>8. CASE Crash
  BY <1>1, <1>2, <1>8 DEF Crash, OnTimeAt
<1>9. ASSUME UNCHANGED procs PROVE OnTimeAt(j)'
  BY <1>3, <1>9 DEF procs
<1> QED
  BY <1>4, <1>5, <1>6, <1>7, <1>8, <1>9
  DEF Next, vars, Login, Logout, FallsDue, IssueGrant, RevokeRead, RestrictRead,
      RefreshRead

LEMMA ReasonStep ==
  ASSUME WellFormed, OnTime, NeverExpiredEarly, [Next]_vars
  PROVE  NeverExpiredEarly'
<1>1. TypeOK /\ Located /\ Final
  BY StepIsFinal DEF WellFormed
<1>2. ASSUME revokeReason' = revokeReason PROVE NeverExpiredEarly'
  BY <1>1, <1>2 DEF NeverExpiredEarly, Final
<1>3. ASSUME NEW p \in Procs, Continue(p) PROVE NeverExpiredEarly'
  <2>1. CASE RevokeUpdate(p)
    <3>1. p \in Jobs => on[p] \in due
      BY <2>1 DEF RevokeUpdate, OnTime, OnTimeAt
    <3> QED
      BY <1>1, <2>1, <3>1 DEF RevokeUpdate, NeverExpiredEarly, TypeOK
  <2>2. CASE ~RevokeUpdate(p)
    <3>1. revokeReason' = revokeReason
      BY <1>3, <2>2
      DEF Continue, ProvisionWifi, LogIssued, FindVouchers, RevokeVouchers, RevokeTokens,
          LogRevoked, ExpiryNext, ExpiryDone, RestrictUpdate, RefreshRotate, RefreshMint,
          grants
    <3> QED
      BY <1>2, <3>1
  <2> QED
    BY <2>1, <2>2
<1> QED
  BY <1>2, <1>3
  DEF Next, vars, Throws, Crash, Login, Logout, FallsDue, IssueGrant, RevokeRead,
      RestrictRead, RefreshRead, ExpiryScan, grants

\* The expiry job puts nobody out before the end of the stay, on however
\* old a list it works.
THEOREM ExpiryIsOnTime == Spec => []NeverExpiredEarly
<1>1. Init => WellFormed /\ OnTime /\ NeverExpiredEarly
  BY InitWellFormed DEF Init, NeverExpiredEarly
<1>2. WellFormed /\ OnTime /\ NeverExpiredEarly /\ [Next]_vars
        => (OnTime /\ NeverExpiredEarly)'
  BY OnTimeStep, ReasonStep
<1> QED
  BY <1>1, <1>2, AlwaysWellFormed, PTL DEF Spec

----------------------------------------------------------------------------
(* Rotation *)

LEMMA RotationStep ==
  ASSUME WellFormed, RotatedTokenIsDead, [Next]_vars
  PROVE  RotatedTokenIsDead'
<1>1. TypeOK /\ Located /\ Final
  BY StepIsFinal DEF WellFormed
<1>2. ASSUME mintedFrom' = mintedFrom PROVE RotatedTokenIsDead'
  BY <1>1, <1>2 DEF RotatedTokenIsDead, Final, TypeOK
<1>3. ASSUME NEW k \in Tokens, Login(k) PROVE RotatedTokenIsDead'
  BY <1>1, <1>3 DEF RotatedTokenIsDead, Login, Create, Final, TypeOK
<1>4. ASSUME NEW p \in Procs, NEW k \in Tokens, RefreshMint(p, k)
      PROVE  RotatedTokenIsDead'
  <2>1. on[p] \in Tokens /\ token[on[p]] = "revoked"
    BY <1>1, <1>4 DEF RefreshMint, Located, LocatedAt
  <2> QED
    BY <1>1, <1>4, <2>1 DEF RotatedTokenIsDead, RefreshMint, Create, Final, TypeOK
<1> QED
  BY <1>2, <1>3, <1>4
  DEF Next, vars, Continue, ProvisionWifi, LogIssued, RevokeUpdate, FindVouchers,
      RevokeVouchers, RevokeTokens, LogRevoked, ExpiryNext, ExpiryDone, RestrictUpdate,
      RefreshRotate, Throws, Crash, Logout, FallsDue, IssueGrant, RevokeRead,
      RestrictRead, RefreshRead, ExpiryScan, sessions

\* A token that was exchanged is dead before its successor exists.
THEOREM RotationKillsOld == Spec => []RotatedTokenIsDead
<1>1. Init => RotatedTokenIsDead
  BY DEF Init, RotatedTokenIsDead
<1> QED
  BY <1>1, RotationStep, AlwaysWellFormed, PTL DEF Spec

----------------------------------------------------------------------------
(* The audit trail *)

\* RevocationAudited for one grant.
AuditedAt(g) ==
  /\ revokedRows[g] > 0 => status[g] = "REVOKED"
  /\ faults = 0 /\ status[g] = "REVOKED" =>
       revokedRows[g] > 0 \/ BeingRevoked(g, Revoking \ {"revoke"})

LEMMA AuditedStep ==
  ASSUME WellFormed, RevocationAudited, [Next]_vars
  PROVE  RevocationAudited'
<1>1. TypeOK /\ Located /\ Final
  BY StepIsFinal DEF WellFormed
<1> SUFFICES ASSUME NEW g \in Grants PROVE AuditedAt(g)'
  BY DEF RevocationAudited, AuditedAt, BeingRevoked
<1>2. AuditedAt(g)
  BY DEF RevocationAudited, AuditedAt
<1>3. revokedRows[g] \in Nat /\ faults \in Nat
  BY <1>1, GrantAssumption DEF TypeOK
\* A step that keeps rows and status, and every revocation of g under way.
<1>4. ASSUME revokedRows'[g] = revokedRows[g],
             status'[g] = status[g] \/ status'[g] # "REVOKED",
             faults' = 0 => faults = 0,
             faults' = 0 =>
               \A p \in Procs : on[p] = g /\ at[p] \in Revoking \ {"revoke"} =>
                 on'[p] = g /\ at'[p] \in Revoking \ {"revoke"}
      PROVE  AuditedAt(g)'
  BY <1>1, <1>2, <1>4 DEF AuditedAt, BeingRevoked, Final
<1>5. ASSUME NEW p \in Procs, Continue(p) PROVE AuditedAt(g)'
  <2> USE DEF TypeOK
  <2>1. \A q \in Procs \ {p} : at'[q] = at[q] /\ on'[q] = on[q]
    BY <1>5, OthersStay
  <2>2. CASE LogRevoked(p) /\ on[p] = g
    <3>1. status[g] = "REVOKED"
      BY <1>1, <2>2 DEF LogRevoked, Located, LocatedAt, Revoking
    <3>2. revokedRows'[g] = revokedRows[g] + 1
      BY <1>1, <2>2 DEF LogRevoked
    <3> QED
      BY <1>1, <1>3, <3>1, <3>2 DEF AuditedAt, Final
  <2>3. CASE RevokeUpdate(p) /\ on[p] = g
    <3>1. status'[g] = "REVOKED" /\ on'[p] = g /\ at'[p] = "findVouchers"
      BY <1>1, <2>3 DEF RevokeUpdate, Goto
    <3>2. BeingRevoked(g, Revoking \ {"revoke"})'
      BY <3>1 DEF BeingRevoked, Revoking
    <3> QED
      BY <3>1, <3>2 DEF AuditedAt
  <2>4. CASE LogRevoked(p) /\ on[p] # g
    BY <1>1, <1>4, <2>1, <2>4 DEF LogRevoked, grants
  <2>5. CASE RevokeUpdate(p) /\ on[p] # g
    BY <1>1, <1>4, <2>1, <2>5 DEF RevokeUpdate, audit
  <2>6. CASE FindVouchers(p) \/ RevokeVouchers(p) \/ RevokeTokens(p)
    <3>1. on'[p] = on[p] /\ at'[p] \in Revoking \ {"revoke"}
      BY <1>1, <2>6 DEF FindVouchers, RevokeVouchers, RevokeTokens, Goto, Revoking
    <3>2. UNCHANGED <<revokedRows, status, faults>>
      BY <2>6 DEF FindVouchers, RevokeVouchers, RevokeTokens, audit, grants
    <3> QED
      BY <1>4, <2>1, <3>1, <3>2
  <2>7. CASE ~(LogRevoked(p) \/ RevokeUpdate(p) \/ FindVouchers(p)
               \/ RevokeVouchers(p) \/ RevokeTokens(p))
    <3>1. at[p] \notin Revoking \ {"revoke"} /\ UNCHANGED <<revokedRows, status, faults>>
      BY <1>5, <2>7
      DEF Continue, ProvisionWifi, LogIssued, ExpiryNext, ExpiryDone, RestrictUpdate,
          RefreshRotate, RefreshMint, audit, grants, Revoking
    <3> QED
      BY <1>4, <2>1, <3>1
  <2> QED
    BY <2>2, <2>3, <2>4, <2>5, <2>6, <2>7
<1>6. ASSUME NEW p \in Handlers, NEW x, NEW l, Begin(p, l, x),
             revokedRows' = revokedRows, faults' = faults,
             status'[g] = status[g] \/ status'[g] # "REVOKED"
      PROVE  AuditedAt(g)'
  <2>1. \A q \in Procs : on[q] = g /\ at[q] \in Revoking \ {"revoke"} =>
                           on'[q] = on[q] /\ at'[q] = at[q]
    BY <1>1, <1>6 DEF Begin, TypeOK, Revoking
  <2> QED
    BY <1>4, <1>6, <2>1
<1>7. ASSUME NEW p \in Handlers, NEW h \in Grants, IssueGrant(p, h)
      PROVE  AuditedAt(g)'
  <2>1. status'[g] = status[g] \/ status'[g] # "REVOKED"
    BY <1>1, <1>7 DEF IssueGrant, TypeOK
  <2> QED
    BY <1>6, <1>7, <2>1 DEF IssueGrant, audit
<1>8. ASSUME NEW j \in Jobs, ExpiryScan(j) PROVE AuditedAt(g)'
  <2>1. \A q \in Procs : on[q] = g /\ at[q] \in Revoking \ {"revoke"} =>
                           on'[q] = on[q] /\ at'[q] = at[q]
    BY <1>1, <1>8 DEF ExpiryScan, TypeOK, Revoking
  <2> QED
    BY <1>4, <1>8, <2>1 DEF ExpiryScan, grants, audit
<1>9. ASSUME faults' = faults + 1, UNCHANGED <<revokedRows, status>> PROVE AuditedAt(g)'
  BY <1>3, <1>4, <1>9
<1>10. ASSUME UNCHANGED <<procs, revokedRows, status, faults>> PROVE AuditedAt(g)'
  BY <1>4, <1>10 DEF procs
<1> QED
  BY <1>5, <1>6, <1>7, <1>8, <1>9, <1>10
  DEF Next, vars, Throws, Crash, Login, Logout, FallsDue, RevokeRead, RestrictRead,
      RefreshRead, grants, audit

\* Every revocation is in the audit log, and nothing but revocations.
THEOREM RevocationsAreAudited == Spec => []RevocationAudited
<1>1. Init => RevocationAudited
  BY DEF Init, RevocationAudited
<1> QED
  BY <1>1, AuditedStep, AlwaysWellFormed, PTL DEF Spec

----------------------------------------------------------------------------
(* Checkout *)

\* What the history of a checkout names was there and was the guest's; a
\* voucher is made once, by the request that issued the grant.
Rooted ==
  /\ \A g \in Grants :
       /\ \A k \in Tokens : k \in existing[g] =>
            token[k] # "none" /\ OwnerOf[k] = SubjectOf[g]
       /\ g \in existing[g] => voucher[g] # "none"
       /\ status[g] = "none" => voucher[g] = "none"
  /\ \A p \in Procs : at[p] = "provision" =>
       /\ voucher[on[p]] = "none" /\ status[on[p]] # "none"
       /\ \A q \in Procs : at[q] = "provision" /\ on[q] = on[p] => p = q

\* A step that neither marks a grant, nor makes a voucher, nor starts to.
LEMMA RootedQuietly ==
  ASSUME WellFormed, Final, Rooted,
         existing' = existing, status' = status,
         \A g \in Grants : voucher[g] = "none" => voucher'[g] = "none",
         \A p \in Procs : at'[p] = "provision" => at[p] = "provision" /\ on'[p] = on[p]
  PROVE  Rooted'
  BY DEF Rooted, Final, WellFormed, Located, LocatedAt, GrantLabels

LEMMA RootedStep ==
  ASSUME WellFormed, Rooted, [Next]_vars
  PROVE  Rooted'
<1>1. TypeOK /\ Located /\ Final
  BY StepIsFinal DEF WellFormed
<1>2. ASSUME NEW p \in Procs, ProvisionWifi(p) PROVE Rooted'
  <2>1. on[p] \in Grants /\ status[on[p]] # "none" /\ voucher[on[p]] = "none"
    BY <1>1, <1>2 DEF ProvisionWifi, Located, LocatedAt, GrantLabels, Rooted
  <2>2. at' = [at EXCEPT ![p] = "logIssued"] /\ UNCHANGED <<on, status, existing, token>>
    BY <1>2 DEF ProvisionWifi, Goto, grants, sessions
  <2>3. \A q \in Procs : at'[q] = "provision" =>
          at[q] = "provision" /\ on[q] \in Grants /\ on[q] # on[p]
    BY <1>1, <1>2, <2>2
    DEF ProvisionWifi, Rooted, TypeOK, Located, LocatedAt, GrantLabels
  <2>4. \A g \in Grants : g # on[p] => voucher'[g] = voucher[g]
    BY <1>1, <1>2 DEF ProvisionWifi, TypeOK
  <2> QED
    BY <1>1, <2>1, <2>2, <2>3, <2>4 DEF Rooted, Final
<1>3. ASSUME NEW p \in Procs, RevokeUpdate(p) PROVE Rooted'
  <2>1. on[p] \in Grants /\ status[on[p]] # "none"
    BY <1>1, <1>3 DEF RevokeUpdate, Located, LocatedAt, GrantLabels, Revoking
  <2>2. /\ at' = [at EXCEPT ![p] = "findVouchers"]
        /\ UNCHANGED <<on, voucher, token>>
        /\ status' = [status EXCEPT ![on[p]] = "REVOKED"]
    BY <1>3 DEF RevokeUpdate, Goto, sessions
  <2>3. existing' = [existing EXCEPT
          ![on[p]] = IssuedTokens(SubjectOf[on[p]]) \cup
                       (IF voucher[on[p]] = "none" THEN {} ELSE {on[p]})]
    BY <1>3 DEF RevokeUpdate
  <2>4. \A q \in Procs : at'[q] = "provision" => at[q] = "provision" /\ q # p
    BY <1>1, <2>2 DEF TypeOK
  <2>5. ASSUME NEW g \in Grants
        PROVE  /\ \A k \in Tokens : k \in existing'[g] =>
                    token[k] # "none" /\ OwnerOf[k] = SubjectOf[g]
               /\ g \in existing'[g] => voucher[g] # "none"
               /\ status'[g] = "none" => voucher[g] = "none"
    <3>1. CASE g = on[p]
      BY <1>1, <2>1, <2>2, <2>3, <3>1, GrantAssumption DEF IssuedTokens, TypeOK
    <3>2. CASE g # on[p]
      BY <1>1, <2>2, <2>3, <3>2 DEF Rooted, TypeOK
    <3> QED
      BY <3>1, <3>2
  <2>6. \A q \in Procs : at'[q] = "provision" =>
          on[q] \in Grants /\ voucher[on[q]] = "none" /\ status'[on[q]] # "none"
    BY <1>1, <2>4 DEF Rooted, Final, Located, LocatedAt, GrantLabels
  <2> QED
    BY <2>2, <2>4, <2>5, <2>6 DEF Rooted
<1>4. ASSUME NEW p \in Handlers, NEW g \in Grants, IssueGrant(p, g) PROVE Rooted'
  <2>1. p \in Procs
    BY DEF Procs
  <2>2. /\ at' = [at EXCEPT ![p] = "provision"] /\ on' = [on EXCEPT ![p] = g]
        /\ status[g] = "none" /\ status' = [status EXCEPT ![g] = "ACTIVE"]
        /\ UNCHANGED <<voucher, token, existing>>
    BY <1>4 DEF IssueGrant, Begin, sessions
  <2>3. at'[p] = "provision" /\ on'[p] = g /\ voucher[g] = "none" /\ status'[g] = "ACTIVE"
    BY <1>1, <2>1, <2>2 DEF TypeOK, Rooted
  <2>4. \A q \in Procs : q # p /\ at'[q] = "provision" =>
          /\ at[q] = "provision" /\ on'[q] = on[q] /\ on[q] \in Grants /\ on[q] # g
          /\ status'[on[q]] # "none"
    BY <1>1, <2>2 DEF TypeOK, Rooted, Located, LocatedAt, GrantLabels
  <2>5. \A h \in Grants : status'[h] = "none" => status[h] = "none"
    BY <1>1, <2>2 DEF TypeOK
  <2> QED
    BY <2>2, <2>3, <2>4, <2>5 DEF Rooted
<1>5. ASSUME NEW p \in Procs, Continue(p), ~ProvisionWifi(p), ~RevokeUpdate(p)
      PROVE  Rooted'
  <2>1. existing' = existing /\ status' = status
    BY <1>5
    DEF Continue, LogIssued, FindVouchers, RevokeVouchers, RevokeTokens, LogRevoked,
        ExpiryNext, ExpiryDone, RestrictUpdate, RefreshRotate, RefreshMint, grants
  <2>2. \A g \in Grants : voucher[g] = "none" => voucher'[g] = "none"
    BY <1>1, <1>5
    DEF Continue, LogIssued, FindVouchers, RevokeVouchers, RevokeTokens, LogRevoked,
        ExpiryNext, ExpiryDone, RestrictUpdate, RefreshRotate, RefreshMint, TypeOK
  <2>3. at'[p] # "provision"
    BY <1>1, <1>5
    DEF Continue, LogIssued, FindVouchers, RevokeVouchers, RevokeTokens, LogRevoked,
        ExpiryNext, ExpiryDone, RestrictUpdate, RefreshRotate, RefreshMint, TypeOK,
        Goto, Finish
  <2>4. \A q \in Procs \ {p} : at'[q] = at[q] /\ on'[q] = on[q]
    BY <1>5, OthersStay
  <2> QED
    BY <1>1, <2>1, <2>2, <2>3, <2>4, RootedQuietly
<1>6. ASSUME NEW p \in Procs, Throws(p) PROVE Rooted'
  <2>1. existing' = existing /\ status' = status /\ voucher' = voucher
    BY <1>6 DEF Throws, grants
  <2>2. at'[p] # "provision"
    BY <1>1, <1>6 DEF Throws, Finish, TypeOK
  <2>3. \A q \in Procs \ {p} : at'[q] = at[q] /\ on'[q] = on[q]
    BY <1>6, OthersStay
  <2> QED
    BY <1>1, <2>1, <2>2, <2>3, RootedQuietly
<1>7. ASSUME NEW p \in Handlers, NEW x, NEW l, Begin(p, l, x), l # "provision",
             UNCHANGED <<existing, status, voucher>>
      PROVE  Rooted'
  <2>1. \A q \in Procs : at'[q] = "provision" => at[q] = "provision" /\ on'[q] = on[q]
    BY <1>1, <1>7 DEF Begin, TypeOK
  <2> QED
    BY <1>1, <1>7, <2>1, RootedQuietly
<1>8. ASSUME NEW j \in Jobs, ExpiryScan(j) PROVE Rooted'
  <2>1. \A q \in Procs : at'[q] = "provision" => at[q] = "provision" /\ on'[q] = on[q]
    BY <1>1, <1>8 DEF ExpiryScan, TypeOK
  <2> QED
    BY <1>1, <1>8, <2>1, RootedQuietly DEF ExpiryScan, grants
<1>9. CASE Crash
  BY <1>1, <1>9, RootedQuietly DEF Crash, grants
<1>10. ASSUME UNCHANGED <<procs, existing, status, voucher>> PROVE Rooted'
  BY <1>1, <1>10, RootedQuietly DEF procs
<1> QED
  BY <1>2, <1>3, <1>4, <1>5, <1>6, <1>7, <1>8, <1>9, <1>10
  DEF Next, vars, Login, Logout, FallsDue, RevokeRead, RestrictRead, RefreshRead, grants

\* CheckoutEndsWhatExisted for one grant.
EndsAt(g) ==
  faults = 0 /\ status[g] = "REVOKED" =>
    /\ (\E k \in Tokens : k \in existing[g] /\ token[k] = "live") =>
         BeingRevoked(g, {"findVouchers", "revokeVouchers", "revokeTokens"})
    /\ (g \in existing[g] /\ voucher[g] = "ACTIVE") =>
         BeingRevoked(g, {"findVouchers", "revokeVouchers"})

\* A step that revives nothing a checkout of g found, and leaves the
\* checkouts of g where they are.
LEMMA EndsQuietly ==
  ASSUME NEW g \in Grants, EndsAt(g), faults' = 0 => faults = 0,
         status'[g] = "REVOKED" => status[g] = "REVOKED",
         existing'[g] = existing[g],
         \A k \in Tokens : k \in existing[g] /\ token'[k] = "live" => token[k] = "live",
         g \in existing[g] /\ voucher'[g] = "ACTIVE" => voucher[g] = "ACTIVE",
         \A p \in Procs :
           on[p] = g /\ at[p] \in {"findVouchers", "revokeVouchers", "revokeTokens"} =>
             on'[p] = g /\ at'[p] = at[p]
  PROVE  EndsAt(g)'
  BY DEF EndsAt, BeingRevoked

LEMMA CheckoutStep ==
  ASSUME WellFormed, Rooted, CheckoutEndsWhatExisted, [Next]_vars
  PROVE  CheckoutEndsWhatExisted'
<1>1. TypeOK /\ Located /\ Final
  BY StepIsFinal DEF WellFormed
<1> SUFFICES ASSUME NEW g \in Grants PROVE EndsAt(g)'
  BY DEF CheckoutEndsWhatExisted, EndsAt, BeingRevoked
<1>2. EndsAt(g) /\ faults \in Nat
  BY <1>1, GrantAssumption DEF CheckoutEndsWhatExisted, EndsAt, TypeOK
<1>3. \A k \in Tokens : k \in existing[g] => token[k] # "none" /\ OwnerOf[k] = SubjectOf[g]
  BY DEF Rooted
<1> DEFINE Stay == \A p \in Procs :
             on[p] = g /\ at[p] \in {"findVouchers", "revokeVouchers", "revokeTokens"} =>
               on'[p] = g /\ at'[p] = at[p]
<1>4. ASSUME NEW p \in Procs, Continue(p) PROVE EndsAt(g)'
  <2> USE DEF TypeOK
  <2>1. \A q \in Procs \ {p} : at'[q] = at[q] /\ on'[q] = on[q]
    BY <1>4, OthersStay
  <2>2. CASE RevokeUpdate(p) /\ on[p] = g
    <3>1. at'[p] = "findVouchers" /\ on'[p] = g
      BY <1>1, <2>2 DEF RevokeUpdate, Goto
    <3> QED
      BY <3>1 DEF EndsAt, BeingRevoked
  <2>3. CASE FindVouchers(p) /\ on[p] = g
    <3>1. UNCHANGED <<status, existing, token, voucher, faults>> /\ on'[p] = g
      BY <2>3 DEF FindVouchers, Goto, grants, sessions
    <3>2. CASE voucher[g] = "ACTIVE"
      <4>1. at'[p] = "revokeVouchers"
        BY <1>1, <2>3, <3>2 DEF FindVouchers, Goto
      <4> QED
        BY <3>1, <4>1 DEF EndsAt, BeingRevoked
    <3>3. CASE voucher[g] # "ACTIVE"
      <4>1. at'[p] = "revokeTokens"
        BY <1>1, <2>3, <3>3 DEF FindVouchers, Goto
      <4> QED
        BY <3>1, <3>3, <4>1 DEF EndsAt, BeingRevoked
    <3> QED
      BY <3>2, <3>3
  <2>4. CASE RevokeVouchers(p) /\ on[p] = g
    <3>1. at'[p] = "revokeTokens" /\ on'[p] = g /\ voucher'[g] # "ACTIVE"
      BY <1>1, <2>4 DEF RevokeVouchers, Goto
    <3> QED
      BY <3>1 DEF EndsAt, BeingRevoked
  <2>5. CASE RevokeTokens(p) /\ on[p] = g
    <3>1. UNCHANGED <<status, existing, voucher, faults>>
      BY <2>5 DEF RevokeTokens, grants
    <3>2. \A k \in Tokens : k \in existing[g] => token'[k] # "live"
      BY <1>1, <1>3, <2>5 DEF RevokeTokens
    <3>3. \A q \in Procs :
            on[q] = g /\ at[q] \in {"findVouchers", "revokeVouchers"} =>
              on'[q] = g /\ at'[q] = at[q]
      BY <2>1, <2>5 DEF RevokeTokens
    <3> QED
      BY <1>2, <3>1, <3>2, <3>3 DEF EndsAt, BeingRevoked
  <2>6. CASE /\ FindVouchers(p) \/ RevokeVouchers(p) \/ RevokeTokens(p)
             /\ on[p] # g
    <3>1. Stay
      BY <2>1, <2>6
    <3>2. UNCHANGED <<status, existing, faults>>
      BY <2>6 DEF FindVouchers, RevokeVouchers, RevokeTokens, grants
    <3>3. \A k \in Tokens : token'[k] = "live" => token[k] = "live"
      BY <1>1, <2>6 DEF FindVouchers, RevokeVouchers, RevokeTokens, sessions
    <3>4. voucher'[g] = voucher[g]
      BY <1>1, <2>6 DEF FindVouchers, RevokeVouchers, RevokeTokens
    <3> QED
      BY <1>2, <3>1, <3>2, <3>3, <3>4, EndsQuietly
  <2>7. CASE ~(FindVouchers(p) \/ RevokeVouchers(p) \/ RevokeTokens(p))
             /\ ~(RevokeUpdate(p) /\ on[p] = g)
    <3>1. Stay
      BY <1>4, <2>1, <2>7
      DEF Continue, ProvisionWifi, LogIssued, RevokeUpdate, LogRevoked, ExpiryNext,
          ExpiryDone, RestrictUpdate, RefreshRotate, RefreshMint
    <3>2. faults' = faults /\ existing'[g] = existing[g] /\ status'[g] = status[g]
      BY <1>1, <1>4, <2>7
      DEF Continue, ProvisionWifi, LogIssued, RevokeUpdate, LogRevoked, ExpiryNext,
          ExpiryDone, RestrictUpdate, RefreshRotate, RefreshMint, grants
    <3>3. \A k \in Tokens : k \in existing[g] /\ token'[k] = "live" => token[k] = "live"
      BY <1>1, <1>3, <1>4, <2>7
      DEF Continue, ProvisionWifi, LogIssued, RevokeUpdate, LogRevoked, ExpiryNext,
          ExpiryDone, RestrictUpdate, RefreshRotate, RefreshMint, Create, sessions
    <3>4. g \in existing[g] /\ voucher'[g] = "ACTIVE" => voucher[g] = "ACTIVE"
      <4>1. CASE ProvisionWifi(p)
        <5>1. voucher[on[p]] = "none"
          BY <4>1 DEF ProvisionWifi, Rooted
        <5>2. g \in existing[g] => g # on[p]
          BY <5>1 DEF Rooted
        <5> QED
          BY <1>1, <4>1, <5>2 DEF ProvisionWifi
      <4>2. CASE ~ProvisionWifi(p)
        BY <1>4, <2>7, <4>2
        DEF Continue, LogIssued, RevokeUpdate, LogRevoked, ExpiryNext, ExpiryDone,
            RestrictUpdate, RefreshRotate, RefreshMint
      <4> QED
        BY <4>1, <4>2
    <3> QED
      BY <1>2, <3>1, <3>2, <3>3, <3>4, EndsQuietly
  <2> QED
    BY <2>2, <2>3, <2>4, <2>5, <2>6, <2>7
<1>5. ASSUME NEW p \in Handlers, NEW x, NEW l, Begin(p, l, x), token' = token,
             voucher' = voucher, existing' = existing, faults' = faults,
             status'[g] = "REVOKED" => status[g] = "REVOKED"
      PROVE  EndsAt(g)'
  <2>1. Stay
    BY <1>1, <1>5 DEF Begin, TypeOK
  <2> QED
    BY <1>2, <1>5, <2>1, EndsQuietly
<1>6. ASSUME NEW p \in Handlers, NEW h \in Grants, IssueGrant(p, h) PROVE EndsAt(g)'
  <2>1. status'[g] = "REVOKED" => status[g] = "REVOKED"
    BY <1>1, <1>6 DEF IssueGrant, TypeOK
  <2> QED
    BY <1>5, <1>6, <2>1 DEF IssueGrant, sessions
<1>7. ASSUME NEW j \in Jobs, ExpiryScan(j) PROVE EndsAt(g)'
  <2>1. Stay
    BY <1>1, <1>7 DEF ExpiryScan, TypeOK
  <2> QED
    BY <1>2, <1>7, <2>1, EndsQuietly DEF ExpiryScan, grants, sessions
<1>8. ASSUME NEW k \in Tokens, Login(k) \/ Logout(k) PROVE EndsAt(g)'
  <2>1. \A h \in Tokens : h \in existing[g] /\ token'[h] = "live" => token[h] = "live"
    BY <1>1, <1>3, <1>8 DEF Login, Create, Logout, TypeOK
  <2>2. Stay /\ UNCHANGED <<status, voucher, existing, faults>>
    BY <1>8 DEF Login, Logout, procs, grants
  <2> QED
    BY <1>2, <2>1, <2>2, EndsQuietly
<1>9. ASSUME faults' = faults + 1 PROVE EndsAt(g)'
  BY <1>2, <1>9 DEF EndsAt
<1>10. ASSUME UNCHANGED <<procs, status, token, voucher, existing, faults>>
       PROVE  EndsAt(g)'
  BY <1>2, <1>10, EndsQuietly DEF procs
<1> QED
  BY <1>4, <1>5, <1>6, <1>7, <1>8, <1>9, <1>10
  DEF Next, vars, Throws, Crash, FallsDue, RevokeRead, RestrictRead, RefreshRead,
      grants, sessions

\* A checkout that is over has ended every session and the voucher there
\* were when it marked the grant, as long as no command failed.
THEOREM CheckoutsEndSessions == Spec => []CheckoutEndsWhatExisted
<1>1. Init => Rooted /\ CheckoutEndsWhatExisted
  BY DEF Init, Rooted, CheckoutEndsWhatExisted
<1>2. WellFormed /\ Rooted /\ CheckoutEndsWhatExisted /\ [Next]_vars
        => (Rooted /\ CheckoutEndsWhatExisted)'
  BY RootedStep, CheckoutStep
<1> QED
  BY <1>1, <1>2, AlwaysWellFormed, PTL DEF Spec

=============================================================================
