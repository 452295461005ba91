-------------------------- MODULE OtpServiceProofs --------------------------
(* Theorems about one-time passwords, for any numbers, requests and bounds. *)
EXTENDS OtpService, FiniteSetTheorems, TLAPS

\* A request that has drawn or read a code has it in hand.
Holding == {"publish", "discard", "delete"}
CodeInHand == \A p \in Handlers : at[p] \in Holding => code[p] \in Codes

WellFormed == TypeOK /\ CodeInHand

LEMMA GotoEffect ==
  ASSUME TypeOK, NEW p \in Handlers, NEW l, Goto(p, l)
  PROVE  /\ at'[p] = l /\ \A q \in Handlers \ {p} : at'[q] = at[q]
         /\ l \in {"idle"} \cup Sending \cup Verifying
              => at' \in [Handlers -> {"idle"} \cup Sending \cup Verifying]
         /\ mobile' = mobile /\ code' = code
  BY DEF Goto, TypeOK

\* A request that goes on with the code it has, or lets it go.
LEMMA GotoWellFormed ==
  ASSUME WellFormed, NEW p \in Handlers,
         NEW l \in {"idle"} \cup Sending \cup Verifying, Goto(p, l),
         l \in Holding => at[p] \in Holding
  PROVE  /\ at' \in [Handlers -> {"idle"} \cup Sending \cup Verifying]
         /\ mobile' \in [Handlers -> Mobiles]
         /\ code' \in [Handlers -> Codes \cup {None}]
         /\ CodeInHand'
  BY GotoEffect DEF WellFormed, TypeOK, CodeInHand

LEMMA WellFormedStep == WellFormed /\ [Next]_vars => WellFormed'
<1> SUFFICES ASSUME WellFormed, [Next]_vars PROVE WellFormed'
  OBVIOUS
<1> USE DEF limiter, codes, accounts, procs
<1>1. ASSUME NEW p \in Handlers, NEW m \in Mobiles, SendIncr(p, m)
      PROVE  WellFormed'
  <2>1. at'[p] \notin Holding
    BY <1>1 DEF SendIncr, WellFormed, TypeOK, Holding
  <2> QED
    BY <1>1, <2>1 DEF SendIncr, WellFormed, TypeOK, CodeInHand, Sending
<1>2. ASSUME NEW p \in Handlers, SendExpire(p) PROVE WellFormed'
  <2>1. Goto(p, "store") /\ UNCHANGED <<stored, attempts, windows, codes, accounts, faults>>
    BY <1>2 DEF SendExpire
  <2>2. ttl' \in [Mobiles -> BOOLEAN]
    BY <1>2 DEF SendExpire, WellFormed, TypeOK
  <2> QED
    BY <2>1, <2>2, GotoWellFormed DEF WellFormed, TypeOK, Sending, Holding
<1>3. ASSUME NEW p \in Handlers, SendRefused(p) PROVE WellFormed'
  BY <1>3, GotoWellFormed DEF SendRefused, WellFormed, TypeOK, Holding
<1>4. ASSUME NEW p \in Handlers, NEW c \in Codes, StoreCode(p, c) PROVE WellFormed'
  BY <1>4 DEF StoreCode, WellFormed, TypeOK, CodeInHand, Sending
<1>5. ASSUME NEW p \in Handlers, Publish(p) PROVE WellFormed'
  <2>1. at[p] \in Holding /\ code[p] \in Codes
    BY <1>5 DEF Publish, WellFormed, CodeInHand, Holding
  <2>2. \E l \in {"idle", "discard"} : Goto(p, l)
    BY <1>5 DEF Publish
  <2>3. sms' \in [Mobiles -> SUBSET Codes]
    BY <1>5, <2>1 DEF Publish, WellFormed, TypeOK
  <2>4. UNCHANGED <<stored, limiter, drawn, verified, accounts, faults>>
    BY <1>5 DEF Publish
  <2> QED
    BY <2>1, <2>2, <2>3, <2>4, GotoWellFormed DEF WellFormed, TypeOK, Sending
<1>6. ASSUME NEW p \in Handlers, Discard(p) PROVE WellFormed'
  <2>1. Goto(p, "idle") /\ UNCHANGED <<limiter, codes, accounts, faults>>
    BY <1>6 DEF Discard
  <2>2. stored' \in [Mobiles -> Codes \cup {None}]
    BY <1>6 DEF Discard, WellFormed, TypeOK
  <2> QED
    BY <2>1, <2>2, GotoWellFormed DEF WellFormed, TypeOK, Holding
<1>7. ASSUME NEW p \in Handlers, NEW m \in Mobiles, NEW c \in Codes, VerifyRead(p, m, c)
      PROVE  WellFormed'
  BY <1>7 DEF VerifyRead, WellFormed, TypeOK, CodeInHand, Verifying
<1>8. ASSUME NEW p \in Handlers, VerifyDelete(p) PROVE WellFormed'
  <2>1. Goto(p, "findGuest") /\ UNCHANGED <<limiter, sms, drawn, accounts, faults>>
    BY <1>8 DEF VerifyDelete
  <2>2. stored' \in [Mobiles -> Codes \cup {None}]
    BY <1>8 DEF VerifyDelete, WellFormed, TypeOK
  <2>3. code[p] \in Codes /\ verified \in [Codes -> Nat]
    BY <1>8 DEF VerifyDelete, WellFormed, CodeInHand, TypeOK, Holding
  <2>4. verified' \in [Codes -> Nat]
    BY <1>8, <2>3 DEF VerifyDelete
  <2> QED
    BY <2>1, <2>2, <2>4, GotoWellFormed DEF WellFormed, TypeOK, Verifying, Holding
<1>9. ASSUME NEW p \in Handlers, FindGuest(p) PROVE WellFormed'
  <2>1. \E l \in {"createGuest", "issueTokens"} : Goto(p, l)
    BY <1>9 DEF FindGuest
  <2>2. UNCHANGED <<stored, limiter, codes, guests, rejected, sessions, faults>>
    BY <1>9 DEF FindGuest
  <2>3. crossed' \subseteq Mobiles
    BY <1>9 DEF FindGuest, WellFormed, TypeOK
  <2> QED
    BY <2>1, <2>2, <2>3, GotoWellFormed DEF WellFormed, TypeOK, Verifying, Holding
<1>10. ASSUME NEW p \in Handlers, CreateGuest(p) PROVE WellFormed'
  <2>1. Goto(p, "issueTokens") /\ UNCHANGED <<stored, limiter, codes, rejected, sessions, crossed, faults>>
    BY <1>10 DEF CreateGuest
  <2>2. guests' \in [Mobiles -> Nat]
    BY <1>10 DEF CreateGuest, WellFormed, TypeOK
  <2> QED
    BY <2>1, <2>2, GotoWellFormed DEF WellFormed, TypeOK, Verifying, Holding
<1>11. ASSUME NEW p \in Handlers, IssueTokens(p) PROVE WellFormed'
  <2>1. Goto(p, "idle") /\ UNCHANGED <<stored, limiter, codes, guests, rejected, crossed, faults>>
    BY <1>11 DEF IssueTokens
  <2>2. sessions' \in [Mobiles -> Nat]
    BY <1>11 DEF IssueTokens, WellFormed, TypeOK
  <2> QED
    BY <2>1, <2>2, GotoWellFormed DEF WellFormed, TypeOK, Holding
<1>12. ASSUME NEW p \in Handlers, Fails(p) PROVE WellFormed'
  <2>1. Goto(p, "idle") /\ UNCHANGED <<stored, limiter, codes, accounts>>
    BY <1>12 DEF Fails
  <2>2. faults' \in 0..MaxFaults
    BY <1>12, OtpAssumption DEF Fails, WellFormed, TypeOK
  <2> QED
    BY <2>1, <2>2, GotoWellFormed DEF WellFormed, TypeOK, Holding
<1>13. ASSUME NEW m \in Mobiles, CodeExpires(m) PROVE WellFormed'
  BY <1>13 DEF CodeExpires, WellFormed, TypeOK, CodeInHand
<1>14. ASSUME NEW m \in Mobiles, WindowElapses(m) PROVE WellFormed'
  BY <1>14, OtpAssumption DEF WindowElapses, WellFormed, TypeOK, CodeInHand
<1>15. ASSUME NEW m \in Mobiles, Rejected(m) PROVE WellFormed'
  BY <1>15 DEF Rejected, WellFormed, TypeOK, CodeInHand
<1>16. ASSUME NEW m \in Mobiles, StaffCreates(m) PROVE WellFormed'
  <2>1. guests' \in [Mobiles -> Nat] /\ crossed' \subseteq Mobiles
    BY <1>16 DEF StaffCreates, WellFormed, TypeOK
  <2> QED
    BY <1>16, <2>1 DEF StaffCreates, WellFormed, TypeOK, CodeInHand
<1>17. CASE UNCHANGED vars
  BY <1>17 DEF vars, WellFormed, TypeOK, CodeInHand
<1> QED
  BY <1>1, <1>2, <1>3, <1>4, <1>5, <1>6, <1>7, <1>8, <1>9, <1>10, <1>11, <1>12,
     <1>13, <1>14, <1>15, <1>16, <1>17 DEF Next, Continue

\* The types, with a code in the hand of every request that needs one.
THEOREM AlwaysWellFormed == Spec => []WellFormed
<1>1. Init => WellFormed
  BY OtpAssumption DEF Init, WellFormed, TypeOK, CodeInHand, Holding
<1> QED
  BY <1>1, WellFormedStep, PTL DEF Spec

\* The shape of the state: every command of a request leaves a legal one.
THEOREM TypeCorrect == Spec => []TypeOK
<1>1. WellFormed => TypeOK
  BY DEF WellFormed
<1> QED
  BY <1>1, AlwaysWellFormed, PTL

(***************************************************************************)
(* Codes: where a code can be, and who has it in hand.                     *)
(***************************************************************************)

\* A step that leaves the codes and the requests that hold one as they were.
HandsRest ==
  /\ UNCHANGED <<stored, codes>>
  /\ \A p \in Handlers : at[p] \in Holding \/ at'[p] \in Holding =>
       at'[p] = at[p] /\ mobile'[p] = mobile[p] /\ code'[p] = code[p]

LEMMA CodeSteps ==
  ASSUME WellFormed, [Next]_vars
  PROVE  \/ \E p \in Handlers : \/ \E c \in Codes : StoreCode(p, c)
                                \/ Publish(p) \/ Discard(p) \/ VerifyDelete(p)
                                \/ Fails(p)
                                \/ \E m \in Mobiles, c \in Codes : VerifyRead(p, m, c)
         \/ \E m \in Mobiles : CodeExpires(m)
         \/ HandsRest
<1> USE DEF HandsRest, Holding, codes
<1>1. ASSUME NEW p \in Handlers, NEW m \in Mobiles, SendIncr(p, m)
      PROVE  HandsRest
  BY <1>1 DEF SendIncr, WellFormed, TypeOK
<1>2. ASSUME NEW p \in Handlers,
             SendExpire(p) \/ SendRefused(p) \/ FindGuest(p) \/ CreateGuest(p)
               \/ IssueTokens(p)
      PROVE  HandsRest
  <2>1. /\ at[p] \notin Holding
        /\ \E l \in {"store", "idle", "createGuest", "issueTokens"} : Goto(p, l)
        /\ UNCHANGED <<stored, codes>>
    BY <1>2 DEF SendExpire, SendRefused, FindGuest, CreateGuest, IssueTokens
  <2> QED
    BY <2>1, GotoEffect DEF WellFormed
<1>3. ASSUME NEW m \in Mobiles, WindowElapses(m) \/ StaffCreates(m) \/ Rejected(m)
      PROVE  HandsRest
  BY <1>3 DEF WindowElapses, StaffCreates, Rejected, procs
<1>4. CASE UNCHANGED vars
  BY <1>4 DEF vars, procs
<1> QED
  BY <1>1, <1>2, <1>3, <1>4 DEF Next, Continue

LEMMA NoDanglingCodeStep ==
  ASSUME WellFormed, NoDanglingCode, [Next]_vars
  PROVE  NoDanglingCode'
<1> DEFINE Dangles(m) == /\ stored[m] \notin sms[m]
                         /\ ~ \E p \in Handlers :
                               /\ at[p] \in {"publish", "discard"}
                               /\ mobile[p] = m /\ code[p] = stored[m]
<1> SUFFICES ASSUME faults' = 0, NEW m \in Mobiles, stored'[m] # None
             PROVE  ~Dangles(m)'
  BY DEF NoDanglingCode
<1>1. ASSUME faults = 0, stored[m] # None
      PROVE  ~Dangles(m)
  BY <1>1 DEF NoDanglingCode
<1>2. ASSUME NEW p \in Handlers, NEW c \in Codes, StoreCode(p, c)
      PROVE  ~Dangles(m)'
  BY <1>1, <1>2 DEF StoreCode, WellFormed, TypeOK
<1>3. ASSUME NEW p \in Handlers, Publish(p) PROVE ~Dangles(m)'
  <2>1. faults = 0 /\ stored' = stored /\ at[p] = "publish"
    BY <1>3 DEF Publish
  <2>2. CASE sms' = [sms EXCEPT ![mobile[p]] = @ \cup {code[p]}] /\ Goto(p, "idle")
    BY <1>1, <2>1, <2>2, GotoEffect DEF WellFormed, TypeOK
  <2>3. CASE /\ sms' \in {sms, [sms EXCEPT ![mobile[p]] = @ \cup {code[p]}]}
             /\ Goto(p, "discard")
    BY <1>1, <2>1, <2>3, GotoEffect DEF WellFormed, TypeOK
  <2> QED
    BY <1>3, <2>2, <2>3 DEF Publish
<1>4. ASSUME NEW p \in Handlers, Discard(p) \/ VerifyDelete(p) PROVE ~Dangles(m)'
  <2>1. /\ faults' = faults /\ sms' = sms
        /\ stored' = [stored EXCEPT ![mobile[p]] = None]
        /\ \E l \in {"idle", "findGuest"} : Goto(p, l)
    BY <1>4 DEF Discard, VerifyDelete, codes
  <2>2. m # mobile[p] /\ stored'[m] = stored[m]
    BY <2>1 DEF WellFormed, TypeOK
  <2> QED
    BY <1>1, <2>1, <2>2, GotoEffect DEF WellFormed
<1>5. ASSUME NEW p \in Handlers, Fails(p) PROVE FALSE
  BY <1>5 DEF Fails, WellFormed, TypeOK
<1>6. ASSUME NEW p \in Handlers, NEW n \in Mobiles, NEW c \in Codes, VerifyRead(p, n, c)
      PROVE  ~Dangles(m)'
  BY <1>1, <1>6 DEF VerifyRead, WellFormed, TypeOK, codes
<1>7. ASSUME NEW n \in Mobiles, CodeExpires(n) PROVE ~Dangles(m)'
  BY <1>1, <1>7 DEF CodeExpires, WellFormed, TypeOK, codes, procs
<1>8. ASSUME HandsRest, faults' = faults PROVE ~Dangles(m)'
  BY <1>1, <1>8 DEF HandsRest, codes, Holding
<1>9. faults' = faults \/ \E p \in Handlers : Fails(p)
  BY DEF Next, Continue, SendIncr, SendExpire, SendRefused, StoreCode, Publish,
         Discard, VerifyRead, VerifyDelete, FindGuest, CreateGuest, IssueTokens,
         CodeExpires, WindowElapses, StaffCreates, Rejected, vars
<1> QED
  BY <1>2, <1>3, <1>4, <1>5, <1>6, <1>7, <1>8, <1>9, CodeSteps

\* While no command fails, a stored code was delivered or is in the hands of
\* the request that delivers or discards it, whatever other sends overlap.
THEOREM CodesDoNotDangle == Spec => []NoDanglingCode
<1>1. Init => NoDanglingCode
  BY DEF Init, NoDanglingCode
<1>2. WellFormed /\ NoDanglingCode /\ [Next]_vars => NoDanglingCode'
  BY NoDanglingCodeStep
<1> QED
  BY <1>1, <1>2, AlwaysWellFormed, PTL DEF Spec

\* A code is stored for, sent to and in hand for one number only, and none is
\* before it is drawn.
Belongs(c, m) ==
  \/ stored[m] = c
  \/ c \in sms[m]
  \/ \E p \in Handlers : at[p] \in Holding /\ mobile[p] = m /\ code[p] = c
OneOwner ==
  \A c \in Codes, m \in Mobiles : Belongs(c, m) =>
    c \in drawn /\ \A n \in Mobiles : Belongs(c, n) => m = n
UsedIsDrawn == \A c \in Codes : verified[c] > 0 => c \in drawn

CodeInv == OneOwner /\ UsedIsDrawn /\ UsedCodeIsGone

LEMMA BelongsStep ==
  ASSUME WellFormed, [Next]_vars, NEW c \in Codes, NEW m \in Mobiles, Belongs(c, m)'
  PROVE  Belongs(c, m) \/ \E p \in Handlers : StoreCode(p, c) /\ m = mobile[p]
<1> USE DEF Holding
<1>1. ASSUME NEW p \in Handlers, NEW d \in Codes, StoreCode(p, d)
      PROVE  Belongs(c, m) \/ (StoreCode(p, c) /\ m = mobile[p])
  BY <1>1 DEF StoreCode, WellFormed, TypeOK, Belongs
<1>2. ASSUME NEW p \in Handlers, Publish(p) PROVE Belongs(c, m)
  <2>1. stored' = stored /\ at[p] = "publish"
    BY <1>2 DEF Publish
  <2>2. CASE sms' = [sms EXCEPT ![mobile[p]] = @ \cup {code[p]}] /\ Goto(p, "idle")
    BY <2>1, <2>2, GotoEffect DEF WellFormed, TypeOK, Belongs
  <2>3. CASE /\ sms' \in {sms, [sms EXCEPT ![mobile[p]] = @ \cup {code[p]}]}
             /\ Goto(p, "discard")
    BY <2>1, <2>3, GotoEffect DEF WellFormed, TypeOK, Belongs
  <2> QED
    BY <1>2, <2>2, <2>3 DEF Publish
<1>3. ASSUME NEW p \in Handlers, Discard(p) \/ VerifyDelete(p) PROVE Belongs(c, m)
  <2>1. /\ sms' = sms
        /\ stored' = [stored EXCEPT ![mobile[p]] = None]
        /\ \E l \in {"idle", "findGuest"} : Goto(p, l)
    BY <1>3 DEF Discard, VerifyDelete, codes
  <2>2. stored'[m] = c => stored[m] = c
    BY <2>1, OtpAssumption DEF WellFormed, TypeOK
  <2> QED
    BY <2>1, <2>2, GotoEffect DEF WellFormed, Belongs
<1>4. ASSUME NEW p \in Handlers, Fails(p) PROVE Belongs(c, m)
  BY <1>4, GotoEffect DEF Fails, WellFormed, Belongs, codes
<1>5. ASSUME NEW p \in Handlers, NEW n \in Mobiles, NEW d \in Codes, VerifyRead(p, n, d)
      PROVE  Belongs(c, m)
  BY <1>5 DEF VerifyRead, WellFormed, TypeOK, Belongs, codes
<1>6. ASSUME NEW n \in Mobiles, CodeExpires(n) PROVE Belongs(c, m)
  BY <1>6, OtpAssumption DEF CodeExpires, WellFormed, TypeOK, Belongs, codes, procs
<1>7. CASE HandsRest
  BY <1>7 DEF HandsRest, codes, Belongs
<1> QED
  BY <1>1, <1>2, <1>3, <1>4, <1>5, <1>6, <1>7, CodeSteps

LEMMA DrawnGrows ==
  ASSUME WellFormed, [Next]_vars
  PROVE  /\ drawn \subseteq drawn'
         /\ \A p \in Handlers, c \in Codes :
              StoreCode(p, c) => c \notin drawn /\ c \in drawn'
  BY CodeSteps DEF StoreCode, Publish, Discard, VerifyDelete, Fails, VerifyRead,
                   CodeExpires, HandsRest, codes

LEMMA OneOwnerStep ==
  ASSUME WellFormed, OneOwner, [Next]_vars
  PROVE  OneOwner'
<1> SUFFICES ASSUME NEW c \in Codes, NEW m \in Mobiles, Belongs(c, m)'
             PROVE  c \in drawn' /\ \A n \in Mobiles : Belongs(c, n)' => m = n
  BY DEF OneOwner
<1>1. CASE \E n \in Mobiles : Belongs(c, n)
  <2>1. c \in drawn
    BY <1>1 DEF OneOwner
  <2>2. \A p \in Handlers : ~StoreCode(p, c)
    BY <2>1 DEF StoreCode
  <2> QED
    BY <2>1, <2>2, BelongsStep, DrawnGrows DEF OneOwner
<1>2. CASE ~ \E n \in Mobiles : Belongs(c, n)
  <2>1. PICK p \in Handlers : StoreCode(p, c) /\ m = mobile[p]
    BY <1>2, BelongsStep
  <2>2. ASSUME NEW q \in Handlers, StoreCode(q, c) PROVE q = p
    BY <2>1, <2>2 DEF StoreCode, WellFormed, TypeOK
  <2> QED
    BY <1>2, <2>1, <2>2, BelongsStep, DrawnGrows
<1> QED
  BY <1>1, <1>2

LEMMA UsedStep ==
  ASSUME WellFormed, CodeInv, [Next]_vars
  PROVE  (UsedIsDrawn /\ UsedCodeIsGone)'
<1> USE DEF CodeInv
<1>1. ASSUME NEW p \in Handlers, VerifyDelete(p)
      PROVE  (UsedIsDrawn /\ UsedCodeIsGone)'
  <2>1. code[p] \in Codes /\ Belongs(code[p], mobile[p]) /\ mobile[p] \in Mobiles
    BY <1>1 DEF VerifyDelete, WellFormed, CodeInHand, TypeOK, Belongs, Holding
  <2>2. /\ stored' = [stored EXCEPT ![mobile[p]] = None] /\ drawn' = drawn
        /\ verified' = [verified EXCEPT ![code[p]] = @ + 1]
    BY <1>1 DEF VerifyDelete
  <2>3. UsedIsDrawn'
    BY <2>1, <2>2 DEF UsedIsDrawn, OneOwner, WellFormed, TypeOK
  <2>4. ASSUME NEW m \in Mobiles, stored'[m] # None PROVE verified'[stored'[m]] = 0
    <3>1. m # mobile[p] /\ stored'[m] = stored[m] /\ stored[m] \in Codes
      BY <2>2, <2>4 DEF WellFormed, TypeOK
    <3>2. stored[m] # code[p]
      BY <2>1, <3>1 DEF OneOwner, Belongs
    <3> QED
      BY <2>2, <2>4, OtpAssumption, <3>1, <3>2 DEF UsedCodeIsGone, WellFormed, TypeOK
  <2> QED
    BY <2>3, <2>4 DEF UsedCodeIsGone
<1>2. ASSUME NEW p \in Handlers, NEW c \in Codes, StoreCode(p, c)
      PROVE  (UsedIsDrawn /\ UsedCodeIsGone)'
  <2>1. verified[c] = 0 /\ verified' = verified
    BY <1>2 DEF StoreCode, UsedIsDrawn, WellFormed, TypeOK
  <2> QED
    BY <1>2, <2>1 DEF StoreCode, UsedIsDrawn, UsedCodeIsGone, WellFormed, TypeOK
<1>3. ASSUME verified' = verified, drawn' = drawn,
             \A m \in Mobiles : stored'[m] \in {stored[m], None}
      PROVE  (UsedIsDrawn /\ UsedCodeIsGone)'
  BY <1>3 DEF UsedIsDrawn, UsedCodeIsGone
<1>4. ASSUME NEW p \in Handlers,
             Publish(p) \/ Discard(p) \/ Fails(p)
               \/ \E m \in Mobiles, c \in Codes : VerifyRead(p, m, c)
      PROVE  (UsedIsDrawn /\ UsedCodeIsGone)'
  BY <1>3, <1>4 DEF Publish, Discard, Fails, VerifyRead, WellFormed, TypeOK, codes
<1>5. ASSUME NEW m \in Mobiles, CodeExpires(m)
      PROVE  (UsedIsDrawn /\ UsedCodeIsGone)'
  BY <1>3, <1>5 DEF CodeExpires, WellFormed, TypeOK, codes
<1>6. CASE HandsRest
  BY <1>3, <1>6 DEF HandsRest, codes
<1> QED
  BY <1>1, <1>2, <1>4, <1>5, <1>6, CodeSteps

\* A code that has verified is never stored again, whatever sends, failures
\* and other logins overlap with its use.
THEOREM UsedCodesAreGone == Spec => []UsedCodeIsGone
<1>1. Init => CodeInv
  BY OtpAssumption DEF Init, CodeInv, OneOwner, UsedIsDrawn, UsedCodeIsGone,
                       Belongs, Holding
<1>2. WellFormed /\ CodeInv /\ [Next]_vars => CodeInv'
  BY OneOwnerStep, UsedStep DEF CodeInv
<1>3. CodeInv => UsedCodeIsGone
  BY DEF CodeInv
<1> QED
  BY <1>1, <1>2, <1>3, AlwaysWellFormed, PTL DEF Spec

(***************************************************************************)
(* The send limiter is the abstract rate window, until a command fails.    *)
(***************************************************************************)

\* A step that leaves the counters and the sends about to set an expiry.
LimiterRests ==
  /\ UNCHANGED limiter
  /\ \A p \in Handlers : at[p] = "expire" \/ at'[p] = "expire" =>
       at'[p] = at[p] /\ mobile'[p] = mobile[p]

LEMMA LimiterSteps ==
  ASSUME WellFormed, [Next]_vars
  PROVE  \/ \E p \in Handlers : \/ \E m \in Mobiles : SendIncr(p, m)
                                \/ SendExpire(p) \/ Fails(p)
         \/ \E m \in Mobiles : WindowElapses(m)
         \/ LimiterRests
<1> USE DEF LimiterRests, limiter
<1>1. ASSUME NEW p \in Handlers,
             SendRefused(p) \/ Publish(p) \/ Discard(p) \/ VerifyDelete(p)
               \/ FindGuest(p) \/ CreateGuest(p) \/ IssueTokens(p)
      PROVE  LimiterRests
  <2>1. /\ at[p] # "expire"
        /\ \E l \in {"idle", "discard", "findGuest", "createGuest", "issueTokens"} :
             Goto(p, l)
        /\ UNCHANGED limiter
    BY <1>1 DEF SendRefused, Publish, Discard, VerifyDelete, FindGuest, CreateGuest,
                IssueTokens
  <2> QED
    BY <2>1, GotoEffect DEF WellFormed
<1>2. ASSUME NEW p \in Handlers, NEW c \in Codes, StoreCode(p, c) PROVE LimiterRests
  BY <1>2 DEF StoreCode, WellFormed, TypeOK
<1>3. ASSUME NEW p \in Handlers, NEW m \in Mobiles, NEW c \in Codes, VerifyRead(p, m, c)
      PROVE  LimiterRests
  BY <1>3 DEF VerifyRead, WellFormed, TypeOK
<1>4. ASSUME NEW m \in Mobiles, CodeExpires(m) \/ StaffCreates(m) \/ Rejected(m)
      PROVE  LimiterRests
  BY <1>4 DEF CodeExpires, StaffCreates, Rejected, procs
<1>5. CASE UNCHANGED vars
  BY <1>5 DEF vars, procs
<1> QED
  BY <1>1, <1>2, <1>3, <1>4, <1>5 DEF Next, Continue

\* The refinement mapping of Window.
Left(m) == IF attempts[m] < MaxAttempts THEN MaxAttempts - attempts[m] ELSE 0
Opening(m) == \E p \in Handlers : at[p] = "expire" /\ mobile[p] = m
Open(m) == ttl[m] \/ Opening(m)
AbstractLeft == [m \in Mobiles |-> Left(m)]
AbstractOpen == [m \in Mobiles |-> Open(m)]

\* Until a command fails a counted window is open, and the send that opened
\* it is the only one about to set its expiry.
OneOpener ==
  faults = 0 =>
    /\ \A m \in Mobiles : attempts[m] > 0 <=> Open(m)
    /\ \A m \in Mobiles : ttl[m] => ~Opening(m)
    /\ \A p, q \in Handlers :
         at[p] = "expire" /\ at[q] = "expire" /\ mobile[p] = mobile[q] => p = q

\* What a step does to the counter and to who is about to set the expiry of
\* each number, and so to the abstract window.
LEMMA SendIncrEffect ==
  ASSUME WellFormed, OneOpener, faults = 0,
         NEW p \in Handlers, NEW h \in Mobiles, SendIncr(p, h)
  PROVE  /\ OneOpener'
         /\ Window!Admit(h) \/ UNCHANGED Window!vars
<1>1. /\ attempts[h] \in Nat /\ MaxAttempts \in Nat \ {0}
      /\ ttl' = ttl /\ faults' = faults
      /\ \A m \in Mobiles :
           attempts'[m] = IF m = h THEN attempts[h] + 1 ELSE attempts[m]
  BY OtpAssumption DEF SendIncr, WellFormed, TypeOK
<1>2. /\ at[p] = "idle" /\ mobile'[p] = h
      /\ at'[p] = "expire" <=> attempts[h] = 0
      /\ \A q \in Handlers \ {p} : at'[q] = at[q] /\ mobile'[q] = mobile[q]
  BY <1>1 DEF SendIncr, WellFormed, TypeOK
<1>3. \A m \in Mobiles \ {h} : /\ Opening(m)' <=> Opening(m)
                               /\ Open(m)' = Open(m)
                               /\ Left(m)' = Left(m)
  BY <1>1, <1>2 DEF Opening, Open, Left
<1>4. Open(h)'
  <2>1. CASE attempts[h] = 0
    BY <1>2, <2>1 DEF Open, Opening
  <2>2. CASE attempts[h] # 0
    BY <1>1, <1>2, <2>2 DEF OneOpener, Open, Opening
  <2> QED
    BY <2>1, <2>2
<1>5. attempts[h] = 0 => ~Opening(h) /\ ~ttl[h]
  BY <1>1 DEF OneOpener, Open
<1>6. OneOpener'
  <2>1. \A m \in Mobiles : attempts'[m] > 0 <=> Open(m)'
    BY <1>1, <1>3, <1>4 DEF OneOpener
  <2>2. \A m \in Mobiles : ttl'[m] => ~Opening(m)'
    BY <1>1, <1>2, <1>3, <1>5 DEF OneOpener, Opening
  <2>3. \A q, r \in Handlers :
          at'[q] = "expire" /\ at'[r] = "expire" /\ mobile'[q] = mobile'[r] => q = r
    BY <1>2, <1>5 DEF OneOpener, Opening
  <2> QED
    BY <2>1, <2>2, <2>3 DEF OneOpener
<1>7. CASE attempts[h] < MaxAttempts
  <2>1. Left(h) > 0 /\ Left(h)' = Left(h) - 1
    BY <1>1, <1>7 DEF Left
  <2>2. AbstractLeft' = [AbstractLeft EXCEPT ![h] = @ - 1]
    BY <1>3, <2>1 DEF AbstractLeft
  <2>3. AbstractOpen' = [AbstractOpen EXCEPT ![h] = TRUE]
    BY <1>3, <1>4 DEF AbstractOpen, Open
  <2> QED
    BY <1>6, <2>1, <2>2, <2>3
    DEF Window!Admit, AbstractLeft, AbstractOpen, Left, Open, Opening
<1>8. CASE ~(attempts[h] < MaxAttempts)
  <2>1. Left(h)' = Left(h) /\ Open(h)
    BY <1>1, <1>8 DEF Left, OneOpener
  <2>2. AbstractLeft' = AbstractLeft
    BY <1>3, <2>1 DEF AbstractLeft
  <2>3. AbstractOpen' = AbstractOpen
    BY <1>3, <1>4, <2>1 DEF AbstractOpen, Open
  <2> QED
    BY <1>6, <2>2, <2>3
    DEF Window!vars, AbstractLeft, AbstractOpen, Left, Open, Opening
<1> QED
  BY <1>7, <1>8, <1>6

\* EXPIRE comes after the admission it belongs to, and changes nothing.
LEMMA SendExpireEffect ==
  ASSUME WellFormed, OneOpener, faults = 0, NEW p \in Handlers, SendExpire(p)
  PROVE  OneOpener' /\ UNCHANGED Window!vars
<1> DEFINE h == mobile[p]
<1>1. /\ h \in Mobiles /\ attempts' = attempts /\ mobile' = mobile
      /\ \A m \in Mobiles : ttl'[m] = (IF m = h THEN TRUE ELSE ttl[m])
  BY DEF SendExpire, WellFormed, TypeOK, Goto
<1>2. /\ at[p] = "expire" /\ at'[p] # "expire"
      /\ \A q \in Handlers \ {p} : at'[q] = at[q]
  BY GotoEffect DEF SendExpire, WellFormed
<1>3. \A m \in Mobiles : m = h => Opening(m) /\ ~Opening(m)'
  <2>1. \A q \in Handlers : at[q] = "expire" /\ mobile[q] = h => q = p
    BY <1>2 DEF OneOpener
  <2> QED
    BY <1>1, <1>2, <2>1 DEF Opening
<1>4. \A m \in Mobiles \ {h} : Opening(m)' = Opening(m)
  BY <1>1, <1>2 DEF Opening
<1>5. \A m \in Mobiles : Open(m)' = Open(m)
  BY <1>1, <1>3, <1>4 DEF Open
<1> HIDE DEF h
<1>6. OneOpener'
  <2>1. \A m \in Mobiles : attempts'[m] > 0 <=> Open(m)'
    BY <1>1, <1>5 DEF OneOpener
  <2>2. \A m \in Mobiles : ttl'[m] => ~Opening(m)'
    BY <1>1, <1>3, <1>4 DEF OneOpener
  <2>3. \A q, r \in Handlers :
          at'[q] = "expire" /\ at'[r] = "expire" /\ mobile'[q] = mobile'[r] => q = r
    BY <1>1, <1>2 DEF OneOpener
  <2> QED
    BY <2>1, <2>2, <2>3 DEF OneOpener
<1>7. AbstractLeft' = AbstractLeft
  BY <1>1 DEF AbstractLeft, Left
<1>8. AbstractOpen' = AbstractOpen
  BY <1>5 DEF AbstractOpen
<1> QED
  BY <1>6, <1>7, <1>8 DEF Window!vars, AbstractLeft, AbstractOpen, Left, Open, Opening

LEMMA WindowElapsesEffect ==
  ASSUME WellFormed, OneOpener, faults = 0, NEW h \in Mobiles, WindowElapses(h)
  PROVE  OneOpener' /\ Window!Elapse(h)
<1>1. /\ ttl[h] /\ ~ttl'[h] /\ attempts'[h] = 0 /\ at' = at /\ mobile' = mobile
      /\ \A m \in Mobiles \ {h} : ttl'[m] = ttl[m] /\ attempts'[m] = attempts[m]
  BY DEF WindowElapses, WellFormed, TypeOK, procs
<1>2. \A m \in Mobiles : Opening(m)' = Opening(m)
  BY <1>1 DEF Opening
<1>3. Open(h) /\ ~Open(h)' /\ Left(h)' = MaxAttempts
  BY <1>1, <1>2, OtpAssumption DEF OneOpener, Open, Left
<1>4. \A m \in Mobiles \ {h} : Left(m)' = Left(m) /\ Open(m)' = Open(m)
  BY <1>1, <1>2 DEF Left, Open
<1>5. OneOpener'
  BY <1>1, <1>2, <1>3, <1>4 DEF OneOpener
<1>6. AbstractLeft' = [AbstractLeft EXCEPT ![h] = MaxAttempts]
  BY <1>3, <1>4 DEF AbstractLeft
<1>7. AbstractOpen' = [AbstractOpen EXCEPT ![h] = FALSE]
  BY <1>3, <1>4 DEF AbstractOpen, Open
<1> QED
  BY <1>3, <1>5, <1>6, <1>7
  DEF Window!Elapse, AbstractLeft, AbstractOpen, Left, Open, Opening

LEMMA LimiterRestsEffect ==
  ASSUME OneOpener, faults = 0, LimiterRests
  PROVE  OneOpener' /\ UNCHANGED Window!vars
<1>1. \A m \in Mobiles : Opening(m)' = Opening(m)
  BY DEF LimiterRests, Opening
<1>2. \A m \in Mobiles : Left(m)' = Left(m) /\ Open(m)' = Open(m)
  BY <1>1 DEF LimiterRests, limiter, Left, Open
<1>3. AbstractLeft' = AbstractLeft /\ AbstractOpen' = AbstractOpen
  BY <1>2 DEF AbstractLeft, AbstractOpen
<1>4. OneOpener'
  BY <1>1, <1>2 DEF OneOpener, LimiterRests, limiter
<1> QED
  BY <1>3, <1>4 DEF Window!vars, AbstractLeft, AbstractOpen, Left, Open, Opening

LEMMA StepIsWindow ==
  ASSUME WellFormed, OneOpener, [Next]_vars
  PROVE  OneOpener' /\ (faults' = 0 => [Window!Next]_(Window!vars))
<1>1. faults' \in Nat /\ faults \in Nat /\ faults <= faults'
  BY OtpAssumption DEF Next, Continue, SendIncr, SendExpire, SendRefused, StoreCode,
     Publish, Discard, VerifyRead, VerifyDelete, FindGuest, CreateGuest, IssueTokens,
     CodeExpires, WindowElapses, StaffCreates, Rejected, Fails, vars, WellFormed, TypeOK
<1>2. CASE faults' # 0
  BY <1>2 DEF OneOpener
<1>3. CASE faults' = 0
  <2>1. faults = 0 /\ \A p \in Handlers : ~Fails(p)
    BY <1>1, <1>3 DEF Fails
  <2>2. ASSUME NEW p \in Handlers, NEW m \in Mobiles, SendIncr(p, m)
        PROVE  OneOpener' /\ [Window!Next]_(Window!vars)
    BY <2>1, <2>2, SendIncrEffect DEF Window!Next
  <2>3. ASSUME NEW m \in Mobiles, WindowElapses(m)
        PROVE  OneOpener' /\ [Window!Next]_(Window!vars)
    BY <2>1, <2>3, WindowElapsesEffect DEF Window!Next
  <2> QED
    BY <2>1, <2>2, <2>3, LimiterSteps, SendExpireEffect, LimiterRestsEffect
<1> QED
  BY <1>2, <1>3

LEMMA InitIsWindow == Init => Window!Init
<1> SUFFICES ASSUME Init PROVE Window!Init
  OBVIOUS
<1>1. \A m \in Mobiles : Left(m) = MaxAttempts /\ ~Open(m)
  BY OtpAssumption DEF Init, Left, Open, Opening
<1>2. \A m \in Mobiles : Open(m) = FALSE
  BY <1>1
<1>3. AbstractLeft = [m \in Mobiles |-> MaxAttempts]
  BY <1>1 DEF AbstractLeft
<1>4. AbstractOpen = [m \in Mobiles |-> FALSE]
  BY <1>2, Zenon DEF AbstractOpen
<1> QED
  BY <1>3, <1>4 DEF Window!Init, AbstractLeft, AbstractOpen, Left, Open, Opening

\* Until a command fails the send limiter is the abstract rate window, however
\* many sends to a number overlap.
THEOREM SenderIsRateWindow == Spec => ImplementsRateWindow
<1>1. Init => Window!Init /\ OneOpener
  BY InitIsWindow, OtpAssumption DEF Init, OneOpener, Open, Opening
<1>2. WellFormed /\ OneOpener /\ [Next]_vars
        => OneOpener' /\ [faults' = 0 => [Window!Next]_(Window!vars)]_vars
  BY StepIsWindow
<1> QED
  BY <1>1, <1>2, AlwaysWellFormed, PTL DEF Spec, ImplementsRateWindow

(***************************************************************************)
(* Counting: the codes a number gets, the identities it is given.          *)
(***************************************************************************)

\* Sends that were admitted and have not drawn their code yet; codes of a
\* number that were delivered or are about to be; admissions in the window.
Admitted(m) == {p \in Handlers : at[p] \in {"expire", "store"} /\ mobile[p] = m}
Out(m) == {c \in Codes : \/ c \in sms[m]
                         \/ \E p \in Handlers : /\ at[p] = "publish"
                                                /\ mobile[p] = m /\ code[p] = c}
Spent(m) == IF attempts[m] < MaxAttempts THEN attempts[m] ELSE MaxAttempts

\* Every code that is out was admitted in this window or in an earlier one,
\* and so was every send that is about to draw one.
Paid(m) ==
  /\ IsFiniteSet(Admitted(m)) /\ IsFiniteSet(Out(m))
  /\ Cardinality(Out(m)) + Cardinality(Admitted(m))
       <= MaxAttempts * windows[m] + Spent(m)

LEMMA PaidType ==
  ASSUME WellFormed, NEW m \in Mobiles
  PROVE  /\ MaxAttempts \in Nat \ {0} /\ windows[m] \in Nat /\ attempts[m] \in Nat
         /\ MaxAttempts * windows[m] \in Nat /\ Spent(m) \in 0..MaxAttempts
         /\ Paid(m) => Cardinality(Out(m)) \in Nat /\ Cardinality(Admitted(m)) \in Nat
<1>1. MaxAttempts \in Nat \ {0} /\ windows[m] \in Nat /\ attempts[m] \in Nat
  BY OtpAssumption DEF WellFormed, TypeOK
<1>2. MaxAttempts * windows[m] \in Nat /\ Spent(m) \in 0..MaxAttempts
  BY <1>1 DEF Spent
<1> QED
  BY <1>1, <1>2, FS_CardinalityType DEF Paid

\* Nothing new is out and nobody new is admitted.
LEMMA PaidRests ==
  ASSUME WellFormed, NEW m \in Mobiles, Paid(m),
         Out(m)' \subseteq Out(m), Admitted(m)' \subseteq Admitted(m),
         attempts'[m] = attempts[m], windows'[m] = windows[m]
  PROVE  Paid(m)'
<1>1. /\ IsFiniteSet(Out(m)') /\ Cardinality(Out(m)') <= Cardinality(Out(m))
      /\ Cardinality(Out(m)') \in Nat
  BY FS_Subset, FS_CardinalityType DEF Paid
<1>2. /\ IsFiniteSet(Admitted(m)')
      /\ Cardinality(Admitted(m)') <= Cardinality(Admitted(m))
      /\ Cardinality(Admitted(m)') \in Nat
  BY FS_Subset, FS_CardinalityType DEF Paid
<1>3. Spent(m)' = Spent(m)
  BY DEF Spent
<1> QED
  BY <1>1, <1>2, <1>3, PaidType DEF Paid

LEMMA PaidStep ==
  ASSUME WellFormed, [Next]_vars, NEW m \in Mobiles, Paid(m)
  PROVE  Paid(m)'
<1> USE DEF limiter, codes, accounts, procs
<1>0. Cardinality(Out(m)) \in Nat /\ Cardinality(Admitted(m)) \in Nat
  BY PaidType
<1>1. ASSUME NEW p \in Handlers, NEW n \in Mobiles, SendIncr(p, n)
      PROVE  Paid(m)'
  <2>1. /\ at[p] = "idle" /\ mobile'[p] = n /\ code' = code /\ sms' = sms
        /\ windows' = windows
        /\ \A q \in Handlers \ {p} : at'[q] = at[q] /\ mobile'[q] = mobile[q]
        /\ at'[p] \in {"expire", "refused", "store"}
        /\ attempts[n] \in Nat /\ MaxAttempts \in Nat \ {0}
        /\ at'[p] \in {"expire", "store"} <=> attempts[n] < MaxAttempts
        /\ \A l \in Mobiles :
             attempts'[l] = IF l = n THEN attempts[n] + 1 ELSE attempts[l]
    BY <1>1, PaidType DEF SendIncr, WellFormed, TypeOK
  <2>2. Out(m)' = Out(m)
    BY <2>1 DEF Out
  <2>3. CASE n = m /\ attempts[m] < MaxAttempts
    <3>1. Admitted(m)' = Admitted(m) \cup {p} /\ p \notin Admitted(m)
      BY <2>1, <2>3 DEF Admitted
    <3>2. /\ IsFiniteSet(Admitted(m)')
          /\ Cardinality(Admitted(m)') = Cardinality(Admitted(m)) + 1
      BY <3>1, FS_AddElement DEF Paid
    <3>3. Spent(m)' = Spent(m) + 1
      BY <2>1, <2>3 DEF Spent
    <3> QED
      BY <1>0, <2>1, <2>2, <3>2, <3>3, PaidType DEF Paid
  <2>4. CASE n = m /\ ~(attempts[m] < MaxAttempts)
    <3>1. Admitted(m)' = Admitted(m)
      BY <2>1, <2>4 DEF Admitted
    <3>2. Spent(m)' = Spent(m)
      BY <2>1, <2>4 DEF Spent
    <3> QED
      BY <2>1, <2>2, <3>1, <3>2 DEF Paid
  <2>5. CASE n # m
    <3>1. Admitted(m)' = Admitted(m)
      BY <2>1, <2>5 DEF Admitted
    <3> QED
      BY <2>1, <2>2, <2>5, <3>1, PaidRests
  <2> QED
    BY <2>3, <2>4, <2>5
<1>2. ASSUME NEW p \in Handlers, NEW c \in Codes, StoreCode(p, c)
      PROVE  Paid(m)'
  <2>1. /\ at[p] = "store" /\ at'[p] = "publish" /\ mobile' = mobile
        /\ code'[p] = c /\ sms' = sms /\ UNCHANGED limiter
        /\ \A q \in Handlers \ {p} : at'[q] = at[q] /\ code'[q] = code[q]
    BY <1>2 DEF StoreCode, WellFormed, TypeOK
  <2>2. CASE mobile[p] = m
    <3>1. Admitted(m)' = Admitted(m) \ {p} /\ p \in Admitted(m)
      BY <2>1, <2>2 DEF Admitted
    <3>2. Out(m)' = Out(m) \cup {c}
      BY <2>1, <2>2 DEF Out
    <3>3. /\ IsFiniteSet(Admitted(m)')
          /\ Cardinality(Admitted(m)') = Cardinality(Admitted(m)) - 1
      BY <3>1, FS_RemoveElement DEF Paid
    <3>4. /\ IsFiniteSet(Out(m)')
          /\ Cardinality(Out(m)') <= Cardinality(Out(m)) + 1
          /\ Cardinality(Out(m)') \in Nat
      <4>0. IsFiniteSet(Out(m))
        BY DEF Paid
      <4>1. /\ IsFiniteSet(Out(m) \cup {c})
            /\ Cardinality(Out(m) \cup {c}) \in
                 {Cardinality(Out(m)), Cardinality(Out(m)) + 1}
        BY <4>0, FS_AddElement
      <4>2. Cardinality(Out(m) \cup {c}) \in Nat
        BY <4>1, FS_CardinalityType
      <4> QED
        BY <1>0, <3>2, <4>1, <4>2
    <3>5. Spent(m)' = Spent(m) /\ windows'[m] = windows[m]
      BY <2>1 DEF Spent
    <3> QED
      BY <1>0, <3>3, <3>4, <3>5, PaidType DEF Paid
  <2>3. CASE mobile[p] # m
    <3>1. Admitted(m)' = Admitted(m) /\ Out(m)' = Out(m)
      BY <2>1, <2>3 DEF Admitted, Out
    <3> QED
      BY <2>1, <3>1, PaidRests
  <2> QED
    BY <2>2, <2>3
<1>3. ASSUME NEW p \in Handlers, Publish(p) PROVE Paid(m)'
  <2>1. /\ at[p] = "publish" /\ UNCHANGED limiter
        /\ sms' \in {sms, [sms EXCEPT ![mobile[p]] = @ \cup {code[p]}]}
        /\ \E l \in {"idle", "discard"} : Goto(p, l)
    BY <1>3 DEF Publish
  <2>2. Out(m)' \subseteq Out(m)
    BY <2>1, GotoEffect DEF Out, WellFormed, TypeOK
  <2>3. Admitted(m)' \subseteq Admitted(m)
    BY <2>1, GotoEffect DEF Admitted, WellFormed
  <2> QED
    BY <2>1, <2>2, <2>3, PaidRests
<1>4. ASSUME NEW p \in Handlers, NEW n \in Mobiles, NEW c \in Codes, VerifyRead(p, n, c)
      PROVE  Paid(m)'
  <2>1. Out(m)' \subseteq Out(m) /\ Admitted(m)' \subseteq Admitted(m)
    BY <1>4 DEF VerifyRead, Out, Admitted, WellFormed, TypeOK
  <2> QED
    BY <1>4, <2>1, PaidRests DEF VerifyRead
<1>5. ASSUME NEW p \in Handlers, NEW l \in {"store", "idle", "findGuest", "createGuest", "issueTokens"},
             Goto(p, l), l = "store" => at[p] = "expire",
             sms' = sms, attempts' = attempts, windows' = windows
      PROVE  Paid(m)'
  <2>1. Out(m)' \subseteq Out(m) /\ Admitted(m)' \subseteq Admitted(m)
    BY <1>5, GotoEffect DEF Out, Admitted, WellFormed
  <2> QED
    BY <1>5, <2>1, PaidRests
<1>6. ASSUME NEW p \in Handlers,
             SendExpire(p) \/ SendRefused(p) \/ Discard(p) \/ VerifyDelete(p)
               \/ FindGuest(p) \/ CreateGuest(p) \/ IssueTokens(p) \/ Fails(p)
      PROVE  Paid(m)'
  <2>1. /\ \E l \in {"store", "idle", "findGuest", "createGuest", "issueTokens"} :
             Goto(p, l) /\ (l = "store" => at[p] = "expire")
        /\ sms' = sms /\ attempts' = attempts /\ windows' = windows
    BY <1>6 DEF SendExpire, SendRefused, Discard, VerifyDelete, FindGuest,
                CreateGuest, IssueTokens, Fails
  <2> QED
    BY <1>5, <2>1
<1>7. ASSUME NEW n \in Mobiles, WindowElapses(n) PROVE Paid(m)'
  <2>1. Out(m)' = Out(m) /\ Admitted(m)' = Admitted(m)
    BY <1>7 DEF WindowElapses, Out, Admitted
  <2>2. CASE n = m
    <3>1. Spent(m)' = 0 /\ windows'[m] = windows[m] + 1
      BY <1>7, <2>2, PaidType DEF WindowElapses, Spent, WellFormed, TypeOK
    <3>2. MaxAttempts * (windows[m] + 1) = MaxAttempts * windows[m] + MaxAttempts
      BY PaidType
    <3> QED
      BY <1>0, <2>1, <3>1, <3>2, PaidType DEF Paid
  <2>3. CASE n # m
    BY <1>7, <2>1, <2>3, PaidRests DEF WindowElapses, WellFormed, TypeOK
  <2> QED
    BY <2>2, <2>3
<1>8. ASSUME NEW n \in Mobiles, CodeExpires(n) \/ StaffCreates(n) \/ Rejected(n)
      PROVE  Paid(m)'
  <2>1. Out(m)' = Out(m) /\ Admitted(m)' = Admitted(m)
    BY <1>8 DEF CodeExpires, StaffCreates, Rejected, Out, Admitted
  <2> QED
    BY <1>8, <2>1, PaidRests DEF CodeExpires, StaffCreates, Rejected
<1>9. CASE UNCHANGED vars
  <2>1. Out(m)' = Out(m) /\ Admitted(m)' = Admitted(m)
    BY <1>9 DEF vars, Out, Admitted
  <2> QED
    BY <1>9, <2>1, PaidRests DEF vars
<1> QED
  BY <1>1, <1>2, <1>3, <1>4, <1>6, <1>7, <1>8, <1>9 DEF Next, Continue

\* A number gets at most the limit of codes per elapsed window, however many
\* sends are in progress and wherever one of them fails.
THEOREM SendsAreBounded == Spec => []SendRateBounded
<1> DEFINE AllPaid == \A m \in Mobiles : Paid(m)
<1>1. Init => AllPaid
  <2> SUFFICES ASSUME Init, NEW m \in Mobiles PROVE Paid(m)
    OBVIOUS
  <2>1. Out(m) = {} /\ Admitted(m) = {}
    BY DEF Init, Out, Admitted
  <2>2. Spent(m) = 0 /\ MaxAttempts * windows[m] = 0
    BY OtpAssumption DEF Init, Spent
  <2> QED
    BY <2>1, <2>2, FS_EmptySet DEF Paid
<1>2. WellFormed /\ AllPaid /\ [Next]_vars => AllPaid'
  BY PaidStep
<1>3. WellFormed /\ AllPaid => SendRateBounded
  <2> SUFFICES ASSUME WellFormed, NEW m \in Mobiles, Paid(m)
               PROVE  Cardinality(sms[m]) <= MaxAttempts * (windows[m] + 1)
    BY DEF SendRateBounded
  <2>1. sms[m] \subseteq Out(m)
    BY DEF Out, WellFormed, TypeOK
  <2>2. /\ Cardinality(sms[m]) <= Cardinality(Out(m))
        /\ Cardinality(sms[m]) \in Nat
    BY <2>1, FS_Subset, FS_CardinalityType DEF Paid
  <2>3. MaxAttempts * (windows[m] + 1) = MaxAttempts * windows[m] + MaxAttempts
    BY PaidType
  <2> QED
    BY <2>2, <2>3, PaidType DEF Paid
<1> HIDE DEF AllPaid
<1> QED
  BY <1>1, <1>2, <1>3, AlwaysWellFormed, PTL DEF Spec

\* A login sets out to create the guest only while there is none, and one that
\* joins another at it is seen: so is an identity staff add beside one.
OneGuest(m) ==
  ~rejected[m] /\ m \notin crossed =>
    /\ guests[m] <= 1
    /\ Registering(m) # {} => guests[m] = 0
    /\ \A p, q \in Registering(m) : p = q

\* No guest is added and nobody sets out to create one.
LEMMA OneGuestRests ==
  ASSUME WellFormed, NEW m \in Mobiles, OneGuest(m),
         Registering(m)' \subseteq Registering(m),
         guests'[m] = guests[m], rejected[m] => rejected'[m],
         m \in crossed => m \in crossed'
  PROVE  OneGuest(m)'
  BY DEF OneGuest

LEMMA FindGuestOneGuest ==
  ASSUME WellFormed, NEW m \in Mobiles, OneGuest(m), NEW p \in Handlers, FindGuest(p)
  PROVE  OneGuest(m)'
<1>1. guests' = guests /\ rejected' = rejected
  BY DEF FindGuest
<1>2. CASE mobile[p] # m \/ Goto(p, "issueTokens")
  <2>1. at[p] = "findGuest" /\ \E l \in {"createGuest", "issueTokens"} : Goto(p, l)
    BY DEF FindGuest
  <2>2. Registering(m)' \subseteq Registering(m)
    BY <1>2, <2>1, GotoEffect DEF Registering, WellFormed
  <2>3. m \in crossed => m \in crossed'
    BY DEF FindGuest
  <2> QED
    BY <1>1, <2>2, <2>3, OneGuestRests
<1>3. CASE mobile[p] = m /\ Goto(p, "createGuest")
  <2>1. "createGuest" # "issueTokens" /\ at'[p] = "createGuest"
    BY <1>3, GotoEffect DEF WellFormed
  <2>2. ~Goto(p, "issueTokens")
    BY <2>1, GotoEffect DEF WellFormed
  <2>3. /\ guests[m] = 0 \/ rejected[m]
        /\ crossed' = IF Registering(m) # {} THEN crossed \cup {m} ELSE crossed
    BY <1>3, <2>2 DEF FindGuest
  <2>4. CASE Registering(m) # {} \/ rejected[m]
    BY <1>1, <2>3, <2>4 DEF OneGuest
  <2>5. CASE Registering(m) = {} /\ guests[m] = 0
    <3>1. Registering(m)' \subseteq {p}
      BY <1>3, <2>5, GotoEffect DEF Registering, WellFormed
    <3> QED
      BY <1>1, <2>5, <3>1 DEF OneGuest
  <2> QED
    BY <2>3, <2>4, <2>5
<1> QED
  BY <1>2, <1>3 DEF FindGuest

LEMMA CreateGuestOneGuest ==
  ASSUME WellFormed, NEW m \in Mobiles, OneGuest(m), NEW p \in Handlers, CreateGuest(p)
  PROVE  OneGuest(m)'
<1>1. /\ Goto(p, "issueTokens") /\ at[p] = "createGuest"
      /\ rejected' = rejected /\ crossed' = crossed
      /\ guests' = [guests EXCEPT ![mobile[p]] = guests[mobile[p]] + 1]
  BY DEF CreateGuest
<1>2. Registering(m)' = Registering(m) \ {p}
  BY <1>1, GotoEffect DEF Registering, WellFormed
<1>3. CASE mobile[p] = m
  <2>1. p \in Registering(m)
    BY <1>1, <1>3 DEF Registering
  <2>2. guests'[m] = guests[m] + 1
    BY <1>1, <1>3 DEF WellFormed, TypeOK
  <2> QED
    BY <1>1, <1>2, <2>1, <2>2 DEF OneGuest
<1>4. CASE mobile[p] # m
  <2>1. guests'[m] = guests[m]
    BY <1>1, <1>4 DEF WellFormed, TypeOK
  <2> QED
    BY <1>1, <1>2, <2>1, OneGuestRests
<1> QED
  BY <1>3, <1>4

LEMMA StaffCreatesOneGuest ==
  ASSUME WellFormed, NEW m \in Mobiles, OneGuest(m), NEW n \in Mobiles, StaffCreates(n)
  PROVE  OneGuest(m)'
<1>1. Registering(m)' = Registering(m) /\ rejected' = rejected
  BY DEF StaffCreates, Registering, procs
<1>2. CASE n # m
  <2>1. guests'[m] = guests[m] /\ (m \in crossed => m \in crossed')
    BY <1>2 DEF StaffCreates, WellFormed, TypeOK
  <2> QED
    BY <1>1, <2>1, OneGuestRests
<1>3. CASE n = m /\ (guests[m] > 0 \/ Registering(m) # {})
  <2>1. m \in crossed'
    BY <1>3 DEF StaffCreates
  <2> QED
    BY <2>1 DEF OneGuest
<1>4. CASE n = m /\ ~(guests[m] > 0) /\ Registering(m) = {}
  <2>1. guests'[m] = 1
    BY <1>4 DEF StaffCreates, WellFormed, TypeOK
  <2> QED
    BY <1>1, <1>4, <2>1 DEF OneGuest
<1> QED
  BY <1>2, <1>3, <1>4

LEMMA OneGuestStep ==
  ASSUME WellFormed, [Next]_vars, NEW m \in Mobiles, OneGuest(m)
  PROVE  OneGuest(m)'
<1> USE DEF limiter, codes, accounts, procs
<1>1. ASSUME NEW p \in Handlers, NEW l \in {"idle", "store", "discard", "findGuest", "issueTokens"},
             Goto(p, l), guests' = guests, rejected' = rejected, crossed' = crossed
      PROVE  OneGuest(m)'
  <2>1. Registering(m)' \subseteq Registering(m)
    BY <1>1, GotoEffect DEF Registering, WellFormed
  <2> QED
    BY <1>1, <2>1, OneGuestRests
<1>2. ASSUME NEW p \in Handlers,
             SendExpire(p) \/ SendRefused(p) \/ Publish(p) \/ Discard(p)
               \/ VerifyDelete(p) \/ IssueTokens(p) \/ Fails(p)
      PROVE  OneGuest(m)'
  <2>1. /\ \E l \in {"idle", "store", "discard", "findGuest", "issueTokens"} : Goto(p, l)
        /\ guests' = guests /\ rejected' = rejected /\ crossed' = crossed
    BY <1>2 DEF SendExpire, SendRefused, Publish, Discard, VerifyDelete,
                IssueTokens, Fails
  <2> QED
    BY <1>1, <2>1
<1>3. ASSUME NEW p \in Handlers, NEW n \in Mobiles,
             SendIncr(p, n) \/ (\E c \in Codes : VerifyRead(p, n, c))
      PROVE  OneGuest(m)'
  <2>1. Registering(m)' \subseteq Registering(m)
    BY <1>3 DEF SendIncr, VerifyRead, Registering, WellFormed, TypeOK
  <2> QED
    BY <1>3, <2>1, OneGuestRests DEF SendIncr, VerifyRead
<1>4. ASSUME NEW p \in Handlers, NEW c \in Codes, StoreCode(p, c) PROVE OneGuest(m)'
  <2>1. Registering(m)' \subseteq Registering(m)
    BY <1>4 DEF StoreCode, Registering, WellFormed, TypeOK
  <2> QED
    BY <1>4, <2>1, OneGuestRests DEF StoreCode
<1>5. ASSUME NEW n \in Mobiles, CodeExpires(n) \/ WindowElapses(n) \/ Rejected(n)
      PROVE  OneGuest(m)'
  <2>1. Registering(m)' = Registering(m) /\ guests' = guests /\ crossed' = crossed
    BY <1>5 DEF CodeExpires, WindowElapses, Rejected, Registering
  <2>2. rejected[m] => rejected'[m]
    BY <1>5 DEF CodeExpires, WindowElapses, Rejected, WellFormed, TypeOK
  <2> QED
    BY <2>1, <2>2, OneGuestRests
<1>6. CASE UNCHANGED vars
  <2>1. Registering(m)' = Registering(m)
    BY <1>6 DEF vars, Registering
  <2> QED
    BY <1>6, <2>1, OneGuestRests DEF vars
<1> QED
  BY <1>2, <1>3, <1>4, <1>5, <1>6, FindGuestOneGuest, CreateGuestOneGuest,
     StaffCreatesOneGuest DEF Next, Continue

\* A number has a second identity only if staff rejected one or added one, or
\* if two logins were to create one at the same time: logins one after the
\* other find the first, whatever fails in between.
THEOREM SecondGuestsOverlap == Spec => []SecondGuestOnlyByOverlap
<1> DEFINE One == \A m \in Mobiles : OneGuest(m)
<1>1. Init => One
  BY DEF Init, OneGuest, Registering
<1>2. WellFormed /\ One /\ [Next]_vars => One'
  BY OneGuestStep
<1>3. One => SecondGuestOnlyByOverlap
  BY DEF OneGuest, SecondGuestOnlyByOverlap
<1> HIDE DEF One
<1> QED
  BY <1>1, <1>2, <1>3, AlwaysWellFormed, PTL DEF Spec
=============================================================================
