----------------------------- MODULE RateWindow -----------------------------
(***************************************************************************)
(* What a rate limiter promises, whatever it is built from: a key may be   *)
(* admitted Limit times before its window ends, the first admission opens  *)
(* the window, and an open window may always end.                          *)
(***************************************************************************)
EXTENDS Integers

CONSTANTS Keys, Limit

VARIABLES
  left,   \* admissions left to a key in its window
  open    \* is the end of the key's window set

vars == <<left, open>>

Init ==
  /\ left = [k \in Keys |-> Limit]
  /\ open = [k \in Keys |-> FALSE]

Admit(k) ==
  /\ left[k] > 0
  /\ left' = [left EXCEPT ![k] = @ - 1]
  /\ open' = [open EXCEPT ![k] = TRUE]

Elapse(k) ==
  /\ open[k]
  /\ left' = [left EXCEPT ![k] = Limit]
  /\ open' = [open EXCEPT ![k] = FALSE]

Next == \E k \in Keys : Admit(k) \/ Elapse(k)

Spec == Init /\ [][Next]_vars
=============================================================================
