---------------------------- MODULE MCCallScreens ----------------------------
(* A small instance of the call pages: two guests, whose connections may   *)
(* be lost and come back, call the same member of staff.                   *)
EXTENDS CallScreens

CONSTANTS g1, g2, p1

Connections == [x \in Guests \cup Staff |->
  IF x \in Guests THEN 2 ELSE 5]
=============================================================================
