------------------------------ MODULE MCCheckIn ------------------------------
(* A small instance of CheckIn: one record, two reviews of it at once.      *)
EXTENDS CheckIn

CONSTANTS i1, b1, r1, r2
=============================================================================
