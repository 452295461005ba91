-------------------------- MODULE MCServiceRequests --------------------------
(* A small desk: one department, one member of staff seeded and one added. *)
EXTENDS ServiceRequests, TLC

CONSTANTS p1, p2, d1, u1, x1, t1, t2, g1, q1

\* Nothing tells two staff pages apart.
Interchangeable == Permutations(Tabs)

OneDept == [p \in {p1, p2} |-> d1]
=============================================================================
