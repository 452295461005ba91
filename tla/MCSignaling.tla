---------------------------- MODULE MCSignaling ----------------------------
(* Small instances of Signaling: who owns which socket. *)
EXTENDS Signaling, TLC

CONSTANTS c1, c2, g1, s1, s2, t1, t2, d1, d2

\* One page that may reconnect, two members of staff in its department.
OnePage == (s1 :> c1) @@ (s2 :> c1)
OnePageGuest == c1 :> g1
OnePageDept == c1 :> d1
OneDeptStaff == (t1 :> d1) @@ (t2 :> d1)
OneStaff == t1 :> d1

\* Two pages of one guest, calling two departments.
TwoPages == (s1 :> c1) @@ (s2 :> c2)
TwoPagesGuest == (c1 :> g1) @@ (c2 :> g1)
TwoPagesDept == (c1 :> d1) @@ (c2 :> d2)
TwoDeptStaff == (t1 :> d1) @@ (t2 :> d2)

\* Sockets of one page, and staff of one department, are interchangeable.
Interchangeable == Permutations({s1, s2}) \cup Permutations({t1, t2})
=============================================================================
