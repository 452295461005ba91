--------------------------- MODULE MCGrantEngine ---------------------------
(* Small instances of GrantEngine: one guest, whose grants and tokens they *)
(* all are.                                                                *)
EXTENDS GrantEngine, TLC

CONSTANTS guest, a, b, k1, k2, k3, h1, h2, j1, j2

OneSubjectOf == [g \in Grants |-> guest]
OneOwnerOf == [k \in Tokens |-> guest]

\* Nothing tells two grants, two handlers or two tokens apart.
Interchangeable ==
  Permutations(Grants) \cup Permutations(Tokens) \cup Permutations(Handlers)
=============================================================================
