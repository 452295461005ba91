------------------------- MODULE MCIdentityRecords -------------------------
(* A small instance of IdentityRecords: nothing tells two records, two      *)
(* references, two names or two requests apart.                             *)
EXTENDS IdentityRecords, TLC

\* Staff are created with a name only, guests with a reference as well.
NamedForms == [ref : Refs \cup {None}, name : Names]

Interchangeable ==
  Permutations(Ids) \cup Permutations(Refs) \cup Permutations(Names)
    \cup Permutations(Handlers)
=============================================================================
