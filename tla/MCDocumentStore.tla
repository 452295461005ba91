--------------------------- MODULE MCDocumentStore ---------------------------
(* A small instance of the seed script and the document store.             *)
EXTENDS DocumentStore, TLC

CONSTANTS p1, p2, kyc, reception, s1, i1, i2, o1, o2, u1, u2

OneDeptOf == s1 :> reception

\* Nothing tells two processes, two uploads, two keys or two guests apart.
Interchangeable ==
  Permutations(Seeders) \cup Permutations(Uploads) \cup Permutations(Docs)
    \cup Permutations(Ids)
=============================================================================
