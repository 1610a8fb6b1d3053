----------------------------- MODULE MCSessions -----------------------------
(* Small instances of Sessions. *)
EXTENDS Sessions, TLC

Symmetry == Permutations(Sessions) \cup Permutations(Families)
              \cup Permutations(Grants) \cup Permutations(Requests)
=============================================================================
