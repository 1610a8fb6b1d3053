--------------------------- MODULE MCPairMatching ---------------------------
(* Small instances of PairMatching: ann is a customer, bob a photographer. *)
EXTENDS PairMatching, TLC

CONSTANTS ann, bob, annC, bobP

RoleOwner == annC :> ann @@ bobP :> bob

Symmetry == Permutations(MatchIds) \cup Permutations(Requests) \cup Permutations(InterestIds)
=============================================================================
