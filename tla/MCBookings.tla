----------------------------- MODULE MCBookings -----------------------------
(* A small instance of BookingSide. *)
EXTENDS BookingSide, TLC

CONSTANTS customer, photographer

\* Everyone is in the conversations but a third user; the customer writes.
TheTwo == [c \in Conversations |-> {customer, photographer}]
TheHome ==
  [m \in Messages |-> [conversation |-> CHOOSE c \in Conversations : TRUE, sender |-> customer]]

Symmetry == Permutations(Requests)
=============================================================================
