------------------------------ MODULE MCOutbox ------------------------------
(* Small instances of Outbox. *)
EXTENDS Outbox, TLC

Calm == [timely |-> TRUE, renewed |-> TRUE, reliable |-> TRUE]
CalmOnly == {Calm}
Backlog == [timely |-> FALSE, renewed |-> TRUE, reliable |-> FALSE]
Hostile == [timely |-> FALSE, renewed |-> FALSE, reliable |-> FALSE]

\* The other environments allow no step that Backlog or Hostile does not.
CalmToHostile == {Calm, Backlog, Hostile}

Symmetry == Permutations(Devices) \cup Permutations(Relays) \cup Permutations(Workers)
=============================================================================
