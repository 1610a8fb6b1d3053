-------------------------- MODULE BookingLifecycle --------------------------
(***************************************************************************)
(* What a booking promises its two parties: the transition matrix of       *)
(* docs/policies/booking-transitions.md, walked one row at a time by a     *)
(* party the row names, and one review, after completion.  Bookings.tla    *)
(* implements it with requests that interleave.                            *)
(***************************************************************************)
EXTENDS Naturals

CONSTANTS Bookings

VARIABLES
  status,       \* "NONE" before the booking exists
  creator,      \* the party that created it
  mover,        \* the party that moved it last
  completed,    \* whether it was ever COMPLETED
  reviews       \* number of its reviews

vars == <<status, creator, mover, completed, reviews>>

Parties == {"customer", "photographer"}

\* The row DRAFT -> PENDING of the matrix is left out: bookings are created
\* PENDING and no operation writes DRAFT.
Matrix ==
  {<<"PENDING", "ACCEPTED", "other">>,
   <<"PENDING", "REJECTED", "other">>,
   <<"PENDING", "CANCELLED", "creator">>,
   <<"ACCEPTED", "CANCELLED", "either">>,
   <<"ACCEPTED", "IN_PROGRESS", "photographer">>,
   <<"IN_PROGRESS", "COMPLETED", "photographer">>,
   <<"ACCEPTED", "DISPUTED", "either">>,
   <<"IN_PROGRESS", "DISPUTED", "either">>,
   <<"COMPLETED", "DISPUTED", "either">>}

\* Whether the column "Actor" of the matrix names this party of booking b.
Names(who, b, party) ==
  \/ who = "either"
  \/ who = "creator" /\ party = creator[b]
  \/ who = "other" /\ party # creator[b]
  \/ who = "photographer" /\ party = "photographer"

Init ==
  /\ status = [b \in Bookings |-> "NONE"]
  /\ creator = [b \in Bookings |-> "NONE"]
  /\ mover = [b \in Bookings |-> "NONE"]
  /\ completed = [b \in Bookings |-> FALSE]
  /\ reviews = [b \in Bookings |-> 0]

Create(b, party) ==
  /\ status[b] = "NONE"
  /\ status' = [status EXCEPT ![b] = "PENDING"]
  /\ creator' = [creator EXCEPT ![b] = party]
  /\ mover' = [mover EXCEPT ![b] = party]
  /\ UNCHANGED <<completed, reviews>>

Move(b, party) ==
  \E row \in Matrix :
    /\ row[1] = status[b]
    /\ Names(row[3], b, party)
    /\ status' = [status EXCEPT ![b] = row[2]]
    /\ completed' = [completed EXCEPT ![b] = completed[b] \/ row[2] = "COMPLETED"]
    /\ mover' = [mover EXCEPT ![b] = party]
    /\ UNCHANGED <<creator, reviews>>

Review(b) ==
  /\ completed[b]
  /\ reviews[b] = 0
  /\ reviews' = [reviews EXCEPT ![b] = 1]
  /\ UNCHANGED <<status, creator, mover, completed>>

Next ==
  \E b \in Bookings :
    \/ \E party \in Parties : Create(b, party) \/ Move(b, party)
    \/ Review(b)

Spec == Init /\ [][Next]_vars
=============================================================================
