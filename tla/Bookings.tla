------------------------------ MODULE Bookings ------------------------------
(***************************************************************************)
(* Bookings of one customer and one photographer: create, update and       *)
(* transition of bookings.service.ts with the rules of                     *)
(* booking-state-machine.ts, and the review of reviews.service.ts.         *)
(*                                                                         *)
(* A request reads in one step and writes in a later one.  Only transition *)
(* holds the advisory lock of the booking in between.  The outbox event    *)
(* and the notification of a write are rows of the same transaction and    *)
(* are left to the model of the outbox.                                    *)
(***************************************************************************)
EXTENDS Naturals, Sequences

CONSTANTS
  Bookings,     \* bound: rows of bookings
  Requests,     \* bound: requests in flight at once
  MaxTime,      \* bound on clock and on the times of a schedule
  None          \* no request, no booking, no time

ASSUME NoneAssumption == None \notin Requests \cup Bookings
ASSUME TimeAssumption == MaxTime \in Nat /\ None \notin 0..MaxTime

VARIABLES
  bookings,     \* rows of bookings, each with its bookingStatusHistory
  reviews,      \* number of rows of reviews of each booking
  pair,         \* status of the match of the two parties
  lock,         \* holder of the advisory lock of each booking
  req,          \* requests in flight
  clock

vars == <<bookings, reviews, pair, lock, req, clock>>

-----------------------------------------------------------------------------
Times == 0..MaxTime
Parties == {"customer", "photographer"}
Status == {"PENDING", "ACCEPTED", "REJECTED", "CANCELLED", "IN_PROGRESS",
           "COMPLETED", "DISPUTED"}
PairStatus == {"NONE", "ACTIVE", "ENDED"}

Entry == [from: Status \cup {"NONE"}, to: Status, by: Parties]

Booking == [status: Status \cup {"NONE"}, creator: Parties \cup {"NONE"},
            start: Times, end: Times, completedAt: Times \cup {None}, history: Seq(Entry)]
NoBooking == [status |-> "NONE", creator |-> "NONE", start |-> 0, end |-> 0,
              completedAt |-> None, history |-> <<>>]

\* start and end are the fields of the request (None: left out of a patch),
\* from is the status a transition read.
Request == [pc: {"idle", "create", "update", "transition", "review"},
            booking: Bookings \cup {None}, by: Parties \cup {"NONE"},
            start: Times \cup {None}, end: Times \cup {None},
            from: Status \cup {"NONE"}, to: Status \cup {"NONE"}, newPair: BOOLEAN]
Idle == [pc |-> "idle", booking |-> None, by |-> "NONE", start |-> None, end |-> None,
         from |-> "NONE", to |-> "NONE", newPair |-> FALSE]

TypeOK ==
  /\ bookings \in [Bookings -> Booking]
  /\ reviews \in [Bookings -> Nat]
  /\ pair \in PairStatus
  /\ lock \in [Bookings -> Requests \cup {None}]
  /\ req \in [Requests -> Request]
  /\ clock \in Times

Init ==
  /\ bookings = [b \in Bookings |-> NoBooking]
  /\ reviews = [b \in Bookings |-> 0]
  /\ pair = "NONE"
  /\ lock = [b \in Bookings |-> None]
  /\ req = [r \in Requests |-> Idle]
  /\ clock = 0

-----------------------------------------------------------------------------
Begin(r, request) == req[r].pc = "idle" /\ req' = [req EXCEPT ![r] = request]
Finish(r) == req' = [req EXCEPT ![r] = Idle]
Unlock(r) == lock' = [b \in Bookings |-> IF lock[b] = r THEN None ELSE lock[b]]

\* validateTerms: the schedule is ordered and lies in the future.
ValidTerms(start, end) == start < end /\ clock < start

-----------------------------------------------------------------------------
(* create                                                                  *)

\* A customer's booking makes the pair when there is none (PairMatching has
\* the details); a photographer needs an active one.
CreateRead(r, party, start, end) ==
  /\ ValidTerms(start, end)
  /\ party = "photographer" => pair = "ACTIVE"
  /\ Begin(r, [Idle EXCEPT !.pc = "create", !.by = party, !.start = start, !.end = end,
                           !.newPair = (pair # "ACTIVE")])
  /\ UNCHANGED <<bookings, reviews, pair, lock, clock>>

\* Mutant of NewBooking: the writer of the first entry of the history is lost.
NewBookingByNobody(party, start, end) ==
  [status |-> "PENDING", creator |-> party, start |-> start, end |-> end,
   completedAt |-> None,
   history |-> <<[from |-> "NONE", to |-> "PENDING", by |-> "NONE"]>>]

NewBooking(party, start, end) ==
  [status |-> "PENDING", creator |-> party, start |-> start, end |-> end,
   completedAt |-> None,
   history |-> <<[from |-> "NONE", to |-> "PENDING", by |-> party]>>]

CreateCommit(r) ==
  /\ req[r].pc = "create"
  /\ \E b \in Bookings :
       /\ bookings[b].status = "NONE"
       /\ bookings' = [bookings EXCEPT ![b] = NewBooking(req[r].by, req[r].start, req[r].end)]
  /\ pair' = IF req[r].newPair THEN "ACTIVE" ELSE pair
  /\ Finish(r)
  /\ UNCHANGED <<reviews, lock, clock>>

-----------------------------------------------------------------------------
(* update: a partial patch, checked outside the transaction that writes it *)

\* dto.field ?? booking.field
Patched(new, old) == IF new = None THEN old ELSE new

UpdateRead(r, b, start, end) ==
  /\ bookings[b].status = "PENDING"
  /\ ValidTerms(Patched(start, bookings[b].start), Patched(end, bookings[b].end))
  /\ Begin(r, [Idle EXCEPT !.pc = "update", !.booking = b, !.by = bookings[b].creator,
                           !.start = start, !.end = end])
  /\ UNCHANGED <<bookings, reviews, pair, lock, clock>>

PatchedStart(r) == Patched(req[r].start, bookings[req[r].booking].start)
PatchedEnd(r) == Patched(req[r].end, bookings[req[r].booking].end)

\* Mutant of UpdateCommit: without bookings_schedule_check.
UpdateCommitUnchecked(r) ==
  LET b == req[r].booking IN
  /\ req[r].pc = "update"
  /\ bookings' = [bookings EXCEPT ![b].start = PatchedStart(r), ![b].end = PatchedEnd(r)]
  /\ Finish(r)
  /\ UNCHANGED <<reviews, pair, lock, clock>>

\* Updates the row by id, whatever its status is by now; the database checks
\* bookings_schedule_check and otherwise refuses (Abort).
UpdateCommit(r) ==
  LET b == req[r].booking IN
  /\ req[r].pc = "update"
  /\ PatchedStart(r) < PatchedEnd(r)
  /\ bookings' = [bookings EXCEPT ![b].start = PatchedStart(r), ![b].end = PatchedEnd(r)]
  /\ Finish(r)
  /\ UNCHANGED <<reviews, pair, lock, clock>>

-----------------------------------------------------------------------------
(* transition                                                              *)

\* assertBookingTransition; the reason some transitions require is left out.
Allowed(b, party, to) ==
  LET from == bookings[b].status
      isCreator == bookings[b].creator = party
      isPhotographer == party = "photographer" IN
  \/ from = "PENDING" /\ to \in {"ACCEPTED", "REJECTED"} /\ ~ isCreator
  \/ from = "PENDING" /\ to = "CANCELLED" /\ isCreator
  \/ from = "ACCEPTED" /\ to = "CANCELLED" /\ clock < bookings[b].start
  \/ from = "ACCEPTED" /\ to = "IN_PROGRESS" /\ isPhotographer
  \/ from = "IN_PROGRESS" /\ to = "COMPLETED" /\ isPhotographer
  \/ from \in {"ACCEPTED", "IN_PROGRESS", "COMPLETED"} /\ to = "DISPUTED"

\* Mutant of TransitionRead: without the advisory lock.
TransitionReadUnlocked(r, b, party, to) ==
  /\ bookings[b].status \notin {"NONE", to}
  /\ Allowed(b, party, to)
  /\ Begin(r, [Idle EXCEPT !.pc = "transition", !.booking = b, !.by = party,
                           !.from = bookings[b].status, !.to = to])
  /\ UNCHANGED <<bookings, reviews, pair, lock, clock>>

\* A transition to the current status, or one that is not allowed, ends here
\* and changes nothing.
TransitionRead(r, b, party, to) ==
  /\ lock[b] = None
  /\ bookings[b].status \notin {"NONE", to}
  /\ Allowed(b, party, to)
  /\ lock' = [lock EXCEPT ![b] = r]
  /\ Begin(r, [Idle EXCEPT !.pc = "transition", !.booking = b, !.by = party,
                           !.from = bookings[b].status, !.to = to])
  /\ UNCHANGED <<bookings, reviews, pair, clock>>

TransitionCommit(r) ==
  LET b == req[r].booking IN
  /\ req[r].pc = "transition"
  /\ bookings' = [bookings EXCEPT
       ![b].status = req[r].to,
       ![b].completedAt = IF req[r].to = "COMPLETED" THEN clock ELSE bookings[b].completedAt,
       ![b].history = Append(bookings[b].history,
                             [from |-> req[r].from, to |-> req[r].to, by |-> req[r].by])]
  /\ Unlock(r)
  /\ Finish(r)
  /\ UNCHANGED <<reviews, pair, clock>>

-----------------------------------------------------------------------------
(* review by the customer: no transaction and no lock                      *)

\* Mutant of ReviewRead: the work need only have begun.
ReviewReadEarly(r, b) ==
  /\ bookings[b].status \in {"IN_PROGRESS", "COMPLETED"}
  /\ reviews[b] = 0
  /\ Begin(r, [Idle EXCEPT !.pc = "review", !.booking = b, !.by = "customer"])
  /\ UNCHANGED <<bookings, reviews, pair, lock, clock>>

ReviewRead(r, b) ==
  /\ bookings[b].status = "COMPLETED"
  /\ reviews[b] = 0
  /\ Begin(r, [Idle EXCEPT !.pc = "review", !.booking = b, !.by = "customer"])
  /\ UNCHANGED <<bookings, reviews, pair, lock, clock>>

\* Mutant of ReviewCommit: without the unique index.
ReviewCommitAgain(r) ==
  LET b == req[r].booking IN
  /\ req[r].pc = "review"
  /\ reviews' = [reviews EXCEPT ![b] = reviews[b] + 1]
  /\ Finish(r)
  /\ UNCHANGED <<bookings, pair, lock, clock>>

\* reviews_booking_id_key refuses a second row (Abort).
ReviewCommit(r) ==
  LET b == req[r].booking IN
  /\ req[r].pc = "review"
  /\ reviews[b] = 0
  /\ reviews' = [reviews EXCEPT ![b] = reviews[b] + 1]
  /\ Finish(r)
  /\ UNCHANGED <<bookings, pair, lock, clock>>

-----------------------------------------------------------------------------
\* The match of the parties comes and goes by itself (PairMatching): an ACCEPT
\* makes it, unmatch and block end it.
MakePair ==
  /\ pair # "ACTIVE"
  /\ pair' = "ACTIVE"
  /\ UNCHANGED <<bookings, reviews, lock, req, clock>>

EndPair ==
  /\ pair = "ACTIVE"
  /\ pair' = "ENDED"
  /\ UNCHANGED <<bookings, reviews, lock, req, clock>>

\* A check refuses the request, its transaction times out or its process dies.
Abort(r) ==
  /\ req[r].pc # "idle"
  /\ Unlock(r)
  /\ Finish(r)
  /\ UNCHANGED <<bookings, reviews, pair, clock>>

Tick ==
  /\ clock < MaxTime
  /\ clock' = clock + 1
  /\ UNCHANGED <<bookings, reviews, pair, lock, req>>

Start(r) ==
  \/ \E party \in Parties, start, end \in Times : CreateRead(r, party, start, end)
  \/ \E b \in Bookings, start, end \in Times \cup {None} : UpdateRead(r, b, start, end)
  \/ \E b \in Bookings, party \in Parties, to \in Status : TransitionRead(r, b, party, to)
  \/ \E b \in Bookings : ReviewRead(r, b)

Proceed(r) ==
  CreateCommit(r) \/ UpdateCommit(r) \/ TransitionCommit(r) \/ ReviewCommit(r) \/ Abort(r)

Next ==
  \/ \E r \in Requests : Start(r) \/ Proceed(r)
  \/ MakePair \/ EndPair
  \/ Tick

Spec == Init /\ [][Next]_vars

-----------------------------------------------------------------------------
(* Properties                                                              *)

\* The history of a booking is a chain that starts at its creation and ends
\* at its status: "Every transition appends booking history in the same
\* transaction" (docs/policies/booking-transitions.md:16), also when both
\* parties move it at once.
HistoryIsChain ==
  \A b \in Bookings :
    LET h == bookings[b].history IN
    /\ h = <<>> <=> bookings[b].status = "NONE"
    /\ \A i \in DOMAIN h : h[i].from = IF i = 1 THEN "NONE" ELSE h[i - 1].to
    /\ h # <<>> => h[Len(h)].to = bookings[b].status

\* A booking ends after it starts, also when concurrent patches that were
\* valid one by one move its start and its end.
ScheduleOrdered ==
  \A b \in Bookings : bookings[b].status # "NONE" => bookings[b].start < bookings[b].end

\* A review belongs to a booking whose work was done: COMPLETED is in its
\* history, whatever the parties do between the check and the insert.
ReviewAfterCompletion ==
  \A b \in Bookings :
    reviews[b] > 0 => \E i \in DOMAIN bookings[b].history : bookings[b].history[i].to = "COMPLETED"

\* A booking follows the documented matrix, row by row and party by party, and
\* gets one review: interleaved requests show nothing else.
Lifecycle == INSTANCE BookingLifecycle WITH
  status <- [b \in Bookings |-> bookings[b].status],
  creator <- [b \in Bookings |-> bookings[b].creator],
  mover <- [b \in Bookings |-> IF bookings[b].history = <<>> THEN "NONE"
                               ELSE bookings[b].history[Len(bookings[b].history)].by],
  completed <- [b \in Bookings |-> bookings[b].completedAt # None]
FollowsLifecycle == Lifecycle!Spec

\* "Core schedule/service/price fields may be patched only by the creator while
\* PENDING" (docs/policies/booking-transitions.md:16): what the other party
\* accepted stays what it was.
TermsFrozenAfterPending ==
  [][\A b \in Bookings :
       bookings[b].status \notin {"NONE", "PENDING"} =>
         <<bookings'[b].start, bookings'[b].end>> = <<bookings[b].start, bookings[b].end>>]_vars
=============================================================================
