--------------------------- MODULE BookingsProofs ---------------------------
(***************************************************************************)
(* Machine-checked proofs about Bookings, for every set of bookings and    *)
(* requests and every horizon of time.                                     *)
(***************************************************************************)
EXTENDS Bookings, TLAPS

\* A move the state machine allows to a party of a booking with this creator.
Move(from, to, creator, by) ==
  \/ from = "PENDING" /\ to \in {"ACCEPTED", "REJECTED"} /\ by # creator
  \/ from = "PENDING" /\ to = "CANCELLED" /\ by = creator
  \/ from = "ACCEPTED" /\ to = "CANCELLED"
  \/ from = "ACCEPTED" /\ to = "IN_PROGRESS" /\ by = "photographer"
  \/ from = "IN_PROGRESS" /\ to = "COMPLETED" /\ by = "photographer"
  \/ from \in {"ACCEPTED", "IN_PROGRESS", "COMPLETED"} /\ to = "DISPUTED"

(***************************************************************************)
(* The inductive invariant: what a request in flight still knows about its *)
(* booking when it commits.  A transition knows the status because it      *)
(* holds the lock; an update and a review know only what never changes     *)
(* back (the booking exists, it was completed).                            *)
(***************************************************************************)
CreateKnows ==
  \A r \in Requests : req[r].pc = "create" =>
    /\ req[r].by \in Parties
    /\ req[r].start \in Times /\ req[r].end \in Times
    /\ req[r].start < req[r].end

UpdateKnows ==
  \A r \in Requests : req[r].pc = "update" =>
    req[r].booking \in Bookings /\ bookings[req[r].booking].status # "NONE"

TransitionKnows ==
  \A r \in Requests : req[r].pc = "transition" =>
    /\ req[r].booking \in Bookings
    /\ lock[req[r].booking] = r
    /\ req[r].from = bookings[req[r].booking].status
    /\ req[r].by \in Parties /\ req[r].to \in Status
    /\ Move(req[r].from, req[r].to, bookings[req[r].booking].creator, req[r].by)

ReviewKnows ==
  \A r \in Requests : req[r].pc = "review" =>
    req[r].booking \in Bookings /\ bookings[req[r].booking].completedAt # None

CompletedInHistory(b) ==
  \E i \in DOMAIN bookings[b].history : bookings[b].history[i].to = "COMPLETED"

CompletionRecorded ==
  \A b \in Bookings :
    /\ bookings[b].status = "COMPLETED" => bookings[b].completedAt # None
    /\ bookings[b].completedAt # None => CompletedInHistory(b)
    /\ reviews[b] > 0 => bookings[b].completedAt # None

IInv ==
  /\ TypeOK
  /\ CreateKnows /\ UpdateKnows /\ TransitionKnows /\ ReviewKnows
  /\ HistoryIsChain
  /\ ScheduleOrdered
  /\ CompletionRecorded

\* What one step of the lifecycle looks like from here.
LifecycleStep == Lifecycle!Next \/ UNCHANGED Lifecycle!vars

-----------------------------------------------------------------------------
\* The idle request is of its type.
LEMMA IdleType == Idle \in Request /\ Idle.pc = "idle"
  BY DEF Idle, Request

\* A step that leaves the rows alone is a stutter of the lifecycle.
LEMMA RowsUnchanged ==
  ASSUME UNCHANGED <<bookings, reviews>>
  PROVE  LifecycleStep
  BY DEF LifecycleStep, Lifecycle!vars

\* A request that starts, or gives up, keeps the invariant when what it knows
\* is true: no row changes and the locks of the others stay.
LEMMA RequestStep ==
  ASSUME IInv, NEW r \in Requests, NEW q \in Request,
         req' = [req EXCEPT ![r] = q],
         UNCHANGED <<bookings, reviews>>,
         pair' \in PairStatus, clock' \in Times,
         lock' \in [Bookings -> Requests \cup {None}],
         \A b \in Bookings, s \in Requests : s # r /\ lock[b] = s => lock'[b] = s,
         q.pc = "create" => /\ q.by \in Parties
                            /\ q.start \in Times /\ q.end \in Times /\ q.start < q.end,
         q.pc = "update" => q.booking \in Bookings /\ bookings[q.booking].status # "NONE",
         q.pc = "transition" => /\ q.booking \in Bookings
                                /\ lock'[q.booking] = r
                                /\ q.from = bookings[q.booking].status
                                /\ q.by \in Parties /\ q.to \in Status
                                /\ Move(q.from, q.to, bookings[q.booking].creator, q.by),
         q.pc = "review" => q.booking \in Bookings /\ bookings[q.booking].completedAt # None
  PROVE  IInv'
  <1>1. req' \in [Requests -> Request]
    BY DEF IInv, TypeOK
  <1>2. \A s \in Requests : req'[s] = IF s = r THEN q ELSE req[s]
    BY DEF IInv, TypeOK
  <1>3. TypeOK'
    BY <1>1 DEF IInv, TypeOK
  <1>4. CreateKnows'
    BY <1>2 DEF IInv, CreateKnows
  <1>5. UpdateKnows'
    BY <1>2 DEF IInv, UpdateKnows
  <1>6. TransitionKnows'
    BY <1>2 DEF IInv, TransitionKnows, Move
  <1>7. ReviewKnows'
    BY <1>2 DEF IInv, ReviewKnows
  <1>8. HistoryIsChain' /\ ScheduleOrdered' /\ CompletionRecorded'
    BY DEF IInv, HistoryIsChain, ScheduleOrdered, CompletionRecorded, CompletedInHistory
  <1>9. QED
    BY <1>3, <1>4, <1>5, <1>6, <1>7, <1>8 DEF IInv

\* Every request that reads keeps the invariant.
LEMMA StartStep ==
  ASSUME IInv, NEW r \in Requests, Start(r)
  PROVE  IInv' /\ LifecycleStep
  <1>0. lock \in [Bookings -> Requests \cup {None}] /\ pair \in PairStatus /\ clock \in Times
    BY DEF IInv, TypeOK
  <1>1. ASSUME NEW party \in Parties, NEW start \in Times, NEW end \in Times,
               CreateRead(r, party, start, end)
        PROVE  IInv' /\ LifecycleStep
    <2> DEFINE q == [Idle EXCEPT !.pc = "create", !.by = party, !.start = start, !.end = end,
                                 !.newPair = (pair # "ACTIVE")]
    <2>1. /\ q \in Request /\ q.pc = "create"
          /\ q.by = party /\ q.start = start /\ q.end = end
      BY DEF Idle, Request
    <2>2. req' = [req EXCEPT ![r] = q] /\ start < end
          /\ UNCHANGED <<bookings, reviews, pair, lock, clock>>
      BY <1>1 DEF CreateRead, Begin, ValidTerms
    <2> HIDE DEF q
    <2>3. QED
      BY <1>0, <2>1, <2>2, RequestStep, RowsUnchanged
  <1>2. ASSUME NEW b \in Bookings, NEW start \in Times \cup {None},
               NEW end \in Times \cup {None}, UpdateRead(r, b, start, end)
        PROVE  IInv' /\ LifecycleStep
    <2> DEFINE q == [Idle EXCEPT !.pc = "update", !.booking = b, !.by = bookings[b].creator,
                                 !.start = start, !.end = end]
    <2>1. q \in Request /\ q.pc = "update" /\ q.booking = b
      BY DEF Idle, Request, IInv, TypeOK, Booking
    <2>2. req' = [req EXCEPT ![r] = q] /\ bookings[b].status = "PENDING"
          /\ UNCHANGED <<bookings, reviews, pair, lock, clock>>
      BY <1>2 DEF UpdateRead, Begin
    <2> HIDE DEF q
    <2>3. QED
      BY <1>0, <2>1, <2>2, RequestStep, RowsUnchanged
  <1>3. ASSUME NEW b \in Bookings, NEW party \in Parties, NEW to \in Status,
               TransitionRead(r, b, party, to)
        PROVE  IInv' /\ LifecycleStep
    <2> DEFINE q == [Idle EXCEPT !.pc = "transition", !.booking = b, !.by = party,
                                 !.from = bookings[b].status, !.to = to]
    <2>1. /\ q \in Request /\ q.pc = "transition"
          /\ q.booking = b /\ q.by = party /\ q.from = bookings[b].status /\ q.to = to
      BY DEF Idle, Request, IInv, TypeOK, Booking
    <2>2. req' = [req EXCEPT ![r] = q] /\ lock' = [lock EXCEPT ![b] = r] /\ lock[b] = None
          /\ UNCHANGED <<bookings, reviews, pair, clock>>
      BY <1>3 DEF TransitionRead, Begin
    <2>3. Move(bookings[b].status, to, bookings[b].creator, party)
      BY <1>3 DEF TransitionRead, Allowed, Move
    <2>4. /\ lock' \in [Bookings -> Requests \cup {None}] /\ lock'[b] = r
          /\ \A c \in Bookings, s \in Requests : s # r /\ lock[c] = s => lock'[c] = s
      BY <1>0, <2>2, NoneAssumption
    <2> HIDE DEF q
    <2>5. QED
      BY <1>0, <2>1, <2>2, <2>3, <2>4, RequestStep, RowsUnchanged
  <1>4. ASSUME NEW b \in Bookings, ReviewRead(r, b)
        PROVE  IInv' /\ LifecycleStep
    <2> DEFINE q == [Idle EXCEPT !.pc = "review", !.booking = b, !.by = "customer"]
    <2>1. q \in Request /\ q.pc = "review" /\ q.booking = b
      BY DEF Idle, Request, Parties
    <2>2. req' = [req EXCEPT ![r] = q] /\ bookings[b].status = "COMPLETED"
          /\ UNCHANGED <<bookings, reviews, pair, lock, clock>>
      BY <1>4 DEF ReviewRead, Begin
    <2>3. bookings[b].completedAt # None
      BY <2>2 DEF IInv, CompletionRecorded
    <2> HIDE DEF q
    <2>4. QED
      BY <1>0, <2>1, <2>2, <2>3, RequestStep, RowsUnchanged
  <1>5. QED
    BY <1>1, <1>2, <1>3, <1>4 DEF Start

\* A request that gives up drops its lock and changes no row.
LEMMA AbortStep ==
  ASSUME IInv, NEW r \in Requests, Abort(r)
  PROVE  IInv' /\ LifecycleStep
  <1>1. /\ lock' \in [Bookings -> Requests \cup {None}]
        /\ \A b \in Bookings, s \in Requests : s # r /\ lock[b] = s => lock'[b] = s
    BY DEF Abort, Unlock, IInv, TypeOK
  <1>2. req' = [req EXCEPT ![r] = Idle] /\ UNCHANGED <<bookings, reviews, pair, clock>>
    BY DEF Abort, Finish
  <1>3. pair' \in PairStatus /\ clock' \in Times
    BY <1>2 DEF IInv, TypeOK
  <1>4. QED
    BY <1>1, <1>2, <1>3, IdleType, RequestStep, RowsUnchanged

-----------------------------------------------------------------------------
\* A committed create is the first row of the lifecycle.
LEMMA CreateStep ==
  ASSUME IInv, NEW r \in Requests, CreateCommit(r)
  PROVE  IInv' /\ LifecycleStep
  <1> DEFINE new == NewBooking(req[r].by, req[r].start, req[r].end)
  <1>1. PICK b \in Bookings : bookings[b].status = "NONE" /\ bookings' = [bookings EXCEPT ![b] = new]
    BY DEF CreateCommit
  <1>2. /\ req[r].by \in Parties /\ req[r].start \in Times /\ req[r].end \in Times
        /\ req[r].start < req[r].end
    BY DEF CreateCommit, IInv, CreateKnows
  <1>3. /\ new \in Booking /\ new.status = "PENDING" /\ new.creator = req[r].by
        /\ new.start < new.end /\ new.completedAt = None
        /\ new.history = <<[from |-> "NONE", to |-> "PENDING", by |-> req[r].by]>>
    <2>1. [from |-> "NONE", to |-> "PENDING", by |-> req[r].by] \in Entry
      BY <1>2 DEF Entry, Status
    <2>2. new.history \in Seq(Entry)
      BY <2>1 DEF NewBooking
    <2>3. QED
      BY <1>2, <2>2 DEF NewBooking, Booking, Status
  <1>4. /\ req' = [req EXCEPT ![r] = Idle] /\ UNCHANGED <<reviews, lock, clock>>
        /\ pair' \in PairStatus
    BY DEF CreateCommit, Finish, IInv, TypeOK, PairStatus
  <1> HIDE DEF new
  <1>5. \A c \in Bookings : bookings'[c] = IF c = b THEN new ELSE bookings[c]
    BY <1>1 DEF IInv, TypeOK
  <1>6. \A s \in Requests : req'[s] = IF s = r THEN Idle ELSE req[s]
    BY <1>4 DEF IInv, TypeOK
  <1>7. bookings[b].history = <<>> /\ bookings[b].completedAt = None
    BY <1>1 DEF IInv, HistoryIsChain, CompletionRecorded, CompletedInHistory
  <1>8. IInv'
    <2>1. TypeOK'
      BY <1>1, <1>3, <1>4, IdleType DEF IInv, TypeOK
    <2>2. CreateKnows' /\ UpdateKnows' /\ TransitionKnows' /\ ReviewKnows'
      <3>1. CreateKnows'
        BY <1>6, IdleType DEF IInv, CreateKnows
      <3>2. UpdateKnows'
        BY <1>3, <1>5, <1>6, IdleType DEF IInv, UpdateKnows
      <3>3. TransitionKnows'
        BY <1>1, <1>4, <1>5, <1>6, IdleType DEF IInv, TransitionKnows, Move
      <3>4. ReviewKnows'
        BY <1>5, <1>6, <1>7, IdleType DEF IInv, ReviewKnows
      <3>5. QED
        BY <3>1, <3>2, <3>3, <3>4
    <2>3. HistoryIsChain'
      <3>1. /\ new.history # <<>> /\ DOMAIN new.history = {1} /\ Len(new.history) = 1
            /\ new.history[1].from = "NONE" /\ new.history[1].to = new.status
        BY <1>3
      <3>2. new.status # "NONE"
        BY <1>3
      <3>3. QED
        BY <1>5, <3>1, <3>2 DEF IInv, HistoryIsChain
    <2>4. ScheduleOrdered'
      BY <1>3, <1>5 DEF IInv, ScheduleOrdered
    <2>5. CompletionRecorded'
      BY <1>3, <1>4, <1>5, <1>7 DEF IInv, CompletionRecorded, CompletedInHistory
    <2>6. QED
      BY <2>1, <2>2, <2>3, <2>4, <2>5 DEF IInv
  <1>9. PICK party \in Lifecycle!Parties : party = req[r].by
    BY <1>2 DEF Lifecycle!Parties, Parties
  <1>10. Lifecycle!Create(b, party)
    <2>1. new.history # <<>> /\ new.history[Len(new.history)].by = req[r].by
      BY <1>3
    <2>2. /\ \A c \in Bookings : c # b => bookings'[c] = bookings[c]
          /\ bookings'[b] = new
      BY <1>5
    <2>3. \A c \in Bookings : (bookings'[c].completedAt # None) = (bookings[c].completedAt # None)
      BY <1>3, <1>7, <2>2
    <2>4. /\ bookings'[b].status = "PENDING" /\ bookings'[b].creator = party
          /\ bookings'[b].history # <<>>
          /\ bookings'[b].history[Len(bookings'[b].history)].by = party
      BY <1>3, <1>9, <2>1, <2>2
    <2>5. [c \in Bookings |-> bookings[c].completedAt # None]' =
             [c \in Bookings |-> bookings[c].completedAt # None]
      BY <2>3
    <2> DEFINE last(h) == IF h = <<>> THEN "NONE" ELSE h[Len(h)].by
    <2>6. [c \in Bookings |-> bookings[c].status]' =
             [[c \in Bookings |-> bookings[c].status] EXCEPT ![b] = "PENDING"]
      BY <2>2, <2>4
    <2>7. [c \in Bookings |-> bookings[c].creator]' =
             [[c \in Bookings |-> bookings[c].creator] EXCEPT ![b] = party]
      BY <2>2, <2>4
    <2>8. [c \in Bookings |-> last(bookings[c].history)]' =
             [[c \in Bookings |-> last(bookings[c].history)] EXCEPT ![b] = party]
      BY <2>2, <2>4
    <2>9. QED
      BY <1>1, <1>4, <2>5, <2>6, <2>7, <2>8 DEF Lifecycle!Create
  <1>11. Lifecycle!Next
    BY <1>10 DEF Lifecycle!Next
  <1>12. QED
    BY <1>8, <1>11 DEF LifecycleStep

\* An update moves the schedule only, and the lifecycle does not see it.
LEMMA UpdateStep ==
  ASSUME IInv, NEW r \in Requests, UpdateCommit(r)
  PROVE  IInv' /\ LifecycleStep
  <1> DEFINE b == req[r].booking
             new == [bookings[b] EXCEPT !.start = PatchedStart(r), !.end = PatchedEnd(r)]
  <1>1. b \in Bookings /\ bookings[b].status # "NONE" /\ bookings[b] \in Booking
    BY DEF UpdateCommit, IInv, UpdateKnows, TypeOK
  <1>2. bookings' = [bookings EXCEPT ![b] = new]
    BY <1>1 DEF UpdateCommit, IInv, TypeOK
  <1>3. PatchedStart(r) \in Times /\ PatchedEnd(r) \in Times
    BY <1>1 DEF PatchedStart, PatchedEnd, Patched, IInv, TypeOK, Request, Booking
  <1>4. /\ new \in Booking /\ new.status = bookings[b].status
        /\ new.creator = bookings[b].creator /\ new.history = bookings[b].history
        /\ new.completedAt = bookings[b].completedAt /\ new.start < new.end
    BY <1>1, <1>3 DEF Booking, UpdateCommit
  <1>5. req' = [req EXCEPT ![r] = Idle] /\ UNCHANGED <<reviews, pair, lock, clock>>
    BY DEF UpdateCommit, Finish
  <1> HIDE DEF b, new
  <1>6. \A c \in Bookings : bookings'[c] = IF c = b THEN new ELSE bookings[c]
    BY <1>2 DEF IInv, TypeOK
  <1>7. \A s \in Requests : req'[s] = IF s = r THEN Idle ELSE req[s]
    BY <1>5 DEF IInv, TypeOK
  <1>8. \A c \in Bookings : /\ bookings'[c].status = bookings[c].status
                            /\ bookings'[c].creator = bookings[c].creator
                            /\ bookings'[c].history = bookings[c].history
                            /\ bookings'[c].completedAt = bookings[c].completedAt
    BY <1>1, <1>4, <1>6
  <1>9. IInv'
    <2>1. TypeOK'
      BY <1>1, <1>2, <1>4, <1>5, IdleType DEF IInv, TypeOK
    <2>2. CreateKnows' /\ UpdateKnows'
      BY <1>7, <1>8, IdleType DEF IInv, CreateKnows, UpdateKnows
    <2>3. TransitionKnows' /\ ReviewKnows'
      BY <1>5, <1>7, <1>8, IdleType DEF IInv, TransitionKnows, ReviewKnows, Move
    <2>4. HistoryIsChain'
      BY <1>8 DEF IInv, HistoryIsChain
    <2>5. ScheduleOrdered'
      BY <1>1, <1>4, <1>6 DEF IInv, ScheduleOrdered
    <2>6. CompletionRecorded'
      BY <1>5, <1>8 DEF IInv, CompletionRecorded, CompletedInHistory
    <2>7. QED
      BY <2>1, <2>2, <2>3, <2>4, <2>5, <2>6 DEF IInv
  <1>10. LifecycleStep
    BY <1>5, <1>8 DEF LifecycleStep, Lifecycle!vars
  <1>11. QED
    BY <1>9, <1>10

\* What Append does to a history.
LEMMA AppendFacts ==
  ASSUME NEW h \in Seq(Entry), NEW e \in Entry
  PROVE  /\ Append(h, e) \in Seq(Entry)
         /\ Len(Append(h, e)) = Len(h) + 1
         /\ Append(h, e) # <<>> /\ Append(h, e)[Len(Append(h, e))] = e
         /\ \A i \in DOMAIN h : Append(h, e)[i] = h[i]
         /\ DOMAIN Append(h, e) = 1..Len(h) + 1
         /\ DOMAIN h = 1..Len(h)
  <1>1. Len(h) \in Nat /\ DOMAIN h = 1..Len(h)
    OBVIOUS
  <1>2. Append(h, e) \in Seq(Entry) /\ Len(Append(h, e)) = Len(h) + 1
    OBVIOUS
  <1>3. DOMAIN Append(h, e) = 1..Len(h) + 1
    BY <1>2
  <1>4. Append(h, e)[Len(h) + 1] = e
    BY <1>1
  <1>5. \A i \in 1..Len(h) : Append(h, e)[i] = h[i]
    BY <1>1
  <1>6. Append(h, e) # <<>>
    BY <1>1, <1>2
  <1>7. QED
    BY <1>1, <1>2, <1>3, <1>4, <1>5, <1>6

\* A committed transition is a row of the matrix: under the lock the status it
\* read is still the status.
LEMMA TransitionStep ==
  ASSUME IInv, NEW r \in Requests, TransitionCommit(r)
  PROVE  IInv' /\ LifecycleStep
  <1> DEFINE b == req[r].booking
             entry == [from |-> req[r].from, to |-> req[r].to, by |-> req[r].by]
             completedAt == IF req[r].to = "COMPLETED" THEN clock ELSE bookings[b].completedAt
             new == [bookings[b] EXCEPT !.status = req[r].to, !.completedAt = completedAt,
                                        !.history = Append(bookings[b].history, entry)]
  <1>1. /\ b \in Bookings /\ bookings[b] \in Booking /\ lock[b] = r
        /\ req[r].from = bookings[b].status
        /\ req[r].by \in Parties /\ req[r].to \in Status
        /\ Move(bookings[b].status, req[r].to, bookings[b].creator, req[r].by)
    BY DEF TransitionCommit, IInv, TransitionKnows, TypeOK
  <1>2. bookings' = [bookings EXCEPT ![b] = new]
    BY <1>1 DEF TransitionCommit, IInv, TypeOK
  <1>3. completedAt \in Times \cup {None} /\ entry \in Entry
    BY <1>1 DEF IInv, TypeOK, Booking, Entry, Request
  <1>4. /\ new.status = req[r].to /\ new.creator = bookings[b].creator
        /\ new.start = bookings[b].start /\ new.end = bookings[b].end
        /\ new.completedAt = completedAt
        /\ new.history = Append(bookings[b].history, entry)
    BY <1>1 DEF Booking
  <1>5. bookings[b].history \in Seq(Entry) /\ new.history \in Seq(Entry)
    BY <1>1, <1>3, <1>4 DEF Booking
  <1>6. new \in Booking
    BY <1>1, <1>3, <1>5 DEF Booking
  <1>7. /\ Len(new.history) = Len(bookings[b].history) + 1
        /\ new.history # <<>> /\ new.history[Len(new.history)] = entry
        /\ \A i \in DOMAIN bookings[b].history : new.history[i] = bookings[b].history[i]
        /\ DOMAIN new.history = 1..Len(bookings[b].history) + 1
        /\ DOMAIN bookings[b].history = 1..Len(bookings[b].history)
    BY <1>3, <1>4, <1>5, AppendFacts
  <1>8. req' = [req EXCEPT ![r] = Idle] /\ UNCHANGED <<reviews, pair, clock>>
    BY DEF TransitionCommit, Finish
  <1>9. /\ lock' \in [Bookings -> Requests \cup {None}]
        /\ \A c \in Bookings, s \in Requests : s # r /\ lock[c] = s => lock'[c] = s
    BY DEF TransitionCommit, Unlock, IInv, TypeOK
  <1>10. /\ completedAt # None <=> bookings[b].completedAt # None \/ req[r].to = "COMPLETED"
         /\ entry.from = bookings[b].status /\ entry.to = req[r].to /\ entry.by = req[r].by
    BY <1>1, TimeAssumption DEF IInv, TypeOK, Times
  <1> HIDE DEF b, new, entry, completedAt
  <1>11. \A c \in Bookings : bookings'[c] = IF c = b THEN new ELSE bookings[c]
    BY <1>2 DEF IInv, TypeOK
  <1>12. \A s \in Requests : req'[s] = IF s = r THEN Idle ELSE req[s]
    BY <1>8 DEF IInv, TypeOK
  <1>13. bookings[b].status # "NONE" /\ new.status # "NONE"
    BY <1>1, <1>4 DEF Move, Status
  <1>14. IInv'
    <2>1. TypeOK'
      BY <1>2, <1>6, <1>8, <1>9, IdleType DEF IInv, TypeOK
    <2>2. CreateKnows'
      BY <1>12, IdleType DEF IInv, CreateKnows
    <2>3. UpdateKnows'
      BY <1>11, <1>12, <1>13, IdleType DEF IInv, UpdateKnows
    <2>4. TransitionKnows'
      <3> SUFFICES ASSUME NEW s \in Requests, req'[s].pc = "transition"
                   PROVE  /\ req'[s].booking \in Bookings
                          /\ lock'[req'[s].booking] = s
                          /\ req'[s].from = bookings'[req'[s].booking].status
                          /\ req'[s].by \in Parties /\ req'[s].to \in Status
                          /\ Move(req'[s].from, req'[s].to,
                                  bookings'[req'[s].booking].creator, req'[s].by)
        BY DEF TransitionKnows, Move
      <3>1. s # r /\ req'[s] = req[s]
        BY <1>12, IdleType
      <3>2. /\ req[s].booking \in Bookings /\ lock[req[s].booking] = s
            /\ req[s].from = bookings[req[s].booking].status
            /\ req[s].by \in Parties /\ req[s].to \in Status
            /\ Move(req[s].from, req[s].to, bookings[req[s].booking].creator, req[s].by)
        BY <3>1 DEF IInv, TransitionKnows
      <3>3. req[s].booking # b
        BY <1>1, <3>1, <3>2
      <3>4. QED
        BY <1>9, <1>11, <3>1, <3>2, <3>3
    <2>5. ReviewKnows'
      BY <1>4, <1>10, <1>11, <1>12, IdleType DEF IInv, ReviewKnows
    <2>6. HistoryIsChain'
      <3>1. \A i \in DOMAIN new.history :
              new.history[i].from = IF i = 1 THEN "NONE" ELSE new.history[i - 1].to
        <4>1. bookings[b].history # <<>>
          BY <1>1, <1>13 DEF IInv, HistoryIsChain
        <4>2. Len(bookings[b].history) \in Nat /\ Len(bookings[b].history) > 0
          BY <1>5, <4>1
        <4>3. bookings[b].history[Len(bookings[b].history)].to = bookings[b].status
          BY <1>1, <4>1 DEF IInv, HistoryIsChain
        <4>4. ASSUME NEW i \in DOMAIN bookings[b].history
              PROVE  new.history[i].from = IF i = 1 THEN "NONE" ELSE new.history[i - 1].to
          <5>1. bookings[b].history[i].from =
                  IF i = 1 THEN "NONE" ELSE bookings[b].history[i - 1].to
            BY <1>1 DEF IInv, HistoryIsChain
          <5>2. i = 1 \/ i - 1 \in DOMAIN bookings[b].history
            BY <1>7, <4>2
          <5>3. QED
            BY <1>7, <5>1, <5>2
        <4>5. ASSUME NEW i \in DOMAIN new.history, i = Len(new.history)
              PROVE  new.history[i].from = IF i = 1 THEN "NONE" ELSE new.history[i - 1].to
          <5>1. i # 1 /\ i - 1 = Len(bookings[b].history)
                /\ i - 1 \in DOMAIN bookings[b].history
            BY <1>7, <4>2, <4>5
          <5>2. new.history[i - 1].to = bookings[b].status
            BY <1>7, <4>3, <5>1
          <5>3. QED
            BY <1>7, <1>10, <4>5, <5>1, <5>2
        <4>6. \A i \in DOMAIN new.history :
                i \in DOMAIN bookings[b].history \/ i = Len(new.history)
          BY <1>7, <4>2
        <4>7. QED
          BY <4>4, <4>5, <4>6
      <3>2. new.history # <<>> /\ new.history[Len(new.history)].to = new.status
        BY <1>4, <1>7, <1>10
      <3>3. QED
        BY <1>1, <1>11, <1>13, <3>1, <3>2 DEF IInv, HistoryIsChain
    <2>7. ScheduleOrdered'
      BY <1>1, <1>4, <1>11, <1>13 DEF IInv, ScheduleOrdered
    <2>8. CompletionRecorded'
      <3>1. new.status = "COMPLETED" => new.completedAt # None
        BY <1>4, <1>10
      <3>2. new.completedAt # None => \E i \in DOMAIN new.history : new.history[i].to = "COMPLETED"
        <4>1. CASE req[r].to = "COMPLETED"
          <5>1. Len(new.history) \in DOMAIN new.history
            BY <1>5, <1>7
          <5>2. QED
            BY <1>7, <1>10, <4>1, <5>1
        <4>2. CASE req[r].to # "COMPLETED" /\ new.completedAt # None
          <5>1. PICK i \in DOMAIN bookings[b].history : bookings[b].history[i].to = "COMPLETED"
            BY <1>1, <1>4, <1>10, <4>2 DEF IInv, CompletionRecorded, CompletedInHistory
          <5>2. i \in DOMAIN new.history /\ new.history[i] = bookings[b].history[i]
            BY <1>5, <1>7
          <5>3. QED
            BY <5>1, <5>2
        <4>3. QED
          BY <4>1, <4>2
      <3>3. reviews'[b] > 0 => new.completedAt # None
        BY <1>1, <1>4, <1>8, <1>10 DEF IInv, CompletionRecorded
      <3>4. QED
        BY <1>8, <1>11, <3>1, <3>2, <3>3 DEF IInv, CompletionRecorded, CompletedInHistory
    <2>9. QED
      BY <2>1, <2>2, <2>3, <2>4, <2>5, <2>6, <2>7, <2>8 DEF IInv
  <1>15. PICK c \in Bookings, party \in Lifecycle!Parties : c = b /\ party = req[r].by
    BY <1>1 DEF Lifecycle!Parties, Parties
  <1>16. Lifecycle!Move(c, party)
    <2>1. PICK row \in Lifecycle!Matrix :
            /\ row[1] = bookings[b].status /\ row[2] = req[r].to
            /\ Lifecycle!Names(row[3], b, req[r].by)
      <3>1. CASE bookings[b].status = "PENDING" /\ req[r].to \in {"ACCEPTED", "REJECTED"}
                 /\ req[r].by # bookings[b].creator
        <4>1. <<"PENDING", req[r].to, "other">> \in Lifecycle!Matrix
          BY <3>1 DEF Lifecycle!Matrix
        <4>2. QED
          BY <1>1, <3>1, <4>1 DEF Lifecycle!Names
      <3>2. CASE bookings[b].status = "PENDING" /\ req[r].to = "CANCELLED"
                 /\ req[r].by = bookings[b].creator
        <4>1. <<"PENDING", "CANCELLED", "creator">> \in Lifecycle!Matrix
          BY DEF Lifecycle!Matrix
        <4>2. QED
          BY <1>1, <3>2, <4>1 DEF Lifecycle!Names
      <3>3. CASE bookings[b].status = "ACCEPTED" /\ req[r].to = "CANCELLED"
        <4>1. <<"ACCEPTED", "CANCELLED", "either">> \in Lifecycle!Matrix
          BY DEF Lifecycle!Matrix
        <4>2. QED
          BY <3>3, <4>1 DEF Lifecycle!Names
      <3>4. CASE req[r].by = "photographer"
                 /\ \/ bookings[b].status = "ACCEPTED" /\ req[r].to = "IN_PROGRESS"
                    \/ bookings[b].status = "IN_PROGRESS" /\ req[r].to = "COMPLETED"
        <4>1. <<bookings[b].status, req[r].to, "photographer">> \in Lifecycle!Matrix
          BY <3>4 DEF Lifecycle!Matrix
        <4>2. QED
          BY <3>4, <4>1 DEF Lifecycle!Names
      <3>5. CASE bookings[b].status \in {"ACCEPTED", "IN_PROGRESS", "COMPLETED"}
                 /\ req[r].to = "DISPUTED"
        <4>1. <<bookings[b].status, "DISPUTED", "either">> \in Lifecycle!Matrix
          BY <3>5 DEF Lifecycle!Matrix
        <4>2. QED
          BY <3>5, <4>1 DEF Lifecycle!Names
      <3>6. QED
        BY <1>1, <3>1, <3>2, <3>3, <3>4, <3>5 DEF Move
    <2>2. \A d \in Bookings : d # b => bookings'[d] = bookings[d]
      BY <1>11
    <2>3. /\ bookings'[b].status = row[2]
          /\ bookings'[b].creator = bookings[b].creator
          /\ (bookings'[b].completedAt # None) =
               (bookings[b].completedAt # None \/ row[2] = "COMPLETED")
          /\ bookings'[b].history # <<>>
          /\ bookings'[b].history[Len(bookings'[b].history)].by = req[r].by
      BY <1>1, <1>4, <1>7, <1>10, <1>11, <2>1
    <2>4. QED
      BY <1>1, <1>8, <1>15, <2>1, <2>2, <2>3 DEF Lifecycle!Move
  <1>17. Lifecycle!Next
    BY <1>16 DEF Lifecycle!Next
  <1>18. QED
    BY <1>14, <1>17 DEF LifecycleStep

\* A committed review is the first one, of a booking that was completed.
LEMMA ReviewStep ==
  ASSUME IInv, NEW r \in Requests, ReviewCommit(r)
  PROVE  IInv' /\ LifecycleStep
  <1>1. PICK b \in Bookings : b = req[r].booking
    BY DEF ReviewCommit, IInv, ReviewKnows
  <1>2. bookings[b].completedAt # None /\ reviews[b] = 0
    BY <1>1 DEF ReviewCommit, IInv, ReviewKnows
  <1>3. /\ reviews' = [reviews EXCEPT ![b] = 1] /\ req' = [req EXCEPT ![r] = Idle]
        /\ UNCHANGED <<bookings, pair, lock, clock>>
    BY <1>1, <1>2 DEF ReviewCommit, Finish
  <1>4. \A s \in Requests : req'[s] = IF s = r THEN Idle ELSE req[s]
    BY <1>3 DEF IInv, TypeOK
  <1>5. IInv'
    <2>1. TypeOK'
      BY <1>3, IdleType DEF IInv, TypeOK
    <2>2. CreateKnows' /\ UpdateKnows'
      BY <1>3, <1>4, IdleType DEF IInv, CreateKnows, UpdateKnows
    <2>3. TransitionKnows' /\ ReviewKnows'
      BY <1>3, <1>4, IdleType DEF IInv, TransitionKnows, ReviewKnows, Move
    <2>4. HistoryIsChain' /\ ScheduleOrdered'
      BY <1>3 DEF IInv, HistoryIsChain, ScheduleOrdered
    <2>5. CompletionRecorded'
      <3>1. \A c \in Bookings : c # b => reviews'[c] = reviews[c]
        BY <1>3 DEF IInv, TypeOK
      <3>2. QED
        BY <1>2, <1>3, <3>1 DEF IInv, CompletionRecorded, CompletedInHistory
    <2>6. QED
      BY <2>1, <2>2, <2>3, <2>4, <2>5 DEF IInv
  <1>6. Lifecycle!Review(b)
    BY <1>2, <1>3 DEF Lifecycle!Review
  <1>7. Lifecycle!Next
    BY <1>6 DEF Lifecycle!Next
  <1>8. QED
    BY <1>5, <1>7 DEF LifecycleStep

\* What changes neither rows, locks nor requests.
LEMMA ElsewhereStep ==
  ASSUME IInv, MakePair \/ EndPair \/ Tick \/ UNCHANGED vars
  PROVE  IInv' /\ LifecycleStep
  <1>1. UNCHANGED <<bookings, reviews, lock, req>>
    BY DEF MakePair, EndPair, Tick, vars
  <1>2. pair' \in PairStatus /\ clock' \in Times
    BY TimeAssumption DEF MakePair, EndPair, Tick, vars, IInv, TypeOK, PairStatus, Times
  <1>3. TypeOK'
    BY <1>1, <1>2 DEF IInv, TypeOK
  <1>4. CreateKnows' /\ UpdateKnows' /\ TransitionKnows' /\ ReviewKnows'
    BY <1>1 DEF IInv, CreateKnows, UpdateKnows, TransitionKnows, ReviewKnows, Move
  <1>5. HistoryIsChain' /\ ScheduleOrdered' /\ CompletionRecorded'
    BY <1>1 DEF IInv, HistoryIsChain, ScheduleOrdered, CompletionRecorded, CompletedInHistory
  <1>6. QED
    BY <1>1, <1>3, <1>4, <1>5, RowsUnchanged DEF IInv

-----------------------------------------------------------------------------
\* The empty database satisfies the invariant.
LEMMA InitEstablishesIInv == Init => IInv
  <1> SUFFICES ASSUME Init PROVE IInv
    OBVIOUS
  <1>1. NoBooking \in Booking
    <2>1. <<>> \in Seq(Entry)
      OBVIOUS
    <2>2. QED
      BY <2>1, TimeAssumption DEF NoBooking, Booking, Times
  <1>2. TypeOK
    BY <1>1, IdleType, TimeAssumption DEF Init, TypeOK, PairStatus, Times
  <1>3. CreateKnows /\ UpdateKnows /\ TransitionKnows /\ ReviewKnows
    BY IdleType DEF Init, CreateKnows, UpdateKnows, TransitionKnows, ReviewKnows
  <1>4. HistoryIsChain /\ ScheduleOrdered /\ CompletionRecorded
    BY DEF Init, NoBooking, HistoryIsChain, ScheduleOrdered, CompletionRecorded,
           CompletedInHistory
  <1>5. QED
    BY <1>2, <1>3, <1>4 DEF IInv

\* Every step keeps the invariant and is a step, or a stutter, of the lifecycle.
LEMMA NextStep == IInv /\ [Next]_vars => IInv' /\ LifecycleStep
  <1> SUFFICES ASSUME IInv, [Next]_vars PROVE IInv' /\ LifecycleStep
    OBVIOUS
  <1>1. ASSUME NEW r \in Requests, Start(r)
        PROVE  IInv' /\ LifecycleStep
    BY <1>1, StartStep
  <1>2. ASSUME NEW r \in Requests, Proceed(r)
        PROVE  IInv' /\ LifecycleStep
    BY <1>2, CreateStep, UpdateStep, TransitionStep, ReviewStep, AbortStep DEF Proceed
  <1>3. CASE MakePair \/ EndPair \/ Tick \/ UNCHANGED vars
    BY <1>3, ElsewhereStep
  <1>4. QED
    BY <1>1, <1>2, <1>3 DEF Next

\* The invariant holds in every reachable state.
LEMMA Invariance == Spec => []IInv
  BY InitEstablishesIInv, NextStep, PTL DEF Spec

\* Every row, request and lock keeps its type.
THEOREM TypeCorrect == Spec => []TypeOK
  <1>1. IInv => TypeOK
    BY DEF IInv
  <1>2. QED
    BY <1>1, Invariance, PTL

\* The history of every booking is a chain that ends at its status, whatever
\* the parties request at once: the lock of transition is enough.
THEOREM HistoryAlwaysChains == Spec => []HistoryIsChain
  <1>1. IInv => HistoryIsChain
    BY DEF IInv
  <1>2. QED
    BY <1>1, Invariance, PTL

\* The schedule stays ordered under any number of partial patches, by the
\* CHECK of the database alone.
THEOREM ScheduleAlwaysOrdered == Spec => []ScheduleOrdered
  <1>1. IInv => ScheduleOrdered
    BY DEF IInv
  <1>2. QED
    BY <1>1, Invariance, PTL

\* Every review is of a booking that was completed, although it is inserted
\* without a lock: completion cannot be undone.
THEOREM ReviewsFollowCompletion == Spec => []ReviewAfterCompletion
  <1>1. IInv => ReviewAfterCompletion
    BY DEF IInv, CompletionRecorded, CompletedInHistory, ReviewAfterCompletion
  <1>2. QED
    BY <1>1, Invariance, PTL

\* Interleaved requests implement the documented lifecycle: every step is a
\* row of the transition matrix by a party it names, a first review, or
\* invisible.
THEOREM ImplementsLifecycle == Spec => FollowsLifecycle
  <1>1. Init => Lifecycle!Init
    <2> SUFFICES ASSUME Init PROVE Lifecycle!Init
      OBVIOUS
    <2>1. \A b \in Bookings : /\ bookings[b].status = "NONE" /\ bookings[b].creator = "NONE"
                              /\ bookings[b].history = <<>>
                              /\ (bookings[b].completedAt # None) = FALSE
      BY DEF Init, NoBooking
    <2>2. [b \in Bookings |-> bookings[b].completedAt # None] = [b \in Bookings |-> FALSE]
      BY <2>1
    <2>3. QED
      BY <2>1, <2>2 DEF Init, Lifecycle!Init
  <1>2. IInv /\ [Next]_vars => [Lifecycle!Next]_(Lifecycle!vars)
    BY NextStep DEF LifecycleStep
  <1>3. QED
    BY <1>1, <1>2, Invariance, PTL DEF Spec, Lifecycle!Spec, FollowsLifecycle
=============================================================================
