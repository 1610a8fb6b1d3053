-------------------------- MODULE IdempotencyProofs --------------------------
(***************************************************************************)
(* Machine-checked proofs about Idempotency, for every number of calls and *)
(* bodies and every duration of the lock.                                  *)
(***************************************************************************)
EXTENDS Idempotency, TLAPS

(***************************************************************************)
(* The inductive invariant.  Every call that got past claim has the body   *)
(* of the record; a stored response is that of a handler that committed;   *)
(* and until something goes wrong the one call past claim is the holder of *)
(* a claim whose time is not over, or its response is stored.              *)
(***************************************************************************)
PayloadsKnown ==
  \A c \in Calls : call[c].pc \notin {"new", "conflict"} =>
    Exists /\ call[c].payload = record.payload

CommitsKnown ==
  /\ \A c \in Calls : call[c].pc = "respond" => call[c].committed
  /\ \A c \in Calls : call[c].committed => call[c].pc \notin {"new", "conflict"}

ResponseStored ==
  /\ record.status = "COMPLETED" => record.response # None
  /\ record.response # None => call[record.response].committed

AnswersStored ==
  \A c \in Calls : call[c].pc = "answered" =>
    call[c].answer # None /\ call[call[c].answer].committed

Past(c) == call[c].pc \in {"handle", "respond"}

Calm ==
  /\ record.status # "FAILED"
  /\ record.status = "PROCESSING" => record.lockedUntil \in Nat /\ clock < record.lockedUntil
  /\ \A c \in Calls : call[c].pc \notin {"reclaim", "refused", "failed", "crashed"}
  /\ \A c \in Calls : Past(c) => record.status = "PROCESSING"
  /\ \A c, d \in Calls : Past(c) /\ Past(d) => c = d
  /\ \A c \in Calls : call[c].committed /\ ~ Past(c) =>
       record.status = "COMPLETED" /\ record.response = c
  /\ \A c \in Calls : call[c].pc = "answered" =>
       record.status = "COMPLETED" /\ call[c].answer = record.response

IInv ==
  /\ TypeOK
  /\ PayloadsKnown /\ CommitsKnown /\ ResponseStored /\ AnswersStored
  /\ trouble = {} => Calm

-----------------------------------------------------------------------------
\* Nothing is known of the key before its first call.
LEMMA InitEstablishesIInv == Init => IInv
  <1> SUFFICES ASSUME Init PROVE IInv
    OBVIOUS
  <1>1. NewCall \in Call /\ NewCall.pc = "new" /\ ~ NewCall.committed
    BY DEF NewCall, Call
  <1>2. NoRecord \in Record /\ NoRecord.status = "NONE" /\ NoRecord.response = None
    BY DEF NoRecord, Record
  <1>3. \A c \in Calls : call[c] = NewCall
    BY DEF Init
  <1>4. TypeOK
    BY <1>1, <1>2 DEF Init, TypeOK
  <1>5. PayloadsKnown /\ CommitsKnown /\ ResponseStored /\ AnswersStored /\ Calm
    BY <1>1, <1>2, <1>3
       DEF Init, PayloadsKnown, CommitsKnown, ResponseStored, AnswersStored, Calm, Past
  <1>6. QED
    BY <1>4, <1>5 DEF IInv

\* What a call does to the others: nothing.
LEMMA OneCall ==
  ASSUME TypeOK, NEW c \in Calls, NEW x \in Call, call' = [call EXCEPT ![c] = x]
  PROVE  /\ call' \in [Calls -> Call]
         /\ \A d \in Calls : call'[d] = IF d = c THEN x ELSE call[d]
  BY DEF TypeOK

\* The first call claims the key.
LEMMA ClaimStep ==
  ASSUME IInv, NEW c \in Calls, NEW p \in Payloads, Claim(c, p)
  PROVE  IInv'
  <1> USE NoneAssumption, TimeAssumption
  <1> DEFINE x == [call[c] EXCEPT !.pc = "handle", !.payload = p]
  <1>1. x \in Call /\ x.pc = "handle" /\ x.payload = p /\ x.committed = call[c].committed
    BY DEF IInv, TypeOK, Call
  <1>2. call' = [call EXCEPT ![c] = x] /\ call[c].pc = "new" /\ ~ Exists
        /\ UNCHANGED <<clock, trouble>>
    BY DEF Claim, Enter, IInv, TypeOK
  <1> HIDE DEF x
  <1>3. /\ record' \in Record /\ record'.status = "PROCESSING" /\ record'.payload = p
        /\ record'.lockedUntil \in Nat /\ clock < record'.lockedUntil
        /\ record'.response = None
    BY DEF Claim, Record, IInv, TypeOK
  <1>4. call' \in [Calls -> Call] /\ \A d \in Calls : call'[d] = IF d = c THEN x ELSE call[d]
    BY <1>1, <1>2, OneCall DEF IInv
  <1>5. TypeOK'
    BY <1>2, <1>3, <1>4 DEF IInv, TypeOK
  <1>6. PayloadsKnown' /\ CommitsKnown' /\ ResponseStored' /\ AnswersStored'
    BY <1>1, <1>2, <1>3, <1>4
       DEF IInv, PayloadsKnown, CommitsKnown, ResponseStored, AnswersStored, Exists
  <1>7. ASSUME trouble' = {} PROVE Calm'
    BY <1>1, <1>2, <1>3, <1>4, <1>7 DEF IInv, PayloadsKnown, CommitsKnown, Calm, Past, Exists
  <1>8. QED
    BY <1>5, <1>6, <1>7 DEF IInv

\* A later call reads the record, and waits, is refused or is answered.
LEMMA FindStep ==
  ASSUME IInv, NEW c \in Calls, NEW p \in Payloads,
         Conflict(c, p) \/ Replay(c, p) \/ FindReclaimable(c, p)
  PROVE  IInv'
  <1> USE NoneAssumption
  <1>1. UNCHANGED <<record, clock, trouble>> /\ call[c].pc = "new" /\ Exists
    BY DEF Conflict, Replay, FindReclaimable, Enter, SamePayload
  <1>2. PICK x \in Call :
          /\ call' = [call EXCEPT ![c] = x]
          /\ x.payload = p /\ x.committed = call[c].committed
          /\ \/ x.pc = "conflict"
             \/ /\ x.pc = "answered" /\ x.answer = record.response
                /\ record.payload = p /\ record.status = "COMPLETED"
             \/ /\ x.pc = "reclaim" /\ record.payload = p
                /\ record.status # "COMPLETED" /\ ~ InProgress
    <2>1. call \in [Calls -> Call] /\ call[c] \in Call /\ record \in Record
      BY DEF IInv, TypeOK
    <2>2. CASE Conflict(c, p)
      <3> DEFINE x == [call[c] EXCEPT !.pc = "conflict", !.payload = p]
      <3>1. call' = [call EXCEPT ![c] = x]
        BY <2>1, <2>2 DEF Conflict, Enter
      <3>2. x \in Call /\ x.pc = "conflict" /\ x.payload = p /\ x.committed = call[c].committed
        BY <2>1 DEF Call
      <3>3. QED
        BY <3>1, <3>2
    <2>3. CASE Replay(c, p)
      <3> DEFINE x == [call[c] EXCEPT !.pc = "answered", !.payload = p, !.answer = record.response]
      <3>1. call' = [call EXCEPT ![c] = x]
            /\ record.payload = p /\ record.status = "COMPLETED"
        BY <2>1, <2>3 DEF Replay, SamePayload
      <3>2. x \in Call /\ x.pc = "answered" /\ x.payload = p
            /\ x.committed = call[c].committed /\ x.answer = record.response
        BY <2>1 DEF Call, Record
      <3>3. QED
        BY <3>1, <3>2
    <2>4. CASE FindReclaimable(c, p)
      <3> DEFINE x == [call[c] EXCEPT !.pc = "reclaim", !.payload = p]
      <3>1. call' = [call EXCEPT ![c] = x] /\ record.payload = p
            /\ record.status # "COMPLETED" /\ ~ InProgress
        BY <2>1, <2>4 DEF FindReclaimable, SamePayload, Enter
      <3>2. x \in Call /\ x.pc = "reclaim" /\ x.payload = p /\ x.committed = call[c].committed
        BY <2>1 DEF Call
      <3>3. QED
        BY <3>1, <3>2
    <2>5. QED
      BY <2>2, <2>3, <2>4
  <1>3. call' \in [Calls -> Call] /\ \A d \in Calls : call'[d] = IF d = c THEN x ELSE call[d]
    BY <1>2, OneCall DEF IInv
  <1>4. TypeOK'
    BY <1>1, <1>3 DEF IInv, TypeOK
  <1>5. record.response \in Calls \cup {None} /\ \A d \in Calls : call[d].answer \in Calls \cup {None}
    BY DEF IInv, TypeOK, Record, Call
  <1>6. \A d \in Calls : call'[d].committed = call[d].committed
    BY <1>2, <1>3
  <1>7. PayloadsKnown' /\ CommitsKnown' /\ ResponseStored'
    BY <1>1, <1>2, <1>3, <1>5, <1>6
       DEF IInv, PayloadsKnown, CommitsKnown, ResponseStored, Exists
  <1>8. AnswersStored'
    BY <1>1, <1>2, <1>3, <1>5, <1>6 DEF IInv, ResponseStored, AnswersStored
  <1>9. ASSUME trouble' = {} PROVE Calm'
    <2>1. Calm
      BY <1>1, <1>9 DEF IInv
    <2>2. x.pc # "reclaim"
      BY <1>1, <1>2, <2>1 DEF Calm, InProgress, Exists, IInv, TypeOK, Record
    <2>3. QED
      BY <1>1, <1>2, <1>3, <1>6, <2>1, <2>2 DEF Calm, Past, IInv, CommitsKnown
  <1>10. QED
    BY <1>4, <1>7, <1>8, <1>9 DEF IInv

\* A call past claim moves on without changing the record.
LEMMA CallStep ==
  ASSUME IInv, NEW c \in Calls,
         \/ HandlerCommits(c) \/ HandlerThrows(c) \/ CompleteFails(c) \/ Crash(c)
  PROVE  IInv'
  <1> USE NoneAssumption
  <1>1. call[c] \in Call /\ call \in [Calls -> Call]
    BY DEF IInv, TypeOK
  <1>2. UNCHANGED <<record, clock>> /\ call[c].pc \in {"reclaim", "handle", "respond", "refused"}
        /\ trouble' \subseteq {"threw", "crashed", "unrecorded", "overran"}
    BY DEF HandlerCommits, HandlerThrows, CompleteFails, Crash, IInv, TypeOK
  <1>3. PICK x \in Call :
          /\ call' = [call EXCEPT ![c] = x]
          /\ x.payload = call[c].payload /\ x.answer = call[c].answer
          /\ \/ /\ call[c].pc = "handle" /\ x.pc = "respond" /\ x.committed /\ UNCHANGED trouble
             \/ /\ x.pc \in {"refused", "crashed"} /\ x.committed = call[c].committed
                /\ trouble' # {}
    <2>1. CASE HandlerCommits(c)
      <3> DEFINE x == [call[c] EXCEPT !.pc = "respond", !.committed = TRUE]
      <3>1. x \in Call /\ x.pc = "respond" /\ x.committed
            /\ x.payload = call[c].payload /\ x.answer = call[c].answer
        BY <1>1 DEF Call
      <3>2. call' = [call EXCEPT ![c] = x] /\ call[c].pc = "handle" /\ UNCHANGED trouble
        BY <1>1, <2>1 DEF HandlerCommits
      <3>3. QED
        BY <3>1, <3>2
    <2>2. CASE HandlerThrows(c) \/ CompleteFails(c)
      <3> DEFINE x == [call[c] EXCEPT !.pc = "refused"]
      <3>1. x \in Call /\ x.pc = "refused" /\ x.committed = call[c].committed
            /\ x.payload = call[c].payload /\ x.answer = call[c].answer
        BY <1>1 DEF Call
      <3>2. call' = [call EXCEPT ![c] = x] /\ trouble' # {}
        BY <1>1, <2>2 DEF HandlerThrows, CompleteFails, GoTo
      <3>3. QED
        BY <3>1, <3>2
    <2>3. CASE Crash(c)
      <3> DEFINE x == [call[c] EXCEPT !.pc = "crashed"]
      <3>1. x \in Call /\ x.pc = "crashed" /\ x.committed = call[c].committed
            /\ x.payload = call[c].payload /\ x.answer = call[c].answer
        BY <1>1 DEF Call
      <3>2. call' = [call EXCEPT ![c] = x] /\ trouble' # {}
        BY <1>1, <2>3 DEF Crash, GoTo
      <3>3. QED
        BY <3>1, <3>2
    <2>4. QED
      BY <2>1, <2>2, <2>3
  <1>4. call' \in [Calls -> Call] /\ \A d \in Calls : call'[d] = IF d = c THEN x ELSE call[d]
    BY <1>3, OneCall DEF IInv
  <1>5. TypeOK'
    BY <1>2, <1>4 DEF IInv, TypeOK
  <1>6. record.response \in Calls \cup {None} /\ \A d \in Calls : call[d].answer \in Calls \cup {None}
    BY <1>1 DEF IInv, TypeOK, Record, Call
  <1>7. \A d \in Calls : call[d].committed => call'[d].committed
    BY <1>3, <1>4
  <1>8. PayloadsKnown' /\ CommitsKnown' /\ ResponseStored'
    BY <1>2, <1>3, <1>4, <1>6, <1>7
       DEF IInv, PayloadsKnown, CommitsKnown, ResponseStored, Exists
  <1>9. AnswersStored'
    BY <1>3, <1>4, <1>6, <1>7 DEF IInv, AnswersStored
  <1>10. ASSUME trouble' = {} PROVE Calm'
    <2>1. Calm /\ call[c].pc = "handle" /\ x.pc = "respond"
      BY <1>3, <1>10 DEF IInv
    <2>2. QED
      BY <1>2, <1>3, <1>4, <2>1 DEF Calm, Past
  <1>11. QED
    BY <1>5, <1>8, <1>9, <1>10 DEF IInv

\* A call past claim writes the record.
LEMMA WriteStep ==
  ASSUME IInv, NEW c \in Calls, Reclaim(c) \/ Complete(c) \/ MarkFailed(c)
  PROVE  IInv'
  <1> USE NoneAssumption, TimeAssumption
  <1>1. /\ call[c] \in Call /\ call \in [Calls -> Call] /\ record \in Record
        /\ UNCHANGED <<clock, trouble>> /\ clock \in Nat
    BY DEF IInv, TypeOK, Reclaim, Complete, MarkFailed
  <1>2. Exists /\ call[c].payload = record.payload
    BY DEF Reclaim, Complete, MarkFailed, IInv, PayloadsKnown
  <1>3. PICK x \in Call :
          /\ call' = [call EXCEPT ![c] = x]
          /\ x.payload = call[c].payload /\ x.committed = call[c].committed
          /\ \/ /\ call[c].pc = "respond" /\ x.pc = "answered" /\ x.answer = c
                /\ record' = [record EXCEPT !.status = "COMPLETED", !.response = c,
                                            !.lockedUntil = None]
             \/ /\ call[c].pc = "reclaim" /\ x.pc = "handle" /\ x.answer = call[c].answer
                /\ record' = [record EXCEPT !.status = "PROCESSING",
                                            !.lockedUntil = clock + LockTime]
             \/ /\ call[c].pc = "refused" /\ x.pc = "failed" /\ x.answer = call[c].answer
                /\ record' = [record EXCEPT !.status = "FAILED", !.lockedUntil = None]
    <2>1. CASE Complete(c)
      <3> DEFINE x == [call[c] EXCEPT !.pc = "answered", !.answer = c]
      <3>1. x \in Call /\ x.pc = "answered" /\ x.answer = c
            /\ x.payload = call[c].payload /\ x.committed = call[c].committed
        BY <1>1 DEF Call
      <3>2. call' = [call EXCEPT ![c] = x]
        BY <1>1, <2>1 DEF Complete
      <3>3. QED
        BY <2>1, <3>1, <3>2 DEF Complete
    <2>2. CASE Reclaim(c)
      <3> DEFINE x == [call[c] EXCEPT !.pc = "handle"]
      <3>1. x \in Call /\ x.pc = "handle" /\ x.answer = call[c].answer
            /\ x.payload = call[c].payload /\ x.committed = call[c].committed
        BY <1>1 DEF Call
      <3>2. call' = [call EXCEPT ![c] = x]
        BY <1>1, <2>2 DEF Reclaim, GoTo
      <3>3. QED
        BY <2>2, <3>1, <3>2 DEF Reclaim
    <2>3. CASE MarkFailed(c)
      <3> DEFINE x == [call[c] EXCEPT !.pc = "failed"]
      <3>1. x \in Call /\ x.pc = "failed" /\ x.answer = call[c].answer
            /\ x.payload = call[c].payload /\ x.committed = call[c].committed
        BY <1>1 DEF Call
      <3>2. call' = [call EXCEPT ![c] = x]
        BY <1>1, <2>3 DEF MarkFailed, GoTo
      <3>3. QED
        BY <2>3, <3>1, <3>2 DEF MarkFailed
    <2>4. QED
      BY <2>1, <2>2, <2>3
  <1>4. call' \in [Calls -> Call] /\ \A d \in Calls : call'[d] = IF d = c THEN x ELSE call[d]
    BY <1>3, OneCall DEF IInv
  <1>5. /\ record' \in Record /\ record'.status # "NONE" /\ record'.payload = record.payload
        /\ record'.response = IF x.pc = "answered" THEN c ELSE record.response
        /\ x.pc = "answered" <=> record'.status = "COMPLETED"
    <2>1. clock + LockTime \in Nat
      BY <1>1
    <2>2. CASE x.pc = "answered"
      BY <1>1, <1>3, <2>2 DEF Record
    <2>3. CASE x.pc = "handle"
      BY <1>1, <1>3, <2>1, <2>3 DEF Record
    <2>4. CASE x.pc = "failed"
      BY <1>1, <1>3, <2>4 DEF Record
    <2>5. QED
      BY <1>3, <2>2, <2>3, <2>4
  <1>6. TypeOK'
    BY <1>1, <1>4, <1>5 DEF IInv, TypeOK
  <1>7. record.response \in Calls \cup {None} /\ \A d \in Calls : call[d].answer \in Calls \cup {None}
    BY <1>1 DEF IInv, TypeOK, Record, Call
  <1>8. \A d \in Calls : call'[d].committed = call[d].committed
    BY <1>3, <1>4
  <1>9. x.pc = "answered" => call[c].committed /\ x.answer = c
    BY <1>3 DEF IInv, CommitsKnown
  <1>10. PayloadsKnown' /\ CommitsKnown'
    BY <1>2, <1>3, <1>4, <1>5, <1>8 DEF IInv, PayloadsKnown, CommitsKnown, Exists
  <1>11. ResponseStored'
    BY <1>5, <1>7, <1>8, <1>9 DEF IInv, ResponseStored
  <1>12. AnswersStored'
    BY <1>3, <1>4, <1>7, <1>8, <1>9 DEF IInv, AnswersStored
  <1>13. ASSUME trouble' = {} PROVE Calm'
    <2>1. Calm
      BY <1>1, <1>13 DEF IInv
    <2>2. call[c].pc = "respond" /\ x.pc = "answered"
      BY <1>3, <2>1 DEF Calm
    <2>3. record'.status = "COMPLETED" /\ record'.response = c /\ x.answer = c
          /\ record.status = "PROCESSING"
      BY <1>5, <1>9, <2>1, <2>2 DEF Calm, Past
    <2>4. QED
      BY <1>1, <1>4, <1>8, <2>1, <2>2, <2>3 DEF Calm, Past
  <1>14. QED
    BY <1>6, <1>10, <1>11, <1>12, <1>13 DEF IInv

\* Time that runs out on a claim is trouble.
LEMMA TickStep ==
  ASSUME IInv, Tick
  PROVE  IInv'
  <1>1. UNCHANGED <<record, call>> /\ clock' = clock + 1 /\ clock \in Nat
    BY DEF Tick, IInv, TypeOK
  <1>2. TypeOK'
    BY <1>1 DEF Tick, IInv, TypeOK
  <1>3. PayloadsKnown' /\ CommitsKnown' /\ ResponseStored' /\ AnswersStored'
    BY <1>1 DEF IInv, PayloadsKnown, CommitsKnown, ResponseStored, AnswersStored, Exists
  <1>4. ASSUME trouble' = {} PROVE Calm'
    <2>1. trouble = {} /\ (record.status = "PROCESSING" => ~ (record.lockedUntil <= clock + 1))
      BY <1>4 DEF Tick
    <2>2. QED
      BY <1>1, <2>1 DEF IInv, Calm, Past
  <1>5. QED
    BY <1>2, <1>3, <1>4 DEF IInv

\* The inductive invariant holds throughout.
LEMMA Invariance == Spec => []IInv
  <1>1. IInv /\ [Next]_vars => IInv'
    <2> SUFFICES ASSUME IInv, [Next]_vars PROVE IInv'
      OBVIOUS
    <2>1. CASE \E c \in Calls, p \in Payloads :
                 Claim(c, p) \/ Conflict(c, p) \/ Replay(c, p) \/ FindReclaimable(c, p)
      BY <2>1, ClaimStep, FindStep
    <2>2. CASE \E c \in Calls :
                 \/ Reclaim(c) \/ HandlerCommits(c) \/ HandlerThrows(c)
                 \/ Complete(c) \/ CompleteFails(c) \/ MarkFailed(c) \/ Crash(c)
      BY <2>2, CallStep, WriteStep
    <2>3. CASE Tick
      BY <2>3, TickStep
    <2>4. CASE UNCHANGED vars
      BY <2>4 DEF vars, IInv, TypeOK, PayloadsKnown, CommitsKnown, ResponseStored,
                  AnswersStored, Calm, Past, Exists
    <2>5. QED
      BY <2>1, <2>2, <2>3, <2>4 DEF Next
  <1>2. QED
    BY <1>1, InitEstablishesIInv, PTL DEF Spec

\* Every variable has its type.
THEOREM TypeCorrect == Spec => []TypeOK
  <1>1. IInv => TypeOK
    BY DEF IInv
  <1>2. QED
    BY <1>1, Invariance, PTL

\* Every answer of idempotency.interceptor.ts, first or replayed, is that of a
\* handler that committed for the same body.
THEOREM AnswersAlwaysCommitted == Spec => []AnswersAreCommitted
  <1>1. IInv => AnswersAreCommitted
    <2> SUFFICES ASSUME IInv, NEW c \in Calls, call[c].pc = "answered"
                 PROVE  \E d \in Calls : /\ call[c].answer = d /\ call[d].committed
                                         /\ call[d].payload = call[c].payload
      BY DEF AnswersAreCommitted
    <2>1. call[c].answer \in Calls /\ call[call[c].answer].committed
      BY DEF IInv, AnswersStored, TypeOK, Call
    <2>2. call[call[c].answer].payload = call[c].payload
      BY <2>1 DEF IInv, CommitsKnown, PayloadsKnown
    <2>3. QED
      BY <2>1, <2>2
  <1>2. QED
    BY <1>1, Invariance, PTL

\* A command sent any number of times is executed once, and answered alike,
\* until an attempt throws, dies, outlasts its claim or cannot store its answer.
THEOREM ExecutedOnce == Spec => []ExecutedOnceUntilTrouble
  <1>1. IInv => ExecutedOnceUntilTrouble
    <2> SUFFICES ASSUME IInv, trouble = {}, NEW c \in Calls, NEW d \in Calls
                 PROVE  /\ call[c].committed /\ call[d].committed => c = d
                        /\ call[c].pc = "answered" /\ call[d].pc = "answered" =>
                             call[c].answer = call[d].answer
      BY DEF ExecutedOnceUntilTrouble
    <2>1. Calm
      BY DEF IInv
    <2>2. QED
      BY <2>1 DEF Calm
  <1>2. QED
    BY <1>1, Invariance, PTL
=============================================================================
