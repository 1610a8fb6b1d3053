---------------------------- MODULE OutboxProofs ----------------------------
(***************************************************************************)
(* Machine-checked proofs about the delivery of outbox events, for every   *)
(* number of events, devices, relays, workers, attempts, stalls and        *)
(* crashes, in every environment.                                          *)
(***************************************************************************)
EXTENDS Outbox, TLAPS

-----------------------------------------------------------------------------
(* What the steps of a worker do to it                                     *)

\* No other worker moves.
OthersStay(w) == \A v \in Workers \ {w} : worker'[v] = worker[v]

\* The worker goes on with the job it has.
GoesOn(w, pc) ==
  /\ worker' \in [Workers -> Worker] /\ OthersStay(w)
  /\ worker'[w].pc = pc
  /\ worker'[w].event = worker[w].event
  /\ worker'[w].attemptsMade = worker[w].attemptsMade

\* The worker has no job any more.
LetsGo(w) == worker' \in [Workers -> Worker] /\ OthersStay(w) /\ worker'[w] = IdleWorker

\* An idle worker has nothing, and neither has an event without a job.
LEMMA Defaults ==
  /\ IdleWorker \in Worker /\ IdleWorker.pc = "idle" /\ IdleWorker.event = None /\ IdleWorker.todo = {}
  /\ IdleWorker.device = None /\ IdleWorker.attemptsMade = 0
  /\ NoJob \in Job /\ NoJob.state = "none" /\ NoJob.owner = None /\ NoJob.attemptsMade = 0
  /\ Attempts \in Nat \ {0} /\ 0 \in 0..Attempts
  /\ None \notin Events /\ None \notin Devices /\ None \notin Workers
  BY BoundAssumption, NoneAssumption DEF IdleWorker, Worker, Phase, NoJob, Job, JobState

\* A worker that becomes something keeps all else.
LEMMA BecomeFacts ==
  ASSUME TypeOK, NEW w \in Workers, NEW pc \in Phase, Become(w, pc)
  PROVE  GoesOn(w, pc) /\ worker'[w].todo = worker[w].todo /\ worker'[w].device = worker[w].device
  <1> DEFINE x == [worker[w] EXCEPT !.pc = pc]
  <1>1. worker \in [Workers -> Worker] /\ worker[w] \in Worker /\ worker' = [worker EXCEPT ![w] = x]
    BY DEF TypeOK, Become
  <1>2. /\ x \in Worker /\ x.pc = pc /\ x.event = worker[w].event
        /\ x.attemptsMade = worker[w].attemptsMade /\ x.todo = worker[w].todo /\ x.device = worker[w].device
    BY <1>1 DEF Worker
  <1> HIDE DEF x
  <1>3. QED
    BY <1>1, <1>2 DEF GoesOn, OthersStay

\* A worker that is done with some devices, or has found them, looks at the
\* next one.
LEMMA PushFacts ==
  ASSUME TypeOK, NEW w \in Workers, NEW todo \in SUBSET Devices,
         worker' = [worker EXCEPT ![w].pc = "push", ![w].todo = todo]
  PROVE  GoesOn(w, "push") /\ worker'[w].todo = todo
  <1> DEFINE x == [worker[w] EXCEPT !.pc = "push", !.todo = todo]
  <1>1. worker \in [Workers -> Worker] /\ worker[w] \in Worker /\ worker' = [worker EXCEPT ![w] = x]
    BY DEF TypeOK
  <1>2. /\ x \in Worker /\ x.pc = "push" /\ x.event = worker[w].event
        /\ x.attemptsMade = worker[w].attemptsMade /\ x.todo = todo
    BY <1>1 DEF Worker, Phase
  <1> HIDE DEF x
  <1>3. QED
    BY <1>1, <1>2 DEF GoesOn, OthersStay

\* A worker skips a device it has a record of, and turns to one it has not.
LEMMA NextDeviceFacts ==
  ASSUME TypeOK, NEW w \in Workers, NextDevice(w)
  PROVE  \E d \in worker[w].todo :
           \/ <<Event(w), d>> \in recorded /\ GoesOn(w, "push") /\ worker'[w].todo = worker[w].todo \ {d}
           \/ /\ <<Event(w), d>> \notin recorded /\ GoesOn(w, "send")
              /\ worker'[w].todo = worker[w].todo /\ worker'[w].device = d
  <1>1. PICK d \in worker[w].todo :
          worker' = IF <<Event(w), d>> \in recorded
                    THEN [worker EXCEPT ![w].todo = worker[w].todo \ {d}]
                    ELSE [worker EXCEPT ![w].pc = "send", ![w].device = d]
    BY DEF NextDevice
  <1>2. worker \in [Workers -> Worker] /\ worker[w] \in Worker /\ worker[w].pc = "push"
    BY DEF TypeOK, NextDevice
  <1>3. d \in Devices /\ worker[w].todo \subseteq Devices
    BY <1>2 DEF Worker
  <1>4. CASE <<Event(w), d>> \in recorded
    <2> DEFINE x == [worker[w] EXCEPT !.todo = worker[w].todo \ {d}]
    <2>1. worker' = [worker EXCEPT ![w] = x]
      BY <1>1, <1>2, <1>4
    <2>2. /\ x \in Worker /\ x.pc = "push" /\ x.event = worker[w].event
          /\ x.attemptsMade = worker[w].attemptsMade /\ x.todo = worker[w].todo \ {d}
      BY <1>2, <1>3 DEF Worker
    <2> HIDE DEF x
    <2>3. QED
      BY <1>2, <1>4, <2>1, <2>2 DEF GoesOn, OthersStay
  <1>5. CASE <<Event(w), d>> \notin recorded
    <2> DEFINE x == [worker[w] EXCEPT !.pc = "send", !.device = d]
    <2>1. worker' = [worker EXCEPT ![w] = x]
      BY <1>1, <1>2, <1>5
    <2>2. /\ x \in Worker /\ x.pc = "send" /\ x.event = worker[w].event
          /\ x.attemptsMade = worker[w].attemptsMade /\ x.todo = worker[w].todo /\ x.device = d
      BY <1>2, <1>3 DEF Worker, Phase
    <2> HIDE DEF x
    <2>3. QED
      BY <1>2, <1>5, <2>1, <2>2 DEF GoesOn, OthersStay
  <1>6. QED
    BY <1>4, <1>5

\* A worker lets its job go.
LEMMA IdleFacts ==
  ASSUME TypeOK, NEW w \in Workers, worker' = [worker EXCEPT ![w] = IdleWorker]
  PROVE  LetsGo(w)
  BY Defaults DEF TypeOK, LetsGo, OthersStay

\* A worker takes a waiting job and what is known of it.
LEMMA TakeFacts ==
  ASSUME TypeOK, NEW w \in Workers, NEW e \in Events, Take(w, e)
  PROVE  /\ worker' \in [Workers -> Worker] /\ OthersStay(w)
         /\ worker'[w].pc = "read" /\ worker'[w].event = e /\ worker'[w].attemptsMade = job[e].attemptsMade
         /\ job' \in [Events -> Job]
         /\ job'[e].state = "active" /\ job'[e].owner = w /\ job'[e].attemptsMade = job[e].attemptsMade
         /\ \A f \in Events \ {e} : job'[f] = job[f]
  <1> DEFINE x == [IdleWorker EXCEPT !.pc = "read", !.event = e, !.attemptsMade = job[e].attemptsMade]
             y == [job[e] EXCEPT !.state = "active", !.owner = w]
  <1>1. worker \in [Workers -> Worker] /\ job \in [Events -> Job] /\ job[e] \in Job
    BY DEF TypeOK
  <1>2. worker' = [worker EXCEPT ![w] = x] /\ job' = [job EXCEPT ![e] = y]
    BY <1>1 DEF Take
  <1>3. x \in Worker /\ x.pc = "read" /\ x.event = e /\ x.attemptsMade = job[e].attemptsMade
    BY <1>1, Defaults DEF Worker, Phase, Job
  <1>4. y \in Job /\ y.state = "active" /\ y.owner = w /\ y.attemptsMade = job[e].attemptsMade
    BY <1>1 DEF Job, JobState
  <1> HIDE DEF x, y
  <1>5. QED
    BY <1>1, <1>2, <1>3, <1>4 DEF OthersStay

\* Where a job changes to y no other does.
JobBecomes(e, y) == y \in Job /\ job' \in [Events -> Job] /\ job'[e] = y /\ \A f \in Events \ {e} : job'[f] = job[f]

\* An add makes a job where there is none, and no difference otherwise.
LEMMA AddFacts ==
  ASSUME TypeOK, JobsHaveOwners, NEW e \in Events, AddJob(e)
  PROVE  \/ job' = job
         \/ /\ job[e].state = "none" /\ JobBecomes(e, job'[e])
            /\ job'[e].state = "waiting" /\ job'[e].owner \notin Workers /\ job'[e].attemptsMade = 0
  <1> DEFINE y == [job[e] EXCEPT !.state = "waiting"]
  <1>1. job \in [Events -> Job] /\ job[e] \in Job
    BY DEF TypeOK
  <1>2. y \in Job /\ y.state = "waiting" /\ y.owner = job[e].owner /\ y.attemptsMade = job[e].attemptsMade
    BY <1>1 DEF Job, JobState
  <1>3. job' = IF job[e].state = "none" THEN [job EXCEPT ![e] = y] ELSE job
    BY <1>1 DEF AddJob
  <1>4. job[e].state = "none" => job[e].owner \notin Workers /\ job[e].attemptsMade = 0
    BY DEF JobsHaveOwners
  <1> HIDE DEF y
  <1>5. QED
    BY <1>1, <1>2, <1>3, <1>4 DEF JobBecomes

\* The report of a worker is taken where it has the job, and ends it or leaves
\* it waiting with an attempt less.
LEMMA ReportFacts ==
  ASSUME TypeOK, JobsHaveOwners, NEW w \in Workers, Complete(w) \/ Retry(w)
  PROVE  /\ LetsGo(w) /\ Busy(w) /\ Event(w) \in Events
         /\ \/ ~ Owns(w, Event(w)) /\ job' = job
            \/ /\ Owns(w, Event(w)) /\ JobBecomes(Event(w), job'[Event(w)])
               /\ job'[Event(w)].state \in {"completed", "failed", "waiting"}
               /\ job'[Event(w)].owner \notin Workers
               /\ job'[Event(w)].attemptsMade >= job[Event(w)].attemptsMade
               /\ job'[Event(w)].state = "waiting" => job'[Event(w)].attemptsMade < Attempts
  <1>1. Busy(w) /\ Event(w) \in Events /\ LetsGo(w)
    BY IdleFacts DEF Complete, Retry, Busy, JobsHaveOwners
  <1>2. PICK e \in Events : e = Event(w)
    BY <1>1
  <1>3. /\ job \in [Events -> Job] /\ job[e] \in Job /\ Attempts \in Nat
        /\ worker[w].attemptsMade \in Nat /\ worker[w].attemptsMade < Attempts
        /\ Owns(w, e) => worker[w].attemptsMade = job[e].attemptsMade
    BY <1>1, <1>2, Defaults DEF TypeOK, JobsHaveOwners, Worker
  <1>4. CASE ~ Owns(w, e)
    BY <1>1, <1>2, <1>4 DEF Complete, Retry
  <1>5. CASE Owns(w, e) /\ Complete(w)
    <2> DEFINE y == [job[e] EXCEPT !.state = "completed", !.owner = None]
    <2>1. job' = [job EXCEPT ![e] = y]
      BY <1>2, <1>3, <1>5 DEF Complete
    <2>2. y \in Job /\ y.state = "completed" /\ y.owner = None /\ y.attemptsMade = job[e].attemptsMade
      BY <1>3 DEF Job, JobState
    <2> HIDE DEF y
    <2>3. JobBecomes(e, y) /\ job'[e] = y
      BY <1>3, <2>1, <2>2 DEF JobBecomes
    <2>4. job[e].attemptsMade \in Nat
      BY <1>3, Defaults DEF Job
    <2>5. QED
      BY <1>1, <1>2, <1>5, <2>2, <2>3, <2>4, Defaults
  <1>6. CASE Owns(w, e) /\ Retry(w)
    <2> DEFINE s == IF Terminal(w) THEN "failed" ELSE "waiting"
               n == worker[w].attemptsMade + 1
               y == [job[e] EXCEPT !.state = s, !.owner = None, !.attemptsMade = n]
    <2>1. job' = [job EXCEPT ![e] = y]
      BY <1>2, <1>3, <1>6 DEF Retry
    <2>2. s \in {"failed", "waiting"} /\ n \in 0..Attempts /\ (s = "waiting" => n < Attempts)
      BY <1>3 DEF Terminal
    <2> HIDE DEF s
    <2>3. y \in Job /\ y.state = s /\ y.owner = None /\ y.attemptsMade = n
      BY <1>3, <2>2 DEF Job, JobState
    <2> HIDE DEF y
    <2>4. JobBecomes(e, y) /\ job'[e] = y
      BY <1>3, <2>1, <2>3 DEF JobBecomes
    <2>5. n >= job[e].attemptsMade
      BY <1>3, <1>6
    <2>6. QED
      BY <1>1, <1>2, <1>6, <2>2, <2>3, <2>4, <2>5, Defaults
  <1>7. QED
    BY <1>2, <1>4, <1>5, <1>6

\* A stalled job loses its owner, and no attempt.
LEMMA StallFacts ==
  ASSUME TypeOK, NEW e \in Events, Stall(e)
  PROVE  /\ job[e].state = "active" /\ JobBecomes(e, job'[e])
         /\ job'[e].state \in {"waiting", "failed"} /\ job'[e].owner \notin Workers
         /\ job'[e].attemptsMade = job[e].attemptsMade
  <1> DEFINE s == IF job[e].stalls < MaxStalls THEN "waiting" ELSE "failed"
             n == job[e].stalls + 1
             y == [job[e] EXCEPT !.state = s, !.owner = None, !.stalls = n]
  <1>1. job \in [Events -> Job] /\ job[e] \in Job
    BY DEF TypeOK
  <1>2. job' = [job EXCEPT ![e] = y] /\ job[e].state = "active"
    BY <1>1 DEF Stall
  <1>3. s \in {"waiting", "failed"}
    OBVIOUS
  <1>n. n \in Nat
    BY <1>1 DEF Job
  <1> HIDE DEF s, n
  <1>4. y \in Job /\ y.state = s /\ y.owner = None /\ y.attemptsMade = job[e].attemptsMade
    BY <1>1, <1>3, <1>n DEF Job, JobState
  <1> HIDE DEF y
  <1>5. QED
    BY <1>1, <1>2, <1>3, <1>4, Defaults DEF JobBecomes

-----------------------------------------------------------------------------
(* Jobs and workers                                                        *)

\* The steps that move a worker on with the job it has.
Works(w) ==
  \/ Read(w) \/ Publish(w) \/ NextDevice(w) \/ Send(w) \/ SendInvalid(w) \/ Record(w)
  \/ MarkPublished(w) \/ Catch(w) \/ Fail(w) \/ FailOutside(w)

\* A worker that moves on is busy and stays so, and no job, relay or environment
\* changes.
LEMMA WorksFacts ==
  ASSUME TypeOK, NEW w \in Workers, Works(w)
  PROVE  /\ Busy(w) /\ job' = job /\ relay' = relay /\ env' = env
         /\ \E pc \in Phase \ {"idle"} : GoesOn(w, pc)
  <1>1. worker[w] \in Worker
    BY DEF TypeOK
  <1>2. Busy(w) /\ job' = job /\ relay' = relay /\ env' = env
    BY DEF Works, Read, Publish, NextDevice, Send, SendInvalid, Record, MarkPublished, Catch, Fail,
           FailOutside, Busy, bounds
  <1>3. CASE \E pc \in Phase \ {"idle"} : Become(w, pc)
    BY <1>2, <1>3, BecomeFacts
  <1>4. CASE Publish(w)
    BY <1>2, <1>4, PushFacts DEF Publish, Phase, TypeOK
  <1>5. CASE SendInvalid(w) \/ Record(w)
    <2>1. worker[w].todo \ {worker[w].device} \in SUBSET Devices
      BY <1>1 DEF Worker
    <2>2. QED
      BY <1>2, <1>5, <2>1, PushFacts DEF SendInvalid, Record, Phase
  <1>6. CASE NextDevice(w)
    BY <1>2, <1>6, NextDeviceFacts DEF Phase
  <1>7. Read(w) \/ Send(w) \/ MarkPublished(w) \/ Catch(w) \/ Fail(w) \/ FailOutside(w) =>
          \E pc \in Phase \ {"idle"} : Become(w, pc)
    BY DEF Read, Send, MarkPublished, Catch, Fail, FailOutside, Phase
  <1>8. QED
    BY <1>3, <1>4, <1>5, <1>6, <1>7 DEF Works

\* Every step is one of these.
LEMMA StepKinds ==
  Next => \/ \E w \in Workers : Works(w) \/ WorkerCrash(w) \/ Complete(w) \/ Retry(w) \/ \E e \in Events : Take(w, e)
          \/ \E e \in Events : Stall(e) \/ Insert(e) \/ Reclaim(e) \/ Requeue(e)
          \/ \E p \in Relays : Claim(p) \/ RelayCrash(p) \/ \E e \in Events : Enqueue(p, e) \/ EnqueueFails(p, e)
  BY DEF Next, Step, Works

\* A job may lose its owner, and a worker its job.
LEMMA JobMoves ==
  ASSUME TypeOK, JobsHaveOwners, NEW e \in Events, JobBecomes(e, job'[e]),
         job'[e].state \in {"waiting", "completed", "failed"}, job'[e].owner \notin Workers,
         job'[e].attemptsMade >= job[e].attemptsMade,
         job'[e].state = "waiting" => job'[e].attemptsMade < Attempts,
         worker' = worker \/ \E w \in Workers : LetsGo(w)
  PROVE  JobsHaveOwners'
  <1>1. \A f \in Events : job[f] \in Job /\ job[f].attemptsMade \in Nat /\ job'[f].attemptsMade \in Nat
    BY Defaults DEF TypeOK, Job, JobBecomes
  <1>2. \A w \in Workers : worker[w].attemptsMade \in Nat /\ (Busy(w)' => worker'[w] = worker[w])
    BY Defaults DEF TypeOK, Worker, LetsGo, OthersStay, Busy
  <1>3. \A f \in Events : /\ (job[f].state = "active" <=> job[f].owner \in Workers)'
                          /\ (Live(f) => job[f].attemptsMade < Attempts)'
                          /\ (job[f].state = "none" => job[f].attemptsMade = 0)'
    BY DEF JobsHaveOwners, JobBecomes, Live
  <1>4. ASSUME NEW w \in Workers, Busy(w)'
        PROVE  ( /\ Event(w) \in Events /\ worker[w].attemptsMade < Attempts
                 /\ worker[w].attemptsMade <= job[Event(w)].attemptsMade
                 /\ Owns(w, Event(w)) => worker[w].attemptsMade = job[Event(w)].attemptsMade )'
    <2>1. worker'[w] = worker[w] /\ Busy(w)
      BY <1>2, <1>4 DEF Busy
    <2>2. /\ Event(w) \in Events /\ worker[w].attemptsMade < Attempts
          /\ worker[w].attemptsMade <= job[Event(w)].attemptsMade
          /\ Owns(w, Event(w)) => worker[w].attemptsMade = job[Event(w)].attemptsMade
      BY <2>1 DEF JobsHaveOwners
    <2>3. Event(w)' = Event(w)
      BY <2>1 DEF Event
    <2>4. PICK f \in Events : f = Event(w)
      BY <2>2
    <2>5. worker[w].attemptsMade <= job'[f].attemptsMade
      BY <1>1, <1>2, <2>2, <2>4 DEF JobBecomes
    <2>6. Owns(w, f)' => f # e /\ Owns(w, f)
      BY DEF Owns, JobBecomes
    <2>7. Owns(w, f)' => worker[w].attemptsMade = job'[f].attemptsMade
      BY <2>2, <2>4, <2>6 DEF JobBecomes
    <2>8. QED
      BY <2>1, <2>2, <2>3, <2>4, <2>5, <2>7 DEF Owns
  <1>5. QED
    BY <1>3, <1>4 DEF JobsHaveOwners

\* Jobs keep their owners, whatever moves.
LEMMA JobsStep == TypeOK /\ JobsHaveOwners /\ Next => JobsHaveOwners'
  <1> SUFFICES ASSUME TypeOK, JobsHaveOwners, Next PROVE JobsHaveOwners'
    OBVIOUS
  <1>1. ASSUME NEW w \in Workers, Works(w)
        PROVE  JobsHaveOwners'
    <2>1. PICK pc \in Phase \ {"idle"} : GoesOn(w, pc)
      BY <1>1, WorksFacts
    <2>2. Busy(w) /\ job' = job
      BY <1>1, WorksFacts
    <2>3. \A v \in Workers : /\ Busy(v)' <=> Busy(v)
                             /\ worker'[v].event = worker[v].event
                             /\ worker'[v].attemptsMade = worker[v].attemptsMade
      BY <2>1, <2>2 DEF GoesOn, OthersStay, Busy
    <2>4. QED
      BY <2>2, <2>3 DEF JobsHaveOwners, Live, Owns, Event
  <1>2. ASSUME job' = job, worker' = worker \/ \E w \in Workers : LetsGo(w)
        PROVE  JobsHaveOwners'
    <2>1. \A v \in Workers : Busy(v)' => worker'[v] = worker[v]
      BY <1>2, Defaults DEF LetsGo, OthersStay, Busy
    <2>2. QED
      BY <1>2, <2>1 DEF JobsHaveOwners, Live, Owns, Event, Busy
  <1>3. ASSUME NEW w \in Workers, WorkerCrash(w)
        PROVE  JobsHaveOwners'
    <2>1. LetsGo(w) /\ job' = job
      BY <1>3, IdleFacts DEF WorkerCrash
    <2>2. QED
      BY <1>2, <2>1
  <1>4. ASSUME NEW w \in Workers, Complete(w) \/ Retry(w)
        PROVE  JobsHaveOwners'
    <2>1. PICK e \in Events : e = Event(w)
      BY <1>4, ReportFacts
    <2>2. CASE job' = job
      BY <1>2, <1>4, <2>2, ReportFacts
    <2>3. CASE job' # job
      BY <1>4, <2>1, <2>3, ReportFacts, JobMoves
    <2>4. QED
      BY <2>2, <2>3
  <1>5. ASSUME NEW w \in Workers, NEW e \in Events, Take(w, e)
        PROVE  JobsHaveOwners'
    <2>1. job[e].state = "waiting" /\ ~ Busy(w)
      BY <1>5 DEF Take, Busy
    <2>2. /\ job[e].attemptsMade < Attempts /\ job[e].owner \notin Workers
          /\ job[e].attemptsMade \in Nat
      BY <2>1, Defaults DEF JobsHaveOwners, Live, TypeOK, Job
    <2>3. ASSUME NEW f \in Events
          PROVE  /\ (job[f].state = "active" <=> job[f].owner \in Workers)'
                 /\ (Live(f) => job[f].attemptsMade < Attempts)'
                 /\ (job[f].state = "none" => job[f].attemptsMade = 0)'
      BY <1>5, <2>2, TakeFacts DEF JobsHaveOwners, Live
    <2>4. ASSUME NEW v \in Workers, Busy(v)'
          PROVE  ( /\ Event(v) \in Events /\ worker[v].attemptsMade < Attempts
                   /\ worker[v].attemptsMade <= job[Event(v)].attemptsMade
                   /\ Owns(v, Event(v)) => worker[v].attemptsMade = job[Event(v)].attemptsMade )'
      <3>1. CASE v = w
        BY <1>5, <2>2, <3>1, TakeFacts DEF Event
      <3>2. CASE v # w
        <4>1. worker'[v] = worker[v] /\ Busy(v)
          BY <1>5, <2>4, <3>2, TakeFacts DEF OthersStay, Busy
        <4>2. /\ Event(v) \in Events /\ worker[v].attemptsMade < Attempts
              /\ worker[v].attemptsMade <= job[Event(v)].attemptsMade
              /\ Owns(v, Event(v)) => worker[v].attemptsMade = job[Event(v)].attemptsMade
          BY <4>1 DEF JobsHaveOwners
        <4>3. Event(v)' = Event(v)
          BY <4>1 DEF Event
        <4>4. Owns(v, Event(v))' => Owns(v, Event(v))
          BY <1>5, <3>2, <4>2, <4>3, TakeFacts DEF Owns
        <4>5. job'[Event(v)].attemptsMade = job[Event(v)].attemptsMade
          BY <1>5, <4>2, TakeFacts
        <4>6. QED
          BY <4>1, <4>2, <4>3, <4>4, <4>5
      <3>3. QED
        BY <3>1, <3>2
    <2>5. \A f \in Events : /\ (job[f].state = "active" <=> job[f].owner \in Workers)'
                            /\ (Live(f) => job[f].attemptsMade < Attempts)'
                            /\ (job[f].state = "none" => job[f].attemptsMade = 0)'
      BY <2>3
    <2>6. QED
      BY <2>4, <2>5 DEF JobsHaveOwners
  <1>6. ASSUME NEW e \in Events, Stall(e)
        PROVE  JobsHaveOwners'
    <2>1. job[e] \in Job /\ worker' = worker
      BY <1>6 DEF TypeOK, Stall
    <2>2. job[e].attemptsMade < Attempts /\ job[e].attemptsMade \in Nat
      BY <1>6, <2>1, StallFacts, Defaults DEF JobsHaveOwners, Live, Job
    <2>3. /\ JobBecomes(e, job'[e])
          /\ job'[e].state \in {"waiting", "completed", "failed"} /\ job'[e].owner \notin Workers
          /\ job'[e].attemptsMade = job[e].attemptsMade
      BY <1>6, StallFacts
    <2>4. job'[e].attemptsMade >= job[e].attemptsMade
      BY <2>2, <2>3
    <2>5. QED
      BY <2>1, <2>2, <2>3, <2>4, JobMoves
  <1>7. ASSUME NEW e \in Events, AddJob(e), worker' = worker
        PROVE  JobsHaveOwners'
    <2>1. CASE job' = job
      BY <1>2, <1>7, <2>1
    <2>2. CASE job' # job
      <3>1. /\ job[e].state = "none" /\ JobBecomes(e, job'[e])
            /\ job'[e].state = "waiting" /\ job'[e].owner \notin Workers /\ job'[e].attemptsMade = 0
        BY <1>7, <2>2, AddFacts
      <3>2. job[e].attemptsMade = 0
        BY <3>1 DEF JobsHaveOwners
      <3>3. QED
        BY <1>7, <3>1, <3>2, JobMoves, Defaults
    <2>3. QED
      BY <2>1, <2>2
  <1>8. ASSUME NEW p \in Relays, NEW e \in Events, Enqueue(p, e) \/ EnqueueFails(p, e)
        PROVE  JobsHaveOwners'
    BY <1>2, <1>7, <1>8 DEF Enqueue, EnqueueFails
  <1>9. ASSUME NEW e \in Events, Insert(e) \/ Reclaim(e) \/ Requeue(e)
        PROVE  JobsHaveOwners'
    BY <1>2, <1>9 DEF Insert, Reclaim, Requeue
  <1>10. ASSUME NEW p \in Relays, Claim(p) \/ RelayCrash(p)
         PROVE  JobsHaveOwners'
    BY <1>2, <1>10 DEF Claim, RelayCrash
  <1>11. QED
    BY <1>1, <1>3, <1>4, <1>5, <1>6, <1>8, <1>9, <1>10, StepKinds

-----------------------------------------------------------------------------
(* Types, and what only grows                                              *)

\* Who sends or records a push knows its event and its device.
LEMMA DeliveryFacts ==
  ASSUME JobsHaveOwners, PushesSent, NEW w \in Workers, worker[w].pc \in {"send", "record"}
  PROVE  Event(w) \in Events /\ worker[w].device \in Devices /\ Delivery(w) \in Events \X Devices
  BY DEF JobsHaveOwners, PushesSent, Busy, Delivery

\* Jobs and workers keep their types.
LEMMA MoveTypes ==
  TypeOK /\ JobsHaveOwners /\ Next => job' \in [Events -> Job] /\ worker' \in [Workers -> Worker]
  <1> SUFFICES ASSUME TypeOK, JobsHaveOwners, Next
               PROVE  job' \in [Events -> Job] /\ worker' \in [Workers -> Worker]
    OBVIOUS
  <1>1. job \in [Events -> Job] /\ worker \in [Workers -> Worker]
    BY DEF TypeOK
  <1>2. ASSUME NEW w \in Workers, Works(w)
        PROVE  job' \in [Events -> Job] /\ worker' \in [Workers -> Worker]
    BY <1>1, <1>2, WorksFacts DEF GoesOn
  <1>3. ASSUME NEW w \in Workers, WorkerCrash(w)
        PROVE  job' \in [Events -> Job] /\ worker' \in [Workers -> Worker]
    BY <1>1, <1>3, IdleFacts DEF WorkerCrash, LetsGo
  <1>4. ASSUME NEW w \in Workers, Complete(w) \/ Retry(w)
        PROVE  job' \in [Events -> Job] /\ worker' \in [Workers -> Worker]
    BY <1>1, <1>4, ReportFacts DEF LetsGo, JobBecomes
  <1>5. ASSUME NEW w \in Workers, NEW e \in Events, Take(w, e)
        PROVE  job' \in [Events -> Job] /\ worker' \in [Workers -> Worker]
    BY <1>5, TakeFacts
  <1>6. ASSUME NEW e \in Events, Stall(e)
        PROVE  job' \in [Events -> Job] /\ worker' \in [Workers -> Worker]
    <2>1. worker' = worker
      BY <1>6 DEF Stall
    <2>2. QED
      BY <1>1, <1>6, <2>1, StallFacts DEF JobBecomes
  <1>7. ASSUME NEW p \in Relays, NEW e \in Events, Enqueue(p, e) \/ EnqueueFails(p, e)
        PROVE  job' \in [Events -> Job] /\ worker' \in [Workers -> Worker]
    <2>1. worker' = worker /\ (job' = job \/ AddJob(e))
      BY <1>7 DEF Enqueue, EnqueueFails
    <2>2. QED
      BY <1>1, <2>1, AddFacts DEF JobBecomes
  <1>8. ASSUME NEW e \in Events, Insert(e) \/ Reclaim(e) \/ Requeue(e)
        PROVE  job' \in [Events -> Job] /\ worker' \in [Workers -> Worker]
    BY <1>1, <1>8 DEF Insert, Reclaim, Requeue
  <1>9. ASSUME NEW p \in Relays, Claim(p) \/ RelayCrash(p)
        PROVE  job' \in [Events -> Job] /\ worker' \in [Workers -> Worker]
    BY <1>1, <1>9 DEF Claim, RelayCrash
  <1>10. QED
    BY <1>2, <1>3, <1>4, <1>5, <1>6, <1>7, <1>8, <1>9, StepKinds

\* Sends, losses and publications are never taken back, and no device becomes
\* reachable again.
Grows ==
  /\ sent' \in [Events \X Devices -> Nat] /\ lost' \in [Events \X Devices -> Nat]
  /\ \A x \in Events \X Devices : sent'[x] >= sent[x] /\ lost'[x] >= lost[x]
  /\ published \subseteq published' /\ published' \subseteq Events
  /\ active' \subseteq active
  /\ recorded' \subseteq Events \X Devices

\* Every step keeps them so.
LEMMA HistoryGrows == TypeOK /\ JobsHaveOwners /\ PushesSent /\ Next => Grows
  <1> SUFFICES ASSUME TypeOK, JobsHaveOwners, PushesSent, Next PROVE Grows
    OBVIOUS
  <1> USE DEF TypeOK
  <1>1. \A x \in Events \X Devices : sent[x] \in Nat /\ lost[x] \in Nat
    OBVIOUS
  <1>2. CASE UNCHANGED <<sent, lost, published, active, recorded>>
    BY <1>1, <1>2 DEF Grows
  <1>3. ASSUME NEW w \in Workers, LoseRecord(w), UNCHANGED <<sent, published, active, recorded>>
        PROVE  Grows
    <2>1. CASE worker[w].pc = "record"
      <3>1. PICK y \in Events \X Devices : y = Delivery(w)
        BY <2>1, DeliveryFacts
      <3>2. lost' = [lost EXCEPT ![y] = lost[y] + 1]
        BY <1>3, <2>1, <3>1 DEF LoseRecord
      <3>3. QED
        BY <1>1, <1>3, <3>2 DEF Grows
    <2>2. CASE worker[w].pc # "record"
      BY <1>2, <1>3, <2>2 DEF LoseRecord
    <2>3. QED
      BY <2>1, <2>2
  <1>4. ASSUME NEW w \in Workers, Send(w)
        PROVE  Grows
    <2>1. PICK y \in Events \X Devices : y = Delivery(w)
      BY <1>4, DeliveryFacts DEF Send
    <2>2. sent' = [sent EXCEPT ![y] = sent[y] + 1] /\ UNCHANGED <<lost, published, active, recorded>>
      BY <1>4, <2>1 DEF Send
    <2>3. QED
      BY <1>1, <2>2 DEF Grows
  <1>5. ASSUME NEW w \in Workers, Record(w)
        PROVE  Grows
    <2>1. Delivery(w) \in Events \X Devices
      BY <1>5, DeliveryFacts DEF Record
    <2>2. recorded' = recorded \cup {Delivery(w)} /\ UNCHANGED <<lost, published, active, sent>>
      BY <1>5 DEF Record, history
    <2>3. QED
      BY <1>1, <2>1, <2>2 DEF Grows
  <1>6. ASSUME NEW w \in Workers, Publish(w)
        PROVE  Grows
    <2>1. Event(w) \in Events
      BY <1>6 DEF JobsHaveOwners, Busy, Publish
    <2>2. published' = published \cup {Event(w)} /\ UNCHANGED <<lost, recorded, active, sent>>
      BY <1>6 DEF Publish
    <2>3. QED
      BY <1>1, <2>1, <2>2 DEF Grows
  <1>7. ASSUME NEW w \in Workers, SendInvalid(w)
        PROVE  Grows
    <2>1. active' = active \ {worker[w].device} /\ UNCHANGED <<lost, recorded, published, sent>>
      BY <1>7 DEF SendInvalid, history
    <2>2. QED
      BY <1>1, <2>1 DEF Grows
  <1>8. ASSUME NEW w \in Workers, Works(w) \/ WorkerCrash(w) \/ Complete(w) \/ Retry(w) \/ \E e \in Events : Take(w, e)
        PROVE  Grows
    <2>1. CASE Fail(w) \/ WorkerCrash(w)
      BY <1>3, <2>1 DEF Fail, WorkerCrash
    <2>2. CASE Read(w) \/ NextDevice(w) \/ MarkPublished(w) \/ Catch(w) \/ FailOutside(w)
      BY <1>2, <2>2 DEF Read, NextDevice, MarkPublished, Catch, FailOutside, history
    <2>3. CASE Complete(w) \/ Retry(w) \/ \E e \in Events : Take(w, e)
      BY <1>2, <2>3 DEF Complete, Retry, Take, history
    <2>4. QED
      BY <1>4, <1>5, <1>6, <1>7, <1>8, <2>1, <2>2, <2>3 DEF Works
  <1>9. ASSUME NEW e \in Events, Stall(e) \/ Insert(e) \/ Reclaim(e) \/ Requeue(e)
        PROVE  Grows
    BY <1>2, <1>9 DEF Stall, Insert, Reclaim, Requeue, history
  <1>10. ASSUME NEW p \in Relays, Claim(p) \/ RelayCrash(p) \/ \E e \in Events : Enqueue(p, e) \/ EnqueueFails(p, e)
         PROVE  Grows
    BY <1>2, <1>10 DEF Claim, RelayCrash, Enqueue, EnqueueFails, history
  <1>11. QED
    BY <1>8, <1>9, <1>10, StepKinds

\* Who may change the status of an event, and to what.
StatusChange(f) ==
  \/ status'[f] = "PENDING" /\ (Insert(f) \/ Reclaim(f) \/ Requeue(f) \/ \E p \in Relays : EnqueueFails(p, f))
  \/ status'[f] = "PROCESSING" /\ status[f] = "PENDING" /\ \E p \in Relays : Claim(p)
  \/ \E w \in Workers : Event(w) = f /\ MarkPublished(w) /\ status'[f] = "PUBLISHED"
  \/ \E w \in Workers : Event(w) = f /\ Catch(w) /\ status'[f] = IF Terminal(w) THEN "FAILED" ELSE "PROCESSING"

\* No other step changes it.
LEMMA StatusMoves ==
  TypeOK /\ JobsHaveOwners /\ Next =>
    /\ status' \in [Events -> OutboxStatus]
    /\ \A f \in Events : status'[f] # status[f] => StatusChange(f)
  <1> SUFFICES ASSUME TypeOK, JobsHaveOwners, Next
               PROVE  /\ status' \in [Events -> OutboxStatus]
                      /\ \A f \in Events : status'[f] # status[f] => StatusChange(f)
    OBVIOUS
  <1> DEFINE Goal == /\ status' \in [Events -> OutboxStatus]
                     /\ \A f \in Events : status'[f] # status[f] => StatusChange(f)
  <1>1. status \in [Events -> OutboxStatus]
    BY DEF TypeOK
  <1>2. CASE status' = status
    BY <1>1, <1>2
  <1>3. ASSUME NEW e \in Events, NEW s \in OutboxStatus, status' = [status EXCEPT ![e] = s], StatusChange(e)
        PROVE  Goal
    BY <1>1, <1>3
  <1> USE DEF OutboxStatus
  <1>4. ASSUME NEW e \in Events, Stall(e) \/ Insert(e) \/ Reclaim(e) \/ Requeue(e)
        PROVE  Goal
    <2>1. CASE Stall(e)
      BY <1>2, <2>1 DEF Stall
    <2>2. CASE Insert(e) \/ Reclaim(e) \/ Requeue(e)
      <3>1. status' = [status EXCEPT ![e] = "PENDING"]
        BY <2>2 DEF Insert, Reclaim, Requeue
      <3>2. StatusChange(e)
        BY <1>1, <2>2, <3>1 DEF StatusChange
      <3>3. QED
        BY <1>3, <3>1, <3>2
    <2>3. QED
      BY <1>4, <2>1, <2>2
  <1>5. ASSUME NEW p \in Relays, Claim(p)
        PROVE  Goal
    <2>1. status' = [e \in Events |-> IF e \in Pending THEN "PROCESSING" ELSE status[e]]
      BY <1>5 DEF Claim
    <2>2. \A f \in Events : status'[f] # status[f] => status'[f] = "PROCESSING" /\ status[f] = "PENDING"
      BY <2>1 DEF Pending
    <2>3. QED
      BY <1>1, <1>5, <2>1, <2>2 DEF StatusChange
  <1>6. ASSUME NEW p \in Relays, NEW e \in Events, EnqueueFails(p, e)
        PROVE  Goal
    <2>1. status' = [status EXCEPT ![e] = "PENDING"]
      BY <1>6 DEF EnqueueFails
    <2>2. StatusChange(e)
      BY <1>1, <1>6, <2>1 DEF StatusChange
    <2>3. QED
      BY <1>3, <2>1, <2>2
  <1>7. ASSUME NEW p \in Relays, RelayCrash(p) \/ \E e \in Events : Enqueue(p, e)
        PROVE  Goal
    BY <1>2, <1>7 DEF RelayCrash, Enqueue
  <1>8. ASSUME NEW w \in Workers, MarkPublished(w) \/ Catch(w)
        PROVE  Goal
    <2>1. PICK e \in Events : e = Event(w)
      BY <1>8 DEF MarkPublished, Catch, JobsHaveOwners, Busy
    <2>2. PICK s \in {"PUBLISHED", "FAILED", "PROCESSING"} :
            /\ status' = [status EXCEPT ![e] = s]
            /\ \/ MarkPublished(w) /\ s = "PUBLISHED"
               \/ Catch(w) /\ s = IF Terminal(w) THEN "FAILED" ELSE "PROCESSING"
      BY <1>8, <2>1 DEF MarkPublished, Catch
    <2>3. StatusChange(e)
      BY <1>1, <2>1, <2>2 DEF StatusChange
    <2>4. QED
      BY <1>3, <2>2, <2>3
  <1>9. ASSUME NEW w \in Workers, Works(w) \/ WorkerCrash(w) \/ Complete(w) \/ Retry(w) \/ \E e \in Events : Take(w, e)
        PROVE  Goal
    <2>1. CASE MarkPublished(w) \/ Catch(w)
      BY <1>8, <2>1
    <2>2. Read(w) \/ Publish(w) \/ NextDevice(w) \/ Send(w) \/ SendInvalid(w) \/ Record(w) \/ Fail(w)
            \/ FailOutside(w) => status' = status
      BY DEF Read, Publish, NextDevice, Send, SendInvalid, Record, Fail, FailOutside
    <2>3. WorkerCrash(w) \/ Complete(w) \/ Retry(w) \/ (\E e \in Events : Take(w, e)) => status' = status
      BY DEF WorkerCrash, Complete, Retry, Take
    <2>4. QED
      BY <1>2, <1>9, <2>1, <2>2, <2>3 DEF Works
  <1>10. QED
    BY <1>4, <1>5, <1>6, <1>7, <1>9, StepKinds

\* Relays, bounds and the environment keep their types.
LEMMA BoundTypes ==
  TypeOK /\ Next => /\ env' = env /\ relay' \in [Relays -> SUBSET Events]
                    /\ crashes' \in Nat /\ requeues' \in Nat
  <1> SUFFICES ASSUME TypeOK, Next
               PROVE  /\ env' = env /\ relay' \in [Relays -> SUBSET Events]
                      /\ crashes' \in Nat /\ requeues' \in Nat
    OBVIOUS
  <1> DEFINE Goal == /\ env' = env /\ relay' \in [Relays -> SUBSET Events]
                     /\ crashes' \in Nat /\ requeues' \in Nat
  <1>1. relay \in [Relays -> SUBSET Events] /\ crashes \in Nat /\ requeues \in Nat
    BY DEF TypeOK
  <1>2. ASSUME NEW p \in Relays, Claim(p)
        PROVE  Goal
    BY <1>1, <1>2 DEF Claim, Pending, bounds
  <1>3. ASSUME NEW p \in Relays, NEW e \in Events, Enqueue(p, e) \/ EnqueueFails(p, e)
        PROVE  Goal
    BY <1>1, <1>3 DEF Enqueue, EnqueueFails, bounds
  <1>4. ASSUME NEW p \in Relays, RelayCrash(p)
        PROVE  Goal
    BY <1>1, <1>4 DEF RelayCrash
  <1>5. ASSUME NEW e \in Events, Stall(e) \/ Insert(e) \/ Reclaim(e) \/ Requeue(e)
        PROVE  Goal
    BY <1>1, <1>5 DEF Stall, Insert, Reclaim, Requeue, bounds
  <1>6. ASSUME NEW w \in Workers, Works(w)
        PROVE  Goal
    <2>1. UNCHANGED <<env, crashes, requeues, relay>>
      BY <1>6 DEF Works, Read, Publish, NextDevice, Send, SendInvalid, Record, MarkPublished, Catch, Fail,
             FailOutside, bounds
    <2>2. QED
      BY <1>1, <2>1
  <1>7. ASSUME NEW w \in Workers, WorkerCrash(w) \/ Complete(w) \/ Retry(w) \/ \E e \in Events : Take(w, e)
        PROVE  Goal
    <2>1. WorkerCrash(w) => env' = env /\ relay' = relay /\ crashes' = crashes + 1 /\ requeues' = requeues
      BY DEF WorkerCrash
    <2>2. Complete(w) \/ Retry(w) \/ (\E e \in Events : Take(w, e)) => UNCHANGED <<env, crashes, requeues, relay>>
      BY DEF Complete, Retry, Take, bounds
    <2>3. QED
      BY <1>1, <1>7, <2>1, <2>2
  <1>8. QED
    BY <1>2, <1>3, <1>4, <1>5, <1>6, <1>7, StepKinds

\* Whoever lets its job go forgets the event.
LEMMA IdleStep == TypeOK /\ JobsHaveOwners /\ IdleForget /\ Next => IdleForget'
  <1> SUFFICES ASSUME TypeOK, JobsHaveOwners, IdleForget, Next, NEW v \in Workers, ~ Busy(v)'
               PROVE  worker'[v].event = None
    BY DEF IdleForget, Event
  <1>1. CASE worker'[v] = worker[v]
    BY <1>1 DEF IdleForget, Busy, Event
  <1>2. ASSUME NEW w \in Workers, OthersStay(w), worker'[w] = IdleWorker \/ worker'[w].pc # "idle"
        PROVE  worker'[v].event = None
    BY <1>1, <1>2, Defaults DEF OthersStay, Busy
  <1>3. ASSUME NEW w \in Workers, Works(w)
        PROVE  worker'[v].event = None
    BY <1>2, <1>3, WorksFacts DEF GoesOn
  <1>4. ASSUME NEW w \in Workers, WorkerCrash(w)
        PROVE  worker'[v].event = None
    BY <1>2, <1>4, IdleFacts DEF WorkerCrash, LetsGo
  <1>5. ASSUME NEW w \in Workers, Complete(w) \/ Retry(w)
        PROVE  worker'[v].event = None
    BY <1>2, <1>5, ReportFacts DEF LetsGo
  <1>6. ASSUME NEW w \in Workers, NEW e \in Events, Take(w, e)
        PROVE  worker'[v].event = None
    BY <1>2, <1>6, TakeFacts
  <1>7. ASSUME NEW e \in Events, Stall(e) \/ Insert(e) \/ Reclaim(e) \/ Requeue(e)
        PROVE  worker'[v].event = None
    BY <1>1, <1>7 DEF Stall, Insert, Reclaim, Requeue
  <1>8. ASSUME NEW p \in Relays, Claim(p) \/ RelayCrash(p) \/ \E e \in Events : Enqueue(p, e) \/ EnqueueFails(p, e)
        PROVE  worker'[v].event = None
    BY <1>1, <1>8 DEF Claim, RelayCrash, Enqueue, EnqueueFails
  <1>9. QED
    BY <1>3, <1>4, <1>5, <1>6, <1>7, <1>8, StepKinds

\* Types are kept.
LEMMA TypeStep == TypeOK /\ JobsHaveOwners /\ PushesSent /\ Next => TypeOK'
  BY MoveTypes, HistoryGrows, StatusMoves, BoundTypes DEF TypeOK, Grows

-----------------------------------------------------------------------------
(* What is behind a worker was sent                                        *)

\* A worker has published its event and sent what it has behind it.
Behind(w) ==
  /\ worker[w].pc \in {"push", "send", "record"} =>
       /\ Event(w) \in published
       /\ \A d \in active \ worker[w].todo : sent[<<Event(w), d>>] > 0
  /\ worker[w].pc \in {"send", "record"} => worker[w].device \in Devices
  /\ worker[w].pc = "record" => sent[Delivery(w)] > 0

\* That is what PushesSent says of every worker.
LEMMA BehindAll == PushesSent <=> (\A x \in recorded : sent[x] > 0) /\ \A w \in Workers : Behind(w)
  BY DEF PushesSent, Behind

\* The same after a step.
LEMMA BehindAllNext ==
  PushesSent' <=> (\A x \in recorded' : sent'[x] > 0) /\ \A w \in Workers : Behind(w)'
  BY DEF PushesSent, Behind

\* What was sent stays so for a worker that stays where it is.
LEMMA BehindStays ==
  ASSUME TypeOK, JobsHaveOwners, Grows, NEW w \in Workers, Behind(w), worker'[w] = worker[w]
  PROVE  Behind(w)'
  <1>1. worker[w].pc \in {"push", "send", "record"} => Event(w) \in Events
    BY DEF JobsHaveOwners, Busy
  <1>2. Event(w)' = Event(w) /\ Delivery(w)' = Delivery(w)
    BY DEF Event, Delivery
  <1>3. \A x \in Events \X Devices : sent[x] > 0 => sent'[x] > 0
    BY DEF Grows, TypeOK
  <1>4. ASSUME worker[w].pc \in {"push", "send", "record"}
        PROVE  Event(w) \in published' /\ \A d \in active' \ worker[w].todo : sent'[<<Event(w), d>>] > 0
    BY <1>1, <1>3, <1>4 DEF Behind, Grows, TypeOK
  <1>5. ASSUME worker[w].pc = "record"
        PROVE  sent'[Delivery(w)] > 0
    BY <1>1, <1>3, <1>5 DEF Behind, Delivery
  <1>6. QED
    BY <1>2, <1>4, <1>5 DEF Behind

\* A worker keeps it at each of its steps.
LEMMA BehindWorks ==
  ASSUME TypeOK, JobsHaveOwners, PushesSent, Grows, NEW w \in Workers, Works(w)
  PROVE  Behind(w)'
  <1>1. /\ Event(w) \in Events /\ Behind(w) /\ worker[w] \in Worker
        /\ \A x \in Events \X Devices : sent[x] > 0 => sent'[x] > 0
    BY WorksFacts, BehindAll DEF JobsHaveOwners, Grows, TypeOK
  <1>2. Event(w)' = Event(w)
    BY WorksFacts DEF GoesOn, Event
  <1>3. CASE Publish(w)
    <2>1. active \in SUBSET Devices /\ worker' = [worker EXCEPT ![w].pc = "push", ![w].todo = active]
      BY <1>3 DEF Publish, TypeOK
    <2>2. worker'[w].pc = "push" /\ worker'[w].todo = active
      BY <2>1, PushFacts DEF GoesOn
    <2>3. active' = active /\ Event(w) \in published'
      BY <1>3 DEF Publish
    <2>4. QED
      BY <1>2, <2>2, <2>3 DEF Behind
  <1>4. CASE NextDevice(w)
    <2>1. PICK d \in worker[w].todo :
           \/ <<Event(w), d>> \in recorded /\ GoesOn(w, "push") /\ worker'[w].todo = worker[w].todo \ {d}
           \/ /\ <<Event(w), d>> \notin recorded /\ GoesOn(w, "send")
              /\ worker'[w].todo = worker[w].todo /\ worker'[w].device = d
      BY <1>4, NextDeviceFacts
    <2>2. d \in Devices /\ UNCHANGED <<published, sent, active>> /\ worker[w].pc = "push"
      BY <1>1, <1>4 DEF Worker, NextDevice, history
    <2>3. <<Event(w), d>> \in recorded => sent[<<Event(w), d>>] > 0
      BY BehindAll
    <2>4. Event(w) \in published /\ \A c \in active \ worker[w].todo : sent[<<Event(w), c>>] > 0
      BY <1>1, <2>2 DEF Behind
    <2>5. worker'[w].pc \in {"push", "send"} /\ (worker'[w].pc = "send" => worker'[w].device \in Devices)
      BY <2>1, <2>2 DEF GoesOn
    <2>6. \A c \in active \ worker'[w].todo : sent[<<Event(w), c>>] > 0
      BY <2>1, <2>3, <2>4
    <2>7. QED
      BY <1>2, <2>2, <2>4, <2>5, <2>6 DEF Behind
  <1>5. CASE Send(w)
    <2>1. /\ worker'[w].pc = "record" /\ worker'[w].todo = worker[w].todo
          /\ worker'[w].device = worker[w].device
      BY <1>5, BecomeFacts DEF Send, Phase, GoesOn
    <2>2. UNCHANGED <<published, active>> /\ worker[w].pc = "send"
      BY <1>5 DEF Send
    <2>3. PICK x \in Events \X Devices : x = Delivery(w)
      BY <2>2, DeliveryFacts
    <2>4. sent'[x] > 0 /\ Delivery(w)' = x
      BY <1>2, <1>5, <2>1, <2>3 DEF Send, TypeOK, Delivery
    <2>5. Event(w) \in published /\ \A c \in active \ worker[w].todo : sent'[<<Event(w), c>>] > 0
      BY <1>1, <2>2 DEF Behind, TypeOK
    <2>6. worker[w].device \in Devices
      BY <2>2, DeliveryFacts
    <2>7. QED
      BY <1>2, <2>1, <2>2, <2>4, <2>5, <2>6 DEF Behind
  <1>6. CASE SendInvalid(w) \/ Record(w)
    <2>1. worker[w].todo \ {worker[w].device} \in SUBSET Devices
      BY <1>1 DEF Worker
    <2>2. worker' = [worker EXCEPT ![w].pc = "push", ![w].todo = worker[w].todo \ {worker[w].device}]
      BY <1>6 DEF SendInvalid, Record
    <2>3. worker'[w].pc = "push" /\ worker'[w].todo = worker[w].todo \ {worker[w].device}
      BY <2>1, <2>2, PushFacts DEF GoesOn
    <2>4. UNCHANGED <<published, sent>> /\ worker[w].pc \in {"send", "record"}
      BY <1>6 DEF SendInvalid, Record, history
    <2>5. worker[w].device \in active' => sent[<<Event(w), worker[w].device>>] > 0
      <3>1. CASE SendInvalid(w)
        BY <3>1 DEF SendInvalid
      <3>2. CASE Record(w)
        BY <1>1, <3>2 DEF Record, Behind, Delivery
      <3>3. QED
        BY <1>6, <3>1, <3>2
    <2>6. Event(w) \in published /\ \A c \in active' \ worker[w].todo : sent[<<Event(w), c>>] > 0
      BY <1>1, <2>4 DEF Behind, Grows
    <2>7. QED
      BY <1>2, <2>3, <2>4, <2>5, <2>6 DEF Behind
  <1>7. CASE Read(w) \/ MarkPublished(w) \/ Catch(w) \/ Fail(w) \/ FailOutside(w)
    <2>1. PICK pc \in {"finish", "publish", "retry", "catch"} : Become(w, pc)
      BY <1>7 DEF Read, MarkPublished, Catch, Fail, FailOutside
    <2>2. worker'[w].pc = pc
      BY <2>1, BecomeFacts DEF Phase, GoesOn
    <2>3. QED
      BY <2>2 DEF Behind
  <1>8. QED
    BY <1>3, <1>4, <1>5, <1>6, <1>7 DEF Works

\* Every worker keeps it, and so does what is on record.
LEMMA PushesStep == TypeOK /\ JobsHaveOwners /\ PushesSent /\ Next => PushesSent'
  <1> SUFFICES ASSUME TypeOK, JobsHaveOwners, PushesSent, Next PROVE PushesSent'
    OBVIOUS
  <1>1. Grows /\ \A v \in Workers : Behind(v)
    BY HistoryGrows, BehindAll
  <1>2. \A x \in recorded' : sent'[x] > 0
    <2>1. \A x \in recorded : sent[x] > 0 /\ x \in Events \X Devices
      BY BehindAll DEF TypeOK
    <2>2. \A x \in recorded : sent'[x] > 0
      BY <1>1, <2>1 DEF Grows, TypeOK
    <2>3. recorded' = recorded \/ \E w \in Workers : Record(w)
      BY StepKinds DEF Works, Read, Publish, NextDevice, Send, SendInvalid, MarkPublished, Catch, Fail,
         FailOutside, WorkerCrash, Complete, Retry, Take, Stall, Insert, Reclaim, Requeue, Claim, RelayCrash,
         Enqueue, EnqueueFails
    <2>4. ASSUME NEW w \in Workers, Record(w)
          PROVE  \A x \in recorded' : sent'[x] > 0
      BY <1>1, <2>2, <2>4 DEF Record, Behind, history
    <2>5. QED
      BY <2>2, <2>3, <2>4
  <1>3. ASSUME NEW v \in Workers
        PROVE  Behind(v)'
    <2>1. CASE worker'[v] = worker[v]
      BY <1>1, <2>1, BehindStays
    <2>2. ASSUME NEW w \in Workers, Works(w)
          PROVE  Behind(v)'
      <3>1. v # w => worker'[v] = worker[v]
        BY <2>2, WorksFacts DEF GoesOn, OthersStay
      <3>2. QED
        BY <1>1, <2>1, <2>2, <3>1, BehindWorks
    <2>3. ASSUME NEW w \in Workers, WorkerCrash(w) \/ Complete(w) \/ Retry(w) \/ \E e \in Events : Take(w, e)
          PROVE  Behind(v)'
      <3>1. OthersStay(w) /\ worker'[w].pc \in {"idle", "read"}
        <4>1. CASE WorkerCrash(w)
          BY <4>1, IdleFacts, Defaults DEF WorkerCrash, LetsGo
        <4>2. CASE Complete(w) \/ Retry(w)
          BY <4>2, ReportFacts, Defaults DEF LetsGo
        <4>3. CASE \E e \in Events : Take(w, e)
          BY <4>3, TakeFacts
        <4>4. QED
          BY <2>3, <4>1, <4>2, <4>3
      <3>2. CASE v = w
        BY <3>1, <3>2 DEF Behind
      <3>3. CASE v # w
        BY <2>1, <3>1, <3>3 DEF OthersStay
      <3>4. QED
        BY <3>2, <3>3
    <2>4. CASE worker' = worker
      BY <2>1, <2>4
    <2>5. worker' = worker \/ \E w \in Workers :
            Works(w) \/ WorkerCrash(w) \/ Complete(w) \/ Retry(w) \/ \E e \in Events : Take(w, e)
      BY StepKinds DEF Stall, Insert, Reclaim, Requeue, Claim, RelayCrash, Enqueue, EnqueueFails
    <2>6. QED
      BY <2>2, <2>3, <2>4, <2>5
  <1>4. QED
    BY <1>2, <1>3, BehindAllNext

-----------------------------------------------------------------------------
(* Published and failed events                                             *)

\* A row becomes PUBLISHED by a worker that has sent every push.
LEMMA PublishedStep ==
  TypeOK /\ JobsHaveOwners /\ PushesSent /\ PublishedMeansDelivered /\ Next => PublishedMeansDelivered'
  <1> SUFFICES ASSUME TypeOK, JobsHaveOwners, PushesSent, PublishedMeansDelivered, Next,
                      NEW e \in Events, status'[e] = "PUBLISHED"
               PROVE  e \in published' /\ \A d \in active' : sent'[<<e, d>>] > 0
    BY DEF PublishedMeansDelivered
  <1>1. Grows
    BY HistoryGrows
  <1>2. e \in published /\ \A d \in active : sent[<<e, d>>] > 0
    <2>1. CASE status'[e] = status[e]
      BY <2>1 DEF PublishedMeansDelivered
    <2>2. CASE status'[e] # status[e]
      <3>1. StatusChange(e)
        BY <2>2, StatusMoves
      <3>2. PICK w \in Workers : Event(w) = e /\ MarkPublished(w)
        BY <3>1 DEF StatusChange
      <3>3. QED
        BY <3>2, BehindAll DEF MarkPublished, Behind
    <2>3. QED
      BY <2>1, <2>2
  <1>3. \A d \in active : d \in Devices /\ sent[<<e, d>>] \in Nat
    BY DEF TypeOK
  <1>4. QED
    BY <1>1, <1>2, <1>3 DEF Grows

\* A job never gets attempts back.
LEMMA AttemptsGrow ==
  TypeOK /\ JobsHaveOwners /\ Next => \A e \in Events : job'[e].attemptsMade >= job[e].attemptsMade
  <1> SUFFICES ASSUME TypeOK, JobsHaveOwners, Next, NEW e \in Events
               PROVE  job'[e].attemptsMade >= job[e].attemptsMade
    OBVIOUS
  <1>1. job[e].attemptsMade \in Nat
    BY Defaults DEF TypeOK, Job
  <1>2. CASE job' = job
    BY <1>1, <1>2
  <1>3. ASSUME NEW w \in Workers, Complete(w) \/ Retry(w)
        PROVE  job'[e].attemptsMade >= job[e].attemptsMade
    BY <1>1, <1>2, <1>3, ReportFacts DEF JobBecomes
  <1>4. ASSUME NEW w \in Workers, NEW f \in Events, Take(w, f)
        PROVE  job'[e].attemptsMade >= job[e].attemptsMade
    <2>1. job'[e].attemptsMade = job[e].attemptsMade
      BY <1>4, TakeFacts
    <2>2. QED
      BY <1>1, <2>1
  <1>5. ASSUME NEW f \in Events, Stall(f)
        PROVE  job'[e].attemptsMade >= job[e].attemptsMade
    <2>1. job'[e].attemptsMade = job[e].attemptsMade
      BY <1>5, StallFacts DEF JobBecomes
    <2>2. QED
      BY <1>1, <2>1
  <1>6. ASSUME NEW f \in Events, AddJob(f)
        PROVE  job'[e].attemptsMade >= job[e].attemptsMade
    <2>1. CASE job' # job
      <3>1. job[f].attemptsMade = 0 /\ JobBecomes(f, job'[f]) /\ job'[f].attemptsMade = 0
        BY <1>6, <2>1, AddFacts DEF JobsHaveOwners
      <3>2. job'[e].attemptsMade = job[e].attemptsMade
        BY <3>1 DEF JobBecomes
      <3>3. QED
        BY <1>1, <3>2
    <2>2. QED
      BY <1>2, <2>1
  <1>7. ASSUME NEW p \in Relays, Claim(p) \/ RelayCrash(p) \/ \E f \in Events : Enqueue(p, f) \/ EnqueueFails(p, f)
        PROVE  job'[e].attemptsMade >= job[e].attemptsMade
    BY <1>2, <1>6, <1>7 DEF Claim, RelayCrash, Enqueue, EnqueueFails
  <1>8. ASSUME NEW f \in Events, Insert(f) \/ Reclaim(f) \/ Requeue(f)
        PROVE  job'[e].attemptsMade >= job[e].attemptsMade
    BY <1>2, <1>8 DEF Insert, Reclaim, Requeue
  <1>9. ASSUME NEW w \in Workers, Works(w) \/ WorkerCrash(w)
        PROVE  job'[e].attemptsMade >= job[e].attemptsMade
    BY <1>2, <1>9, WorksFacts DEF WorkerCrash
  <1>10. QED
    BY <1>3, <1>4, <1>5, <1>7, <1>8, <1>9, StepKinds

\* A row becomes FAILED in the last attempt of its job.
LEMMA FailedStep ==
  TypeOK /\ JobsHaveOwners /\ FailedAfterAllAttempts /\ Next => FailedAfterAllAttempts'
  <1> SUFFICES ASSUME TypeOK, JobsHaveOwners, FailedAfterAllAttempts, Next,
                      NEW e \in Events, status'[e] = "FAILED"
               PROVE  job'[e].attemptsMade + 1 >= Attempts
    BY DEF FailedAfterAllAttempts
  <1>1. job[e].attemptsMade \in Nat /\ Attempts \in Nat /\ job'[e].attemptsMade \in Nat
    BY Defaults, MoveTypes DEF TypeOK, Job
  <1>2. job[e].attemptsMade + 1 >= Attempts
    <2>1. CASE status'[e] = status[e]
      BY <2>1 DEF FailedAfterAllAttempts
    <2>2. CASE status'[e] # status[e]
      <3>1. StatusChange(e)
        BY <2>2, StatusMoves
      <3>2. PICK w \in Workers : Event(w) = e /\ Catch(w) /\ Terminal(w)
        BY <3>1 DEF StatusChange
      <3>3. worker[w].attemptsMade <= job[e].attemptsMade /\ worker[w].attemptsMade \in Nat
        BY <3>2, Defaults DEF JobsHaveOwners, Catch, Busy, TypeOK, Worker
      <3>4. worker[w].attemptsMade + 1 >= Attempts
        BY <3>2 DEF Terminal
      <3>5. QED
        BY <1>1, <3>3, <3>4
    <2>3. QED
      BY <2>1, <2>2
  <1>3. QED
    BY <1>1, <1>2, AttemptsGrow

-----------------------------------------------------------------------------
(* One worker per event, and no push it need not repeat                    *)

\* Every busy worker has its job.
OwnJobs == \A w \in Workers : Busy(w) => Owns(w, Event(w))

\* A worker sends and records what is not on record.
Unrecorded == \A w \in Workers : worker[w].pc \in {"send", "record"} => Delivery(w) \notin recorded

\* A push is lost, on record or about to be.
Recording(w, x) == worker[w].pc = "record" /\ Delivery(w) = x
Counted(x) ==
  \/ sent[x] <= lost[x]
  \/ sent[x] = lost[x] + 1 /\ (x \in recorded \/ \E w \in Workers : Recording(w, x))

\* What SendsCounted says.
LEMMA SendsParts ==
  SendsCounted <=> (env.renewed => OwnJobs /\ Unrecorded /\ \A x \in Events \X Devices : Counted(x))
  BY DEF SendsCounted, OwnJobs, Unrecorded, Counted, Recording

\* The same after a step.
LEMMA SendsPartsNext ==
  SendsCounted' <=> (env'.renewed => OwnJobs' /\ Unrecorded' /\ \A x \in Events \X Devices : Counted(x)')
  BY DEF SendsCounted, OwnJobs, Unrecorded, Counted, Recording

\* Two workers that have their jobs have not the same.
LEMMA OwnersDiffer ==
  ASSUME OwnJobs, NEW v \in Workers, NEW w \in Workers, Busy(v), Busy(w), Event(v) = Event(w)
  PROVE  v = w
  BY DEF OwnJobs, Owns

\* A busy worker keeps its job as long as the job stays and it does.
LEMMA OwnsStays ==
  ASSUME OwnJobs, NEW v \in Workers, Busy(v), worker'[v].event = worker[v].event,
         job'[Event(v)] = job[Event(v)]
  PROVE  Owns(v, Event(v))'
  <1>1. Event(v)' = Event(v) /\ Owns(v, Event(v))
    BY DEF OwnJobs, Event
  <1>2. QED
    BY <1>1 DEF Owns

\* Workers keep their jobs where their locks are renewed.
LEMMA OwnsStep ==
  TypeOK /\ JobsHaveOwners /\ env.renewed /\ OwnJobs /\ Next => OwnJobs'
  <1> SUFFICES ASSUME TypeOK, JobsHaveOwners, env.renewed, OwnJobs, Next PROVE OwnJobs'
    OBVIOUS
  <1>1. \A v \in Workers : Busy(v) => Event(v) \in Events /\ job[Event(v)].state = "active" /\ job[Event(v)].owner = v
    BY DEF JobsHaveOwners, OwnJobs, Owns
  <1>2. ASSUME \A v \in Workers : Busy(v)' =>
                 Busy(v) /\ worker'[v].event = worker[v].event /\ job'[Event(v)] = job[Event(v)]
        PROVE  OwnJobs'
    BY <1>2, OwnsStays DEF OwnJobs
  <1>3. ASSUME NEW e \in Events, JobBecomes(e, job'[e]), worker' = worker, job[e].state # "active"
        PROVE  OwnJobs'
    BY <1>1, <1>2, <1>3 DEF JobBecomes, Busy
  <1>4. ASSUME NEW w \in Workers, Works(w)
        PROVE  OwnJobs'
    <2>1. PICK pc \in Phase : GoesOn(w, pc)
      BY <1>4, WorksFacts
    <2>2. \A v \in Workers : worker'[v].event = worker[v].event /\ (Busy(v)' => Busy(v))
      BY <1>4, <2>1, WorksFacts DEF GoesOn, OthersStay, Busy
    <2>3. QED
      BY <1>2, <1>4, <2>2, WorksFacts
  <1>5. ASSUME NEW w \in Workers, WorkerCrash(w)
        PROVE  OwnJobs'
    <2>1. LetsGo(w) /\ job' = job
      BY <1>5, IdleFacts DEF WorkerCrash
    <2>2. \A v \in Workers : Busy(v)' => worker'[v] = worker[v]
      BY <2>1, Defaults DEF LetsGo, OthersStay, Busy
    <2>3. QED
      BY <1>2, <2>1, <2>2 DEF Busy
  <1>6. ASSUME NEW w \in Workers, Complete(w) \/ Retry(w)
        PROVE  OwnJobs'
    <2>1. LetsGo(w) /\ Busy(w) /\ \A e \in Events \ {Event(w)} : job'[e] = job[e]
      BY <1>6, ReportFacts DEF JobBecomes
    <2>2. \A v \in Workers : Busy(v)' => v # w /\ worker'[v] = worker[v]
      BY <2>1, Defaults DEF LetsGo, OthersStay, Busy
    <2>3. \A v \in Workers : Busy(v)' => Busy(v) /\ Event(v) # Event(w)
      BY <2>1, <2>2, OwnersDiffer DEF Busy
    <2>4. QED
      BY <1>1, <1>2, <2>1, <2>2, <2>3
  <1>7. ASSUME NEW w \in Workers, NEW e \in Events, Take(w, e)
        PROVE  OwnJobs'
    <2>1. ASSUME NEW v \in Workers, Busy(v)'
          PROVE  Owns(v, Event(v))'
      <3>1. CASE v = w
        BY <1>7, <3>1, TakeFacts DEF Owns, Event
      <3>2. CASE v # w
        <4>1. worker'[v] = worker[v] /\ Busy(v)
          BY <1>7, <2>1, <3>2, TakeFacts DEF OthersStay, Busy
        <4>2. Event(v) # e /\ Event(v) \in Events
          BY <1>1, <1>7, <4>1 DEF Take
        <4>3. job'[Event(v)] = job[Event(v)]
          BY <1>7, <4>2, TakeFacts
        <4>4. QED
          BY <4>1, <4>3, OwnsStays
      <3>3. QED
        BY <3>1, <3>2
    <2>2. QED
      BY <2>1 DEF OwnJobs
  <1>8. ASSUME NEW e \in Events, Stall(e)
        PROVE  OwnJobs'
    <2>1. worker' = worker /\ JobBecomes(e, job'[e])
      BY <1>8, StallFacts DEF Stall
    <2>2. \A v \in Workers : Busy(v) => Event(v) # e
      BY <1>1, <1>8 DEF Stall, Owns
    <2>3. QED
      BY <1>1, <1>2, <2>1, <2>2 DEF JobBecomes, Busy
  <1>9. ASSUME job' = job, worker' = worker
        PROVE  OwnJobs'
    BY <1>2, <1>9 DEF Busy
  <1>10. ASSUME NEW p \in Relays, NEW e \in Events, Enqueue(p, e) \/ EnqueueFails(p, e)
         PROVE  OwnJobs'
    <2>1. worker' = worker /\ (job' = job \/ AddJob(e))
      BY <1>10 DEF Enqueue, EnqueueFails
    <2>2. QED
      BY <1>3, <1>9, <2>1, AddFacts
  <1>11. ASSUME NEW p \in Relays, Claim(p) \/ RelayCrash(p)
         PROVE  OwnJobs'
    BY <1>9, <1>11 DEF Claim, RelayCrash
  <1>12. ASSUME NEW e \in Events, Insert(e) \/ Reclaim(e) \/ Requeue(e)
         PROVE  OwnJobs'
    BY <1>9, <1>12 DEF Insert, Reclaim, Requeue
  <1>13. QED
    BY <1>4, <1>5, <1>6, <1>7, <1>8, <1>10, <1>11, <1>12, StepKinds

\* A record is written by the one worker that has the event.
LEMMA UnrecordedStep ==
  TypeOK /\ JobsHaveOwners /\ PushesSent /\ OwnJobs /\ Unrecorded /\ Next => Unrecorded'
  <1> SUFFICES ASSUME TypeOK, JobsHaveOwners, PushesSent, OwnJobs, Unrecorded, Next,
                      NEW v \in Workers, worker'[v].pc \in {"send", "record"}
               PROVE  Delivery(v)' \notin recorded'
    BY DEF Unrecorded
  <1>1. CASE worker'[v] = worker[v] /\ recorded' = recorded
    BY <1>1 DEF Unrecorded, Delivery, Event
  <1>2. CASE worker' = worker /\ recorded' = recorded
    BY <1>1, <1>2
  <1>3. ASSUME NEW w \in Workers, Record(w)
        PROVE  Delivery(v)' \notin recorded'
    <2>1. worker[w].todo \ {worker[w].device} \in SUBSET Devices /\ Busy(w)
      BY <1>3 DEF TypeOK, Worker, Record, Busy
    <2>2. GoesOn(w, "push")
      BY <1>3, <2>1, PushFacts DEF Record
    <2>3. v # w /\ worker'[v] = worker[v]
      BY <2>2 DEF GoesOn, OthersStay
    <2>4. Event(v) # Event(w)
      BY <2>1, <2>3, OwnersDiffer DEF Busy
    <2>5. Delivery(v) \notin recorded /\ Delivery(v)' = Delivery(v) /\ Delivery(v) # Delivery(w)
      BY <2>3, <2>4 DEF Unrecorded, Delivery, Event
    <2>6. QED
      BY <1>3, <2>5 DEF Record
  <1>4. ASSUME NEW w \in Workers, NextDevice(w)
        PROVE  Delivery(v)' \notin recorded'
    <2>1. PICK d \in worker[w].todo :
           \/ GoesOn(w, "push")
           \/ <<Event(w), d>> \notin recorded /\ GoesOn(w, "send") /\ worker'[w].device = d
      BY <1>4, NextDeviceFacts
    <2>2. recorded' = recorded
      BY <1>4 DEF NextDevice
    <2>3. CASE v = w
      BY <2>1, <2>2, <2>3 DEF GoesOn, Delivery, Event
    <2>4. CASE v # w
      BY <1>1, <2>1, <2>2, <2>4 DEF GoesOn, OthersStay
    <2>5. QED
      BY <2>3, <2>4
  <1>5. ASSUME NEW w \in Workers, Send(w)
        PROVE  Delivery(v)' \notin recorded'
    <2>1. GoesOn(w, "record") /\ worker'[w].device = worker[w].device
      BY <1>5, BecomeFacts DEF Send, Phase
    <2>2. recorded' = recorded /\ worker[w].pc = "send"
      BY <1>5 DEF Send
    <2>3. CASE v = w
      BY <2>1, <2>2, <2>3 DEF GoesOn, Delivery, Event, Unrecorded
    <2>4. CASE v # w
      BY <1>1, <2>1, <2>2, <2>4 DEF GoesOn, OthersStay
    <2>5. QED
      BY <2>3, <2>4
  <1>6. ASSUME NEW w \in Workers, NEW pc \in Phase \ {"send", "record"}, worker'[w].pc = pc, OthersStay(w),
               recorded' = recorded
        PROVE  Delivery(v)' \notin recorded'
    BY <1>1, <1>6 DEF OthersStay
  <1>7. ASSUME NEW w \in Workers, Works(w)
        PROVE  Delivery(v)' \notin recorded'
    <2>1. CASE Read(w) \/ MarkPublished(w) \/ Catch(w) \/ Fail(w) \/ FailOutside(w)
      <3>1. PICK pc \in {"finish", "publish", "retry", "catch"} : Become(w, pc)
        BY <2>1 DEF Read, MarkPublished, Catch, Fail, FailOutside
      <3>2. worker'[w].pc = pc /\ OthersStay(w)
        BY <3>1, BecomeFacts DEF Phase, GoesOn
      <3>3. recorded' = recorded
        BY <2>1 DEF Read, MarkPublished, Catch, Fail, FailOutside
      <3>4. QED
        BY <1>6, <3>2, <3>3 DEF Phase
    <2>2. CASE Publish(w) \/ SendInvalid(w)
      <3>1. PICK todo \in SUBSET Devices : worker' = [worker EXCEPT ![w].pc = "push", ![w].todo = todo]
        <4>1. active \in SUBSET Devices /\ worker[w].todo \ {worker[w].device} \in SUBSET Devices
          BY DEF TypeOK, Worker
        <4>2. QED
          BY <2>2, <4>1 DEF Publish, SendInvalid
      <3>2. worker'[w].pc = "push" /\ OthersStay(w)
        BY <3>1, PushFacts DEF GoesOn
      <3>3. recorded' = recorded
        BY <2>2 DEF Publish, SendInvalid
      <3>4. QED
        BY <1>6, <3>2, <3>3 DEF Phase
    <2>3. QED
      BY <1>3, <1>4, <1>5, <1>7, <2>1, <2>2 DEF Works
  <1>8. ASSUME NEW w \in Workers, WorkerCrash(w) \/ Complete(w) \/ Retry(w) \/ \E e \in Events : Take(w, e)
        PROVE  Delivery(v)' \notin recorded'
    <2>1. OthersStay(w) /\ worker'[w].pc \in {"idle", "read"}
      <3>1. CASE WorkerCrash(w)
        BY <3>1, IdleFacts, Defaults DEF WorkerCrash, LetsGo
      <3>2. CASE Complete(w) \/ Retry(w)
        BY <3>2, ReportFacts, Defaults DEF LetsGo
      <3>3. CASE \E e \in Events : Take(w, e)
        BY <3>3, TakeFacts
      <3>4. QED
        BY <1>8, <3>1, <3>2, <3>3
    <2>2. recorded' = recorded
      BY <1>8 DEF WorkerCrash, Complete, Retry, Take
    <2>3. QED
      BY <1>6, <2>1, <2>2 DEF Phase
  <1>9. ASSUME NEW e \in Events, Stall(e) \/ Insert(e) \/ Reclaim(e) \/ Requeue(e)
        PROVE  Delivery(v)' \notin recorded'
    BY <1>2, <1>9 DEF Stall, Insert, Reclaim, Requeue
  <1>10. ASSUME NEW p \in Relays, Claim(p) \/ RelayCrash(p) \/ \E e \in Events : Enqueue(p, e) \/ EnqueueFails(p, e)
         PROVE  Delivery(v)' \notin recorded'
    BY <1>2, <1>10 DEF Claim, RelayCrash, Enqueue, EnqueueFails
  <1>11. QED
    BY <1>7, <1>8, <1>9, <1>10, StepKinds

\* The count of a push holds while the push is about to be recorded, or is.
LEMMA CountedStays ==
  ASSUME NEW x \in Events \X Devices, Counted(x), sent'[x] = sent[x], lost'[x] = lost[x],
         recorded \subseteq recorded',
         \A w \in Workers : Recording(w, x) => worker'[w] = worker[w] \/ x \in recorded'
  PROVE  Counted(x)'
  <1>1. \A w \in Workers : worker'[w] = worker[w] => (Recording(w, x) => Recording(w, x)')
    BY DEF Recording, Delivery, Event
  <1>2. (sent[x] <= lost[x])' <=> sent[x] <= lost[x]
    OBVIOUS
  <1>3. CASE sent[x] <= lost[x]
    BY <1>2, <1>3 DEF Counted
  <1>4. CASE sent[x] = lost[x] + 1 /\ (x \in recorded \/ \E w \in Workers : Recording(w, x))
    <2>1. sent'[x] = lost'[x] + 1
      BY <1>4
    <2>2. x \in recorded' \/ \E w \in Workers : Recording(w, x)'
      BY <1>1, <1>4
    <2>3. QED
      BY <2>1, <2>2 DEF Counted
  <1>5. QED
    BY <1>3, <1>4 DEF Counted

\* A push that is not recorded is lost.
LEMMA CountedLoss ==
  ASSUME TypeOK, JobsHaveOwners, PushesSent, NEW w \in Workers, LoseRecord(w), OthersStay(w),
         sent' = sent, recorded' = recorded,
         NEW x \in Events \X Devices, Counted(x)
  PROVE  Counted(x)'
  <1>1. CASE ~ Recording(w, x)
    <2>1. lost'[x] = lost[x]
      <3>1. CASE worker[w].pc = "record"
        BY <1>1, <3>1 DEF LoseRecord, Recording, TypeOK
      <3>2. CASE worker[w].pc # "record"
        BY <3>2 DEF LoseRecord
      <3>3. QED
        BY <3>1, <3>2
    <2>2. QED
      BY <1>1, <2>1, CountedStays DEF OthersStay
  <1>2. CASE Recording(w, x)
    <2>1. lost'[x] = lost[x] + 1 /\ sent'[x] = sent[x] /\ lost[x] \in Nat /\ sent[x] \in Nat
      BY <1>2 DEF Recording, LoseRecord, TypeOK
    <2>2. sent[x] <= lost[x] + 1
      BY <2>1 DEF Counted
    <2>3. sent'[x] <= lost'[x]
      BY <2>1, <2>2
    <2>4. QED
      BY <2>3 DEF Counted
  <1>3. QED
    BY <1>1, <1>2

\* Every push stays counted.
LEMMA CountedStep ==
  ASSUME TypeOK, JobsHaveOwners, PushesSent, OwnJobs, Unrecorded, Next,
         NEW x \in Events \X Devices, Counted(x)
  PROVE  Counted(x)'
  <1>1. ASSUME NEW w \in Workers, OthersStay(w), worker[w].pc # "record", UNCHANGED <<sent, lost, recorded>>
        PROVE  Counted(x)'
    BY <1>1, CountedStays DEF OthersStay, Recording
  <1>2. CASE UNCHANGED <<sent, lost, recorded, worker>>
    BY <1>2, CountedStays
  <1>3. ASSUME NEW w \in Workers, Send(w)
        PROVE  Counted(x)'
    <2>1. /\ GoesOn(w, "record") /\ worker'[w].device = worker[w].device
      BY <1>3, BecomeFacts DEF Send, Phase
    <2>2. lost' = lost /\ recorded' = recorded /\ worker[w].pc = "send"
      BY <1>3 DEF Send
    <2>3. sent' = [sent EXCEPT ![Delivery(w)] = sent[Delivery(w)] + 1] /\ sent[x] \in Nat /\ lost[x] \in Nat
      BY <1>3 DEF Send, TypeOK
    <2>4. CASE x # Delivery(w)
      <3>1. sent'[x] = sent[x] /\ lost'[x] = lost[x]
        BY <2>2, <2>3, <2>4 DEF TypeOK
      <3>2. QED
        BY <2>1, <2>2, <3>1, CountedStays DEF GoesOn, OthersStay, Recording
    <2>5. CASE x = Delivery(w)
      <3>1. sent'[x] = sent[x] + 1
        BY <2>3, <2>5 DEF TypeOK
      <3>2. x \notin recorded
        BY <2>2, <2>5 DEF Unrecorded
      <3>3. \A v \in Workers : ~ Recording(v, x)
        <4>1. SUFFICES ASSUME NEW v \in Workers, Recording(v, x) PROVE FALSE
          OBVIOUS
        <4>2. Event(v) = Event(w) /\ Busy(v) /\ Busy(w)
          BY <2>2, <2>5, <4>1 DEF Recording, Delivery, Busy
        <4>3. QED
          BY <2>2, <4>1, <4>2, OwnersDiffer DEF Recording
      <3>4. sent[x] <= lost[x]
        BY <3>2, <3>3 DEF Counted
      <3>5. Recording(w, x)'
        BY <2>1, <2>5 DEF GoesOn, Recording, Delivery, Event
      <3>6. sent'[x] <= lost'[x] \/ sent'[x] = lost'[x] + 1
        BY <2>2, <2>3, <3>1, <3>4
      <3>7. QED
        BY <3>5, <3>6 DEF Counted
    <2>6. QED
      BY <2>4, <2>5
  <1>4. ASSUME NEW w \in Workers, Record(w)
        PROVE  Counted(x)'
    <2>1. worker[w].todo \ {worker[w].device} \in SUBSET Devices
      BY DEF TypeOK, Worker
    <2>2. GoesOn(w, "push")
      BY <1>4, <2>1, PushFacts DEF Record
    <2>3. UNCHANGED <<sent, lost>> /\ recorded' = recorded \cup {Delivery(w)}
      BY <1>4 DEF Record, history
    <2>4. QED
      BY <2>2, <2>3, CountedStays DEF GoesOn, OthersStay, Recording
  <1>5. ASSUME NEW w \in Workers, Works(w)
        PROVE  Counted(x)'
    <2>1. OthersStay(w)
      BY <1>5, WorksFacts DEF GoesOn
    <2>2. CASE Fail(w)
      BY <2>1, <2>2, CountedLoss DEF Fail
    <2>3. CASE Read(w) \/ Publish(w) \/ NextDevice(w) \/ SendInvalid(w) \/ MarkPublished(w) \/ Catch(w) \/ FailOutside(w)
      <3>1. worker[w].pc # "record" /\ UNCHANGED <<sent, lost, recorded>>
        BY <2>3 DEF Read, Publish, NextDevice, SendInvalid, MarkPublished, Catch, FailOutside, history
      <3>2. QED
        BY <1>1, <2>1, <3>1
    <2>4. QED
      BY <1>3, <1>4, <1>5, <2>2, <2>3 DEF Works
  <1>6. ASSUME NEW w \in Workers, WorkerCrash(w)
        PROVE  Counted(x)'
    <2>1. OthersStay(w)
      BY <1>6, IdleFacts DEF WorkerCrash, LetsGo
    <2>2. QED
      BY <1>6, <2>1, CountedLoss DEF WorkerCrash
  <1>7. ASSUME NEW w \in Workers, Complete(w) \/ Retry(w)
        PROVE  Counted(x)'
    <2>1. OthersStay(w)
      BY <1>7, ReportFacts DEF LetsGo
    <2>2. worker[w].pc # "record" /\ UNCHANGED <<sent, lost, recorded>>
      BY <1>7 DEF Complete, Retry, history
    <2>3. QED
      BY <1>1, <2>1, <2>2
  <1>8. ASSUME NEW w \in Workers, NEW e \in Events, Take(w, e)
        PROVE  Counted(x)'
    <2>1. OthersStay(w)
      BY <1>8, TakeFacts
    <2>2. worker[w].pc # "record" /\ UNCHANGED <<sent, lost, recorded>>
      BY <1>8 DEF Take, history
    <2>3. QED
      BY <1>1, <2>1, <2>2
  <1>9. ASSUME NEW e \in Events, Stall(e) \/ Insert(e) \/ Reclaim(e) \/ Requeue(e)
        PROVE  Counted(x)'
    BY <1>2, <1>9 DEF Stall, Insert, Reclaim, Requeue, history
  <1>10. ASSUME NEW p \in Relays, Claim(p) \/ RelayCrash(p) \/ \E e \in Events : Enqueue(p, e) \/ EnqueueFails(p, e)
         PROVE  Counted(x)'
    BY <1>2, <1>10 DEF Claim, RelayCrash, Enqueue, EnqueueFails, history
  <1>11. QED
    BY <1>5, <1>6, <1>7, <1>8, <1>9, <1>10, StepKinds

\* Where locks are renewed, workers have their jobs and pushes are counted.
LEMMA SendsStep ==
  TypeOK /\ JobsHaveOwners /\ PushesSent /\ SendsCounted /\ Next => SendsCounted'
  <1> SUFFICES ASSUME TypeOK, JobsHaveOwners, PushesSent, SendsCounted, Next, env'.renewed
               PROVE  OwnJobs' /\ Unrecorded' /\ \A x \in Events \X Devices : Counted(x)'
    BY SendsPartsNext
  <1>1. env.renewed /\ OwnJobs /\ Unrecorded /\ \A x \in Events \X Devices : Counted(x)
    BY BoundTypes, SendsParts
  <1>2. QED
    BY <1>1, OwnsStep, UnrecordedStep, CountedStep

-----------------------------------------------------------------------------
(* A calm environment                                                      *)

Calm == env.timely /\ env.renewed /\ env.reliable

\* No two relays have the same row, a row of a relay has no live job, and
\* neither has one that waits.
RowsExclude ==
  /\ \A p, q \in Relays : relay[p] \cap relay[q] # {} => p = q
  /\ \A e \in Events :
       /\ \A p \in Relays : e \in relay[p] => status[e] = "PROCESSING" /\ ~ Live(e)
       /\ status[e] \in {"NONE", "PENDING"} => ~ Live(e)

\* Who delivers an event has not published it yet.
Delivers(w) == worker[w].pc \in {"publish", "push", "send", "record", "catch"}
Undelivered == \A w \in Workers : Delivers(w) => status[Event(w)] # "PUBLISHED"

\* What RelaysExclude says.
LEMMA RelaysParts == RelaysExclude <=> (Calm => RowsExclude /\ Undelivered)
  BY DEF RelaysExclude, Calm, RowsExclude, Undelivered, Delivers, InRelay

\* The same after a step.
LEMMA RelaysPartsNext == RelaysExclude' <=> (Calm' => RowsExclude' /\ Undelivered')
  BY DEF RelaysExclude, Calm, RowsExclude, Undelivered, Delivers, InRelay

\* The rows stay apart when no job comes to life and what changes status had a
\* live job.
LEMMA RowsStay ==
  ASSUME RowsExclude, relay' = relay,
         \A e \in Events : Live(e)' => Live(e),
         \A e \in Events : status'[e] # status[e] => Live(e) /\ status'[e] \notin {"NONE", "PENDING"}
  PROVE  RowsExclude'
  <1>1. \A p, q \in Relays : relay'[p] \cap relay'[q] # {} => p = q
    BY DEF RowsExclude
  <1>2. ASSUME NEW e \in Events
        PROVE  /\ \A p \in Relays : e \in relay'[p] => status'[e] = "PROCESSING" /\ ~ Live(e)'
               /\ status'[e] \in {"NONE", "PENDING"} => ~ Live(e)'
    BY DEF RowsExclude
  <1>3. QED
    BY <1>1, <1>2 DEF RowsExclude

\* They do when one row that is free of relays and jobs starts to wait.
LEMMA RowsWait ==
  ASSUME TypeOK, RowsExclude, NEW e \in Events, ~ Live(e), job' = job,
         status' = [status EXCEPT ![e] = "PENDING"],
         \A p \in Relays : e \notin relay'[p] /\ relay'[p] \subseteq relay[p]
  PROVE  RowsExclude'
  <1>1. \A f \in Events : Live(f)' <=> Live(f)
    BY DEF Live
  <1>2. ASSUME NEW p \in Relays, NEW q \in Relays, relay'[p] \cap relay'[q] # {}
        PROVE  p = q
    <2>1. relay'[p] \subseteq relay[p] /\ relay'[q] \subseteq relay[q]
      OBVIOUS
    <2>2. relay[p] \cap relay[q] # {}
      BY <1>2, <2>1
    <2>3. QED
      BY <2>2 DEF RowsExclude
  <1>3. ASSUME NEW f \in Events
        PROVE  /\ \A p \in Relays : f \in relay'[p] => status'[f] = "PROCESSING" /\ ~ Live(f)'
               /\ status'[f] \in {"NONE", "PENDING"} => ~ Live(f)'
    <2>1. CASE f = e
      BY <1>1, <2>1
    <2>2. CASE f # e
      <3>1. status'[f] = status[f]
        BY <2>2 DEF TypeOK
      <3>2. QED
        BY <1>1, <3>1 DEF RowsExclude
    <2>3. QED
      BY <2>1, <2>2
  <1>4. QED
    BY <1>2, <1>3 DEF RowsExclude

\* A relay takes rows that no other has.
LEMMA RowsClaim ==
  ASSUME TypeOK, RowsExclude, NEW p \in Relays, Claim(p)
  PROVE  RowsExclude'
  <1>1. /\ relay' = [relay EXCEPT ![p] = Pending] /\ relay[p] = {} /\ job' = job
        /\ status' = [e \in Events |-> IF e \in Pending THEN "PROCESSING" ELSE status[e]]
    BY DEF Claim
  <1>2. \A f \in Events : Live(f)' <=> Live(f)
    BY <1>1 DEF Live
  <1>3. \A f \in Events : f \in Pending <=> status[f] = "PENDING"
    BY DEF Pending
  <1>4. \A q \in Relays \ {p} : relay'[q] = relay[q] /\ relay'[q] \cap Pending = {}
    <2>1. \A q \in Relays \ {p} : relay'[q] = relay[q] /\ relay[q] \subseteq Events
      BY <1>1 DEF TypeOK
    <2>2. QED
      BY <1>3, <2>1 DEF RowsExclude
  <1>5. relay'[p] = Pending
    BY <1>1 DEF TypeOK
  <1>6. ASSUME NEW q \in Relays, NEW r \in Relays, relay'[q] \cap relay'[r] # {}
        PROVE  q = r
    BY <1>4, <1>5, <1>6 DEF RowsExclude
  <1>7. ASSUME NEW f \in Events
        PROVE  /\ \A q \in Relays : f \in relay'[q] => status'[f] = "PROCESSING" /\ ~ Live(f)'
               /\ status'[f] \in {"NONE", "PENDING"} => ~ Live(f)'
    <2>1. \A q \in Relays : f \in relay'[q] => f \in Pending \/ f \in relay[q]
      BY <1>4, <1>5
    <2>2. QED
      BY <1>1, <1>2, <1>3, <2>1 DEF RowsExclude
  <1>8. QED
    BY <1>6, <1>7 DEF RowsExclude

\* A row that gets a job is out of the hands of every relay.
LEMMA RowsEnqueue ==
  ASSUME TypeOK, JobsHaveOwners, RowsExclude, NEW p \in Relays, NEW e \in Events, Enqueue(p, e)
  PROVE  RowsExclude'
  <1>1. relay' = [relay EXCEPT ![p] = relay[p] \ {e}] /\ e \in relay[p] /\ status' = status /\ AddJob(e)
    BY DEF Enqueue
  <1>2. \A q \in Relays : relay'[q] \subseteq relay[q] /\ e \notin relay'[q]
    <2>1. \A q \in Relays : e \in relay[q] => q = p
      BY <1>1 DEF RowsExclude
    <2>2. QED
      BY <1>1, <2>1 DEF TypeOK
  <1>3. \A f \in Events \ {e} : Live(f)' <=> Live(f)
    BY <1>1, AddFacts DEF Live, JobBecomes
  <1>4. status[e] = "PROCESSING"
    BY <1>1 DEF RowsExclude
  <1>5. ASSUME NEW q \in Relays, NEW r \in Relays, relay'[q] \cap relay'[r] # {}
        PROVE  q = r
    <2>1. relay'[q] \subseteq relay[q] /\ relay'[r] \subseteq relay[r]
      BY <1>2
    <2>2. relay[q] \cap relay[r] # {}
      BY <1>5, <2>1
    <2>3. QED
      BY <2>2 DEF RowsExclude
  <1>6. ASSUME NEW f \in Events
        PROVE  /\ \A q \in Relays : f \in relay'[q] => status'[f] = "PROCESSING" /\ ~ Live(f)'
               /\ status'[f] \in {"NONE", "PENDING"} => ~ Live(f)'
    <2>1. CASE f = e
      BY <1>1, <1>2, <1>4, <2>1
    <2>2. CASE f # e
      BY <1>1, <1>2, <1>3, <2>2 DEF RowsExclude
    <2>3. QED
      BY <2>1, <2>2
  <1>7. QED
    BY <1>5, <1>6 DEF RowsExclude

\* Rows stay apart.
LEMMA RowsStep ==
  TypeOK /\ JobsHaveOwners /\ Calm /\ OwnJobs /\ RowsExclude /\ Next => RowsExclude'
  <1> SUFFICES ASSUME TypeOK, JobsHaveOwners, Calm, OwnJobs, RowsExclude, Next PROVE RowsExclude'
    OBVIOUS
  <1>1. \A w \in Workers : Busy(w) => Event(w) \in Events /\ Live(Event(w))
    BY DEF JobsHaveOwners, OwnJobs, Owns, Live
  <1>2. ASSUME NEW w \in Workers, Works(w)
        PROVE  RowsExclude'
    <2>1. relay' = relay /\ job' = job /\ Busy(w)
      BY <1>2, WorksFacts
    <2>2. ASSUME NEW e \in Events, status'[e] # status[e]
          PROVE  Live(e) /\ status'[e] \notin {"NONE", "PENDING"}
      <3>1. StatusChange(e)
        BY <2>2, StatusMoves
      <3>2. status' = status \/ MarkPublished(w) \/ Catch(w)
        BY <1>2 DEF Works, Read, Publish, NextDevice, Send, SendInvalid, Record, Fail, FailOutside
      <3>3. PICK s \in {"PUBLISHED", "FAILED", "PROCESSING"} : status' = [status EXCEPT ![Event(w)] = s]
        BY <2>2, <3>2 DEF MarkPublished, Catch
      <3>4. Event(w) = e /\ status'[e] = s
        BY <2>2, <3>3 DEF TypeOK
      <3>5. QED
        BY <1>1, <2>1, <3>4
    <2>3. \A e \in Events : Live(e)' => Live(e)
      BY <2>1 DEF Live
    <2>4. QED
      BY <2>1, <2>2, <2>3, RowsStay
  <1>3. ASSUME relay' = relay, status' = status, \A e \in Events : Live(e)' => Live(e)
        PROVE  RowsExclude'
    BY <1>3, RowsStay
  <1>4. ASSUME NEW w \in Workers, WorkerCrash(w) \/ Complete(w) \/ Retry(w) \/ \E e \in Events : Take(w, e)
        PROVE  RowsExclude'
    <2>1. relay' = relay /\ status' = status
      BY <1>4 DEF WorkerCrash, Complete, Retry, Take
    <2>2. ASSUME NEW e \in Events
          PROVE  Live(e)' => Live(e)
      <3>1. CASE WorkerCrash(w)
        BY <3>1 DEF WorkerCrash, Live
      <3>2. CASE Complete(w) \/ Retry(w)
        <4>1. job'[e] = job[e] \/ (e = Event(w) /\ Busy(w))
          BY <3>2, ReportFacts DEF JobBecomes
        <4>2. QED
          BY <1>1, <4>1 DEF Live
      <3>3. ASSUME NEW f \in Events, Take(w, f)
            PROVE  Live(e)' => Live(e)
        <4>1. job[f].state = "waiting"
          BY <3>3 DEF Take
        <4>2. job'[e] = job[e] \/ e = f
          BY <3>3, TakeFacts
        <4>3. QED
          BY <4>1, <4>2 DEF Live
      <3>4. QED
        BY <1>4, <3>1, <3>2, <3>3
    <2>3. QED
      BY <1>3, <2>1, <2>2
  <1>5. ASSUME NEW e \in Events, Stall(e)
        PROVE  RowsExclude'
    <2>1. relay' = relay /\ status' = status /\ job[e].state = "active"
      BY <1>5 DEF Stall
    <2>2. \A f \in Events : job'[f] = job[f] \/ f = e
      BY <1>5, StallFacts DEF JobBecomes
    <2>3. \A f \in Events : Live(f)' => Live(f)
      BY <2>1, <2>2 DEF Live
    <2>4. QED
      BY <1>3, <2>1, <2>3
  <1>6. ASSUME NEW e \in Events, Insert(e) \/ Reclaim(e) \/ Requeue(e)
        PROVE  RowsExclude'
    <2>1. job' = job /\ relay' = relay /\ status' = [status EXCEPT ![e] = "PENDING"]
      BY <1>6 DEF Insert, Reclaim, Requeue
    <2>2. status[e] # "PROCESSING" \/ ~ InRelay(e)
      BY <1>6 DEF Insert, Reclaim, Requeue, Calm
    <2>3. \A p \in Relays : e \notin relay[p]
      BY <2>2 DEF InRelay, RowsExclude
    <2>4. ~ Live(e)
      BY <1>6 DEF Insert, Reclaim, Requeue, Calm, RowsExclude
    <2>5. QED
      BY <2>1, <2>3, <2>4, RowsWait
  <1>7. ASSUME NEW p \in Relays, NEW e \in Events, EnqueueFails(p, e)
        PROVE  RowsExclude'
    <2>1. /\ job' = job /\ status' = [status EXCEPT ![e] = "PENDING"] /\ e \in relay[p]
          /\ relay' = [relay EXCEPT ![p] = relay[p] \ {e}]
      BY <1>7 DEF EnqueueFails, Calm
    <2>2. \A q \in Relays : e \in relay[q] => q = p
      BY <2>1 DEF RowsExclude
    <2>3. \A q \in Relays : e \notin relay'[q] /\ relay'[q] \subseteq relay[q]
      BY <2>1, <2>2 DEF TypeOK
    <2>4. ~ Live(e)
      BY <2>1 DEF RowsExclude
    <2>5. QED
      BY <2>1, <2>3, <2>4, RowsWait
  <1>8. ASSUME NEW p \in Relays, RelayCrash(p)
        PROVE  RowsExclude'
    <2>1. relay' = [relay EXCEPT ![p] = {}] /\ job' = job /\ status' = status
      BY <1>8 DEF RelayCrash
    <2>2. \A q \in Relays : relay'[q] \subseteq relay[q]
      BY <2>1 DEF TypeOK
    <2>3. \A f \in Events : Live(f)' <=> Live(f)
      BY <2>1 DEF Live
    <2>4. ASSUME NEW q \in Relays, NEW r \in Relays, relay'[q] \cap relay'[r] # {}
          PROVE  q = r
      <3>1. relay'[q] \subseteq relay[q] /\ relay'[r] \subseteq relay[r]
        BY <2>2
      <3>2. relay[q] \cap relay[r] # {}
        BY <2>4, <3>1
      <3>3. QED
        BY <3>2 DEF RowsExclude
    <2>5. ASSUME NEW f \in Events
          PROVE  /\ \A q \in Relays : f \in relay'[q] => status'[f] = "PROCESSING" /\ ~ Live(f)'
                 /\ status'[f] \in {"NONE", "PENDING"} => ~ Live(f)'
      BY <2>1, <2>2, <2>3 DEF RowsExclude
    <2>6. QED
      BY <2>4, <2>5 DEF RowsExclude
  <1>9. QED
    BY <1>2, <1>4, <1>5, <1>6, <1>7, <1>8, RowsClaim, RowsEnqueue, StepKinds

\* Nobody publishes the event another delivers, and nobody delivers one that is
\* published.
LEMMA UndeliveredStep ==
  TypeOK /\ JobsHaveOwners /\ OwnJobs /\ Undelivered /\ Next => Undelivered'
  <1> SUFFICES ASSUME TypeOK, JobsHaveOwners, OwnJobs, Undelivered, Next, NEW v \in Workers, Delivers(v)'
               PROVE  status'[Event(v)'] # "PUBLISHED"
    BY DEF Undelivered
  <1>1. ASSUME worker'[v] = worker[v]
        PROVE  status'[Event(v)'] # "PUBLISHED"
    <2>1. Event(v)' = Event(v) /\ Delivers(v) /\ Busy(v) /\ Event(v) \in Events
      BY <1>1 DEF Event, Delivers, Busy, JobsHaveOwners
    <2>2. CASE status'[Event(v)] = status[Event(v)]
      BY <2>1, <2>2 DEF Undelivered
    <2>3. CASE status'[Event(v)] # status[Event(v)]
      <3>1. StatusChange(Event(v))
        BY <2>1, <2>3, StatusMoves
      <3>2. ASSUME NEW w \in Workers, MarkPublished(w), Event(w) = Event(v)
            PROVE  FALSE
        <4>1. v = w
          BY <2>1, <3>2, OwnersDiffer DEF MarkPublished, Busy
        <4>2. worker'[w].pc = "finish"
          BY <3>2, BecomeFacts DEF MarkPublished, Phase, GoesOn
        <4>3. QED
          BY <4>1, <4>2 DEF Delivers
      <3>3. QED
        BY <2>1, <3>1, <3>2 DEF StatusChange
    <2>4. QED
      BY <2>2, <2>3
  <1>2. CASE worker' = worker
    BY <1>1, <1>2
  <1>3. ASSUME NEW w \in Workers, OthersStay(w),
               v = w => Delivers(v) /\ worker'[v].event = worker[v].event /\ status' = status
        PROVE  status'[Event(v)'] # "PUBLISHED"
    <2>1. CASE v = w
      BY <1>3, <2>1 DEF Undelivered, Event
    <2>2. CASE v # w
      BY <1>1, <1>3, <2>2 DEF OthersStay
    <2>3. QED
      BY <2>1, <2>2
  <1>4. ASSUME NEW w \in Workers, Works(w)
        PROVE  status'[Event(v)'] # "PUBLISHED"
    <2>1. PICK pc \in Phase : GoesOn(w, pc)
      BY <1>4, WorksFacts
    <2>2. OthersStay(w) /\ worker'[w].event = worker[w].event
      BY <2>1 DEF GoesOn
    <2>3. CASE MarkPublished(w) \/ Catch(w) \/ FailOutside(w)
      <3>1. PICK c \in {"finish", "retry"} : Become(w, c)
        BY <2>3 DEF MarkPublished, Catch, FailOutside
      <3>2. worker'[w].pc = c
        BY <3>1, BecomeFacts DEF Phase, GoesOn
      <3>3. v # w
        BY <3>2 DEF Delivers
      <3>4. QED
        BY <1>3, <2>2, <3>3
    <2>4. CASE Publish(w) \/ NextDevice(w) \/ Send(w) \/ SendInvalid(w) \/ Record(w) \/ Fail(w)
      <3>1. Delivers(w) /\ status' = status
        BY <2>4 DEF Publish, NextDevice, Send, SendInvalid, Record, Fail, Delivers
      <3>2. QED
        BY <1>3, <2>2, <3>1
    <2>5. CASE Read(w)
      <3>1. status' = status /\ Become(w, IF status[Event(w)] = "PUBLISHED" THEN "finish" ELSE "publish")
        BY <2>5 DEF Read
      <3>2. worker'[w].pc = IF status[Event(w)] = "PUBLISHED" THEN "finish" ELSE "publish"
        BY <3>1, BecomeFacts DEF Phase, GoesOn
      <3>3. CASE v = w
        BY <2>2, <3>1, <3>2, <3>3 DEF Delivers, Event
      <3>4. CASE v # w
        BY <1>3, <2>2, <3>4
      <3>5. QED
        BY <3>3, <3>4
    <2>6. QED
      BY <1>4, <2>3, <2>4, <2>5 DEF Works
  <1>5. ASSUME NEW w \in Workers, WorkerCrash(w) \/ Complete(w) \/ Retry(w) \/ \E e \in Events : Take(w, e)
        PROVE  status'[Event(v)'] # "PUBLISHED"
    <2>1. OthersStay(w) /\ worker'[w].pc \in {"idle", "read"}
      <3>1. CASE WorkerCrash(w)
        BY <3>1, IdleFacts, Defaults DEF WorkerCrash, LetsGo
      <3>2. CASE Complete(w) \/ Retry(w)
        BY <3>2, ReportFacts, Defaults DEF LetsGo
      <3>3. CASE \E e \in Events : Take(w, e)
        BY <3>3, TakeFacts
      <3>4. QED
        BY <1>5, <3>1, <3>2, <3>3
    <2>2. v # w
      BY <2>1 DEF Delivers
    <2>3. QED
      BY <1>3, <2>1, <2>2
  <1>6. ASSUME NEW e \in Events, Stall(e) \/ Insert(e) \/ Reclaim(e) \/ Requeue(e)
        PROVE  status'[Event(v)'] # "PUBLISHED"
    BY <1>2, <1>6 DEF Stall, Insert, Reclaim, Requeue
  <1>7. ASSUME NEW p \in Relays, Claim(p) \/ RelayCrash(p) \/ \E e \in Events : Enqueue(p, e) \/ EnqueueFails(p, e)
        PROVE  status'[Event(v)'] # "PUBLISHED"
    BY <1>2, <1>7 DEF Claim, RelayCrash, Enqueue, EnqueueFails
  <1>8. QED
    BY <1>4, <1>5, <1>6, <1>7, StepKinds

\* A calm environment keeps relays and workers out of each other's way.
LEMMA RelaysStep ==
  TypeOK /\ JobsHaveOwners /\ SendsCounted /\ RelaysExclude /\ Next => RelaysExclude'
  <1> SUFFICES ASSUME TypeOK, JobsHaveOwners, SendsCounted, RelaysExclude, Next, Calm'
               PROVE  RowsExclude' /\ Undelivered'
    BY RelaysPartsNext
  <1>1. Calm /\ RowsExclude /\ Undelivered
    BY BoundTypes, RelaysParts DEF Calm
  <1>2. OwnJobs
    BY <1>1, SendsParts DEF Calm
  <1>3. QED
    BY <1>1, <1>2, RowsStep, UndeliveredStep

-----------------------------------------------------------------------------
(* The invariant                                                           *)

\* It holds before the first event.
LEMMA InitIInv == Init => IInv
  <1> SUFFICES ASSUME Init PROVE IInv
    OBVIOUS
  <1>1. /\ \A e \in Events : status[e] = "NONE" /\ job[e] = NoJob
        /\ \A w \in Workers : worker[w] = IdleWorker
        /\ \A p \in Relays : relay[p] = {}
        /\ \A x \in Events \X Devices : sent[x] = 0 /\ lost[x] = 0
        /\ recorded = {}
    BY DEF Init
  <1>2. TypeOK
    BY Defaults DEF Init, TypeOK, OutboxStatus
  <1>3. JobsHaveOwners
    <2>1. \A e \in Events : job[e].state = "none" /\ job[e].owner \notin Workers /\ job[e].attemptsMade = 0
      BY <1>1, Defaults
    <2>2. \A w \in Workers : ~ Busy(w)
      BY <1>1, Defaults DEF Busy
    <2>3. QED
      BY <2>1, <2>2 DEF JobsHaveOwners, Live
  <1>4. PushesSent /\ IdleForget
    BY <1>1, Defaults DEF PushesSent, IdleForget, Event
  <1>5. SendsCounted
    <2>1. OwnJobs /\ Unrecorded
      BY <1>1, Defaults DEF OwnJobs, Unrecorded, Busy
    <2>2. \A x \in Events \X Devices : Counted(x)
      BY <1>1 DEF Counted
    <2>3. QED
      BY <2>1, <2>2, SendsParts
  <1>6. RelaysExclude
    <2>1. \A e \in Events : ~ Live(e)
      BY <1>1, Defaults DEF Live
    <2>2. RowsExclude
      BY <1>1, <2>1 DEF RowsExclude
    <2>3. Undelivered
      BY <1>1, Defaults DEF Undelivered, Delivers
    <2>4. QED
      BY <2>2, <2>3, RelaysParts
  <1>7. PublishedMeansDelivered /\ FailedAfterAllAttempts
    BY <1>1 DEF PublishedMeansDelivered, FailedAfterAllAttempts
  <1>8. QED
    BY <1>2, <1>3, <1>4, <1>5, <1>6, <1>7 DEF IInv

\* A step that changes nothing keeps it.
LEMMA StutterIInv == IInv /\ UNCHANGED vars => IInv'
  <1> SUFFICES ASSUME IInv, UNCHANGED vars PROVE IInv'
    OBVIOUS
  <1>1. TypeOK' /\ JobsHaveOwners' /\ IdleForget' /\ PushesSent' /\ SendsCounted' /\ RelaysExclude'
    BY DEF IInv, vars, TypeOK, JobsHaveOwners, IdleForget, PushesSent, SendsCounted, RelaysExclude, Busy, Owns, Live,
           InRelay, Event, Delivery
  <1>2. PublishedMeansDelivered' /\ FailedAfterAllAttempts'
    BY DEF IInv, vars, PublishedMeansDelivered, FailedAfterAllAttempts
  <1>3. QED
    BY <1>1, <1>2 DEF IInv

\* Every step keeps it.
LEMMA NextIInv == IInv /\ [Next]_vars => IInv'
  <1> SUFFICES ASSUME IInv, [Next]_vars PROVE IInv'
    OBVIOUS
  <1>1. CASE UNCHANGED vars
    BY <1>1, StutterIInv
  <1>2. CASE Next
    <2>1. TypeOK' /\ JobsHaveOwners' /\ IdleForget' /\ PushesSent'
      BY <1>2, TypeStep, JobsStep, IdleStep, PushesStep DEF IInv
    <2>2. SendsCounted' /\ RelaysExclude'
      BY <1>2, SendsStep, RelaysStep DEF IInv
    <2>3. PublishedMeansDelivered' /\ FailedAfterAllAttempts'
      BY <1>2, PublishedStep, FailedStep DEF IInv
    <2>4. QED
      BY <2>1, <2>2, <2>3 DEF IInv
  <1>3. QED
    BY <1>1, <1>2

\* The inductive invariant of the delivery of events: types, who owns which job,
\* what a worker has sent, which pushes are counted, and what keeps relays and
\* workers apart in a calm environment.
THEOREM DeliveryInvariant == Spec => []IInv
  BY InitIInv, NextIInv, PTL DEF Spec

\* All variables keep their types.
THEOREM TypeCorrect == Spec => []TypeOK
  <1>1. IInv => TypeOK
    BY DEF IInv
  <1>2. QED
    BY <1>1, DeliveryInvariant, PTL

\* A row is only marked PUBLISHED when its event reached the channel and every
\* device that can still be reached, whatever crashes, stalls and overlaps.
THEOREM PublishedWasDelivered == Spec => []PublishedMeansDelivered
  <1>1. IInv => PublishedMeansDelivered
    BY DEF IInv
  <1>2. QED
    BY <1>1, DeliveryInvariant, PTL

\* A row is only marked FAILED in the last attempt of its job.
THEOREM FailedWasTried == Spec => []FailedAfterAllAttempts
  <1>1. IInv => FailedAfterAllAttempts
    BY DEF IInv
  <1>2. QED
    BY <1>1, DeliveryInvariant, PTL

\* Where workers keep their jobs, a push is repeated at most once for every
\* record that was lost.
THEOREM PushesRepeatOnlyAfterLoss == Spec => []RepeatsOnlyAfterLoss
  <1>1. IInv => RepeatsOnlyAfterLoss
    <2> SUFFICES ASSUME IInv, env.renewed, NEW x \in Events \X Devices
                 PROVE  sent[x] <= lost[x] + 1
      BY DEF RepeatsOnlyAfterLoss
    <2>1. Counted(x)
      BY SendsParts DEF IInv
    <2>2. sent[x] \in Nat /\ lost[x] \in Nat
      BY DEF IInv, TypeOK
    <2>3. QED
      BY <2>1, <2>2 DEF Counted
  <1>2. QED
    BY <1>1, DeliveryInvariant, PTL

\* Where workers keep their jobs, no two deliver one event at once.
THEOREM WorkersDiffer == Spec => []OneWorkerPerEvent
  <1>1. IInv => OneWorkerPerEvent
    <2> SUFFICES ASSUME IInv, env.renewed, NEW v \in Workers, NEW w \in Workers,
                        worker[v].pc # "idle", Event(v) = Event(w)
                 PROVE  v = w
      BY DEF OneWorkerPerEvent
    <2>1. OwnJobs /\ Busy(v) /\ Event(v) \in Events
      BY SendsParts DEF IInv, Busy, JobsHaveOwners
    <2>2. Busy(w)
      BY <2>1, NoneAssumption DEF IInv, IdleForget
    <2>3. QED
      BY <2>1, <2>2, OwnersDiffer
  <1>2. QED
    BY <1>1, DeliveryInvariant, PTL

\* In a calm environment a row that is PUBLISHED stays so.
THEOREM PublishedStaysFinal == Spec => PublishedIsFinal
  <1> DEFINE Final == env.timely /\ env.renewed /\ env.reliable =>
                        \A e \in Events : status[e] = "PUBLISHED" => status'[e] = "PUBLISHED"
  <1>1. IInv /\ [Next]_vars => [Final]_vars
    <2> SUFFICES ASSUME IInv, Next, Calm, NEW e \in Events, status[e] = "PUBLISHED", status'[e] # "PUBLISHED"
                 PROVE  FALSE
      BY DEF Calm
    <2>1. RowsExclude /\ Undelivered
      BY RelaysParts DEF IInv
    <2>2. StatusChange(e)
      BY StatusMoves DEF IInv
    <2>3. ~ Insert(e) /\ ~ Reclaim(e) /\ ~ Requeue(e)
      BY DEF Insert, Reclaim, Requeue
    <2>4. \A p \in Relays : ~ EnqueueFails(p, e)
      BY <2>1 DEF EnqueueFails, RowsExclude
    <2>5. \A w \in Workers : Event(w) = e => ~ Catch(w)
      BY <2>1 DEF Undelivered, Delivers, Catch
    <2>6. QED
      BY <2>2, <2>3, <2>4, <2>5 DEF StatusChange
  <1>2. QED
    BY <1>1, DeliveryInvariant, PTL DEF Spec, PublishedIsFinal
=============================================================================
