------------------------------- MODULE Outbox -------------------------------
(***************************************************************************)
(* Delivery of outbox events: the relays of the API processes              *)
(* (outbox-relay.service.ts), the queue they share and the workers         *)
(* (outbox.processor.ts).                                                  *)
(*                                                                         *)
(* The queue is BullMQ, modelled from how it is used: one job per event id *)
(* (an add with a known id is ignored, also while the finished job is      *)
(* kept), a fixed number of attempts, and a check for stalled jobs that    *)
(* gives the job of a dead worker to another one once, then fails it.      *)
(*                                                                         *)
(* sent and lost are history variables for the properties.                 *)
(***************************************************************************)
EXTENDS Naturals, FiniteSets

CONSTANTS
  Events,
  Devices,      \* registered devices of the recipients
  Relays,       \* calls of relay() that may overlap
  Workers,      \* jobs processed at once
  Attempts,     \* attempts of a job (6 in the code)
  MaxStalls,    \* stalls after which BullMQ fails a job (its default is 1)
  MaxCrashes,   \* bound on crashes of workers
  MaxRequeues,  \* bound on events an operator moves back to PENDING
  Environments, \* how badly relays, workers and connections may behave
  None

ASSUME BoundAssumption ==
  /\ Attempts \in Nat \ {0}
  /\ MaxStalls \in Nat /\ MaxCrashes \in Nat /\ MaxRequeues \in Nat
\* timely: a live relay or job handles a row within 5 minutes; renewed: a live
\* worker always renews the lock of its job; reliable: a failed add leaves no
\* job, and the statements outside the try block of dispatch never throw.
ASSUME EnvironmentAssumption ==
  Environments \subseteq [timely: BOOLEAN, renewed: BOOLEAN, reliable: BOOLEAN]
ASSUME NoneAssumption == None \notin Events \cup Devices \cup Workers

VARIABLES
  env,          \* the environment of this behaviour, chosen once
  status,       \* outbox_events.status, "NONE" before the row exists
  active,       \* devices whose registration is active
  recorded,     \* delivery_deduplication: <<event, device>>
  job,          \* the BullMQ job of each event
  relay,        \* events each relay() has claimed and not yet added
  worker,       \* what each worker does
  published,    \* events that were published to the event channel
  sent,         \* number of successful push sends of each event to each device
  lost,         \* number of those whose record was not written
  crashes,
  requeues

vars == <<env, status, active, recorded, job, relay, worker, published, sent, lost,
          crashes, requeues>>

-----------------------------------------------------------------------------
OutboxStatus == {"NONE", "PENDING", "PROCESSING", "PUBLISHED", "FAILED"}
JobState == {"none", "waiting", "active", "completed", "failed"}
Job == [state: JobState, owner: Workers \cup {None}, attemptsMade: 0..Attempts, stalls: Nat]
NoJob == [state |-> "none", owner |-> None, attemptsMade |-> 0, stalls |-> 0]

\* "finish" and "retry" are the worker's report to BullMQ once the handler
\* returned or threw; todo holds the devices the handler has not done.
Phase == {"idle", "read", "publish", "push", "send", "record", "catch", "finish", "retry"}
Worker == [pc: Phase, event: Events \cup {None}, todo: SUBSET Devices,
           device: Devices \cup {None}, attemptsMade: 0..Attempts]
IdleWorker == [pc |-> "idle", event |-> None, todo |-> {}, device |-> None,
               attemptsMade |-> 0]

TypeOK ==
  /\ env \in Environments
  /\ status \in [Events -> OutboxStatus]
  /\ active \subseteq Devices
  /\ recorded \subseteq Events \X Devices
  /\ job \in [Events -> Job]
  /\ relay \in [Relays -> SUBSET Events]
  /\ worker \in [Workers -> Worker]
  /\ published \subseteq Events
  /\ sent \in [Events \X Devices -> Nat]
  /\ lost \in [Events \X Devices -> Nat]
  /\ crashes \in Nat /\ requeues \in Nat

Init ==
  /\ env \in Environments
  /\ status = [e \in Events |-> "NONE"]
  /\ active = Devices
  /\ recorded = {}
  /\ job = [e \in Events |-> NoJob]
  /\ relay = [p \in Relays |-> {}]
  /\ worker = [w \in Workers |-> IdleWorker]
  /\ published = {}
  /\ sent = [x \in Events \X Devices |-> 0]
  /\ lost = [x \in Events \X Devices |-> 0]
  /\ crashes = 0
  /\ requeues = 0

history == <<published, sent, lost>>
bounds == <<env, crashes, requeues>>

-----------------------------------------------------------------------------
(* The relay                                                               *)

\* Some transaction commits the row of an event.
Insert(e) ==
  /\ status[e] = "NONE"
  /\ status' = [status EXCEPT ![e] = "PENDING"]
  /\ UNCHANGED <<active, recorded, job, relay, worker, history, bounds>>

InRelay(e) == \E p \in Relays : e \in relay[p]
Live(e) == job[e].state \in {"waiting", "active"}

\* Mutant of Reclaim: a row left in PROCESSING is not looked at again.
ReclaimNever(e) ==
  /\ FALSE
  /\ UNCHANGED vars

\* A row that stays PROCESSING for 5 minutes is given up.
Reclaim(e) ==
  /\ status[e] = "PROCESSING"
  /\ env.timely => ~ InRelay(e) /\ ~ Live(e)
  /\ status' = [status EXCEPT ![e] = "PENDING"]
  /\ UNCHANGED <<active, recorded, job, relay, worker, history, bounds>>

\* FOR UPDATE SKIP LOCKED: a row is claimed by one relay() at a time.
Pending == {e \in Events : status[e] = "PENDING"}
Claim(p) ==
  /\ relay[p] = {} /\ Pending # {}
  /\ relay' = [relay EXCEPT ![p] = Pending]
  /\ status' = [e \in Events |-> IF e \in Pending THEN "PROCESSING" ELSE status[e]]
  /\ UNCHANGED <<active, recorded, job, worker, history, bounds>>

\* Mutant of AddJob: every add makes a job, as without a job id.
AddJobAgain(e) == job' = [job EXCEPT ![e] = [NoJob EXCEPT !.state = "waiting"]]

\* An add with the id of a job BullMQ still keeps is ignored.
AddJob(e) == job' = IF job[e].state = "none" THEN [job EXCEPT ![e].state = "waiting"] ELSE job

Enqueue(p, e) ==
  /\ e \in relay[p]
  /\ relay' = [relay EXCEPT ![p] = relay[p] \ {e}]
  /\ AddJob(e)
  /\ UNCHANGED <<status, active, recorded, worker, history, bounds>>

\* The add throws; in an unreliable environment perhaps after it reached Redis.
EnqueueFails(p, e) ==
  /\ e \in relay[p]
  /\ relay' = [relay EXCEPT ![p] = relay[p] \ {e}]
  /\ (job' = job) \/ (~ env.reliable /\ AddJob(e))
  /\ status' = [status EXCEPT ![e] = "PENDING"]
  /\ UNCHANGED <<active, recorded, worker, history, bounds>>

RelayCrash(p) ==
  /\ relay[p] # {}
  /\ crashes < MaxCrashes /\ crashes' = crashes + 1
  /\ relay' = [relay EXCEPT ![p] = {}]
  /\ UNCHANGED <<env, status, active, recorded, job, worker, history, requeues>>

-----------------------------------------------------------------------------
(* The worker: dispatch and deliverPush                                    *)

Become(w, pc) == worker' = [worker EXCEPT ![w].pc = pc]
Event(w) == worker[w].event
Delivery(w) == <<Event(w), worker[w].device>>

Take(w, e) ==
  /\ worker[w].pc = "idle"
  /\ job[e].state = "waiting"
  /\ job' = [job EXCEPT ![e].state = "active", ![e].owner = w]
  /\ worker' = [worker EXCEPT ![w] = [IdleWorker EXCEPT
                  !.pc = "read", !.event = e, !.attemptsMade = job[e].attemptsMade]]
  /\ UNCHANGED <<status, active, recorded, relay, history, bounds>>

\* Mutant of Read: an event that is PUBLISHED is dispatched again.
ReadAnyStatus(w) ==
  /\ worker[w].pc = "read"
  /\ Become(w, "publish")
  /\ UNCHANGED <<status, active, recorded, job, relay, history, bounds>>

\* dispatch returns at once for an event that is PUBLISHED.
Read(w) ==
  /\ worker[w].pc = "read"
  /\ Become(w, IF status[Event(w)] = "PUBLISHED" THEN "finish" ELSE "publish")
  /\ UNCHANGED <<status, active, recorded, job, relay, history, bounds>>

\* Publishes to the event channel, then reads the devices to push to.
Publish(w) ==
  /\ worker[w].pc = "publish"
  /\ published' = published \cup {Event(w)}
  /\ worker' = [worker EXCEPT ![w].pc = "push", ![w].todo = active]
  /\ UNCHANGED <<status, active, recorded, job, relay, sent, lost, bounds>>

\* Mutant of NextDevice: without the lookup of earlier deliveries.
NextDeviceUnchecked(w) ==
  /\ worker[w].pc = "push"
  /\ \E d \in worker[w].todo :
       worker' = [worker EXCEPT ![w].pc = "send", ![w].device = d]
  /\ UNCHANGED <<status, active, recorded, job, relay, history, bounds>>

\* Looks the next device up; a delivery on record is skipped.
NextDevice(w) ==
  /\ worker[w].pc = "push"
  /\ \E d \in worker[w].todo :
       worker' = IF <<Event(w), d>> \in recorded
                 THEN [worker EXCEPT ![w].todo = worker[w].todo \ {d}]
                 ELSE [worker EXCEPT ![w].pc = "send", ![w].device = d]
  /\ UNCHANGED <<status, active, recorded, job, relay, history, bounds>>

Send(w) ==
  /\ worker[w].pc = "send"
  /\ sent' = [sent EXCEPT ![Delivery(w)] = sent[Delivery(w)] + 1]
  /\ Become(w, "record")
  /\ UNCHANGED <<status, active, recorded, job, relay, published, lost, bounds>>

\* The provider no longer knows the token.
SendInvalid(w) ==
  /\ worker[w].pc = "send"
  /\ active' = active \ {worker[w].device}
  /\ worker' = [worker EXCEPT ![w].pc = "push", ![w].todo = worker[w].todo \ {worker[w].device}]
  /\ UNCHANGED <<status, recorded, job, relay, history, bounds>>

\* The insert fails (Fail) when another worker has recorded the delivery.
Record(w) ==
  /\ worker[w].pc = "record"
  /\ Delivery(w) \notin recorded
  /\ recorded' = recorded \cup {Delivery(w)}
  /\ worker' = [worker EXCEPT ![w].pc = "push", ![w].todo = worker[w].todo \ {worker[w].device}]
  /\ UNCHANGED <<status, active, job, relay, history, bounds>>

\* Mutant of MarkPublished: the pushes are not awaited.
MarkPublishedEarly(w) ==
  /\ worker[w].pc = "push"
  /\ status' = [status EXCEPT ![Event(w)] = "PUBLISHED"]
  /\ Become(w, "finish")
  /\ UNCHANGED <<active, recorded, job, relay, history, bounds>>

MarkPublished(w) ==
  /\ worker[w].pc = "push"
  /\ worker[w].todo = {}
  /\ status' = [status EXCEPT ![Event(w)] = "PUBLISHED"]
  /\ Become(w, "finish")
  /\ UNCHANGED <<active, recorded, job, relay, history, bounds>>

\* The push of this worker is sent and its record will not be written.
LoseRecord(w) ==
  lost' = IF worker[w].pc = "record" THEN [lost EXCEPT ![Delivery(w)] = lost[Delivery(w)] + 1]
          ELSE lost

\* A statement of the try block throws.
Fail(w) ==
  /\ worker[w].pc \in {"publish", "push", "send", "record"}
  /\ LoseRecord(w)
  /\ Become(w, "catch")
  /\ UNCHANGED <<status, active, recorded, job, relay, published, sent, bounds>>

\* Mutants of Terminal: off by one, in both directions.
TerminalEarly(w) == worker[w].attemptsMade + 2 >= Attempts
TerminalLate(w) == worker[w].attemptsMade >= Attempts

Terminal(w) == worker[w].attemptsMade + 1 >= Attempts

\* The catch block writes the row whatever its status is by now, and rethrows.
Catch(w) ==
  /\ worker[w].pc = "catch"
  /\ status' = [status EXCEPT ![Event(w)] = IF Terminal(w) THEN "FAILED" ELSE "PROCESSING"]
  /\ Become(w, "retry")
  /\ UNCHANGED <<active, recorded, job, relay, history, bounds>>

\* The first read, or the write of the catch block, throws itself.
FailOutside(w) ==
  /\ ~ env.reliable
  /\ worker[w].pc \in {"read", "catch"}
  /\ Become(w, "retry")
  /\ UNCHANGED <<status, active, recorded, job, relay, history, bounds>>

WorkerCrash(w) ==
  /\ worker[w].pc # "idle"
  /\ crashes < MaxCrashes /\ crashes' = crashes + 1
  /\ LoseRecord(w)
  /\ worker' = [worker EXCEPT ![w] = IdleWorker]
  /\ UNCHANGED <<status, active, recorded, job, relay, published, sent, env, requeues>>

-----------------------------------------------------------------------------
(* BullMQ: a report of a worker that lost its job is refused               *)

Owns(w, e) == job[e].state = "active" /\ job[e].owner = w

Complete(w) ==
  /\ worker[w].pc = "finish"
  /\ job' = IF Owns(w, Event(w))
            THEN [job EXCEPT ![Event(w)].state = "completed", ![Event(w)].owner = None]
            ELSE job
  /\ worker' = [worker EXCEPT ![w] = IdleWorker]
  /\ UNCHANGED <<status, active, recorded, relay, history, bounds>>

Retry(w) ==
  /\ worker[w].pc = "retry"
  /\ job' = IF Owns(w, Event(w))
            THEN [job EXCEPT ![Event(w)].state = IF Terminal(w) THEN "failed" ELSE "waiting",
                             ![Event(w)].owner = None,
                             ![Event(w)].attemptsMade = worker[w].attemptsMade + 1]
            ELSE job
  /\ worker' = [worker EXCEPT ![w] = IdleWorker]
  /\ UNCHANGED <<status, active, recorded, relay, history, bounds>>

\* The owner did not renew its lock: it died or, not renewed, hangs.
Stall(e) ==
  /\ job[e].state = "active"
  /\ env.renewed => ~ \E w \in Workers : Owns(w, e) /\ Event(w) = e
  /\ job' = [job EXCEPT ![e].state = IF job[e].stalls < MaxStalls THEN "waiting" ELSE "failed",
                        ![e].owner = None, ![e].stalls = job[e].stalls + 1]
  /\ UNCHANGED <<status, active, recorded, relay, worker, history, bounds>>

\* docs/operations-runbook.md: an operator retries a terminal failure.
Requeue(e) ==
  /\ status[e] = "FAILED"
  /\ env.timely => ~ Live(e)
  /\ requeues < MaxRequeues /\ requeues' = requeues + 1
  /\ status' = [status EXCEPT ![e] = "PENDING"]
  /\ UNCHANGED <<active, recorded, job, relay, worker, history, env, crashes>>

-----------------------------------------------------------------------------
Step(w) ==
  \/ Read(w) \/ Publish(w) \/ NextDevice(w) \/ Send(w) \/ SendInvalid(w) \/ Record(w)
  \/ MarkPublished(w) \/ Catch(w) \/ Complete(w) \/ Retry(w)

Next ==
  \/ \E e \in Events : Insert(e) \/ Reclaim(e) \/ Stall(e) \/ Requeue(e)
  \/ \E p \in Relays : Claim(p) \/ RelayCrash(p)
  \/ \E p \in Relays, e \in Events : Enqueue(p, e) \/ EnqueueFails(p, e)
  \/ \E w \in Workers, e \in Events : Take(w, e)
  \/ \E w \in Workers : Step(w) \/ Fail(w) \/ FailOutside(w) \/ WorkerCrash(w)

Spec == Init /\ [][Next]_vars

\* The timer of the relay, the workers and the check for stalled jobs keep
\* running, jobs are taken in turn, and Redis is not down at every add.
Fairness ==
  /\ WF_vars(\E p \in Relays : Claim(p))
  /\ \A e \in Events :
       /\ WF_vars(Reclaim(e)) /\ WF_vars(Stall(e))
       /\ SF_vars(\E p \in Relays : Enqueue(p, e))
       /\ SF_vars(\E w \in Workers : Take(w, e))
  /\ \A w \in Workers : WF_vars(Step(w))
FairSpec == Spec /\ Fairness

-----------------------------------------------------------------------------
(* Properties                                                              *)

\* PUBLISHED is only written for an event that reached the event channel and
\* every device that can still be reached, through all retries and crashes.
PublishedMeansDelivered ==
  \A e \in Events : status[e] = "PUBLISHED" =>
    e \in published /\ \A d \in active : sent[<<e, d>>] > 0

\* "delivery deduplication prevents repeated successful push sends"
\* (docs/operations-runbook.md:12): as long as workers keep their jobs, a push is
\* repeated only when the record of an earlier one was lost with the attempt that
\* sent it, never because an attempt failed on another device.
RepeatsOnlyAfterLoss ==
  env.renewed => \A x \in Events \X Devices : sent[x] <= lost[x] + 1

\* The id of the job keeps two workers from delivering one event at once,
\* however often relays add it, as long as workers keep their jobs.
OneWorkerPerEvent ==
  env.renewed => \A v, w \in Workers : worker[v].pc # "idle" /\ Event(v) = Event(w) => v = w

\* An event is given up only when BullMQ gives up its job.
FailedAfterAllAttempts ==
  \A e \in Events : status[e] = "FAILED" => job[e].attemptsMade + 1 >= Attempts

\* In a calm environment a delivered event stays delivered: neither a relay nor
\* a late attempt puts its row back.
PublishedIsFinal ==
  [][env.timely /\ env.renewed /\ env.reliable =>
     \A e \in Events : status[e] = "PUBLISHED" => status'[e] = "PUBLISHED"]_vars

\* Every event is delivered or given up, also when a relay dies between its
\* claim and its add or a worker in the middle of an attempt.
EventSettles ==
  \A e \in Events : status[e] \in {"PENDING", "PROCESSING"} ~> status[e] \in {"PUBLISHED", "FAILED"}

\* "move reviewed terminal failures back to PENDING"
\* (docs/operations-runbook.md:12): the event is then attempted again.
RequeueIsAttempted ==
  \A e \in Events : status[e] = "PENDING" ~> \E w \in Workers : Event(w) = e

-----------------------------------------------------------------------------
(* Inductive invariant                                                     *)

Busy(w) == worker[w].pc # "idle"

\* A job has an owner while it is active, and attempts left while it is live; a
\* worker knows the attempts of a job it owns, and otherwise fewer.
JobsHaveOwners ==
  /\ \A e \in Events :
       /\ job[e].state = "active" <=> job[e].owner \in Workers
       /\ Live(e) => job[e].attemptsMade < Attempts
       /\ job[e].state = "none" => job[e].attemptsMade = 0
  /\ \A w \in Workers : Busy(w) =>
       /\ Event(w) \in Events /\ worker[w].attemptsMade < Attempts
       /\ worker[w].attemptsMade <= job[Event(w)].attemptsMade
       /\ Owns(w, Event(w)) => worker[w].attemptsMade = job[Event(w)].attemptsMade

\* A worker without a job knows no event.
IdleForget == \A w \in Workers : Busy(w) \/ Event(w) = None

\* What is on record was sent, and so was what a worker has behind it.
PushesSent ==
  /\ \A x \in recorded : sent[x] > 0
  /\ \A w \in Workers :
       /\ worker[w].pc \in {"push", "send", "record"} =>
            /\ Event(w) \in published
            /\ \A d \in active \ worker[w].todo : sent[<<Event(w), d>>] > 0
       /\ worker[w].pc \in {"send", "record"} => worker[w].device \in Devices
       /\ worker[w].pc = "record" => sent[Delivery(w)] > 0

\* Workers that keep their jobs send what is not on record, and count every push
\* that is neither on record nor about to be as lost.
SendsCounted ==
  env.renewed =>
    /\ \A w \in Workers : Busy(w) => Owns(w, Event(w))
    /\ \A w \in Workers : worker[w].pc \in {"send", "record"} => Delivery(w) \notin recorded
    /\ \A x \in Events \X Devices :
         \/ sent[x] <= lost[x]
         \/ sent[x] = lost[x] + 1 /\ (x \in recorded \/ \E w \in Workers : worker[w].pc = "record" /\ Delivery(w) = x)

\* In a calm environment a row in the hands of a relay has no live job, is in the
\* hands of no other and waits for nothing else, and who delivers an event has
\* not published it yet.
RelaysExclude ==
  env.timely /\ env.renewed /\ env.reliable =>
    /\ \A p, q \in Relays : relay[p] \cap relay[q] # {} => p = q
    /\ \A e \in Events :
         /\ InRelay(e) => status[e] = "PROCESSING" /\ ~ Live(e)
         /\ status[e] \in {"NONE", "PENDING"} => ~ Live(e)
    /\ \A w \in Workers :
         worker[w].pc \in {"publish", "push", "send", "record", "catch"} => status[Event(w)] # "PUBLISHED"

IInv ==
  /\ TypeOK /\ JobsHaveOwners /\ IdleForget /\ PushesSent /\ SendsCounted /\ RelaysExclude
  /\ PublishedMeansDelivered /\ FailedAfterAllAttempts
=============================================================================
