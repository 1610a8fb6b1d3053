---------------------------- MODULE Idempotency -----------------------------
(***************************************************************************)
(* Commands that are sent again under one Idempotency-Key:                 *)
(* idempotency.interceptor.ts, for one actor, key and route.  The handler  *)
(* the interceptor wraps is a transaction that commits or throws.          *)
(*                                                                         *)
(* The row of idempotency_records is read and written by statements of     *)
(* their own, and nothing locks it in between.  Nothing deletes it either: *)
(* expires_at is written and never read.                                   *)
(***************************************************************************)
EXTENDS Naturals, FiniteSets

CONSTANTS
  Calls,        \* bound: requests that carry the key
  Payloads,     \* hashes of their bodies
  LockTime,     \* the 30 s of lockedUntil, in ticks of clock
  MaxClock,     \* bound on clock
  None          \* no payload, no response, no lock

ASSUME TimeAssumption == LockTime \in Nat \ {0} /\ MaxClock \in Nat
ASSUME NoneAssumption == None \notin Calls \cup Payloads \cup Nat

VARIABLES
  record,       \* the row of the key
  call,         \* the requests, with what their client got
  clock,
  trouble       \* history: what went wrong so far

vars == <<record, call, clock, trouble>>

-----------------------------------------------------------------------------
\* A response is named by the call whose handler made it.
Record == [status: {"NONE", "PROCESSING", "COMPLETED", "FAILED"},
           payload: Payloads \cup {None}, lockedUntil: Nat \cup {None},
           response: Calls \cup {None}]
NoRecord == [status |-> "NONE", payload |-> None, lockedUntil |-> None, response |-> None]

Call == [pc: {"new", "reclaim", "handle", "respond", "refused",
              "answered", "conflict", "failed", "crashed"},
         payload: Payloads \cup {None}, committed: BOOLEAN, answer: Calls \cup {None}]
NewCall == [pc |-> "new", payload |-> None, committed |-> FALSE, answer |-> None]

TypeOK ==
  /\ record \in Record
  /\ call \in [Calls -> Call]
  /\ clock \in Nat
  /\ trouble \subseteq {"threw", "crashed", "unrecorded", "overran"}

Init ==
  /\ record = NoRecord
  /\ call = [c \in Calls |-> NewCall]
  /\ clock = 0
  /\ trouble = {}

-----------------------------------------------------------------------------
GoTo(c, pc) == call' = [call EXCEPT ![c].pc = pc]
Enter(c, p, pc) ==
  /\ call[c].pc = "new"
  /\ call' = [call EXCEPT ![c].pc = pc, ![c].payload = p]

\* The row exists, so the insert failed on its unique index.
Exists == record.status # "NONE"

\* Mutant of InProgress: the comparison is the wrong way round.
InProgressAfterTime == record.status = "PROCESSING" /\ record.lockedUntil < clock

InProgress == record.status = "PROCESSING" /\ record.lockedUntil > clock

\* Mutant of SamePayload: the body is not compared.
AnyPayload(p) == Exists

SamePayload(p) == Exists /\ record.payload = p

-----------------------------------------------------------------------------
(* claim                                                                   *)

Claim(c, p) ==
  /\ ~ Exists
  /\ record' = [status |-> "PROCESSING", payload |-> p,
                lockedUntil |-> clock + LockTime, response |-> None]
  /\ Enter(c, p, "handle")
  /\ UNCHANGED <<clock, trouble>>

\* IDEMPOTENCY_PAYLOAD_MISMATCH and IDEMPOTENCY_IN_PROGRESS
Conflict(c, p) ==
  /\ Exists
  /\ SamePayload(p) => InProgress
  /\ Enter(c, p, "conflict")
  /\ UNCHANGED <<record, clock, trouble>>

Replay(c, p) ==
  /\ SamePayload(p)
  /\ record.status = "COMPLETED"
  /\ call[c].pc = "new"
  /\ call' = [call EXCEPT ![c].pc = "answered", ![c].payload = p,
                          ![c].answer = record.response]
  /\ UNCHANGED <<record, clock, trouble>>

\* FAILED, or the time of the claim is over.
FindReclaimable(c, p) ==
  /\ SamePayload(p)
  /\ record.status # "COMPLETED" /\ ~ InProgress
  /\ Enter(c, p, "reclaim")
  /\ UNCHANGED <<record, clock, trouble>>

\* By the key alone, whatever the status of the row is by now.
Reclaim(c) ==
  /\ call[c].pc = "reclaim"
  /\ record' = [record EXCEPT !.status = "PROCESSING", !.lockedUntil = clock + LockTime]
  /\ GoTo(c, "handle")
  /\ UNCHANGED <<clock, trouble>>

-----------------------------------------------------------------------------
(* intercept                                                               *)

HandlerCommits(c) ==
  /\ call[c].pc = "handle"
  /\ call' = [call EXCEPT ![c].pc = "respond", ![c].committed = TRUE]
  /\ UNCHANGED <<record, clock, trouble>>

HandlerThrows(c) ==
  /\ call[c].pc = "handle"
  /\ GoTo(c, "refused")
  /\ trouble' = trouble \cup {"threw"}
  /\ UNCHANGED <<record, clock>>

\* Mutant of Complete: the body of the request is stored for its response.
CompleteWithRequest(c) ==
  /\ call[c].pc = "respond"
  /\ record' = [record EXCEPT !.status = "COMPLETED", !.response = record.payload,
                              !.lockedUntil = None]
  /\ call' = [call EXCEPT ![c].pc = "answered", ![c].answer = c]
  /\ UNCHANGED <<clock, trouble>>

Complete(c) ==
  /\ call[c].pc = "respond"
  /\ record' = [record EXCEPT !.status = "COMPLETED", !.response = c, !.lockedUntil = None]
  /\ call' = [call EXCEPT ![c].pc = "answered", ![c].answer = c]
  /\ UNCHANGED <<clock, trouble>>

\* The update throws; catchError takes it for an error of the handler.
CompleteFails(c) ==
  /\ call[c].pc = "respond"
  /\ GoTo(c, "refused")
  /\ trouble' = trouble \cup {"unrecorded"}
  /\ UNCHANGED <<record, clock>>

MarkFailed(c) ==
  /\ call[c].pc = "refused"
  /\ record' = [record EXCEPT !.status = "FAILED", !.lockedUntil = None]
  /\ GoTo(c, "failed")
  /\ UNCHANGED <<clock, trouble>>

\* The process dies, or the last update throws as well.
Crash(c) ==
  /\ call[c].pc \in {"reclaim", "handle", "respond", "refused"}
  /\ GoTo(c, "crashed")
  /\ trouble' = trouble \cup {"crashed"}
  /\ UNCHANGED <<record, clock>>

Tick ==
  /\ clock < MaxClock
  /\ clock' = clock + 1
  /\ trouble' = IF record.status = "PROCESSING" /\ record.lockedUntil <= clock + 1
                THEN trouble \cup {"overran"} ELSE trouble
  /\ UNCHANGED <<record, call>>

Next ==
  \/ \E c \in Calls, p \in Payloads :
       Claim(c, p) \/ Conflict(c, p) \/ Replay(c, p) \/ FindReclaimable(c, p)
  \/ \E c \in Calls :
       \/ Reclaim(c) \/ HandlerCommits(c) \/ HandlerThrows(c)
       \/ Complete(c) \/ CompleteFails(c) \/ MarkFailed(c) \/ Crash(c)
  \/ Tick

Spec == Init /\ [][Next]_vars

-----------------------------------------------------------------------------
(* Properties                                                              *)

\* A client only gets the response of a handler that committed, for the body
\* it sent itself, however often the key was claimed meanwhile.
AnswersAreCommitted ==
  \A c \in Calls : call[c].pc = "answered" =>
    \E d \in Calls : call[c].answer = d /\ call[d].committed /\ call[d].payload = call[c].payload

\* Until something goes wrong, a command is executed once and every client that
\* gets an answer gets the same.
ExecutedOnceUntilTrouble ==
  trouble = {} => \A c, d \in Calls :
    /\ call[c].committed /\ call[d].committed => c = d
    /\ call[c].pc = "answered" /\ call[d].pc = "answered" => call[c].answer = call[d].answer

\* "one pending booking under concurrent retry"
\* (test/e2e/direct-booking.e2e.spec.ts:116): also when what is retried is an
\* attempt that was rolled back.
RetriesExecuteOnce ==
  trouble \subseteq {"threw"} => \A c, d \in Calls :
    call[c].committed /\ call[d].committed => c = d
=============================================================================
