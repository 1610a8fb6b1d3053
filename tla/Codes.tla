------------------------------- MODULE Codes --------------------------------
(***************************************************************************)
(* One-time codes of one account (auth.service.ts): verification of the    *)
(* email and recovery of the password, whose challenges are issued, sent   *)
(* again, guessed and locked in the same way.  A behaviour is about one    *)
(* of the two kinds.                                                       *)
(*                                                                         *)
(* Nothing locks the account: a guess is checked, counted, read back and   *)
(* locked by statements of their own, and two challenges can be issued at  *)
(* once.                                                                   *)
(***************************************************************************)
EXTENDS Naturals, FiniteSets

CONSTANTS
  Challenges,   \* bound: rows of the kind's table
  Requests,     \* bound: requests in flight at once
  MaxAttempts   \* OTP_MAX_ATTEMPTS, 5 in the code

VARIABLES
  kind,         \* "email" or "reset"
  challenge,
  request,
  wrong,        \* history: wrong guesses answered, of each challenge
  entered,      \* history: how often each code was taken
  late,         \* history: one was taken after MaxAttempts wrong guesses
  overlapped    \* history: two challenges were issued at once

vars == <<kind, challenge, request, wrong, entered, late, overlapped>>

-----------------------------------------------------------------------------
\* open: neither verified_at nor consumed_at.  fresh: OTP_RESEND_SECONDS are
\* not over.  due: expires_at has not passed.
Challenge == [state: {"none", "open", "verified", "consumed"}, attempts: 0..MaxAttempts,
              locked: BOOLEAN, fresh: BOOLEAN, due: BOOLEAN]
NoChallenge == [state |-> "none", attempts |-> 0, locked |-> FALSE, fresh |-> FALSE, due |-> FALSE]
NewChallenge == [NoChallenge EXCEPT !.state = "open", !.fresh = TRUE, !.due = TRUE]

Request == [pc: {"idle", "issue", "insert", "send", "right", "wrong", "back", "lock"},
            on: SUBSET Challenges]
Idle == [pc |-> "idle", on |-> {}]

TypeOK ==
  /\ kind \in {"email", "reset"}
  /\ challenge \in [Challenges -> Challenge]
  /\ request \in [Requests -> Request]
  /\ wrong \in [Challenges -> Nat]
  /\ entered \in [Challenges -> Nat]
  /\ late \in BOOLEAN
  /\ overlapped \in BOOLEAN

Init ==
  /\ kind \in {"email", "reset"}
  /\ challenge = [c \in Challenges |-> NoChallenge]
  /\ request = [r \in Requests |-> Idle]
  /\ wrong = [c \in Challenges |-> 0]
  /\ entered = [c \in Challenges |-> 0]
  /\ late = FALSE
  /\ overlapped = FALSE

-----------------------------------------------------------------------------
\* What every statement about a code asks of its row.
Guessable(c) ==
  /\ challenge[c].state = "open" /\ challenge[c].due
  /\ ~ challenge[c].locked /\ challenge[c].attempts < MaxAttempts

\* consumed_at is null: what a new challenge consumes.
Unconsumed == {c \in Challenges : challenge[c].state \in {"open", "verified"}}
Consume(cs) == [c \in Challenges |-> IF c \in cs /\ c \in Unconsumed
                  THEN [challenge[c] EXCEPT !.state = "consumed"] ELSE challenge[c]]

Begin(r, pc, cs) == request[r].pc = "idle" /\ request' = [request EXCEPT ![r] = [pc |-> pc, on |-> cs]]
GoTo(r, pc) == request' = [request EXCEPT ![r].pc = pc]
Finish(r) == request' = [request EXCEPT ![r] = Idle]

-----------------------------------------------------------------------------
(* signUp, resendVerification, forgotPassword                              *)

\* A challenge of the last minute is answered again, without a new one.
Ask(r) ==
  /\ ~ \E c \in Challenges : Guessable(c) /\ challenge[c].fresh
  /\ kind = "email" => \A c \in Challenges : entered[c] = 0
  /\ Begin(r, "issue", {})
  /\ UNCHANGED <<kind, challenge, wrong, entered, late, overlapped>>

\* The snapshot of the update: it never sees a challenge inserted after it.
IssueUpdate(r) ==
  /\ request[r].pc = "issue"
  /\ request' = [request EXCEPT ![r] = [pc |-> "insert", on |-> Unconsumed]]
  /\ overlapped' = (overlapped \/ \E q \in Requests : request[q].pc = "insert")
  /\ UNCHANGED <<kind, challenge, wrong, entered, late>>

\* Mutant of IssueCommit: earlier challenges are left open.
IssueCommitBeside(r) ==
  /\ request[r].pc = "insert"
  /\ \E c \in Challenges :
       /\ challenge[c].state = "none"
       /\ challenge' = [challenge EXCEPT ![c] = NewChallenge]
       /\ request' = [request EXCEPT ![r] = [pc |-> "send", on |-> {c}]]
  /\ UNCHANGED <<kind, wrong, entered, late, overlapped>>

IssueCommit(r) ==
  /\ request[r].pc = "insert"
  /\ \E c \in Challenges :
       /\ challenge[c].state = "none"
       /\ challenge' = [Consume(request[r].on) EXCEPT ![c] = NewChallenge]
       /\ request' = [request EXCEPT ![r] = [pc |-> "send", on |-> {c}]]
  /\ UNCHANGED <<kind, wrong, entered, late, overlapped>>

\* A code of recovery that cannot be sent is consumed.
SendFails(r) ==
  /\ request[r].pc = "send"
  /\ challenge' = IF kind = "reset" THEN Consume(request[r].on) ELSE challenge
  /\ Finish(r)
  /\ UNCHANGED <<kind, wrong, entered, late, overlapped>>

-----------------------------------------------------------------------------
(* verifyEmail, verifyPasswordResetOtp                                     *)

Guess(r, c, pc) ==
  /\ Guessable(c)
  /\ Begin(r, pc, {c})
  /\ UNCHANGED <<kind, challenge, wrong, entered, late, overlapped>>

\* The row is still guessable: the increment counts.
WrongCount(r) ==
  /\ request[r].pc = "wrong"
  /\ \E c \in request[r].on :
       challenge' = IF Guessable(c) THEN [challenge EXCEPT ![c].attempts = @ + 1] ELSE challenge
  /\ GoTo(r, "back")
  /\ UNCHANGED <<kind, wrong, entered, late, overlapped>>

\* The guess is answered: as a wrong one, or as one too many.
WrongBack(r) ==
  /\ request[r].pc = "back"
  /\ \E c \in request[r].on :
       /\ wrong' = [wrong EXCEPT ![c] = @ + 1]
       /\ IF challenge[c].locked \/ challenge[c].attempts >= MaxAttempts
          THEN GoTo(r, "lock") ELSE Finish(r)
  /\ UNCHANGED <<kind, challenge, entered, late, overlapped>>

WrongLock(r) ==
  /\ request[r].pc = "lock"
  /\ \E c \in request[r].on : challenge' = [challenge EXCEPT ![c].locked = TRUE]
  /\ Finish(r)
  /\ UNCHANGED <<kind, wrong, entered, late, overlapped>>

\* Mutant of Takes: without the state of the row.
TakesAgain(c) == challenge[c].attempts < MaxAttempts

\* The update that takes the code.
Takes(c) == Guessable(c)

\* An email is verified once and for all, which consumes the other challenges;
\* a code of recovery becomes a grant.
RightCommit(r) ==
  /\ request[r].pc = "right"
  /\ \E c \in request[r].on :
       /\ Takes(c)
       /\ challenge' = IF kind = "email" THEN Consume(Challenges)
                       ELSE [challenge EXCEPT ![c].state = "verified"]
       /\ entered' = [entered EXCEPT ![c] = @ + 1]
       /\ late' = (late \/ wrong[c] >= MaxAttempts)
  /\ Finish(r)
  /\ UNCHANGED <<kind, wrong, overlapped>>

-----------------------------------------------------------------------------
\* OTP_RESEND_SECONDS or OTP_TTL_SECONDS pass.
Pass(c) ==
  /\ challenge[c].due
  /\ challenge' = IF challenge[c].fresh THEN [challenge EXCEPT ![c].fresh = FALSE]
                  ELSE [challenge EXCEPT ![c].due = FALSE]
  /\ UNCHANGED <<kind, request, wrong, entered, late, overlapped>>

\* The request is answered, refused by its last update, or dies.
End(r) ==
  /\ request[r].pc # "idle"
  /\ Finish(r)
  /\ UNCHANGED <<kind, challenge, wrong, entered, late, overlapped>>

Next ==
  \/ \E r \in Requests :
       \/ Ask(r) \/ IssueUpdate(r) \/ IssueCommit(r) \/ SendFails(r)
       \/ \E c \in Challenges : Guess(r, c, "right") \/ Guess(r, c, "wrong")
       \/ WrongCount(r) \/ WrongBack(r) \/ WrongLock(r) \/ RightCommit(r)
       \/ End(r)
  \/ \E c \in Challenges : Pass(c)

Spec == Init /\ [][Next]_vars

-----------------------------------------------------------------------------
(* Properties                                                              *)

\* "allow five incorrect attempts" (README.md:176, 180): however many guesses
\* run at once, a code is taken once, and only while fewer than that were
\* answered.
TakenOnceInTime == ~ late /\ \A c \in Challenges : entered[c] <= 1

\* Unless two are issued at once, an account has one challenge that can still
\* be used, and the one that verified its email is not among them.
OneChallengeUntilOverlap ==
  \/ overlapped
  \/ /\ Cardinality(Unconsumed) <= 1
     /\ \A c \in Challenges : entered[c] > 0 => challenge[c].state # "open"

-----------------------------------------------------------------------------
(* Inductive invariant                                                   *)

\* A request is about challenges there are, and a guess about one; a challenge
\* that was taken is no longer open, one not yet issued is untouched.
RequestsKnow ==
  /\ \A r \in Requests :
       /\ \A c \in request[r].on : challenge[c].state # "none"
       /\ request[r].pc \in {"send", "right", "wrong", "back", "lock"} => \E c \in Challenges : request[r].on = {c}
  /\ \A c \in Challenges :
       /\ challenge[c].state = "none" => wrong[c] = 0 /\ entered[c] = 0
       /\ entered[c] > 0 => entered[c] = 1 /\ challenge[c].state \in {"verified", "consumed"}

\* Wrong guesses of a challenge that are counted and not yet answered.
Unanswered(c) == {r \in Requests : request[r].pc = "back" /\ request[r].on = {c}}

\* As long as a challenge can be guessed, every wrong guess has been counted.
GuessesCount ==
  \A c \in Challenges : Guessable(c) => wrong[c] + Cardinality(Unanswered(c)) <= challenge[c].attempts

\* Without overlap there is one challenge at most, which the one request that
\* issues another has seen.
OneIssue ==
  ~ overlapped =>
    /\ \A c, d \in Unconsumed : c = d
    /\ \A q, r \in Requests : request[q].pc = "insert" /\ request[r].pc = "insert" => q = r
    /\ \A r \in Requests : request[r].pc = "insert" => Unconsumed \subseteq request[r].on

IInv == TypeOK /\ RequestsKnow /\ GuessesCount /\ OneIssue /\ ~ late
=============================================================================
