------------------------------ MODULE Accounts ------------------------------
(***************************************************************************)
(* One account: how it comes to be and is verified (auth.service.ts), what *)
(* admins and the maintenance job do to its status (trust.service.ts,      *)
(* admin.service.ts, outbox.processor.ts) and what the guard lets in.      *)
(*                                                                         *)
(* Operations are the statements between which other requests can run.  A  *)
(* transaction reads at READ COMMITTED and writes when it commits; only    *)
(* the row of the penalty being revoked is locked for longer.              *)
(***************************************************************************)
EXTENDS Naturals, FiniteSets

CONSTANTS
  Sessions,     \* bound: rows of auth_sessions
  Penalties,    \* bound: rows of account_penalties
  Offers,       \* bound: kinds and dates of the penalties imposed
  Ops,          \* bound: operations in flight at once
  None          \* no penalty

VARIABLES
  account,      \* account_status, "NONE" before the sign-up
  verified,     \* email_verified
  code,         \* the challenge sent at the sign-up
  sessions,
  penalties,
  op,           \* operations in flight
  condemned,    \* history: sessions a ban or suspension has found
  trouble       \* history: what makes status and penalties differ

vars == <<account, verified, code, sessions, penalties, op, condemned, trouble>>

-----------------------------------------------------------------------------
Statuses == {"PENDING_VERIFICATION", "ACTIVE", "SUSPENDED", "BANNED"}
Kinds == {"FEATURE_RESTRICTION", "TEMPORARY_SUSPENSION", "PERMANENT_BAN"}
Barring == Kinds \ {"FEATURE_RESTRICTION"}

\* later: the penalty starts after it is imposed.  phase is the clock's view
\* of startsAt and endsAt, status the row's.
Terms == [kind: Kinds, ends: BOOLEAN, later: BOOLEAN]
Penalty == [kind: Kinds \cup {"none"}, ends: BOOLEAN, later: BOOLEAN,
            status: {"ACTIVE", "REVOKED", "EXPIRED"}, phase: {"future", "running", "over"}]
NoPenalty == [kind |-> "none", ends |-> FALSE, later |-> FALSE, status |-> "ACTIVE",
              phase |-> "future"]

Op == [pc: {"idle", "session", "verify", "status", "revokeAll", "revoke", "lift", "keep",
            "set", "expire", "count", "restore"},
       penalty: Penalties \cup {None}, from: Statuses, to: Statuses, found: SUBSET Penalties]
Idle == [pc |-> "idle", penalty |-> None, from |-> "ACTIVE", to |-> "ACTIVE", found |-> {}]

\* crash: an operation stayed half done.  mixed: two operations overlapped, or
\* something else than a penalty set the status.
Troubles == {"crash", "mixed"}

TypeOK ==
  /\ account \in Statuses \cup {"NONE"}
  /\ verified \in BOOLEAN
  /\ code \in {"none", "open", "consumed"}
  /\ sessions \in [Sessions -> {"none", "live", "revoked"}]
  /\ penalties \in [Penalties -> Penalty]
  /\ op \in [Ops -> Op]
  /\ condemned \subseteq Sessions
  /\ trouble \subseteq Troubles

Init ==
  /\ account = "NONE" /\ verified = FALSE /\ code = "none"
  /\ sessions = [s \in Sessions |-> "none"]
  /\ penalties = [p \in Penalties |-> NoPenalty]
  /\ op = [o \in Ops |-> Idle]
  /\ condemned = {} /\ trouble = {}

-----------------------------------------------------------------------------
Imposed(p) == penalties[p].kind # "none"

\* A suspension or ban in force: what the guard, a revocation and the
\* expiration job look for.
Bars(p) == /\ penalties[p].kind \in Barring
           /\ penalties[p].status = "ACTIVE"
           /\ penalties[p].phase = "running"
Live == {s \in Sessions : sessions[s] = "live"}

\* What the guard asks of the session, the account and its penalties.
Admits(s) == s \in Live /\ account = "ACTIVE" /\ ~ \E p \in Penalties : Bars(p)

\* Operations on the status of the account, as opposed to sign-ins.
Moderates(o) == op[o].pc \notin {"idle", "session"}
Quiet == \A o \in Ops : ~ Moderates(o)

Begin(o, next) == op[o].pc = "idle" /\ op' = [op EXCEPT ![o] = next]
BeginModeration(o, next) ==
  /\ Begin(o, next)
  /\ trouble' = IF Quiet THEN trouble ELSE trouble \cup {"mixed"}
Finish(o) == op' = [op EXCEPT ![o] = Idle]
GoTo(o, pc) == op' = [op EXCEPT ![o].pc = pc]

RevokeAll == sessions' = [s \in Sessions |-> IF s \in Live THEN "revoked" ELSE sessions[s]]
Open(s) == sessions[s] = "none" /\ sessions' = [sessions EXCEPT ![s] = "live"]

-----------------------------------------------------------------------------
(* Sign-up, verification and sign-in                                       *)

SignUp ==
  /\ account = "NONE"
  /\ account' = "PENDING_VERIFICATION"
  /\ code' = "open"
  /\ UNCHANGED <<verified, sessions, penalties, op, condemned, trouble>>

VerifyRead(o) ==
  /\ code = "open"
  /\ Begin(o, [Idle EXCEPT !.pc = "verify"])
  /\ UNCHANGED <<account, verified, code, sessions, penalties, condemned, trouble>>

\* The transaction consumes the code, if it is still open, and makes the
\* account ACTIVE whatever it is by now.
VerifyCommit(o) ==
  /\ op[o].pc = "verify"
  /\ code = "open"
  /\ code' = "consumed" /\ account' = "ACTIVE" /\ verified' = TRUE
  /\ \E s \in Sessions : Open(s)
  /\ Finish(o)
  /\ trouble' = IF account = "PENDING_VERIFICATION" THEN trouble
                ELSE trouble \cup {"mixed"}
  /\ UNCHANGED <<penalties, condemned>>

\* Mutant of MaySignIn: a status of ACTIVE is taken for a verified email.
MaySignInActive == account = "ACTIVE"

\* emailVerified and the status as the sign-in reads them.
MaySignIn == verified /\ account = "ACTIVE"

SignIn(o) ==
  /\ MaySignIn
  /\ Begin(o, [Idle EXCEPT !.pc = "session"])
  /\ UNCHANGED <<account, verified, code, sessions, penalties, condemned, trouble>>

\* The provider vouches for the email: a new account needs no verification.
OAuthSignUp(o) ==
  /\ account = "NONE"
  /\ account' = "ACTIVE" /\ verified' = TRUE
  /\ Begin(o, [Idle EXCEPT !.pc = "session"])
  /\ UNCHANGED <<code, sessions, penalties, condemned, trouble>>

\* createSession, without another look at the account.
CreateSession(o) ==
  /\ op[o].pc = "session"
  /\ \E s \in Sessions : Open(s)
  /\ Finish(o)
  /\ UNCHANGED <<account, verified, code, penalties, condemned, trouble>>

-----------------------------------------------------------------------------
(* Penalties                                                               *)

\* validatePenalty, of the dates.
Valid(terms) == terms.kind = "TEMPORARY_SUSPENSION" => terms.ends

Row(terms) ==
  [kind |-> terms.kind, ends |-> terms.ends, later |-> terms.later, status |-> "ACTIVE",
   phase |-> IF terms.later THEN "future" ELSE "running"]

\* Mutant of StatusOf: the kind of the penalty becomes the status.
StatusOfKind(kind) == kind

StatusOf(kind) == IF kind = "PERMANENT_BAN" THEN "BANNED" ELSE "SUSPENDED"

\* An admin's createPenalty is not a transaction: the row,
Impose(o, p, terms) ==
  /\ account # "NONE" /\ ~ Imposed(p) /\ Valid(terms)
  /\ penalties' = [penalties EXCEPT ![p] = Row(terms)]
  /\ IF terms.kind \in Barring THEN BeginModeration(o, [Idle EXCEPT !.pc = "status", !.penalty = p])
     ELSE op[o].pc = "idle" /\ UNCHANGED <<op, trouble>>
  /\ UNCHANGED <<account, verified, code, sessions, condemned>>

\* ... the status of the account, also when a ban was set before,
ImposeStatus(o) ==
  /\ op[o].pc = "status"
  /\ account' = StatusOf(penalties[op[o].penalty].kind)
  /\ GoTo(o, "revokeAll")
  /\ UNCHANGED <<verified, code, sessions, penalties, condemned, trouble>>

\* Mutant of ImposeSessions: the branch of suspensions leaves the sessions.
ImposeSessionsOfBan(o) ==
  /\ op[o].pc = "revokeAll"
  /\ condemned' = condemned \cup Live
  /\ IF account = "BANNED" THEN RevokeAll ELSE UNCHANGED sessions
  /\ Finish(o)
  /\ UNCHANGED <<account, verified, code, penalties, trouble>>

\* ... and its sessions.
ImposeSessions(o) ==
  /\ op[o].pc = "revokeAll"
  /\ condemned' = condemned \cup Live
  /\ RevokeAll
  /\ Finish(o)
  /\ UNCHANGED <<account, verified, code, penalties, trouble>>

\* A report resolved with a penalty imposes it in one transaction.
ImposeByReport(p, terms) ==
  /\ account # "NONE" /\ ~ Imposed(p) /\ Valid(terms) /\ ~ terms.later
  /\ penalties' = [penalties EXCEPT ![p] = Row(terms)]
  /\ IF terms.kind \in Barring
     THEN account' = StatusOf(terms.kind) /\ RevokeAll /\ condemned' = condemned \cup Live
     ELSE UNCHANGED <<account, sessions, condemned>>
  /\ trouble' = IF Quiet THEN trouble ELSE trouble \cup {"mixed"}
  /\ UNCHANGED <<verified, code, op>>

RevokeRead(o, p) ==
  /\ Imposed(p) /\ penalties[p].status # "REVOKED"
  /\ BeginModeration(o, [Idle EXCEPT !.pc = "revoke", !.penalty = p])
  /\ UNCHANGED <<account, verified, code, sessions, penalties, condemned>>

Locked(p) == \E o \in Ops : op[o].pc \in {"lift", "keep"} /\ op[o].penalty = p

\* Mutant of RevokeCount: the other penalties are not counted.
RevokeCountNone(o) ==
  /\ op[o].pc = "revoke" /\ ~ Locked(op[o].penalty)
  /\ GoTo(o, "lift")
  /\ UNCHANGED <<account, verified, code, sessions, penalties, condemned, trouble>>

\* The update locks the row; the count sees what is committed by then.
RevokeCount(o) ==
  /\ op[o].pc = "revoke" /\ ~ Locked(op[o].penalty)
  /\ GoTo(o, IF \E p \in Penalties \ {op[o].penalty} : Bars(p) THEN "keep" ELSE "lift")
  /\ UNCHANGED <<account, verified, code, sessions, penalties, condemned, trouble>>

RevokeCommit(o) ==
  /\ op[o].pc \in {"lift", "keep"}
  /\ penalties' = [penalties EXCEPT ![op[o].penalty].status = "REVOKED"]
  /\ account' = IF op[o].pc = "lift" THEN "ACTIVE" ELSE account
  /\ Finish(o)
  /\ UNCHANGED <<verified, code, sessions, condemned, trouble>>

-----------------------------------------------------------------------------
(* userStatus of the admin API                                             *)

StatusRead(o, to) ==
  /\ account \notin {"NONE", to}
  /\ BeginModeration(o, [Idle EXCEPT !.pc = "set", !.from = account, !.to = to])
  /\ UNCHANGED <<account, verified, code, sessions, penalties, condemned>>

\* The update compares the status it read; the event tells both.
StatusCommit(o) ==
  /\ op[o].pc = "set"
  /\ account = op[o].from
  /\ account' = op[o].to
  /\ IF op[o].to = "ACTIVE" THEN UNCHANGED <<sessions, condemned>>
     ELSE RevokeAll /\ condemned' = condemned \cup Live
  /\ trouble' = trouble \cup {"mixed"}
  /\ Finish(o)
  /\ UNCHANGED <<verified, code, penalties>>

-----------------------------------------------------------------------------
(* expirePenalties                                                         *)

\* Mutant of Expired: every running penalty is found.
ExpiredOrRunning ==
  {p \in Penalties : Imposed(p) /\ penalties[p].status = "ACTIVE" /\ penalties[p].phase # "future"}

Expired ==
  {p \in Penalties : Imposed(p) /\ penalties[p].status = "ACTIVE" /\ penalties[p].phase = "over"}

ExpireFind(o) ==
  /\ Expired # {}
  /\ BeginModeration(o, [Idle EXCEPT !.pc = "expire", !.found = Expired])
  /\ UNCHANGED <<account, verified, code, sessions, penalties, condemned>>

\* By the ids found, whatever their status is by now.
ExpireUpdate(o) ==
  /\ op[o].pc = "expire"
  /\ \A p \in op[o].found : ~ Locked(p)
  /\ penalties' = [p \in Penalties |-> IF p \in op[o].found
                     THEN [penalties[p] EXCEPT !.status = "EXPIRED"] ELSE penalties[p]]
  /\ GoTo(o, "count")
  /\ UNCHANGED <<account, verified, code, sessions, condemned, trouble>>

ExpireCount(o) ==
  /\ op[o].pc = "count"
  /\ IF \E p \in Penalties : Bars(p) THEN Finish(o) ELSE GoTo(o, "restore")
  /\ UNCHANGED <<account, verified, code, sessions, penalties, condemned, trouble>>

ExpireRestore(o) ==
  /\ op[o].pc = "restore"
  /\ account' = IF account = "SUSPENDED" THEN "ACTIVE" ELSE account
  /\ Finish(o)
  /\ UNCHANGED <<verified, code, sessions, penalties, condemned, trouble>>

-----------------------------------------------------------------------------
\* Time passes startsAt or endsAt of a penalty.
Pass(p) ==
  /\ Imposed(p)
  /\ \/ penalties[p].phase = "future" /\ penalties' = [penalties EXCEPT ![p].phase = "running"]
     \/ /\ penalties[p].phase = "running" /\ penalties[p].ends
        /\ penalties' = [penalties EXCEPT ![p].phase = "over"]
  /\ UNCHANGED <<account, verified, code, sessions, op, condemned, trouble>>

\* The process dies, a statement fails or a transaction finds its guess wrong.
\* What is not a transaction stays half done.
Abort(o) ==
  /\ op[o].pc # "idle"
  /\ Finish(o)
  /\ trouble' = IF op[o].pc \in {"status", "revokeAll", "count", "restore"}
                THEN trouble \cup {"crash"} ELSE trouble
  /\ UNCHANGED <<account, verified, code, sessions, penalties, condemned>>

SignInSteps(o) ==
  VerifyRead(o) \/ VerifyCommit(o) \/ SignIn(o) \/ OAuthSignUp(o) \/ CreateSession(o)

PenaltySteps(o) ==
  \/ \E p \in Penalties, terms \in Offers : Impose(o, p, terms)
  \/ ImposeStatus(o) \/ ImposeSessions(o)
  \/ \E p \in Penalties : RevokeRead(o, p)
  \/ RevokeCount(o) \/ RevokeCommit(o)

AdminSteps(o) ==
  \/ \E to \in Statuses \ {"PENDING_VERIFICATION"} : StatusRead(o, to)
  \/ StatusCommit(o)

ExpirySteps(o) == ExpireFind(o) \/ ExpireUpdate(o) \/ ExpireCount(o) \/ ExpireRestore(o)

Next ==
  \/ SignUp
  \/ \E o \in Ops : SignInSteps(o) \/ PenaltySteps(o) \/ AdminSteps(o) \/ ExpirySteps(o) \/ Abort(o)
  \/ \E p \in Penalties : Pass(p) \/ \E terms \in Offers : ImposeByReport(p, terms)

Spec == Init /\ [][Next]_vars

-----------------------------------------------------------------------------
(* Properties                                                              *)

\* A session that a ban or suspension ended stays out for ever, also after the
\* penalty is revoked or expires and the account is ACTIVE again.
CondemnedStayOut == \A s \in condemned : ~ Admits(s)

\* Whatever moderation does to an account before its email is verified, nobody
\* has a session of it: revoking a penalty makes such an account ACTIVE.
SessionsNeedVerifiedEmail == Live # {} => verified

\* "Permanent bans with no end are never expired automatically"
\* (docs/operations-runbook.md:24), nor is what has not ended.
OnlyEndedExpire ==
  \A p \in Penalties : penalties[p].status = "EXPIRED" =>
    penalties[p].ends /\ penalties[p].phase = "over"

\* Suspended accounts have an active suspension or ban, and those with one in
\* force are not ACTIVE.
SuspensionHasCause ==
  account = "SUSPENDED" =>
    \E p \in Penalties : penalties[p].kind \in Barring /\ penalties[p].status = "ACTIVE"
PenaltyShows == account = "ACTIVE" => ~ \E p \in Penalties : Bars(p) /\ ~ penalties[p].later

\* As long as operations on the account come one at a time and complete, and
\* nothing but penalties sets its status, the status follows the penalties.
StatusFollowsPenalties == Quiet /\ trouble = {} => SuspensionHasCause /\ PenaltyShows

-----------------------------------------------------------------------------
(* Inductive invariant                                                   *)

\* Sessions a penalty has found are revoked, and who is about to get one has
\* verified the email.
SessionsEarned ==
  /\ \A s \in condemned : sessions[s] = "revoked"
  /\ \A o \in Ops : op[o].pc = "session" => verified
  /\ SessionsNeedVerifiedEmail

\* The clock follows the dates of a penalty, and what is about to expire is over.
DatesHold ==
  /\ \A p \in Penalties :
       /\ Imposed(p) /\ penalties[p].phase = "future" => penalties[p].later
       /\ penalties[p].phase = "over" => penalties[p].ends
  /\ \A o \in Ops : op[o].pc = "expire" =>
       \A p \in op[o].found : Imposed(p) /\ penalties[p].phase = "over"
  /\ OnlyEndedExpire

\* An operation on a penalty has one.
OpsKnow == \A o \in Ops : op[o].pc \in {"status", "revoke", "lift", "keep"} => op[o].penalty \in Penalties

Works(o) == op[o].pc \notin {"idle", "session", "verify"}
Causes(p) == penalties[p].kind \in Barring /\ penalties[p].status = "ACTIVE"
Announced(p) == Bars(p) => penalties[p].later

\* Without trouble one operation works on the account.  Its status follows the
\* penalties but between the row and the status of a penalty that is imposed,
\* and between the rows and the status of those that expire; what a revocation
\* or an expiration has counted by then still holds.
StatusSettles ==
  trouble = {} =>
    /\ \A o, q \in Ops : Works(o) /\ Works(q) => o = q
    /\ \/ \E o \in Ops : op[o].pc = "status"
       \/ account \in {"NONE", "PENDING_VERIFICATION", "ACTIVE"} => \A p \in Penalties : Announced(p)
    /\ \/ \E o \in Ops : op[o].pc \in {"count", "restore"}
       \/ SuspensionHasCause
    /\ \A o \in Ops :
         /\ op[o].pc = "status" => Causes(op[o].penalty)
         /\ op[o].pc = "lift" => \A p \in Penalties \ {op[o].penalty} : Announced(p)
         /\ op[o].pc = "keep" => \E p \in Penalties \ {op[o].penalty} : Causes(p)
         /\ op[o].pc = "restore" => \A p \in Penalties : Announced(p)

IInv == TypeOK /\ SessionsEarned /\ DatesHold /\ OpsKnow /\ StatusSettles
=============================================================================
