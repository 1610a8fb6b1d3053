------------------------------ MODULE Sessions ------------------------------
(***************************************************************************)
(* The sessions of one account: sign-in, rotation of refresh tokens with   *)
(* detection of reuse, sign-out and password reset of auth.service.ts.     *)
(*                                                                         *)
(* At READ COMMITTED an UPDATE of many rows first takes a snapshot, then   *)
(* waits for every row another transaction has updated, and looks at it    *)
(* again: it skips a row that no longer qualifies and never sees a row     *)
(* inserted meanwhile.  rowLock holds the rows of uncommitted updates.     *)
(***************************************************************************)
EXTENDS Naturals, FiniteSets

CONSTANTS
  Sessions,     \* bound: rows of auth_sessions
  Families,     \* bound: token families
  Grants,       \* bound: challenges of password recovery
  Requests,     \* bound: requests in flight at once
  None          \* no session, family, grant or request

ASSUME NoneAssumption == None \notin Sessions \cup Families \cup Grants \cup Requests

VARIABLES
  sessions,     \* rows of auth_sessions
  grants,       \* password_reset_tokens, from their verified OTP on
  rowLock,      \* the rotation whose update of the row is not committed
  resetting,    \* the reset whose update of the password is not committed
  req,          \* requests in flight
  resets,       \* history: password changes made with each grant
  condemned     \* history: families a reset found signed in

vars == <<sessions, grants, rowLock, resetting, req, resets, condemned>>

-----------------------------------------------------------------------------
Session == [state: {"none", "live", "revoked"}, family: Families \cup {None},
            replacedBy: Sessions \cup {None}]
NoSession == [state |-> "none", family |-> None, replacedBy |-> None]
NewSession(family) == [state |-> "live", family |-> family, replacedBy |-> None]

\* session is the one a refresh presents, grant the one a reset presents, ids
\* what an UPDATE of many rows found.
Request == [pc: {"idle", "rotate", "insert", "reused", "revoke", "reset", "resetRevoke"},
            session: Sessions \cup {None}, ids: SUBSET Sessions, grant: Grants \cup {None}]
Idle == [pc |-> "idle", session |-> None, ids |-> {}, grant |-> None]

TypeOK ==
  /\ sessions \in [Sessions -> Session]
  /\ grants \in [Grants -> {"none", "verified", "consumed"}]
  /\ rowLock \in [Sessions -> Requests \cup {None}]
  /\ resetting \in Requests \cup {None}
  /\ req \in [Requests -> Request]
  /\ resets \in [Grants -> Nat]
  /\ condemned \subseteq Families

Init ==
  /\ sessions = [s \in Sessions |-> NoSession]
  /\ grants = [g \in Grants |-> "none"]
  /\ rowLock = [s \in Sessions |-> None]
  /\ resetting = None
  /\ req = [r \in Requests |-> Idle]
  /\ resets = [g \in Grants |-> 0]
  /\ condemned = {}

-----------------------------------------------------------------------------
Live(s) == sessions[s].state = "live"
Used(f) == \E s \in Sessions : sessions[s].family = f

Begin(r, request) == req[r].pc = "idle" /\ req' = [req EXCEPT ![r] = request]
GoTo(r, pc) == req' = [req EXCEPT ![r].pc = pc]
Finish(r) == req' = [req EXCEPT ![r] = Idle]

\* The end of a transaction drops its row locks.
Unlock(r) ==
  /\ rowLock' = [s \in Sessions |-> IF rowLock[s] = r THEN None ELSE rowLock[s]]
  /\ resetting' = IF resetting = r THEN None ELSE resetting

\* UPDATE ... WHERE revoked_at IS NULL: the rows found, if they still qualify.
Revoke(ids) ==
  sessions' = [s \in Sessions |->
                 IF s \in ids /\ Live(s) THEN [sessions[s] EXCEPT !.state = "revoked"]
                 ELSE sessions[s]]

\* createSession, of a sign-in, an OAuth sign-in or a verified email.
SignIn(s, f) ==
  /\ sessions[s].state = "none"
  /\ ~ Used(f)
  /\ sessions' = [sessions EXCEPT ![s] = NewSession(f)]
  /\ UNCHANGED <<grants, rowLock, resetting, req, resets, condemned>>

-----------------------------------------------------------------------------
(* refresh                                                                 *)

\* A session that is revoked by now means the token is used again.
RefreshRead(r, s) ==
  /\ sessions[s].state # "none"
  /\ Begin(r, [Idle EXCEPT !.pc = IF Live(s) THEN "rotate" ELSE "reused", !.session = s])
  /\ UNCHANGED <<sessions, grants, rowLock, resetting, resets, condemned>>

\* Mutant of RotateUpdate: without WHERE revoked_at IS NULL.
RotateUpdateAnyway(r) ==
  LET s == req[r].session IN
  /\ req[r].pc = "rotate"
  /\ rowLock[s] = None
  /\ rowLock' = [rowLock EXCEPT ![s] = r]
  /\ GoTo(r, "insert")
  /\ UNCHANGED <<sessions, grants, resetting, resets, condemned>>

\* The update of the old session; once its row is free, it still has to be live.
RotateUpdate(r) ==
  LET s == req[r].session IN
  /\ req[r].pc = "rotate"
  /\ rowLock[s] = None
  /\ Live(s)
  /\ rowLock' = [rowLock EXCEPT ![s] = r]
  /\ GoTo(r, "insert")
  /\ UNCHANGED <<sessions, grants, resetting, resets, condemned>>

\* count = 0: another refresh, a sign-out or a reset was faster.
RotateLost(r) ==
  LET s == req[r].session IN
  /\ req[r].pc = "rotate"
  /\ rowLock[s] = None
  /\ ~ Live(s)
  /\ GoTo(r, "reused")
  /\ UNCHANGED <<sessions, grants, rowLock, resetting, resets, condemned>>

\* Mutants of RotateCommit: the family is noted as the replacement; the new
\* session starts a family of its own.
RotateCommitWrongId(r) ==
  LET s == req[r].session IN
  /\ req[r].pc = "insert"
  /\ \E t \in Sessions :
       /\ sessions[t].state = "none"
       /\ sessions' = [sessions EXCEPT
            ![s].state = "revoked", ![s].replacedBy = sessions[s].family,
            ![t] = NewSession(sessions[s].family)]
  /\ Unlock(r)
  /\ Finish(r)
  /\ UNCHANGED <<grants, resets, condemned>>
RotateCommitElsewhere(r) ==
  LET s == req[r].session IN
  /\ req[r].pc = "insert"
  /\ \E t \in Sessions, f \in Families :
       /\ sessions[t].state = "none" /\ ~ Used(f)
       /\ sessions' = [sessions EXCEPT
            ![s].state = "revoked", ![s].replacedBy = t, ![t] = NewSession(f)]
  /\ Unlock(r)
  /\ Finish(r)
  /\ UNCHANGED <<grants, resets, condemned>>

RotateCommit(r) ==
  LET s == req[r].session IN
  /\ req[r].pc = "insert"
  /\ \E t \in Sessions :
       /\ sessions[t].state = "none"
       /\ sessions' = [sessions EXCEPT
            ![s].state = "revoked", ![s].replacedBy = t,
            ![t] = NewSession(sessions[s].family)]
  /\ Unlock(r)
  /\ Finish(r)
  /\ UNCHANGED <<grants, resets, condemned>>

\* Reuse revokes the family, in a statement of its own.
ReuseScan(r) ==
  LET family == sessions[req[r].session].family IN
  /\ req[r].pc = "reused"
  /\ req' = [req EXCEPT ![r].pc = "revoke",
                        ![r].ids = {s \in Sessions : Live(s) /\ sessions[s].family = family}]
  /\ UNCHANGED <<sessions, grants, rowLock, resetting, resets, condemned>>

\* The guard let the session in; the update names it by id.
SignOut(r, s) ==
  /\ Live(s)
  /\ Begin(r, [Idle EXCEPT !.pc = "revoke", !.ids = {s}])
  /\ UNCHANGED <<sessions, grants, rowLock, resetting, resets, condemned>>

RevokeApply(r) ==
  /\ req[r].pc = "revoke"
  /\ \A s \in req[r].ids : rowLock[s] = None
  /\ Revoke(req[r].ids)
  /\ Finish(r)
  /\ UNCHANGED <<grants, rowLock, resetting, resets, condemned>>

-----------------------------------------------------------------------------
(* Password recovery                                                       *)

Verified == {g \in Grants : grants[g] = "verified"}

\* A right OTP turns its challenge into a grant.  A reset in progress consumes
\* the open challenges and makes this wait.
VerifyOtp(g) ==
  /\ grants[g] = "none"
  /\ resetting = None
  /\ grants' = [grants EXCEPT ![g] = "verified"]
  /\ UNCHANGED <<sessions, rowLock, resetting, req, resets, condemned>>

ConsumeGrants ==
  grants' = [g \in Grants |-> IF grants[g] = "verified" THEN "consumed" ELSE grants[g]]

\* A new challenge consumes the earlier ones, verified or not.
ForgotPassword ==
  /\ resetting = None
  /\ ConsumeGrants
  /\ UNCHANGED <<sessions, rowLock, resetting, req, resets, condemned>>

ResetRead(r, g) ==
  /\ grants[g] = "verified"
  /\ Begin(r, [Idle EXCEPT !.pc = "reset", !.grant = g])
  /\ UNCHANGED <<sessions, grants, rowLock, resetting, resets, condemned>>

LiveSessions == {s \in Sessions : Live(s)}

\* Mutant of ResetUpdate: the grant read earlier is good for ever.
ResetUpdateAnyway(r) ==
  /\ req[r].pc = "reset"
  /\ resetting = None
  /\ resetting' = r
  /\ req' = [req EXCEPT ![r].pc = "resetRevoke", ![r].ids = LiveSessions]
  /\ UNCHANGED <<sessions, grants, rowLock, resets, condemned>>

\* The transaction consumes the grant, which must still be there, updates the
\* password and looks for the sessions to revoke.
ResetUpdate(r) ==
  /\ req[r].pc = "reset"
  /\ resetting = None
  /\ grants[req[r].grant] = "verified"
  /\ resetting' = r
  /\ req' = [req EXCEPT ![r].pc = "resetRevoke", ![r].ids = LiveSessions]
  /\ UNCHANGED <<sessions, grants, rowLock, resets, condemned>>

ResetCommit(r) ==
  /\ req[r].pc = "resetRevoke"
  /\ \A s \in req[r].ids : rowLock[s] = None
  /\ Revoke(req[r].ids)
  /\ ConsumeGrants
  /\ resets' = [resets EXCEPT ![req[r].grant] = resets[req[r].grant] + 1]
  /\ condemned' = condemned \cup {sessions[s].family : s \in req[r].ids}
  /\ Unlock(r)
  /\ Finish(r)

-----------------------------------------------------------------------------
\* Every request may fail: a check refuses it, a transaction times out or the
\* process dies.  A transaction rolls back.
Abort(r) ==
  /\ req[r].pc # "idle"
  /\ Unlock(r)
  /\ Finish(r)
  /\ UNCHANGED <<sessions, grants, resets, condemned>>

Start(r) ==
  \/ \E s \in Sessions : RefreshRead(r, s) \/ SignOut(r, s)
  \/ \E g \in Grants : ResetRead(r, g)

Proceed(r) ==
  \/ RotateUpdate(r) \/ RotateLost(r) \/ RotateCommit(r)
  \/ ReuseScan(r) \/ RevokeApply(r)
  \/ ResetUpdate(r) \/ ResetCommit(r)
  \/ Abort(r)

Next ==
  \/ \E r \in Requests : Start(r) \/ Proceed(r)
  \/ \E s \in Sessions, f \in Families : SignIn(s, f)
  \/ \E g \in Grants : VerifyOtp(g)
  \/ ForgotPassword

Spec == Init /\ [][Next]_vars

-----------------------------------------------------------------------------
(* Properties                                                              *)

\* Whatever refreshes, sign-outs and resets race, the rows of a family are the
\* tokens of a rotation: at most one is valid, a token is exchanged at most
\* once, and a family whose last token was revoked never gets another.
Family == INSTANCE TokenFamily WITH
  Tokens <- Sessions,
  valid <- [f \in Families |-> {s \in Sessions : Live(s) /\ sessions[s].family = f}],
  spent <- [f \in Families |->
              {s \in Sessions : sessions[s].state = "revoked" /\ sessions[s].family = f}]
FollowsTokenFamily == Family!Spec

\* replaced_by_id tells how a family was rotated: it leads from a revoked
\* session to one of the same family, and never two of them to the same one.
ReplacementsAreChain ==
  \A s \in Sessions :
    sessions[s].replacedBy # None =>
      /\ sessions[s].state = "revoked"
      /\ sessions[sessions[s].replacedBy].family = sessions[s].family
      /\ \A t \in Sessions : sessions[t].replacedBy = sessions[s].replacedBy => t = s

\* A grant sets one password, also when it is used twice at once or a new
\* challenge is asked for meanwhile.
OneResetPerGrant ==
  \A g \in Grants : resets[g] <= 1 /\ (resets[g] = 1 => grants[g] = "consumed")

\* "completing the reset revokes existing sessions" (README.md:182): what the
\* reset found signed in is not signed in after it.
ResetEndsSessions ==
  \A s \in Sessions : Live(s) => sessions[s].family \notin condemned
=============================================================================
