--------------------------- MODULE SessionsProofs ---------------------------
(***************************************************************************)
(* Machine-checked proofs about Sessions, for every set of sessions,       *)
(* families, grants and requests.                                          *)
(***************************************************************************)
EXTENDS Sessions, TLAPS

(***************************************************************************)
(* The inductive invariant.  RequestsKnow says what a request in flight    *)
(* still knows: a rotation past its update holds the row of a session that *)
(* stays live, a reset past its update holds the grant it consumes.  With  *)
(* OneLive this makes the new session of a rotation the only live one.     *)
(***************************************************************************)
RowsWellFormed ==
  \A s \in Sessions :
    /\ sessions[s].state = "none" => sessions[s].family = None /\ sessions[s].replacedBy = None
    /\ sessions[s].state # "none" => sessions[s].family \in Families

RequestsKnow ==
  \A r \in Requests :
    /\ req[r].pc \in {"rotate", "insert", "reused"} =>
         req[r].session \in Sessions /\ sessions[req[r].session].state # "none"
    /\ req[r].pc = "insert" => rowLock[req[r].session] = r /\ Live(req[r].session)
    /\ req[r].pc \in {"reset", "resetRevoke"} => req[r].grant \in Grants
    /\ req[r].pc = "resetRevoke" => resetting = r /\ grants[req[r].grant] = "verified"
    /\ \A s \in req[r].ids : sessions[s].state # "none"

OneLive ==
  \A s, t \in Sessions : Live(s) /\ Live(t) /\ sessions[s].family = sessions[t].family => s = t

GrantsCounted ==
  \A g \in Grants : resets[g] <= 1 /\ (grants[g] # "consumed" => resets[g] = 0)

IInv ==
  /\ TypeOK
  /\ RowsWellFormed /\ RequestsKnow /\ OneLive /\ GrantsCounted
  /\ ReplacementsAreChain

\* What one step of the token families looks like from here.
FamilyStep == Family!Next \/ UNCHANGED Family!vars

-----------------------------------------------------------------------------
\* The idle request is of its type and knows nothing.
LEMMA IdleType == Idle \in Request /\ Idle.pc = "idle" /\ Idle.ids = {}
  BY DEF Idle, Request

\* A step that leaves the rows alone is a stutter of the families.
LEMMA RowsUnchanged ==
  ASSUME UNCHANGED sessions
  PROVE  FamilyStep
  BY DEF FamilyStep, Family!vars, Live

\* A request moves on and no row changes: what the others hold they keep, and
\* what the request comes to know is true.
LEMMA RequestStep ==
  ASSUME IInv, NEW r \in Requests, NEW q \in Request,
         req' = [req EXCEPT ![r] = q],
         UNCHANGED <<sessions, grants, resets, condemned>>,
         rowLock' \in [Sessions -> Requests \cup {None}],
         resetting' \in Requests \cup {None},
         \A t \in Requests : t # r =>
           /\ \A s \in Sessions : rowLock[s] = t => rowLock'[s] = t
           /\ resetting = t => resetting' = t,
         q.pc \in {"rotate", "insert", "reused"} =>
           q.session \in Sessions /\ sessions[q.session].state # "none",
         q.pc = "insert" => rowLock'[q.session] = r /\ Live(q.session),
         q.pc \in {"reset", "resetRevoke"} => q.grant \in Grants,
         q.pc = "resetRevoke" => resetting' = r /\ grants[q.grant] = "verified",
         \A s \in q.ids : sessions[s].state # "none"
  PROVE  IInv' /\ FamilyStep
  <1>1. TypeOK'
    BY DEF IInv, TypeOK
  <1>2. \A t \in Requests : req'[t] = IF t = r THEN q ELSE req[t]
    BY DEF IInv, TypeOK
  <1>3. RequestsKnow'
    BY <1>2 DEF IInv, RequestsKnow, Live
  <1>4. RowsWellFormed' /\ OneLive' /\ GrantsCounted' /\ ReplacementsAreChain'
    BY DEF IInv, RowsWellFormed, OneLive, GrantsCounted, ReplacementsAreChain, Live
  <1>5. QED
    BY <1>1, <1>3, <1>4, RowsUnchanged DEF IInv

\* Every request that starts reads only.
LEMMA StartStep ==
  ASSUME IInv, NEW r \in Requests, Start(r)
  PROVE  IInv' /\ FamilyStep
  <1>1. /\ req \in [Requests -> Request] /\ rowLock \in [Sessions -> Requests \cup {None}]
        /\ resetting \in Requests \cup {None}
    BY DEF IInv, TypeOK
  <1>2. CASE \E s \in Sessions : RefreshRead(r, s)
    <2>1. PICK s \in Sessions : RefreshRead(r, s)
      BY <1>2
    <2> DEFINE q == [Idle EXCEPT !.pc = IF Live(s) THEN "rotate" ELSE "reused", !.session = s]
    <2>2. q \in Request /\ q.pc \in {"rotate", "reused"} /\ q.session = s /\ q.ids = {}
      BY DEF Idle, Request
    <2>3. /\ req' = [req EXCEPT ![r] = q] /\ sessions[s].state # "none"
          /\ UNCHANGED <<sessions, grants, rowLock, resetting, resets, condemned>>
      BY <2>1 DEF RefreshRead, Begin
    <2> HIDE DEF q
    <2>4. QED
      BY <1>1, <2>2, <2>3, RequestStep
  <1>3. CASE \E s \in Sessions : SignOut(r, s)
    <2>1. PICK s \in Sessions : SignOut(r, s)
      BY <1>3
    <2> DEFINE q == [Idle EXCEPT !.pc = "revoke", !.ids = {s}]
    <2>2. q \in Request /\ q.pc = "revoke" /\ \A x \in q.ids : sessions[x].state # "none"
      BY <2>1 DEF Idle, Request, SignOut, Live
    <2>3. /\ req' = [req EXCEPT ![r] = q]
          /\ UNCHANGED <<sessions, grants, rowLock, resetting, resets, condemned>>
      BY <2>1 DEF SignOut, Begin
    <2> HIDE DEF q
    <2>4. QED
      BY <1>1, <2>2, <2>3, RequestStep
  <1>4. CASE \E g \in Grants : ResetRead(r, g)
    <2>1. PICK g \in Grants : ResetRead(r, g)
      BY <1>4
    <2> DEFINE q == [Idle EXCEPT !.pc = "reset", !.grant = g]
    <2>2. q \in Request /\ q.pc = "reset" /\ q.grant = g /\ q.ids = {}
      BY DEF Idle, Request
    <2>3. /\ req' = [req EXCEPT ![r] = q]
          /\ UNCHANGED <<sessions, grants, rowLock, resetting, resets, condemned>>
      BY <2>1 DEF ResetRead, Begin
    <2> HIDE DEF q
    <2>4. QED
      BY <1>1, <2>2, <2>3, RequestStep
  <1>5. QED
    BY <1>2, <1>3, <1>4 DEF Start

\* The steps of a request that read, take a lock or give up.
LEMMA ReadingStep ==
  ASSUME IInv, NEW r \in Requests,
         \/ RotateUpdate(r) \/ RotateLost(r) \/ ReuseScan(r) \/ ResetUpdate(r) \/ Abort(r)
  PROVE  IInv' /\ FamilyStep
  <1>1. /\ req \in [Requests -> Request] /\ rowLock \in [Sessions -> Requests \cup {None}]
        /\ resetting \in Requests \cup {None} /\ req[r] \in Request
        /\ \A s \in req[r].ids : sessions[s].state # "none"
    BY DEF IInv, TypeOK, RequestsKnow
  <1>2. CASE RotateUpdate(r)
    <2> DEFINE q == [req[r] EXCEPT !.pc = "insert"]
    <2>1. q \in Request /\ q.pc = "insert" /\ q.session = req[r].session /\ q.ids = req[r].ids
      BY <1>1 DEF Request
    <2>2. req' = [req EXCEPT ![r] = q]
      BY <1>1, <1>2 DEF RotateUpdate, GoTo
    <2>3. req[r].session \in Sessions /\ sessions[req[r].session].state # "none"
      BY <1>2 DEF RotateUpdate, IInv, RequestsKnow
    <2>4. /\ rowLock[req[r].session] = None /\ Live(req[r].session)
          /\ rowLock' = [rowLock EXCEPT ![req[r].session] = r]
          /\ UNCHANGED <<sessions, grants, resetting, resets, condemned>>
      BY <1>2 DEF RotateUpdate
    <2> HIDE DEF q
    <2>5. \A t \in Requests : t # r =>
            /\ \A s \in Sessions : rowLock[s] = t => rowLock'[s] = t
            /\ resetting = t => resetting' = t
      BY <1>1, <2>3, <2>4, NoneAssumption
    <2>6. rowLock'[req[r].session] = r /\ rowLock' \in [Sessions -> Requests \cup {None}]
      BY <1>1, <2>3, <2>4
    <2>7. /\ q.session \in Sessions /\ sessions[q.session].state # "none"
          /\ rowLock'[q.session] = r /\ Live(q.session)
          /\ resetting' \in Requests \cup {None}
          /\ \A x \in q.ids : sessions[x].state # "none"
          /\ UNCHANGED <<sessions, grants, resets, condemned>>
      BY <1>1, <2>1, <2>3, <2>4, <2>6
    <2>8. QED
      BY <2>1, <2>2, <2>5, <2>6, <2>7, RequestStep
  <1>3. CASE RotateLost(r)
    <2> DEFINE q == [req[r] EXCEPT !.pc = "reused"]
    <2>1. q \in Request /\ q.pc = "reused" /\ q.session = req[r].session /\ q.ids = req[r].ids
      BY <1>1 DEF Request
    <2>2. /\ req' = [req EXCEPT ![r] = q]
          /\ UNCHANGED <<sessions, grants, rowLock, resetting, resets, condemned>>
      BY <1>1, <1>3 DEF RotateLost, GoTo
    <2>3. req[r].session \in Sessions /\ sessions[req[r].session].state # "none"
      BY <1>3 DEF RotateLost, IInv, RequestsKnow
    <2> HIDE DEF q
    <2>4. QED
      BY <1>1, <2>1, <2>2, <2>3, RequestStep
  <1>4. CASE ReuseScan(r)
    <2> DEFINE found == {s \in Sessions : Live(s) /\
                            sessions[s].family = sessions[req[r].session].family}
               q == [req[r] EXCEPT !.pc = "revoke", !.ids = found]
    <2>1. q \in Request /\ q.pc = "revoke" /\ \A x \in q.ids : sessions[x].state # "none"
      BY <1>1 DEF Request, Live
    <2>2. /\ req' = [req EXCEPT ![r] = q]
          /\ UNCHANGED <<sessions, grants, rowLock, resetting, resets, condemned>>
      BY <1>1, <1>4 DEF ReuseScan
    <2> HIDE DEF q
    <2>3. QED
      BY <1>1, <2>1, <2>2, RequestStep
  <1>5. CASE ResetUpdate(r)
    <2> DEFINE q == [req[r] EXCEPT !.pc = "resetRevoke", !.ids = LiveSessions]
    <2>1. q \in Request /\ q.pc = "resetRevoke" /\ q.grant = req[r].grant
          /\ \A x \in q.ids : sessions[x].state # "none"
      BY <1>1 DEF Request, LiveSessions, Live
    <2>2. /\ req' = [req EXCEPT ![r] = q] /\ resetting = None /\ resetting' = r
          /\ grants[req[r].grant] = "verified"
          /\ UNCHANGED <<sessions, grants, rowLock, resets, condemned>>
      BY <1>1, <1>5 DEF ResetUpdate
    <2>3. req[r].grant \in Grants
      BY <1>5 DEF ResetUpdate, IInv, RequestsKnow
    <2> HIDE DEF q
    <2>4. QED
      BY <1>1, <2>1, <2>2, <2>3, RequestStep, NoneAssumption
  <1>6. CASE Abort(r)
    <2>1. /\ req' = [req EXCEPT ![r] = Idle]
          /\ UNCHANGED <<sessions, grants, resets, condemned>>
      BY <1>6 DEF Abort, Finish
    <2>2. /\ rowLock' \in [Sessions -> Requests \cup {None}]
          /\ resetting' \in Requests \cup {None}
          /\ \A t \in Requests : t # r =>
               /\ \A s \in Sessions : rowLock[s] = t => rowLock'[s] = t
               /\ resetting = t => resetting' = t
      BY <1>1, <1>6 DEF Abort, Unlock
    <2>3. QED
      BY <2>1, <2>2, IdleType, RequestStep
  <1>7. QED
    BY <1>2, <1>3, <1>4, <1>5, <1>6

-----------------------------------------------------------------------------
(* The steps that write rows of auth_sessions                              *)

Valid(f) == {s \in Sessions : Live(s) /\ sessions[s].family = f}
Spent(f) == {s \in Sessions : sessions[s].state = "revoked" /\ sessions[s].family = f}

\* Once no row it found is locked, an UPDATE of many rows ends the families it
\* finds signed in; no rotation in progress loses its session to it.
LEMMA RevokeStep ==
  ASSUME IInv, NEW r \in Requests, NEW ids \in SUBSET Sessions,
         \A s \in ids : rowLock[s] = None,
         Revoke(ids),
         req' = [req EXCEPT ![r] = Idle],
         grants' \in [Grants -> {"none", "verified", "consumed"}],
         resets' \in [Grants -> Nat],
         condemned' \subseteq Families,
         rowLock' \in [Sessions -> Requests \cup {None}],
         resetting' \in Requests \cup {None},
         \A t \in Requests : t # r =>
           /\ \A s \in Sessions : rowLock[s] = t => rowLock'[s] = t
           /\ resetting = t => resetting' = t
           /\ req[t].pc = "resetRevoke" => grants'[req[t].grant] = "verified",
         GrantsCounted'
  PROVE  IInv' /\ FamilyStep
  <1> USE NoneAssumption
  <1>1. /\ sessions \in [Sessions -> Session] /\ req \in [Requests -> Request]
        /\ rowLock \in [Sessions -> Requests \cup {None}]
    BY DEF IInv, TypeOK
  <1>2. \A s \in Sessions :
          /\ sessions'[s].family = sessions[s].family
          /\ sessions'[s].replacedBy = sessions[s].replacedBy
          /\ s \in ids /\ Live(s) => sessions'[s].state = "revoked"
          /\ ~ (s \in ids /\ Live(s)) => sessions'[s].state = sessions[s].state
    BY <1>1 DEF Revoke, Session, Live
  <1>3. sessions' \in [Sessions -> Session]
    <2>1. \A s \in Sessions : [sessions[s] EXCEPT !.state = "revoked"] \in Session
      BY <1>1 DEF Session
    <2>2. QED
      BY <1>1, <2>1 DEF Revoke
  <1>4. TypeOK'
    BY <1>1, <1>3, IdleType DEF TypeOK
  <1>5. \A s \in Sessions : Live(s)' <=> Live(s) /\ s \notin ids
    BY <1>2 DEF Live
  <1>6. RowsWellFormed' /\ OneLive'
    BY <1>2, <1>5 DEF IInv, RowsWellFormed, OneLive, Live
  <1>7. ReplacementsAreChain'
    <2>1. \A s \in Sessions : sessions[s].replacedBy \in Sessions \cup {None}
      BY <1>1 DEF Session
    <2>2. QED
      BY <1>2, <2>1 DEF IInv, ReplacementsAreChain, Live
  <1>8. RequestsKnow'
    <2>1. \A t \in Requests : req'[t] = IF t = r THEN Idle ELSE req[t]
      BY <1>1
    <2>2. \A t \in Requests : t # r /\ req[t].pc = "insert" => req[t].session \notin ids
      BY DEF IInv, RequestsKnow
    <2>3. \A t \in Requests : req[t].ids \subseteq Sessions
      BY <1>1 DEF Request
    <2>4. \A s \in Sessions : sessions[s].state # "none" => sessions'[s].state # "none"
      BY <1>2
    <2>5. ASSUME NEW t \in Requests, t # r
          PROVE  /\ req[t].pc \in {"rotate", "insert", "reused"} =>
                      req[t].session \in Sessions /\ sessions'[req[t].session].state # "none"
                 /\ req[t].pc = "insert" =>
                      rowLock'[req[t].session] = t /\ sessions'[req[t].session].state = "live"
                 /\ req[t].pc \in {"reset", "resetRevoke"} => req[t].grant \in Grants
                 /\ req[t].pc = "resetRevoke" =>
                      resetting' = t /\ grants'[req[t].grant] = "verified"
                 /\ \A s \in req[t].ids : sessions'[s].state # "none"
      BY <1>5, <2>2, <2>3, <2>4, <2>5 DEF IInv, RequestsKnow, Live
    <2>6. QED
      BY <2>1, <2>5, IdleType DEF RequestsKnow, Live
  <1>9. FamilyStep
    <2> DEFINE ended == {sessions[s].family : s \in {x \in ids : Live(x)}}
    <2>1. ended \in SUBSET Families
      BY DEF IInv, RowsWellFormed, Live
    <2>2. ASSUME NEW f \in Families
          PROVE  /\ Valid(f)' = IF f \in ended THEN {} ELSE Valid(f)
                 /\ Spent(f)' = IF f \in ended THEN Spent(f) \cup Valid(f) ELSE Spent(f)
      <3>1. CASE f \in ended
        <4>1. PICK x \in ids : Live(x) /\ sessions[x].family = f
          BY <3>1
        <4>2. Valid(f) = {x}
          BY <4>1 DEF IInv, OneLive, Valid
        <4>3. \A s \in Sessions : s \in Spent(f)' <=> s \in Spent(f) \/ s = x
          BY <1>2, <4>1, <4>2 DEF Spent, Valid, Live
        <4>4. Valid(f)' = {}
          BY <1>2, <1>5, <4>1, <4>2 DEF Valid
        <4>5. QED
          BY <3>1, <4>1, <4>2, <4>3, <4>4 DEF Spent
      <3>2. CASE f \notin ended
        <4>1. \A s \in Sessions : sessions[s].family = f => ~ (s \in ids /\ Live(s))
          BY <3>2
        <4>2. QED
          BY <1>2, <1>5, <3>2, <4>1 DEF Valid, Spent
      <3>3. QED
        BY <3>1, <3>2
    <2>3. PICK F \in SUBSET Families : F = ended
      BY <2>1
    <2>4. Family!End(F)
      BY <2>2, <2>3 DEF Family!End, Valid, Spent
    <2>5. QED
      BY <2>4 DEF FamilyStep, Family!Next
  <1>10. QED
    BY <1>4, <1>6, <1>7, <1>8, <1>9 DEF IInv

\* Reuse, sign-out and reset revoke what they found.
LEMMA RevokingStep ==
  ASSUME IInv, NEW r \in Requests, RevokeApply(r) \/ ResetCommit(r)
  PROVE  IInv' /\ FamilyStep
  <1> USE NoneAssumption
  <1>1. /\ req \in [Requests -> Request] /\ rowLock \in [Sessions -> Requests \cup {None}]
        /\ resetting \in Requests \cup {None} /\ resets \in [Grants -> Nat]
        /\ grants \in [Grants -> {"none", "verified", "consumed"}]
        /\ condemned \subseteq Families
    BY DEF IInv, TypeOK
  <1>2. PICK ids : ids = req[r].ids
    OBVIOUS
  <1>3. ids \in SUBSET Sessions
    BY <1>1, <1>2 DEF Request
  <1>4. CASE RevokeApply(r)
    <2>1. /\ \A s \in ids : rowLock[s] = None
          /\ Revoke(ids)
          /\ req' = [req EXCEPT ![r] = Idle]
          /\ UNCHANGED <<grants, rowLock, resetting, resets, condemned>>
      BY <1>2, <1>4 DEF RevokeApply, Finish, Revoke
    <2>2. GrantsCounted'
      BY <2>1 DEF IInv, GrantsCounted
    <2>3. \A t \in Requests : req[t].pc = "resetRevoke" => grants'[req[t].grant] = "verified"
      BY <2>1 DEF IInv, RequestsKnow
    <2>4. QED
      BY <1>1, <1>3, <2>1, <2>2, <2>3, RevokeStep
  <1>5. CASE ResetCommit(r)
    <2>1. /\ \A s \in ids : rowLock[s] = None
          /\ Revoke(ids)
          /\ req' = [req EXCEPT ![r] = Idle]
          /\ condemned' = condemned \cup {sessions[s].family : s \in ids}
          /\ req[r].pc = "resetRevoke"
          /\ Unlock(r) /\ ConsumeGrants
          /\ resets' = [resets EXCEPT ![req[r].grant] = resets[req[r].grant] + 1]
      BY <1>2, <1>5 DEF ResetCommit, Finish, Revoke
    <2>2. /\ req[r].grant \in Grants /\ resetting = r
          /\ grants[req[r].grant] = "verified"
      BY <2>1 DEF IInv, RequestsKnow
    <2>3. /\ resets' \in [Grants -> Nat]
          /\ grants' \in [Grants -> {"none", "verified", "consumed"}]
      BY <1>1, <2>1, <2>2 DEF ConsumeGrants
    <2>4. GrantsCounted'
      BY <1>1, <2>1, <2>2 DEF IInv, GrantsCounted, ConsumeGrants
    <2>5. /\ rowLock' \in [Sessions -> Requests \cup {None}]
          /\ resetting' \in Requests \cup {None}
          /\ \A t \in Requests : t # r =>
               /\ \A s \in Sessions : rowLock[s] = t => rowLock'[s] = t
               /\ resetting = t => resetting' = t
      BY <1>1, <2>1 DEF Unlock
    <2>6. \A t \in Requests : t # r => req[t].pc # "resetRevoke"
      BY <2>2 DEF IInv, RequestsKnow
    <2>7. condemned' \subseteq Families
      <3>1. \A s \in ids : sessions[s].family \in Families
        BY <1>2, <1>3 DEF IInv, RequestsKnow, RowsWellFormed
      <3>2. QED
        BY <1>1, <2>1, <3>1
    <2>8. \A t \in Requests : t # r =>
            /\ \A s \in Sessions : rowLock[s] = t => rowLock'[s] = t
            /\ resetting = t => resetting' = t
            /\ req[t].pc = "resetRevoke" => grants'[req[t].grant] = "verified"
      BY <2>5, <2>6
    <2>9. /\ \A s \in ids : rowLock[s] = None
          /\ Revoke(ids)
          /\ req' = [req EXCEPT ![r] = Idle]
      BY <2>1
    <2>10. /\ rowLock' \in [Sessions -> Requests \cup {None}]
           /\ resetting' \in Requests \cup {None}
      BY <2>5
    <2>11. QED
      BY <1>3, <2>3, <2>4, <2>7, <2>8, <2>9, <2>10, RevokeStep, ZenonT(30)
  <1>6. QED
    BY <1>4, <1>5

\* A sign-in starts a family.
LEMMA SignInStep ==
  ASSUME IInv, NEW s \in Sessions, NEW f \in Families, SignIn(s, f)
  PROVE  IInv' /\ FamilyStep
  <1> USE NoneAssumption
  <1>1. /\ sessions \in [Sessions -> Session]
        /\ sessions[s].state = "none" /\ ~ Used(f)
        /\ sessions' = [sessions EXCEPT ![s] = NewSession(f)]
        /\ UNCHANGED <<grants, rowLock, resetting, req, resets, condemned>>
    BY DEF SignIn, IInv, TypeOK
  <1>2. /\ NewSession(f) \in Session
        /\ NewSession(f).state = "live" /\ NewSession(f).family = f
        /\ NewSession(f).replacedBy = None
    BY DEF NewSession, Session
  <1>3. /\ sessions' \in [Sessions -> Session]
        /\ \A x \in Sessions : sessions'[x] = IF x = s THEN NewSession(f) ELSE sessions[x]
    BY <1>1, <1>2
  <1>4. TypeOK'
    BY <1>1, <1>3 DEF IInv, TypeOK
  <1>5. RowsWellFormed' /\ OneLive' /\ GrantsCounted'
    BY <1>1, <1>2, <1>3
       DEF IInv, RowsWellFormed, OneLive, GrantsCounted, Live, Used
  <1>6. RequestsKnow'
    <2>1. \A t \in Requests : req[t].ids \subseteq Sessions
      BY DEF IInv, TypeOK, Request
    <2>2. QED
      BY <1>1, <1>2, <1>3, <2>1 DEF IInv, RequestsKnow, Live
  <1>7. ReplacementsAreChain'
    <2>1. ASSUME NEW x \in Sessions, sessions'[x].replacedBy # None
          PROVE  /\ x # s /\ sessions'[x] = sessions[x]
                 /\ sessions[x].replacedBy \in Sessions \ {s}
      <3>1. x # s /\ sessions'[x] = sessions[x]
        BY <1>2, <1>3, <2>1
      <3>2. sessions[x].replacedBy \in Sessions
        BY <1>1, <2>1, <3>1 DEF Session
      <3>3. sessions[sessions[x].replacedBy].family \in Families
        BY <2>1, <3>1 DEF IInv, ReplacementsAreChain, RowsWellFormed
      <3>4. QED
        BY <1>1, <3>1, <3>2, <3>3 DEF IInv, RowsWellFormed
    <2>2. QED
      BY <1>2, <1>3, <2>1 DEF IInv, ReplacementsAreChain
  <1>8. FamilyStep
    <2>1. Valid(f) = {} /\ Spent(f) = {}
      BY <1>1 DEF Valid, Spent, Used
    <2>2. \A g \in Families : s \notin Valid(g) \cup Spent(g)
      BY <1>1 DEF Valid, Spent, Live
    <2>3. \A g \in Families : Valid(g)' = IF g = f THEN {s} ELSE Valid(g)
      BY <1>1, <1>2, <1>3, <2>1 DEF Valid, Live
    <2>4. \A g \in Families : Spent(g)' = Spent(g)
      BY <1>1, <1>2, <1>3 DEF Spent
    <2>5. Family!Start(f, s)
      BY <2>1, <2>2, <2>3, <2>4 DEF Family!Start, Family!Fresh, Valid, Spent
    <2>6. QED
      BY <2>5 DEF FamilyStep, Family!Next
  <1>9. QED
    BY <1>4, <1>5, <1>6, <1>7, <1>8 DEF IInv

\* A rotation holds the row of the only live session of its family; its commit
\* exchanges that session for a new one.
LEMMA RotateCommitStep ==
  ASSUME IInv, NEW r \in Requests, RotateCommit(r)
  PROVE  IInv' /\ FamilyStep
  <1> USE NoneAssumption
  <1>1. /\ sessions \in [Sessions -> Session] /\ req \in [Requests -> Request]
        /\ rowLock \in [Sessions -> Requests \cup {None}]
        /\ resetting \in Requests \cup {None}
    BY DEF IInv, TypeOK
  <1>2. PICK s \in Sessions : s = req[r].session
    BY DEF RotateCommit, IInv, RequestsKnow
  <1>3. rowLock[s] = r /\ sessions[s].state = "live"
    BY <1>2 DEF RotateCommit, IInv, RequestsKnow, Live
  <1>4. PICK f \in Families : f = sessions[s].family
    BY <1>3 DEF IInv, RowsWellFormed
  <1>5. PICK t \in Sessions :
          /\ sessions[t].state = "none"
          /\ sessions' = [sessions EXCEPT ![s].state = "revoked", ![s].replacedBy = t,
                                          ![t] = NewSession(f)]
    BY <1>2, <1>4 DEF RotateCommit
  <1>6. /\ Unlock(r) /\ req' = [req EXCEPT ![r] = Idle]
        /\ UNCHANGED <<grants, resets, condemned>>
    BY DEF RotateCommit, Finish
  <1>7. /\ NewSession(f) \in Session
        /\ NewSession(f).state = "live" /\ NewSession(f).family = f
        /\ NewSession(f).replacedBy = None
    BY DEF NewSession, Session
  <1>8. s # t
    BY <1>3, <1>5
  <1> DEFINE old == [sessions[s] EXCEPT !.state = "revoked", !.replacedBy = t]
  <1>9. old \in Session /\ old.state = "revoked" /\ old.replacedBy = t /\ old.family = f
    BY <1>1, <1>4 DEF Session
  <1>10. sessions' = [sessions EXCEPT ![s] = old, ![t] = NewSession(f)]
    BY <1>1, <1>5, <1>8
  <1> HIDE DEF old
  <1>11. /\ sessions' \in [Sessions -> Session]
         /\ \A x \in Sessions : sessions'[x] = IF x = t THEN NewSession(f)
                                               ELSE IF x = s THEN old ELSE sessions[x]
    BY <1>1, <1>7, <1>9, <1>10
  <1>12. /\ rowLock' \in [Sessions -> Requests \cup {None}]
         /\ resetting' \in Requests \cup {None}
         /\ \A q \in Requests : q # r =>
              /\ \A x \in Sessions : rowLock[x] = q => rowLock'[x] = q
              /\ resetting = q => resetting' = q
    BY <1>1, <1>6 DEF Unlock
  <1>13. TypeOK'
    BY <1>1, <1>6, <1>11, <1>12, IdleType DEF IInv, TypeOK
  <1>14. RowsWellFormed' /\ GrantsCounted'
    BY <1>6, <1>7, <1>9, <1>11 DEF IInv, RowsWellFormed, GrantsCounted
  <1>15. OneLive'
    BY <1>3, <1>4, <1>7, <1>8, <1>9, <1>11 DEF IInv, OneLive, Live
  <1>16. RequestsKnow'
    <2>1. \A q \in Requests : req'[q] = IF q = r THEN Idle ELSE req[q]
      BY <1>1, <1>6
    <2>2. \A x \in Sessions : sessions[x].state # "none" => sessions'[x].state # "none"
      BY <1>5, <1>9, <1>11
    <2>3. \A q \in Requests : req[q].ids \subseteq Sessions
      BY <1>1 DEF Request
    <2>4. ASSUME NEW q \in Requests, q # r
          PROVE  /\ req[q].pc \in {"rotate", "insert", "reused"} =>
                      req[q].session \in Sessions /\ sessions'[req[q].session].state # "none"
                 /\ req[q].pc = "insert" =>
                      rowLock'[req[q].session] = q /\ sessions'[req[q].session].state = "live"
                 /\ req[q].pc \in {"reset", "resetRevoke"} => req[q].grant \in Grants
                 /\ req[q].pc = "resetRevoke" =>
                      resetting' = q /\ grants'[req[q].grant] = "verified"
                 /\ \A x \in req[q].ids : sessions'[x].state # "none"
      <3>1. req[q].pc = "insert" => req[q].session # s /\ req[q].session # t
        BY <1>3, <1>5, <2>4 DEF IInv, RequestsKnow, Live
      <3>2. QED
        BY <1>6, <1>11, <1>12, <2>2, <2>3, <2>4, <3>1 DEF IInv, RequestsKnow, Live
    <2>5. QED
      BY <2>1, <2>4, IdleType DEF RequestsKnow, Live
  <1>17. \A x \in Sessions : sessions[x].replacedBy # None =>
           sessions[x].replacedBy \in Sessions \ {t}
    <2>1. SUFFICES ASSUME NEW x \in Sessions, sessions[x].replacedBy # None
                   PROVE  sessions[x].replacedBy \in Sessions \ {t}
      OBVIOUS
    <2>2. sessions[x].replacedBy \in Sessions
      BY <1>1, <2>1 DEF Session
    <2>3. sessions[sessions[x].replacedBy].family \in Families
      BY <2>1 DEF IInv, ReplacementsAreChain, RowsWellFormed
    <2>4. QED
      BY <1>5, <2>2, <2>3 DEF IInv, RowsWellFormed
  <1>18. ReplacementsAreChain'
    <2>1. \A x \in Sessions : sessions'[x].family =
            IF x = t THEN f ELSE sessions[x].family
      BY <1>4, <1>7, <1>8, <1>9, <1>11
    <2>2. \A x \in Sessions : sessions'[x].replacedBy =
            IF x = t THEN None ELSE IF x = s THEN t ELSE sessions[x].replacedBy
      BY <1>7, <1>8, <1>9, <1>11
    <2>3. \A x \in Sessions \ {t} : sessions[x].state = "revoked" => sessions'[x].state = "revoked"
      BY <1>9, <1>11
    <2>4. sessions'[s].state = "revoked"
      BY <1>8, <1>9, <1>11
    <2>5. QED
      BY <1>4, <1>8, <1>17, <2>1, <2>2, <2>3, <2>4 DEF IInv, ReplacementsAreChain
  <1>19. FamilyStep
    <2>1. Valid(f) = {s}
      BY <1>3, <1>4 DEF IInv, OneLive, Valid, Live
    <2>2. \A g \in Families : t \notin Valid(g) \cup Spent(g)
      BY <1>5 DEF Valid, Spent, Live
    <2>3. \A g \in Families : Valid(g)' = IF g = f THEN {t} ELSE Valid(g)
      BY <1>3, <1>4, <1>5, <1>7, <1>8, <1>9, <1>11, <2>1 DEF Valid, Live
    <2>4. \A g \in Families : Spent(g)' = IF g = f THEN Spent(f) \cup {s} ELSE Spent(g)
      BY <1>3, <1>4, <1>5, <1>7, <1>8, <1>9, <1>11 DEF Spent
    <2>5. Family!Rotate(f, s, t)
      BY <2>1, <2>2, <2>3, <2>4 DEF Family!Rotate, Family!Fresh, Valid, Spent
    <2>6. QED
      BY <2>5 DEF FamilyStep, Family!Next
  <1>20. QED
    BY <1>13, <1>14, <1>15, <1>16, <1>18, <1>19 DEF IInv

\* Challenges come and go while no reset is past its update.
LEMMA ChallengeStep ==
  ASSUME IInv, ForgotPassword \/ \E g \in Grants : VerifyOtp(g)
  PROVE  IInv' /\ FamilyStep
  <1> USE NoneAssumption
  <1>1. /\ resetting = None
        /\ UNCHANGED <<sessions, rowLock, resetting, req, resets, condemned>>
    BY DEF ForgotPassword, VerifyOtp
  <1>2. grants \in [Grants -> {"none", "verified", "consumed"}]
    BY DEF IInv, TypeOK
  <1>3. /\ grants' \in [Grants -> {"none", "verified", "consumed"}]
        /\ \A g \in Grants : grants'[g] # "consumed" => grants[g] # "consumed"
    BY <1>2 DEF ForgotPassword, ConsumeGrants, VerifyOtp
  <1>4. TypeOK' /\ GrantsCounted'
    BY <1>1, <1>3 DEF IInv, TypeOK, GrantsCounted
  <1>5. RequestsKnow'
    BY <1>1 DEF IInv, RequestsKnow, Live
  <1>6. RowsWellFormed' /\ OneLive' /\ ReplacementsAreChain'
    BY <1>1 DEF IInv, RowsWellFormed, OneLive, ReplacementsAreChain, Live
  <1>7. QED
    BY <1>1, <1>4, <1>5, <1>6, RowsUnchanged DEF IInv

-----------------------------------------------------------------------------
(* The invariant, and what follows from it                                 *)

\* The account starts without sessions, grants and requests.
LEMMA InitEstablishesIInv == Init => IInv /\ Family!Init
  <1> SUFFICES ASSUME Init PROVE IInv /\ Family!Init
    OBVIOUS
  <1> USE NoneAssumption
  <1>1. NoSession \in Session /\ NoSession.state = "none" /\ NoSession.family = None
        /\ NoSession.replacedBy = None
    BY DEF NoSession, Session
  <1>2. TypeOK
    BY <1>1, IdleType DEF Init, TypeOK
  <1>3. \A s \in Sessions : sessions[s] = NoSession
    BY DEF Init
  <1>4. RowsWellFormed /\ OneLive /\ ReplacementsAreChain
    BY <1>1, <1>3 DEF RowsWellFormed, OneLive, ReplacementsAreChain, Live
  <1>5. RequestsKnow /\ GrantsCounted
    BY IdleType DEF Init, RequestsKnow, GrantsCounted
  <1>6. Family!Init
    BY <1>1, <1>3 DEF Family!Init, Live
  <1>7. QED
    BY <1>2, <1>4, <1>5, <1>6 DEF IInv

\* Every step keeps the invariant and is a step of the families or a stutter.
LEMMA NextStep == IInv /\ [Next]_vars => IInv' /\ [Family!Next]_(Family!vars)
  <1> SUFFICES ASSUME IInv, [Next]_vars PROVE IInv' /\ FamilyStep
    BY DEF FamilyStep
  <1>1. CASE \E r \in Requests : Start(r) \/ Proceed(r)
    <2>1. PICK r \in Requests : Start(r) \/ Proceed(r)
      BY <1>1
    <2>2. QED
      BY <2>1, StartStep, ReadingStep, RevokingStep, RotateCommitStep DEF Proceed
  <1>2. CASE \E s \in Sessions, f \in Families : SignIn(s, f)
    BY <1>2, SignInStep
  <1>3. CASE ForgotPassword \/ \E g \in Grants : VerifyOtp(g)
    BY <1>3, ChallengeStep
  <1>4. CASE UNCHANGED vars
    <2>1. UNCHANGED sessions
      BY <1>4 DEF vars
    <2>2. IInv'
      BY <1>4 DEF vars, IInv, TypeOK, RowsWellFormed, RequestsKnow, OneLive, GrantsCounted,
                  ReplacementsAreChain, Live
    <2>3. QED
      BY <2>1, <2>2, RowsUnchanged
  <1>5. QED
    BY <1>1, <1>2, <1>3, <1>4 DEF Next

\* The inductive invariant holds throughout.
LEMMA Invariance == Spec => []IInv
  <1>1. Init => IInv
    BY InitEstablishesIInv
  <1>2. IInv /\ [Next]_vars => IInv'
    BY NextStep
  <1>3. QED
    BY <1>1, <1>2, PTL DEF Spec

\* Every variable has its type.
THEOREM TypeCorrect == Spec => []TypeOK
  <1>1. IInv => TypeOK
    BY DEF IInv
  <1>2. QED
    BY <1>1, Invariance, PTL

\* replaced_by_id links the rotated sessions of a family into a chain, whatever
\* requests of auth.service.ts interleave.
THEOREM ReplacementsAlwaysChain == Spec => []ReplacementsAreChain
  <1>1. IInv => ReplacementsAreChain
    BY DEF IInv
  <1>2. QED
    BY <1>1, Invariance, PTL

\* A verified challenge changes the password at most once.
THEOREM GrantsWorkOnce == Spec => []OneResetPerGrant
  <1>1. IInv => OneResetPerGrant
    <2> SUFFICES ASSUME IInv, NEW g \in Grants
                 PROVE  resets[g] <= 1 /\ (resets[g] = 1 => grants[g] = "consumed")
      BY DEF OneResetPerGrant
    <2> QED
      BY DEF IInv, GrantsCounted
  <1>2. QED
    BY <1>1, Invariance, PTL

\* The rows of auth_sessions implement TokenFamily: one valid token in each
\* family, exchanged at most once, and no token after a family has ended.
THEOREM ImplementsTokenFamily == Spec => FollowsTokenFamily
  <1>1. Init => Family!Init
    BY InitEstablishesIInv
  <1>2. IInv /\ [Next]_vars => [Family!Next]_(Family!vars)
    BY NextStep
  <1>3. QED
    BY <1>1, <1>2, Invariance, PTL DEF Spec, FollowsTokenFamily, Family!Spec
=============================================================================
