--------------------------- MODULE IdentityProofs ---------------------------
(***************************************************************************)
(* Machine-checked proofs about two of the parts that ServiceSide hosts:   *)
(* accounts with their sessions and penalties, and one-time codes.  The    *)
(* theorems that rest on them are those of ServiceSideProofs.              *)
(***************************************************************************)
EXTENDS ServiceSide, FiniteSetTheorems, TLAPS

-----------------------------------------------------------------------------
\* A set of one element at most has cardinality one at most.
LEMMA AtMostOne ==
  ASSUME NEW S, \A a, b \in S : a = b
  PROVE  Cardinality(S) \in Nat /\ Cardinality(S) <= 1
  <1>1. CASE S = {}
    BY <1>1, FS_EmptySet
  <1>2. CASE S # {}
    <2>1. PICK a \in S : TRUE
      BY <1>2
    <2>2. S = {a}
      BY <2>1
    <2>3. Cardinality({a}) = 1
      BY FS_Singleton
    <2>4. QED
      BY <2>2, <2>3
  <1>3. QED
    BY <1>1, <1>2

-----------------------------------------------------------------------------
(* Accounts: v1 holds account, v2 verified, v3 code, v4 sessions, v5       *)
(* penalties, v6 op, v7 condemned and v8 trouble.                          *)

\* What an idle operation holds, and one that begins with a status of its own.
LEMMA AccountsDefaults ==
  /\ Accounts!Idle \in Accounts!Op /\ Accounts!Idle.pc = "idle"
  /\ Accounts!NoPenalty \in Accounts!Penalty /\ Accounts!NoPenalty.kind = "none"
  /\ Accounts!NoPenalty.status = "ACTIVE" /\ Accounts!NoPenalty.phase = "future"
  BY DEF Accounts!Idle, Accounts!Op, Accounts!Statuses, Accounts!NoPenalty, Accounts!Penalty, Accounts!Kinds

\* No account, no session and no penalty: nothing is claimed of any.
LEMMA AccountsInit == Accounts!Init => Accounts!IInv
  <1> SUFFICES ASSUME Accounts!Init PROVE Accounts!IInv
    OBVIOUS
  <1>1. Accounts!TypeOK
    BY AccountsDefaults DEF Accounts!Init, Accounts!TypeOK
  <1>2. \A o \in Requests : v6[o].pc = "idle"
    BY AccountsDefaults DEF Accounts!Init
  <1>3. \A p \in Penalties : v5[p].kind = "none" /\ v5[p].status = "ACTIVE" /\ v5[p].phase = "future"
    BY AccountsDefaults DEF Accounts!Init
  <1>4. Accounts!SessionsEarned
    BY <1>2 DEF Accounts!Init, Accounts!SessionsEarned, Accounts!SessionsNeedVerifiedEmail, Accounts!Live
  <1>5. Accounts!DatesHold /\ Accounts!OpsKnow
    BY <1>2, <1>3 DEF Accounts!DatesHold, Accounts!OpsKnow, Accounts!OnlyEndedExpire, Accounts!Imposed
  <1>6. Accounts!StatusSettles
    BY <1>2, <1>3 DEF Accounts!Init, Accounts!StatusSettles, Accounts!Works, Accounts!Announced,
       Accounts!Bars, Accounts!SuspensionHasCause
  <1>7. QED
    BY <1>1, <1>4, <1>5, <1>6 DEF Accounts!IInv

\* Where only o works, and has become x, it is enough to look at x.
LEMMA SettlesByWorker ==
  ASSUME Accounts!TypeOK, NEW o \in Requests, NEW x, v6' = [v6 EXCEPT ![o] = x],
         \A q \in Requests \ {o} : ~ Accounts!Works(q),
         \/ x.pc = "status"
         \/ v1' \in {"NONE", "PENDING_VERIFICATION", "ACTIVE"} => \A p \in Penalties : Accounts!Announced(p)',
         x.pc \in {"count", "restore"} \/ Accounts!SuspensionHasCause',
         x.pc = "status" => Accounts!Causes(x.penalty)',
         x.pc = "lift" => \A p \in Penalties \ {x.penalty} : Accounts!Announced(p)',
         x.pc = "keep" => \E p \in Penalties \ {x.penalty} : Accounts!Causes(p)',
         x.pc = "restore" => \A p \in Penalties : Accounts!Announced(p)'
  PROVE  Accounts!StatusSettles'
  <1>1. v6'[o] = x /\ \A q \in Requests \ {o} : v6'[q] = v6[q]
    BY DEF Accounts!TypeOK
  <1>2. \A q \in Requests \ {o} : v6'[q].pc \in {"idle", "session", "verify"}
    BY <1>1 DEF Accounts!Works
  <1>3. \A q, s \in Requests : Accounts!Works(q)' /\ Accounts!Works(s)' => q = s
    BY <1>2 DEF Accounts!Works
  <1>4. \/ \E q \in Requests : v6'[q].pc = "status"
        \/ v1' \in {"NONE", "PENDING_VERIFICATION", "ACTIVE"} => \A p \in Penalties : Accounts!Announced(p)'
    BY <1>1
  <1>5. (\E q \in Requests : v6'[q].pc \in {"count", "restore"}) \/ Accounts!SuspensionHasCause'
    BY <1>1
  <1>6. ASSUME NEW q \in Requests
        PROVE  ( /\ v6[q].pc = "status" => Accounts!Causes(v6[q].penalty)
                 /\ v6[q].pc = "lift" => \A p \in Penalties \ {v6[q].penalty} : Accounts!Announced(p)
                 /\ v6[q].pc = "keep" => \E p \in Penalties \ {v6[q].penalty} : Accounts!Causes(p)
                 /\ v6[q].pc = "restore" => \A p \in Penalties : Accounts!Announced(p) )'
    <2>1. CASE q = o
      <3>1. v6'[q] = x
        BY <1>1, <2>1
      <3>2. x.pc = "status" => Accounts!Causes(v6[q].penalty)'
        BY <3>1 DEF Accounts!Causes
      <3>3. QED
        BY <3>1, <3>2
    <2>2. CASE q # o
      BY <1>2, <2>2
    <2>3. QED
      BY <2>1, <2>2
  <1>7. QED
    BY <1>3, <1>4, <1>5, <1>6 DEF Accounts!StatusSettles

\* Where no operation that works moves, causes stay and penalties in force are
\* announced no less than before, the status follows them as it did.
LEMMA SettlesAside ==
  ASSUME Accounts!StatusSettles, Accounts!OpsKnow, v8' = {} => v8 = {},
         \A q \in Requests : \/ v6'[q] = v6[q]
                             \/ v6[q].pc \in {"idle", "session", "verify"} /\ v6'[q].pc \in {"idle", "session", "verify"},
         \A p \in Penalties : Accounts!Causes(p)' = Accounts!Causes(p),
         \A p \in Penalties : Accounts!Announced(p) => Accounts!Announced(p)',
         v8' = {} => \/ v1' = v1
                     \/ v1 # "SUSPENDED" /\ v1' # "SUSPENDED"
                        /\ v1 \in {"NONE", "PENDING_VERIFICATION", "ACTIVE"}
  PROVE  Accounts!StatusSettles'
  <1> SUFFICES ASSUME v8' = {} PROVE Accounts!StatusSettles'
    BY DEF Accounts!StatusSettles
  <1>0. v8 = {}
    OBVIOUS
  <1>1. \A q \in Requests : Accounts!Works(q)' => v6'[q] = v6[q] /\ Accounts!Works(q)
    BY DEF Accounts!Works
  <1>2. \A q \in Requests : v6[q].pc \in {"status", "count", "restore"} => v6'[q] = v6[q]
    OBVIOUS
  <1>3. \A q, s \in Requests : Accounts!Works(q)' /\ Accounts!Works(s)' => q = s
    BY <1>0, <1>1 DEF Accounts!StatusSettles
  <1>4. \/ \E q \in Requests : v6'[q].pc = "status"
        \/ v1' \in {"NONE", "PENDING_VERIFICATION", "ACTIVE"} => \A p \in Penalties : Accounts!Announced(p)'
    <2>1. CASE \E q \in Requests : v6[q].pc = "status"
      BY <1>2, <2>1
    <2>2. CASE ~ \E q \in Requests : v6[q].pc = "status"
      BY <1>0, <2>2 DEF Accounts!StatusSettles
    <2>3. QED
      BY <2>1, <2>2
  <1>5. (\E q \in Requests : v6'[q].pc \in {"count", "restore"}) \/ Accounts!SuspensionHasCause'
    <2>1. CASE \E q \in Requests : v6[q].pc \in {"count", "restore"}
      BY <1>2, <2>1
    <2>2. CASE ~ \E q \in Requests : v6[q].pc \in {"count", "restore"}
      <3>1. v1' = "SUSPENDED" => \E p \in Penalties : Accounts!Causes(p)
        BY <1>0, <2>2 DEF Accounts!StatusSettles, Accounts!SuspensionHasCause, Accounts!Causes
      <3>2. v1' = "SUSPENDED" => \E p \in Penalties : Accounts!Causes(p)'
        BY <3>1
      <3>3. QED
        BY <3>2 DEF Accounts!SuspensionHasCause, Accounts!Causes
    <2>3. QED
      BY <2>1, <2>2
  <1>6. ASSUME NEW q \in Requests
        PROVE  ( /\ v6[q].pc = "status" => Accounts!Causes(v6[q].penalty)
                 /\ v6[q].pc = "lift" => \A p \in Penalties \ {v6[q].penalty} : Accounts!Announced(p)
                 /\ v6[q].pc = "keep" => \E p \in Penalties \ {v6[q].penalty} : Accounts!Causes(p)
                 /\ v6[q].pc = "restore" => \A p \in Penalties : Accounts!Announced(p) )'
    <2>1. CASE v6'[q].pc \in {"status", "lift", "keep", "restore"}
      <3>1. v6'[q] = v6[q]
        BY <2>1
      <3>2. v6[q].pc = "status" => v6[q].penalty \in Penalties
        BY DEF Accounts!OpsKnow
      <3>3. /\ v6[q].pc = "status" => Accounts!Causes(v6[q].penalty)
            /\ v6[q].pc = "lift" => \A p \in Penalties \ {v6[q].penalty} : Accounts!Announced(p)
            /\ v6[q].pc = "keep" => \E p \in Penalties \ {v6[q].penalty} : Accounts!Causes(p)
            /\ v6[q].pc = "restore" => \A p \in Penalties : Accounts!Announced(p)
        BY <1>0 DEF Accounts!StatusSettles
      <3>4. v6[q].pc = "status" => Accounts!Causes(v6[q].penalty)'
        <4>1. SUFFICES ASSUME v6[q].pc = "status" PROVE Accounts!Causes(v6[q].penalty)'
          OBVIOUS
        <4>2. Accounts!Causes(v6[q].penalty) /\ v6[q].penalty \in Penalties
          BY <3>2, <3>3, <4>1
        <4>3. v5'[v6[q].penalty].kind \in Accounts!Barring /\ v5'[v6[q].penalty].status = "ACTIVE"
          BY <4>2 DEF Accounts!Causes
        <4>4. QED
          BY <3>1, <4>3 DEF Accounts!Causes
      <3>5. QED
        BY <3>1, <3>3, <3>4
    <2>2. CASE v6'[q].pc \notin {"status", "lift", "keep", "restore"}
      BY <2>2
    <2>3. QED
      BY <2>1, <2>2
  <1>7. QED
    BY <1>3, <1>4, <1>5, <1>6 DEF Accounts!StatusSettles

\* What an operation may become: it knows its penalty, is entitled to a
\* session, and what it expires is over.
Fit(x) ==
  /\ x \in Accounts!Op
  /\ x.pc = "session" => v2
  /\ x.pc \in {"status", "revoke", "lift", "keep"} => x.penalty \in Penalties
  /\ x.pc = "expire" => \A p \in x.found : Accounts!Imposed(p) /\ v5[p].phase = "over"

\* The clock follows the dates of the row x.
Dated(x) ==
  /\ x \in Accounts!Penalty
  /\ x.kind # "none" /\ x.phase = "future" => x.later
  /\ x.phase = "over" => x.ends
  /\ x.status = "EXPIRED" => x.ends /\ x.phase = "over"

\* Operations find what they may and rows have dates that fit: what is left to
\* show of a step is that the status of the account settles.
LEMMA AccountsKeeps ==
  ASSUME Accounts!IInv,
         v1' \in Accounts!Statuses \cup {"NONE"}, v2' \in BOOLEAN, v3' \in {"none", "open", "consumed"},
         v4' \in [Sessions -> {"none", "live", "revoked"}], v7' \subseteq Sessions,
         v8' \subseteq Accounts!Troubles,
         v6' \in [Requests -> Accounts!Op], \A q \in Requests : v6'[q] = v6[q] \/ Fit(v6[q])',
         v5' \in [Penalties -> Accounts!Penalty],
         \A p \in Penalties : \/ v5'[p] = v5[p]
                              \/ /\ Dated(v5[p])'
                                 /\ Accounts!Imposed(p) =>
                                      Accounts!Imposed(p)' /\ (v5[p].phase = "over" => v5'[p].phase = "over"),
         v2 => v2', \A s \in v7' : v4'[s] = "revoked", Accounts!Live' # {} => v2',
         Accounts!StatusSettles'
  PROVE  Accounts!IInv'
  <1> USE DEF Accounts!IInv
  <1>1. Accounts!TypeOK'
    BY DEF Accounts!TypeOK
  <1>2. Accounts!SessionsEarned'
    BY DEF Accounts!SessionsEarned, Accounts!SessionsNeedVerifiedEmail, Fit
  <1>3. ASSUME NEW p \in Penalties
        PROVE  ( /\ Accounts!Imposed(p) /\ v5[p].phase = "future" => v5[p].later
                 /\ v5[p].phase = "over" => v5[p].ends
                 /\ v5[p].status = "EXPIRED" => v5[p].ends /\ v5[p].phase = "over" )'
    BY DEF Accounts!DatesHold, Accounts!OnlyEndedExpire, Accounts!Imposed, Dated
  <1>4. ASSUME NEW q \in Requests, v6'[q].pc = "expire", NEW p \in v6'[q].found
        PROVE  (Accounts!Imposed(p) /\ v5[p].phase = "over")'
    <2>1. p \in Penalties
      BY <1>1 DEF Accounts!TypeOK, Accounts!Op
    <2>2. CASE v6'[q] = v6[q]
      BY <1>4, <2>1, <2>2 DEF Accounts!DatesHold, Accounts!Imposed
    <2>3. CASE Fit(v6[q])'
      BY <1>4, <2>3 DEF Fit
    <2>4. QED
      BY <2>2, <2>3
  <1>5. Accounts!DatesHold'
    BY <1>3, <1>4 DEF Accounts!DatesHold, Accounts!OnlyEndedExpire
  <1>6. Accounts!OpsKnow'
    BY DEF Accounts!OpsKnow, Fit
  <1>7. QED
    BY <1>1, <1>2, <1>5, <1>6

\* An operation becomes x and the account stays.
LEMMA AccountsMoves ==
  ASSUME Accounts!IInv, NEW o \in Requests, NEW x, Fit(x), v6' = [v6 EXCEPT ![o] = x],
         v1' = v1, v2' = v2, v3' = v3, v4' = v4, v5' = v5, v7' = v7, v8' \subseteq Accounts!Troubles,
         Accounts!StatusSettles'
  PROVE  Accounts!IInv'
  <1>1. /\ v1 \in Accounts!Statuses \cup {"NONE"} /\ v2 \in BOOLEAN
        /\ v3 \in {"none", "open", "consumed"} /\ v4 \in [Sessions -> {"none", "live", "revoked"}]
        /\ v5 \in [Penalties -> Accounts!Penalty] /\ v6 \in [Requests -> Accounts!Op]
        /\ v7 \subseteq Sessions
    BY DEF Accounts!IInv, Accounts!TypeOK
  <1>2. v6' \in [Requests -> Accounts!Op] /\ v6'[o] = x /\ \A q \in Requests \ {o} : v6'[q] = v6[q]
    BY <1>1 DEF Fit
  <1>3. Fit(v6[o])'
    BY <1>2 DEF Fit, Accounts!Imposed
  <1>4. (\A s \in v7 : v4[s] = "revoked") /\ (Accounts!Live # {} => v2) /\ Accounts!Live' = Accounts!Live
    BY DEF Accounts!IInv, Accounts!SessionsEarned, Accounts!SessionsNeedVerifiedEmail, Accounts!Live
  <1>5. QED
    BY <1>1, <1>2, <1>3, <1>4, AccountsKeeps

\* A row changes by its status and phase alone.
LEMMA PenaltyFacts ==
  /\ \A terms \in Offers :
       LET x == Accounts!Row(terms)
       IN x \in Accounts!Penalty /\ x.kind = terms.kind /\ x.later = terms.later /\ x.ends = terms.ends
          /\ x.status = "ACTIVE" /\ x.phase = IF terms.later THEN "future" ELSE "running"
  /\ \A terms \in Offers : terms.kind \in Accounts!Kinds /\ terms.later \in BOOLEAN /\ terms.ends \in BOOLEAN
  /\ \A p \in Accounts!Penalty, s \in {"REVOKED", "EXPIRED"} :
       LET x == [p EXCEPT !.status = s]
       IN x \in Accounts!Penalty /\ x.kind = p.kind /\ x.later = p.later /\ x.ends = p.ends
          /\ x.status = s /\ x.phase = p.phase
  /\ \A p \in Accounts!Penalty, ph \in {"running", "over"} :
       LET x == [p EXCEPT !.phase = ph]
       IN x \in Accounts!Penalty /\ x.kind = p.kind /\ x.later = p.later /\ x.ends = p.ends
          /\ x.status = p.status /\ x.phase = ph
  BY OffersAssumption DEF Accounts!Row, Accounts!Penalty, Accounts!Terms, Accounts!Kinds

\* When all live sessions are revoked, those a penalty has found stay so.
LEMMA RevokeAllFacts ==
  ASSUME Accounts!IInv, Accounts!RevokeAll
  PROVE  /\ v4' \in [Sessions -> {"none", "live", "revoked"}] /\ Accounts!Live' = {}
         /\ \A s \in v7 \cup Accounts!Live : s \in Sessions /\ v4'[s] = "revoked"
  BY DEF Accounts!IInv, Accounts!TypeOK, Accounts!SessionsEarned, Accounts!RevokeAll, Accounts!Live

\* An operation that begins while no other works on the account leaves it as
\* it was.
LEMMA SettlesByBegin ==
  ASSUME Accounts!IInv, NEW o \in Requests, NEW x, Accounts!BeginModeration(o, x),
         x.pc \in {"revoke", "set", "expire"}, v1' = v1, v5' = v5
  PROVE  /\ v6' = [v6 EXCEPT ![o] = x]
         /\ v8' \subseteq Accounts!Troubles
         /\ Accounts!StatusSettles'
  <1>1. v6[o].pc = "idle" /\ v6' = [v6 EXCEPT ![o] = x]
        /\ v8' = IF Accounts!Quiet THEN v8 ELSE v8 \cup {"mixed"}
    BY DEF Accounts!BeginModeration, Accounts!Begin
  <1>2. v8' \subseteq Accounts!Troubles
    BY <1>1 DEF Accounts!IInv, Accounts!TypeOK, Accounts!Troubles
  <1>3. ASSUME v8' = {} PROVE Accounts!StatusSettles'
    <2>1. v8 = {} /\ \A q \in Requests : v6[q].pc \in {"idle", "session"} /\ ~ Accounts!Works(q)
      BY <1>1, <1>3 DEF Accounts!Quiet, Accounts!Moderates, Accounts!Works
    <2>2. Accounts!SuspensionHasCause
          /\ (v1 \in {"NONE", "PENDING_VERIFICATION", "ACTIVE"} => \A p \in Penalties : Accounts!Announced(p))
      BY <2>1 DEF Accounts!IInv, Accounts!StatusSettles
    <2>3. Accounts!SuspensionHasCause'
          /\ (v1' \in {"NONE", "PENDING_VERIFICATION", "ACTIVE"} => \A p \in Penalties : Accounts!Announced(p)')
      BY <2>2 DEF Accounts!SuspensionHasCause, Accounts!Announced, Accounts!Bars
    <2>4. QED
      BY <1>1, <2>1, <2>3, SettlesByWorker DEF Accounts!IInv
  <1>4. QED
    BY <1>1, <1>2, <1>3 DEF Accounts!StatusSettles

\* Every step of the account, its sessions and its penalties keeps the
\* inductive invariant: the ones that change a row or the status are the ones
\* with something to show.
LEMMA AccountsStep == Accounts!IInv /\ Accounts!Next => Accounts!IInv'
  <1> SUFFICES ASSUME Accounts!IInv, Accounts!Next PROVE Accounts!IInv'
    OBVIOUS
  <1>0. /\ v1 \in Accounts!Statuses \cup {"NONE"} /\ v2 \in BOOLEAN
        /\ v3 \in {"none", "open", "consumed"} /\ v4 \in [Sessions -> {"none", "live", "revoked"}]
        /\ v5 \in [Penalties -> Accounts!Penalty] /\ v6 \in [Requests -> Accounts!Op]
        /\ v7 \subseteq Sessions /\ v8 \subseteq Accounts!Troubles /\ Accounts!TypeOK
    BY DEF Accounts!IInv, Accounts!TypeOK
  <1>S. (\A s \in v7 : v4[s] = "revoked") /\ (Accounts!Live # {} => v2)
        /\ \A o \in Requests : v6[o].pc = "session" => v2
    BY DEF Accounts!IInv, Accounts!SessionsEarned, Accounts!SessionsNeedVerifiedEmail
  <1>K. Accounts!StatusSettles /\ Accounts!OpsKnow
    BY DEF Accounts!IInv
  <1>D. \A p \in Penalties : Dated(v5[p])
    BY <1>0 DEF Accounts!IInv, Accounts!DatesHold, Accounts!OnlyEndedExpire, Accounts!Imposed, Dated
  <1>T. \A o \in Requests : Accounts!Quiet => ~ Accounts!Works(o) /\ v6[o].pc \in {"idle", "session"}
    BY DEF Accounts!Quiet, Accounts!Moderates, Accounts!Works
  <1>W. ASSUME v8 = {}, NEW o \in Requests, Accounts!Works(o)
        PROVE  \A q \in Requests \ {o} : ~ Accounts!Works(q)
    BY <1>K, <1>W DEF Accounts!StatusSettles
  \* Sign-ups, sign-ins and verifications.
  <1>1. ASSUME Accounts!SignUp PROVE Accounts!IInv'
    <2>1. v1 = "NONE" /\ v1' = "PENDING_VERIFICATION" /\ v3' = "open" /\ v2' = v2 /\ v4' = v4 /\ v5' = v5
          /\ v6' = v6 /\ v7' = v7 /\ v8' = v8
      BY <1>1 DEF Accounts!SignUp
    <2>2. Accounts!StatusSettles'
      BY <1>K, <2>1, SettlesAside DEF Accounts!Causes, Accounts!Announced, Accounts!Bars
    <2>3. Accounts!Live' = Accounts!Live
      BY <2>1 DEF Accounts!Live
    <2>4. QED
      BY <1>0, <1>S, <2>1, <2>2, <2>3, AccountsKeeps DEF Accounts!Statuses
  <1>2. ASSUME NEW o \in Requests, Accounts!VerifyRead(o) \/ Accounts!SignIn(o)
        PROVE  Accounts!IInv'
    <2>1. PICK pc \in {"verify", "session"} :
            /\ v6' = [v6 EXCEPT ![o] = [Accounts!Idle EXCEPT !.pc = pc]]
            /\ v6[o].pc = "idle" /\ (pc = "session" => v2)
            /\ v1' = v1 /\ v2' = v2 /\ v3' = v3 /\ v4' = v4 /\ v5' = v5 /\ v7' = v7 /\ v8' = v8
      BY <1>2 DEF Accounts!VerifyRead, Accounts!SignIn, Accounts!MaySignIn, Accounts!Begin
    <2> DEFINE x == [Accounts!Idle EXCEPT !.pc = pc]
    <2>2. x.pc = pc /\ Fit(x)
      BY <2>1, AccountsDefaults DEF Fit, Accounts!Op
    <2> HIDE DEF x
    <2>3. v6' = [v6 EXCEPT ![o] = x]
      BY <2>1 DEF x
    <2>4. Accounts!StatusSettles'
      BY <1>0, <1>K, <2>1, <2>2, <2>3, SettlesAside DEF Accounts!Causes, Accounts!Announced, Accounts!Bars
    <2>5. QED
      BY <1>0, <2>1, <2>2, <2>3, <2>4, AccountsMoves

  <1>3. ASSUME NEW o \in Requests, Accounts!VerifyCommit(o)
        PROVE  Accounts!IInv'
    <2>1. /\ v6[o].pc = "verify" /\ v6' = [v6 EXCEPT ![o] = Accounts!Idle]
          /\ v1' = "ACTIVE" /\ v2' = TRUE /\ v3' = "consumed" /\ v5' = v5 /\ v7' = v7
          /\ v8' = IF v1 = "PENDING_VERIFICATION" THEN v8 ELSE v8 \cup {"mixed"}
      BY <1>3 DEF Accounts!VerifyCommit, Accounts!Finish
    <2>2. PICK s \in Sessions : v4[s] = "none" /\ v4' = [v4 EXCEPT ![s] = "live"]
      BY <1>3 DEF Accounts!VerifyCommit, Accounts!Open
    <2>3. /\ v4' \in [Sessions -> {"none", "live", "revoked"}]
          /\ \A t \in v7 : v4'[t] = "revoked"
      BY <1>0, <1>S, <2>2
    <2>4. Accounts!StatusSettles'
      BY <1>0, <1>K, <2>1, AccountsDefaults, SettlesAside DEF Accounts!Causes, Accounts!Announced, Accounts!Bars
    <2>5. v6' \in [Requests -> Accounts!Op] /\ \A q \in Requests : v6'[q] = v6[q] \/ Fit(v6[q])'
      BY <1>0, <2>1, AccountsDefaults DEF Fit
    <2>6. v8' \subseteq Accounts!Troubles
      BY <1>0, <2>1 DEF Accounts!Troubles
    <2>7. QED
      BY <1>0, <2>1, <2>3, <2>4, <2>5, <2>6, AccountsKeeps DEF Accounts!Statuses
  <1>4. ASSUME NEW o \in Requests, Accounts!OAuthSignUp(o)
        PROVE  Accounts!IInv'
    <2> DEFINE x == [Accounts!Idle EXCEPT !.pc = "session"]
    <2>1. /\ v1 = "NONE" /\ v6[o].pc = "idle" /\ v6' = [v6 EXCEPT ![o] = x]
          /\ v1' = "ACTIVE" /\ v2' = TRUE /\ v3' = v3 /\ v4' = v4 /\ v5' = v5 /\ v7' = v7 /\ v8' = v8
      BY <1>4 DEF Accounts!OAuthSignUp, Accounts!Begin
    <2>2. x \in Accounts!Op /\ x.pc = "session"
      BY AccountsDefaults DEF Accounts!Op
    <2> HIDE DEF x
    <2>4. Accounts!StatusSettles'
      BY <1>0, <1>K, <2>1, <2>2, SettlesAside DEF Accounts!Causes, Accounts!Announced, Accounts!Bars
    <2>5. v6' \in [Requests -> Accounts!Op] /\ \A q \in Requests : v6'[q] = v6[q] \/ Fit(v6[q])'
      BY <1>0, <2>1, <2>2 DEF Fit
    <2>6. QED
      BY <1>0, <1>S, <2>1, <2>4, <2>5, AccountsKeeps DEF Accounts!Statuses
  <1>5. ASSUME NEW o \in Requests, Accounts!CreateSession(o)
        PROVE  Accounts!IInv'
    <2>1. /\ v6[o].pc = "session" /\ v6' = [v6 EXCEPT ![o] = Accounts!Idle]
          /\ v1' = v1 /\ v2' = v2 /\ v3' = v3 /\ v5' = v5 /\ v7' = v7 /\ v8' = v8
      BY <1>5 DEF Accounts!CreateSession, Accounts!Finish
    <2>2. PICK s \in Sessions : v4[s] = "none" /\ v4' = [v4 EXCEPT ![s] = "live"]
      BY <1>5 DEF Accounts!CreateSession, Accounts!Open
    <2>3. /\ v4' \in [Sessions -> {"none", "live", "revoked"}] /\ v2'
          /\ \A t \in v7 : v4'[t] = "revoked"
      BY <1>0, <1>S, <2>1, <2>2
    <2>4. Accounts!StatusSettles'
      BY <1>0, <1>K, <2>1, AccountsDefaults, SettlesAside DEF Accounts!Causes, Accounts!Announced, Accounts!Bars
    <2>5. v6' \in [Requests -> Accounts!Op] /\ \A q \in Requests : v6'[q] = v6[q] \/ Fit(v6[q])'
      BY <1>0, <2>1, AccountsDefaults DEF Fit
    <2>6. QED
      BY <1>0, <2>1, <2>3, <2>4, <2>5, AccountsKeeps
  \* Penalties are imposed.
  <1>6. ASSUME NEW o \in Requests, NEW p \in Penalties, NEW terms \in Offers, Accounts!Impose(o, p, terms)
        PROVE  Accounts!IInv'
    <2> DEFINE row == Accounts!Row(terms)
    <2>1. /\ v5[p].kind = "none" /\ v5' = [v5 EXCEPT ![p] = row]
          /\ v1' = v1 /\ v2' = v2 /\ v3' = v3 /\ v4' = v4 /\ v7' = v7
      BY <1>6 DEF Accounts!Impose, Accounts!Imposed
    <2>2. /\ row \in Accounts!Penalty /\ row.kind = terms.kind /\ row.later = terms.later
          /\ row.status = "ACTIVE" /\ row.phase = (IF terms.later THEN "future" ELSE "running")
          /\ terms.kind \in Accounts!Kinds /\ terms.later \in BOOLEAN
      BY PenaltyFacts
    <2> HIDE DEF row
    <2>3. /\ v5' \in [Penalties -> Accounts!Penalty] /\ v5'[p] = row
          /\ \A q \in Penalties \ {p} : v5'[q] = v5[q]
      BY <1>0, <2>1, <2>2
    <2>4. Dated(v5[p])' /\ ~ Accounts!Imposed(p)
      BY <2>1, <2>2, <2>3 DEF Dated, Accounts!Imposed
    <2>5. CASE terms.kind \in Accounts!Barring
      <3> DEFINE x == [Accounts!Idle EXCEPT !.pc = "status", !.penalty = p]
      <3>1. v6[o].pc = "idle" /\ v6' = [v6 EXCEPT ![o] = x]
            /\ v8' = IF Accounts!Quiet THEN v8 ELSE v8 \cup {"mixed"}
        BY <1>6, <2>5 DEF Accounts!Impose, Accounts!BeginModeration, Accounts!Begin
      <3>2. x \in Accounts!Op /\ x.pc = "status" /\ x.penalty = p
        BY AccountsDefaults DEF Accounts!Op
      <3> HIDE DEF x
      <3>3. v8' \subseteq Accounts!Troubles /\ (v8' = {} => v8 = {} /\ Accounts!Quiet)
        BY <1>0, <3>1 DEF Accounts!Troubles
      <3>4. v6' \in [Requests -> Accounts!Op] /\ \A q \in Requests : v6'[q] = v6[q] \/ Fit(v6[q])'
        BY <1>0, <3>1, <3>2 DEF Fit
      <3>5. Accounts!StatusSettles'
        <4>1. SUFFICES ASSUME v8' = {} PROVE Accounts!StatusSettles'
          BY DEF Accounts!StatusSettles
        <4>2. \A q \in Requests : ~ Accounts!Works(q) /\ v6[q].pc \in {"idle", "session"}
          BY <1>T, <3>3, <4>1
        <4>3. Accounts!Causes(p)'
          BY <2>2, <2>3, <2>5 DEF Accounts!Causes
        <4>4. Accounts!SuspensionHasCause'
          BY <1>K, <2>1, <2>3, <3>3, <4>1, <4>2, <4>3
          DEF Accounts!StatusSettles, Accounts!SuspensionHasCause, Accounts!Causes
        <4>5. QED
          BY <1>0, <3>1, <3>2, <4>2, <4>3, <4>4, SettlesByWorker
      <3>6. QED
        BY <1>0, <1>S, <2>1, <2>3, <2>4, <3>3, <3>4, <3>5, AccountsKeeps DEF Accounts!Live
    <2>6. CASE terms.kind \notin Accounts!Barring
      <3>1. v6' = v6 /\ v8' = v8
        BY <1>6, <2>6 DEF Accounts!Impose
      <3>2. \A q \in Penalties : Accounts!Causes(q)' = Accounts!Causes(q)
                                 /\ (Accounts!Announced(q) => Accounts!Announced(q)')
        BY <2>1, <2>2, <2>3, <2>6 DEF Accounts!Causes, Accounts!Announced, Accounts!Bars, Accounts!Barring, Accounts!Kinds
      <3>3. Accounts!StatusSettles'
        BY <1>K, <2>1, <3>1, <3>2, SettlesAside
      <3>4. QED
        BY <1>0, <1>S, <2>1, <2>3, <2>4, <3>1, <3>3, AccountsKeeps DEF Accounts!Live
    <2>7. QED
      BY <2>5, <2>6
  <1>7. ASSUME NEW o \in Requests, Accounts!ImposeStatus(o)
        PROVE  Accounts!IInv'
    <2> DEFINE x == [v6[o] EXCEPT !.pc = "revokeAll"]
    <2>1. /\ v6[o].pc = "status" /\ v6' = [v6 EXCEPT ![o] = x]
          /\ v1' = Accounts!StatusOf(v5[v6[o].penalty].kind)
          /\ v2' = v2 /\ v3' = v3 /\ v4' = v4 /\ v5' = v5 /\ v7' = v7 /\ v8' = v8
      BY <1>7 DEF Accounts!ImposeStatus, Accounts!GoTo
    <2>2. x \in Accounts!Op /\ x.pc = "revokeAll" /\ v6[o].penalty \in Penalties
      BY <1>0, <1>K, <2>1 DEF Accounts!Op, Accounts!OpsKnow
    <2> HIDE DEF x
    <2>3. v1' \in {"BANNED", "SUSPENDED"}
      BY <2>1 DEF Accounts!StatusOf
    <2>4. Accounts!StatusSettles'
      <3>1. SUFFICES ASSUME v8 = {} PROVE Accounts!StatusSettles'
        BY <2>1 DEF Accounts!StatusSettles
      <3>2. \A q \in Requests \ {o} : ~ Accounts!Works(q)
        BY <1>W, <2>1, <3>1 DEF Accounts!Works
      <3>3. Accounts!Causes(v6[o].penalty)
        BY <1>K, <2>1, <3>1 DEF Accounts!StatusSettles
      <3>4. Accounts!SuspensionHasCause'
        BY <2>1, <2>2, <3>3 DEF Accounts!SuspensionHasCause, Accounts!Causes
      <3>5. QED
        BY <1>0, <2>1, <2>2, <2>3, <3>2, <3>4, SettlesByWorker
    <2>5. v6' \in [Requests -> Accounts!Op] /\ \A q \in Requests : v6'[q] = v6[q] \/ Fit(v6[q])'
      BY <1>0, <2>1, <2>2 DEF Fit
    <2>6. QED
      BY <1>0, <1>S, <2>1, <2>3, <2>4, <2>5, AccountsKeeps DEF Accounts!Live, Accounts!Statuses
  <1>8. ASSUME NEW o \in Requests, Accounts!ImposeSessions(o)
        PROVE  Accounts!IInv'
    <2>1. /\ v6[o].pc = "revokeAll" /\ v6' = [v6 EXCEPT ![o] = Accounts!Idle]
          /\ v7' = v7 \cup Accounts!Live /\ Accounts!RevokeAll
          /\ v1' = v1 /\ v2' = v2 /\ v3' = v3 /\ v5' = v5 /\ v8' = v8
      BY <1>8 DEF Accounts!ImposeSessions, Accounts!Finish
    <2>2. Accounts!StatusSettles'
      <3>1. SUFFICES ASSUME v8 = {} PROVE Accounts!StatusSettles'
        BY <2>1 DEF Accounts!StatusSettles
      <3>2. \A q \in Requests \ {o} : ~ Accounts!Works(q)
        BY <1>W, <2>1, <3>1 DEF Accounts!Works
      <3>3. Accounts!SuspensionHasCause
            /\ (v1 \in {"NONE", "PENDING_VERIFICATION", "ACTIVE"} => \A p \in Penalties : Accounts!Announced(p))
        BY <1>K, <2>1, <3>1, <3>2 DEF Accounts!StatusSettles, Accounts!Works
      <3>4. Accounts!SuspensionHasCause'
            /\ (v1' \in {"NONE", "PENDING_VERIFICATION", "ACTIVE"} => \A p \in Penalties : Accounts!Announced(p)')
        BY <2>1, <3>3 DEF Accounts!SuspensionHasCause, Accounts!Announced, Accounts!Bars
      <3>5. QED
        BY <1>0, <2>1, <3>2, <3>4, AccountsDefaults, SettlesByWorker
    <2>3. v6' \in [Requests -> Accounts!Op] /\ \A q \in Requests : v6'[q] = v6[q] \/ Fit(v6[q])'
      BY <1>0, <2>1, AccountsDefaults DEF Fit
    <2>4. v7' \subseteq Sessions /\ (\A s \in v7' : v4'[s] = "revoked") /\ Accounts!Live' = {}
          /\ v4' \in [Sessions -> {"none", "live", "revoked"}]
      BY <2>1, RevokeAllFacts
    <2>5. QED
      BY <1>0, <2>1, <2>2, <2>3, <2>4, AccountsKeeps
  <1>9. ASSUME NEW p \in Penalties, NEW terms \in Offers, Accounts!ImposeByReport(p, terms)
        PROVE  Accounts!IInv'
    <2> DEFINE row == Accounts!Row(terms)
    <2>1. /\ v5[p].kind = "none" /\ v5' = [v5 EXCEPT ![p] = row]
          /\ v8' = (IF Accounts!Quiet THEN v8 ELSE v8 \cup {"mixed"})
          /\ v2' = v2 /\ v3' = v3 /\ v6' = v6
      BY <1>9 DEF Accounts!ImposeByReport, Accounts!Imposed
    <2>2. /\ row \in Accounts!Penalty /\ row.kind = terms.kind /\ row.later = terms.later
          /\ row.status = "ACTIVE" /\ row.phase = (IF terms.later THEN "future" ELSE "running")
          /\ terms.kind \in Accounts!Kinds /\ terms.later \in BOOLEAN
      BY PenaltyFacts
    <2> HIDE DEF row
    <2>3. /\ v5' \in [Penalties -> Accounts!Penalty] /\ v5'[p] = row
          /\ \A q \in Penalties \ {p} : v5'[q] = v5[q]
      BY <1>0, <2>1, <2>2
    <2>4. Dated(v5[p])' /\ ~ Accounts!Imposed(p)
      BY <2>1, <2>2, <2>3 DEF Dated, Accounts!Imposed
    <2>5. v8' \subseteq Accounts!Troubles /\ (v8' = {} => v8 = {} /\ Accounts!Quiet)
      BY <1>0, <2>1 DEF Accounts!Troubles
    <2>6. CASE terms.kind \in Accounts!Barring
      <3>1. v1' \in {"BANNED", "SUSPENDED"} /\ Accounts!RevokeAll /\ v7' = v7 \cup Accounts!Live
        BY <1>9, <2>6 DEF Accounts!ImposeByReport, Accounts!StatusOf
      <3>2. Accounts!StatusSettles'
        <4>1. SUFFICES ASSUME v8' = {} PROVE Accounts!StatusSettles'
          BY DEF Accounts!StatusSettles
        <4>2. \A q \in Requests : v6'[q].pc \in {"idle", "session"}
          BY <1>T, <2>1, <2>5, <4>1
        <4>3. Accounts!SuspensionHasCause'
          BY <2>2, <2>3, <2>6 DEF Accounts!SuspensionHasCause
        <4>4. QED
          BY <3>1, <4>2, <4>3 DEF Accounts!StatusSettles, Accounts!Works
      <3>3. v7' \subseteq Sessions /\ (\A s \in v7' : v4'[s] = "revoked") /\ Accounts!Live' = {}
            /\ v4' \in [Sessions -> {"none", "live", "revoked"}]
        BY <3>1, RevokeAllFacts
      <3>4. QED
        BY <1>0, <2>1, <2>3, <2>4, <2>5, <3>1, <3>2, <3>3, AccountsKeeps DEF Accounts!Statuses
    <2>7. CASE terms.kind \notin Accounts!Barring
      <3>1. v1' = v1 /\ v4' = v4 /\ v7' = v7
        BY <1>9, <2>7 DEF Accounts!ImposeByReport
      <3>2. \A q \in Penalties : Accounts!Causes(q)' = Accounts!Causes(q)
                                 /\ (Accounts!Announced(q) => Accounts!Announced(q)')
        BY <2>1, <2>2, <2>3, <2>7 DEF Accounts!Causes, Accounts!Announced, Accounts!Bars, Accounts!Barring, Accounts!Kinds
      <3>3. Accounts!StatusSettles'
        BY <1>K, <2>1, <2>5, <3>1, <3>2, SettlesAside
      <3>4. QED
        BY <1>0, <1>S, <2>1, <2>3, <2>4, <2>5, <3>1, <3>3, AccountsKeeps DEF Accounts!Live
    <2>8. QED
      BY <2>6, <2>7
  \* Penalties are revoked.
  <1>10. ASSUME NEW o \in Requests, NEW p \in Penalties, Accounts!RevokeRead(o, p)
         PROVE  Accounts!IInv'
    <2> DEFINE x == [Accounts!Idle EXCEPT !.pc = "revoke", !.penalty = p]
    <2>1. x.pc = "revoke" /\ Fit(x)
      BY AccountsDefaults DEF Fit, Accounts!Op
    <2>2. Accounts!BeginModeration(o, x) /\ v1' = v1 /\ v2' = v2 /\ v3' = v3 /\ v4' = v4 /\ v5' = v5 /\ v7' = v7
      BY <1>10 DEF Accounts!RevokeRead
    <2> HIDE DEF x
    <2>3. QED
      BY <2>1, <2>2, SettlesByBegin, AccountsMoves
  <1>11. ASSUME NEW o \in Requests, Accounts!RevokeCount(o)
         PROVE  Accounts!IInv'
    <2>1. PICK pc \in {"keep", "lift"} :
            /\ pc = IF \E p \in Penalties \ {v6[o].penalty} : Accounts!Bars(p) THEN "keep" ELSE "lift"
            /\ v6' = [v6 EXCEPT ![o].pc = pc] /\ v6[o].pc = "revoke"
            /\ v1' = v1 /\ v2' = v2 /\ v3' = v3 /\ v4' = v4 /\ v5' = v5 /\ v7' = v7 /\ v8' = v8
      BY <1>11 DEF Accounts!RevokeCount, Accounts!GoTo
    <2> DEFINE x == [v6[o] EXCEPT !.pc = pc]
    <2>2. x.pc = pc /\ x.penalty = v6[o].penalty /\ Fit(x) /\ v6' = [v6 EXCEPT ![o] = x]
      BY <1>0, <1>K, <2>1 DEF Fit, Accounts!Op, Accounts!OpsKnow
    <2> HIDE DEF x
    <2>3. Accounts!StatusSettles'
      <3>1. SUFFICES ASSUME v8 = {} PROVE Accounts!StatusSettles'
        BY <2>1 DEF Accounts!StatusSettles
      <3>2. \A q \in Requests \ {o} : ~ Accounts!Works(q)
        BY <1>W, <2>1, <3>1 DEF Accounts!Works
      <3>3. Accounts!SuspensionHasCause
            /\ (v1 \in {"NONE", "PENDING_VERIFICATION", "ACTIVE"} => \A p \in Penalties : Accounts!Announced(p))
        BY <1>K, <2>1, <3>1, <3>2 DEF Accounts!StatusSettles, Accounts!Works
      <3>4. Accounts!SuspensionHasCause'
            /\ (v1' \in {"NONE", "PENDING_VERIFICATION", "ACTIVE"} => \A p \in Penalties : Accounts!Announced(p)')
        BY <2>1, <3>3 DEF Accounts!SuspensionHasCause, Accounts!Announced, Accounts!Bars
      <3>5. CASE pc = "keep"
        <4>1. \E p \in Penalties \ {x.penalty} : Accounts!Causes(p)'
          BY <2>1, <2>2, <3>5 DEF Accounts!Causes, Accounts!Bars
        <4>2. QED
          BY <1>0, <2>2, <3>2, <3>4, <3>5, <4>1, SettlesByWorker
      <3>6. CASE pc = "lift"
        <4>1. \A p \in Penalties \ {x.penalty} : Accounts!Announced(p)'
          BY <2>1, <2>2, <3>6 DEF Accounts!Announced, Accounts!Bars
        <4>2. QED
          BY <1>0, <2>2, <3>2, <3>4, <3>6, <4>1, SettlesByWorker
      <3>7. QED
        BY <3>5, <3>6
    <2>4. QED
      BY <1>0, <2>1, <2>2, <2>3, AccountsMoves
  <1>12. ASSUME NEW o \in Requests, Accounts!RevokeCommit(o)
         PROVE  Accounts!IInv'
    <2> DEFINE row == [v5[v6[o].penalty] EXCEPT !.status = "REVOKED"]
    <2>1. /\ v6[o].pc \in {"lift", "keep"} /\ v6' = [v6 EXCEPT ![o] = Accounts!Idle]
          /\ v5' = [v5 EXCEPT ![v6[o].penalty] = row]
          /\ v1' = (IF v6[o].pc = "lift" THEN "ACTIVE" ELSE v1)
          /\ v2' = v2 /\ v3' = v3 /\ v4' = v4 /\ v7' = v7 /\ v8' = v8
      BY <1>12 DEF Accounts!RevokeCommit, Accounts!Finish
    <2>2. PICK p \in Penalties : p = v6[o].penalty
      BY <1>K, <2>1 DEF Accounts!OpsKnow
    <2>3. /\ row \in Accounts!Penalty /\ row.kind = v5[p].kind /\ row.later = v5[p].later
          /\ row.ends = v5[p].ends /\ row.status = "REVOKED" /\ row.phase = v5[p].phase
      <3>1. v5[p] \in Accounts!Penalty /\ row = [v5[p] EXCEPT !.status = "REVOKED"]
        BY <1>0, <2>2
      <3> HIDE DEF row
      <3>2. QED
        BY <3>1 DEF Accounts!Penalty
    <2> HIDE DEF row
    <2>4. /\ v5' \in [Penalties -> Accounts!Penalty] /\ v5'[p] = row
          /\ \A q \in Penalties \ {p} : v5'[q] = v5[q]
      BY <1>0, <2>1, <2>2, <2>3
    <2>5. Dated(v5[p])' /\ (Accounts!Imposed(p) => Accounts!Imposed(p)')
      BY <1>D, <2>3, <2>4 DEF Dated, Accounts!Imposed
    <2>6. v6' \in [Requests -> Accounts!Op] /\ \A q \in Requests : v6'[q] = v6[q] \/ Fit(v6[q])'
      BY <1>0, <2>1, AccountsDefaults DEF Fit
    <2>7. Accounts!StatusSettles'
      <3>1. SUFFICES ASSUME v8 = {} PROVE Accounts!StatusSettles'
        BY <2>1 DEF Accounts!StatusSettles
      <3>2. \A q \in Requests \ {o} : ~ Accounts!Works(q)
        BY <1>W, <2>1, <3>1 DEF Accounts!Works
      <3>3. /\ v1 \in {"NONE", "PENDING_VERIFICATION", "ACTIVE"} => \A q \in Penalties : Accounts!Announced(q)
            /\ v6[o].pc = "lift" => \A q \in Penalties \ {p} : Accounts!Announced(q)
            /\ v6[o].pc = "keep" => \E q \in Penalties \ {p} : Accounts!Causes(q)
        BY <1>K, <2>1, <2>2, <3>1, <3>2 DEF Accounts!StatusSettles, Accounts!Works
      <3>4. Accounts!Announced(p)' /\ \A q \in Penalties \ {p} : Accounts!Announced(q)' = Accounts!Announced(q)
                                                                 /\ Accounts!Causes(q)' = Accounts!Causes(q)
        BY <2>3, <2>4 DEF Accounts!Announced, Accounts!Causes, Accounts!Bars
      <3>5. v1' \in {"NONE", "PENDING_VERIFICATION", "ACTIVE"} => \A q \in Penalties : Accounts!Announced(q)'
        BY <2>1, <3>3, <3>4
      <3>6. v6[o].pc = "keep" => \E q \in Penalties : Accounts!Causes(q)'
        BY <3>3, <3>4
      <3>7. Accounts!SuspensionHasCause'
        BY <2>1, <3>6 DEF Accounts!SuspensionHasCause, Accounts!Causes
      <3>8. QED
        BY <1>0, <2>1, <3>2, <3>5, <3>7, AccountsDefaults, SettlesByWorker
    <2>8. QED
      BY <1>0, <1>S, <2>1, <2>4, <2>5, <2>3, <2>6, <2>7, AccountsKeeps DEF Accounts!Live, Accounts!Statuses
  \* Admins set the status.
  <1>13. ASSUME NEW o \in Requests, NEW to \in Accounts!Statuses, Accounts!StatusRead(o, to)
         PROVE  Accounts!IInv'
    <2> DEFINE x == [Accounts!Idle EXCEPT !.pc = "set", !.from = v1, !.to = to]
    <2>1. v1 \in Accounts!Statuses
      BY <1>0, <1>13 DEF Accounts!StatusRead
    <2>2. x.pc = "set" /\ Fit(x)
      BY <2>1, AccountsDefaults DEF Fit, Accounts!Op
    <2>3. Accounts!BeginModeration(o, x) /\ v1' = v1 /\ v2' = v2 /\ v3' = v3 /\ v4' = v4 /\ v5' = v5 /\ v7' = v7
      BY <1>13 DEF Accounts!StatusRead
    <2> HIDE DEF x
    <2>4. QED
      BY <2>2, <2>3, SettlesByBegin, AccountsMoves
  <1>14. ASSUME NEW o \in Requests, Accounts!StatusCommit(o)
         PROVE  Accounts!IInv'
    <2>1. /\ v6' = [v6 EXCEPT ![o] = Accounts!Idle] /\ v8' = v8 \cup {"mixed"} /\ v1' = v6[o].to
          /\ v2' = v2 /\ v3' = v3 /\ v5' = v5
          /\ \/ v4' = v4 /\ v7' = v7
             \/ Accounts!RevokeAll /\ v7' = v7 \cup Accounts!Live
      BY <1>14 DEF Accounts!StatusCommit, Accounts!Finish
    <2>2. Accounts!StatusSettles'
      BY <2>1 DEF Accounts!StatusSettles
    <2>3. v7' \subseteq Sessions /\ (\A s \in v7' : v4'[s] = "revoked") /\ (Accounts!Live' # {} => v2)
          /\ v4' \in [Sessions -> {"none", "live", "revoked"}]
      <3>1. CASE v4' = v4 /\ v7' = v7
        BY <1>0, <1>S, <3>1 DEF Accounts!Live
      <3>2. CASE Accounts!RevokeAll /\ v7' = v7 \cup Accounts!Live
        BY <3>2, RevokeAllFacts
      <3>3. QED
        BY <2>1, <3>1, <3>2
    <2>4. v6' \in [Requests -> Accounts!Op] /\ \A q \in Requests : v6'[q] = v6[q] \/ Fit(v6[q])'
      BY <1>0, <2>1, AccountsDefaults DEF Fit
    <2>5. v1' \in Accounts!Statuses /\ v8' \subseteq Accounts!Troubles
      BY <1>0, <2>1 DEF Accounts!Op, Accounts!Troubles
    <2>6. QED
      BY <1>0, <2>1, <2>2, <2>3, <2>4, <2>5, AccountsKeeps
  \* Penalties expire.
  <1>15. ASSUME NEW o \in Requests, Accounts!ExpireFind(o)
         PROVE  Accounts!IInv'
    <2> DEFINE x == [Accounts!Idle EXCEPT !.pc = "expire", !.found = Accounts!Expired]
    <2>1. x.pc = "expire" /\ Fit(x)
      BY AccountsDefaults DEF Fit, Accounts!Op, Accounts!Expired
    <2>2. Accounts!BeginModeration(o, x) /\ v1' = v1 /\ v2' = v2 /\ v3' = v3 /\ v4' = v4 /\ v5' = v5 /\ v7' = v7
      BY <1>15 DEF Accounts!ExpireFind
    <2> HIDE DEF x
    <2>3. QED
      BY <2>1, <2>2, SettlesByBegin, AccountsMoves
  <1>16. ASSUME NEW o \in Requests, Accounts!ExpireUpdate(o)
         PROVE  Accounts!IInv'
    <2> DEFINE x == [v6[o] EXCEPT !.pc = "count"]
               row(p) == [v5[p] EXCEPT !.status = "EXPIRED"]
    <2>1. /\ v6[o].pc = "expire" /\ v6' = [v6 EXCEPT ![o] = x]
          /\ v5' = [p \in Penalties |-> IF p \in v6[o].found THEN row(p) ELSE v5[p]]
          /\ v1' = v1 /\ v2' = v2 /\ v3' = v3 /\ v4' = v4 /\ v7' = v7 /\ v8' = v8
      BY <1>16 DEF Accounts!ExpireUpdate, Accounts!GoTo
    <2>2. x.pc = "count" /\ x \in Accounts!Op
      BY <1>0 DEF Accounts!Op
    <2>3. ASSUME NEW p \in Penalties
          PROVE  /\ row(p) \in Accounts!Penalty /\ row(p).kind = v5[p].kind /\ row(p).later = v5[p].later
                 /\ row(p).ends = v5[p].ends /\ row(p).status = "EXPIRED" /\ row(p).phase = v5[p].phase
      BY <1>0 DEF Accounts!Penalty
    <2> HIDE DEF x, row
    <2>4. v5' \in [Penalties -> Accounts!Penalty]
      BY <1>0, <2>1, <2>3
    <2>5. ASSUME NEW p \in Penalties
          PROVE  \/ v5'[p] = v5[p]
                 \/ /\ Dated(v5[p])'
                    /\ Accounts!Imposed(p) =>
                         Accounts!Imposed(p)' /\ (v5[p].phase = "over" => v5'[p].phase = "over")
      <3>1. CASE p \in v6[o].found
        <4>1. v5'[p] = row(p) /\ v5[p].phase = "over"
          BY <2>1, <3>1 DEF Accounts!IInv, Accounts!DatesHold
        <4>2. QED
          BY <1>D, <2>3, <4>1 DEF Dated, Accounts!Imposed
      <3>2. CASE p \notin v6[o].found
        BY <2>1, <3>2
      <3>3. QED
        BY <3>1, <3>2
    <2>6. Accounts!StatusSettles'
      <3>1. SUFFICES ASSUME v8 = {} PROVE Accounts!StatusSettles'
        BY <2>1 DEF Accounts!StatusSettles
      <3>2. \A q \in Requests \ {o} : ~ Accounts!Works(q)
        BY <1>W, <2>1, <3>1 DEF Accounts!Works
      <3>3. v1 \in {"NONE", "PENDING_VERIFICATION", "ACTIVE"} => \A q \in Penalties : Accounts!Announced(q)
        BY <1>K, <2>1, <3>1, <3>2 DEF Accounts!StatusSettles, Accounts!Works
      <3>4. \A p \in Penalties : Accounts!Announced(p) => Accounts!Announced(p)'
        BY <2>1, <2>3 DEF Accounts!Announced, Accounts!Bars
      <3>5. v1' \in {"NONE", "PENDING_VERIFICATION", "ACTIVE"} => \A q \in Penalties : Accounts!Announced(q)'
        BY <2>1, <3>3, <3>4
      <3>6. QED
        BY <1>0, <2>1, <2>2, <3>2, <3>5, SettlesByWorker
    <2>7. v6' \in [Requests -> Accounts!Op] /\ \A q \in Requests : v6'[q] = v6[q] \/ Fit(v6[q])'
      BY <1>0, <2>1, <2>2 DEF Fit
    <2>8. QED
      BY <1>0, <1>S, <2>1, <2>4, <2>5, <2>6, <2>7, AccountsKeeps DEF Accounts!Live
  <1>17. ASSUME NEW o \in Requests, Accounts!ExpireCount(o)
         PROVE  Accounts!IInv'
    <2> DEFINE x == IF \E p \in Penalties : Accounts!Bars(p) THEN Accounts!Idle ELSE [v6[o] EXCEPT !.pc = "restore"]
    <2>1. /\ v6[o].pc = "count" /\ v6' = [v6 EXCEPT ![o] = x]
          /\ v1' = v1 /\ v2' = v2 /\ v3' = v3 /\ v4' = v4 /\ v5' = v5 /\ v7' = v7 /\ v8' = v8
      BY <1>17 DEF Accounts!ExpireCount, Accounts!GoTo, Accounts!Finish
    <2>2. x.pc = (IF \E p \in Penalties : Accounts!Bars(p) THEN "idle" ELSE "restore") /\ x \in Accounts!Op
      BY <1>0, AccountsDefaults DEF Accounts!Op
    <2> HIDE DEF x
    <2>3. Accounts!StatusSettles'
      <3>1. SUFFICES ASSUME v8 = {} PROVE Accounts!StatusSettles'
        BY <2>1 DEF Accounts!StatusSettles
      <3>2. \A q \in Requests \ {o} : ~ Accounts!Works(q)
        BY <1>W, <2>1, <3>1 DEF Accounts!Works
      <3>3. v1 \in {"NONE", "PENDING_VERIFICATION", "ACTIVE"} => \A q \in Penalties : Accounts!Announced(q)
        BY <1>K, <2>1, <3>1, <3>2 DEF Accounts!StatusSettles, Accounts!Works
      <3>4. v1' \in {"NONE", "PENDING_VERIFICATION", "ACTIVE"} => \A q \in Penalties : Accounts!Announced(q)'
        BY <2>1, <3>3 DEF Accounts!Announced, Accounts!Bars
      <3>5. (\E p \in Penalties : Accounts!Bars(p)) => Accounts!SuspensionHasCause'
        BY <2>1 DEF Accounts!SuspensionHasCause, Accounts!Bars
      <3>6. (~ \E p \in Penalties : Accounts!Bars(p)) => \A p \in Penalties : Accounts!Announced(p)'
        BY <2>1 DEF Accounts!Announced, Accounts!Bars
      <3>7. QED
        BY <1>0, <2>1, <2>2, <3>2, <3>4, <3>5, <3>6, SettlesByWorker
    <2>4. QED
      BY <1>0, <2>1, <2>2, <2>3, AccountsMoves DEF Fit
  <1>18. ASSUME NEW o \in Requests, Accounts!ExpireRestore(o)
         PROVE  Accounts!IInv'
    <2>1. /\ v6[o].pc = "restore" /\ v6' = [v6 EXCEPT ![o] = Accounts!Idle]
          /\ v1' = (IF v1 = "SUSPENDED" THEN "ACTIVE" ELSE v1)
          /\ v2' = v2 /\ v3' = v3 /\ v4' = v4 /\ v5' = v5 /\ v7' = v7 /\ v8' = v8
      BY <1>18 DEF Accounts!ExpireRestore, Accounts!Finish
    <2>2. Accounts!StatusSettles'
      <3>1. SUFFICES ASSUME v8 = {} PROVE Accounts!StatusSettles'
        BY <2>1 DEF Accounts!StatusSettles
      <3>2. \A q \in Requests \ {o} : ~ Accounts!Works(q)
        BY <1>W, <2>1, <3>1 DEF Accounts!Works
      <3>3. \A q \in Penalties : Accounts!Announced(q)
        BY <1>K, <2>1, <3>1 DEF Accounts!StatusSettles
      <3>4. (\A q \in Penalties : Accounts!Announced(q)') /\ Accounts!SuspensionHasCause'
        BY <2>1, <3>3 DEF Accounts!Announced, Accounts!Bars, Accounts!SuspensionHasCause
      <3>5. QED
        BY <1>0, <2>1, <3>2, <3>4, AccountsDefaults, SettlesByWorker
    <2>3. v6' \in [Requests -> Accounts!Op] /\ \A q \in Requests : v6'[q] = v6[q] \/ Fit(v6[q])'
      BY <1>0, <2>1, AccountsDefaults DEF Fit
    <2>4. QED
      BY <1>0, <1>S, <2>1, <2>2, <2>3, AccountsKeeps DEF Accounts!Live, Accounts!Statuses
  \* Time passes, or an operation ends.
  <1>19. ASSUME NEW p \in Penalties, Accounts!Pass(p)
         PROVE  Accounts!IInv'
    <2>1. PICK ph \in {"running", "over"} :
            /\ v5' = [v5 EXCEPT ![p].phase = ph]
            /\ ph = "over" => v5[p].ends
            /\ ph = "running" => v5[p].phase = "future" /\ v5[p].kind # "none"
            /\ ph = "over" => v5[p].phase = "running"
      BY <1>19 DEF Accounts!Pass, Accounts!Imposed
    <2>2. /\ v1' = v1 /\ v2' = v2 /\ v3' = v3 /\ v4' = v4 /\ v6' = v6 /\ v7' = v7 /\ v8' = v8
      BY <1>19 DEF Accounts!Pass
    <2> DEFINE row == [v5[p] EXCEPT !.phase = ph]
    <2>3. /\ row \in Accounts!Penalty /\ row.kind = v5[p].kind /\ row.later = v5[p].later
          /\ row.ends = v5[p].ends /\ row.status = v5[p].status /\ row.phase = ph
      BY <1>0 DEF Accounts!Penalty
    <2> HIDE DEF row
    <2>4. /\ v5' \in [Penalties -> Accounts!Penalty] /\ v5'[p] = row
          /\ \A q \in Penalties \ {p} : v5'[q] = v5[q]
      BY <1>0, <2>1, <2>3 DEF row
    <2>5. Dated(v5[p])' /\ v5[p].phase # "over" /\ (Accounts!Imposed(p) => Accounts!Imposed(p)')
      BY <1>D, <2>1, <2>3, <2>4 DEF Dated, Accounts!Imposed
    <2>6. \A q \in Penalties : Accounts!Causes(q)' = Accounts!Causes(q)
                               /\ (Accounts!Announced(q) => Accounts!Announced(q)')
      BY <1>D, <2>1, <2>3, <2>4 DEF Accounts!Causes, Accounts!Announced, Accounts!Bars, Dated
    <2>7. Accounts!StatusSettles'
      BY <1>K, <2>2, <2>6, SettlesAside
    <2>8. QED
      BY <1>0, <1>S, <2>2, <2>4, <2>5, <2>7, AccountsKeeps DEF Accounts!Live
  <1>20. ASSUME NEW o \in Requests, Accounts!Abort(o)
         PROVE  Accounts!IInv'
    <2>1. /\ v6' = [v6 EXCEPT ![o] = Accounts!Idle]
          /\ v8' = (IF v6[o].pc \in {"status", "revokeAll", "count", "restore"} THEN v8 \cup {"crash"} ELSE v8)
          /\ v1' = v1 /\ v2' = v2 /\ v3' = v3 /\ v4' = v4 /\ v5' = v5 /\ v7' = v7
      BY <1>20 DEF Accounts!Abort, Accounts!Finish
    <2>2. v8' \subseteq Accounts!Troubles
      BY <1>0, <2>1 DEF Accounts!Troubles
    <2>3. CASE Accounts!Works(o)
      <3>1. Accounts!StatusSettles'
        <4>1. SUFFICES ASSUME v8' = {} PROVE Accounts!StatusSettles'
          BY DEF Accounts!StatusSettles
        <4>2. v8 = {} /\ v6[o].pc \notin {"status", "revokeAll", "count", "restore"}
          BY <2>1, <4>1
        <4>3. \A q \in Requests \ {o} : ~ Accounts!Works(q)
          BY <1>W, <2>3, <4>2
        <4>4. Accounts!SuspensionHasCause
              /\ (v1 \in {"NONE", "PENDING_VERIFICATION", "ACTIVE"} => \A q \in Penalties : Accounts!Announced(q))
          BY <1>K, <4>2, <4>3 DEF Accounts!StatusSettles, Accounts!Works
        <4>5. Accounts!SuspensionHasCause'
              /\ (v1' \in {"NONE", "PENDING_VERIFICATION", "ACTIVE"} => \A q \in Penalties : Accounts!Announced(q)')
          BY <2>1, <4>4 DEF Accounts!SuspensionHasCause, Accounts!Announced, Accounts!Bars
        <4>6. QED
          BY <1>0, <2>1, <4>3, <4>5, AccountsDefaults, SettlesByWorker
      <3>2. QED
        BY <2>1, <2>2, <3>1, AccountsDefaults, AccountsMoves DEF Fit
    <2>4. CASE ~ Accounts!Works(o)
      <3>1. v6[o].pc \in {"idle", "session", "verify"} /\ v8' = v8
        BY <2>1, <2>4 DEF Accounts!Works
      <3>2. Accounts!StatusSettles'
        BY <1>0, <1>K, <2>1, <3>1, AccountsDefaults, SettlesAside DEF Accounts!Causes, Accounts!Announced, Accounts!Bars
      <3>3. QED
        BY <2>1, <2>2, <3>2, AccountsDefaults, AccountsMoves DEF Fit
    <2>5. QED
      BY <2>3, <2>4
  <1>21. QED
    BY <1>1, <1>2, <1>3, <1>4, <1>5, <1>6, <1>7, <1>8, <1>9, <1>10, <1>11, <1>12, <1>13, <1>14, <1>15,
       <1>16, <1>17, <1>18, <1>19, <1>20
    DEF Accounts!Next, Accounts!SignInSteps, Accounts!PenaltySteps, Accounts!AdminSteps, Accounts!ExpirySteps

\* What the inductive invariant says of sessions and penalties.
LEMMA AccountsSafe ==
  Accounts!IInv => /\ Accounts!CondemnedStayOut /\ Accounts!SessionsNeedVerifiedEmail
                   /\ Accounts!OnlyEndedExpire /\ Accounts!StatusFollowsPenalties
  <1> SUFFICES ASSUME Accounts!IInv
               PROVE  /\ Accounts!CondemnedStayOut /\ Accounts!SessionsNeedVerifiedEmail
                      /\ Accounts!OnlyEndedExpire /\ Accounts!StatusFollowsPenalties
    OBVIOUS
  <1>1. Accounts!CondemnedStayOut
    BY DEF Accounts!IInv, Accounts!SessionsEarned, Accounts!CondemnedStayOut, Accounts!Admits, Accounts!Live
  <1>2. Accounts!SessionsNeedVerifiedEmail /\ Accounts!OnlyEndedExpire
    BY DEF Accounts!IInv, Accounts!SessionsEarned, Accounts!DatesHold
  <1>3. ASSUME Accounts!Quiet, v8 = {} PROVE Accounts!SuspensionHasCause /\ Accounts!PenaltyShows
    <2>1. \A q \in Requests : v6[q].pc \in {"idle", "session"}
      BY <1>3 DEF Accounts!Quiet, Accounts!Moderates
    <2>2. Accounts!SuspensionHasCause
          /\ (v1 = "ACTIVE" => \A p \in Penalties : Accounts!Announced(p))
      BY <1>3, <2>1 DEF Accounts!IInv, Accounts!StatusSettles
    <2>3. QED
      BY <2>2 DEF Accounts!PenaltyShows, Accounts!Announced
  <1>4. QED
    BY <1>1, <1>2, <1>3 DEF Accounts!StatusFollowsPenalties

-----------------------------------------------------------------------------
(* Codes: v1 holds kind, v2 challenge, v3 request, v4 wrong, v5 entered,   *)
(* v6 late and v7 overlapped.                                              *)

\* What an idle request and a new challenge hold.
LEMMA CodesDefaults ==
  /\ Codes!Idle \in Codes!Request /\ Codes!Idle.pc = "idle" /\ Codes!Idle.on = {}
  /\ Codes!NoChallenge \in Codes!Challenge /\ Codes!NoChallenge.state = "none"
  /\ Codes!NewChallenge \in Codes!Challenge /\ Codes!NewChallenge.state = "open"
  /\ Codes!NewChallenge.attempts = 0
  <1>1. Codes!Idle \in Codes!Request /\ Codes!Idle.pc = "idle" /\ Codes!Idle.on = {}
    BY DEF Codes!Idle, Codes!Request
  <1>2. 0 \in 0..MaxAttempts
    BY LimitAssumption
  <1>3. /\ Codes!NoChallenge \in Codes!Challenge /\ Codes!NoChallenge.state = "none"
        /\ Codes!NoChallenge.attempts = 0
    BY <1>2 DEF Codes!NoChallenge, Codes!Challenge
  <1>4. /\ Codes!NewChallenge \in Codes!Challenge /\ Codes!NewChallenge.state = "open"
        /\ Codes!NewChallenge.attempts = 0
    BY <1>3 DEF Codes!NewChallenge, Codes!Challenge
  <1>5. QED
    BY <1>1, <1>3, <1>4

\* Wrong guesses that are not answered can be counted.
LEMMA CodesCards ==
  /\ \A S : Codes!Cardinality(S) = Cardinality(S)
  /\ \A S \in SUBSET Requests : IsFiniteSet(S) /\ Cardinality(S) \in Nat
  <1>1. \A S : Codes!Cardinality(S) = Cardinality(S)
    BY DEF Codes!Cardinality, Cardinality
  <1>2. ASSUME NEW S \in SUBSET Requests PROVE IsFiniteSet(S) /\ Cardinality(S) \in Nat
    BY FS_Subset, FS_CardinalityType, RequestsAssumption
  <1>3. QED
    BY <1>1, <1>2

\* At first there are no challenges.
LEMMA CodesInit == Codes!Init => Codes!IInv
  <1> SUFFICES ASSUME Codes!Init PROVE Codes!IInv
    OBVIOUS
  <1>1. Codes!TypeOK /\ ~ v6
    BY CodesDefaults DEF Codes!Init, Codes!TypeOK
  <1>2. /\ \A r \in Requests : v3[r].pc = "idle" /\ v3[r].on = {}
        /\ \A c \in Challenges : v2[c].state = "none" /\ v4[c] = 0 /\ v5[c] = 0
    BY CodesDefaults DEF Codes!Init
  <1>3. Codes!RequestsKnow /\ Codes!GuessesCount
    BY <1>2 DEF Codes!RequestsKnow, Codes!GuessesCount, Codes!Guessable
  <1>4. Codes!OneIssue
    BY <1>2 DEF Codes!OneIssue, Codes!Unconsumed
  <1>5. QED
    BY <1>1, <1>3, <1>4 DEF Codes!IInv

\* Consuming challenges takes them from those that can be guessed, and leaves
\* the others.
LEMMA ConsumeFacts ==
  ASSUME Codes!TypeOK, NEW cs
  PROVE  /\ Codes!Consume(cs) \in [Challenges -> Codes!Challenge]
         /\ \A c \in Challenges :
              /\ c \notin cs \/ c \notin Codes!Unconsumed => Codes!Consume(cs)[c] = v2[c]
              /\ c \in cs /\ c \in Codes!Unconsumed => Codes!Consume(cs)[c].state = "consumed"
  BY DEF Codes!TypeOK, Codes!Consume, Codes!Challenge

\* Where no guess is counted, challenges that can be guessed could be before,
\* or are new.
LEMMA CountKept ==
  ASSUME Codes!TypeOK, Codes!RequestsKnow, Codes!GuessesCount, NEW r \in Requests,
         NEW x, x.pc # "back", v3' = [v3 EXCEPT ![r] = x] \/ v3' = v3,
         v4' = v4,
         \A c \in Challenges : Codes!Guessable(c)' =>
           /\ v2'[c].attempts \in Nat
           /\ \/ Codes!Guessable(c) /\ v2'[c].attempts = v2[c].attempts
              \/ v2[c].state = "none"
  PROVE  Codes!GuessesCount'
  <1> SUFFICES ASSUME NEW c \in Challenges, Codes!Guessable(c)'
               PROVE  v4'[c] + Codes!Cardinality(Codes!Unanswered(c)') <= v2'[c].attempts
    BY CodesCards DEF Codes!GuessesCount, Codes!Cardinality
  <1>1. /\ Codes!Unanswered(c) \subseteq Requests
        /\ Codes!Unanswered(c)' \subseteq Codes!Unanswered(c)
    BY DEF Codes!Unanswered, Codes!TypeOK
  <1> DEFINE was == Cardinality(Codes!Unanswered(c))
             is == Cardinality(Codes!Unanswered(c)')
  <1>2. was \in Nat /\ is \in Nat /\ is <= was
    BY <1>1, CodesCards, FS_Subset
  <1>3. Codes!Cardinality(Codes!Unanswered(c)') = is /\ Codes!Cardinality(Codes!Unanswered(c)) = was
    BY CodesCards
  <1> HIDE DEF was, is
  <1>4. CASE Codes!Guessable(c) /\ v2'[c].attempts = v2[c].attempts
    <2>1. v4[c] + was <= v2[c].attempts /\ v4[c] \in Nat
      BY <1>3, <1>4 DEF Codes!GuessesCount, Codes!TypeOK
    <2>2. QED
      BY <1>2, <1>3, <1>4, <2>1
  <1>5. CASE v2[c].state = "none"
    <2>1. v4[c] = 0 /\ Codes!Unanswered(c) = {}
      BY <1>5 DEF Codes!RequestsKnow, Codes!Unanswered
    <2>2. is = 0
      BY <1>1, <2>1, FS_EmptySet DEF is
    <2>3. QED
      BY <1>3, <2>1, <2>2
  <1>6. QED
    BY <1>4, <1>5

\* How many requests there are in a set, and what GuessesCount says of it.
CountOf(S) == Cardinality(S)

\* A request more or less counts one more or less.
LEMMA CountFacts ==
  /\ \A S \in SUBSET Requests : CountOf(S) \in Nat
  /\ \A S \in SUBSET Requests, r \in Requests :
       /\ r \notin S => CountOf(S \cup {r}) = CountOf(S) + 1
       /\ r \in S => CountOf(S \ {r}) = CountOf(S) - 1
  /\ Codes!GuessesCount <=> \A c \in Challenges :
       Codes!Guessable(c) => v4[c] + CountOf(Codes!Unanswered(c)) <= v2[c].attempts
  /\ Codes!GuessesCount' <=> \A c \in Challenges :
       Codes!Guessable(c)' => v4'[c] + CountOf(Codes!Unanswered(c)') <= v2'[c].attempts
  <1>1. ASSUME NEW S \in SUBSET Requests, NEW r \in Requests
        PROVE  /\ r \notin S => CountOf(S \cup {r}) = CountOf(S) + 1
               /\ r \in S => CountOf(S \ {r}) = CountOf(S) - 1
    BY CodesCards, FS_AddElement, FS_RemoveElement DEF CountOf
  <1>2. \A S : Codes!Cardinality(S) = CountOf(S)
    BY CodesCards DEF CountOf
  <1>3. \A S \in SUBSET Requests : CountOf(S) \in Nat
    BY CodesCards DEF CountOf
  <1>4. Codes!GuessesCount <=> \A c \in Challenges :
          Codes!Guessable(c) => v4[c] + CountOf(Codes!Unanswered(c)) <= v2[c].attempts
    BY <1>2 DEF Codes!GuessesCount
  <1>5. Codes!GuessesCount' <=> \A c \in Challenges :
          Codes!Guessable(c)' => v4'[c] + CountOf(Codes!Unanswered(c)') <= v2'[c].attempts
    BY <1>2 DEF Codes!GuessesCount
  <1>6. QED
    BY <1>1, <1>3, <1>4, <1>5

\* A request becomes x; a challenge once issued stays, and is open no more when
\* it was taken.
LEMMA CodesKeeps ==
  ASSUME Codes!IInv, NEW r \in Requests, NEW x \in Codes!Request,
         v3' = [v3 EXCEPT ![r] = x] \/ v3' = v3,
         v1' = v1, v2' \in [Challenges -> Codes!Challenge], v4' \in [Challenges -> Nat],
         v5' \in [Challenges -> Nat], v6' = FALSE, v7' \in BOOLEAN,
         \A c \in Challenges : v2[c].state # "none" => v2'[c].state # "none",
         \A c \in x.on : v2'[c].state # "none",
         x.pc \in {"send", "right", "wrong", "back", "lock"} => \E c \in Challenges : x.on = {c},
         \A c \in Challenges :
           /\ v2'[c].state = "none" => v4'[c] = 0 /\ v5'[c] = 0
           /\ v5'[c] > 0 => v5'[c] = 1 /\ v2'[c].state \in {"verified", "consumed"},
         Codes!GuessesCount', Codes!OneIssue'
  PROVE  Codes!IInv'
  <1>1. v1 \in {"email", "reset"} /\ v3 \in [Requests -> Codes!Request]
    BY DEF Codes!IInv, Codes!TypeOK
  <1>2. Codes!TypeOK' /\ ~ v6'
    BY <1>1 DEF Codes!TypeOK
  <1>3. \A q \in Requests : v3'[q] = x \/ v3'[q] = v3[q]
    BY <1>1
  <1>4. ASSUME NEW q \in Requests
        PROVE  ( /\ \A c \in v3[q].on : v2[c].state # "none"
                 /\ v3[q].pc \in {"send", "right", "wrong", "back", "lock"} =>
                      \E c \in Challenges : v3[q].on = {c} )'
    BY <1>1, <1>3 DEF Codes!IInv, Codes!RequestsKnow, Codes!Request
  <1>5. Codes!RequestsKnow'
    BY <1>4 DEF Codes!RequestsKnow
  <1>6. QED
    BY <1>2, <1>5 DEF Codes!IInv

\* Where no challenge is issued and none becomes usable again, there is still
\* one at most.
LEMMA OneIssueKept ==
  ASSUME Codes!OneIssue, Codes!TypeOK, NEW r \in Requests, NEW x, x.pc # "insert",
         v3' = [v3 EXCEPT ![r] = x] \/ v3' = v3, v7' = v7,
         Codes!Unconsumed' \subseteq Codes!Unconsumed
  PROVE  Codes!OneIssue'
  <1>1. \A q \in Requests : v3'[q].pc = "insert" => v3'[q] = v3[q]
    BY DEF Codes!TypeOK
  <1>2. QED
    BY <1>1 DEF Codes!OneIssue

\* What a request is about is one challenge.
LEMMA CodesStep == Codes!IInv /\ Codes!Next => Codes!IInv'
  <1> SUFFICES ASSUME Codes!IInv, Codes!Next PROVE Codes!IInv'
    OBVIOUS
  <1>0. /\ v1 \in {"email", "reset"} /\ v2 \in [Challenges -> Codes!Challenge]
        /\ v3 \in [Requests -> Codes!Request] /\ v4 \in [Challenges -> Nat] /\ v5 \in [Challenges -> Nat]
        /\ v6 = FALSE /\ v7 \in BOOLEAN
        /\ \A c \in Challenges : v2[c].attempts \in Nat
    BY LimitAssumption DEF Codes!IInv, Codes!TypeOK, Codes!Challenge
  <1>K. Codes!TypeOK /\ Codes!RequestsKnow /\ Codes!GuessesCount /\ Codes!OneIssue
    BY DEF Codes!IInv
  <1>C. \A c \in Challenges :
          /\ v2[c].state = "none" => v4[c] = 0 /\ v5[c] = 0
          /\ v5[c] > 0 => v5[c] = 1 /\ v2[c].state \in {"verified", "consumed"}
    BY <1>K DEF Codes!RequestsKnow
  <1>R. \A q \in Requests :
          /\ \A c \in v3[q].on : c \in Challenges /\ v2[c].state # "none"
          /\ v3[q].pc \in {"send", "right", "wrong", "back", "lock"} => \E c \in Challenges : v3[q].on = {c}
    BY <1>0, <1>K DEF Codes!RequestsKnow, Codes!Request
  \* Challenges are issued.
  <1>1. ASSUME NEW r \in Requests, Codes!Ask(r)
        PROVE  Codes!IInv'
    <2> DEFINE x == [pc |-> "issue", on |-> {}]
    <2>1. /\ v3' = [v3 EXCEPT ![r] = x] /\ v1' = v1 /\ v2' = v2 /\ v4' = v4 /\ v5' = v5 /\ v6' = v6 /\ v7' = v7
      BY <1>1 DEF Codes!Ask, Codes!Begin
    <2>2. x \in Codes!Request /\ x.pc = "issue" /\ x.on = {}
      BY DEF Codes!Request
    <2> HIDE DEF x
    <2>3. Codes!GuessesCount'
      BY <1>0, <1>K, <2>1, <2>2, CountKept DEF Codes!Guessable
    <2>4. Codes!OneIssue'
      BY <1>K, <2>1, <2>2, OneIssueKept DEF Codes!Unconsumed
    <2>5. QED
      BY <1>0, <1>C, <2>1, <2>2, <2>3, <2>4, CodesKeeps
  <1>2. ASSUME NEW r \in Requests, Codes!IssueUpdate(r)
        PROVE  Codes!IInv'
    <2> DEFINE x == [pc |-> "insert", on |-> Codes!Unconsumed]
    <2>1. /\ v3' = [v3 EXCEPT ![r] = x] /\ v1' = v1 /\ v2' = v2 /\ v4' = v4 /\ v5' = v5 /\ v6' = v6
      BY <1>2 DEF Codes!IssueUpdate
    <2>2. v7' \in BOOLEAN /\ (~ v7' => ~ v7 /\ \A q \in Requests : v3[q].pc # "insert")
      BY <1>0, <1>2 DEF Codes!IssueUpdate
    <2>3. x \in Codes!Request /\ x.pc = "insert" /\ x.on = Codes!Unconsumed
      BY DEF Codes!Request, Codes!Unconsumed
    <2> HIDE DEF x
    <2>4. Codes!GuessesCount'
      BY <1>0, <1>K, <2>1, <2>3, CountKept DEF Codes!Guessable
    <2>5. Codes!Unconsumed' = Codes!Unconsumed
      BY <2>1 DEF Codes!Unconsumed
    <2>6. Codes!OneIssue'
      BY <1>0, <1>K, <2>1, <2>2, <2>3, <2>5 DEF Codes!OneIssue
    <2>7. \A c \in x.on : v2[c].state # "none"
      BY <2>3 DEF Codes!Unconsumed
    <2>8. QED
      BY <1>0, <1>C, <2>1, <2>2, <2>3, <2>4, <2>6, <2>7, CodesKeeps
  <1>3. ASSUME NEW r \in Requests, Codes!IssueCommit(r)
        PROVE  Codes!IInv'
    <2>1. PICK c \in Challenges :
            /\ v2[c].state = "none"
            /\ v2' = [Codes!Consume(v3[r].on) EXCEPT ![c] = Codes!NewChallenge]
            /\ v3' = [v3 EXCEPT ![r] = [pc |-> "send", on |-> {c}]]
      BY <1>3 DEF Codes!IssueCommit
    <2>2. v3[r].pc = "insert" /\ v1' = v1 /\ v4' = v4 /\ v5' = v5 /\ v6' = v6 /\ v7' = v7
      BY <1>3 DEF Codes!IssueCommit
    <2> DEFINE x == [pc |-> "send", on |-> {c}]
    <2>3. x \in Codes!Request /\ x.pc = "send" /\ x.on = {c} /\ v3' = [v3 EXCEPT ![r] = x]
      BY <2>1 DEF Codes!Request
    <2> HIDE DEF x
    <2>4. /\ v2' \in [Challenges -> Codes!Challenge] /\ v2'[c] = Codes!NewChallenge
          /\ \A d \in Challenges \ {c} :
               \/ v2'[d] = v2[d] /\ (d \notin v3[r].on \/ d \notin Codes!Unconsumed)
               \/ v2'[d].state = "consumed" /\ v2[d].state \in {"open", "verified"}
      BY <1>0, <1>K, <2>1, ConsumeFacts, CodesDefaults DEF Codes!Unconsumed
    <2>5. Codes!GuessesCount'
      <3>1. ASSUME NEW d \in Challenges, Codes!Guessable(d)'
            PROVE  /\ v2'[d].attempts \in Nat
                   /\ \/ Codes!Guessable(d) /\ v2'[d].attempts = v2[d].attempts
                      \/ v2[d].state = "none"
        <4>1. CASE d = c
          BY <2>1, <2>4, <4>1, CodesDefaults
        <4>2. CASE d # c
          <5>1. v2'[d].state = "open"
            BY <3>1 DEF Codes!Guessable
          <5>2. v2'[d] = v2[d]
            BY <2>4, <4>2, <5>1
          <5>3. QED
            BY <1>0, <3>1, <5>2 DEF Codes!Guessable
        <4>3. QED
          BY <4>1, <4>2
      <3>2. QED
        BY <1>K, <2>2, <2>3, <3>1, CountKept
    <2>6. Codes!OneIssue'
      <3>1. SUFFICES ASSUME ~ v7 PROVE Codes!OneIssue'
        BY <2>2 DEF Codes!OneIssue
      <3>2. Codes!Unconsumed \subseteq v3[r].on /\ \A q \in Requests : v3[q].pc = "insert" => q = r
        BY <1>K, <2>2, <3>1 DEF Codes!OneIssue
      <3>3. Codes!Unconsumed' \subseteq {c}
        BY <2>4, <3>2 DEF Codes!Unconsumed
      <3>4. \A q \in Requests : v3'[q].pc # "insert"
        BY <1>0, <2>3, <3>2
      <3>5. QED
        BY <3>3, <3>4 DEF Codes!OneIssue
    <2>7. \A d \in Challenges :
            /\ v2'[d].state = "none" => v4[d] = 0 /\ v5[d] = 0
            /\ v5[d] > 0 => v5[d] = 1 /\ v2'[d].state \in {"verified", "consumed"}
            /\ v2[d].state # "none" => v2'[d].state # "none"
      <3>1. v5[c] = 0 /\ v2'[c].state = "open"
        BY <1>C, <2>1, <2>4, CodesDefaults
      <3>2. QED
        BY <1>C, <2>4, <3>1
    <2>8. QED
      BY <1>0, <2>2, <2>3, <2>4, <2>5, <2>6, <2>7, CodesDefaults, CodesKeeps
  <1>4. ASSUME NEW r \in Requests, Codes!SendFails(r)
        PROVE  Codes!IInv'
    <2>1. /\ v3' = [v3 EXCEPT ![r] = Codes!Idle] /\ v1' = v1 /\ v4' = v4 /\ v5' = v5 /\ v6' = v6 /\ v7' = v7
          /\ v2' = Codes!Consume(v3[r].on) \/ v2' = v2
      BY <1>4 DEF Codes!SendFails, Codes!Finish
    <2>2. /\ v2' \in [Challenges -> Codes!Challenge]
          /\ \A d \in Challenges : \/ v2'[d] = v2[d]
                                   \/ v2'[d].state = "consumed" /\ d \in Codes!Unconsumed
      BY <1>0, <1>K, <2>1, ConsumeFacts
    <2>3. Codes!GuessesCount'
      BY <1>0, <1>K, <2>1, <2>2, CodesDefaults, CountKept DEF Codes!Guessable
    <2>4. Codes!Unconsumed' \subseteq Codes!Unconsumed
      BY <2>2 DEF Codes!Unconsumed
    <2>5. Codes!OneIssue'
      BY <1>K, <2>1, <2>4, CodesDefaults, OneIssueKept
    <2>6. QED
      BY <1>0, <1>C, <2>1, <2>2, <2>3, <2>5, CodesDefaults, CodesKeeps
  \* Codes are guessed.
  <1>5. ASSUME NEW r \in Requests, NEW c \in Challenges, NEW pc \in {"right", "wrong"}, Codes!Guess(r, c, pc)
        PROVE  Codes!IInv'
    <2> DEFINE x == [pc |-> pc, on |-> {c}]
    <2>1. /\ v3' = [v3 EXCEPT ![r] = x] /\ v1' = v1 /\ v2' = v2 /\ v4' = v4 /\ v5' = v5 /\ v6' = v6 /\ v7' = v7
          /\ v2[c].state = "open"
      BY <1>5 DEF Codes!Guess, Codes!Begin, Codes!Guessable
    <2>2. x \in Codes!Request /\ x.pc = pc /\ x.on = {c}
      BY DEF Codes!Request
    <2> HIDE DEF x
    <2>3. Codes!GuessesCount'
      BY <1>0, <1>K, <2>1, <2>2, CountKept DEF Codes!Guessable
    <2>4. Codes!OneIssue'
      BY <1>K, <2>1, <2>2, OneIssueKept DEF Codes!Unconsumed
    <2>5. QED
      BY <1>0, <1>C, <2>1, <2>2, <2>3, <2>4, CodesKeeps
  <1>6. ASSUME NEW r \in Requests, Codes!WrongCount(r)
        PROVE  Codes!IInv'
    <2>1. PICK c \in v3[r].on :
            v2' = IF Codes!Guessable(c) THEN [v2 EXCEPT ![c].attempts = @ + 1] ELSE v2
      BY <1>6 DEF Codes!WrongCount
    <2> DEFINE x == [v3[r] EXCEPT !.pc = "back"]
    <2>2. /\ v3' = [v3 EXCEPT ![r] = x] /\ v3[r].pc = "wrong"
          /\ v1' = v1 /\ v4' = v4 /\ v5' = v5 /\ v6' = v6 /\ v7' = v7
      BY <1>6 DEF Codes!WrongCount, Codes!GoTo
    <2>3. x \in Codes!Request /\ x.pc = "back" /\ x.on = {c} /\ v3[r].on = {c} /\ c \in Challenges
      BY <1>0, <1>R, <2>1, <2>2 DEF Codes!Request
    <2> HIDE DEF x
    <2>4. ASSUME Codes!Guessable(c)
          PROVE  v2[c].attempts + 1 \in 0..MaxAttempts
      BY <1>0, <2>3, <2>4, LimitAssumption DEF Codes!Guessable
    <2>5. /\ v2' \in [Challenges -> Codes!Challenge]
          /\ \A d \in Challenges : v2'[d].state = v2[d].state
          /\ \A d \in Challenges \ {c} : v2'[d] = v2[d]
          /\ Codes!Guessable(c) => v2'[c].attempts = v2[c].attempts + 1
          /\ ~ Codes!Guessable(c) => v2' = v2
      BY <1>0, <2>1, <2>3, <2>4 DEF Codes!Challenge
    <2>6. Codes!GuessesCount'
      <3>1. v3'[r] = x /\ \A q \in Requests \ {r} : v3'[q] = v3[q]
        BY <1>0, <2>2
      <3>2. Codes!Unanswered(c)' = Codes!Unanswered(c) \cup {r} /\ r \notin Codes!Unanswered(c)
        BY <2>2, <2>3, <3>1 DEF Codes!Unanswered
      <3>3. \A d \in Challenges \ {c} : Codes!Unanswered(d)' = Codes!Unanswered(d)
        BY <2>2, <2>3, <3>1 DEF Codes!Unanswered
      <3>4. CountOf(Codes!Unanswered(c)') = CountOf(Codes!Unanswered(c)) + 1
        BY <3>2, CountFacts DEF Codes!Unanswered
      <3>5. \A d \in Challenges : CountOf(Codes!Unanswered(d)) \in Nat
        BY CountFacts DEF Codes!Unanswered
      <3>6. ASSUME NEW d \in Challenges, Codes!Guessable(d)'
            PROVE  v4'[d] + CountOf(Codes!Unanswered(d)') <= v2'[d].attempts
        <4>1. Codes!Guessable(d)
          BY <1>0, <2>3, <2>5, <3>6 DEF Codes!Guessable
        <4>2. v4[d] + CountOf(Codes!Unanswered(d)) <= v2[d].attempts
          BY <1>K, <4>1, CountFacts
        <4>3. CASE d = c
          BY <1>0, <2>2, <2>5, <3>4, <3>5, <4>1, <4>2, <4>3
        <4>4. CASE d # c
          BY <2>2, <2>5, <3>3, <4>2, <4>4
        <4>5. QED
          BY <4>3, <4>4
      <3>7. QED
        BY <3>6, CountFacts
    <2>7. Codes!OneIssue'
      BY <1>K, <2>2, <2>3, <2>5, OneIssueKept DEF Codes!Unconsumed
    <2>8. v2[c].state # "none"
      BY <1>R, <2>1
    <2>9. \A d \in Challenges :
            /\ v2'[d].state = "none" => v4'[d] = 0 /\ v5'[d] = 0
            /\ v5'[d] > 0 => v5'[d] = 1 /\ v2'[d].state \in {"verified", "consumed"}
      BY <1>C, <2>2, <2>5
    <2>10. /\ v4' \in [Challenges -> Nat] /\ v5' \in [Challenges -> Nat] /\ v6' = FALSE /\ v7' \in BOOLEAN
           /\ v2' \in [Challenges -> Codes!Challenge]
           /\ \A d \in Challenges : v2[d].state # "none" => v2'[d].state # "none"
      BY <1>0, <2>2, <2>5
    <2>11. \A d \in x.on : v2'[d].state # "none"
      BY <2>3, <2>5, <2>8
    <2>12. \E d \in Challenges : x.on = {d}
      BY <2>3
    <2>13. QED
      BY <2>2, <2>3, <2>6, <2>7, <2>9, <2>10, <2>11, <2>12, CodesKeeps
  <1>7. ASSUME NEW r \in Requests, Codes!WrongBack(r)
        PROVE  Codes!IInv'
    <2>1. PICK c \in v3[r].on : v4' = [v4 EXCEPT ![c] = @ + 1]
      BY <1>7 DEF Codes!WrongBack
    <2>2. PICK x : /\ x = [v3[r] EXCEPT !.pc = "lock"] \/ x = Codes!Idle
                   /\ v3' = [v3 EXCEPT ![r] = x]
      BY <1>7 DEF Codes!WrongBack, Codes!GoTo, Codes!Finish
    <2>3. v3[r].pc = "back" /\ v1' = v1 /\ v2' = v2 /\ v5' = v5 /\ v6' = v6 /\ v7' = v7
      BY <1>7 DEF Codes!WrongBack
    <2>4. v3[r].on = {c} /\ c \in Challenges /\ v2[c].state # "none"
      BY <1>R, <2>1, <2>3
    <2>5. x \in Codes!Request /\ x.pc \in {"lock", "idle"} /\ (x.pc = "lock" => x.on = {c}) /\ x.on \subseteq {c}
      BY <1>0, <2>2, <2>4, CodesDefaults DEF Codes!Request
    <2>6. v4' \in [Challenges -> Nat] /\ v4'[c] = v4[c] + 1 /\ \A d \in Challenges \ {c} : v4'[d] = v4[d]
      BY <1>0, <2>1, <2>4
    <2>7. Codes!GuessesCount'
      <3>1. v3'[r] = x /\ \A q \in Requests \ {r} : v3'[q] = v3[q]
        BY <1>0, <2>2
      <3>2. Codes!Unanswered(c)' = Codes!Unanswered(c) \ {r} /\ r \in Codes!Unanswered(c)
        BY <2>3, <2>4, <2>5, <3>1 DEF Codes!Unanswered
      <3>3. \A d \in Challenges \ {c} : Codes!Unanswered(d)' = Codes!Unanswered(d)
        BY <2>3, <2>4, <2>5, <3>1 DEF Codes!Unanswered
      <3>4. CountOf(Codes!Unanswered(c)') = CountOf(Codes!Unanswered(c)) - 1
        BY <3>2, CountFacts DEF Codes!Unanswered
      <3>5. \A d \in Challenges : CountOf(Codes!Unanswered(d)) \in Nat
        BY CountFacts DEF Codes!Unanswered
      <3>6. ASSUME NEW d \in Challenges, Codes!Guessable(d)'
            PROVE  v4'[d] + CountOf(Codes!Unanswered(d)') <= v2'[d].attempts
        <4>1. Codes!Guessable(d)
          BY <2>3, <3>6 DEF Codes!Guessable
        <4>2. v4[d] + CountOf(Codes!Unanswered(d)) <= v2[d].attempts
          BY <1>K, <4>1, CountFacts
        <4>3. CASE d = c
          BY <1>0, <2>3, <2>6, <3>4, <3>5, <4>2, <4>3
        <4>4. CASE d # c
          BY <2>3, <2>6, <3>3, <4>2, <4>4
        <4>5. QED
          BY <4>3, <4>4
      <3>7. QED
        BY <3>6, CountFacts
    <2>8. Codes!OneIssue'
      BY <1>K, <2>2, <2>3, <2>5, OneIssueKept DEF Codes!Unconsumed
    <2>9. QED
      BY <1>0, <1>C, <2>2, <2>3, <2>4, <2>5, <2>6, <2>7, <2>8, CodesKeeps
  <1>8. ASSUME NEW r \in Requests, Codes!WrongLock(r)
        PROVE  Codes!IInv'
    <2>1. PICK c \in v3[r].on : v2' = [v2 EXCEPT ![c].locked = TRUE]
      BY <1>8 DEF Codes!WrongLock
    <2>2. /\ v3' = [v3 EXCEPT ![r] = Codes!Idle] /\ v1' = v1 /\ v4' = v4 /\ v5' = v5 /\ v6' = v6 /\ v7' = v7
      BY <1>8 DEF Codes!WrongLock, Codes!Finish
    <2>3. c \in Challenges
      BY <1>R, <2>1
    <2>4. /\ v2' \in [Challenges -> Codes!Challenge]
          /\ \A d \in Challenges : v2'[d].state = v2[d].state
          /\ \A d \in Challenges : v2'[d] = v2[d] \/ v2'[d].locked
      BY <1>0, <2>1, <2>3 DEF Codes!Challenge
    <2>5. Codes!GuessesCount'
      BY <1>0, <1>K, <2>2, <2>4, CodesDefaults, CountKept DEF Codes!Guessable
    <2>6. Codes!OneIssue'
      BY <1>K, <2>2, <2>4, CodesDefaults, OneIssueKept DEF Codes!Unconsumed
    <2>7. QED
      BY <1>0, <1>C, <2>2, <2>4, <2>5, <2>6, CodesDefaults, CodesKeeps
  <1>9. ASSUME NEW r \in Requests, Codes!RightCommit(r)
        PROVE  Codes!IInv'
    <2>1. PICK c \in v3[r].on :
            /\ Codes!Takes(c)
            /\ v2' = IF v1 = "email" THEN Codes!Consume(Challenges) ELSE [v2 EXCEPT ![c].state = "verified"]
            /\ v5' = [v5 EXCEPT ![c] = @ + 1]
            /\ v6' = (v6 \/ v4[c] >= MaxAttempts)
      BY <1>9 DEF Codes!RightCommit
    <2>2. v3' = [v3 EXCEPT ![r] = Codes!Idle] /\ v1' = v1 /\ v4' = v4 /\ v7' = v7
      BY <1>9 DEF Codes!RightCommit, Codes!Finish
    <2>3. c \in Challenges /\ v2[c].state = "open" /\ v5[c] = 0
      BY <1>0, <1>C, <1>R, <2>1 DEF Codes!Takes, Codes!Guessable
    <2>4. /\ v2' \in [Challenges -> Codes!Challenge] /\ v2'[c].state \in {"verified", "consumed"}
          /\ \A d \in Challenges : \/ v2'[d] = v2[d]
                                   \/ v2'[d].state = "consumed" /\ d \in Codes!Unconsumed
                                   \/ v2'[d].state = "verified" /\ d \in Codes!Unconsumed
      <3>1. CASE v1 = "email"
        BY <1>K, <2>1, <2>3, <3>1, ConsumeFacts DEF Codes!Unconsumed
      <3>2. CASE v1 # "email"
        BY <1>0, <2>1, <2>3, <3>2 DEF Codes!Unconsumed, Codes!Challenge
      <3>3. QED
        BY <3>1, <3>2
    <2>5. v6' = FALSE
      <3>1. v4[c] + Codes!Cardinality(Codes!Unanswered(c)) <= v2[c].attempts /\ v2[c].attempts < MaxAttempts
        BY <1>K, <2>1, <2>3 DEF Codes!GuessesCount, Codes!Takes, Codes!Guessable
      <3>2. Codes!Cardinality(Codes!Unanswered(c)) \in Nat
        BY CodesCards DEF Codes!Unanswered
      <3>3. ~ v4[c] >= MaxAttempts
        BY <1>0, <2>3, <3>1, <3>2, LimitAssumption
      <3>4. QED
        BY <1>0, <2>1, <3>3
    <2>6. v5' \in [Challenges -> Nat] /\ v5'[c] = 1 /\ \A d \in Challenges \ {c} : v5'[d] = v5[d]
      BY <1>0, <2>1, <2>3
    <2>7. \A d \in Challenges :
            /\ v2'[d].state = "none" => v4[d] = 0 /\ v5'[d] = 0
            /\ v5'[d] > 0 => v5'[d] = 1 /\ v2'[d].state \in {"verified", "consumed"}
            /\ v2[d].state # "none" => v2'[d].state # "none"
      BY <1>C, <2>4, <2>6
    <2>8. Codes!GuessesCount'
      BY <1>0, <1>K, <2>2, <2>4, CodesDefaults, CountKept DEF Codes!Guessable
    <2>9. Codes!Unconsumed' \subseteq Codes!Unconsumed
      BY <2>4 DEF Codes!Unconsumed
    <2>10. Codes!OneIssue'
      BY <1>K, <2>2, <2>9, CodesDefaults, OneIssueKept
    <2>11. QED
      BY <1>0, <2>2, <2>4, <2>5, <2>6, <2>7, <2>8, <2>10, CodesDefaults, CodesKeeps
  \* Time passes, or a request ends.
  <1>10. ASSUME NEW c \in Challenges, Codes!Pass(c)
         PROVE  Codes!IInv'
    <2>1. v1' = v1 /\ v3' = v3 /\ v4' = v4 /\ v5' = v5 /\ v6' = v6 /\ v7' = v7
          /\ v2' \in {[v2 EXCEPT ![c].fresh = FALSE], [v2 EXCEPT ![c].due = FALSE]}
      BY <1>10 DEF Codes!Pass
    <2>2. /\ v2' \in [Challenges -> Codes!Challenge]
          /\ \A d \in Challenges : /\ v2'[d].state = v2[d].state /\ v2'[d].attempts = v2[d].attempts
                                   /\ v2'[d].locked = v2[d].locked /\ (v2'[d].due => v2[d].due)
      <3>1. CASE v2' = [v2 EXCEPT ![c].fresh = FALSE]
        BY <1>0, <3>1 DEF Codes!Challenge
      <3>2. CASE v2' = [v2 EXCEPT ![c].due = FALSE]
        BY <1>0, <3>2 DEF Codes!Challenge
      <3>3. QED
        BY <2>1, <3>1, <3>2
    <2>3. Codes!Unconsumed' = Codes!Unconsumed /\ \A d \in Challenges : Codes!Guessable(d)' => Codes!Guessable(d)
      BY <2>2 DEF Codes!Unconsumed, Codes!Guessable
    <2>4. Codes!GuessesCount'
      <3>1. \A d \in Challenges : Codes!Unanswered(d)' = Codes!Unanswered(d)
        BY <2>1 DEF Codes!Unanswered
      <3>2. \A S : Codes!Cardinality(S)' = Codes!Cardinality(S)
        OBVIOUS
      <3>3. QED
        BY <1>K, <2>1, <2>2, <2>3, <3>1 DEF Codes!GuessesCount
    <2>5. Codes!OneIssue'
      BY <1>K, <2>1, <2>3 DEF Codes!OneIssue
    <2>6. Codes!RequestsKnow'
      BY <1>C, <1>R, <2>1, <2>2 DEF Codes!RequestsKnow
    <2>7. Codes!TypeOK' /\ ~ v6'
      BY <1>0, <2>1, <2>2 DEF Codes!TypeOK
    <2>8. QED
      BY <2>4, <2>5, <2>6, <2>7 DEF Codes!IInv
  <1>11. ASSUME NEW r \in Requests, Codes!End(r)
         PROVE  Codes!IInv'
    <2>1. /\ v3' = [v3 EXCEPT ![r] = Codes!Idle] /\ v1' = v1 /\ v2' = v2 /\ v4' = v4 /\ v5' = v5
          /\ v6' = v6 /\ v7' = v7
      BY <1>11 DEF Codes!End, Codes!Finish
    <2>2. Codes!GuessesCount'
      BY <1>0, <1>K, <2>1, CodesDefaults, CountKept DEF Codes!Guessable
    <2>3. Codes!OneIssue'
      BY <1>K, <2>1, CodesDefaults, OneIssueKept DEF Codes!Unconsumed
    <2>4. QED
      BY <1>0, <1>C, <2>1, <2>2, <2>3, CodesDefaults, CodesKeeps
  <1>12. QED
    BY <1>1, <1>2, <1>3, <1>4, <1>5, <1>6, <1>7, <1>8, <1>9, <1>10, <1>11 DEF Codes!Next

\* What the inductive invariant says of the codes.
LEMMA CodesSafe == Codes!IInv => Codes!TakenOnceInTime /\ Codes!OneChallengeUntilOverlap
  <1> SUFFICES ASSUME Codes!IInv PROVE Codes!TakenOnceInTime /\ Codes!OneChallengeUntilOverlap
    OBVIOUS
  <1>1. \A c \in Challenges : v5[c] \in Nat /\ (v5[c] > 0 => v5[c] = 1 /\ v2[c].state \in {"verified", "consumed"})
    BY DEF Codes!IInv, Codes!TypeOK, Codes!RequestsKnow
  <1>2. Codes!TakenOnceInTime
    BY <1>1 DEF Codes!IInv, Codes!TakenOnceInTime
  <1>3. CASE ~ v7
    <2>1. Cardinality(Codes!Unconsumed) <= 1
      BY <1>3, AtMostOne DEF Codes!IInv, Codes!OneIssue
    <2>2. Codes!Cardinality(Codes!Unconsumed) <= 1
      BY <2>1, CodesCards
    <2>3. QED
      BY <1>1, <1>2, <2>2 DEF Codes!OneChallengeUntilOverlap
  <1>4. CASE v7
    BY <1>2, <1>4 DEF Codes!OneChallengeUntilOverlap
  <1>5. QED
    BY <1>3, <1>4
=============================================================================
