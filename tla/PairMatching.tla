---------------------------- MODULE PairMatching ----------------------------
(***************************************************************************)
(* Interests, decisions, matches and blocks: relationships.service.ts,     *)
(* pair-orchestration.service.ts, the block operations of                  *)
(* trust.service.ts and the transaction that creates a booking for a       *)
(* customer, as far as it creates or reuses the pair.                      *)
(*                                                                         *)
(* Every HTTP request is a process with a record in req.  The database     *)
(* runs at READ COMMITTED: a step is one statement (or a group of reads    *)
(* nothing can usefully interleave with), a transaction's writes appear    *)
(* at its commit, and what a request read earlier may be stale by then.    *)
(* The advisory locks pg_advisory_xact_lock takes are the variables        *)
(* pairLock and interestLock; they are released at commit or rollback.     *)
(***************************************************************************)
EXTENDS Naturals, FiniteSets

CONSTANTS
  Users,        \* accounts
  Customers,    \* ids of CUSTOMER roles (user_roles rows, always ACTIVE)
  Photographers,\* ids of PHOTOGRAPHER roles
  Owner,        \* the account of each role
  MatchIds,     \* bound: rows of matches, each with its conversation
  InterestIds,  \* bound: RIGHT swipes a customer can insert
  Requests,     \* bound: requests in flight at once
  Cooldown,     \* the 30-day rematch window, in ticks of clock
  MaxClock,     \* bound on clock
  None          \* no request, no interest

Roles == Customers \cup Photographers

\* [first, second].sort(): the key does not depend on the order of the roles.
PairKey(a, b) == {a, b}

\* A user cannot match themself, even with both roles.
Pairs == {x \in SUBSET Roles : \E c \in Customers, p \in Photographers :
            Owner[c] # Owner[p] /\ x = PairKey(c, p)}

NoPair == {}
NoBlock == <<>>

UsersOf(pair) == {Owner[x] : x \in pair}

ASSUME OwnerAssumption ==
  /\ Owner \in [Roles -> Users]
  /\ Customers \cap Photographers = {}
ASSUME NoneAssumption == None \notin Requests /\ None \notin InterestIds
ASSUME BoundAssumption == Cooldown \in Nat /\ MaxClock \in Nat

VARIABLES
  blocks,       \* user_blocks: <<blocker, blocked>>
  matches,      \* matches with the status of their conversations
  interests,    \* RIGHT swipes
  decisions,    \* ACCEPT and REJECT swipes
  pairLock,     \* holder of the advisory lock of each pair key
  interestLock, \* holder of the advisory lock of each interest
  req,          \* requests in flight
  clock

vars == <<blocks, matches, interests, decisions, pairLock, interestLock, req, clock>>

-----------------------------------------------------------------------------
MatchStatus == {"NONE", "ACTIVE", "ENDED", "BLOCKED"}
ConversationStatus == {"NONE", "ACTIVE", "CLOSED", "BLOCKED"}

Match == [status: MatchStatus, pair: Pairs \cup {NoPair}, key: Pairs \cup {NoPair},
          endedAt: Nat, conversation: ConversationStatus]
NoMatch == [status |-> "NONE", pair |-> NoPair, key |-> NoPair,
            endedAt |-> 0, conversation |-> "NONE"]

Interest == [state: {"NONE", "OPEN", "RESOLVED"}, pair: Pairs \cup {NoPair}]
NoInterest == [state |-> "NONE", pair |-> NoPair]

\* "covers" stands for createdAt: the interests inserted before the decision.
Decision == [interest: InterestIds, pair: Pairs, verdict: {"ACCEPT", "REJECT"},
             covers: SUBSET InterestIds]

Phase == {"idle", "swipe", "decide", "verify", "lockPair", "create", "commit",
          "block", "unmatch"}

Request == [pc: Phase, pair: Pairs \cup {NoPair}, interest: InterestIds \cup {None},
            verdict: {"NONE", "ACCEPT", "REJECT"}, covers: SUBSET InterestIds,
            block: (Users \X Users) \cup {NoBlock}, ids: SUBSET MatchIds]
Idle == [pc |-> "idle", pair |-> NoPair, interest |-> None, verdict |-> "NONE",
         covers |-> {}, block |-> NoBlock, ids |-> {}]

TypeOK ==
  /\ blocks \subseteq Users \X Users
  /\ matches \in [MatchIds -> Match]
  /\ interests \in [InterestIds -> Interest]
  /\ decisions \subseteq Decision
  /\ pairLock \in [Pairs -> Requests \cup {None}]
  /\ interestLock \in [InterestIds -> Requests \cup {None}]
  /\ req \in [Requests -> Request]
  /\ clock \in Nat

Init ==
  /\ blocks = {}
  /\ matches = [m \in MatchIds |-> NoMatch]
  /\ interests = [i \in InterestIds |-> NoInterest]
  /\ decisions = {}
  /\ pairLock = [p \in Pairs |-> None]
  /\ interestLock = [i \in InterestIds |-> None]
  /\ req = [r \in Requests |-> Idle]
  /\ clock = 0

-----------------------------------------------------------------------------
Blocked(pair) == \E b \in blocks : {b[1], b[2]} = UsersOf(pair)

\* Rows findUnique on active_pair_key can return; the column is unique.
KeyHolders(pair) == {m \in MatchIds : matches[m].key = pair}

\* Mutant of InCooldown: a match ended by a block does not count.
InCooldownAfterUnmatch(pair) ==
  \E m \in MatchIds : /\ matches[m].pair = pair
                      /\ matches[m].status = "ENDED"
                      /\ clock < matches[m].endedAt + Cooldown

InCooldown(pair) ==
  \E m \in MatchIds : /\ matches[m].pair = pair
                      /\ matches[m].status \in {"ENDED", "BLOCKED"}
                      /\ clock < matches[m].endedAt + Cooldown

DecisionFor(i) == {d \in decisions : d.pair = interests[i].pair /\ i \in d.covers}

Begin(r, request) == req[r].pc = "idle" /\ req' = [req EXCEPT ![r] = request]
GoTo(r, pc) == req' = [req EXCEPT ![r].pc = pc]
Finish(r) == req' = [req EXCEPT ![r] = Idle]

\* Mutant of ReleaseLocks: the lock is a session lock and is never dropped.
ReleaseInterestOnly(r) ==
  /\ pairLock' = pairLock
  /\ interestLock' = [i \in InterestIds |->
                        IF interestLock[i] = r THEN None ELSE interestLock[i]]

\* COMMIT and ROLLBACK both drop the transaction's advisory locks.
ReleaseLocks(r) ==
  /\ pairLock' = [p \in Pairs |-> IF pairLock[p] = r THEN None ELSE pairLock[p]]
  /\ interestLock' = [i \in InterestIds |->
                        IF interestLock[i] = r THEN None ELSE interestLock[i]]

\* Bounds: a request starts only when the row it may insert has an id left.
MatchRoom ==
  Cardinality({r \in Requests : req[r].pc \in {"decide", "verify", "lockPair", "create"}})
    < Cardinality({m \in MatchIds : matches[m].status = "NONE"})
InterestRoom ==
  Cardinality({r \in Requests : req[r].pc = "swipe"})
    < Cardinality({i \in InterestIds : interests[i].state = "NONE"})

-----------------------------------------------------------------------------
(* RIGHT swipe of a customer: outside any transaction.                     *)

SwipeCheck(r, pair) ==
  /\ InterestRoom
  /\ ~ Blocked(pair)
  /\ \A i \in InterestIds : interests[i] # [state |-> "OPEN", pair |-> pair]
  /\ Begin(r, [Idle EXCEPT !.pc = "swipe", !.pair = pair])
  /\ UNCHANGED <<blocks, matches, interests, decisions, pairLock, interestLock, clock>>

SwipeInsert(r) ==
  /\ req[r].pc = "swipe"
  /\ \E i \in InterestIds :
       /\ interests[i].state = "NONE"
       /\ interests' = [interests EXCEPT ![i] = [state |-> "OPEN", pair |-> req[r].pair]]
  /\ Finish(r)
  /\ UNCHANGED <<blocks, matches, decisions, pairLock, interestLock, clock>>

-----------------------------------------------------------------------------
(* Decision of the photographer on one interest.                           *)

DecideBegin(r, i, verdict) ==
  /\ MatchRoom
  /\ interests[i].state # "NONE"
  /\ Begin(r, [Idle EXCEPT !.pc = "decide", !.interest = i, !.verdict = verdict,
                           !.pair = interests[i].pair])
  /\ UNCHANGED <<blocks, matches, interests, decisions, pairLock, interestLock, clock>>

\* The lock is free; a decision taken since the interest was created is
\* returned as it is, and so is the error for a resolved interest.
DecideKnown(r) ==
  LET i == req[r].interest IN
  /\ req[r].pc = "decide"
  /\ interestLock[i] = None
  /\ DecisionFor(i) # {} \/ interests[i].state = "RESOLVED"
  /\ Finish(r)
  /\ UNCHANGED <<blocks, matches, interests, decisions, pairLock, interestLock, clock>>

InsertedInterests == {i \in InterestIds : interests[i].state # "NONE"}

\* Mutant of DecideOpen: without the lock of the interest.
DecideOpenUnlocked(r) ==
  LET i == req[r].interest IN
  /\ req[r].pc = "decide"
  /\ DecisionFor(i) = {} /\ interests[i].state = "OPEN"
  /\ req' = [req EXCEPT ![r].pc = IF req[r].verdict = "ACCEPT" THEN "verify" ELSE "commit",
                        ![r].covers = InsertedInterests]
  /\ UNCHANGED <<blocks, matches, interests, decisions, pairLock, interestLock, clock>>

\* Resolves the interest and inserts the decision under the lock of the
\* interest; both become visible at commit, for an ACCEPT once ensurePair has
\* succeeded in the same transaction.
DecideOpen(r) ==
  LET i == req[r].interest IN
  /\ req[r].pc = "decide"
  /\ interestLock[i] = None
  /\ DecisionFor(i) = {} /\ interests[i].state = "OPEN"
  /\ interestLock' = [interestLock EXCEPT ![i] = r]
  /\ req' = [req EXCEPT ![r].pc = IF req[r].verdict = "ACCEPT" THEN "verify" ELSE "commit",
                        ![r].covers = InsertedInterests]
  /\ UNCHANGED <<blocks, matches, interests, decisions, pairLock, clock>>

-----------------------------------------------------------------------------
(* ensurePairInTransaction, called by an ACCEPT or by a customer's booking *)

BookBegin(r, pair) ==
  /\ MatchRoom
  /\ ~ Blocked(pair)
  /\ Begin(r, [Idle EXCEPT !.pc = "verify", !.pair = pair])
  /\ UNCHANGED <<blocks, matches, interests, decisions, pairLock, interestLock, clock>>

\* The block check comes before the pair lock.
Verify(r) ==
  /\ req[r].pc = "verify"
  /\ ~ Blocked(req[r].pair)
  /\ GoTo(r, "lockPair")
  /\ UNCHANGED <<blocks, matches, interests, decisions, pairLock, interestLock, clock>>

\* Under the lock, an active match of the pair is returned as it is.
LockPairExisting(r) ==
  LET pair == req[r].pair IN
  /\ req[r].pc = "lockPair"
  /\ pairLock[pair] = None
  /\ KeyHolders(pair) # {}
  /\ pairLock' = [pairLock EXCEPT ![pair] = r]
  /\ GoTo(r, "commit")
  /\ UNCHANGED <<blocks, matches, interests, decisions, interestLock, clock>>

\* Mutant of LockPairFree: without the lock of the pair.
LookAtPairUnlocked(r) ==
  LET pair == req[r].pair IN
  /\ req[r].pc = "lockPair"
  /\ KeyHolders(pair) = {}
  /\ ~ InCooldown(pair)
  /\ GoTo(r, "create")
  /\ UNCHANGED <<blocks, matches, interests, decisions, pairLock, interestLock, clock>>

\* Under the lock, with no active match and outside the cooldown.
LockPairFree(r) ==
  LET pair == req[r].pair IN
  /\ req[r].pc = "lockPair"
  /\ pairLock[pair] = None
  /\ KeyHolders(pair) = {}
  /\ ~ InCooldown(pair)
  /\ pairLock' = [pairLock EXCEPT ![pair] = r]
  /\ GoTo(r, "create")
  /\ UNCHANGED <<blocks, matches, interests, decisions, interestLock, clock>>

\* The rest of the caller's transaction: the decision of the photographer, and
\* nothing of this module for a booking.
CommitCaller(r) ==
  IF req[r].interest = None
  THEN UNCHANGED <<interests, decisions>>
  ELSE /\ interests' = [interests EXCEPT ![req[r].interest].state = "RESOLVED"]
       /\ decisions' = decisions \cup
            {[interest |-> req[r].interest, pair |-> req[r].pair,
              verdict |-> req[r].verdict, covers |-> req[r].covers]}

\* Mutant of Refuse: the decision is committed although the pair was refused.
RefuseButDecide(r) ==
  LET pair == req[r].pair IN
  /\ \/ req[r].pc = "verify" /\ Blocked(pair)
     \/ /\ req[r].pc = "lockPair" /\ pairLock[pair] = None
        /\ KeyHolders(pair) = {} /\ InCooldown(pair)
  /\ CommitCaller(r)
  /\ ReleaseLocks(r)
  /\ Finish(r)
  /\ UNCHANGED <<blocks, matches, clock>>

\* RELATIONSHIP_BLOCKED and REMATCH_COOLDOWN: the caller's transaction rolls back.
Refuse(r) ==
  LET pair == req[r].pair IN
  /\ \/ req[r].pc = "verify" /\ Blocked(pair)
     \/ /\ req[r].pc = "lockPair" /\ pairLock[pair] = None
        /\ KeyHolders(pair) = {} /\ InCooldown(pair)
  /\ ReleaseLocks(r)
  /\ Finish(r)
  /\ UNCHANGED <<blocks, matches, interests, decisions, clock>>

\* A REJECT, or a transaction that found its pair: no match row changes.
Commit(r) ==
  /\ req[r].pc = "commit"
  /\ CommitCaller(r)
  /\ ReleaseLocks(r)
  /\ Finish(r)
  /\ UNCHANGED <<blocks, matches, clock>>

\* Mutant of NewMatch: the key is made of the users, not of their roles.
NewMatchKeyedByUsers(pair) == [status |-> "ACTIVE", pair |-> pair, key |-> UsersOf(pair),
                               endedAt |-> 0, conversation |-> "ACTIVE"]

NewMatch(pair) == [status |-> "ACTIVE", pair |-> pair, key |-> pair,
                   endedAt |-> 0, conversation |-> "ACTIVE"]

\* The insert fails on the unique index when another row holds the key.
CreateMatch(r) ==
  LET pair == req[r].pair IN
  /\ req[r].pc = "create"
  /\ KeyHolders(pair) = {}
  /\ \E m \in MatchIds : /\ matches[m].status = "NONE"
                         /\ matches' = [matches EXCEPT ![m] = NewMatch(pair)]
  /\ CommitCaller(r)
  /\ ReleaseLocks(r)
  /\ Finish(r)
  /\ UNCHANGED <<blocks, clock>>

-----------------------------------------------------------------------------
(* block, unblock and unmatch: none of them takes the pair lock.           *)

\* Mutants of EndMatches: the status, or the conversation, is forgotten.
EndMatchesKeepStatus(ids, status, conversation) ==
  matches' = [m \in MatchIds |->
                IF m \in ids
                THEN [matches[m] EXCEPT !.key = NoPair, !.endedAt = clock,
                                        !.conversation = conversation]
                ELSE matches[m]]
EndMatchesKeepConversation(ids, status, conversation) ==
  matches' = [m \in MatchIds |->
                IF m \in ids
                THEN [matches[m] EXCEPT !.status = status, !.key = NoPair, !.endedAt = clock]
                ELSE matches[m]]

\* The rows found earlier are updated by id, whatever their status is by now.
EndMatches(ids, status, conversation) ==
  matches' = [m \in MatchIds |->
                IF m \in ids
                THEN [matches[m] EXCEPT !.status = status, !.key = NoPair,
                                        !.endedAt = clock, !.conversation = conversation]
                ELSE matches[m]]

ActiveBetween(u, v) ==
  {m \in MatchIds : matches[m].status = "ACTIVE" /\ UsersOf(matches[m].pair) = {u, v}}

BlockScan(r, u, v) ==
  /\ u # v
  /\ Begin(r, [Idle EXCEPT !.pc = "block", !.block = <<u, v>>, !.ids = ActiveBetween(u, v)])
  /\ UNCHANGED <<blocks, matches, interests, decisions, pairLock, interestLock, clock>>

BlockCommit(r) ==
  /\ req[r].pc = "block"
  /\ blocks' = blocks \cup {req[r].block}
  /\ EndMatches(req[r].ids, "BLOCKED", "BLOCKED")
  /\ Finish(r)
  /\ UNCHANGED <<interests, decisions, pairLock, interestLock, clock>>

Unblock(u, v) ==
  /\ <<u, v>> \in blocks
  /\ blocks' = blocks \ {<<u, v>>}
  /\ UNCHANGED <<matches, interests, decisions, pairLock, interestLock, req, clock>>

UnmatchRead(r, m) ==
  /\ matches[m].status = "ACTIVE"
  /\ Begin(r, [Idle EXCEPT !.pc = "unmatch", !.ids = {m}])
  /\ UNCHANGED <<blocks, matches, interests, decisions, pairLock, interestLock, clock>>

UnmatchCommit(r) ==
  /\ req[r].pc = "unmatch"
  /\ EndMatches(req[r].ids, "ENDED", "CLOSED")
  /\ Finish(r)
  /\ UNCHANGED <<blocks, interests, decisions, pairLock, interestLock, clock>>

-----------------------------------------------------------------------------
(* Every request may fail: a check refuses it, the 5 s transaction timeout *)
(* of Prisma strikes, the process dies.  The transaction rolls back.       *)
Abort(r) ==
  /\ req[r].pc # "idle"
  /\ ReleaseLocks(r)
  /\ Finish(r)
  /\ UNCHANGED <<blocks, matches, interests, decisions, clock>>

\* A tick is days long and no request lives that long.
Tick ==
  /\ clock < MaxClock
  /\ \A r \in Requests : req[r].pc = "idle"
  /\ clock' = clock + 1
  /\ UNCHANGED <<blocks, matches, interests, decisions, pairLock, interestLock, req>>

Start(r) ==
  \/ \E pair \in Pairs : SwipeCheck(r, pair) \/ BookBegin(r, pair)
  \/ \E i \in InterestIds, verdict \in {"ACCEPT", "REJECT"} : DecideBegin(r, i, verdict)
  \/ \E u, v \in Users : BlockScan(r, u, v)
  \/ \E m \in MatchIds : UnmatchRead(r, m)

Proceed(r) ==
  \/ SwipeInsert(r)
  \/ DecideKnown(r) \/ DecideOpen(r)
  \/ Verify(r) \/ LockPairExisting(r) \/ LockPairFree(r) \/ Refuse(r)
  \/ Commit(r) \/ CreateMatch(r)
  \/ BlockCommit(r) \/ UnmatchCommit(r)

Next ==
  \/ \E r \in Requests : Start(r) \/ Proceed(r) \/ Abort(r)
  \/ \E u, v \in Users : Unblock(u, v)
  \/ Tick

Spec == Init /\ [][Next]_vars

\* Node keeps running the handlers it started, and PostgreSQL queues the
\* waiters of an advisory lock, so none of them is passed over for ever.
Fairness == \A r \in Requests : SF_vars(Proceed(r))
FairSpec == Spec /\ Fairness

-----------------------------------------------------------------------------
(* Properties                                                              *)

\* A pair has at most one ACTIVE match, whatever requests race: a second
\* accept or booking returns the match of the first, also after unmatch,
\* block, unblock and rematch.
OneActiveMatchPerPair ==
  \A m, n \in MatchIds :
    /\ matches[m].status = "ACTIVE" /\ matches[n].status = "ACTIVE"
    /\ matches[m].pair = matches[n].pair
    => m = n

\* The insert of a match never fails on the unique index of active_pair_key:
\* the advisory lock is enough, so a race never shows as a 500 to a client.
CreateFindsKeyFree ==
  \A r \in Requests : req[r].pc = "create" => KeyHolders(req[r].pair) = {}

\* active_pair_key (what ensurePair looks up), status (what block and unmatch
\* look at) and the status of the conversation (what messaging looks at) never
\* disagree about a match, in whatever order block and unmatch end it.
MatchColumnsAgree ==
  \A m \in MatchIds :
    /\ matches[m].key = IF matches[m].status = "ACTIVE" THEN matches[m].pair ELSE NoPair
    /\ matches[m].conversation = IF matches[m].status = "ENDED" THEN "CLOSED"
                                 ELSE matches[m].status

\* An interest is resolved by exactly one decision, also when the photographer
\* accepts and rejects it at once, and an aborted transaction leaves neither.
OneDecisionPerInterest ==
  /\ \A d, e \in decisions : d.interest = e.interest => d = e
  /\ \A i \in InterestIds :
       interests[i].state = "RESOLVED" <=> \E d \in decisions : d.interest = i

\* A committed ACCEPT comes with a match of its pair: a refusal of ensurePair
\* (block, cooldown) takes the decision back with it.
AcceptHasMatch ==
  \A d \in decisions : d.verdict = "ACCEPT" => \E m \in MatchIds : matches[m].pair = d.pair

\* No match of a pair is created within the cooldown after one of the pair
\* ended, whoever ended it and whoever asks (ACCEPT or booking).
CooldownRespected ==
  [][\A m \in MatchIds :
       matches[m].status = "NONE" /\ matches'[m].status = "ACTIVE" =>
         \A n \in MatchIds :
           /\ matches'[n].pair = matches'[m].pair
           /\ matches[n].status \in {"ENDED", "BLOCKED"}
           => matches[n].endedAt + Cooldown <= clock]_vars

\* The two kinds of advisory locks never make requests wait for each other for
\* ever: every request that started ends.
EveryRequestEnds == \A r \in Requests : (req[r].pc # "idle") ~> (req[r].pc = "idle")

\* "Blocks propagate bidirectionally" (docs/security-review.md:27): users who
\* block one another have no ACTIVE match.
BlockedUsersHaveNoActiveMatch ==
  \A m \in MatchIds : matches[m].status = "ACTIVE" => ~ Blocked(matches[m].pair)
=============================================================================
