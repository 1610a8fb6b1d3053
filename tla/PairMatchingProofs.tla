------------------------ MODULE PairMatchingProofs ------------------------
(***************************************************************************)
(* Machine-checked proofs about PairMatching, for every set of users,      *)
(* roles, matches, interests and requests and every cooldown.              *)
(***************************************************************************)
EXTENDS PairMatching, TLAPS

(***************************************************************************)
(* The inductive invariant.  WellFormed says what a request carries in     *)
(* each phase, PairLockHeld that a transaction about to create a match     *)
(* still holds the lock of its pair, KeysUnique what the unique index      *)
(* states.                                                                 *)
(***************************************************************************)
PairPhase == {"swipe", "decide", "verify", "lockPair", "create", "commit"}

WellFormed ==
  /\ \A r \in Requests :
       /\ req[r].pc \in PairPhase => req[r].pair \in Pairs
       /\ req[r].interest # None =>
            /\ req[r].verdict # "NONE"
            /\ interests[req[r].interest].state # "NONE"
       /\ req[r].pc = "decide" => req[r].interest # None
       /\ req[r].pc = "block" => req[r].block \in Users \X Users
  /\ \A i \in InterestIds : interests[i].state # "NONE" => interests[i].pair \in Pairs

PairLockHeld == \A r \in Requests : req[r].pc = "create" => pairLock[req[r].pair] = r

KeysUnique ==
  \A m, n \in MatchIds : matches[m].key # NoPair /\ matches[m].key = matches[n].key => m = n

ActiveHasPair == \A m \in MatchIds : matches[m].status = "ACTIVE" => matches[m].pair \in Pairs

IInv ==
  /\ TypeOK
  /\ WellFormed
  /\ PairLockHeld
  /\ CreateFindsKeyFree
  /\ MatchColumnsAgree
  /\ KeysUnique
  /\ ActiveHasPair

-----------------------------------------------------------------------------
\* The null value of a pair is no pair.
LEMMA PairsNotEmpty == NoPair \notin Pairs
  BY DEF Pairs, PairKey, NoPair

\* The null rows and the idle request are of their types.
LEMMA NullTypes == NoMatch \in Match /\ NoInterest \in Interest /\ Idle \in Request
  BY DEF NoMatch, Match, MatchStatus, ConversationStatus, NoInterest, Interest,
         Idle, Request, Phase

\* COMMIT and ROLLBACK keep the lock tables typed.
LEMMA ReleaseLocksType ==
  ASSUME TypeOK, NEW r \in Requests, ReleaseLocks(r)
  PROVE  /\ pairLock' \in [Pairs -> Requests \cup {None}]
         /\ interestLock' \in [InterestIds -> Requests \cup {None}]
  BY DEF TypeOK, ReleaseLocks

\* The end of a request keeps the requests typed.
LEMMA FinishType ==
  ASSUME TypeOK, NEW r \in Requests, Finish(r)
  PROVE  req' \in [Requests -> Request]
  BY NullTypes DEF TypeOK, Finish

\* The decision and the interest a caller commits are of their types.
LEMMA CommitCallerType ==
  ASSUME TypeOK, WellFormed, NEW r \in Requests, CommitCaller(r), req[r].pc \in PairPhase
  PROVE  /\ interests' \in [InterestIds -> Interest]
         /\ decisions' \subseteq Decision
         /\ \A i \in InterestIds : interests'[i].state # "NONE" => interests'[i].pair \in Pairs
  <1>1. CASE req[r].interest = None
    BY <1>1 DEF TypeOK, CommitCaller, WellFormed
  <1>2. CASE req[r].interest # None
    <2>1. req[r] \in Request
      BY DEF TypeOK
    <2>2. /\ req[r].interest \in InterestIds
          /\ req[r].verdict \in {"ACCEPT", "REJECT"}
          /\ req[r].covers \in SUBSET InterestIds
          /\ req[r].pair \in Pairs
      BY <1>2, <2>1 DEF Request, WellFormed
    <2>3. interests' \in [InterestIds -> Interest]
      BY <1>2, <2>2 DEF TypeOK, CommitCaller, Interest
    <2>4. [interest |-> req[r].interest, pair |-> req[r].pair,
           verdict |-> req[r].verdict, covers |-> req[r].covers] \in Decision
      BY <2>2 DEF Decision
    <2>5. decisions' \subseteq Decision
      BY <1>2, <2>4 DEF TypeOK, CommitCaller
    <2>6. interests[req[r].interest].pair \in Pairs
      BY <1>2, <2>2 DEF WellFormed
    <2>7. interests' = [interests EXCEPT ![req[r].interest].state = "RESOLVED"]
      BY <1>2 DEF CommitCaller
    <2>8. ASSUME NEW i \in InterestIds
          PROVE  interests'[i].pair = interests[i].pair
      BY <2>2, <2>7 DEF TypeOK, Interest
    <2>9. ASSUME NEW i \in InterestIds, interests'[i].state # "NONE"
          PROVE  interests'[i].pair \in Pairs
      <3>1. CASE i = req[r].interest
        BY <2>6, <2>8, <3>1
      <3>2. CASE i # req[r].interest
        BY <2>7, <2>9, <3>2 DEF TypeOK, WellFormed
      <3>3. QED
        BY <3>1, <3>2
    <2>10. QED
      BY <2>3, <2>5, <2>9
  <1>3. QED
    BY <1>1, <1>2

\* An interest that was inserted stays inserted.
LEMMA CommitCallerKeeps ==
  ASSUME TypeOK, NEW r \in Requests, CommitCaller(r)
  PROVE  \A i \in InterestIds : interests[i].state # "NONE" => interests'[i].state # "NONE"
  <1>1. CASE req[r].interest = None
    BY <1>1 DEF CommitCaller
  <1>2. CASE req[r].interest # None
    <2>1. req[r].interest \in InterestIds
      BY <1>2 DEF TypeOK, Request
    <2>2. interests' = [interests EXCEPT ![req[r].interest].state = "RESOLVED"]
      BY <1>2 DEF CommitCaller
    <2>3. QED
      BY <2>1, <2>2 DEF TypeOK, Interest
  <1>3. QED
    BY <1>1, <1>2

-----------------------------------------------------------------------------
(* One lemma per kind of step.                                             *)

\* The facts about matches alone survive every step that leaves matches alone.
LEMMA MatchesUnchanged ==
  ASSUME IInv, matches' = matches
  PROVE  MatchColumnsAgree' /\ KeysUnique' /\ ActiveHasPair'
  BY DEF IInv, MatchColumnsAgree, KeysUnique, ActiveHasPair

\* Steps that change one request and no row and no lock: the reads that begin a
\* request or follow one another, and the early returns.
LEMMA RequestStep ==
  ASSUME IInv, NEW r \in Requests, NEW q \in Request, req' = [req EXCEPT ![r] = q],
         UNCHANGED <<blocks, matches, interests, decisions, pairLock, interestLock, clock>>,
         q.pc # "create",
         q.pc \in PairPhase => q.pair \in Pairs,
         q.interest # None => q.verdict # "NONE" /\ interests[q.interest].state # "NONE",
         q.pc = "decide" => q.interest # None,
         q.pc = "block" => q.block \in Users \X Users
  PROVE  IInv'
  <1>1. TypeOK'
    BY DEF IInv, TypeOK
  <1>2. WellFormed'
    BY DEF IInv, TypeOK, WellFormed
  <1>3. PairLockHeld'
    BY DEF IInv, TypeOK, PairLockHeld
  <1>4. CreateFindsKeyFree'
    BY DEF IInv, TypeOK, CreateFindsKeyFree, KeyHolders
  <1>5. QED
    BY <1>1, <1>2, <1>3, <1>4, MatchesUnchanged DEF IInv

\* The end of a transaction that leaves matches alone.
LEMMA EndStep ==
  ASSUME IInv, NEW r \in Requests, ReleaseLocks(r), Finish(r),
         UNCHANGED <<blocks, matches, clock>>,
         interests' \in [InterestIds -> Interest],
         decisions' \subseteq Decision,
         \A i \in InterestIds :
           /\ interests'[i].state # "NONE" => interests'[i].pair \in Pairs
           /\ interests[i].state # "NONE" => interests'[i].state # "NONE"
  PROVE  IInv'
  <1>1. TypeOK'
    BY ReleaseLocksType, FinishType DEF IInv, TypeOK
  <1>2. \A s \in Requests : req'[s] = IF s = r THEN Idle ELSE req[s]
    BY DEF IInv, TypeOK, Finish
  <1>3. Idle.pc = "idle" /\ Idle.interest = None
    BY DEF Idle
  <1>4. WellFormed'
    <2>1. ASSUME NEW s \in Requests, req'[s].interest # None
          PROVE  req'[s].verdict # "NONE" /\ interests'[req'[s].interest].state # "NONE"
      <3>1. req'[s] = req[s]
        BY <1>2, <1>3, <2>1
      <3>2. req[s].interest \in InterestIds
        BY <2>1, <3>1 DEF IInv, TypeOK, Request
      <3>3. QED
        BY <2>1, <3>1, <3>2 DEF IInv, WellFormed
    <2>2. QED
      BY <1>2, <1>3, <2>1 DEF IInv, WellFormed, PairPhase
  <1>5. PairLockHeld'
    <2>1. ASSUME NEW s \in Requests, req'[s].pc = "create"
          PROVE  pairLock'[req'[s].pair] = s
      <3>1. s # r /\ req'[s] = req[s]
        BY <1>2, <1>3, <2>1
      <3>2. req[s].pair \in Pairs /\ pairLock[req[s].pair] = s
        BY <2>1, <3>1 DEF IInv, WellFormed, PairLockHeld, PairPhase
      <3>3. QED
        BY <3>1, <3>2 DEF ReleaseLocks
    <2>2. QED
      BY <2>1 DEF PairLockHeld
  <1>6. CreateFindsKeyFree'
    BY <1>2, <1>3 DEF IInv, CreateFindsKeyFree, KeyHolders
  <1>7. QED
    BY <1>1, <1>4, <1>5, <1>6, MatchesUnchanged DEF IInv

\* A transaction takes the free lock of its pair, to create the match or to
\* return the one that is there.
LEMMA LockPairStep ==
  ASSUME IInv, NEW r \in Requests, req[r].pc = "lockPair", pairLock[req[r].pair] = None,
         pairLock' = [pairLock EXCEPT ![req[r].pair] = r],
         UNCHANGED <<blocks, matches, interests, decisions, interestLock, clock>>,
         \/ GoTo(r, "commit")
         \/ GoTo(r, "create") /\ KeyHolders(req[r].pair) = {}
  PROVE  IInv'
  <1>1. req[r] \in Request /\ req[r].pair \in Pairs
    BY DEF IInv, TypeOK, WellFormed, PairPhase
  <1>2. PICK pc \in {"commit", "create"} :
          /\ req' = [req EXCEPT ![r].pc = pc]
          /\ pc = "create" => KeyHolders(req[r].pair) = {}
    BY DEF GoTo
  <1>3. \A s \in Requests : s # r => req'[s] = req[s]
    BY <1>2 DEF IInv, TypeOK
  <1>4. /\ req'[r].pc = pc /\ req'[r].pair = req[r].pair
        /\ req'[r].interest = req[r].interest /\ req'[r].verdict = req[r].verdict
    BY <1>1, <1>2 DEF IInv, TypeOK, Request
  <1>5. TypeOK'
    <2>1. [req[r] EXCEPT !.pc = pc] \in Request
      BY <1>1 DEF Request, Phase
    <2>2. QED
      BY <1>1, <1>2, <2>1 DEF IInv, TypeOK
  <1>6. WellFormed'
    BY <1>1, <1>3, <1>4 DEF IInv, WellFormed, PairPhase
  <1>7. PairLockHeld'
    <2>1. ASSUME NEW s \in Requests, req'[s].pc = "create"
          PROVE  pairLock'[req'[s].pair] = s
      <3>1. CASE s = r
        BY <1>1, <1>4, <3>1 DEF IInv, TypeOK
      <3>2. CASE s # r
        <4>1. req[s].pair \in Pairs /\ pairLock[req[s].pair] = s
          BY <1>3, <2>1, <3>2 DEF IInv, WellFormed, PairPhase, PairLockHeld
        <4>2. req[s].pair # req[r].pair
          BY <4>1, NoneAssumption
        <4>3. QED
          BY <1>1, <1>3, <3>2, <4>1, <4>2 DEF IInv, TypeOK
      <3>3. QED
        BY <3>1, <3>2
    <2>2. QED
      BY <2>1 DEF PairLockHeld
  <1>8. CreateFindsKeyFree'
    BY <1>2, <1>3, <1>4 DEF IInv, CreateFindsKeyFree, KeyHolders
  <1>9. QED
    BY <1>5, <1>6, <1>7, <1>8, MatchesUnchanged DEF IInv

\* block and unmatch end a set of matches and finish; blocks may change.
LEMMA EndMatchesStep ==
  ASSUME IInv, NEW r \in Requests, NEW ids \in SUBSET MatchIds,
         NEW status, NEW conversation,
         \/ status = "BLOCKED" /\ conversation = "BLOCKED"
         \/ status = "ENDED" /\ conversation = "CLOSED",
         EndMatches(ids, status, conversation),
         blocks' \subseteq Users \X Users,
         Finish(r),
         UNCHANGED <<interests, decisions, pairLock, interestLock, clock>>
  PROVE  IInv'
  <1>1. \A m \in MatchIds \ ids : matches'[m] = matches[m]
    BY DEF EndMatches
  <1>2. \A m \in MatchIds : matches[m] \in Match
    BY DEF IInv, TypeOK
  <1>3. \A m \in ids : /\ matches'[m] \in Match
                        /\ matches'[m].status = status
                        /\ matches'[m].conversation = conversation
                        /\ matches'[m].key = NoPair
    <2>1. clock \in Nat
      BY DEF IInv, TypeOK
    <2>2. QED
      BY <1>2, <2>1 DEF EndMatches, Match, MatchStatus, ConversationStatus
  <1>4. TypeOK'
    BY <1>1, <1>2, <1>3, FinishType DEF IInv, TypeOK, EndMatches
  <1>5. \A s \in Requests : req'[s] = IF s = r THEN Idle ELSE req[s]
    BY DEF IInv, TypeOK, Finish
  <1>6. Idle.pc = "idle" /\ Idle.interest = None
    BY DEF Idle
  <1>7. WellFormed' /\ PairLockHeld'
    BY <1>5, <1>6 DEF IInv, WellFormed, PairLockHeld, PairPhase
  <1>8. MatchColumnsAgree' /\ KeysUnique' /\ ActiveHasPair'
    <2>1. MatchColumnsAgree'
      BY <1>1, <1>3 DEF IInv, MatchColumnsAgree
    <2>2. KeysUnique'
      BY <1>1, <1>3 DEF IInv, KeysUnique
    <2>3. ActiveHasPair'
      BY <1>1, <1>3 DEF IInv, ActiveHasPair
    <2>4. QED
      BY <2>1, <2>2, <2>3
  <1>9. CreateFindsKeyFree'
    <2>1. ASSUME NEW s \in Requests, req'[s].pc = "create", NEW m \in MatchIds
          PROVE  matches'[m].key # req'[s].pair
      <3>1. req[s].pc = "create" /\ req'[s] = req[s] /\ req[s].pair \in Pairs
        BY <1>5, <1>6, <2>1 DEF IInv, WellFormed, PairPhase
      <3>2. QED
        BY <1>1, <1>3, <3>1, PairsNotEmpty DEF IInv, CreateFindsKeyFree, KeyHolders
    <2>2. QED
      BY <2>1 DEF CreateFindsKeyFree, KeyHolders
  <1>10. QED
    BY <1>4, <1>7, <1>8, <1>9 DEF IInv

\* The holder of the pair lock creates the match: no other request is about to
\* create one for the same pair, because it would hold the same lock.
LEMMA CreateMatchStep ==
  ASSUME IInv, NEW r \in Requests, CreateMatch(r)
  PROVE  IInv'
  <1>1. req[r].pc = "create" /\ req[r].pair \in Pairs /\ KeyHolders(req[r].pair) = {}
    BY DEF IInv, WellFormed, PairPhase, CreateMatch
  <1>2. PICK m \in MatchIds : /\ matches[m].status = "NONE"
                             /\ matches' = [matches EXCEPT ![m] = NewMatch(req[r].pair)]
    BY DEF CreateMatch
  <1>3. NewMatch(req[r].pair) \in Match
    BY <1>1 DEF NewMatch, Match, MatchStatus, ConversationStatus
  <1>4. CommitCaller(r) /\ ReleaseLocks(r) /\ Finish(r) /\ UNCHANGED <<blocks, clock>>
    BY DEF CreateMatch
  <1>5. /\ interests' \in [InterestIds -> Interest]
        /\ decisions' \subseteq Decision
        /\ \A i \in InterestIds : interests'[i].state # "NONE" => interests'[i].pair \in Pairs
    BY <1>1, <1>4, CommitCallerType DEF IInv, PairPhase
  <1>6. TypeOK'
    BY <1>2, <1>3, <1>4, <1>5, ReleaseLocksType, FinishType DEF IInv, TypeOK
  <1>7. \A s \in Requests : req'[s] = IF s = r THEN Idle ELSE req[s]
    BY <1>4 DEF IInv, TypeOK, Finish
  <1>8. Idle.pc = "idle" /\ Idle.interest = None
    BY DEF Idle
  <1>9. \A i \in InterestIds : interests[i].state # "NONE" => interests'[i].state # "NONE"
    BY <1>4, CommitCallerKeeps DEF IInv
  <1>10. WellFormed'
    <2>1. ASSUME NEW s \in Requests, req'[s].interest # None
          PROVE  req'[s].verdict # "NONE" /\ interests'[req'[s].interest].state # "NONE"
      <3>1. req'[s] = req[s]
        BY <1>7, <1>8, <2>1
      <3>2. req[s].interest \in InterestIds
        BY <2>1, <3>1 DEF IInv, TypeOK, Request
      <3>3. QED
        BY <1>9, <2>1, <3>1, <3>2 DEF IInv, WellFormed
    <2>2. QED
      BY <1>5, <1>7, <1>8, <2>1 DEF IInv, WellFormed, PairPhase
  <1>11. ASSUME NEW s \in Requests, req'[s].pc = "create"
         PROVE  /\ s # r /\ req'[s] = req[s] /\ req[s].pair \in Pairs
                /\ pairLock[req[s].pair] = s /\ req[s].pair # req[r].pair
    BY <1>1, <1>7, <1>8, <1>11 DEF IInv, WellFormed, PairPhase, PairLockHeld
  <1>12. PairLockHeld'
    BY <1>4, <1>11 DEF PairLockHeld, ReleaseLocks
  <1>13. /\ matches'[m] = NewMatch(req[r].pair)
         /\ \A n \in MatchIds : n # m => matches'[n] = matches[n]
    BY <1>2 DEF IInv, TypeOK
  <1>14. CreateFindsKeyFree'
    BY <1>11, <1>13 DEF IInv, CreateFindsKeyFree, KeyHolders, NewMatch
  <1>15. MatchColumnsAgree' /\ KeysUnique' /\ ActiveHasPair'
    BY <1>1, <1>13 DEF IInv, MatchColumnsAgree, KeysUnique, ActiveHasPair, NewMatch, KeyHolders
  <1>16. QED
    BY <1>6, <1>10, <1>12, <1>14, <1>15 DEF IInv

\* A decision takes the lock of its interest; no match row and no pair lock changes.
LEMMA DecideOpenStep ==
  ASSUME IInv, NEW r \in Requests, DecideOpen(r)
  PROVE  IInv'
  <1>1. req[r] \in Request /\ req[r].pair \in Pairs /\ req[r].interest \in InterestIds
    BY DEF IInv, TypeOK, WellFormed, PairPhase, DecideOpen, Request
  <1>2. PICK pc \in {"verify", "commit"} :
          req' = [req EXCEPT ![r].pc = pc, ![r].covers = InsertedInterests]
    BY DEF DecideOpen
  <1>3. \A s \in Requests : s # r => req'[s] = req[s]
    BY <1>2 DEF IInv, TypeOK
  <1>4. /\ req'[r].pc = pc /\ req'[r].pair = req[r].pair
        /\ req'[r].interest = req[r].interest /\ req'[r].verdict = req[r].verdict
    BY <1>1, <1>2 DEF IInv, TypeOK, Request
  <1>5. TypeOK'
    <2>1. [req[r] EXCEPT !.pc = pc, !.covers = InsertedInterests] \in Request
      BY <1>1 DEF Request, Phase, InsertedInterests
    <2>2. req' \in [Requests -> Request]
      BY <1>1, <1>2, <2>1 DEF IInv, TypeOK
    <2>3. interestLock' \in [InterestIds -> Requests \cup {None}]
      BY <1>1 DEF IInv, TypeOK, DecideOpen
    <2>4. QED
      BY <2>2, <2>3 DEF IInv, TypeOK, DecideOpen
  <1>6. UNCHANGED <<matches, interests, pairLock>>
    BY DEF DecideOpen
  <1>7. WellFormed' /\ PairLockHeld'
    BY <1>1, <1>3, <1>4, <1>6 DEF IInv, WellFormed, PairLockHeld, PairPhase
  <1>8. CreateFindsKeyFree'
    BY <1>3, <1>4, <1>6 DEF IInv, CreateFindsKeyFree, KeyHolders
  <1>9. QED
    BY <1>5, <1>6, <1>7, <1>8, MatchesUnchanged DEF IInv

\* A swipe inserts its interest outside any transaction.
LEMMA SwipeInsertStep ==
  ASSUME IInv, NEW r \in Requests, SwipeInsert(r)
  PROVE  IInv'
  <1>1. req[r].pair \in Pairs
    BY DEF IInv, WellFormed, PairPhase, SwipeInsert
  <1>2. PICK i \in InterestIds :
          interests' = [interests EXCEPT ![i] = [state |-> "OPEN", pair |-> req[r].pair]]
    BY DEF SwipeInsert
  <1>3. /\ interests' \in [InterestIds -> Interest]
        /\ \A j \in InterestIds :
             /\ interests'[j].state # "NONE" => interests'[j].pair \in Pairs
             /\ interests[j].state # "NONE" => interests'[j].state # "NONE"
    BY <1>1, <1>2 DEF IInv, TypeOK, WellFormed, Interest
  <1>4. UNCHANGED <<blocks, matches, decisions, pairLock, interestLock, clock>> /\ Finish(r)
    BY DEF SwipeInsert
  <1>5. TypeOK'
    BY <1>3, <1>4, FinishType DEF IInv, TypeOK
  <1>6. \A s \in Requests : req'[s] = IF s = r THEN Idle ELSE req[s]
    BY <1>4 DEF IInv, TypeOK, Finish
  <1>7. Idle.pc = "idle" /\ Idle.interest = None
    BY DEF Idle
  <1>8. WellFormed'
    <2>1. ASSUME NEW s \in Requests, req'[s].interest # None
          PROVE  req'[s].verdict # "NONE" /\ interests'[req'[s].interest].state # "NONE"
      <3>1. req'[s] = req[s]
        BY <1>6, <1>7, <2>1
      <3>2. req[s].interest \in InterestIds
        BY <2>1, <3>1 DEF IInv, TypeOK, Request
      <3>3. QED
        BY <1>3, <2>1, <3>1, <3>2 DEF IInv, WellFormed
    <2>2. QED
      BY <1>3, <1>6, <1>7, <2>1 DEF IInv, WellFormed, PairPhase
  <1>9. PairLockHeld' /\ CreateFindsKeyFree'
    BY <1>4, <1>6, <1>7 DEF IInv, PairLockHeld, CreateFindsKeyFree, KeyHolders
  <1>10. QED
    BY <1>4, <1>5, <1>8, <1>9, MatchesUnchanged DEF IInv

-----------------------------------------------------------------------------
\* The empty database satisfies the invariant.
LEMMA InitEstablishesIInv == Init => IInv
  <1> SUFFICES ASSUME Init PROVE IInv
    OBVIOUS
  <1>1. TypeOK
    BY NullTypes, BoundAssumption DEF Init, TypeOK
  <1>2. WellFormed /\ PairLockHeld /\ CreateFindsKeyFree
    BY DEF Init, WellFormed, PairLockHeld, CreateFindsKeyFree, Idle, NoInterest, PairPhase
  <1>3. MatchColumnsAgree /\ KeysUnique /\ ActiveHasPair
    BY DEF Init, MatchColumnsAgree, KeysUnique, ActiveHasPair, NoMatch
  <1>4. QED
    BY <1>1, <1>2, <1>3 DEF IInv

\* The first step of every request: reads only.
LEMMA StartPreservesIInv ==
  ASSUME IInv, NEW r \in Requests, Start(r)
  PROVE  IInv'
  <1>1. ASSUME NEW pair \in Pairs, SwipeCheck(r, pair)
        PROVE  IInv'
    <2> DEFINE q == [Idle EXCEPT !.pc = "swipe", !.pair = pair]
    <2>1. q \in Request /\ q.pc = "swipe" /\ q.pair = pair /\ q.interest = None
      BY DEF Idle, Request, Phase
    <2>2. req' = [req EXCEPT ![r] = q]
      BY <1>1 DEF SwipeCheck, Begin
    <2> HIDE DEF q
    <2>3. QED
      BY <1>1, <2>1, <2>2, RequestStep DEF SwipeCheck
  <1>2. ASSUME NEW pair \in Pairs, BookBegin(r, pair)
        PROVE  IInv'
    <2> DEFINE q == [Idle EXCEPT !.pc = "verify", !.pair = pair]
    <2>1. q \in Request /\ q.pc = "verify" /\ q.pair = pair /\ q.interest = None
      BY DEF Idle, Request, Phase
    <2>2. req' = [req EXCEPT ![r] = q]
      BY <1>2 DEF BookBegin, Begin
    <2> HIDE DEF q
    <2>3. QED
      BY <1>2, <2>1, <2>2, RequestStep DEF BookBegin
  <1>3. ASSUME NEW i \in InterestIds, NEW verdict \in {"ACCEPT", "REJECT"},
               DecideBegin(r, i, verdict)
        PROVE  IInv'
    <2> DEFINE q == [Idle EXCEPT !.pc = "decide", !.interest = i, !.verdict = verdict,
                                 !.pair = interests[i].pair]
    <2>1. interests[i].state # "NONE" /\ interests[i].pair \in Pairs
      BY <1>3 DEF IInv, WellFormed, DecideBegin
    <2>2. /\ q \in Request /\ q.pc = "decide" /\ q.pair \in Pairs
          /\ q.interest = i /\ q.verdict # "NONE" /\ i # None
      BY <2>1, NoneAssumption DEF Idle, Request, Phase
    <2>3. req' = [req EXCEPT ![r] = q]
      BY <1>3 DEF DecideBegin, Begin
    <2> HIDE DEF q
    <2>4. QED
      BY <1>3, <2>1, <2>2, <2>3, RequestStep DEF DecideBegin
  <1>4. ASSUME NEW u \in Users, NEW v \in Users, BlockScan(r, u, v)
        PROVE  IInv'
    <2> DEFINE q == [Idle EXCEPT !.pc = "block", !.block = <<u, v>>, !.ids = ActiveBetween(u, v)]
    <2>1. /\ q \in Request /\ q.pc = "block" /\ q.interest = None
          /\ q.block \in Users \X Users
      BY DEF Idle, Request, Phase, ActiveBetween
    <2>2. req' = [req EXCEPT ![r] = q]
      BY <1>4 DEF BlockScan, Begin
    <2> HIDE DEF q
    <2>3. QED
      BY <1>4, <2>1, <2>2, RequestStep DEF BlockScan, PairPhase
  <1>5. ASSUME NEW m \in MatchIds, UnmatchRead(r, m)
        PROVE  IInv'
    <2> DEFINE q == [Idle EXCEPT !.pc = "unmatch", !.ids = {m}]
    <2>1. q \in Request /\ q.pc = "unmatch" /\ q.interest = None
      BY DEF Idle, Request, Phase
    <2>2. req' = [req EXCEPT ![r] = q]
      BY <1>5 DEF UnmatchRead, Begin
    <2> HIDE DEF q
    <2>3. QED
      BY <1>5, <2>1, <2>2, RequestStep DEF UnmatchRead, PairPhase
  <1>6. QED
    BY <1>1, <1>2, <1>3, <1>4, <1>5 DEF Start

\* The later steps of every request, one case per action.
LEMMA ProceedPreservesIInv ==
  ASSUME IInv, NEW r \in Requests, Proceed(r)
  PROVE  IInv'
  <1>1. CASE SwipeInsert(r)
    BY <1>1, SwipeInsertStep
  <1>2. CASE DecideKnown(r)
    <2>1. Idle \in Request /\ Idle.pc = "idle" /\ Idle.interest = None
      BY NullTypes DEF Idle
    <2>2. QED
      BY <1>2, <2>1, RequestStep DEF DecideKnown, Finish, PairPhase
  <1>3. CASE DecideOpen(r)
    BY <1>3, DecideOpenStep
  <1>4. CASE Verify(r)
    <2> DEFINE q == [req[r] EXCEPT !.pc = "lockPair"]
    <2>1. req[r] \in Request /\ req[r].pc = "verify"
      BY <1>4 DEF IInv, TypeOK, Verify
    <2>2. /\ q \in Request /\ q.pc = "lockPair" /\ q.pair = req[r].pair
          /\ q.interest = req[r].interest /\ q.verdict = req[r].verdict
      BY <2>1 DEF Request, Phase
    <2>3. req' = [req EXCEPT ![r] = q]
      BY <1>4 DEF Verify, GoTo
    <2>4. /\ q.pair \in Pairs
          /\ q.interest # None => q.verdict # "NONE" /\ interests[q.interest].state # "NONE"
      BY <2>1, <2>2 DEF IInv, WellFormed, PairPhase
    <2> HIDE DEF q
    <2>5. QED
      BY <1>4, <2>2, <2>3, <2>4, RequestStep DEF Verify
  <1>5. CASE LockPairExisting(r)
    BY <1>5, LockPairStep DEF LockPairExisting
  <1>6. CASE LockPairFree(r)
    BY <1>6, LockPairStep DEF LockPairFree
  <1>7. CASE Refuse(r)
    BY <1>7, EndStep DEF Refuse, IInv, TypeOK, WellFormed
  <1>8. CASE Commit(r)
    <2>1. req[r].pc \in PairPhase /\ CommitCaller(r) /\ ReleaseLocks(r) /\ Finish(r)
      BY <1>8 DEF Commit, PairPhase
    <2>2. /\ interests' \in [InterestIds -> Interest]
          /\ decisions' \subseteq Decision
          /\ \A i \in InterestIds : interests'[i].state # "NONE" => interests'[i].pair \in Pairs
      BY <2>1, CommitCallerType DEF IInv
    <2>3. \A i \in InterestIds : interests[i].state # "NONE" => interests'[i].state # "NONE"
      BY <2>1, CommitCallerKeeps DEF IInv
    <2>4. QED
      BY <1>8, <2>1, <2>2, <2>3, EndStep DEF Commit
  <1>9. CASE CreateMatch(r)
    BY <1>9, CreateMatchStep
  <1>10. CASE BlockCommit(r)
    <2>1. req[r] \in Request /\ req[r].pc = "block"
      BY <1>10 DEF IInv, TypeOK, BlockCommit
    <2>2. req[r].ids \in SUBSET MatchIds
      BY <2>1 DEF Request
    <2>3. blocks' \subseteq Users \X Users
      BY <1>10, <2>1 DEF IInv, TypeOK, WellFormed, BlockCommit
    <2>4. QED
      BY <1>10, <2>2, <2>3, EndMatchesStep DEF BlockCommit
  <1>11. CASE UnmatchCommit(r)
    <2>1. req[r].ids \in SUBSET MatchIds
      BY DEF IInv, TypeOK, Request
    <2>2. QED
      BY <1>11, <2>1, EndMatchesStep DEF UnmatchCommit, IInv, TypeOK
  <1>12. QED
    BY <1>1, <1>2, <1>3, <1>4, <1>5, <1>6, <1>7, <1>8, <1>9, <1>10, <1>11 DEF Proceed

\* Every step of the system keeps the invariant.
LEMMA NextPreservesIInv == IInv /\ [Next]_vars => IInv'
  <1> SUFFICES ASSUME IInv, [Next]_vars PROVE IInv'
    OBVIOUS
  <1>1. ASSUME NEW r \in Requests, Start(r)
        PROVE  IInv'
    BY <1>1, StartPreservesIInv
  <1>2. ASSUME NEW r \in Requests, Proceed(r)
        PROVE  IInv'
    BY <1>2, ProceedPreservesIInv
  <1>3. ASSUME NEW r \in Requests, Abort(r)
        PROVE  IInv'
    BY <1>3, EndStep DEF Abort, IInv, TypeOK, WellFormed
  <1>4. ASSUME NEW u \in Users, NEW v \in Users, Unblock(u, v)
        PROVE  IInv'
    <2>1. TypeOK' /\ WellFormed' /\ PairLockHeld' /\ CreateFindsKeyFree'
      BY <1>4 DEF Unblock, IInv, TypeOK, WellFormed, PairLockHeld, CreateFindsKeyFree, KeyHolders
    <2>2. QED
      BY <1>4, <2>1, MatchesUnchanged DEF Unblock, IInv
  <1>5. CASE Tick
    <2>1. TypeOK' /\ WellFormed' /\ PairLockHeld' /\ CreateFindsKeyFree'
      BY <1>5 DEF Tick, IInv, TypeOK, WellFormed, PairLockHeld, CreateFindsKeyFree, KeyHolders
    <2>2. QED
      BY <1>5, <2>1, MatchesUnchanged DEF Tick, IInv
  <1>6. CASE UNCHANGED vars
    <2>1. TypeOK' /\ WellFormed' /\ PairLockHeld' /\ CreateFindsKeyFree'
      BY <1>6 DEF vars, IInv, TypeOK, WellFormed, PairLockHeld, CreateFindsKeyFree, KeyHolders
    <2>2. QED
      BY <1>6, <2>1, MatchesUnchanged DEF vars, IInv
  <1>7. QED
    BY <1>1, <1>2, <1>3, <1>4, <1>5, <1>6 DEF Next

\* The invariant holds in every reachable state.
LEMMA Invariance == Spec => []IInv
  <1>1. QED
    BY InitEstablishesIInv, NextPreservesIInv, PTL DEF Spec

-----------------------------------------------------------------------------
\* Every reachable state of PairMatching is well typed: the handlers of
\* relationships, block and unmatch never leave a half-written row behind.
THEOREM TypeCorrect == Spec => []TypeOK
  <1>1. IInv => TypeOK
    BY DEF IInv
  <1>2. QED
    BY <1>1, Invariance, PTL

\* ensurePair never meets the unique index of active_pair_key, however many
\* accepts and bookings race: the advisory lock alone protects the insert.
THEOREM CreateNeverConflicts == Spec => []CreateFindsKeyFree
  <1>1. IInv => CreateFindsKeyFree
    BY DEF IInv
  <1>2. QED
    BY <1>1, Invariance, PTL

\* The status, the lookup key and the conversation of a match always agree,
\* whatever order block and unmatch commit in.
THEOREM ColumnsAlwaysAgree == Spec => []MatchColumnsAgree
  <1>1. IInv => MatchColumnsAgree
    BY DEF IInv
  <1>2. QED
    BY <1>1, Invariance, PTL

\* A pair never has two ACTIVE matches, and so never two open conversations.
THEOREM AtMostOneActiveMatch == Spec => []OneActiveMatchPerPair
  <1>1. IInv => OneActiveMatchPerPair
    BY PairsNotEmpty DEF IInv, OneActiveMatchPerPair, MatchColumnsAgree, KeysUnique, ActiveHasPair
  <1>2. QED
    BY <1>1, Invariance, PTL

-----------------------------------------------------------------------------
(* The rematch cooldown.  block and unmatch may end a match long after they *)
(* read its id, but never in a later tick than another request ended it in. *)

CooldownInv ==
  /\ \A r \in Requests :
       /\ req[r].pc = "idle" => req[r].ids = {}
       /\ \A m \in req[r].ids :
            \/ matches[m].status = "ACTIVE"
            \/ matches[m].status \in {"ENDED", "BLOCKED"} /\ matches[m].endedAt = clock
  /\ \A r \in Requests : req[r].pc = "create" =>
       \A m \in MatchIds :
         /\ matches[m].pair = req[r].pair
         /\ matches[m].status \in {"ENDED", "BLOCKED"}
         => matches[m].endedAt + Cooldown <= clock

\* Steps that leave matches and the clock alone, and bring no request to "create".
LEMMA CooldownRequestStep ==
  ASSUME IInv, CooldownInv, UNCHANGED <<matches, clock>>,
         NEW r \in Requests, NEW q \in Request, req' = [req EXCEPT ![r] = q],
         q.pc # "create", q.pc = "idle" => q.ids = {},
         q.ids \subseteq req[r].ids \cup {m \in MatchIds : matches[m].status = "ACTIVE"}
  PROVE  CooldownInv'
  <1>1. \A s \in Requests : req'[s] = IF s = r THEN q ELSE req[s]
    BY DEF IInv, TypeOK
  <1>2. \A s \in Requests : req[s].ids \subseteq MatchIds
    BY DEF IInv, TypeOK, Request
  <1>3. QED
    BY <1>1, <1>2 DEF CooldownInv

\* block and unmatch may set a later end on a match, never an earlier one.
LEMMA CooldownEndMatches ==
  ASSUME IInv, CooldownInv, NEW r \in Requests, NEW status \in {"ENDED", "BLOCKED"},
         NEW conversation,
         EndMatches(req[r].ids, status, conversation), Finish(r), clock' = clock
  PROVE  CooldownInv'
  <1>1. \A s \in Requests : req'[s] = IF s = r THEN Idle ELSE req[s]
    BY DEF IInv, TypeOK, Finish
  <1>2. Idle.pc = "idle" /\ Idle.ids = {}
    BY DEF Idle
  <1>3. /\ clock \in Nat /\ req[r].ids \subseteq MatchIds
        /\ \A m \in MatchIds : matches[m] \in Match
        /\ \A s \in Requests : req[s].ids \subseteq MatchIds
    BY DEF IInv, TypeOK, Request
  <1>4. \A m \in req[r].ids : /\ matches'[m].status = status
                               /\ matches'[m].endedAt = clock
                               /\ matches'[m].pair = matches[m].pair
    BY <1>3 DEF EndMatches, Match
  <1>5. \A m \in MatchIds : m \notin req[r].ids => matches'[m] = matches[m]
    BY DEF EndMatches
  <1>6. ASSUME NEW s \in Requests, req'[s].pc = "create", NEW m \in MatchIds,
               matches'[m].pair = req'[s].pair, matches'[m].status \in {"ENDED", "BLOCKED"}
        PROVE  matches'[m].endedAt + Cooldown <= clock
    <2>1. req'[s] = req[s] /\ req[s].pc = "create"
      BY <1>1, <1>2, <1>6
    <2>2. CASE m \notin req[r].ids
      BY <1>5, <1>6, <2>1, <2>2 DEF CooldownInv
    <2>3. CASE m \in req[r].ids
      <3>1. matches[m].pair = req[s].pair
        BY <1>4, <1>6, <2>1, <2>3
      <3>2. matches[m].status # "ACTIVE"
        BY <2>1, <3>1 DEF IInv, MatchColumnsAgree, CreateFindsKeyFree, KeyHolders
      <3>3. matches[m].status \in {"ENDED", "BLOCKED"} /\ matches[m].endedAt = clock
        BY <2>3, <3>2 DEF CooldownInv
      <3>4. QED
        BY <1>4, <2>1, <2>3, <3>1, <3>3 DEF CooldownInv
    <2>4. QED
      BY <2>2, <2>3
  <1>7. ASSUME NEW s \in Requests, NEW m \in req'[s].ids
        PROVE  \/ matches'[m].status = "ACTIVE"
               \/ matches'[m].status \in {"ENDED", "BLOCKED"} /\ matches'[m].endedAt = clock
    <2>1. req'[s] = req[s] /\ m \in MatchIds
      BY <1>1, <1>2, <1>3, <1>7
    <2>2. QED
      BY <1>4, <1>5, <1>7, <2>1 DEF CooldownInv
  <1>8. \A s \in Requests : req'[s].pc = "idle" => req'[s].ids = {}
    BY <1>1, <1>2 DEF CooldownInv
  <1>9. QED
    BY <1>6, <1>7, <1>8 DEF CooldownInv

\* The created match is one the check of the cooldown let through.
LEMMA CooldownCreateMatch ==
  ASSUME IInv, CooldownInv, NEW r \in Requests, CreateMatch(r)
  PROVE  /\ CooldownInv'
         /\ \A m \in MatchIds :
              matches[m].status = "NONE" /\ matches'[m].status = "ACTIVE" =>
                \A n \in MatchIds :
                  /\ matches'[n].pair = matches'[m].pair
                  /\ matches[n].status \in {"ENDED", "BLOCKED"}
                  => matches[n].endedAt + Cooldown <= clock
  <1>1. PICK m \in MatchIds : /\ matches[m].status = "NONE"
                             /\ matches' = [matches EXCEPT ![m] = NewMatch(req[r].pair)]
    BY DEF CreateMatch
  <1>2. /\ matches'[m] = NewMatch(req[r].pair)
        /\ \A n \in MatchIds : n # m => matches'[n] = matches[n]
    BY <1>1 DEF IInv, TypeOK
  <1>3. NewMatch(req[r].pair).status = "ACTIVE" /\ NewMatch(req[r].pair).pair = req[r].pair
    BY DEF NewMatch
  <1>4. \A s \in Requests : req'[s] = IF s = r THEN Idle ELSE req[s]
    BY DEF CreateMatch, IInv, TypeOK, Finish
  <1>5. Idle.pc = "idle" /\ Idle.ids = {}
    BY DEF Idle
  <1>6. req[r].pc = "create" /\ clock' = clock
    BY DEF CreateMatch
  <1>7. \A s \in Requests : req[s].ids \subseteq MatchIds \ {m}
    BY <1>1 DEF IInv, TypeOK, Request, CooldownInv
  <1>8. CooldownInv'
    BY <1>2, <1>3, <1>4, <1>5, <1>6, <1>7 DEF CooldownInv
  <1>9. ASSUME NEW k \in MatchIds, matches[k].status = "NONE", matches'[k].status = "ACTIVE",
               NEW n \in MatchIds, matches'[n].pair = matches'[k].pair,
               matches[n].status \in {"ENDED", "BLOCKED"}
        PROVE  matches[n].endedAt + Cooldown <= clock
    <2>1. k = m /\ n # m
      BY <1>1, <1>2, <1>9
    <2>2. matches[n].pair = req[r].pair
      BY <1>2, <1>3, <1>9, <2>1
    <2>3. QED
      BY <1>6, <1>9, <2>2 DEF CooldownInv
  <1>10. QED
    BY <1>8, <1>9

\* The check of the cooldown, under the lock of the pair.
LEMMA CooldownLockPairFree ==
  ASSUME IInv, CooldownInv, NEW r \in Requests, LockPairFree(r)
  PROVE  CooldownInv'
  <1>1. req[r] \in Request /\ req[r].pc = "lockPair"
    BY DEF IInv, TypeOK, LockPairFree
  <1>2. \A s \in Requests : s # r => req'[s] = req[s]
    BY DEF LockPairFree, GoTo, IInv, TypeOK
  <1>3. req'[r].pc = "create" /\ req'[r].pair = req[r].pair /\ req'[r].ids = req[r].ids
    BY <1>1 DEF LockPairFree, GoTo, IInv, TypeOK, Request
  <1>4. UNCHANGED <<matches, clock>> /\ ~ InCooldown(req[r].pair)
    BY DEF LockPairFree
  <1>5. \A m \in MatchIds : matches[m].endedAt \in Nat
    BY DEF IInv, TypeOK, Match
  <1>6. \A m \in MatchIds :
          /\ matches[m].pair = req[r].pair
          /\ matches[m].status \in {"ENDED", "BLOCKED"}
          => matches[m].endedAt + Cooldown <= clock
    BY <1>4, <1>5, BoundAssumption DEF InCooldown, IInv, TypeOK
  <1>7. QED
    BY <1>2, <1>3, <1>4, <1>6 DEF CooldownInv

\* The consequent of CooldownRespected for one step.
CooldownStep ==
  \A m \in MatchIds :
    matches[m].status = "NONE" /\ matches'[m].status = "ACTIVE" =>
      \A n \in MatchIds :
        /\ matches'[n].pair = matches'[m].pair
        /\ matches[n].status \in {"ENDED", "BLOCKED"}
        => matches[n].endedAt + Cooldown <= clock

\* A step that leaves matches alone creates none.
LEMMA CooldownUnchangedStep ==
  ASSUME UNCHANGED matches
  PROVE  CooldownStep
  BY DEF CooldownStep

\* Every step of the system keeps the cooldown, one case per action.
LEMMA CooldownNext == IInv /\ CooldownInv /\ [Next]_vars => CooldownInv' /\ CooldownStep
  <1> SUFFICES ASSUME IInv, CooldownInv, [Next]_vars PROVE CooldownInv' /\ CooldownStep
    OBVIOUS
  <1>0. /\ Idle \in Request /\ Idle.pc = "idle" /\ Idle.ids = {}
        /\ \A r \in Requests : req[r] \in Request
    BY NullTypes DEF Idle, IInv, TypeOK
  <1>1. ASSUME NEW r \in Requests, Start(r)
        PROVE  CooldownInv' /\ CooldownStep
    <2>1. PICK q \in Request :
            /\ req' = [req EXCEPT ![r] = q]
            /\ q.pc \notin {"create", "idle"}
            /\ q.ids \subseteq {m \in MatchIds : matches[m].status = "ACTIVE"}
      <3>1. ASSUME NEW pair \in Pairs, NEW pc \in {"swipe", "verify"}
            PROVE  LET q == [Idle EXCEPT !.pc = pc, !.pair = pair]
                   IN  q \in Request /\ q.pc = pc /\ q.ids = {}
        BY DEF Idle, Request, Phase
      <3>2. ASSUME NEW pair \in Pairs, SwipeCheck(r, pair) \/ BookBegin(r, pair)
            PROVE  \E q \in Request :
                     /\ req' = [req EXCEPT ![r] = q]
                     /\ q.pc \notin {"create", "idle"}
                     /\ q.ids = {}
        BY <3>1, <3>2 DEF SwipeCheck, BookBegin, Begin
      <3>3. ASSUME NEW i \in InterestIds, NEW verdict \in {"ACCEPT", "REJECT"},
                   DecideBegin(r, i, verdict)
            PROVE  \E q \in Request :
                     /\ req' = [req EXCEPT ![r] = q]
                     /\ q.pc \notin {"create", "idle"}
                     /\ q.ids = {}
        <4> DEFINE q == [Idle EXCEPT !.pc = "decide", !.interest = i, !.verdict = verdict,
                                     !.pair = interests[i].pair]
        <4>1. interests[i].pair \in Pairs
          BY <3>3 DEF IInv, WellFormed, DecideBegin
        <4>2. q \in Request /\ q.pc = "decide" /\ q.ids = {}
          BY <4>1 DEF Idle, Request, Phase
        <4>3. QED
          BY <3>3, <4>2 DEF DecideBegin, Begin
      <3>4. ASSUME NEW u \in Users, NEW v \in Users, BlockScan(r, u, v)
            PROVE  \E q \in Request :
                     /\ req' = [req EXCEPT ![r] = q]
                     /\ q.pc \notin {"create", "idle"}
                     /\ q.ids = ActiveBetween(u, v)
        <4> DEFINE q == [Idle EXCEPT !.pc = "block", !.block = <<u, v>>,
                                     !.ids = ActiveBetween(u, v)]
        <4>1. q \in Request /\ q.pc = "block" /\ q.ids = ActiveBetween(u, v)
          BY DEF Idle, Request, Phase, ActiveBetween
        <4>2. QED
          BY <3>4, <4>1 DEF BlockScan, Begin
      <3>5. ASSUME NEW m \in MatchIds, UnmatchRead(r, m)
            PROVE  \E q \in Request :
                     /\ req' = [req EXCEPT ![r] = q]
                     /\ q.pc \notin {"create", "idle"}
                     /\ q.ids = {m}
        <4> DEFINE q == [Idle EXCEPT !.pc = "unmatch", !.ids = {m}]
        <4>1. q \in Request /\ q.pc = "unmatch" /\ q.ids = {m}
          BY DEF Idle, Request, Phase
        <4>2. QED
          BY <3>5, <4>1 DEF UnmatchRead, Begin
      <3>6. \A u, v \in Users :
              ActiveBetween(u, v) \subseteq {m \in MatchIds : matches[m].status = "ACTIVE"}
        BY DEF ActiveBetween
      <3>7. \A m \in MatchIds : UnmatchRead(r, m) => matches[m].status = "ACTIVE"
        BY DEF UnmatchRead
      <3>8. QED
        BY <1>1, <3>2, <3>3, <3>4, <3>5, <3>6, <3>7 DEF Start
    <2>2. UNCHANGED <<matches, clock>>
      BY <1>1 DEF Start, SwipeCheck, BookBegin, DecideBegin, BlockScan, UnmatchRead
    <2>3. QED
      BY <2>1, <2>2, CooldownRequestStep, CooldownUnchangedStep
  <1>2. ASSUME NEW r \in Requests,
               \/ SwipeInsert(r) \/ DecideKnown(r) \/ Refuse(r) \/ Commit(r) \/ Abort(r)
        PROVE  CooldownInv' /\ CooldownStep
    <2>1. UNCHANGED <<matches, clock>> /\ req' = [req EXCEPT ![r] = Idle]
      BY <1>2 DEF SwipeInsert, DecideKnown, Refuse, Commit, Abort, Finish
    <2>2. QED
      BY <1>0, <2>1, CooldownRequestStep, CooldownUnchangedStep
  <1>3. ASSUME NEW r \in Requests, DecideOpen(r) \/ Verify(r) \/ LockPairExisting(r)
        PROVE  CooldownInv' /\ CooldownStep
    <2>1. UNCHANGED <<matches, clock>>
      BY <1>3 DEF DecideOpen, Verify, LockPairExisting
    <2>2. PICK pc \in {"verify", "commit", "lockPair"}, covers \in SUBSET InterestIds :
            req' = [req EXCEPT ![r] = [req[r] EXCEPT !.pc = pc, !.covers = covers]]
      <3>1. CASE DecideOpen(r)
        BY <3>1 DEF DecideOpen, InsertedInterests
      <3>2. CASE Verify(r)
        <4>1. [req[r] EXCEPT !.pc = "lockPair", !.covers = req[r].covers]
                = [req[r] EXCEPT !.pc = "lockPair"]
          BY <1>0 DEF Request
        <4>2. QED
          BY <1>0, <3>2, <4>1 DEF Verify, GoTo, Request
      <3>3. CASE LockPairExisting(r)
        <4>1. [req[r] EXCEPT !.pc = "commit", !.covers = req[r].covers]
                = [req[r] EXCEPT !.pc = "commit"]
          BY <1>0 DEF Request
        <4>2. QED
          BY <1>0, <3>3, <4>1 DEF LockPairExisting, GoTo, Request
      <3>4. QED
        BY <1>3, <3>1, <3>2, <3>3
    <2> DEFINE q == [req[r] EXCEPT !.pc = pc, !.covers = covers]
    <2>3. q \in Request /\ q.pc = pc /\ q.ids = req[r].ids
      BY <1>0 DEF Request, Phase
    <2> HIDE DEF q
    <2>4. req' = [req EXCEPT ![r] = q]
      BY <2>2 DEF q
    <2>5. QED
      BY <2>1, <2>3, <2>4, CooldownRequestStep, CooldownUnchangedStep
  <1>4. ASSUME NEW r \in Requests, LockPairFree(r)
        PROVE  CooldownInv' /\ CooldownStep
    BY <1>4, CooldownLockPairFree, CooldownUnchangedStep DEF LockPairFree
  <1>5. ASSUME NEW r \in Requests, CreateMatch(r)
        PROVE  CooldownInv' /\ CooldownStep
    BY <1>5, CooldownCreateMatch DEF CooldownStep
  <1>6. ASSUME NEW r \in Requests, NEW status \in {"ENDED", "BLOCKED"}, NEW conversation,
               EndMatches(req[r].ids, status, conversation), Finish(r), clock' = clock
        PROVE  CooldownInv' /\ CooldownStep
    <2>1. CooldownInv'
      BY <1>6, CooldownEndMatches
    <2>2. \A m \in MatchIds : matches'[m].status \in {matches[m].status, status}
      BY <1>6 DEF EndMatches, IInv, TypeOK, Match
    <2>3. QED
      BY <2>1, <2>2 DEF CooldownStep
  <1>7. ASSUME NEW r \in Requests, BlockCommit(r) \/ UnmatchCommit(r)
        PROVE  CooldownInv' /\ CooldownStep
    BY <1>6, <1>7 DEF BlockCommit, UnmatchCommit
  <1>8. ASSUME NEW u \in Users, NEW v \in Users, Unblock(u, v)
        PROVE  CooldownInv' /\ CooldownStep
    BY <1>8, CooldownUnchangedStep DEF Unblock, CooldownInv
  <1>9. CASE Tick
    BY <1>9, CooldownUnchangedStep DEF Tick, CooldownInv
  <1>10. CASE UNCHANGED vars
    BY <1>10, CooldownUnchangedStep DEF vars, CooldownInv
  <1>11. QED
    BY <1>1, <1>2, <1>3, <1>4, <1>5, <1>7, <1>8, <1>9, <1>10 DEF Next, Proceed

\* No pair is matched again before the cooldown after its last match is over,
\* even when block and unmatch end matches outside the pair lock.
THEOREM CooldownAlwaysRespected == Spec => CooldownRespected
  <1>1. Init => CooldownInv
    BY DEF Init, CooldownInv, Idle
  <1>2. IInv /\ CooldownInv /\ [Next]_vars => CooldownInv'
    BY CooldownNext
  <1>3. IInv /\ CooldownInv /\ [Next]_vars =>
          [\A m \in MatchIds :
             matches[m].status = "NONE" /\ matches'[m].status = "ACTIVE" =>
               \A n \in MatchIds :
                 /\ matches'[n].pair = matches'[m].pair
                 /\ matches[n].status \in {"ENDED", "BLOCKED"}
                 => matches[n].endedAt + Cooldown <= clock]_vars
    BY CooldownNext DEF CooldownStep
  <1>4. QED
    BY <1>1, <1>2, <1>3, Invariance, PTL DEF Spec, CooldownRespected

-----------------------------------------------------------------------------
(* Decisions.  A transaction that has decided holds the lock of its        *)
(* interest, which stays OPEN until it commits; one that accepted and is   *)
(* about to commit has found a match of its pair.                          *)

Deciding(r) == req[r].interest # None /\ req[r].pc \in {"verify", "lockPair", "create", "commit"}
HasMatch(pair) == \E m \in MatchIds : matches[m].pair = pair

DecisionInv ==
  /\ \A r \in Requests : Deciding(r) =>
       interestLock[req[r].interest] = r /\ interests[req[r].interest].state = "OPEN"
  /\ OneDecisionPerInterest

AcceptInv ==
  /\ AcceptHasMatch
  /\ \A r \in Requests : req[r].pc = "commit" /\ req[r].verdict = "ACCEPT" => HasMatch(req[r].pair)
  /\ \A m \in MatchIds : matches[m].status = "NONE" => matches[m].pair = NoPair

\* Steps that neither resolve an interest nor decide, and leave the locks of
\* others alone.
LEMMA DecisionKept ==
  ASSUME IInv, DecisionInv, NEW r \in Requests, decisions' = decisions,
         \A s \in Requests \ {r} : req'[s] = req[s],
         \A i \in InterestIds : IF interests[i].state = "NONE" THEN interests'[i].state # "RESOLVED"
                                                               ELSE interests'[i] = interests[i],
         \A i \in InterestIds, s \in Requests \ {r} : interestLock[i] = s => interestLock'[i] = s,
         Deciding(r)' => /\ interestLock'[req'[r].interest] = r
                         /\ interests'[req'[r].interest].state = "OPEN"
  PROVE  DecisionInv'
  <1>1. ASSUME NEW s \in Requests, Deciding(s)'
        PROVE  interestLock'[req'[s].interest] = s /\ interests'[req'[s].interest].state = "OPEN"
    <2>1. CASE s = r
      BY <1>1, <2>1
    <2>2. CASE s # r
      <3>1. req'[s] = req[s] /\ Deciding(s)
        BY <1>1, <2>2 DEF Deciding
      <3>2. req[s].interest \in InterestIds
        BY <3>1 DEF IInv, TypeOK, Request, Deciding
      <3>3. interestLock[req[s].interest] = s /\ interests[req[s].interest].state = "OPEN"
        BY <3>1 DEF DecisionInv
      <3>4. QED
        BY <2>2, <3>1, <3>2, <3>3
    <2>3. QED
      BY <2>1, <2>2
  <1>2. \A i \in InterestIds : interests'[i].state = "RESOLVED" <=> interests[i].state = "RESOLVED"
    OBVIOUS
  <1>3. OneDecisionPerInterest'
    BY <1>2 DEF DecisionInv, OneDecisionPerInterest
  <1>4. QED
    BY <1>1, <1>3 DEF DecisionInv

\* The commit of a decision resolves an interest that nobody has decided.
LEMMA DecisionCommits ==
  ASSUME IInv, DecisionInv, NEW r \in Requests, req[r].pc \in {"create", "commit"},
         CommitCaller(r), ReleaseLocks(r), Finish(r)
  PROVE  DecisionInv'
  <1>1. \A s \in Requests \ {r} : req'[s] = req[s]
    BY DEF IInv, TypeOK, Finish
  <1>2. req'[r].interest = None
    BY DEF IInv, TypeOK, Finish, Idle
  <1>3. \A i \in InterestIds, s \in Requests \ {r} : interestLock[i] = s => interestLock'[i] = s
    BY DEF ReleaseLocks
  <1>4. CASE req[r].interest = None
    BY <1>1, <1>2, <1>3, <1>4, DecisionKept DEF CommitCaller, Deciding, IInv, TypeOK
  <1>5. CASE req[r].interest # None
    <2>1. PICK i \in InterestIds : i = req[r].interest
      BY <1>5 DEF IInv, TypeOK, Request
    <2>2. interestLock[i] = r /\ interests[i].state = "OPEN"
      BY <1>5, <2>1 DEF DecisionInv, Deciding
    <2>3. \A d \in decisions : d.interest # i
      BY <2>2 DEF DecisionInv, OneDecisionPerInterest
    <2>4. PICK n : n.interest = i /\ decisions' = decisions \cup {n}
      <3> DEFINE n == [interest |-> req[r].interest, pair |-> req[r].pair,
                       verdict |-> req[r].verdict, covers |-> req[r].covers]
      <3>1. n.interest = i /\ decisions' = decisions \cup {n}
        BY <1>5, <2>1 DEF CommitCaller
      <3>2. QED
        BY <3>1
    <2>5. interests' = [interests EXCEPT ![i].state = "RESOLVED"]
      BY <1>5, <2>1 DEF CommitCaller
    <2>6. interests'[i].state = "RESOLVED" /\ \A j \in InterestIds \ {i} : interests'[j] = interests[j]
      BY <2>5 DEF IInv, TypeOK, Interest
    <2>7. ASSUME NEW s \in Requests, Deciding(s)'
          PROVE  interestLock'[req'[s].interest] = s /\ interests'[req'[s].interest].state = "OPEN"
      <3>1. s # r /\ req'[s] = req[s] /\ Deciding(s)
        BY <1>1, <1>2, <2>7 DEF Deciding
      <3>2. req[s].interest \in InterestIds
        BY <3>1 DEF IInv, TypeOK, Request, Deciding
      <3>3. interestLock[req[s].interest] = s /\ interests[req[s].interest].state = "OPEN"
        BY <3>1 DEF DecisionInv
      <3>4. req[s].interest # i
        BY <2>2, <3>1, <3>3
      <3>5. QED
        BY <1>3, <2>6, <3>1, <3>2, <3>3, <3>4
    <2>8. \A d, e \in decisions' : d.interest = e.interest => d = e
      BY <2>3, <2>4 DEF DecisionInv, OneDecisionPerInterest
    <2>9. \A j \in InterestIds : interests'[j].state = "RESOLVED" <=> \E d \in decisions' : d.interest = j
      BY <2>4, <2>6 DEF DecisionInv, OneDecisionPerInterest
    <2>10. OneDecisionPerInterest'
      BY <2>8, <2>9 DEF OneDecisionPerInterest
    <2>11. QED
      BY <2>7, <2>10 DEF DecisionInv
  <1>6. QED
    BY <1>4, <1>5

\* A request that only moves on keeps its decision and the lock of its interest.
LEMMA DecisionMoves ==
  ASSUME IInv, DecisionInv, NEW r \in Requests, NEW pc \in Phase, GoTo(r, pc), Deciding(r)' => Deciding(r),
         UNCHANGED <<interests, decisions, interestLock>>
  PROVE  DecisionInv'
  <1>1. req[r] \in Request /\ req' = [req EXCEPT ![r].pc = pc]
    BY DEF IInv, TypeOK, GoTo
  <1>2. req'[r].interest = req[r].interest /\ \A s \in Requests \ {r} : req'[s] = req[s]
    BY <1>1 DEF IInv, TypeOK, Request
  <1>3. Deciding(r)' => interestLock'[req'[r].interest] = r /\ interests'[req'[r].interest].state = "OPEN"
    BY <1>2 DEF DecisionInv
  <1>4. \A i \in InterestIds : IF interests[i].state = "NONE" THEN interests'[i].state # "RESOLVED"
                                                              ELSE interests'[i] = interests[i]
    OBVIOUS
  <1>5. QED
    BY <1>2, <1>3, <1>4, DecisionKept

\* A request starts without a lock, and a booking without an interest.
LEMMA StartFacts ==
  ASSUME IInv, NEW r \in Requests, Start(r)
  PROVE  \E q \in Request : /\ req' = [req EXCEPT ![r] = q]
                            /\ q.pc \in {"swipe", "verify", "decide", "block", "unmatch"}
                            /\ q.pc = "verify" => q.interest = None
  <1>1. ASSUME NEW pair \in Pairs, SwipeCheck(r, pair)
        PROVE  \E q \in Request : req' = [req EXCEPT ![r] = q] /\ q.pc = "swipe"
    <2> DEFINE q == [Idle EXCEPT !.pc = "swipe", !.pair = pair]
    <2>1. q \in Request /\ q.pc = "swipe"
      BY DEF Idle, Request, Phase
    <2> HIDE DEF q
    <2>2. QED
      BY <1>1, <2>1 DEF SwipeCheck, Begin, q
  <1>2. ASSUME NEW pair \in Pairs, BookBegin(r, pair)
        PROVE  \E q \in Request : req' = [req EXCEPT ![r] = q] /\ q.pc = "verify" /\ q.interest = None
    <2> DEFINE q == [Idle EXCEPT !.pc = "verify", !.pair = pair]
    <2>1. q \in Request /\ q.pc = "verify" /\ q.interest = None
      BY DEF Idle, Request, Phase
    <2> HIDE DEF q
    <2>2. QED
      BY <1>2, <2>1 DEF BookBegin, Begin, q
  <1>3. ASSUME NEW i \in InterestIds, NEW verdict \in {"ACCEPT", "REJECT"}, DecideBegin(r, i, verdict)
        PROVE  \E q \in Request : req' = [req EXCEPT ![r] = q] /\ q.pc = "decide"
    <2> DEFINE q == [Idle EXCEPT !.pc = "decide", !.interest = i, !.verdict = verdict,
                                 !.pair = interests[i].pair]
    <2>1. interests[i].pair \in Pairs
      BY <1>3 DEF IInv, WellFormed, DecideBegin
    <2>2. q \in Request /\ q.pc = "decide"
      BY <2>1 DEF Idle, Request, Phase
    <2> HIDE DEF q
    <2>3. QED
      BY <1>3, <2>2 DEF DecideBegin, Begin, q
  <1>4. ASSUME NEW u \in Users, NEW v \in Users, BlockScan(r, u, v)
        PROVE  \E q \in Request : req' = [req EXCEPT ![r] = q] /\ q.pc = "block"
    <2> DEFINE q == [Idle EXCEPT !.pc = "block", !.block = <<u, v>>, !.ids = ActiveBetween(u, v)]
    <2>1. q \in Request /\ q.pc = "block"
      BY DEF Idle, Request, Phase, ActiveBetween
    <2> HIDE DEF q
    <2>2. QED
      BY <1>4, <2>1 DEF BlockScan, Begin, q
  <1>5. ASSUME NEW m \in MatchIds, UnmatchRead(r, m)
        PROVE  \E q \in Request : req' = [req EXCEPT ![r] = q] /\ q.pc = "unmatch"
    <2> DEFINE q == [Idle EXCEPT !.pc = "unmatch", !.ids = {m}]
    <2>1. q \in Request /\ q.pc = "unmatch"
      BY DEF Idle, Request, Phase
    <2> HIDE DEF q
    <2>2. QED
      BY <1>5, <2>1 DEF UnmatchRead, Begin, q
  <1>6. QED
    BY <1>1, <1>2, <1>3, <1>4, <1>5 DEF Start

\* Every step keeps the decisions, the interests they resolve and the locks of
\* those that are being taken.
LEMMA DecisionNext == IInv /\ DecisionInv /\ [Next]_vars => DecisionInv'
  <1> SUFFICES ASSUME IInv, DecisionInv, [Next]_vars PROVE DecisionInv'
    OBVIOUS
  <1> DEFINE Same == \A i \in InterestIds :
                       IF interests[i].state = "NONE" THEN interests'[i].state # "RESOLVED"
                                                      ELSE interests'[i] = interests[i]
  <1>1. interests' = interests => Same
    OBVIOUS
  <1>2. ASSUME NEW r \in Requests, NEW q \in Request, req' = [req EXCEPT ![r] = q],
               q.pc \notin {"lockPair", "create", "commit"}, q.pc = "verify" => q.interest = None,
               decisions' = decisions, Same,
               \A i \in InterestIds, s \in Requests \ {r} : interestLock[i] = s => interestLock'[i] = s
        PROVE  DecisionInv'
    <2>1. req'[r] = q /\ \A s \in Requests \ {r} : req'[s] = req[s]
      BY <1>2 DEF IInv, TypeOK
    <2>2. ~ Deciding(r)'
      BY <1>2, <2>1 DEF Deciding
    <2>3. QED
      BY <1>2, <2>1, <2>2, DecisionKept
  <1>3. Idle \in Request /\ Idle.pc = "idle"
    BY NullTypes DEF Idle
  <1>4. ASSUME NEW r \in Requests, Start(r)
        PROVE  DecisionInv'
    <2>1. UNCHANGED <<decisions, interests, interestLock>>
      BY <1>4 DEF Start, SwipeCheck, BookBegin, DecideBegin, BlockScan, UnmatchRead
    <2>2. PICK q \in Request : /\ req' = [req EXCEPT ![r] = q]
                               /\ q.pc \notin {"lockPair", "create", "commit"}
                               /\ q.pc = "verify" => q.interest = None
      BY <1>4, StartFacts
    <2>3. QED
      BY <1>1, <1>2, <2>1, <2>2
  <1>5. ASSUME NEW r \in Requests, DecideOpen(r)
        PROVE  DecisionInv'
    <2>1. PICK pc \in {"verify", "commit"} : req' = [req EXCEPT ![r].pc = pc, ![r].covers = InsertedInterests]
      BY <1>5 DEF DecideOpen
    <2>2. req[r] \in Request /\ req[r].interest \in InterestIds
      BY <1>5 DEF IInv, TypeOK, Request, WellFormed, DecideOpen
    <2>3. req'[r].interest = req[r].interest /\ \A s \in Requests \ {r} : req'[s] = req[s]
      BY <2>1, <2>2 DEF IInv, TypeOK, Request
    <2>4. PICK i \in InterestIds : i = req[r].interest
      BY <2>2
    <2>5. /\ interestLock[i] = None /\ interests[i].state = "OPEN"
          /\ interestLock' = [interestLock EXCEPT ![i] = r] /\ interests' = interests /\ decisions' = decisions
      BY <1>5, <2>4 DEF DecideOpen
    <2>6. /\ interestLock'[i] = r
          /\ \A j \in InterestIds, s \in Requests \ {r} : interestLock[j] = s => interestLock'[j] = s
      BY <2>5, NoneAssumption DEF IInv, TypeOK
    <2>7. QED
      BY <1>1, <2>3, <2>4, <2>5, <2>6, DecisionKept
  <1>6. ASSUME NEW r \in Requests, Verify(r)
        PROVE  DecisionInv'
    BY <1>6, DecisionMoves DEF Verify, Phase, Deciding, GoTo, IInv, TypeOK, Request
  <1>7. ASSUME NEW r \in Requests, LockPairExisting(r) \/ LockPairFree(r)
        PROVE  DecisionInv'
    <2>1. PICK pc \in {"create", "commit"} : GoTo(r, pc)
      BY <1>7 DEF LockPairExisting, LockPairFree
    <2>2. req'[r].interest = req[r].interest /\ req[r].pc = "lockPair"
      BY <1>7, <2>1 DEF GoTo, IInv, TypeOK, Request, LockPairExisting, LockPairFree
    <2>3. Deciding(r)' => Deciding(r)
      BY <2>2 DEF Deciding
    <2>4. UNCHANGED <<interests, decisions, interestLock>>
      BY <1>7 DEF LockPairExisting, LockPairFree
    <2>5. QED
      BY <2>1, <2>3, <2>4, DecisionMoves DEF Phase
  <1>8. ASSUME NEW r \in Requests, Commit(r) \/ CreateMatch(r)
        PROVE  DecisionInv'
    BY <1>8, DecisionCommits DEF Commit, CreateMatch
  <1>9. ASSUME NEW r \in Requests, Finish(r), decisions' = decisions, Same,
               interestLock' = interestLock \/ ReleaseLocks(r)
        PROVE  DecisionInv'
    <2>1. \A i \in InterestIds, s \in Requests \ {r} : interestLock[i] = s => interestLock'[i] = s
      BY <1>9 DEF ReleaseLocks
    <2>2. QED
      BY <1>2, <1>3, <1>9, <2>1 DEF Finish
  <1>10. ASSUME NEW r \in Requests, SwipeInsert(r)
         PROVE  DecisionInv'
    <2>1. PICK i \in InterestIds :
            /\ interests[i].state = "NONE"
            /\ interests' = [interests EXCEPT ![i] = [state |-> "OPEN", pair |-> req[r].pair]]
      BY <1>10 DEF SwipeInsert
    <2>2. Same
      BY <2>1 DEF IInv, TypeOK
    <2>3. QED
      BY <1>9, <1>10, <2>2 DEF SwipeInsert
  <1>11. ASSUME NEW r \in Requests, DecideKnown(r) \/ Refuse(r) \/ BlockCommit(r) \/ UnmatchCommit(r) \/ Abort(r)
         PROVE  DecisionInv'
    <2>1. Finish(r) /\ UNCHANGED <<decisions, interests>> /\ (interestLock' = interestLock \/ ReleaseLocks(r))
      BY <1>11 DEF DecideKnown, Refuse, BlockCommit, UnmatchCommit, Abort
    <2>2. QED
      BY <1>1, <1>9, <2>1
  <1>12. ASSUME UNCHANGED <<req, interests, decisions, interestLock>>
         PROVE  DecisionInv'
    BY <1>12 DEF DecisionInv, Deciding, OneDecisionPerInterest
  <1>13. ASSUME NEW u \in Users, NEW v \in Users, Unblock(u, v)
         PROVE  DecisionInv'
    BY <1>12, <1>13 DEF Unblock
  <1>14. CASE Tick \/ UNCHANGED vars
    BY <1>12, <1>14 DEF Tick, vars
  <1>15. QED
    BY <1>4, <1>5, <1>6, <1>7, <1>8, <1>10, <1>11, <1>13, <1>14 DEF Next, Proceed

\* A pair has a match after the step.
GetsMatch(pair) == \E m \in MatchIds : matches'[m].pair = pair

\* No row that belongs to a pair is given to another, and a free row to none.
RowsKeepPairs ==
  \A m \in MatchIds :
    /\ matches[m].pair \in Pairs => matches'[m].pair = matches[m].pair
    /\ matches'[m].status = "NONE" => matches'[m].pair = NoPair

\* Ending matches, or creating one, keeps the pairs of the rows.
LEMMA PairsStay ==
  ASSUME IInv, AcceptInv,
         \/ matches' = matches
         \/ \E ids, status, conversation : status # "NONE" /\ EndMatches(ids, status, conversation)
         \/ \E m \in MatchIds, pair \in Pairs :
              matches[m].status = "NONE" /\ matches' = [matches EXCEPT ![m] = NewMatch(pair)]
  PROVE  RowsKeepPairs
  <1>1. CASE matches' = matches
    BY <1>1 DEF RowsKeepPairs, AcceptInv
  <1>2. ASSUME NEW ids, NEW status, NEW conversation, status # "NONE", EndMatches(ids, status, conversation)
        PROVE  RowsKeepPairs
    <2>1. SUFFICES ASSUME NEW m \in MatchIds
                   PROVE  /\ matches'[m].pair = matches[m].pair
                          /\ matches'[m].status \in {matches[m].status, status}
                          /\ m \notin ids => matches'[m] = matches[m]
                          /\ m \in ids => matches'[m].status # "NONE"
      BY DEF RowsKeepPairs, AcceptInv
    <2>2. matches[m] \in Match
      BY DEF IInv, TypeOK
    <2>3. CASE m \notin ids
      BY <1>2, <2>3 DEF EndMatches
    <2>4. CASE m \in ids
      <3> DEFINE x == [matches[m] EXCEPT !.status = status, !.key = NoPair, !.endedAt = clock,
                                         !.conversation = conversation]
      <3>1. x.pair = matches[m].pair /\ x.status = status
        BY <2>2 DEF Match
      <3>2. matches'[m] = x
        BY <1>2, <2>4 DEF EndMatches
      <3> HIDE DEF x
      <3>3. QED
        BY <1>2, <2>4, <3>1, <3>2
    <2>5. QED
      BY <2>3, <2>4
  <1>3. ASSUME NEW m \in MatchIds, NEW pair \in Pairs, matches[m].status = "NONE",
               matches' = [matches EXCEPT ![m] = NewMatch(pair)]
        PROVE  RowsKeepPairs
    <2>1. matches[m].pair \notin Pairs
      BY <1>3, PairsNotEmpty DEF AcceptInv
    <2>2. NewMatch(pair).status # "NONE"
      BY DEF NewMatch
    <2>3. \A n \in MatchIds : matches'[n] = IF n = m THEN NewMatch(pair) ELSE matches[n]
      BY <1>3 DEF IInv, TypeOK
    <2>4. QED
      BY <2>1, <2>2, <2>3 DEF RowsKeepPairs, AcceptInv
  <1>4. QED
    BY <1>1, <1>2, <1>3

\* An ACCEPT keeps its match, and a request that is about to accept has one.
LEMMA AcceptKept ==
  ASSUME IInv, AcceptInv, NEW r \in Requests, RowsKeepPairs,
         \A s \in Requests \ {r} : req'[s] = req[s],
         \A d \in decisions' : d \in decisions \/ (d.verdict = "ACCEPT" => GetsMatch(d.pair)),
         req'[r].pc = "commit" /\ req'[r].verdict = "ACCEPT" => GetsMatch(req'[r].pair)
  PROVE  AcceptInv'
  <1>1. ASSUME NEW pair \in Pairs, HasMatch(pair)
        PROVE  GetsMatch(pair)
    BY <1>1 DEF HasMatch, GetsMatch, RowsKeepPairs
  <1>2. ASSUME NEW d \in decisions', d.verdict = "ACCEPT"
        PROVE  \E m \in MatchIds : matches'[m].pair = d.pair
    <2>1. CASE d \in decisions
      <3>1. d.pair \in Pairs
        BY <2>1 DEF IInv, TypeOK, Decision
      <3>2. HasMatch(d.pair)
        BY <1>2, <2>1 DEF AcceptInv, AcceptHasMatch, HasMatch
      <3>3. QED
        BY <1>1, <3>1, <3>2 DEF GetsMatch
    <2>2. CASE d \notin decisions
      BY <1>2, <2>2 DEF GetsMatch
    <2>3. QED
      BY <2>1, <2>2
  <1>3. ASSUME NEW s \in Requests, req'[s].pc = "commit", req'[s].verdict = "ACCEPT"
        PROVE  GetsMatch(req'[s].pair)
    <2>1. CASE s = r
      BY <1>3, <2>1
    <2>2. CASE s # r
      <3>1. req'[s] = req[s]
        BY <2>2
      <3>2. req[s].pair \in Pairs /\ HasMatch(req[s].pair)
        BY <1>3, <3>1 DEF IInv, WellFormed, PairPhase, AcceptInv
      <3>3. QED
        BY <1>1, <3>1, <3>2
    <2>3. QED
      BY <2>1, <2>2
  <1>4. \A m \in MatchIds : matches'[m].status = "NONE" => matches'[m].pair = NoPair
    BY DEF RowsKeepPairs
  <1>5. QED
    BY <1>2, <1>3, <1>4 DEF AcceptInv, AcceptHasMatch, HasMatch, GetsMatch

\* The decision a caller commits has a match where it accepts.
LEMMA AcceptCommits ==
  ASSUME IInv, AcceptInv, NEW r \in Requests, RowsKeepPairs, CommitCaller(r), Finish(r),
         req[r].verdict = "ACCEPT" => GetsMatch(req[r].pair)
  PROVE  AcceptInv'
  <1>1. req'[r] = Idle /\ \A s \in Requests \ {r} : req'[s] = req[s]
    BY DEF IInv, TypeOK, Finish
  <1>2. ASSUME NEW d \in decisions'
        PROVE  d \in decisions \/ (d.verdict = "ACCEPT" => GetsMatch(d.pair))
    <2> DEFINE n == [interest |-> req[r].interest, pair |-> req[r].pair,
                     verdict |-> req[r].verdict, covers |-> req[r].covers]
    <2>1. d \in decisions \/ d = n
      BY DEF CommitCaller
    <2>2. n.pair = req[r].pair /\ n.verdict = req[r].verdict
      OBVIOUS
    <2>3. d = n /\ d.verdict = "ACCEPT" => \E m \in MatchIds : matches'[m].pair = d.pair
      BY <2>2 DEF GetsMatch
    <2>4. QED
      BY <2>1, <2>3 DEF GetsMatch
  <1>3. req'[r].pc # "commit"
    BY <1>1 DEF Idle
  <1>4. QED
    BY <1>1, <1>2, <1>3, AcceptKept

\* Every step keeps the matches of those who accepted.
LEMMA AcceptNext == IInv /\ AcceptInv /\ [Next]_vars => AcceptInv'
  <1> SUFFICES ASSUME IInv, AcceptInv, [Next]_vars PROVE AcceptInv'
    OBVIOUS
  <1>1. matches' = matches => RowsKeepPairs
    BY PairsStay
  <1>2. ASSUME NEW r \in Requests, RowsKeepPairs, decisions' = decisions,
               \A s \in Requests \ {r} : req'[s] = req[s], req'[r].pc # "commit"
        PROVE  AcceptInv'
    BY <1>2, AcceptKept
  <1>3. ASSUME NEW r \in Requests, RowsKeepPairs, decisions' = decisions, Finish(r)
        PROVE  AcceptInv'
    <2>1. req'[r].pc # "commit" /\ \A s \in Requests \ {r} : req'[s] = req[s]
      BY <1>3 DEF IInv, TypeOK, Finish, Idle
    <2>2. QED
      BY <1>2, <1>3, <2>1
  <1>4. ASSUME NEW r \in Requests, Start(r)
        PROVE  AcceptInv'
    <2>1. UNCHANGED <<decisions, matches>>
      BY <1>4 DEF Start, SwipeCheck, BookBegin, DecideBegin, BlockScan, UnmatchRead
    <2>2. PICK q \in Request : req' = [req EXCEPT ![r] = q] /\ q.pc # "commit"
      BY <1>4, StartFacts
    <2>3. req'[r].pc # "commit" /\ \A s \in Requests \ {r} : req'[s] = req[s]
      BY <2>2 DEF IInv, TypeOK
    <2>4. QED
      BY <1>1, <1>2, <2>1, <2>3
  <1>5. ASSUME NEW r \in Requests, DecideOpen(r)
        PROVE  AcceptInv'
    <2>1. PICK pc \in {"verify", "commit"} : /\ req' = [req EXCEPT ![r].pc = pc, ![r].covers = InsertedInterests]
                                             /\ pc = "commit" => req[r].verdict # "ACCEPT"
      BY <1>5 DEF DecideOpen
    <2>2. /\ req'[r].pc = pc /\ req'[r].verdict = req[r].verdict
          /\ \A s \in Requests \ {r} : req'[s] = req[s]
      BY <2>1 DEF IInv, TypeOK, Request
    <2>3. UNCHANGED <<matches, decisions>>
      BY <1>5 DEF DecideOpen
    <2>4. QED
      BY <1>1, <2>1, <2>2, <2>3, AcceptKept
  <1>6. ASSUME NEW r \in Requests, NEW pc \in {"lockPair", "create"}, GoTo(r, pc), UNCHANGED <<matches, decisions>>
        PROVE  AcceptInv'
    <2>1. req'[r].pc # "commit" /\ \A s \in Requests \ {r} : req'[s] = req[s]
      BY <1>6 DEF IInv, TypeOK, Request, GoTo
    <2>2. QED
      BY <1>1, <1>2, <1>6, <2>1
  <1>7. ASSUME NEW r \in Requests, LockPairExisting(r)
        PROVE  AcceptInv'
    <2>1. /\ req'[r].pair = req[r].pair /\ \A s \in Requests \ {r} : req'[s] = req[s]
          /\ UNCHANGED <<matches, decisions>> /\ req[r].pair \in Pairs
      BY <1>7 DEF IInv, TypeOK, Request, GoTo, LockPairExisting, WellFormed, PairPhase
    <2>2. PICK m \in MatchIds : matches[m].key = req[r].pair
      BY <1>7 DEF LockPairExisting, KeyHolders
    <2>3. matches[m].pair = req[r].pair
      BY <2>1, <2>2, PairsNotEmpty DEF IInv, MatchColumnsAgree
    <2>4. GetsMatch(req[r].pair)
      BY <2>1, <2>3 DEF GetsMatch
    <2>5. QED
      BY <1>1, <2>1, <2>4, AcceptKept
  <1>8. ASSUME NEW r \in Requests, Commit(r)
        PROVE  AcceptInv'
    <2>1. req[r].verdict = "ACCEPT" => GetsMatch(req[r].pair)
      BY <1>8 DEF AcceptInv, Commit, HasMatch, GetsMatch
    <2>2. QED
      BY <1>1, <1>8, <2>1, AcceptCommits DEF Commit
  <1>9. ASSUME NEW r \in Requests, CreateMatch(r)
        PROVE  AcceptInv'
    <2>1. PICK pair \in Pairs : pair = req[r].pair
      BY <1>9 DEF IInv, WellFormed, PairPhase, CreateMatch
    <2>2. PICK m \in MatchIds : matches[m].status = "NONE" /\ matches' = [matches EXCEPT ![m] = NewMatch(pair)]
      BY <1>9, <2>1 DEF CreateMatch
    <2>3. RowsKeepPairs
      BY <2>2, PairsStay
    <2>4. matches'[m].pair = pair
      BY <2>2 DEF IInv, TypeOK, NewMatch
    <2>5. GetsMatch(req[r].pair)
      BY <2>1, <2>4 DEF GetsMatch
    <2>6. QED
      BY <1>9, <2>3, <2>5, AcceptCommits DEF CreateMatch
  <1>10. ASSUME NEW r \in Requests, BlockCommit(r) \/ UnmatchCommit(r)
         PROVE  AcceptInv'
    <2>1. Finish(r) /\ decisions' = decisions
      BY <1>10 DEF BlockCommit, UnmatchCommit
    <2>2. \E status, conversation : status # "NONE" /\ EndMatches(req[r].ids, status, conversation)
      <3>1. CASE BlockCommit(r)
        BY <3>1 DEF BlockCommit
      <3>2. CASE UnmatchCommit(r)
        BY <3>2 DEF UnmatchCommit
      <3>3. QED
        BY <1>10, <3>1, <3>2
    <2>3. RowsKeepPairs
      BY <2>2, PairsStay
    <2>4. QED
      BY <1>3, <2>1, <2>3
  <1>11. ASSUME NEW r \in Requests, SwipeInsert(r) \/ DecideKnown(r) \/ Refuse(r) \/ Abort(r)
         PROVE  AcceptInv'
    <2>1. Finish(r) /\ UNCHANGED <<decisions, matches>>
      BY <1>11 DEF SwipeInsert, DecideKnown, Refuse, Abort
    <2>2. QED
      BY <1>1, <1>3, <2>1
  <1>12. ASSUME NEW r \in Requests, Verify(r) \/ LockPairFree(r)
         PROVE  AcceptInv'
    BY <1>6, <1>12 DEF Verify, LockPairFree
  <1>13. ASSUME UNCHANGED <<req, matches, decisions>>
         PROVE  AcceptInv'
    BY <1>13 DEF AcceptInv, AcceptHasMatch, HasMatch
  <1>14. ASSUME NEW u \in Users, NEW v \in Users, Unblock(u, v)
         PROVE  AcceptInv'
    BY <1>13, <1>14 DEF Unblock
  <1>15. CASE Tick \/ UNCHANGED vars
    BY <1>13, <1>15 DEF Tick, vars
  <1>16. QED
    BY <1>4, <1>5, <1>7, <1>8, <1>9, <1>10, <1>11, <1>12, <1>14, <1>15 DEF Next, Proceed

\* The decision of a photographer resolves its interest once, also when accept
\* and reject race, and a transaction that rolls back resolves nothing.
THEOREM DecidedOnce == Spec => []OneDecisionPerInterest
  <1>1. Init => DecisionInv
    BY DEF Init, DecisionInv, OneDecisionPerInterest, Deciding, Idle, NoInterest
  <1>2. DecisionInv => OneDecisionPerInterest
    BY DEF DecisionInv
  <1>3. QED
    BY <1>1, <1>2, DecisionNext, Invariance, PTL DEF Spec

\* No ACCEPT is committed without a match of its pair, whatever blocks and
\* cooldowns its transaction meets on the way.
THEOREM AcceptAlwaysMatched == Spec => []AcceptHasMatch
  <1>1. Init => AcceptInv
    BY DEF Init, AcceptInv, AcceptHasMatch, Idle, NoMatch
  <1>2. AcceptInv => AcceptHasMatch
    BY DEF AcceptInv
  <1>3. QED
    BY <1>1, <1>2, AcceptNext, Invariance, PTL DEF Spec
=============================================================================
