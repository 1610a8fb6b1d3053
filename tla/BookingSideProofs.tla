------------------------- MODULE BookingSideProofs --------------------------
(***************************************************************************)
(* Machine-checked proofs about the conversations, the events and the      *)
(* presence that BookingSide composes, for every number of conversations,  *)
(* messages, users, sockets, roles and requests.                           *)
(***************************************************************************)
EXTENDS BookingSide, TLAPS

-----------------------------------------------------------------------------
(* Presence: v1 is location, v2 newest, v3 presence, v4 eligible,          *)
(* v5 request, v6 crossed and v7 trouble.                                  *)

\* What no request and no role has.
LEMMA PresenceDefaults ==
  /\ Presence!Hidden \in Presence!Presence /\ ~ Presence!Hidden.visible
  /\ Presence!Idle \in Presence!Request /\ Presence!Idle.pc = "idle"
  /\ 0 \in 0..MaxLocations
  BY LimitAssumption DEF Presence!Presence, Presence!Hidden, Presence!Request, Presence!Idle

\* Nobody is listed at first.
LEMMA PresenceInit == Presence!Init => Presence!IInv
  <1> SUFFICES ASSUME Presence!Init PROVE Presence!IInv
    OBVIOUS
  <1>1. Presence!TypeOK
    BY PresenceDefaults DEF Presence!Init, Presence!TypeOK
  <1>2. /\ \A q \in Requests : v5[q].pc = "idle"
        /\ \A r \in Roles : ~ Presence!Listed(r)
    BY PresenceDefaults DEF Presence!Init, Presence!Listed, Presence!Shown
  <1>3. Presence!OneAtATime
    BY <1>2 DEF Presence!OneAtATime
  <1>4. QED
    BY <1>1, <1>2, <1>3 DEF Presence!IInv, Presence!ElsewhereIsToDo, Presence!ListedHasLocation

\* A step that lists no role anew, at no other place, and no request takes.
LEMMA HidingStep ==
  ASSUME Presence!IInv, v3' \in [Roles -> Presence!Presence], v4' \in BOOLEAN,
         \A r \in Roles : Presence!Listed(r)' => Presence!Listed(r) /\ v3'[r].point = v3[r].point,
         UNCHANGED <<v1, v2, v5, v6, v7>>
  PROVE  Presence!IInv'
  <1>1. Presence!TypeOK'
    BY DEF Presence!IInv, Presence!TypeOK
  <1>2. Presence!OneAtATime'
    BY DEF Presence!IInv, Presence!OneAtATime
  <1>3. Presence!ElsewhereIsToDo' /\ Presence!ListedHasLocation'
    BY DEF Presence!IInv, Presence!ElsewhereIsToDo, Presence!ListedHasLocation
  <1>4. QED
    BY <1>1, <1>2, <1>3 DEF Presence!IInv

\* Disabling, expiring and the passing of time hide roles.
LEMMA PresenceHides ==
  ASSUME Presence!IInv,
         \/ \E r \in Roles : Presence!Disable(r) \/ Presence!Pass(r)
         \/ Presence!ExpirePresence \/ Presence!SetEligible
  PROVE  Presence!IInv'
  <1> USE DEF Presence!IInv, Presence!TypeOK, Presence!Presence, Presence!Listed, Presence!Shown
  <1>1. ASSUME NEW r \in Roles, Presence!Disable(r) PROVE Presence!IInv'
    <2>1. v3' \in [Roles -> Presence!Presence] /\ v4' \in BOOLEAN /\ UNCHANGED <<v1, v2, v5, v6, v7>>
      BY <1>1 DEF Presence!Disable
    <2>2. \A o \in Roles : Presence!Listed(o)' => Presence!Listed(o) /\ v3'[o].point = v3[o].point
      BY <1>1 DEF Presence!Disable
    <2>3. QED
      BY <2>1, <2>2, HidingStep
  <1>2. ASSUME NEW r \in Roles, Presence!Pass(r) PROVE Presence!IInv'
    <2>1. v3' \in [Roles -> Presence!Presence] /\ v4' \in BOOLEAN /\ UNCHANGED <<v1, v2, v5, v6, v7>>
      BY <1>2 DEF Presence!Pass
    <2>2. \A o \in Roles : Presence!Listed(o)' => Presence!Listed(o) /\ v3'[o].point = v3[o].point
      BY <1>2 DEF Presence!Pass
    <2>3. QED
      BY <2>1, <2>2, HidingStep
  <1>3. ASSUME Presence!ExpirePresence PROVE Presence!IInv'
    <2>1. v3' \in [Roles -> Presence!Presence] /\ v4' \in BOOLEAN /\ UNCHANGED <<v1, v2, v5, v6, v7>>
      BY <1>3 DEF Presence!ExpirePresence
    <2>2. \A o \in Roles : Presence!Listed(o)' => Presence!Listed(o) /\ v3'[o].point = v3[o].point
      BY <1>3 DEF Presence!ExpirePresence
    <2>3. QED
      BY <2>1, <2>2, HidingStep
  <1>4. ASSUME Presence!SetEligible PROVE Presence!IInv'
    BY <1>4, HidingStep DEF Presence!SetEligible
  <1>5. QED
    BY <1>1, <1>2, <1>3, <1>4

\* A deletion leaves no role listed.
LEMMA PresenceDelete ==
  ASSUME Presence!IInv, Presence!Delete
  PROVE  Presence!IInv'
  <1>1. \A r \in Roles : ~ Presence!Listed(r)'
    BY DEF Presence!IInv, Presence!TypeOK, Presence!Presence, Presence!Delete,
           Presence!Listed, Presence!Shown
  <1>2. Presence!TypeOK'
    BY PresenceDefaults DEF Presence!IInv, Presence!TypeOK, Presence!Presence, Presence!Delete
  <1>3. Presence!OneAtATime'
    BY DEF Presence!IInv, Presence!TypeOK, Presence!Request, Presence!OneAtATime,
           Presence!Delete, Presence!Quiet
  <1>4. QED
    BY <1>1, <1>2, <1>3
    DEF Presence!IInv, Presence!ElsewhereIsToDo, Presence!ListedHasLocation

\* A request begins: it is the only one, or there is trouble.
LEMMA PresenceBegins ==
  ASSUME Presence!IInv, NEW q \in Requests, NEW x \in Presence!Request, Presence!Begin(q, x),
         x.pc \in {"put", "ask"}, x.pc = "put" => x.putting,
         UNCHANGED <<v1, v2, v3, v4, v6>>
  PROVE  Presence!IInv'
  <1>1. /\ \A p \in Requests : v5'[p] = IF p = q THEN x ELSE v5[p]
        /\ v5' \in [Requests -> Presence!Request] /\ v7' \in BOOLEAN
        /\ v7' = (v7 \/ ~ Presence!Quiet)
    BY DEF Presence!IInv, Presence!TypeOK, Presence!Begin
  <1>2. Presence!TypeOK' /\ Presence!ListedHasLocation'
    BY <1>1 DEF Presence!IInv, Presence!TypeOK, Presence!ListedHasLocation, Presence!Listed, Presence!Shown
  <1>3. Presence!OneAtATime'
    BY <1>1 DEF Presence!IInv, Presence!OneAtATime, Presence!Quiet
  <1>4. Presence!ElsewhereIsToDo'
    BY <1>1 DEF Presence!IInv, Presence!ElsewhereIsToDo, Presence!Quiet, Presence!Listed, Presence!Shown
  <1>5. QED
    BY <1>2, <1>3, <1>4 DEF Presence!IInv

\* A request moves on, or ends with what it had to do in doubt, and shows no role.
LEMMA PresenceMoves ==
  ASSUME Presence!IInv, NEW q \in Requests, NEW x \in Presence!Request,
         v5[q].pc # "idle", v5' = [v5 EXCEPT ![q] = x], v7' \in BOOLEAN, v7 => v7',
         x.pc \in {"put", "find"} => x.putting,
         x.pc = "write" /\ ~ v7' => x.on = v1,
         ~ v7' => \A r \in Roles : Presence!Listed(r) =>
           \/ v3[r].point = v1
           \/ x.pc = "find"
           \/ x.pc \in {"ask", "read", "write"} /\ x.putting /\ r \in x.todo,
         UNCHANGED <<v1, v2, v3, v4, v6>>
  PROVE  Presence!IInv'
  <1>1. /\ \A p \in Requests : v5'[p] = IF p = q THEN x ELSE v5[p]
        /\ v5' \in [Requests -> Presence!Request]
    BY DEF Presence!IInv, Presence!TypeOK
  <1>2. Presence!TypeOK' /\ Presence!ListedHasLocation'
    BY <1>1 DEF Presence!IInv, Presence!TypeOK, Presence!ListedHasLocation, Presence!Listed, Presence!Shown
  <1>3. Presence!OneAtATime'
    BY <1>1 DEF Presence!IInv, Presence!OneAtATime
  <1>4. Presence!ElsewhereIsToDo'
    BY <1>1 DEF Presence!IInv, Presence!ElsewhereIsToDo, Presence!Listed, Presence!Shown
  <1>5. QED
    BY <1>2, <1>3, <1>4 DEF Presence!IInv

\* Every step of a request that leaves the location and the roles alone.
LEMMA PresenceReads ==
  ASSUME Presence!IInv, NEW q \in Requests,
         \/ Presence!Put(q) \/ Presence!PutFind(q)
         \/ \E r \in Roles : Presence!Enable(q, r)
         \/ Presence!EnableAsk(q) \/ Presence!EnableRead(q) \/ Presence!Abort(q)
  PROVE  Presence!IInv'
  <1> DEFINE q0 == v5[q]
  <1>a. /\ v5 \in [Requests -> Presence!Request] /\ q0 \in Presence!Request
        /\ v7 \in BOOLEAN /\ v1 \in 0..MaxLocations
        /\ Presence!OneAtATime /\ Presence!ElsewhereIsToDo
    BY DEF Presence!IInv, Presence!TypeOK
  <1>b. ~ v7 /\ q0.pc # "idle" => \A r \in Roles : Presence!Listed(r) =>
           \/ v3[r].point = v1
           \/ q0.pc = "find"
           \/ q0.pc \in {"ask", "read", "write"} /\ q0.putting /\ r \in q0.todo
    BY <1>a DEF Presence!OneAtATime, Presence!ElsewhereIsToDo
  <1>1. ASSUME Presence!Put(q) PROVE Presence!IInv'
    <2> DEFINE x == [Presence!Idle EXCEPT !.pc = "put", !.on = v1, !.putting = TRUE]
    <2>1. x \in Presence!Request /\ x.pc = "put" /\ x.putting
      BY <1>a DEF Presence!Idle, Presence!Request
    <2>2. Presence!Begin(q, x) /\ UNCHANGED <<v1, v2, v3, v4, v6>>
      BY <1>1 DEF Presence!Put
    <2> HIDE DEF x
    <2>3. QED
      BY <2>1, <2>2, PresenceBegins
  <1>2. ASSUME NEW r \in Roles, Presence!Enable(q, r) PROVE Presence!IInv'
    <2> DEFINE x == [Presence!Idle EXCEPT !.pc = "ask", !.todo = {r}]
    <2>1. x \in Presence!Request /\ x.pc = "ask"
      BY PresenceDefaults DEF Presence!Idle, Presence!Request
    <2>2. Presence!Begin(q, x) /\ UNCHANGED <<v1, v2, v3, v4, v6>>
      BY <1>2 DEF Presence!Enable
    <2> HIDE DEF x
    <2>3. QED
      BY <2>1, <2>2, PresenceBegins
  <1>3. ASSUME Presence!PutFind(q) PROVE Presence!IInv'
    <2> DEFINE roles == {r \in Roles : Presence!Shown(r)}
               x == IF roles = {} THEN Presence!Idle ELSE [q0 EXCEPT !.pc = "ask", !.todo = roles]
    <2>1. x \in Presence!Request /\ x.pc \in {"idle", "ask"}
      BY <1>a, PresenceDefaults DEF Presence!Request
    <2>2. \A r \in Roles : Presence!Listed(r) => x.pc = "ask" /\ x.putting /\ r \in x.todo
      BY <1>a, <1>3 DEF Presence!PutFind, Presence!Request, Presence!Listed, Presence!OneAtATime
    <2>3. v5[q].pc # "idle" /\ v5' = [v5 EXCEPT ![q] = x] /\ UNCHANGED <<v1, v2, v3, v4, v6, v7>>
      BY <1>3 DEF Presence!PutFind, Presence!Go
    <2> HIDE DEF x
    <2>4. QED
      BY <1>a, <2>1, <2>2, <2>3, PresenceMoves
  <1>4. ASSUME Presence!Fails(q), q0.pc # "idle", UNCHANGED <<v1, v2, v3, v4, v6>>
        PROVE  Presence!IInv'
    <2>1. v5' = [v5 EXCEPT ![q] = Presence!Idle] /\ v7' = (v7 \/ q0.putting)
      BY <1>4 DEF Presence!Fails, Presence!Go
    <2>2. ~ v7' => \A r \in Roles : Presence!Listed(r) => v3[r].point = v1
      BY <1>a, <1>b, <1>4, <2>1 DEF Presence!OneAtATime
    <2>3. v7' \in BOOLEAN /\ (v7 => v7')
      BY <1>a, <2>1 DEF Presence!Request
    <2>4. QED
      BY <1>4, <2>1, <2>2, <2>3, PresenceDefaults, PresenceMoves
  <1>5. ASSUME Presence!EnableAsk(q) PROVE Presence!IInv'
    <2> DEFINE x == [q0 EXCEPT !.pc = "read"]
    <2>1. CASE Presence!Fails(q)
      BY <1>5, <1>4, <2>1 DEF Presence!EnableAsk
    <2>2. CASE Presence!Go(q, x) /\ UNCHANGED v7
      <3>1. x \in Presence!Request /\ x.pc = "read" /\ x.putting = q0.putting /\ x.todo = q0.todo
        BY <1>a DEF Presence!Request
      <3>2. q0.pc = "ask" /\ v5' = [v5 EXCEPT ![q] = x] /\ UNCHANGED <<v1, v2, v3, v4, v6, v7>>
        BY <1>5, <2>2 DEF Presence!EnableAsk, Presence!Go
      <3> HIDE DEF x
      <3>3. QED
        BY <1>a, <1>b, <3>1, <3>2, PresenceMoves
    <2>3. QED
      BY <1>5, <2>1, <2>2 DEF Presence!EnableAsk
  <1>6. ASSUME Presence!EnableRead(q) PROVE Presence!IInv'
    <2> DEFINE x == [q0 EXCEPT !.pc = "write", !.on = v1]
    <2>1. CASE Presence!Fails(q)
      BY <1>6, <1>4, <2>1 DEF Presence!EnableRead
    <2>2. CASE Presence!Go(q, x) /\ UNCHANGED v7
      <3>1. /\ x \in Presence!Request /\ x.pc = "write" /\ x.putting = q0.putting
            /\ x.todo = q0.todo /\ x.on = v1
        BY <1>a DEF Presence!Request
      <3>2. q0.pc = "read" /\ v5' = [v5 EXCEPT ![q] = x] /\ UNCHANGED <<v1, v2, v3, v4, v6, v7>>
        BY <1>6, <2>2 DEF Presence!EnableRead, Presence!Go
      <3> HIDE DEF x
      <3>3. QED
        BY <1>a, <1>b, <3>1, <3>2, PresenceMoves
    <2>3. QED
      BY <1>6, <2>1, <2>2 DEF Presence!EnableRead
  <1>7. ASSUME Presence!Abort(q) PROVE Presence!IInv'
    BY <1>7, <1>4 DEF Presence!Abort
  <1>8. QED
    BY <1>1, <1>2, <1>3, <1>5, <1>6, <1>7

\* The location that is put is current, and the roles are still to be found.
LEMMA PresencePutCommit ==
  ASSUME Presence!IInv, NEW q \in Requests, Presence!PutCommit(q)
  PROVE  Presence!IInv'
  <1> DEFINE x == [v5[q] EXCEPT !.pc = "find"]
  <1>1. /\ v5 \in [Requests -> Presence!Request] /\ v5[q] \in Presence!Request
        /\ v2 \in 0..MaxLocations
    BY DEF Presence!IInv, Presence!TypeOK
  <1>2. /\ v5[q].pc = "put" /\ v5' = [v5 EXCEPT ![q] = x]
        /\ v2 < MaxLocations /\ v2' = v2 + 1 /\ v1' = v2'
        /\ UNCHANGED <<v3, v4, v6, v7>>
    BY DEF Presence!PutCommit, Presence!Go
  <1>3. x \in Presence!Request /\ x.pc = "find" /\ x.putting
    BY <1>1, <1>2 DEF Presence!Request, Presence!IInv, Presence!OneAtATime
  <1> HIDE DEF x
  <1>4. v1' \in 0..MaxLocations /\ v2' \in 0..MaxLocations /\ v1' # 0
    BY <1>1, <1>2, LimitAssumption
  <1>5. \A p \in Requests : v5'[p] = IF p = q THEN x ELSE v5[p]
    BY <1>1, <1>2
  <1>6. Presence!TypeOK'
    BY <1>1, <1>2, <1>3, <1>4 DEF Presence!IInv, Presence!TypeOK
  <1>7. Presence!OneAtATime'
    BY <1>2, <1>3, <1>5 DEF Presence!IInv, Presence!OneAtATime
  <1>8. Presence!ElsewhereIsToDo' /\ Presence!ListedHasLocation'
    BY <1>3, <1>4, <1>5 DEF Presence!ElsewhereIsToDo, Presence!ListedHasLocation
  <1>9. QED
    BY <1>6, <1>7, <1>8 DEF Presence!IInv

\* The role that is shown has the point of the location that was read, and one
\* role less is to do.
LEMMA PresenceWrite ==
  ASSUME Presence!IInv, NEW q \in Requests, Presence!EnableWrite(q)
  PROVE  Presence!IInv'
  <1>1. /\ v5 \in [Requests -> Presence!Request] /\ v5[q] \in Presence!Request
        /\ v3 \in [Roles -> Presence!Presence] /\ v6 \subseteq Roles
    BY DEF Presence!IInv, Presence!TypeOK
  <1>2. PICK r \in v5[q].todo :
          /\ v3' = [v3 EXCEPT ![r] = [visible |-> TRUE, due |-> FALSE, point |-> v5[q].on]]
          /\ v6' = IF v1 = 0 THEN v6 \cup {r} ELSE v6 \ {r}
          /\ v5' = [v5 EXCEPT ![q] =
               IF v5[q].todo = {r} THEN Presence!Idle
               ELSE [v5[q] EXCEPT !.pc = "ask", !.todo = @ \ {r}]]
    BY DEF Presence!EnableWrite, Presence!Go
  <1> DEFINE x == IF v5[q].todo = {r} THEN Presence!Idle
                  ELSE [v5[q] EXCEPT !.pc = "ask", !.todo = @ \ {r}]
  <1>3. v5[q].pc = "write" /\ UNCHANGED <<v1, v2, v4, v7>>
    BY DEF Presence!EnableWrite
  <1>4. /\ x \in Presence!Request /\ x.pc \in {"idle", "ask"}
        /\ x.pc = "idle" => v5[q].todo = {r}
        /\ x.pc = "ask" => x.putting = v5[q].putting /\ x.todo = v5[q].todo \ {r}
    BY <1>1, PresenceDefaults DEF Presence!Request
  <1>5. v5' = [v5 EXCEPT ![q] = x]
    BY <1>2
  <1> HIDE DEF x
  <1>6. \A p \in Requests : v5'[p] = IF p = q THEN x ELSE v5[p]
    BY <1>1, <1>5
  <1>7. r \in Roles /\ v3' \in [Roles -> Presence!Presence]
    BY <1>1, <1>2 DEF Presence!Request, Presence!Presence
  <1>8. \A o \in Roles : IF o = r THEN v3'[o].point = v5[q].on ELSE v3'[o] = v3[o]
    BY <1>1, <1>2, <1>7
  <1>9. Presence!TypeOK'
    BY <1>1, <1>2, <1>3, <1>4, <1>5, <1>7 DEF Presence!IInv, Presence!TypeOK
  <1>10. Presence!OneAtATime'
    BY <1>3, <1>4, <1>6 DEF Presence!IInv, Presence!OneAtATime
  <1>11. Presence!ListedHasLocation'
    BY <1>2, <1>3, <1>7, <1>8
    DEF Presence!IInv, Presence!ListedHasLocation, Presence!Listed, Presence!Shown
  <1>12. Presence!ElsewhereIsToDo'
    <2> SUFFICES ASSUME ~ v7', NEW o \in Roles, Presence!Listed(o)'
                 PROVE  \/ v3'[o].point = v1'
                        \/ \E p \in Requests :
                             \/ v5'[p].pc = "find"
                             \/ /\ v5'[p].pc \in {"ask", "read", "write"} /\ v5'[p].putting
                                /\ o \in v5'[p].todo
      BY DEF Presence!ElsewhereIsToDo
    <2>1. CASE o = r
      BY <1>3, <1>8, <2>1 DEF Presence!IInv, Presence!OneAtATime
    <2>2. CASE o # r
      <3>1. Presence!Listed(o)
        BY <1>8, <2>2 DEF Presence!Listed, Presence!Shown
      <3>2. v3[o].point = v1 \/ (v5[q].putting /\ o \in v5[q].todo)
        <4>1. \/ v3[o].point = v1
              \/ \E p \in Requests :
                   \/ v5[p].pc = "find"
                   \/ v5[p].pc \in {"ask", "read", "write"} /\ v5[p].putting /\ o \in v5[p].todo
          BY <1>3, <3>1 DEF Presence!IInv, Presence!ElsewhereIsToDo
        <4>2. \A p \in Requests : v5[p].pc # "idle" => p = q
          BY <1>3 DEF Presence!IInv, Presence!OneAtATime
        <4>3. QED
          BY <1>3, <4>1, <4>2
      <3>3. CASE v3[o].point = v1
        BY <1>3, <1>8, <2>2, <3>3
      <3>4. CASE v5[q].putting /\ o \in v5[q].todo
        <4>1. x.pc = "ask" /\ x.putting /\ o \in x.todo
          BY <1>4, <2>2, <3>4
        <4>2. QED
          BY <1>6, <4>1
      <3>5. QED
        BY <3>2, <3>3, <3>4
    <2>3. QED
      BY <2>1, <2>2
  <1>13. QED
    BY <1>9, <1>10, <1>11, <1>12 DEF Presence!IInv

\* Every step of the presence keeps its inductive invariant.
LEMMA PresenceStep == Presence!IInv /\ Presence!Next => Presence!IInv'
  BY PresenceHides, PresenceDelete, PresenceReads, PresencePutCommit, PresenceWrite
  DEF Presence!Next

\* The inductive invariant says where roles are listed.
LEMMA PresenceSafe == Presence!IInv => Presence!ListedHasLocation /\ Presence!ListedWhereUserIs
  BY DEF Presence!IInv, Presence!OneAtATime, Presence!ElsewhereIsToDo,
         Presence!ListedWhereUserIs, Presence!Quiet

-----------------------------------------------------------------------------
(* Realtime: v1 is session, v2 socket, v3 sent, v4 sharesReads, v5         *)
(* receipt, v6 events, v7 request and v8 heard.                            *)

\* A request that is over and a socket that is off.
LEMMA RealtimeDefaults ==
  /\ Realtime!Idle \in Realtime!Request /\ Realtime!Idle.pc = "idle"
  /\ Realtime!Off \in Realtime!Socket /\ Realtime!Off.rooms = {} /\ Realtime!Off.state = "off"
  BY DEF Realtime!Idle, Realtime!Request, Realtime!Off, Realtime!Socket

\* Nothing has been heard at first.
LEMMA RealtimeInit == Realtime!Init => Realtime!IInv
  BY RealtimeDefaults
  DEF Realtime!Init, Realtime!IInv, Realtime!TypeOK, Realtime!SocketsEntitled,
      Realtime!ReceiptsKnow, Realtime!HeardByParticipants, Realtime!ReceiptEventsHold

\* A socket changes: it is in its rooms as a participant with a live session.
LEMMA SocketStep ==
  ASSUME Realtime!IInv, NEW s \in Sockets, NEW x \in Realtime!Socket,
         v2' = [v2 EXCEPT ![s] = x],
         x.state = "in" => x.welcome,
         \A c \in x.rooms : x.user \in Participants[c] /\ x.welcome,
         UNCHANGED <<v1, v3, v4, v5, v6, v7, v8>>
  PROVE  Realtime!IInv'
  <1>1. \A t \in Sockets : v2'[t] = IF t = s THEN x ELSE v2[t]
    BY DEF Realtime!IInv, Realtime!TypeOK
  <1>2. Realtime!TypeOK'
    BY DEF Realtime!IInv, Realtime!TypeOK
  <1>3. Realtime!SocketsEntitled'
    BY <1>1 DEF Realtime!IInv, Realtime!SocketsEntitled
  <1>4. Realtime!ReceiptsKnow' /\ Realtime!HeardByParticipants' /\ Realtime!ReceiptEventsHold'
    BY DEF Realtime!IInv, Realtime!ReceiptsKnow, Realtime!HeardByParticipants,
           Realtime!ReceiptEventsHold
  <1>5. QED
    BY <1>2, <1>3, <1>4 DEF Realtime!IInv

\* Connecting, joining and leaving, and an event that reaches a room.
LEMMA RealtimeSockets ==
  ASSUME Realtime!IInv,
         \/ \E s \in Sockets :
              \/ \E u \in Users : Realtime!Connect(s, u)
              \/ Realtime!Admit(s) \/ Realtime!Disconnect(s)
              \/ \E c \in Conversations : Realtime!Join(s, c)
         \/ \E u \in Users : Realtime!SignOut(u)
         \/ \E e \in v6 : Realtime!Publish(e)
  PROVE  Realtime!IInv'
  <1>a. /\ v2 \in [Sockets -> Realtime!Socket] /\ v6 \subseteq Realtime!Event
        /\ Realtime!SocketsEntitled /\ Realtime!HeardByParticipants
    BY DEF Realtime!IInv, Realtime!TypeOK
  <1>1. ASSUME NEW s \in Sockets, NEW u \in Users, Realtime!Connect(s, u)
        PROVE  Realtime!IInv'
    <2> DEFINE x == [Realtime!Off EXCEPT !.user = u, !.state = "checking"]
    <2>1. x \in Realtime!Socket /\ x.state = "checking" /\ x.rooms = {}
      BY RealtimeDefaults DEF Realtime!Socket
    <2>2. v2' = [v2 EXCEPT ![s] = x] /\ UNCHANGED <<v1, v3, v4, v5, v6, v7, v8>>
      BY <1>1 DEF Realtime!Connect, Realtime!NotReceipts
    <2> HIDE DEF x
    <2>3. QED
      BY <2>1, <2>2, SocketStep
  <1>2. ASSUME NEW s \in Sockets, Realtime!Admit(s)
        PROVE  Realtime!IInv'
    <2> DEFINE x == IF v2[s].user \in v1
                    THEN [v2[s] EXCEPT !.state = "in", !.welcome = TRUE] ELSE Realtime!Off
    <2>1. /\ x \in Realtime!Socket /\ x.state \in {"off", "in"}
          /\ x.state = "in" => x.welcome /\ x.rooms = v2[s].rooms /\ x.user = v2[s].user
          /\ x.state = "off" => x.rooms = {}
      BY <1>a, RealtimeDefaults DEF Realtime!Socket
    <2>2. v2' = [v2 EXCEPT ![s] = x] /\ UNCHANGED <<v1, v3, v4, v5, v6, v7, v8>>
      BY <1>2 DEF Realtime!Admit, Realtime!NotReceipts
    <2> HIDE DEF x
    <2>3. \A c \in x.rooms : x.user \in Participants[c] /\ x.welcome
      BY <1>a, <2>1 DEF Realtime!SocketsEntitled
    <2>4. QED
      BY <2>1, <2>2, <2>3, SocketStep
  <1>3. ASSUME NEW s \in Sockets, Realtime!Disconnect(s)
        PROVE  Realtime!IInv'
    <2>1. v2' = [v2 EXCEPT ![s] = Realtime!Off] /\ UNCHANGED <<v1, v3, v4, v5, v6, v7, v8>>
      BY <1>3 DEF Realtime!Disconnect, Realtime!NotReceipts
    <2>2. QED
      BY <2>1, RealtimeDefaults, SocketStep
  <1>4. ASSUME NEW s \in Sockets, NEW c \in Conversations, Realtime!Join(s, c)
        PROVE  Realtime!IInv'
    <2> DEFINE x == [v2[s] EXCEPT !.rooms = @ \cup {c}]
    <2>1. /\ x \in Realtime!Socket /\ x.state = v2[s].state /\ x.welcome = v2[s].welcome
          /\ x.user = v2[s].user /\ x.rooms = v2[s].rooms \cup {c}
      BY <1>a DEF Realtime!Socket
    <2>2. /\ v2' = [v2 EXCEPT ![s] = x] /\ UNCHANGED <<v1, v3, v4, v5, v6, v7, v8>>
          /\ v2[s].state = "in" /\ v2[s].user \in Participants[c]
      BY <1>4 DEF Realtime!Join, Realtime!CanJoin, Realtime!NotReceipts
    <2> HIDE DEF x
    <2>3. x.welcome /\ \A d \in x.rooms : x.user \in Participants[d]
      BY <1>a, <2>1, <2>2 DEF Realtime!SocketsEntitled
    <2>4. QED
      BY <2>1, <2>2, <2>3, SocketStep
  <1>5. ASSUME NEW u \in Users, Realtime!SignOut(u)
        PROVE  Realtime!IInv'
    BY <1>5
    DEF Realtime!SignOut, Realtime!NotReceipts, Realtime!IInv, Realtime!TypeOK,
        Realtime!SocketsEntitled, Realtime!ReceiptsKnow, Realtime!HeardByParticipants,
        Realtime!ReceiptEventsHold
  <1>6. ASSUME NEW e \in v6, Realtime!Publish(e)
        PROVE  Realtime!IInv'
    <2>1. UNCHANGED <<v1, v2, v3, v4, v5, v6, v7>>
      BY <1>6 DEF Realtime!Publish, Realtime!NotReceipts
    <2>2. \A h \in v8' : h \in v8 \/ \E s \in Sockets :
            /\ h = [in |-> Realtime!Place(e.of), user |-> v2[s].user, welcome |-> v2[s].welcome]
            /\ Realtime!Place(e.of) \in v2[s].rooms
      BY <1>6 DEF Realtime!Publish
    <2>3. Realtime!Place(e.of) \in Conversations
      BY <1>a, HomeAssumption DEF Realtime!Place, Realtime!Event
    <2>4. \A s \in Sockets : Realtime!Place(e.of) \in v2[s].rooms =>
            /\ v2[s].user \in Participants[Realtime!Place(e.of)] /\ v2[s].user \in Users
            /\ v2[s].welcome /\ v2[s].welcome \in BOOLEAN
      BY <1>a, <2>3, ParticipantsAssumption DEF Realtime!SocketsEntitled, Realtime!Socket
    <2>5. v8' \subseteq [in: Conversations, user: Users, welcome: BOOLEAN]
      BY <2>2, <2>3, <2>4 DEF Realtime!IInv, Realtime!TypeOK
    <2>6. Realtime!HeardByParticipants'
      BY <1>a, <2>2, <2>4 DEF Realtime!HeardByParticipants
    <2>7. QED
      BY <2>1, <2>5, <2>6
      DEF Realtime!IInv, Realtime!TypeOK, Realtime!SocketsEntitled, Realtime!ReceiptsKnow,
          Realtime!ReceiptEventsHold
  <1>7. QED
    BY <1>1, <1>2, <1>3, <1>4, <1>5, <1>6

\* A receipt in flight moves on: columns and events are only added, a message
\* stays, and what the request comes to know is true.
LEMMA ReceiptStep ==
  ASSUME Realtime!IInv, NEW r \in Requests, NEW x \in Realtime!Request,
         v7' = [v7 EXCEPT ![r] = x],
         v5' \in [Messages -> [Users -> SUBSET {"delivered_at", "read_at"}]],
         v6' \subseteq Realtime!Event,
         \A m \in Messages, u \in Users : v5[m][u] \subseteq v5'[m][u],
         \A e \in v6' : e \in v6 \/ (e.of \in v3 /\ Realtime!After(e) \subseteq v5'[e.of][e.by]),
         x.pc # "idle" =>
           /\ x.event \in Realtime!Event /\ x.event.kind # "created" /\ x.event.of \in v3
           /\ x.pc = "event" => Realtime!After(x.event) \subseteq v5'[x.event.of][x.event.by],
         UNCHANGED <<v1, v2, v3, v4, v8>>
  PROVE  Realtime!IInv'
  <1>1. \A q \in Requests : v7'[q] = IF q = r THEN x ELSE v7[q]
    BY DEF Realtime!IInv, Realtime!TypeOK
  <1>2. Realtime!TypeOK'
    BY DEF Realtime!IInv, Realtime!TypeOK
  <1>3. \A e \in Realtime!Event : e.of \in Messages /\ e.by \in Users
    BY DEF Realtime!Event
  <1>4. Realtime!ReceiptsKnow'
    BY <1>1, <1>3 DEF Realtime!IInv, Realtime!ReceiptsKnow, Realtime!After
  <1>5. Realtime!ReceiptEventsHold'
    BY <1>3 DEF Realtime!IInv, Realtime!TypeOK, Realtime!ReceiptEventsHold, Realtime!After
  <1>6. Realtime!SocketsEntitled' /\ Realtime!HeardByParticipants'
    BY DEF Realtime!IInv, Realtime!SocketsEntitled, Realtime!HeardByParticipants
  <1>7. QED
    BY <1>2, <1>4, <1>5, <1>6 DEF Realtime!IInv

\* Messages, their receipts, and the setting that keeps reading unshared.
LEMMA RealtimeReceipts ==
  ASSUME Realtime!IInv,
         \/ \E m \in Messages : Realtime!Commit(m)
         \/ \E r \in Requests, m \in Messages, u \in Users, kind \in {"delivered", "read"} :
              Realtime!Receipt(r, m, u, kind)
         \/ \E r \in Requests :
              Realtime!Settings(r) \/ Realtime!Upsert(r) \/ Realtime!Tell(r) \/ Realtime!Abort(r)
         \/ \E c \in Conversations : \E u \in Participants[c] : Realtime!SetSharesReads(u)
  PROVE  Realtime!IInv'
  <1>a. /\ v3 \subseteq Messages /\ v6 \subseteq Realtime!Event
        /\ v5 \in [Messages -> [Users -> SUBSET {"delivered_at", "read_at"}]]
        /\ v7 \in [Requests -> Realtime!Request]
    BY DEF Realtime!IInv, Realtime!TypeOK
  <1>1. ASSUME NEW m \in Messages, Realtime!Commit(m)
        PROVE  Realtime!IInv'
    <2> DEFINE e == [kind |-> "created", of |-> m, by |-> Home[m].sender]
    <2>1. e \in Realtime!Event /\ e.kind = "created"
      BY HomeAssumption DEF Realtime!Event, Realtime!Kinds
    <2>2. v3' = v3 \cup {m} /\ v6' = v6 \cup {e} /\ UNCHANGED <<v1, v2, v4, v5, v7, v8>>
      BY <1>1 DEF Realtime!Commit, Realtime!NotSockets
    <2> HIDE DEF e
    <2>3. Realtime!TypeOK'
      BY <2>1, <2>2 DEF Realtime!IInv, Realtime!TypeOK
    <2>4. QED
      BY <2>1, <2>2, <2>3
      DEF Realtime!IInv, Realtime!SocketsEntitled, Realtime!ReceiptsKnow,
          Realtime!HeardByParticipants, Realtime!ReceiptEventsHold
  <1>2. ASSUME NEW r \in Requests, NEW m \in Messages, NEW u \in Users,
               NEW kind \in {"delivered", "read"}, Realtime!Receipt(r, m, u, kind)
        PROVE  Realtime!IInv'
    <2> DEFINE e == [kind |-> kind, of |-> m, by |-> u]
               x == [pc |-> IF kind = "read" THEN "settings" ELSE "upsert", event |-> e]
    <2>1. e \in Realtime!Event /\ e.kind # "created" /\ e.of = m
      BY DEF Realtime!Event, Realtime!Kinds
    <2>2. x \in Realtime!Request /\ x.pc # "event" /\ x.event = e
      BY <2>1 DEF Realtime!Request
    <2>3. v7' = [v7 EXCEPT ![r] = x] /\ m \in v3 /\ UNCHANGED <<v1, v2, v3, v4, v5, v6, v8>>
      BY <1>2 DEF Realtime!Receipt, Realtime!NotSockets
    <2> HIDE DEF e, x
    <2>4. QED
      BY <1>a, <2>1, <2>2, <2>3, ReceiptStep
  <1>3. ASSUME NEW r \in Requests, Realtime!Settings(r)
        PROVE  Realtime!IInv'
    <2> DEFINE x == IF v7[r].event.by \in v4 THEN [v7[r] EXCEPT !.pc = "upsert"] ELSE Realtime!Idle
    <2>1. /\ x \in Realtime!Request /\ x.pc \in {"upsert", "idle"}
          /\ x.pc = "upsert" => x.event = v7[r].event
      BY <1>a, RealtimeDefaults DEF Realtime!Request
    <2>2. /\ v7[r].pc = "settings" /\ v7' = [v7 EXCEPT ![r] = x]
          /\ UNCHANGED <<v1, v2, v3, v4, v5, v6, v8>>
      BY <1>3 DEF Realtime!Settings, Realtime!Advance, Realtime!NotSockets
    <2> HIDE DEF x
    <2>3. x.pc # "idle" => x.event \in Realtime!Event /\ x.event.kind # "created" /\ x.event.of \in v3
      BY <2>1, <2>2 DEF Realtime!IInv, Realtime!ReceiptsKnow
    <2>4. QED
      BY <1>a, <2>1, <2>2, <2>3, ReceiptStep
  <1>4. ASSUME NEW r \in Requests, Realtime!Upsert(r)
        PROVE  Realtime!IInv'
    <2> DEFINE e == v7[r].event
               x == [v7[r] EXCEPT !.pc = "event"]
    <2>1. x \in Realtime!Request /\ x.pc = "event" /\ x.event = e
      BY <1>a DEF Realtime!Request
    <2>2. /\ v7[r].pc = "upsert" /\ v7' = [v7 EXCEPT ![r] = x]
          /\ v5' = [v5 EXCEPT ![e.of][e.by] = Realtime!Kept(e)]
          /\ UNCHANGED <<v1, v2, v3, v4, v6, v8>>
      BY <1>4 DEF Realtime!Upsert, Realtime!Advance, Realtime!NotSockets
    <2> HIDE DEF x
    <2>3. /\ e \in Realtime!Event /\ e.kind # "created" /\ e.of \in v3
          /\ e.of \in Messages /\ e.by \in Users
      BY <1>a, <2>2 DEF Realtime!IInv, Realtime!ReceiptsKnow, Realtime!Event
    <2>4. /\ Realtime!After(e) \subseteq {"delivered_at", "read_at"}
          /\ Realtime!Kept(e) = v5[e.of][e.by] \cup Realtime!After(e)
      BY DEF Realtime!After, Realtime!Kept
    <2> HIDE DEF e
    <2>5. /\ v5' \in [Messages -> [Users -> SUBSET {"delivered_at", "read_at"}]]
          /\ v5'[e.of][e.by] = v5[e.of][e.by] \cup Realtime!After(e)
          /\ \A m \in Messages, u \in Users : v5[m][u] \subseteq v5'[m][u]
      BY <1>a, <2>2, <2>3, <2>4
    <2>6. QED
      BY <1>a, <2>1, <2>2, <2>3, <2>5, ReceiptStep
  <1>5. ASSUME NEW r \in Requests, Realtime!Tell(r)
        PROVE  Realtime!IInv'
    <2>1. /\ v7[r].pc = "event" /\ v7' = [v7 EXCEPT ![r] = Realtime!Idle]
          /\ v6' = v6 \cup {v7[r].event} /\ UNCHANGED <<v1, v2, v3, v4, v5, v8>>
      BY <1>5 DEF Realtime!Tell, Realtime!Advance, Realtime!NotSockets
    <2>2. /\ v7[r].event \in Realtime!Event /\ v7[r].event.of \in v3
          /\ Realtime!After(v7[r].event) \subseteq v5[v7[r].event.of][v7[r].event.by]
      BY <2>1 DEF Realtime!IInv, Realtime!ReceiptsKnow
    <2>3. QED
      BY <1>a, <2>1, <2>2, RealtimeDefaults, ReceiptStep
  <1>6. ASSUME NEW r \in Requests, Realtime!Abort(r)
        PROVE  Realtime!IInv'
    <2>1. v7' = [v7 EXCEPT ![r] = Realtime!Idle] /\ UNCHANGED <<v1, v2, v3, v4, v5, v6, v8>>
      BY <1>6 DEF Realtime!Abort, Realtime!Advance, Realtime!NotSockets
    <2>2. QED
      BY <1>a, <2>1, RealtimeDefaults, ReceiptStep
  <1>7. ASSUME NEW c \in Conversations, NEW u \in Participants[c], Realtime!SetSharesReads(u)
        PROVE  Realtime!IInv'
    <2>1. u \in Users
      BY ParticipantsAssumption
    <2>2. UNCHANGED <<v1, v2, v3, v5, v6, v7, v8>>
      BY <1>7 DEF Realtime!SetSharesReads, Realtime!NotSockets
    <2>3. v4' \subseteq Users
      BY <1>7, <2>1 DEF Realtime!SetSharesReads, Realtime!IInv, Realtime!TypeOK
    <2>4. QED
      BY <2>2, <2>3
      DEF Realtime!IInv, Realtime!TypeOK, Realtime!SocketsEntitled, Realtime!ReceiptsKnow,
          Realtime!HeardByParticipants, Realtime!ReceiptEventsHold
  <1>8. QED
    BY <1>1, <1>2, <1>3, <1>4, <1>5, <1>6, <1>7

\* Every step of the events keeps their inductive invariant.
LEMMA RealtimeStep == Realtime!IInv /\ Realtime!Next => Realtime!IInv'
  BY RealtimeSockets, RealtimeReceipts DEF Realtime!Next

-----------------------------------------------------------------------------
(* Messaging: v1 is conversation, v2 lastMessage, v3 barred, v4 message,   *)
(* v5 request, v6 answered, v7 excused, v8 late and v9 overlapped.         *)

\* A request that is over and a row that is free.
LEMMA MessagingDefaults ==
  /\ Messaging!Idle \in Messaging!Request /\ Messaging!Idle.pc = "idle"
  /\ Messaging!NoMessage \in Messaging!Message /\ Messaging!NoMessage.state = "none"
  /\ 0 \in 0..MaxMessages
  BY LimitAssumption DEF Messaging!Idle, Messaging!Request, Messaging!NoMessage, Messaging!Message

\* There is no message at first.
LEMMA MessagingInit == Messaging!Init => Messaging!IInv
  <1> SUFFICES ASSUME Messaging!Init PROVE Messaging!IInv
    OBVIOUS
  <1>1. Messaging!TypeOK
    BY MessagingDefaults DEF Messaging!Init, Messaging!TypeOK
  <1>2. /\ \A r \in Requests : v5[r].pc = "idle"
        /\ \A m \in Messaging!Rows : v4[m] = Messaging!NoMessage /\ v4[m].state = "none"
        /\ v6 = {} /\ v8 = {}
    BY MessagingDefaults DEF Messaging!Init
  <1>3. Messaging!CreatedHaveOwners /\ Messaging!ChecksStand
    BY <1>2 DEF Messaging!CreatedHaveOwners, Messaging!ChecksStand
  <1>4. Messaging!RowsInOrder
    BY <1>2 DEF Messaging!RowsInOrder, Messaging!Creating
  <1>5. /\ Messaging!OneMessagePerClientId /\ Messaging!ClosedTakesNoMore
        /\ Messaging!LastMessageUnlessOverlap
    BY <1>2
    DEF Messaging!OneMessagePerClientId, Messaging!ClosedTakesNoMore,
        Messaging!LastMessageUnlessOverlap, Messaging!Exists
  <1>6. QED
    BY <1>1, <1>3, <1>4, <1>5 DEF Messaging!IInv

\* What opens or closes conversations leaves the messages alone; what it closes
\* excuses every request in flight.
LEMMA ClosingStep ==
  ASSUME Messaging!IInv,
         v1' \in [Conversations -> {"none", "open", "closed"}], v3' \subseteq {"block", "penalty"},
         \/ v7' = v7 \cup Messaging!Sending
         \/ /\ v7' = v7 /\ v3' \subseteq v3
            /\ \A c \in Conversations : v1[c] = "open" => v1'[c] = "open",
         UNCHANGED <<v2, v4, v5, v6, v8, v9>>
  PROVE  Messaging!IInv'
  <1>1. v5 \in [Requests -> Messaging!Request] /\ v7 \subseteq Requests
    BY DEF Messaging!IInv, Messaging!TypeOK
  <1>2. \A r \in Requests : v5[r].pc # "idle" => r \in Messaging!Sending
    BY <1>1 DEF Messaging!Sending, Messaging!Request
  <1>3. Messaging!TypeOK'
    BY DEF Messaging!IInv, Messaging!TypeOK, Messaging!Sending
  <1>4. Messaging!ChecksStand'
    <2>1. CASE v7' = v7 \cup Messaging!Sending
      BY <1>2, <2>1 DEF Messaging!ChecksStand
    <2>2. CASE /\ v7' = v7 /\ v3' \subseteq v3
               /\ \A c \in Conversations : v1[c] = "open" => v1'[c] = "open"
      BY <2>2 DEF Messaging!IInv, Messaging!ChecksStand, Messaging!CreatedHaveOwners
    <2>3. QED
      BY <2>1, <2>2
  <1>5. Messaging!CreatedHaveOwners' /\ Messaging!RowsInOrder'
    BY DEF Messaging!IInv, Messaging!CreatedHaveOwners, Messaging!RowsInOrder, Messaging!Creating,
           Messaging!Exists
  <1>6. /\ Messaging!OneMessagePerClientId' /\ Messaging!ClosedTakesNoMore'
        /\ Messaging!LastMessageUnlessOverlap'
    BY DEF Messaging!IInv, Messaging!OneMessagePerClientId, Messaging!ClosedTakesNoMore,
           Messaging!LastMessageUnlessOverlap, Messaging!Exists
  <1>7. QED
    BY <1>3, <1>4, <1>5, <1>6 DEF Messaging!IInv

\* Matches, blocks and penalties.
LEMMA MessagingCloses ==
  ASSUME Messaging!IInv,
         \/ \E c \in Conversations : Messaging!Pair(c) \/ Messaging!Unmatch(c)
         \/ Messaging!Block \/ Messaging!Penalise
         \/ \E why \in {"block", "penalty"} : Messaging!Lift(why)
  PROVE  Messaging!IInv'
  <1>a. /\ v1 \in [Conversations -> {"none", "open", "closed"}] /\ v3 \subseteq {"block", "penalty"}
    BY DEF Messaging!IInv, Messaging!TypeOK
  <1>1. ASSUME NEW c \in Conversations, Messaging!Pair(c)
        PROVE  Messaging!IInv'
    BY <1>a, <1>1, ClosingStep DEF Messaging!Pair, Messaging!NotMessages
  <1>2. ASSUME NEW c \in Conversations, Messaging!Unmatch(c)
        PROVE  Messaging!IInv'
    BY <1>a, <1>2, ClosingStep DEF Messaging!Unmatch, Messaging!NotMessages
  <1>3. ASSUME Messaging!Block
        PROVE  Messaging!IInv'
    BY <1>a, <1>3, ClosingStep DEF Messaging!Block, Messaging!NotMessages
  <1>4. ASSUME Messaging!Penalise
        PROVE  Messaging!IInv'
    BY <1>a, <1>4, ClosingStep DEF Messaging!Penalise, Messaging!NotMessages
  <1>5. ASSUME NEW why \in {"block", "penalty"}, Messaging!Lift(why)
        PROVE  Messaging!IInv'
    BY <1>a, <1>5, ClosingStep DEF Messaging!Lift, Messaging!NotMessages
  <1>6. QED
    BY <1>1, <1>2, <1>3, <1>4, <1>5

\* A request moves on before or without a message of its own: what it has
\* checked holds, and what it answers with is a message that was sent.
LEMMA SendingStep ==
  ASSUME Messaging!IInv, NEW r \in Requests, NEW x \in Messaging!Request,
         v5' = [v5 EXCEPT ![r] = x], v5[r].pc # "commit", x.pc # "commit",
         x.pc # "idle" => x.in \in Conversations /\ x.client \in ClientIds,
         v7' = v7 \/ (v7' = v7 \ {r} /\ x.pc = "idle"),
         r \notin v7 =>
           /\ x.pc # "idle" => "penalty" \notin v3
           /\ x.pc \in {"count", "lock"} => v1[x.in] = "open"
           /\ x.pc = "lock" => "block" \notin v3,
         v6' \subseteq ClientIds \X Messaging!Rows,
         \A a \in v6' : a \in v6 \/ (v4[a[2]].state = "sent" /\ v4[a[2]].client = a[1]),
         UNCHANGED <<v1, v2, v3, v4, v8, v9>>
  PROVE  Messaging!IInv'
  <1>1. \A q \in Requests : v5'[q] = IF q = r THEN x ELSE v5[q]
    BY DEF Messaging!IInv, Messaging!TypeOK
  <1>2. Messaging!TypeOK'
    BY DEF Messaging!IInv, Messaging!TypeOK
  <1>3. Messaging!CreatedHaveOwners'
    BY <1>1 DEF Messaging!IInv, Messaging!CreatedHaveOwners
  <1>4. Messaging!ChecksStand'
    BY <1>1 DEF Messaging!IInv, Messaging!ChecksStand
  <1>5. Messaging!RowsInOrder'
    BY DEF Messaging!IInv, Messaging!RowsInOrder, Messaging!Creating, Messaging!Exists
  <1>6. /\ Messaging!OneMessagePerClientId' /\ Messaging!ClosedTakesNoMore'
        /\ Messaging!LastMessageUnlessOverlap'
    BY DEF Messaging!IInv, Messaging!OneMessagePerClientId, Messaging!ClosedTakesNoMore,
           Messaging!LastMessageUnlessOverlap, Messaging!Exists
  <1>7. QED
    BY <1>2, <1>3, <1>4, <1>5, <1>6 DEF Messaging!IInv

\* A send that checks, is refused, or finds its message there.
LEMMA MessagingReads ==
  ASSUME Messaging!IInv, NEW r \in Requests,
         \/ \E c \in Conversations, k \in ClientIds : Messaging!Send(r, c, k)
         \/ Messaging!SendRead(r) \/ Messaging!SendCount(r) \/ Messaging!SendAgain(r)
         \/ Messaging!Abort(r) /\ v5[r].pc # "commit"
  PROVE  Messaging!IInv'
  <1>a. /\ v5 \in [Requests -> Messaging!Request] /\ v5[r] \in Messaging!Request
        /\ v6 \subseteq ClientIds \X Messaging!Rows
        /\ v4 \in [Messaging!Rows -> Messaging!Message]
    BY DEF Messaging!IInv, Messaging!TypeOK
  <1>b. /\ v5[r].pc # "idle" => v5[r].in \in Conversations /\ v5[r].client \in ClientIds
        /\ r \notin v7 =>
             /\ v5[r].pc # "idle" => "penalty" \notin v3
             /\ v5[r].pc \in {"count", "lock"} => v1[v5[r].in] = "open"
    BY DEF Messaging!IInv, Messaging!CreatedHaveOwners, Messaging!ChecksStand
  <1>1. ASSUME v5' = [v5 EXCEPT ![r] = Messaging!Idle], v7' = v7 \ {r}, v5[r].pc # "commit",
               UNCHANGED <<v1, v2, v3, v4, v6, v8, v9>>
        PROVE  Messaging!IInv'
    BY <1>a, <1>1, MessagingDefaults, SendingStep
  <1>2. ASSUME NEW pc \in {"count", "lock"}, v5' = [v5 EXCEPT ![r].pc = pc], v7' = v7,
               v5[r].pc \in {"read", "count"}, pc = "lock" => v5[r].pc = "count",
               IF pc = "count" THEN v1[v5[r].in] = "open" ELSE "block" \notin v3,
               UNCHANGED <<v1, v2, v3, v4, v6, v8, v9>>
        PROVE  Messaging!IInv'
    <2> DEFINE x == [v5[r] EXCEPT !.pc = pc]
    <2>1. x \in Messaging!Request /\ x.pc = pc /\ x.in = v5[r].in /\ x.client = v5[r].client
      BY <1>a DEF Messaging!Request
    <2>2. v5' = [v5 EXCEPT ![r] = x]
      BY <1>2
    <2> HIDE DEF x
    <2>3. r \notin v7 =>
            "penalty" \notin v3 /\ v1[x.in] = "open" /\ (x.pc = "lock" => "block" \notin v3)
      BY <1>b, <1>2, <2>1
    <2>4. QED
      BY <1>a, <1>b, <1>2, <2>1, <2>2, <2>3, SendingStep
  <1>3. ASSUME NEW c \in Conversations, NEW k \in ClientIds, Messaging!Send(r, c, k)
        PROVE  Messaging!IInv'
    <2> DEFINE x == [Messaging!Idle EXCEPT !.pc = "read", !.in = c, !.client = k]
    <2>1. x \in Messaging!Request /\ x.pc = "read" /\ x.in = c /\ x.client = k
      BY MessagingDefaults DEF Messaging!Request, Messaging!Idle
    <2>2. /\ v5' = [v5 EXCEPT ![r] = x] /\ v5[r].pc = "idle" /\ "penalty" \notin v3
          /\ UNCHANGED <<v1, v2, v3, v4, v6, v7, v8, v9>>
      BY <1>3 DEF Messaging!Send, Messaging!Begin, Messaging!NotTheUsers, Messaging!NotMessages
    <2> HIDE DEF x
    <2>3. QED
      BY <1>a, <2>1, <2>2, SendingStep
  <1>4. ASSUME Messaging!SendRead(r)
        PROVE  Messaging!IInv'
    BY <1>1, <1>2, <1>4
    DEF Messaging!SendRead, Messaging!Advance, Messaging!GoTo, Messaging!Finish,
        Messaging!NotTheUsers, Messaging!NotMessages
  <1>5. ASSUME Messaging!SendCount(r)
        PROVE  Messaging!IInv'
    BY <1>1, <1>2, <1>5
    DEF Messaging!SendCount, Messaging!Advance, Messaging!GoTo, Messaging!Finish,
        Messaging!NotTheUsers, Messaging!NotMessages
  <1>6. ASSUME Messaging!SendAgain(r)
        PROVE  Messaging!IInv'
    <2>1. PICK m \in Messaging!Earlier(r) : v6' = v6 \cup {<<v5[r].client, m>>}
      BY <1>6 DEF Messaging!SendAgain
    <2>2. /\ v5[r].pc = "lock" /\ v5' = [v5 EXCEPT ![r] = Messaging!Idle] /\ v7' = v7 \ {r}
          /\ UNCHANGED <<v1, v2, v3, v4, v8, v9>>
      BY <1>6 DEF Messaging!SendAgain, Messaging!Finish, Messaging!NotTheUsers
    <2>3. m \in Messaging!Rows /\ v4[m].state = "sent" /\ v4[m].client = v5[r].client
      BY <2>1 DEF Messaging!Earlier
    <2>4. /\ v6' \subseteq ClientIds \X Messaging!Rows
          /\ \A a \in v6' : a \in v6 \/ (v4[a[2]].state = "sent" /\ v4[a[2]].client = a[1])
      BY <1>a, <1>b, <2>1, <2>2, <2>3
    <2>5. QED
      BY <2>2, <2>4, MessagingDefaults, SendingStep
  <1>7. ASSUME Messaging!Abort(r), v5[r].pc # "commit"
        PROVE  Messaging!IInv'
    <2>1. v4' = v4
      BY <1>a, <1>7 DEF Messaging!Abort
    <2>2. QED
      BY <1>1, <1>7, <2>1 DEF Messaging!Abort, Messaging!Finish, Messaging!NotTheUsers
  <1>8. QED
    BY <1>3, <1>4, <1>5, <1>6, <1>7

\* The message of a request at its commit, and the request of a message in
\* creation.
LEMMA CommitsOwn ==
  ASSUME Messaging!IInv
  PROVE  /\ \A r \in Requests : v5[r].pc = "commit" =>
              /\ v5[r].on \in Messaging!Rows /\ v4[v5[r].on].state = "created"
              /\ v4[v5[r].on].in = v5[r].in /\ v4[v5[r].on].client = v5[r].client
         /\ \A m \in Messaging!Rows : v4[m].state = "created" =>
              \E r \in Requests :
                v5[r].pc = "commit" /\ v5[r].on = m /\ v5[r].client = v4[m].client
  <1>1. \A r \in Requests : v5[r].pc = "commit" =>
          /\ v5[r].on \in Messaging!Rows /\ v4[v5[r].on].state = "created"
          /\ v4[v5[r].on].in = v5[r].in /\ v4[v5[r].on].client = v5[r].client
    <2> TAKE r \in Requests
    <2> HAVE v5[r].pc = "commit"
    <2>1. /\ v5[r].on \in Messaging!Rows
          /\ v4[v5[r].on] = [state |-> "created", in |-> v5[r].in, client |-> v5[r].client]
      BY DEF Messaging!IInv, Messaging!CreatedHaveOwners
    <2>2. QED
      BY <2>1
  <1>2. \A m \in Messaging!Rows : v4[m].state = "created" =>
          \E r \in Requests : v5[r].pc = "commit" /\ v5[r].on = m
    BY DEF Messaging!IInv, Messaging!CreatedHaveOwners
  <1>3. QED
    BY <1>1, <1>2

\* Under the lock of its client id the message that is created is the only one,
\* and the row it takes comes after all others.
LEMMA MessagingCreate ==
  ASSUME Messaging!IInv, NEW r \in Requests, Messaging!SendCreate(r)
  PROVE  Messaging!IInv'
  <1> DEFINE c == v5[r].in
             k == v5[r].client
  <1>a. /\ v5 \in [Requests -> Messaging!Request] /\ v5[r] \in Messaging!Request
        /\ v4 \in [Messaging!Rows -> Messaging!Message]
    BY DEF Messaging!IInv, Messaging!TypeOK
  <1>1. PICK m \in Messaging!Rows :
          /\ v4[m] = Messaging!NoMessage
          /\ \A n \in Messaging!Rows : n < m => v4[n] # Messaging!NoMessage
          /\ v4' = [v4 EXCEPT ![m] = [state |-> "created", in |-> c, client |-> k]]
          /\ v5' = [v5 EXCEPT ![r].pc = "commit", ![r].on = m]
    BY DEF Messaging!SendCreate
  <1> DEFINE x == [v5[r] EXCEPT !.pc = "commit", !.on = m]
             y == [state |-> "created", in |-> c, client |-> k]
  <1>2. /\ v5[r].pc = "lock" /\ ~ Messaging!Locked(k) /\ Messaging!Earlier(r) = {}
        /\ v9' = IF Messaging!Creating(c) = {} THEN v9 ELSE v9 \cup {c}
        /\ UNCHANGED <<v1, v2, v3, v6, v7, v8>>
    BY DEF Messaging!SendCreate, Messaging!NotTheUsers
  <1>3. c \in Conversations /\ k \in ClientIds
    BY <1>2 DEF Messaging!IInv, Messaging!CreatedHaveOwners
  <1>4. /\ x \in Messaging!Request /\ x.pc = "commit" /\ x.on = m /\ x.in = c /\ x.client = k
        /\ y \in Messaging!Message /\ y.state = "created" /\ y.in = c /\ y.client = k
        /\ y # Messaging!NoMessage /\ v4[m].state = "none"
    <2>1. m \in 0..MaxMessages
      BY LimitAssumption DEF Messaging!Rows
    <2>2. x \in Messaging!Request /\ x.pc = "commit" /\ x.on = m /\ x.in = c /\ x.client = k
      BY <1>a, <2>1 DEF Messaging!Request
    <2>3. y \in Messaging!Message /\ y.state = "created" /\ y.in = c /\ y.client = k
      BY <1>3 DEF Messaging!Message
    <2> HIDE DEF x, y
    <2>4. y # Messaging!NoMessage /\ v4[m].state = "none"
      BY <1>1, <2>3, MessagingDefaults
    <2>5. QED
      BY <2>2, <2>3, <2>4
  <1>5. /\ \A q \in Requests : v5'[q] = IF q = r THEN x ELSE v5[q]
        /\ \A n \in Messaging!Rows : v4'[n] = IF n = m THEN y ELSE v4[n]
        /\ v5' \in [Requests -> Messaging!Request] /\ v4' \in [Messaging!Rows -> Messaging!Message]
    BY <1>a, <1>1, <1>4
  <1>y. y = [state |-> "created", in |-> x.in, client |-> x.client]
    BY <1>4
  <1> HIDE DEF x, y
  <1>6. Messaging!TypeOK'
    BY <1>2, <1>3, <1>5 DEF Messaging!IInv, Messaging!TypeOK
  <1>7. Messaging!CreatedHaveOwners'
    <2>1. \A q \in Requests : v5[q].pc = "commit" => v5[q].on \in Messaging!Rows /\ v5[q].on # m
      BY <1>4, CommitsOwn
    <2>2. QED
      BY <1>2, <1>3, <1>4, <1>5, <1>y, <2>1 DEF Messaging!IInv, Messaging!CreatedHaveOwners
  <1>8. Messaging!ChecksStand'
    BY <1>2, <1>4, <1>5 DEF Messaging!IInv, Messaging!ChecksStand
  <1>9. \A n \in Messaging!Rows : v4[n] # Messaging!NoMessage => n < m
    BY <1>1 DEF Messaging!IInv, Messaging!RowsInOrder, Messaging!Rows
  <1>10. Messaging!RowsInOrder'
    <2>1. \A n, p \in Messaging!Rows : n < p /\ v4'[p] # Messaging!NoMessage => v4'[n] # Messaging!NoMessage
      BY <1>1, <1>4, <1>5 DEF Messaging!IInv, Messaging!RowsInOrder
    <2>2. ASSUME NEW d \in Conversations \ v9', NEW p \in Messaging!Creating(d)',
                 NEW n \in Messaging!Rows, Messaging!Exists(n)', v4'[n].in = d
          PROVE  n <= p
      <3>1. p \in Messaging!Rows /\ v4'[p].state = "created" /\ v4'[p].in = d
        BY DEF Messaging!Creating
      <3>2. CASE p = m
        <4>1. n = m \/ v4[n] # Messaging!NoMessage
          BY <1>5, <2>2, MessagingDefaults DEF Messaging!Exists
        <4>2. QED
          BY <1>9, <3>2, <4>1 DEF Messaging!Rows
      <3>3. CASE p # m /\ n = m
        <4>1. d = c /\ p \in Messaging!Creating(c)
          BY <1>4, <1>5, <2>2, <3>1, <3>3 DEF Messaging!Creating
        <4>2. QED
          BY <1>2, <4>1
      <3>4. CASE p # m /\ n # m
        <4>1. p \in Messaging!Creating(d) /\ Messaging!Exists(n) /\ v4[n].in = d /\ d \notin v9
          BY <1>2, <1>5, <2>2, <3>1, <3>4 DEF Messaging!Creating, Messaging!Exists
        <4>2. QED
          BY <4>1 DEF Messaging!IInv, Messaging!RowsInOrder
      <3>5. QED
        BY <3>2, <3>3, <3>4
    <2>3. QED
      BY <2>1, <2>2 DEF Messaging!RowsInOrder
  <1>11. Messaging!OneMessagePerClientId'
    <2>1. \A n \in Messaging!Rows : Messaging!Exists(n) => v4[n].client # k
      <3>1. \A n \in Messaging!Rows : v4[n].state = "sent" => v4[n].client # k
        BY <1>2 DEF Messaging!Earlier
      <3>2. \A n \in Messaging!Rows : v4[n].state = "created" => v4[n].client # k
        BY <1>2, CommitsOwn DEF Messaging!Locked
      <3>3. QED
        BY <3>1, <3>2 DEF Messaging!Exists
    <2>2. \A n \in Messaging!Rows : Messaging!Exists(n)' => n = m \/ Messaging!Exists(n)
      BY <1>5 DEF Messaging!Exists
    <2>3. \A a \in v6' : v4'[a[2]].state = "sent" /\ v4'[a[2]].client = a[1]
      <3>1. \A a \in v6 : a[2] \in Messaging!Rows
        BY DEF Messaging!IInv, Messaging!TypeOK
      <3>2. QED
        BY <1>2, <1>4, <1>5, <3>1 DEF Messaging!IInv, Messaging!OneMessagePerClientId
    <2>4. QED
      BY <1>4, <1>5, <2>1, <2>2, <2>3 DEF Messaging!IInv, Messaging!OneMessagePerClientId
  <1>12. Messaging!ClosedTakesNoMore' /\ Messaging!LastMessageUnlessOverlap'
    BY <1>2, <1>4, <1>5 
    DEF Messaging!IInv, Messaging!ClosedTakesNoMore, Messaging!LastMessageUnlessOverlap
  <1>13. QED
    BY <1>6, <1>7, <1>8, <1>10, <1>11, <1>12 DEF Messaging!IInv

\* A message leaves its creation: its owner is over, no other request owns it,
\* and it is kept for what comes after, sent or gone.
LEMMA CreationEnds ==
  ASSUME Messaging!IInv, NEW r \in Requests, NEW m \in Messaging!Rows, NEW y \in Messaging!Message,
         v5[r].pc = "commit", m = v5[r].on,
         v5' = [v5 EXCEPT ![r] = Messaging!Idle], v7' = v7 \ {r},
         v4' = [v4 EXCEPT ![m] = y],
         y.state \in {"sent", "gone"}, y.state = "sent" => y.in = v4[m].in /\ y.client = v4[m].client,
         UNCHANGED <<v1, v3, v9>>
  PROVE  /\ v4' \in [Messaging!Rows -> Messaging!Message] /\ v5' \in [Requests -> Messaging!Request]
         /\ v7' \subseteq Requests
         /\ Messaging!CreatedHaveOwners' /\ Messaging!ChecksStand' /\ Messaging!RowsInOrder'
         /\ \A n, p \in Messaging!Rows : Messaging!Exists(n)' /\ Messaging!Exists(p)'
              /\ v4'[n].client = v4'[p].client => n = p
         /\ \A a \in v6 : v4'[a[2]].state = "sent" /\ v4'[a[2]].client = a[1]
  <1>1. /\ \A q \in Requests : v5'[q] = IF q = r THEN Messaging!Idle ELSE v5[q]
        /\ \A n \in Messaging!Rows : v4'[n] = IF n = m THEN y ELSE v4[n]
        /\ v5' \in [Requests -> Messaging!Request] /\ v4' \in [Messaging!Rows -> Messaging!Message]
        /\ v7' \subseteq Requests
    BY MessagingDefaults DEF Messaging!IInv, Messaging!TypeOK
  <1>2. y # Messaging!NoMessage /\ v4[m].state = "created" /\ v4[m] # Messaging!NoMessage
    BY CommitsOwn, MessagingDefaults
  <1>3. Messaging!CreatedHaveOwners'
    <2>1. \A q \in Requests : v5'[q].pc = "commit" => v5[q].on # m /\ q # r
      BY <1>1, MessagingDefaults DEF Messaging!IInv, Messaging!CreatedHaveOwners
    <2>2. \A n \in Messaging!Rows : v4'[n].state = "created" => n # m
      BY <1>1
    <2>3. QED
      BY <1>1, <2>1, <2>2, MessagingDefaults DEF Messaging!IInv, Messaging!CreatedHaveOwners
  <1>4. Messaging!ChecksStand'
    BY <1>1, MessagingDefaults DEF Messaging!IInv, Messaging!ChecksStand
  <1>5. \A n \in Messaging!Rows : Messaging!Exists(n)' =>
          Messaging!Exists(n) /\ v4'[n].in = v4[n].in /\ v4'[n].client = v4[n].client
    BY <1>1, <1>2 DEF Messaging!Exists
  <1>6. Messaging!RowsInOrder'
    <2>1. \A n, p \in Messaging!Rows : n < p /\ v4'[p] # Messaging!NoMessage => v4'[n] # Messaging!NoMessage
      BY <1>1, <1>2 DEF Messaging!IInv, Messaging!RowsInOrder
    <2>2. \A d : Messaging!Creating(d)' \subseteq Messaging!Creating(d)
      BY <1>1 DEF Messaging!Creating
    <2>3. \A d \in Conversations \ v9' : \A p \in Messaging!Creating(d)', n \in Messaging!Rows :
            Messaging!Exists(n)' /\ v4'[n].in = d => n <= p
      BY <1>5, <2>2 DEF Messaging!IInv, Messaging!RowsInOrder
    <2>4. QED
      BY <2>1, <2>3 DEF Messaging!RowsInOrder
  <1>7. \A n, p \in Messaging!Rows : Messaging!Exists(n)' /\ Messaging!Exists(p)'
          /\ v4'[n].client = v4'[p].client => n = p
    BY <1>5 DEF Messaging!IInv, Messaging!OneMessagePerClientId
  <1>8. \A a \in v6 : v4'[a[2]].state = "sent" /\ v4'[a[2]].client = a[1]
    <2>1. \A a \in v6 : a[2] \in Messaging!Rows /\ v4[a[2]].state = "sent" /\ v4[a[2]].client = a[1]
      BY DEF Messaging!IInv, Messaging!TypeOK, Messaging!OneMessagePerClientId
    <2>2. QED
      BY <1>1, <1>2, <2>1
  <1>9. QED
    BY <1>1, <1>3, <1>4, <1>6, <1>7, <1>8

\* The message that is committed is the last of its conversation, and what
\* could have closed the conversation did so before or excuses the request.
LEMMA MessagingCommit ==
  ASSUME Messaging!IInv, NEW r \in Requests, Messaging!SendCommit(r)
  PROVE  Messaging!IInv'
  <1> DEFINE m == v5[r].on
             c == v5[r].in
             y == [v4[m] EXCEPT !.state = "sent"]
  <1>a. /\ v5 \in [Requests -> Messaging!Request] /\ v4 \in [Messaging!Rows -> Messaging!Message]
        /\ v2 \in [Conversations -> 0..MaxMessages] /\ v8 = {}
    BY DEF Messaging!IInv, Messaging!TypeOK, Messaging!ClosedTakesNoMore
  <1>1. /\ v5[r].pc = "commit" /\ v5' = [v5 EXCEPT ![r] = Messaging!Idle] /\ v7' = v7 \ {r}
        /\ v4' = [v4 EXCEPT ![m] = y] /\ v2' = [v2 EXCEPT ![c] = m]
        /\ v6' = v6 \cup {<<v5[r].client, m>>}
        /\ v8' = IF r \notin v7 /\ (v1[c] = "closed" \/ v3 # {}) THEN v8 \cup {m} ELSE v8
        /\ UNCHANGED <<v1, v3, v9>>
    BY DEF Messaging!SendCommit, Messaging!Finish, Messaging!NotTheUsers
  <1>2. /\ m \in Messaging!Rows /\ v4[m].state = "created" /\ v4[m].in = c
        /\ v4[m].client = v5[r].client
    BY <1>1, CommitsOwn
  <1>3. c \in Conversations /\ v5[r].client \in ClientIds
    BY <1>1 DEF Messaging!IInv, Messaging!CreatedHaveOwners
  <1>4. /\ y \in Messaging!Message /\ y.state = "sent" /\ y.in = v4[m].in
        /\ y.client = v4[m].client
    BY <1>a, <1>2 DEF Messaging!Message
  <1> HIDE DEF m, y
  <1>5. /\ v4' \in [Messaging!Rows -> Messaging!Message] /\ v5' \in [Requests -> Messaging!Request]
        /\ v7' \subseteq Requests
        /\ Messaging!CreatedHaveOwners' /\ Messaging!ChecksStand' /\ Messaging!RowsInOrder'
        /\ \A n, p \in Messaging!Rows : Messaging!Exists(n)' /\ Messaging!Exists(p)'
             /\ v4'[n].client = v4'[p].client => n = p
        /\ \A a \in v6 : v4'[a[2]].state = "sent" /\ v4'[a[2]].client = a[1]
    BY <1>1, <1>2, <1>4, CreationEnds DEF m
  <1>6. \A n \in Messaging!Rows : v4'[n] = IF n = m THEN y ELSE v4[n]
    BY <1>a, <1>1, <1>2
  <1>7. Messaging!ClosedTakesNoMore'
    <2>1. r \notin v7 => v1[c] = "open" /\ v3 = {}
      BY <1>1 DEF Messaging!IInv, Messaging!TypeOK, Messaging!ChecksStand
    <2>2. QED
      BY <1>a, <1>1, <2>1 DEF Messaging!ClosedTakesNoMore
  <1>8. m \in 0..MaxMessages
    BY <1>2 DEF Messaging!Rows
  <1>9. Messaging!TypeOK'
    BY <1>a, <1>1, <1>2, <1>3, <1>5, <1>7, <1>8
    DEF Messaging!IInv, Messaging!TypeOK, Messaging!ClosedTakesNoMore
  <1>10. Messaging!OneMessagePerClientId'
    <2>1. \A a \in v6' : v4'[a[2]].state = "sent" /\ v4'[a[2]].client = a[1]
      BY <1>1, <1>2, <1>4, <1>5, <1>6
    <2>2. QED
      BY <1>5, <2>1 DEF Messaging!OneMessagePerClientId
  <1>11. Messaging!LastMessageUnlessOverlap'
    <2> SUFFICES ASSUME NEW d \in Conversations \ v9, NEW n \in Messaging!Rows,
                        v4'[n].state = "sent", v4'[n].in = d
                 PROVE  n <= v2'[d]
      BY <1>1 DEF Messaging!LastMessageUnlessOverlap
    <2>1. CASE d = c
      <3>1. m \in Messaging!Creating(c)
        BY <1>2 DEF Messaging!Creating
      <3>2. n = m \/ (Messaging!Exists(n) /\ v4[n].in = c)
        BY <1>6, <2>1 DEF Messaging!Exists
      <3>3. n <= m
        BY <1>2, <2>1, <3>1, <3>2 DEF Messaging!IInv, Messaging!RowsInOrder, Messaging!Rows
      <3>4. QED
        BY <1>a, <1>1, <1>3, <2>1, <3>3
    <2>2. CASE d # c
      <3>1. n # m /\ v4[n].state = "sent" /\ v4[n].in = d
        BY <1>2, <1>4, <1>6, <2>2
      <3>2. QED
        BY <1>a, <1>1, <1>3, <2>2, <3>1 DEF Messaging!IInv, Messaging!LastMessageUnlessOverlap
    <2>3. QED
      BY <2>1, <2>2
  <1>12. QED
    BY <1>5, <1>7, <1>9, <1>10, <1>11 DEF Messaging!IInv

\* A message that is rolled back was nobody's answer.
LEMMA MessagingRollback ==
  ASSUME Messaging!IInv, NEW r \in Requests, Messaging!Abort(r), v5[r].pc = "commit"
  PROVE  Messaging!IInv'
  <1> DEFINE m == v5[r].on
             y == [Messaging!NoMessage EXCEPT !.state = "gone"]
  <1>a. /\ v5 \in [Requests -> Messaging!Request] /\ v4 \in [Messaging!Rows -> Messaging!Message]
    BY DEF Messaging!IInv, Messaging!TypeOK
  <1>1. /\ v5' = [v5 EXCEPT ![r] = Messaging!Idle] /\ v7' = v7 \ {r}
        /\ v4' = [n \in Messaging!Rows |-> IF n = m THEN y ELSE v4[n]]
        /\ UNCHANGED <<v1, v2, v3, v6, v8, v9>>
    BY DEF Messaging!Abort, Messaging!Finish, Messaging!NotTheUsers
  <1>2. m \in Messaging!Rows
    BY CommitsOwn
  <1>3. y \in Messaging!Message /\ y.state = "gone"
    BY MessagingDefaults DEF Messaging!Message, Messaging!NoMessage
  <1> HIDE DEF m, y
  <1>4. v4' = [v4 EXCEPT ![m] = y]
    BY <1>a, <1>1
  <1>5. /\ v4' \in [Messaging!Rows -> Messaging!Message] /\ v5' \in [Requests -> Messaging!Request]
        /\ v7' \subseteq Requests
        /\ Messaging!CreatedHaveOwners' /\ Messaging!ChecksStand' /\ Messaging!RowsInOrder'
        /\ \A n, p \in Messaging!Rows : Messaging!Exists(n)' /\ Messaging!Exists(p)'
             /\ v4'[n].client = v4'[p].client => n = p
        /\ \A a \in v6 : v4'[a[2]].state = "sent" /\ v4'[a[2]].client = a[1]
    BY <1>1, <1>2, <1>3, <1>4, CreationEnds DEF m
  <1>6. Messaging!TypeOK' /\ Messaging!ClosedTakesNoMore'
    BY <1>1, <1>5 DEF Messaging!IInv, Messaging!TypeOK, Messaging!ClosedTakesNoMore
  <1>7. Messaging!OneMessagePerClientId'
    BY <1>1, <1>5 DEF Messaging!OneMessagePerClientId
  <1>8. Messaging!LastMessageUnlessOverlap'
    <2>1. \A n \in Messaging!Rows : v4'[n].state = "sent" => v4[n] = v4'[n]
      BY <1>1, <1>3
    <2>2. QED
      BY <1>1, <2>1 DEF Messaging!IInv, Messaging!LastMessageUnlessOverlap
  <1>9. QED
    BY <1>5, <1>6, <1>7, <1>8 DEF Messaging!IInv

\* Every step of the conversations keeps their inductive invariant.
LEMMA MessagingStep == Messaging!IInv /\ Messaging!Next => Messaging!IInv'
  BY MessagingCloses, MessagingReads, MessagingCreate, MessagingCommit, MessagingRollback
  DEF Messaging!Next

-----------------------------------------------------------------------------
(* The parts together                                                      *)

\* Each part begins where its inductive invariant holds.
LEMMA PartsInitial == PartsInit => PartsIInv
  BY MessagingInit, RealtimeInit, PresenceInit DEF PartsInit, PartsIInv

\* A part whose variables do not change keeps its inductive invariant.
LEMMA PartsStutter ==
  ASSUME PartsIInv, UNCHANGED <<part, parts>>
  PROVE  PartsIInv'
  <1>1. UNCHANGED <<v1, v2, v3, v4, v5, v6, v7, v8, v9>>
    BY DEF parts
  <1>2. Messaging!IInv => Messaging!IInv'
    <2> SUFFICES ASSUME Messaging!IInv PROVE Messaging!IInv'
      OBVIOUS
    <2>1. v1 \in [Conversations -> {"none", "open", "closed"}] /\ v3 \subseteq {"block", "penalty"}
      BY DEF Messaging!IInv, Messaging!TypeOK
    <2>2. QED
      BY <1>1, <2>1, ClosingStep
  <1>3. Realtime!IInv => Realtime!IInv'
    BY <1>1
    DEF Realtime!IInv, Realtime!TypeOK, Realtime!SocketsEntitled, Realtime!ReceiptsKnow,
        Realtime!HeardByParticipants, Realtime!ReceiptEventsHold
  <1>4. Presence!IInv => Presence!IInv'
    <2> SUFFICES ASSUME Presence!IInv PROVE Presence!IInv'
      OBVIOUS
    <2>1. v3 \in [Roles -> Presence!Presence] /\ v4 \in BOOLEAN
      BY DEF Presence!IInv, Presence!TypeOK
    <2>2. \A r \in Roles : Presence!Listed(r)' => Presence!Listed(r) /\ v3'[r].point = v3[r].point
      BY <1>1 DEF Presence!Listed, Presence!Shown
    <2>3. QED
      BY <1>1, <2>1, <2>2, HidingStep
  <1>5. QED
    BY <1>2, <1>3, <1>4 DEF PartsIInv

\* Every step of a part keeps its inductive invariant.
LEMMA PartsInductive == PartsIInv /\ [PartsNext]_<<part, vars, parts>> => PartsIInv'
  <1> SUFFICES ASSUME PartsIInv, [PartsNext]_<<part, vars, parts>> PROVE PartsIInv'
    OBVIOUS
  <1>1. CASE part = "messaging" /\ Messaging!Next /\ UNCHANGED <<part, vars>>
    BY <1>1, MessagingStep DEF PartsIInv
  <1>2. CASE part = "realtime" /\ Realtime!Next /\ UNCHANGED <<part, vars, v9>>
    BY <1>2, RealtimeStep DEF PartsIInv
  <1>3. CASE part = "presence" /\ Presence!Next /\ UNCHANGED <<part, vars, v8, v9>>
    BY <1>3, PresenceStep DEF PartsIInv
  <1>4. CASE UNCHANGED <<part, parts>>
    BY <1>4, PartsStutter
  <1>5. QED
    BY <1>1, <1>2, <1>3, <1>4 DEF PartsNext

\* The inductive invariant holds in every behaviour of every part.
THEOREM PartsInvariant == PartsSpec => []PartsIInv
  BY PartsInitial, PartsInductive, PTL DEF PartsSpec

\* The variables of conversations, events and presence hold what they may
\* hold.
THEOREM PartsTypeCorrect == PartsSpec => []PartsTypeOK
  <1>1. PartsIInv => PartsTypeOK
    BY DEF PartsIInv, PartsTypeOK, Messaging!IInv, Realtime!IInv, Presence!IInv
  <1>2. QED
    BY <1>1, PartsInvariant, PTL

\* Whatever sends, retries, unmatches, blocks and penalties race
\* (messaging.service.ts), there is one message per client id, none by a
\* request that starts after the close, and the conversation has the time of
\* its last message unless two were in creation.
THEOREM MessagesStayInOrder == PartsSpec => []MessagesAreInOrder
  <1>1. PartsIInv => MessagesAreInOrder
    BY DEF PartsIInv, MessagesAreInOrder, Messaging!IInv
  <1>2. QED
    BY <1>1, PartsInvariant, PTL

\* Events of a conversation are heard by its participants only, on sockets
\* with a live session (messaging.gateway.ts), and receipts stay as told
\* (messaging.service.ts).
THEOREM EventsStayTrue == PartsSpec => []EventsAreTrue
  <1>1. PartsIInv => EventsAreTrue
    BY DEF PartsIInv, EventsAreTrue, Realtime!IInv
  <1>2. QED
    BY <1>1, PartsInvariant, PTL

\* No role is listed without a location, but where a deletion overtook the
\* request that shows it, and requests that come one at a time leave every
\* role listed at the location of the user (discovery.service.ts).
THEOREM RolesStayAtLocation == PartsSpec => []ListedAtLocation
  <1>1. PartsIInv => ListedAtLocation
    BY PresenceSafe DEF PartsIInv, ListedAtLocation
  <1>2. QED
    BY <1>1, PartsInvariant, PTL
=============================================================================
