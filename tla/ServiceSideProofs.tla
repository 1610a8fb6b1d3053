------------------------- MODULE ServiceSideProofs --------------------------
(***************************************************************************)
(* Machine-checked proofs about the services that ServiceSide hosts, for   *)
(* every number of users, requests, sessions, penalties, challenges,       *)
(* files, documents, devices, rows and services.                           *)
(***************************************************************************)
EXTENDS IdentityProofs

-----------------------------------------------------------------------------
(* Devices: v1 holds device, v2 dead, v3 job, v4 asked, v5 overtaken and   *)
(* v6 answered.                                                            *)

\* A row belongs to a user, and with a token it makes a target of a push.
LEMMA RegistrationFacts ==
  /\ \A d \in Devices!Registrations : d[1] \in Users
  /\ \A p \in Devices!Registrations \X Tokens : p[1] \in Devices!Registrations /\ p[2] \in Tokens
  /\ \A d \in Devices!Registrations, t \in Tokens : <<d, t>> \in Devices!Registrations \X Tokens
  BY DEF Devices!Registrations

\* At first no row has a token and nobody asks for one.
LEMMA DevicesInit == Devices!Init => Devices!IInv
  <1> SUFFICES ASSUME Devices!Init PROVE Devices!IInv
    OBVIOUS
  <1>1. Devices!TypeOK
    BY DEF Devices!Init, Devices!TypeOK, Devices!Row, Devices!Missing, Devices!Job, Devices!Idle
  <1>2. /\ \A r \in Requests : v3[r].pc = "idle"
        /\ \A d \in Devices!Registrations : ~ v1[d].isActive
        /\ v6 = {}
    BY DEF Devices!Init, Devices!Idle, Devices!Missing
  <1>3. QED
    BY <1>1, <1>2 DEF Devices!IInv, Devices!ClaimsHold, Devices!DeliveriesAgree, Devices!Delivering,
                      Devices!PushesFollowTheToken, Devices!AnsweredStays

\* Switching rows off makes no row active.
LEMMA SwitchOffFacts ==
  ASSUME Devices!IInv, NEW ds, v1' = Devices!SwitchOff(ds)
  PROVE  /\ v1' \in [Devices!Registrations -> Devices!Row]
         /\ \A d \in Devices!Registrations :
              /\ v1'[d].token = v1[d].token
              /\ v1'[d].isActive => v1[d].isActive /\ d \notin ds
  BY DEF Devices!SwitchOff, Devices!IInv, Devices!TypeOK, Devices!Row

\* A delivery that goes on, or a job that ends, has no more to push than before.
LEMMA JobsShrink ==
  ASSUME NEW r \in Requests, v3' \in [Requests -> Devices!Job],
         \A q \in Requests \ {r} : v3'[q] = v3[q],
         \/ v3'[r].pc = "idle"
         \/ r \in Devices!Delivering /\ v3'[r].pc \in {"send", "invalid"} /\ v3'[r].to \subseteq v3[r].to
  PROVE  /\ \A q \in Requests : v3'[q].pc = "upsert" => v3[q].pc = "upsert" /\ v3'[q].to = v3[q].to
         /\ \A q \in Devices!Delivering' : q \in Devices!Delivering /\ v3'[q].to \subseteq v3[q].to
  BY DEF Devices!Delivering

\* A job takes its new value, and the others theirs.
LEMMA JobSet ==
  ASSUME Devices!IInv, NEW r \in Requests, NEW x \in Devices!Job, v3' = [v3 EXCEPT ![r] = x]
  PROVE  v3' \in [Requests -> Devices!Job] /\ \A q \in Requests : v3'[q] = IF q = r THEN x ELSE v3[q]
  BY DEF Devices!IInv, Devices!TypeOK

\* Where rows are at most switched off, jobs have no more to do and claims stay
\* as they are, the invariant stays, if every registration that was answered
\* and not ended has its row left alone.
LEMMA DevicesQuiet ==
  ASSUME Devices!IInv, v1' \in [Devices!Registrations -> Devices!Row], v2' \subseteq Tokens,
         \A d \in Devices!Registrations :
           v1'[d].token = v1[d].token /\ (v1'[d].isActive => v1[d].isActive),
         v3' \in [Requests -> Devices!Job],
         \A q \in Requests : v3'[q].pc = "upsert" => v3[q].pc = "upsert" /\ v3'[q].to = v3[q].to,
         \A q \in Devices!Delivering' : q \in Devices!Delivering /\ v3'[q].to \subseteq v3[q].to,
         v4' = v4, v5' = v5, v6' \subseteq v6, \A a \in v6' : v1'[a[1]] = v1[a[1]]
  PROVE  Devices!IInv'
  <1>1. Devices!TypeOK'
    BY DEF Devices!IInv, Devices!TypeOK
  <1>2. Devices!ClaimsHold'
    BY DEF Devices!IInv, Devices!ClaimsHold
  <1>3. Devices!DeliveriesAgree'
    BY DEF Devices!IInv, Devices!DeliveriesAgree
  <1>4. Devices!PushesFollowTheToken'
    BY DEF Devices!IInv, Devices!PushesFollowTheToken
  <1>5. Devices!AnsweredStays'
    BY DEF Devices!IInv, Devices!AnsweredStays
  <1>6. QED
    BY <1>1, <1>2, <1>3, <1>4, <1>5 DEF Devices!IInv

\* Who asks for a token leaves a claim on it only to those who ask meanwhile.
LEMMA DevicesRegister ==
  ASSUME Devices!IInv, NEW r \in Requests, NEW d \in Devices!Registrations, NEW t \in Tokens,
         Devices!register(r, d, t)
  PROVE  Devices!IInv'
  <1> USE RegistrationFacts
  <1> DEFINE x == [pc |-> "upsert", token |-> t, to |-> {<<d, t>>}]
  <1>1. /\ v3[r].pc = "idle" /\ v3' = [v3 EXCEPT ![r] = x]
        /\ v1' = Devices!SwitchOff(Devices!OfOthers(d[1], t)) /\ v2' = v2
        /\ v4' = [v4 EXCEPT ![t] = {d[1]} \cup Devices!Asking(t)]
        /\ v5' = v5 \cup (Devices!Delivering \X {t})
        /\ v6' = {a \in v6 : a[2] = t => a[1][1] = d[1]}
    BY DEF Devices!register, Devices!Begin, Devices!Ask
  <1>2. /\ v3 \in [Requests -> Devices!Job] /\ v4 \in [Tokens -> SUBSET Users] /\ v2 \subseteq Tokens
        /\ v5 \subseteq Requests \X Tokens /\ v6 \subseteq Devices!Registrations \X Tokens
    BY DEF Devices!IInv, Devices!TypeOK
  <1>3. v3' \in [Requests -> Devices!Job] /\ \A q \in Requests : v3'[q] = IF q = r THEN x ELSE v3[q]
    BY <1>1, <1>2 DEF Devices!Job
  <1>4. Devices!Delivering' = Devices!Delivering /\ \A q \in Devices!Delivering : v3'[q].to = v3[q].to
    BY <1>1, <1>3 DEF Devices!Delivering
  <1>5. /\ Devices!Asking(t) \subseteq Users
        /\ v4' \in [Tokens -> SUBSET Users]
        /\ \A s \in Tokens : v4'[s] = IF s = t THEN {d[1]} \cup Devices!Asking(t) ELSE v4[s]
    BY <1>1, <1>2 DEF Devices!Asking
  <1>6. /\ v1' \in [Devices!Registrations -> Devices!Row]
        /\ \A e \in Devices!Registrations :
             /\ v1'[e].token = v1[e].token
             /\ v1'[e].isActive => v1[e].isActive /\ (v1[e].token = t => e[1] = d[1])
             /\ ~ (v1[e].token = t /\ e[1] # d[1]) => v1'[e] = v1[e]
    BY <1>1, SwitchOffFacts DEF Devices!OfOthers, Devices!SwitchOff
  <1>7. Devices!TypeOK'
    BY <1>1, <1>2, <1>3, <1>5, <1>6 DEF Devices!TypeOK, Devices!Delivering
  <1>8. Devices!ClaimsHold'
    <2>1. ASSUME NEW q \in Requests, v3'[q].pc = "upsert", NEW p \in v3'[q].to
          PROVE  p[1][1] \in v4'[p[2]]
      <3>1. CASE q = r
        BY <2>1, <3>1, <1>3, <1>5
      <3>2. CASE q # r
        <4>1. /\ v3[q].pc = "upsert" /\ p \in v3[q].to /\ p \in Devices!Registrations \X Tokens
              /\ p[1][1] \in v4[p[2]]
          BY <2>1, <3>2, <1>2, <1>3 DEF Devices!IInv, Devices!ClaimsHold, Devices!Job
        <4>2. p[2] = t => p[1][1] \in Devices!Asking(t)
          <5>1. SUFFICES ASSUME p[2] = t PROVE p[1][1] \in Devices!Asking(t)
            OBVIOUS
          <5>2. PICK u \in Users, k \in DeviceIds : p = <<<<u, k>>, t>>
            BY <4>1, <5>1 DEF Devices!Registrations
          <5>3. QED
            BY <4>1, <5>2 DEF Devices!Asking
        <4>3. QED
          BY <4>1, <4>2, <1>5
      <3>3. QED
        BY <3>1, <3>2
    <2>2. ASSUME NEW e \in Devices!Registrations, v1'[e].isActive
          PROVE  v1'[e].token \in Tokens /\ e[1] \in v4'[v1'[e].token]
      BY <2>2, <1>5, <1>6 DEF Devices!IInv, Devices!ClaimsHold
    <2>3. QED
      BY <2>1, <2>2 DEF Devices!ClaimsHold
  <1>9. Devices!DeliveriesAgree'
    BY <1>1, <1>4 DEF Devices!IInv, Devices!DeliveriesAgree
  <1>10. Devices!PushesFollowTheToken'
    <2> SUFFICES ASSUME NEW q \in Devices!Delivering, NEW p \in v3[q].to
                 PROVE  p[1][1] \in v4'[p[2]] \/ <<q, p[2]>> \in v5'
      BY <1>4 DEF Devices!PushesFollowTheToken
    <2>1. p[2] \in Tokens
      BY <1>2 DEF Devices!Delivering, Devices!Job
    <2>2. p[1][1] \in v4[p[2]] \/ <<q, p[2]>> \in v5
      BY DEF Devices!IInv, Devices!PushesFollowTheToken
    <2>3. QED
      BY <2>1, <2>2, <1>1, <1>5
  <1>11. Devices!AnsweredStays'
    <2> SUFFICES ASSUME NEW a \in v6'
                 PROVE  v1'[a[1]] = [token |-> a[2], isActive |-> TRUE]
      BY DEF Devices!AnsweredStays
    <2>1. /\ a \in v6 /\ (a[2] = t => a[1][1] = d[1])
          /\ a[1] \in Devices!Registrations /\ v1[a[1]] = [token |-> a[2], isActive |-> TRUE]
      BY <1>1, <1>2 DEF Devices!IInv, Devices!AnsweredStays
    <2>2. QED
      BY <2>1, <1>6
  <1>12. QED
    BY <1>7, <1>8, <1>9, <1>10, <1>11 DEF Devices!IInv

\* An upsert gives the row to someone with a claim, and its answer stands if no
\* delivery has read another token of the row.
LEMMA DevicesUpsert ==
  ASSUME Devices!IInv, NEW r \in Requests, Devices!Upsert(r)
  PROVE  Devices!IInv'
  <1> USE RegistrationFacts
  <1>0. PICK p \in v3[r].to :
          /\ v1' = [v1 EXCEPT ![p[1]] = [token |-> p[2], isActive |-> TRUE]]
          /\ Devices!Answer(p[1], p[2])
    BY DEF Devices!Upsert
  <1>1. /\ v1' = [v1 EXCEPT ![p[1]] = [token |-> p[2], isActive |-> TRUE]]
        /\ v6' = {a \in v6 : a[1] # p[1]} \cup {a \in {<<p[1], p[2]>>} : ~ Devices!Doubtful(a[1], a[2])}
    BY <1>0 DEF Devices!Answer
  <1>2. v3[r].pc = "upsert" /\ v3' = [v3 EXCEPT ![r] = Devices!Idle] /\ v2' = v2 /\ v4' = v4 /\ v5' = v5
    BY DEF Devices!Upsert, Devices!Finish
  <1>3. Devices!TypeOK /\ p \in Devices!Registrations \X Tokens /\ p = <<p[1], p[2]>>
    BY <1>1 DEF Devices!IInv, Devices!TypeOK, Devices!Job
  <1>4. /\ v3' \in [Requests -> Devices!Job]
        /\ \A q \in Requests : v3'[q].pc = "upsert" => v3[q].pc = "upsert" /\ v3'[q].to = v3[q].to
        /\ \A q \in Devices!Delivering' : q \in Devices!Delivering /\ v3'[q].to \subseteq v3[q].to
    BY <1>2, JobSet, JobsShrink DEF Devices!Idle, Devices!Job
  <1>5. /\ v1' \in [Devices!Registrations -> Devices!Row]
        /\ \A e \in Devices!Registrations :
             v1'[e] = IF e = p[1] THEN [token |-> p[2], isActive |-> TRUE] ELSE v1[e]
    BY <1>1, <1>3 DEF Devices!TypeOK, Devices!Row
  <1>6. Devices!TypeOK'
    BY <1>1, <1>2, <1>3, <1>4, <1>5 DEF Devices!TypeOK
  <1>7. Devices!ClaimsHold'
    <2>1. p[1][1] \in v4[p[2]]
      BY <1>1, <1>2 DEF Devices!IInv, Devices!ClaimsHold
    <2>2. QED
      BY <2>1, <1>2, <1>3, <1>4, <1>5 DEF Devices!IInv, Devices!ClaimsHold
  <1>8. Devices!DeliveriesAgree'
    <2> SUFFICES ASSUME NEW a \in v6', NEW q \in Devices!Delivering, NEW b \in v3[q].to, b[1] = a[1]
                 PROVE  b = a
      BY <1>4 DEF Devices!DeliveriesAgree
    <2>1. CASE a \in v6
      BY <2>1 DEF Devices!IInv, Devices!DeliveriesAgree
    <2>2. CASE a = <<p[1], p[2]>> /\ ~ Devices!Doubtful(a[1], a[2])
      <3>1. b = <<b[1], b[2]>>
        BY <1>3 DEF Devices!TypeOK, Devices!Delivering, Devices!Job
      <3>2. b[2] = a[2]
        BY <2>2 DEF Devices!Doubtful
      <3>3. QED
        BY <2>2, <3>1, <3>2
    <2>3. QED
      BY <1>1, <2>1, <2>2
  <1>9. Devices!PushesFollowTheToken'
    BY <1>2, <1>4 DEF Devices!IInv, Devices!PushesFollowTheToken
  <1>10. Devices!AnsweredStays'
    <2> SUFFICES ASSUME NEW a \in v6' PROVE v1'[a[1]] = [token |-> a[2], isActive |-> TRUE]
      BY DEF Devices!AnsweredStays
    <2>1. CASE a \in v6 /\ a[1] # p[1]
      BY <2>1, <1>3, <1>5 DEF Devices!IInv, Devices!AnsweredStays, Devices!TypeOK
    <2>2. CASE a = <<p[1], p[2]>>
      BY <2>2, <1>3, <1>5
    <2>3. QED
      BY <1>1, <2>1, <2>2
  <1>11. QED
    BY <1>6, <1>7, <1>8, <1>9, <1>10 DEF Devices!IInv

\* A delivery reads active rows, whose users have a claim, and as they stand.
LEMMA DevicesDeliver ==
  ASSUME Devices!IInv, NEW r \in Requests, NEW u \in Users, Devices!deliverPush(r, u)
  PROVE  Devices!IInv'
  <1> USE RegistrationFacts
  <1> DEFINE found == {<<d, v1[d].token>> : d \in Devices!ActiveOf(u)}
             x == [pc |-> "send", token |-> NoToken, to |-> found]
  <1>1. /\ v3[r].pc = "idle" /\ v3' = [v3 EXCEPT ![r] = x]
        /\ v5' = v5 \ ({r} \X Tokens) /\ UNCHANGED <<v1, v2, v4, v6>>
    BY DEF Devices!deliverPush, Devices!Begin
  <1>2. Devices!TypeOK
    BY DEF Devices!IInv
  <1>3. \A b \in found : /\ b \in Devices!Registrations \X Tokens
                         /\ v1[b[1]].isActive /\ v1[b[1]].token = b[2] /\ b[1][1] \in v4[b[2]]
    BY DEF Devices!ActiveOf, Devices!IInv, Devices!ClaimsHold
  <1>4. v3' \in [Requests -> Devices!Job] /\ \A q \in Requests : v3'[q] = IF q = r THEN x ELSE v3[q]
    BY <1>1, <1>2, <1>3 DEF Devices!TypeOK, Devices!Job
  <1>5. \A q \in Devices!Delivering' : q = r \/ (q \in Devices!Delivering /\ q # r /\ v3'[q].to = v3[q].to)
    BY <1>4 DEF Devices!Delivering
  <1>6. Devices!TypeOK'
    BY <1>1, <1>2, <1>4 DEF Devices!TypeOK
  <1>7. Devices!ClaimsHold'
    BY <1>1, <1>4 DEF Devices!IInv, Devices!ClaimsHold
  <1>8. Devices!DeliveriesAgree'
    <2> SUFFICES ASSUME NEW a \in v6, NEW q \in Devices!Delivering', NEW b \in v3'[q].to, b[1] = a[1]
                 PROVE  b = a
      BY <1>1 DEF Devices!DeliveriesAgree
    <2>1. CASE q = r
      <3>1. b \in found
        BY <2>1, <1>4
      <3>2. a = <<a[1], a[2]>> /\ v1[a[1]].token = a[2]
        <4>1. a \in Devices!Registrations \X Tokens
          BY <1>2 DEF Devices!TypeOK
        <4>2. v1[a[1]] = [token |-> a[2], isActive |-> TRUE]
          BY DEF Devices!IInv, Devices!AnsweredStays
        <4>3. QED
          BY <4>1, <4>2
      <3>3. b = <<b[1], b[2]>> /\ b[2] = v1[b[1]].token
        BY <3>1, <1>3
      <3>4. QED
        BY <3>2, <3>3
    <2>2. CASE q # r
      BY <2>2, <1>5 DEF Devices!IInv, Devices!DeliveriesAgree
    <2>3. QED
      BY <2>1, <2>2
  <1>9. Devices!PushesFollowTheToken'
    <2> SUFFICES ASSUME NEW q \in Devices!Delivering', NEW b \in v3'[q].to
                 PROVE  b[1][1] \in v4[b[2]] \/ <<q, b[2]>> \in v5'
      BY <1>1 DEF Devices!PushesFollowTheToken
    <2>1. CASE q = r
      BY <2>1, <1>3, <1>4
    <2>2. CASE q # r
      BY <2>2, <1>1, <1>5 DEF Devices!IInv, Devices!PushesFollowTheToken
    <2>3. QED
      BY <2>1, <2>2
  <1>10. Devices!AnsweredStays'
    BY <1>1 DEF Devices!IInv, Devices!AnsweredStays
  <1>11. QED
    BY <1>6, <1>7, <1>8, <1>9, <1>10 DEF Devices!IInv

\* A delivery switches off by id the row of a token found invalid, which is not
\* that of an answered registration of another token.
LEMMA DevicesSwitchOff ==
  ASSUME Devices!IInv, NEW r \in Requests, Devices!SwitchOffInvalid(r)
  PROVE  Devices!IInv'
  <1>1. PICK p \in v3[r].to :
          /\ v1' = Devices!SwitchOff({p[1]}) /\ v6' = v6 \ {p}
          /\ v3' = [v3 EXCEPT ![r] = [pc |-> "send", token |-> NoToken, to |-> v3[r].to \ {p}]]
    BY DEF Devices!SwitchOffInvalid
  <1>2. r \in Devices!Delivering /\ v2' = v2 /\ v4' = v4 /\ v5' = v5 /\ Devices!TypeOK
    BY DEF Devices!SwitchOffInvalid, Devices!Delivering, Devices!IInv
  <1>3. [pc |-> "send", token |-> NoToken, to |-> v3[r].to \ {p}] \in Devices!Job
    BY <1>2 DEF Devices!TypeOK, Devices!Job
  <1>4. /\ v3' \in [Requests -> Devices!Job]
        /\ \A q \in Requests : v3'[q].pc = "upsert" => v3[q].pc = "upsert" /\ v3'[q].to = v3[q].to
        /\ \A q \in Devices!Delivering' : q \in Devices!Delivering /\ v3'[q].to \subseteq v3[q].to
    BY <1>1, <1>2, <1>3, JobSet, JobsShrink
  <1>5. \A a \in v6' : a[1] # p[1] /\ a[1] \in Devices!Registrations
    BY <1>1, <1>2 DEF Devices!IInv, Devices!DeliveriesAgree, Devices!TypeOK
  <1>6. \A a \in v6' : v1'[a[1]] = v1[a[1]]
    BY <1>1, <1>5 DEF Devices!SwitchOff
  <1>7. QED
    BY <1>1, <1>2, <1>4, <1>6, SwitchOffFacts, DevicesQuiet DEF Devices!TypeOK

\* Claims on tokens, what deliveries have read and what was answered keep
\* agreeing.
LEMMA DevicesStep == Devices!IInv /\ Devices!Next => Devices!IInv'
  <1> SUFFICES ASSUME Devices!IInv, Devices!Next PROVE Devices!IInv'
    OBVIOUS
  <1>0. Devices!TypeOK /\ v1 \in [Devices!Registrations -> Devices!Row] /\ v2 \subseteq Tokens
    BY DEF Devices!IInv, Devices!TypeOK
  <1>1. ASSUME NEW d \in Devices!Registrations, Devices!remove(d)
        PROVE  Devices!IInv'
    <2>1. /\ v1' = Devices!SwitchOff({d}) /\ v6' = {a \in v6 : a[1] # d}
          /\ UNCHANGED <<v2, v3, v4, v5>>
      BY <1>1 DEF Devices!remove
    <2>2. \A a \in v6' : v1'[a[1]] = v1[a[1]]
      BY <2>1, <1>0 DEF Devices!SwitchOff, Devices!TypeOK
    <2>3. QED
      BY <2>1, <2>2, <1>0, SwitchOffFacts, DevicesQuiet DEF Devices!TypeOK, Devices!Delivering
  <1>2. ASSUME NEW r \in Requests, Devices!Send(r)
        PROVE  Devices!IInv'
    <2>1. PICK p \in v3[r].to :
            v3' = IF p[2] \in v2 THEN [v3 EXCEPT ![r].pc = "invalid", ![r].token = p[2]]
                  ELSE [v3 EXCEPT ![r].to = v3[r].to \ {p}]
      BY <1>2 DEF Devices!Send
    <2>2. /\ UNCHANGED <<v1, v2, v4, v5, v6>> /\ r \in Devices!Delivering
          /\ v3[r] \in Devices!Job /\ v3[r].pc = "send" /\ p[2] \in Tokens
      BY <1>2, <2>1, <1>0 DEF Devices!Send, Devices!history, Devices!Delivering, Devices!TypeOK, Devices!Job
    <2>3. /\ v3' \in [Requests -> Devices!Job]
          /\ \A q \in Requests \ {r} : v3'[q] = v3[q]
          /\ v3'[r].pc \in {"send", "invalid"} /\ v3'[r].to \subseteq v3[r].to
      BY <2>1, <2>2, <1>0 DEF Devices!TypeOK, Devices!Job
    <2>4. /\ v3' \in [Requests -> Devices!Job]
          /\ \A q \in Requests : v3'[q].pc = "upsert" => v3[q].pc = "upsert" /\ v3'[q].to = v3[q].to
          /\ \A q \in Devices!Delivering' : q \in Devices!Delivering /\ v3'[q].to \subseteq v3[q].to
      BY <2>2, <2>3, JobsShrink
    <2>5. QED
      BY <2>2, <2>4, <1>0, DevicesQuiet
  <1>3. ASSUME NEW t \in Tokens, Devices!Uninstall(t)
        PROVE  Devices!IInv'
    <2>1. v2' \subseteq Tokens /\ UNCHANGED <<v1, v3, v4, v5, v6>>
      BY <1>3, <1>0 DEF Devices!Uninstall, Devices!history
    <2>2. QED
      BY <2>1, <1>0, DevicesQuiet DEF Devices!TypeOK, Devices!Delivering
  <1>4. ASSUME NEW r \in Requests, Devices!End(r)
        PROVE  Devices!IInv'
    <2>1. v3' = [v3 EXCEPT ![r] = Devices!Idle] /\ UNCHANGED <<v1, v2, v4, v5, v6>>
      BY <1>4 DEF Devices!End, Devices!Finish, Devices!history
    <2>2. /\ v3' \in [Requests -> Devices!Job]
          /\ \A q \in Requests : v3'[q].pc = "upsert" => v3[q].pc = "upsert" /\ v3'[q].to = v3[q].to
          /\ \A q \in Devices!Delivering' : q \in Devices!Delivering /\ v3'[q].to \subseteq v3[q].to
      BY <2>1, JobSet, JobsShrink DEF Devices!Idle, Devices!Job
    <2>3. QED
      BY <2>1, <2>2, <1>0, DevicesQuiet
  <1>5. QED
    BY <1>1, <1>2, <1>3, <1>4, DevicesRegister, DevicesUpsert, DevicesDeliver, DevicesSwitchOff
    DEF Devices!Next

-----------------------------------------------------------------------------
(* Legal: v1 holds document, v2 accepted, v3 lock, v4 legal and v5         *)
(* overtaken.                                                              *)

\* What an idle request holds.
LEMMA LegalDefaults ==
  /\ Legal!Idle \in Legal!Request /\ Legal!Idle.pc = "idle" /\ Legal!Idle.on = {}
  /\ Legal!NoDocument \in Legal!Document /\ Legal!NoDocument.status = "none"
  /\ Legal!NoDocument.activeTypeKey = FALSE
  BY LimitAssumption DEF Legal!Idle, Legal!Request, Legal!NoDocument, Legal!Document

\* A status and a key leave a document its text.
LEMMA LegalStatusFacts ==
  ASSUME NEW x \in Legal!Document, NEW s \in {"ACTIVE", "ARCHIVED"}, NEW k \in BOOLEAN
  PROVE  LET y == [x EXCEPT !.status = s, !.activeTypeKey = k]
         IN y \in Legal!Document /\ y.status = s /\ y.activeTypeKey = k /\ y.text = x.text
  BY DEF Legal!Document

\* At first there are no documents.
LEMMA LegalInit == Legal!Init => Legal!IInv
  BY LegalDefaults, LimitAssumption
  DEF Legal!Init, Legal!IInv, Legal!TypeOK, Legal!OneKey, Legal!Actives, Legal!ActivationsExclude,
      Legal!ConsentsStandNow

\* A request moves to x, which has the lock, has seen all it must and consents
\* to what stands; the documents stay.
LEMMA LegalMoves ==
  ASSUME Legal!IInv, NEW r \in Requests, NEW x \in Legal!Request, v4' = [v4 EXCEPT ![r] = x],
         v1' = v1, v5' = v5,
         v2' \subseteq Legal!Consent, \A c \in v2' : c \in v2 \/ (v4[r].pc = "consent" /\ c \in v4[r].seen),
         v3' \in Requests \cup {Nobody},
         x.pc \in {"archive", "activate"} => v3' = r,
         \A q \in Requests \ {r} : v3 = q => v3' = q,
         \A d, e \in x.on : d = e,
         x.pc = "activate" /\ x.action = "ACTIVATE" => Legal!Actives \subseteq x.on \cup x.seen,
         x.pc = "consent" => \A c \in x.seen : Legal!Stands(c)
  PROVE  Legal!IInv'
  <1> USE DEF Legal!IInv, Legal!TypeOK, Legal!ConsentsStandNow, Legal!ActivationsExclude
  <1>1. Legal!TypeOK' /\ v4'[r] = x /\ \A q \in Requests \ {r} : v4'[q] = v4[q]
    OBVIOUS
  <1>2. Legal!Actives' = Legal!Actives /\ Legal!OneKey'
    BY DEF Legal!Actives, Legal!OneKey
  <1>3. Legal!ActivationsExclude'
    BY <1>1, <1>2
  <1>4. Legal!ConsentsStandNow'
    BY <1>1 DEF Legal!Stands
  <1>5. QED
    BY <1>1, <1>2, <1>3, <1>4

\* Documents change, and a request may end: consents stand on them, one is
\* active at most, and no activation that could miss it is under way.
LEMMA LegalWrites ==
  ASSUME Legal!IInv, v2' = v2, v1' \in [Documents -> Legal!Document],
         v4' \in [Requests -> Legal!Request],
         \A q \in Requests : v4'[q] = v4[q] \/ v4'[q] = Legal!Idle,
         v3' \in Requests \cup {Nobody}, \A q \in Requests : v3 = q /\ v4'[q] # Legal!Idle => v3' = q,
         v5' \in BOOLEAN, v5 => v5',
         \A d \in Documents :
           v1[d].status \in {"ACTIVE", "ARCHIVED"} =>
             /\ v1'[d].status \in {"ACTIVE", "ARCHIVED"}
             /\ v5' \/ v1'[d].text = v1[d].text,
         Legal!OneKey',
         \A q \in Requests : v4'[q].pc = "activate" => Legal!Actives' \subseteq Legal!Actives
  PROVE  Legal!IInv'
  <1> USE DEF Legal!IInv, Legal!TypeOK, Legal!ConsentsStandNow, Legal!ActivationsExclude
  <1>1. Legal!TypeOK'
    OBVIOUS
  <1>2. Legal!ActivationsExclude'
    BY LegalDefaults
  <1>3. \A c : Legal!Stands(c) => Legal!Stands(c)'
    BY DEF Legal!Stands, Legal!Consent
  <1>4. Legal!ConsentsStandNow'
    BY <1>3, LegalDefaults
  <1>5. QED
    BY <1>1, <1>2, <1>4

\* Every step of the documents and consents keeps their inductive invariant.
LEMMA LegalStep == Legal!IInv /\ Legal!Next => Legal!IInv'
  <1> SUFFICES ASSUME Legal!IInv, Legal!Next PROVE Legal!IInv'
    OBVIOUS
  <1>0. /\ v1 \in [Documents -> Legal!Document] /\ v2 \subseteq Legal!Consent
        /\ v3 \in Requests \cup {Nobody} /\ v4 \in [Requests -> Legal!Request]
        /\ v5 \in BOOLEAN
    BY DEF Legal!IInv, Legal!TypeOK
  <1>1. ASSUME NEW d \in Documents, Legal!createLegalDocument(d)
        PROVE  Legal!IInv'
    <2>1. PICK due \in BOOLEAN : v1' = [v1 EXCEPT ![d] =
            [Legal!NoDocument EXCEPT !.status = "INACTIVE", !.due = due]]
      BY <1>1 DEF Legal!createLegalDocument
    <2> DEFINE x == [Legal!NoDocument EXCEPT !.status = "INACTIVE", !.due = due]
    <2>2. /\ x \in Legal!Document /\ x.status = "INACTIVE" /\ x.activeTypeKey = FALSE
      BY LegalDefaults DEF Legal!Document
    <2> HIDE DEF x
    <2>3. Legal!Actives' = Legal!Actives /\ Legal!OneKey'
      BY <1>0, <1>1, <2>1, <2>2 DEF Legal!Actives, Legal!OneKey, Legal!IInv, Legal!createLegalDocument, x
    <2>4. QED
      BY <1>0, <1>1, <2>1, <2>2, <2>3, LegalWrites DEF Legal!createLegalDocument, x
  <1>2. ASSUME NEW r \in Requests, NEW d \in Documents, Legal!updateLegalDocument(r, d)
        PROVE  Legal!IInv'
    <2> DEFINE x == [Legal!Idle EXCEPT !.pc = "edit", !.action = "none", !.on = {d}]
    <2>1. x \in Legal!Request /\ x.pc = "edit" /\ x.on = {d}
      BY LegalDefaults DEF Legal!Request
    <2>2. v4' = [v4 EXCEPT ![r] = x] /\ v1' = v1 /\ v2' = v2 /\ v3' = v3 /\ v5' = v5
      BY <1>2 DEF Legal!updateLegalDocument, Legal!Begin
    <2> HIDE DEF x
    <2>3. QED
      BY <1>0, <2>1, <2>2, LegalMoves
  <1>3. ASSUME NEW r \in Requests, Legal!EditCommit(r)
        PROVE  Legal!IInv'
    <2>1. PICK d \in v4[r].on, due \in BOOLEAN :
            /\ v1[d].text < MaxEdits
            /\ v1' = [v1 EXCEPT ![d].text = @ + 1, ![d].due = due]
            /\ v5' = (v5 \/ ~ Legal!Editable(d))
      BY <1>3 DEF Legal!EditCommit
    <2>2. /\ v4' = [v4 EXCEPT ![r] = Legal!Idle] /\ v2' = v2 /\ v3' = v3
      BY <1>3 DEF Legal!EditCommit, Legal!Finish
    <2>3. d \in Documents /\ v1[d] \in Legal!Document /\ v1[d].text + 1 \in 0..MaxEdits
      BY <1>0, <2>1, LimitAssumption DEF Legal!Request, Legal!Document
    <2> DEFINE x == [v1[d] EXCEPT !.text = v1[d].text + 1, !.due = due]
    <2>4. /\ x \in Legal!Document /\ x.status = v1[d].status /\ x.activeTypeKey = v1[d].activeTypeKey
          /\ v1' = [v1 EXCEPT ![d] = x]
      BY <1>0, <2>1, <2>3 DEF Legal!Document
    <2> HIDE DEF x
    <2>5. v1' \in [Documents -> Legal!Document] /\ Legal!Actives' = Legal!Actives /\ Legal!OneKey'
      BY <1>0, <2>3, <2>4 DEF Legal!Actives, Legal!OneKey, Legal!IInv
    <2>6. \A e \in Documents : v1[e].status \in {"ACTIVE", "ARCHIVED"} =>
            /\ v1'[e].status \in {"ACTIVE", "ARCHIVED"}
            /\ v5' \/ v1'[e].text = v1[e].text
      BY <1>0, <2>1, <2>3, <2>4 DEF Legal!Editable
    <2>7. v5' \in BOOLEAN /\ (v5 => v5')
      BY <1>0, <2>1
    <2>8. QED
      BY <1>0, <2>2, <2>5, <2>6, <2>7, LegalDefaults, LegalWrites
  <1>4. ASSUME NEW r \in Requests, NEW d \in Documents, NEW action \in {"ACTIVATE", "ARCHIVE"},
               Legal!legalStatus(r, d, action)
        PROVE  Legal!IInv'
    <2> DEFINE x == [Legal!Idle EXCEPT !.pc = "lock", !.action = action, !.on = {d}]
    <2>1. x \in Legal!Request /\ x.pc = "lock" /\ x.on = {d}
      BY LegalDefaults DEF Legal!Request
    <2>2. v4' = [v4 EXCEPT ![r] = x] /\ v1' = v1 /\ v2' = v2 /\ v3' = v3 /\ v5' = v5
      BY <1>4 DEF Legal!legalStatus, Legal!Begin
    <2> HIDE DEF x
    <2>3. QED
      BY <1>0, <2>1, <2>2, LegalMoves
  <1>5. ASSUME NEW r \in Requests, Legal!Lock(r)
        PROVE  Legal!IInv'
    <2> DEFINE x == [v4[r] EXCEPT !.pc = "archive"]
    <2>1. v4' = [v4 EXCEPT ![r] = x] /\ v1' = v1 /\ v2' = v2 /\ v3' = r /\ v5' = v5 /\ v3 = Nobody
      BY <1>5 DEF Legal!Lock
    <2>2. x \in Legal!Request /\ x.pc = "archive" /\ x.on = v4[r].on
      BY <1>0 DEF Legal!Request
    <2> HIDE DEF x
    <2>3. \A d, e \in x.on : d = e
      BY <2>2 DEF Legal!IInv, Legal!ActivationsExclude
    <2>4. QED
      BY <1>0, <2>1, <2>2, <2>3, LegalMoves, NobodyAssumption
  <1>6. ASSUME NEW r \in Requests, Legal!StatusOthers(r)
        PROVE  Legal!IInv'
    <2> DEFINE seen == IF v4[r].action = "ACTIVATE" THEN Legal!Actives \ v4[r].on ELSE {}
               x == [v4[r] EXCEPT !.pc = "activate", !.seen = seen]
    <2>1. v4' = [v4 EXCEPT ![r] = x] /\ v1' = v1 /\ v2' = v2 /\ v3' = v3 /\ v5' = v5
      BY <1>0, <1>6 DEF Legal!StatusOthers
    <2>2. /\ x \in Legal!Request /\ x.pc = "activate" /\ x.on = v4[r].on
          /\ x.action = v4[r].action /\ x.seen = seen
      BY <1>0 DEF Legal!Request, Legal!Actives
    <2>3. v3 = r /\ \A d, e \in x.on : d = e
      BY <1>6, <2>2 DEF Legal!IInv, Legal!ActivationsExclude, Legal!StatusOthers
    <2>4. x.action = "ACTIVATE" => Legal!Actives \subseteq x.on \cup x.seen
      BY <2>2
    <2> HIDE DEF x, seen
    <2>5. QED
      BY <1>0, <2>1, <2>2, <2>3, <2>4, LegalMoves
  <1>7. ASSUME NEW r \in Requests, Legal!StatusCommit(r)
        PROVE  Legal!IInv'
    <2>1. /\ v4' = [v4 EXCEPT ![r] = Legal!Idle] /\ v2' = v2 /\ v5' = v5
          /\ v3' = (IF v3 = r THEN Nobody ELSE v3) /\ v4[r].pc = "activate"
      BY <1>7 DEF Legal!StatusCommit, Legal!Finish, Legal!Release
    <2>2. v3 = r /\ (\A d, e \in v4[r].on : d = e) /\ \A q \in Requests \ {r} : v4[q].pc # "activate"
      BY <2>1, NobodyAssumption DEF Legal!IInv, Legal!ActivationsExclude
    <2>3. \A q \in Requests : v4'[q].pc # "activate" /\ (v4'[q] = v4[q] \/ v4'[q] = Legal!Idle)
      BY <1>0, <2>1, <2>2, LegalDefaults
    <2> DEFINE on(d) == [v1[d] EXCEPT !.status = "ACTIVE", !.activeTypeKey = TRUE]
               off(d) == [v1[d] EXCEPT !.status = "ARCHIVED", !.activeTypeKey = FALSE]
    <2>a. \/ v1' = [d \in Documents |-> IF d \in v4[r].on THEN off(d) ELSE v1[d]]
          \/ v1' = [d \in Documents |-> IF d \in v4[r].on THEN on(d)
                                        ELSE IF d \in v4[r].seen THEN off(d) ELSE v1[d]]
      BY <1>7 DEF Legal!StatusCommit
    <2>b. \A d \in Documents :
            /\ on(d) \in Legal!Document /\ off(d) \in Legal!Document
            /\ on(d).status = "ACTIVE" /\ off(d).status = "ARCHIVED"
            /\ on(d).activeTypeKey = TRUE /\ off(d).activeTypeKey = FALSE
            /\ on(d).text = v1[d].text /\ off(d).text = v1[d].text
      BY <1>0, LegalStatusFacts
    <2> HIDE DEF on, off
    <2>4. /\ v1' \in [Documents -> Legal!Document]
          /\ \A d \in Documents : v1[d].status \in {"ACTIVE", "ARCHIVED"} =>
               v1'[d].status \in {"ACTIVE", "ARCHIVED"} /\ v1'[d].text = v1[d].text
      BY <1>0, <2>a, <2>b
    <2>5. Legal!OneKey'
      <3>1. CASE v4[r].action = "ARCHIVE"
        <4>1. \A d \in Documents : IF d \in v4[r].on
                THEN v1'[d].status = "ARCHIVED" /\ v1'[d].activeTypeKey = FALSE ELSE v1'[d] = v1[d]
          BY <1>0, <1>7, <3>1 DEF Legal!StatusCommit, Legal!Document
        <4>2. QED
          BY <4>1 DEF Legal!OneKey, Legal!Actives, Legal!IInv
      <3>2. CASE v4[r].action # "ARCHIVE"
        <4>1. \A d \in Documents :
                /\ d \in v4[r].on => v1'[d].status = "ACTIVE" /\ v1'[d].activeTypeKey = TRUE
                /\ d \in v4[r].seen \ v4[r].on => v1'[d].status = "ARCHIVED" /\ v1'[d].activeTypeKey = FALSE
                /\ d \notin v4[r].on \cup v4[r].seen => v1'[d] = v1[d] /\ v1[d].activeTypeKey = FALSE
          <5>1. v1' = [d \in Documents |-> IF d \in v4[r].on THEN on(d)
                                           ELSE IF d \in v4[r].seen THEN off(d) ELSE v1[d]]
            BY <1>7, <3>2 DEF Legal!StatusCommit, on, off
          <5>2. \A d \in Documents \ (v4[r].on \cup v4[r].seen) : v1[d].activeTypeKey = FALSE
            BY <1>0, <1>7, <3>2 DEF Legal!StatusCommit, Legal!KeysInTheWay, Legal!Document
          <5>3. QED
            BY <2>b, <5>1, <5>2
        <4>2. QED
          BY <2>2, <4>1 DEF Legal!OneKey, Legal!Actives, Legal!IInv
      <3>3. QED
        BY <3>1, <3>2
    <2>6. QED
      BY <1>0, <2>1, <2>2, <2>3, <2>4, <2>5, LegalDefaults, LegalWrites
  <1>8. ASSUME NEW r \in Requests, NEW u \in Users, Legal!consent(r, u)
        PROVE  Legal!IInv'
    <2> DEFINE seen == {[user |-> u, document |-> d, text |-> v1[d].text] : d \in Legal!currentLegal}
               x == [Legal!Idle EXCEPT !.pc = "consent", !.user = {u}, !.seen = seen]
    <2>1. v4' = [v4 EXCEPT ![r] = x] /\ v1' = v1 /\ v2' = v2 /\ v3' = v3 /\ v5' = v5
      BY <1>0, <1>8 DEF Legal!consent
    <2>2. \A c \in seen : Legal!Stands(c)
      BY <1>0 DEF Legal!Stands, Legal!currentLegal, Legal!Actives, Legal!Consent, Legal!Document
    <2>3. \A c \in seen : c \in Legal!Consent
      BY <2>2 DEF Legal!Stands
    <2> HIDE DEF seen
    <2>4. x \in Legal!Request /\ x.pc = "consent" /\ x.on = {} /\ x.seen = seen
      BY <2>3, LegalDefaults DEF Legal!Request
    <2> HIDE DEF x
    <2>5. QED
      BY <1>0, <2>1, <2>2, <2>4, LegalMoves
  <1>9. ASSUME NEW r \in Requests, Legal!ConsentCommit(r)
        PROVE  Legal!IInv'
    <2>1. /\ v4' = [v4 EXCEPT ![r] = Legal!Idle] /\ v1' = v1 /\ v3' = v3 /\ v5' = v5
          /\ v4[r].pc = "consent" /\ \A c \in v2' : c \in v2 \/ c \in v4[r].seen
      BY <1>9 DEF Legal!ConsentCommit, Legal!Finish
    <2>2. v2' \subseteq Legal!Consent
      BY <1>0, <2>1 DEF Legal!IInv, Legal!ConsentsStandNow, Legal!Stands
    <2>3. QED
      BY <1>0, <2>1, <2>2, LegalDefaults, LegalMoves
  <1>10. ASSUME NEW r \in Requests, Legal!End(r)
         PROVE  Legal!IInv'
    <2>1. /\ v4' = [v4 EXCEPT ![r] = Legal!Idle] /\ v1' = v1 /\ v2' = v2 /\ v5' = v5
          /\ v3' = IF v3 = r THEN Nobody ELSE v3
      BY <1>10 DEF Legal!End, Legal!Finish, Legal!Release
    <2>2. QED
      BY <1>0, <2>1, LegalDefaults, LegalMoves
  <1>11. ASSUME NEW d \in Documents, Legal!Pass(d)
         PROVE  Legal!IInv'
    <2>1. v1' = [v1 EXCEPT ![d].due = TRUE] /\ v2' = v2 /\ v3' = v3 /\ v4' = v4 /\ v5' = v5
      BY <1>11 DEF Legal!Pass
    <2>2. /\ v1' \in [Documents -> Legal!Document]
          /\ \A e \in Documents : /\ v1'[e].status = v1[e].status /\ v1'[e].text = v1[e].text
                                  /\ v1'[e].activeTypeKey = v1[e].activeTypeKey
      BY <1>0, <2>1 DEF Legal!Document
    <2>3. Legal!Actives' = Legal!Actives /\ Legal!OneKey'
      BY <2>2 DEF Legal!Actives, Legal!OneKey, Legal!IInv
    <2>4. QED
      BY <1>0, <2>1, <2>2, <2>3, LegalWrites
  <1>12. QED
    BY <1>1, <1>2, <1>3, <1>4, <1>5, <1>6, <1>7, <1>8, <1>9, <1>10, <1>11 DEF Legal!Next

\* What the inductive invariant says of the documents and consents.
LEMMA LegalSafe == Legal!IInv => Legal!OneActiveVersion /\ Legal!ConsentedTextStays
  <1> SUFFICES ASSUME Legal!IInv PROVE Legal!OneActiveVersion /\ Legal!ConsentedTextStays
    OBVIOUS
  <1>1. Cardinality(Legal!Actives) <= 1
    BY AtMostOne DEF Legal!IInv, Legal!OneKey
  <1>2. ASSUME NEW r \in Requests, v4[r].pc = "activate", v4[r].action = "ACTIVATE"
        PROVE  Legal!KeysInTheWay(r) = {}
    BY <1>2 DEF Legal!IInv, Legal!OneKey, Legal!Actives, Legal!ActivationsExclude, Legal!KeysInTheWay
  <1>3. Legal!ConsentedTextStays
    BY DEF Legal!IInv, Legal!ConsentsStandNow, Legal!Stands, Legal!ConsentedTextStays
  <1>4. QED
    <2>1. Legal!Cardinality(Legal!Actives) = Cardinality(Legal!Actives)
      BY DEF Legal!Cardinality, Cardinality
    <2>2. Legal!OneActiveVersion
      BY <1>1, <1>2, <2>1 DEF Legal!OneActiveVersion
    <2>3. QED
      BY <1>3, <2>2

-----------------------------------------------------------------------------
(* Catalogue: v1 holds field, v2 service, v3 fields, v4 selected, v5       *)
(* request, v6 stale and v7 revived.                                       *)

\* What an idle request holds.
LEMMA CatalogueDefaults ==
  Catalogue!Idle \in Catalogue!Request /\ Catalogue!Idle.pc = "idle"
  BY DEF Catalogue!Idle, Catalogue!Asked, Catalogue!Request, Catalogue!Pcs

\* At first nothing is selected and nothing archived.
LEMMA CatalogueInit == Catalogue!Init => Catalogue!IInv
  <1> SUFFICES ASSUME Catalogue!Init PROVE Catalogue!IInv
    OBVIOUS
  <1>1. v2 \in [Services -> Catalogue!Service] /\ \A s \in Services : v2[s].status = "none"
    BY DEF Catalogue!Init, Catalogue!Service
  <1>2. Catalogue!TypeOK
    BY <1>1, CatalogueDefaults DEF Catalogue!Init, Catalogue!TypeOK, Catalogue!Statuses
  <1>3. Catalogue!ServicesExist /\ Catalogue!ArchivedFieldsAreEmpty
    BY <1>1, CatalogueDefaults
    DEF Catalogue!Init, Catalogue!ServicesExist, Catalogue!ArchivedFieldsAreEmpty
  <1>4. Catalogue!ServicesBelong
    BY DEF Catalogue!Init, Catalogue!ServicesBelong, Catalogue!publicProfile
  <1>5. QED
    BY <1>2, <1>3, <1>4 DEF Catalogue!IInv

\* A request moves to x, which is about services there are; the rows stay.
LEMMA CatalogueMoves ==
  ASSUME Catalogue!IInv, NEW r \in Requests, NEW x \in Catalogue!Request,
         v5' = [v5 EXCEPT ![r] = x],
         v1' = v1, v2' = v2, v3' = v3, v4' = v4, v6' = v6, v7' = v7,
         x.pc \in {"target", "update", "pick", "services", "servicesIn"} =>
           \A s \in x.services : v2[s].status # "none"
  PROVE  Catalogue!IInv'
  <1> USE DEF Catalogue!IInv, Catalogue!TypeOK
  <1>1. Catalogue!TypeOK' /\ v5'[r] = x /\ \A q \in Requests \ {r} : v5'[q] = v5[q]
    OBVIOUS
  <1>2. Catalogue!ServicesExist'
    BY <1>1 DEF Catalogue!ServicesExist
  <1>3. Catalogue!ServicesBelong'
    BY DEF Catalogue!ServicesBelong, Catalogue!publicProfile
  <1>4. Catalogue!ArchivedFieldsAreEmpty'
    BY DEF Catalogue!ArchivedFieldsAreEmpty
  <1>5. QED
    BY <1>1, <1>2, <1>3, <1>4

\* A request ends, what services there are stay, and the rows keep to the rules.
LEMMA CatalogueWrites ==
  ASSUME Catalogue!IInv, NEW r \in Requests,
         v5' \in [Requests -> Catalogue!Request],
         \A q \in Requests : v5'[q].pc # "idle" => v5'[q].pc = v5[q].pc /\ v5'[q].services = v5[q].services,
         v1' \in [Fields -> Catalogue!Statuses], v2' \in [Services -> Catalogue!Service],
         v3' \subseteq Fields, v4' \subseteq Services, v6' \in BOOLEAN, v7' \in BOOLEAN,
         \A s \in Services : v2[s].status # "none" => v2'[s].status # "none",
         \A s \in v4' : v2[s].status # "none",
         Catalogue!ServicesBelong', Catalogue!ArchivedFieldsAreEmpty'
  PROVE  Catalogue!IInv'
  <1> USE DEF Catalogue!IInv, Catalogue!TypeOK
  <1>1. Catalogue!TypeOK'
    OBVIOUS
  <1>2. Catalogue!ServicesExist'
    <2>1. \A s \in v4' : v2'[s].status # "none"
      OBVIOUS
    <2>2. \A q \in Requests :
            v5'[q].pc \in {"target", "update", "pick", "services", "servicesIn"} =>
              \A s \in v5'[q].services : s \in Services /\ v2[s].status # "none"
      BY <1>1, CatalogueDefaults DEF Catalogue!ServicesExist, Catalogue!Request
    <2>3. QED
      BY <2>1, <2>2 DEF Catalogue!ServicesExist
  <1>3. QED
    BY <1>1, <1>2

\* A request that ends leaves the others as they are.
LEMMA CatalogueEnds ==
  ASSUME v5 \in [Requests -> Catalogue!Request], NEW r \in Requests,
         v5' = v5 \/ v5' = [v5 EXCEPT ![r] = Catalogue!Idle]
  PROVE  /\ v5' \in [Requests -> Catalogue!Request]
         /\ \A q \in Requests : v5'[q].pc # "idle" => v5'[q].pc = v5[q].pc /\ v5'[q].services = v5[q].services
  BY CatalogueDefaults

\* One that replaces rows changes what the others have seen, and no more.
LEMMA CatalogueReplaces ==
  ASSUME v5 \in [Requests -> Catalogue!Request], NEW r \in Requests, NEW from, NEW fs, NEW ss,
         Catalogue!Replace(r, from, fs, ss)
  PROVE  /\ v5' \in [Requests -> Catalogue!Request]
         /\ \A q \in Requests : v5'[q].pc # "idle" => v5'[q].pc = v5[q].pc /\ v5'[q].services = v5[q].services
  <1>1. v5' = [q \in Requests |-> IF q = r THEN Catalogue!Idle ELSE
                 [v5[q] EXCEPT !.seenFields = v5[q].seenFields \ fs,
                               !.seenServices = v5[q].seenServices \ ss]]
    BY DEF Catalogue!Replace
  <1>2. ASSUME NEW q \in Requests, q # r
        PROVE  /\ v5'[q] \in Catalogue!Request
               /\ v5'[q].pc = v5[q].pc /\ v5'[q].services = v5[q].services
    <2>1. v5'[q] = [v5[q] EXCEPT !.seenFields = v5[q].seenFields \ fs,
                                 !.seenServices = v5[q].seenServices \ ss]
      BY <1>1, <1>2
    <2>2. /\ v5[q] \in Catalogue!Request
          /\ v5[q].seenFields \ fs \subseteq Fields
          /\ v5[q].seenServices \ ss \subseteq Services
      BY DEF Catalogue!Request
    <2> DEFINE a == v5[q].seenFields \ fs
               b == v5[q].seenServices \ ss
    <2>3. v5'[q] = [v5[q] EXCEPT !.seenFields = a, !.seenServices = b]
      BY <2>1
    <2>4. a \in SUBSET Fields /\ b \in SUBSET Services
      BY <2>2
    <2> HIDE DEF a, b
    <2>5. QED
      BY <2>2, <2>3, <2>4 DEF Catalogue!Request
  <1>3. v5'[r] = Catalogue!Idle /\ v5' = [q \in Requests |-> v5'[q]]
    BY <1>1
  <1>4. QED
    BY <1>2, <1>3, CatalogueDefaults

\* Every step of the catalogue and of the selections keeps their inductive
\* invariant.
LEMMA CatalogueStep == Catalogue!IInv /\ Catalogue!Next => Catalogue!IInv'
  <1> SUFFICES ASSUME Catalogue!IInv, Catalogue!Next PROVE Catalogue!IInv'
    OBVIOUS
  <1>0. /\ v1 \in [Fields -> Catalogue!Statuses] /\ v2 \in [Services -> Catalogue!Service]
        /\ v3 \subseteq Fields /\ v4 \subseteq Services /\ v5 \in [Requests -> Catalogue!Request]
        /\ v6 \in BOOLEAN /\ v7 \in BOOLEAN /\ v6 = FALSE
    BY DEF Catalogue!IInv, Catalogue!TypeOK, Catalogue!Next
  <1>B. \A s \in v4 : v2[s].field \in v3
    BY <1>0 DEF Catalogue!IInv, Catalogue!ServicesBelong, Catalogue!publicProfile
  <1>A. v7 \/ \A s \in Services : v1[v2[s].field] = "ARCHIVED" => v2[s].status \in {"none", "ARCHIVED"}
    BY <1>0 DEF Catalogue!IInv, Catalogue!ArchivedFieldsAreEmpty
  <1>E. \A s \in v4 : v2[s].status # "none"
    BY DEF Catalogue!IInv, Catalogue!ServicesExist
  <1> USE DEF Catalogue!rows
  \* A request begins or goes on.
  <1>1. ASSUME NEW r \in Requests, NEW s \in Services, NEW f \in Fields, Catalogue!createService(r, s, f)
        PROVE  Catalogue!IInv'
    <2> DEFINE x == Catalogue!Asked("create", {f}, {s}, "ACTIVE")
    <2>1. x \in Catalogue!Request /\ x.pc = "create"
      BY DEF Catalogue!Asked, Catalogue!Request, Catalogue!Pcs, Catalogue!Statuses
    <2>2. v5' = [v5 EXCEPT ![r] = x]
      BY <1>1 DEF Catalogue!createService, Catalogue!Begin
    <2> HIDE DEF x
    <2>3. QED
      BY <1>1, <2>1, <2>2, CatalogueMoves DEF Catalogue!createService
  <1>2. ASSUME NEW r \in Requests, NEW s \in Services, NEW to \in SUBSET Fields,
               NEW status \in Catalogue!Statuses \cup {"same"}, Catalogue!updateService(r, s, to, status)
        PROVE  Catalogue!IInv'
    <2>1. PICK pc \in {"update", "target"} : Catalogue!Begin(r, pc, to, {s}, status)
      BY <1>2 DEF Catalogue!updateService
    <2> DEFINE x == Catalogue!Asked(pc, to, {s}, status)
    <2>2. x \in Catalogue!Request /\ x.services = {s}
      BY DEF Catalogue!Asked, Catalogue!Request, Catalogue!Pcs
    <2>3. v5' = [v5 EXCEPT ![r] = x] /\ v2[s].status # "none"
      BY <1>2, <2>1 DEF Catalogue!updateService, Catalogue!Begin
    <2> HIDE DEF x
    <2>4. QED
      BY <1>2, <2>2, <2>3, CatalogueMoves DEF Catalogue!updateService
  <1>3. ASSUME NEW r \in Requests, Catalogue!ServiceTarget(r)
        PROVE  Catalogue!IInv'
    <2> DEFINE x == [v5[r] EXCEPT !.pc = "update"]
    <2>1. x \in Catalogue!Request /\ x.services = v5[r].services /\ v5' = [v5 EXCEPT ![r] = x]
          /\ v5[r].pc = "target"
      BY <1>0, <1>3 DEF Catalogue!ServiceTarget, Catalogue!GoTo, Catalogue!Request, Catalogue!Pcs
    <2>2. \A s \in x.services : v2[s].status # "none"
      BY <2>1 DEF Catalogue!IInv, Catalogue!ServicesExist
    <2> HIDE DEF x
    <2>3. QED
      BY <1>3, <2>1, <2>2, CatalogueMoves DEF Catalogue!ServiceTarget
  <1>4. ASSUME NEW r \in Requests, NEW fs \in SUBSET Fields, Catalogue!replaceFields(r, fs)
        PROVE  Catalogue!IInv'
    <2> DEFINE x == Catalogue!Asked("fields", fs, {}, "same")
    <2>1. x \in Catalogue!Request /\ x.pc = "fields"
      BY DEF Catalogue!Asked, Catalogue!Request, Catalogue!Pcs
    <2>2. v5' = [v5 EXCEPT ![r] = x]
      BY <1>4 DEF Catalogue!replaceFields, Catalogue!Begin
    <2> HIDE DEF x
    <2>3. QED
      BY <1>4, <2>1, <2>2, CatalogueMoves DEF Catalogue!replaceFields
  <1>5. ASSUME NEW r \in Requests, Catalogue!FieldsDelete(r)
        PROVE  Catalogue!IInv'
    <2> DEFINE x == [v5[r] EXCEPT !.pc = "fieldsIn", !.seenFields = v3]
    <2>1. x \in Catalogue!Request /\ x.pc = "fieldsIn" /\ v5' = [v5 EXCEPT ![r] = x]
      BY <1>0, <1>5 DEF Catalogue!FieldsDelete, Catalogue!Request, Catalogue!Pcs
    <2> HIDE DEF x
    <2>2. QED
      BY <1>5, <2>1, CatalogueMoves DEF Catalogue!FieldsDelete
  <1>6. ASSUME NEW r \in Requests, NEW ss \in SUBSET Services, Catalogue!replaceServices(r, ss)
        PROVE  Catalogue!IInv'
    <2> DEFINE fs == Catalogue!FieldsOf(ss)
               x == Catalogue!Asked("pick", fs, ss, "same")
    <2>1. fs \subseteq Fields
      BY <1>0 DEF Catalogue!FieldsOf, Catalogue!Service
    <2>2. v5' = [v5 EXCEPT ![r] = x] /\ \A s \in ss : v2[s].status # "none"
      BY <1>6 DEF Catalogue!replaceServices, Catalogue!Begin
    <2> HIDE DEF fs
    <2>3. x \in Catalogue!Request /\ x.services = ss
      BY <2>1 DEF Catalogue!Asked, Catalogue!Request, Catalogue!Pcs
    <2> HIDE DEF x
    <2>4. QED
      BY <1>6, <2>2, <2>3, CatalogueMoves DEF Catalogue!replaceServices
  <1>7. ASSUME NEW r \in Requests, Catalogue!FieldsRead(r)
        PROVE  Catalogue!IInv'
    <2> DEFINE x == [v5[r] EXCEPT !.pc = "services"]
    <2>1. x \in Catalogue!Request /\ x.services = v5[r].services /\ v5' = [v5 EXCEPT ![r] = x]
          /\ v5[r].pc = "pick"
      BY <1>0, <1>7 DEF Catalogue!FieldsRead, Catalogue!GoTo, Catalogue!Request, Catalogue!Pcs
    <2>2. \A s \in x.services : v2[s].status # "none"
      BY <2>1 DEF Catalogue!IInv, Catalogue!ServicesExist
    <2> HIDE DEF x
    <2>3. QED
      BY <1>7, <2>1, <2>2, CatalogueMoves DEF Catalogue!FieldsRead
  <1>8. ASSUME NEW r \in Requests, Catalogue!ServicesDelete(r)
        PROVE  Catalogue!IInv'
    <2> DEFINE x == [v5[r] EXCEPT !.pc = "servicesIn", !.seenServices = v4]
    <2>1. x \in Catalogue!Request /\ x.services = v5[r].services /\ v5' = [v5 EXCEPT ![r] = x]
          /\ v5[r].pc = "services"
      BY <1>0, <1>8 DEF Catalogue!ServicesDelete, Catalogue!Request, Catalogue!Pcs
    <2>2. \A s \in x.services : v2[s].status # "none"
      BY <2>1 DEF Catalogue!IInv, Catalogue!ServicesExist
    <2> HIDE DEF x
    <2>3. QED
      BY <1>8, <2>1, <2>2, CatalogueMoves DEF Catalogue!ServicesDelete
  <1>9. ASSUME NEW r \in Requests, Catalogue!End(r)
        PROVE  Catalogue!IInv'
    BY <1>9, CatalogueDefaults, CatalogueMoves DEF Catalogue!End, Catalogue!Finish
  \* A request writes.
  <1>10. ASSUME NEW r \in Requests, Catalogue!CreateCommit(r)
         PROVE  Catalogue!IInv'
    <2>1. PICK s \in v5[r].services, f \in v5[r].fields :
            /\ v2[s].status = "none"
            /\ v2' = [v2 EXCEPT ![s] = [status |-> "ACTIVE", field |-> f]]
      BY <1>10 DEF Catalogue!CreateCommit
    <2>2. /\ v5' = [v5 EXCEPT ![r] = Catalogue!Idle] /\ v6' = (v6 \/ ~ Catalogue!Active(v5[r].fields))
          /\ v1' = v1 /\ v3' = v3 /\ v4' = v4 /\ v7' = v7
      BY <1>10 DEF Catalogue!CreateCommit, Catalogue!Finish
    <2>3. s \in Services /\ f \in Fields /\ v6' \in BOOLEAN
      BY <1>0, <2>2 DEF Catalogue!Request
    <2>4. /\ v2' \in [Services -> Catalogue!Service] /\ v2'[s].field = f /\ v2'[s].status = "ACTIVE"
          /\ \A t \in Services \ {s} : v2'[t] = v2[t]
      BY <1>0, <2>1, <2>3 DEF Catalogue!Service, Catalogue!Statuses
    <2>5. Catalogue!ServicesBelong'
      BY <1>0, <1>B, <1>E, <2>1, <2>2, <2>4 DEF Catalogue!ServicesBelong, Catalogue!publicProfile
    <2>6. Catalogue!ArchivedFieldsAreEmpty'
      BY <1>A, <2>1, <2>2, <2>4 DEF Catalogue!ArchivedFieldsAreEmpty, Catalogue!Active
    <2>7. QED
      BY <1>0, <1>E, <2>1, <2>2, <2>3, <2>4, <2>5, <2>6, CatalogueEnds, CatalogueWrites
  <1>11. ASSUME NEW r \in Requests, NEW f \in Fields, NEW status \in {"ACTIVE", "ARCHIVED"},
                Catalogue!updateActivityField(r, f, status)
         PROVE  Catalogue!IInv'
    <2>1. CASE status = "ARCHIVED"
      <3> DEFINE x == Catalogue!Asked("archive", {f}, {}, status)
      <3>1. x \in Catalogue!Request /\ x.pc = "archive"
        BY DEF Catalogue!Asked, Catalogue!Request, Catalogue!Pcs, Catalogue!Statuses
      <3>2. v5' = [v5 EXCEPT ![r] = x]
        BY <1>11, <2>1 DEF Catalogue!updateActivityField, Catalogue!Begin
      <3> HIDE DEF x
      <3>3. QED
        BY <1>11, <2>1, <3>1, <3>2, CatalogueMoves DEF Catalogue!updateActivityField
    <2>2. CASE status = "ACTIVE"
      <3>1. v1' = [v1 EXCEPT ![f] = status] /\ v2' = v2 /\ v3' = v3 /\ v4' = v4 /\ v5' = v5 /\ v6' = v6
            /\ v7' = v7
        BY <1>11, <2>2 DEF Catalogue!updateActivityField
      <3>2. Catalogue!ArchivedFieldsAreEmpty'
        BY <1>0, <1>A, <2>2, <3>1 DEF Catalogue!ArchivedFieldsAreEmpty, Catalogue!Service
      <3>3. Catalogue!ServicesBelong'
        BY <1>B, <3>1 DEF Catalogue!ServicesBelong, Catalogue!publicProfile
      <3>4. QED
        BY <1>0, <1>E, <2>2, <3>1, <3>2, <3>3, CatalogueEnds, CatalogueWrites DEF Catalogue!Statuses
    <2>3. QED
      BY <2>1, <2>2
  <1>12. ASSUME NEW r \in Requests, Catalogue!ArchiveCommit(r)
         PROVE  Catalogue!IInv'
    <2>1. PICK f \in v5[r].fields : v1' = [v1 EXCEPT ![f] = "ARCHIVED"] /\ v6' = (v6 \/ Catalogue!Open(f))
      BY <1>12 DEF Catalogue!ArchiveCommit
    <2>2. /\ v5' = [v5 EXCEPT ![r] = Catalogue!Idle]
          /\ v2' = v2 /\ v3' = v3 /\ v4' = v4 /\ v7' = v7
      BY <1>12 DEF Catalogue!ArchiveCommit, Catalogue!Finish
    <2>3. f \in Fields /\ v6' \in BOOLEAN /\ v1' \in [Fields -> Catalogue!Statuses]
      BY <1>0, <2>1 DEF Catalogue!Request, Catalogue!Statuses
    <2>4. Catalogue!ServicesBelong'
      BY <1>B, <2>1, <2>2 DEF Catalogue!ServicesBelong, Catalogue!publicProfile
    <2>5. Catalogue!ArchivedFieldsAreEmpty'
      BY <1>0, <1>A, <2>1, <2>2, <2>3 DEF Catalogue!ArchivedFieldsAreEmpty, Catalogue!Open, Catalogue!Service,
         Catalogue!Statuses
    <2>6. QED
      BY <1>0, <1>E, <2>2, <2>3, <2>4, <2>5, CatalogueEnds, CatalogueWrites
  <1>13. ASSUME NEW r \in Requests, Catalogue!ServiceCommit(r)
         PROVE  Catalogue!IInv'
    <2>1. v5[r].pc = "update" /\ v5' = [v5 EXCEPT ![r] = Catalogue!Idle] /\ v1' = v1 /\ v3' = v3 /\ v4' = v4
      BY <1>13 DEF Catalogue!ServiceCommit, Catalogue!Finish
    <2> DEFINE into(s) == IF v5[r].fields = {} THEN v2[s].field ELSE CHOOSE f \in v5[r].fields : TRUE
               to(s) == IF v5[r].status = "same" THEN v2[s].status ELSE v5[r].status
    <2>a. PICK s \in v5[r].services :
            /\ v2' = [v2 EXCEPT ![s] = [status |-> to(s), field |-> into(s)]]
            /\ v6' = (v6 \/ (into(s) # v2[s].field /\ (s \in v4 \/ v1[into(s)] # "ACTIVE")))
            /\ v7' = (v7 \/ (v1[into(s)] = "ARCHIVED" /\ v2[s].status = "ARCHIVED" /\ to(s) # "ARCHIVED"))
      BY <1>13 DEF Catalogue!ServiceCommit
    <2> DEFINE in == into(s)
               status == to(s)
    <2>2. /\ v2' = [v2 EXCEPT ![s] = [status |-> status, field |-> in]]
          /\ v6' = (v6 \/ (in # v2[s].field /\ (s \in v4 \/ v1[in] # "ACTIVE")))
          /\ v7' = (v7 \/ (v1[in] = "ARCHIVED" /\ v2[s].status = "ARCHIVED" /\ status # "ARCHIVED"))
      BY <2>a
    <2>3. s \in Services /\ v2[s].status # "none" /\ v2[s] \in Catalogue!Service
          /\ v5[r].fields \subseteq Fields /\ v5[r].status \in Catalogue!Statuses \cup {"same"}
      BY <1>0, <2>1 DEF Catalogue!Request, Catalogue!IInv, Catalogue!ServicesExist
    <2>4. in \in Fields /\ status \in Catalogue!Statuses /\ v6' \in BOOLEAN /\ v7' \in BOOLEAN
      <3>1. in \in Fields /\ status \in Catalogue!Statuses
        BY <2>3 DEF Catalogue!Service
      <3>2. QED
        BY <1>0, <2>2, <3>1
    <2> HIDE DEF in, status, into, to
    <2>5. /\ v2' \in [Services -> Catalogue!Service] /\ v2'[s].field = in /\ v2'[s].status = status
          /\ \A t \in Services \ {s} : v2'[t] = v2[t]
      BY <1>0, <2>2, <2>3, <2>4 DEF Catalogue!Service
    <2>b. v6' \/ in = v2[s].field \/ s \notin v4
      BY <2>2
    <2>6. Catalogue!ServicesBelong'
      <3>1. v4 \subseteq Services
        BY <1>0
      <3>2. v6' \/ \A t \in v4 : v2'[t].field = v2[t].field
        BY <2>b, <2>5, <3>1
      <3>3. QED
        BY <1>B, <2>1, <3>2 DEF Catalogue!ServicesBelong, Catalogue!publicProfile
    <2>7. Catalogue!ArchivedFieldsAreEmpty'
      BY <1>0, <1>A, <2>1, <2>2, <2>3, <2>5 DEF Catalogue!ArchivedFieldsAreEmpty
    <2>8. \A t \in Services : v2[t].status # "none" => v2'[t].status # "none"
      BY <2>4, <2>5 DEF Catalogue!Statuses
    <2>9. QED
      BY <1>0, <1>E, <2>1, <2>4, <2>5, <2>6, <2>7, <2>8, CatalogueEnds, CatalogueWrites
  <1>14. ASSUME NEW r \in Requests, Catalogue!FieldsCommit(r)
         PROVE  Catalogue!IInv'
    <2>1. /\ v5' \in [Requests -> Catalogue!Request]
          /\ \A q \in Requests : v5'[q].pc # "idle" => v5'[q].pc = v5[q].pc /\ v5'[q].services = v5[q].services
      BY <1>0, <1>14, CatalogueReplaces DEF Catalogue!FieldsCommit
    <2>2. /\ v1' = v1 /\ v2' = v2 /\ v7' = v7
          /\ v3' = (v3 \ v5[r].seenFields) \cup v5[r].fields
          /\ v4' = v4 \ v5[r].seenServices
          /\ v6' = (v6 \/ ~ Catalogue!GivenUp(v5[r].fields) \subseteq v5[r].seenServices)
      BY <1>14 DEF Catalogue!FieldsCommit
    <2>3. v3' \subseteq Fields /\ v4' \subseteq v4 /\ v6' \in BOOLEAN
      BY <1>0, <2>2 DEF Catalogue!Request
    <2>4. Catalogue!ServicesBelong'
      BY <2>2 DEF Catalogue!ServicesBelong, Catalogue!publicProfile, Catalogue!GivenUp
    <2>5. Catalogue!ArchivedFieldsAreEmpty'
      BY <1>A, <2>2 DEF Catalogue!ArchivedFieldsAreEmpty
    <2>6. QED
      BY <1>0, <1>E, <2>1, <2>2, <2>3, <2>4, <2>5, CatalogueWrites
  <1>15. ASSUME NEW r \in Requests, Catalogue!ServicesCommit(r)
         PROVE  Catalogue!IInv'
    <2>1. /\ v5' \in [Requests -> Catalogue!Request]
          /\ \A q \in Requests : v5'[q].pc # "idle" => v5'[q].pc = v5[q].pc /\ v5'[q].services = v5[q].services
      BY <1>0, <1>15, CatalogueReplaces DEF Catalogue!ServicesCommit
    <2>2. /\ v5[r].pc = "servicesIn"
          /\ v4' = (v4 \ v5[r].seenServices) \cup v5[r].services
          /\ v6' = (v6 \/ ~ Catalogue!FieldsOf(v5[r].services) \subseteq v3)
          /\ v1' = v1 /\ v2' = v2 /\ v3' = v3 /\ v7' = v7
      BY <1>15 DEF Catalogue!ServicesCommit, Catalogue!Replace
    <2>3. v5[r].services \subseteq Services /\ v6' \in BOOLEAN
          /\ \A s \in v5[r].services : v2[s].status # "none"
      BY <1>0, <2>2 DEF Catalogue!Request, Catalogue!IInv, Catalogue!ServicesExist
    <2>4. Catalogue!ServicesBelong'
      BY <1>B, <2>2 DEF Catalogue!ServicesBelong, Catalogue!publicProfile, Catalogue!FieldsOf
    <2>5. Catalogue!ArchivedFieldsAreEmpty'
      BY <1>A, <2>2 DEF Catalogue!ArchivedFieldsAreEmpty
    <2>6. QED
      BY <1>0, <1>E, <2>1, <2>2, <2>3, <2>4, <2>5, CatalogueWrites
  \* The delete of the services of fields given up.
  <1>16. ASSUME NEW r \in Requests, Catalogue!FieldsDrop(r)
         PROVE  Catalogue!IInv'
    <2> DEFINE x == [v5[r] EXCEPT !.pc = "fieldsOut", !.seenServices = Catalogue!GivenUp(v5[r].fields)]
    <2>1. Catalogue!GivenUp(v5[r].fields) \subseteq Services
      BY <1>0 DEF Catalogue!GivenUp
    <2>2. x \in Catalogue!Request /\ x.pc = "fieldsOut" /\ v5' = [v5 EXCEPT ![r] = x]
      BY <1>0, <1>16, <2>1 DEF Catalogue!FieldsDrop, Catalogue!Request, Catalogue!Pcs
    <2> HIDE DEF x
    <2>3. QED
      BY <1>16, <2>2, CatalogueMoves DEF Catalogue!FieldsDrop
  <1>17. QED
    BY <1>1, <1>2, <1>3, <1>4, <1>5, <1>6, <1>7, <1>8, <1>9, <1>10, <1>11, <1>12, <1>13, <1>14, <1>15, <1>16
    DEF Catalogue!Next

-----------------------------------------------------------------------------
(* Media: v1 holds file, v2 avatar, v3 op, v4 batch, v5 removing and v6    *)
(* doomed.                                                                 *)

\* What an idle request and a file hold at first.
LEMMA MediaDefaults ==
  /\ Media!Idle \in Media!Op /\ Media!Idle.pc = "idle"
  /\ \A p \in Media!Purposes, x \in {"new", "ready"} :
       LET f == IF x = "ready" THEN Media!ReadyFile(p) ELSE Media!NewFile(p)
       IN /\ f \in Media!File /\ f.purpose = p /\ f.used = "no"
          /\ f.asset # "REMOVED" /\ (f.asset = "USABLE" => f.object # "none")
  <1>1. Media!Idle \in Media!Op /\ Media!Idle.pc = "idle"
    BY DEF Media!Idle, Media!Op
  <1>2. ASSUME NEW p \in Media!Purposes
        PROVE  /\ Media!NewFile(p) \in Media!File /\ Media!NewFile(p).purpose = p
               /\ Media!NewFile(p).used = "no" /\ Media!NewFile(p).asset = "none"
    BY DEF Media!NewFile, Media!File
  <1>3. ASSUME NEW p \in Media!Purposes
        PROVE  /\ Media!ReadyFile(p) \in Media!File /\ Media!ReadyFile(p).purpose = p
               /\ Media!ReadyFile(p).used = "no" /\ Media!ReadyFile(p).asset = "USABLE"
               /\ Media!ReadyFile(p).object = "right"
    <2> DEFINE n == Media!NewFile(p)
    <2>1. n \in Media!File /\ n.purpose = p /\ n.used = "no"
      BY <1>2
    <2>2. Media!ReadyFile(p) = [n EXCEPT !.intent = "COMPLETED", !.object = "right", !.asset = "USABLE"]
      BY DEF Media!ReadyFile
    <2> HIDE DEF n
    <2>3. QED
      BY <2>1, <2>2 DEF Media!File
  <1>4. QED
    BY <1>1, <1>2, <1>3

\* The rules of one file: its object and its rows go together, what is in use
\* is attached, and unless it is doomed it is kept and unknown to the cleanup.
InUse(f) == v2 = f \/ (v1[f].purpose = "PORTFOLIO" /\ v1[f].used = "yes")
FileFit(f) ==
  /\ v1[f].asset = "REMOVED" => v1[f].object = "none" /\ v1[f].age = "old"
  /\ v1[f].asset = "USABLE" /\ v1[f].object = "none" => v1[f].age = "old"
  /\ InUse(f) => v1[f].attached
  /\ InUse(f) /\ f \notin v6 =>
       v1[f].asset = "USABLE" /\ v1[f].object # "none" /\ f \notin v4 /\ v5 # f

\* What the request x has found of its files holds.
OpFit(x) ==
  /\ x \in Media!Op
  /\ x.pc \notin {"idle", "swap"} => x.on \in Files
  /\ x.pc = "create" => Media!Exists(x.on) \/ v1[x.on].object # "none"
  /\ x.pc = "attach" => Media!IsAvatar(x.on)
  /\ x.pc = "swap" => \A f \in {x.on, x.from} \ {NoFile} : Media!IsAvatar(f)
  /\ x.pc = "use" => Media!Exists(x.on)
  /\ x.pc = "delete" => v1[x.on].purpose = "PORTFOLIO"

MediaFit ==
  /\ Media!TypeOK /\ Media!CleanupKnows
  /\ v2 # NoFile => Media!IsAvatar(v2)
  /\ \A f \in Files : FileFit(f)
  /\ \A o \in Requests : OpFit(v3[o])

\* The inductive invariant is a rule for each file and one for each request.
LEMMA MediaRules == (Media!IInv <=> MediaFit) /\ (Media!IInv' <=> MediaFit')
  BY DEF MediaFit, Media!IInv, Media!TypeOK, Media!OpsKnow, Media!On, Media!KeptUnlessDoomed, Media!StoreFollowsRows,
         Media!InUseIsKept, Media!Readable, Media!Usable, FileFit, InUse, OpFit

\* At first files are new, or uploaded and not in use.
LEMMA MediaInit == Media!Init => Media!IInv
  <1> SUFFICES ASSUME Media!Init PROVE Media!IInv
    OBVIOUS
  <1>1. PICK upload \in Uploads : v1 = [f \in Files |->
          IF upload[f].ready THEN Media!ReadyFile(upload[f].purpose) ELSE Media!NewFile(upload[f].purpose)]
    BY DEF Media!Init
  <1>2. ASSUME NEW f \in Files
        PROVE  /\ v1[f] \in Media!File /\ v1[f].used = "no"
               /\ v1[f].asset # "REMOVED" /\ (v1[f].asset = "USABLE" => v1[f].object # "none")
    <2>1. upload[f].purpose \in Media!Purposes
      BY UploadsAssumption
    <2>2. QED
      BY <1>1, <2>1, MediaDefaults
  <1>3. Media!TypeOK
    BY <1>1, <1>2, MediaDefaults DEF Media!Init, Media!TypeOK
  <1>4. \A f \in Files : FileFit(f)
    BY <1>2, NobodyAssumption DEF Media!Init, FileFit, InUse
  <1>5. \A o \in Requests : OpFit(v3[o])
    BY MediaDefaults DEF Media!Init, OpFit
  <1>6. QED
    BY <1>3, <1>4, <1>5, MediaRules DEF Media!Init, Media!CleanupKnows, MediaFit

\* Files keep their purpose and assets their row; whatever loses its object has
\* become an asset.
LEMMA MediaKeeps ==
  ASSUME Media!IInv,
         v1' \in [Files -> Media!File], v2' \in Files \cup {NoFile}, v3' \in [Requests -> Media!Op],
         v4' \subseteq Files, v5' \in Files \cup {NoFile}, v6' \subseteq Files,
         \A f \in Files :
           /\ v1'[f].purpose = v1[f].purpose /\ (v1[f].asset # "none" => v1'[f].asset # "none")
           /\ v1'[f].object = "none" => v1[f].object = "none" \/ v1'[f].asset # "none",
         \A o \in Requests : v3'[o] = v3[o] \/ OpFit(v3[o])',
         Media!CleanupKnows', v2' # NoFile => v2' = v2 \/ Media!IsAvatar(v2)',
         \A f \in Files : FileFit(f)'
  PROVE  Media!IInv'
  <1>1. Media!TypeOK'
    BY DEF Media!TypeOK
  <1>2. /\ Media!TypeOK /\ (v2 # NoFile => Media!IsAvatar(v2)) /\ \A o \in Requests : OpFit(v3[o])
    BY MediaRules DEF MediaFit
  <1>3. \A f \in Files : (Media!Exists(f) => Media!Exists(f)') /\ (Media!IsAvatar(f) => Media!IsAvatar(f)')
    BY DEF Media!Exists, Media!IsAvatar
  <1>4. v2' # NoFile => Media!IsAvatar(v2)'
    <2>1. CASE v2' = v2
      <3>1. v2 # NoFile => v2 \in Files /\ Media!IsAvatar(v2)
        BY <1>2 DEF Media!TypeOK
      <3>2. QED
        BY <1>3, <2>1, <3>1 DEF Media!IsAvatar, Media!Exists
    <2>2. CASE v2' # v2
      BY <2>2
    <2>3. QED
      BY <2>1, <2>2
  <1>5. ASSUME NEW o \in Requests, v3'[o] = v3[o]
        PROVE  OpFit(v3[o])'
    <2> DEFINE x == v3[o]
    <2>1. OpFit(x) /\ x \in Media!Op /\ x.on \in Files \cup {NoFile} /\ x.from \in Files \cup {NoFile}
      BY <1>2 DEF OpFit, Media!Op
    <2>2. x.pc = "create" => x.on \in Files /\ (Media!Exists(x.on) \/ v1[x.on].object # "none")
      BY <2>1 DEF OpFit
    <2>3. x.pc = "create" => v1'[x.on].asset # "none" \/ v1'[x.on].object # "none"
      BY <2>2 DEF Media!Exists
    <2>4. x.pc = "attach" => v1'[x.on].purpose = "AVATAR" /\ v1'[x.on].asset # "none"
      BY <2>1 DEF OpFit, Media!IsAvatar, Media!Exists
    <2>5. x.pc = "swap" => \A f \in {x.on, x.from} \ {NoFile} : v1'[f].purpose = "AVATAR" /\ v1'[f].asset # "none"
      BY <2>1 DEF OpFit, Media!IsAvatar, Media!Exists
    <2>6. x.pc = "use" => v1'[x.on].asset # "none"
      BY <2>1 DEF OpFit, Media!Exists
    <2>7. x.pc = "delete" => v1'[x.on].purpose = "PORTFOLIO"
      BY <2>1 DEF OpFit
    <2>8. QED
      BY <1>5, <2>1, <2>3, <2>4, <2>5, <2>6, <2>7 DEF OpFit, Media!IsAvatar, Media!Exists
  <1>6. \A o \in Requests : OpFit(v3[o])'
    BY <1>5
  <1>7. MediaFit'
    BY <1>1, <1>4, <1>6 DEF MediaFit
  <1>8. QED
    BY <1>7, MediaRules

\* A request that finds what it may find, or ends, changes nothing else.
LEMMA MediaAsks ==
  ASSUME Media!IInv, v1' = v1, v2' = v2, v4' = v4, v5' = v5, v6' = v6,
         v3' \in [Requests -> Media!Op],
         \A o \in Requests : v3'[o] = v3[o] \/ OpFit(v3'[o])
  PROVE  Media!IInv'
  <1>1. MediaFit
    BY MediaRules
  <1>2. ASSUME NEW o \in Requests
        PROVE  OpFit(v3[o])'
    <2>1. OpFit(v3'[o])
      BY <1>1 DEF MediaFit
    <2>2. QED
      BY <2>1 DEF OpFit, Media!Exists, Media!IsAvatar
  <1>3. Media!TypeOK' /\ Media!CleanupKnows' /\ (v2' # NoFile => Media!IsAvatar(v2)')
    BY <1>1 DEF MediaFit, Media!TypeOK, Media!CleanupKnows, Media!IsAvatar, Media!Exists
  <1>4. \A f \in Files : FileFit(f)'
    BY <1>1 DEF MediaFit, FileFit, InUse
  <1>5. QED
    BY <1>2, <1>3, <1>4, MediaRules DEF MediaFit

\* Every step of the files, their users and the cleanup keeps the inductive
\* invariant.
LEMMA MediaStep == Media!IInv /\ Media!Next => Media!IInv'
  <1> SUFFICES ASSUME Media!IInv, Media!Next PROVE Media!IInv'
    OBVIOUS
  <1>0. /\ v1 \in [Files -> Media!File] /\ v2 \in Files \cup {NoFile} /\ v3 \in [Requests -> Media!Op]
        /\ v4 \subseteq Files /\ v5 \in Files \cup {NoFile} /\ v6 \subseteq Files
    BY DEF Media!IInv, Media!TypeOK
  <1>F. \A f \in Files : FileFit(f)
    BY MediaRules DEF MediaFit
  <1>C. /\ \A f \in v4 : v1[f].asset # "none"
        /\ v5 # NoFile => v5 \notin v4 /\ v1[v5].asset # "none" /\ v1[v5].object = "none" /\ v1[v5].age = "old"
        /\ v2 # NoFile => v1[v2].purpose = "AVATAR" /\ v1[v2].asset # "none"
    BY MediaRules DEF MediaFit, Media!CleanupKnows, Media!IsAvatar, Media!Exists
  <1>O. \A o \in Requests :
          /\ v3[o].on \in Files \cup {NoFile} /\ v3[o].from \in Files \cup {NoFile}
          /\ v3[o].pc \in {"head", "reject", "create", "attach", "use", "delete"} => v3[o].on \in Files
          /\ v3[o].pc = "create" => v1[v3[o].on].asset # "none" \/ v1[v3[o].on].object # "none"
          /\ v3[o].pc = "attach" => v1[v3[o].on].purpose = "AVATAR" /\ v1[v3[o].on].asset # "none"
          /\ v3[o].pc = "swap" => \A f \in {v3[o].on, v3[o].from} \ {NoFile} :
                                    v1[f].purpose = "AVATAR" /\ v1[f].asset # "none"
          /\ v3[o].pc = "use" => v1[v3[o].on].asset # "none"
          /\ v3[o].pc = "delete" => v1[v3[o].on].purpose = "PORTFOLIO"
    BY MediaRules DEF MediaFit, OpFit, Media!Op, Media!Exists, Media!IsAvatar
  <1>N. NoFile \notin Files
    BY NobodyAssumption
  <1>I. OpFit(Media!Idle) /\ OpFit(Media!Idle)'
    BY MediaDefaults DEF OpFit
  \* Uploading.
  <1>1. ASSUME NEW f \in Files, Media!Presign(f)
        PROVE  Media!IInv'
    <2> DEFINE w == [v1[f] EXCEPT !.intent = "PENDING"]
    <2>1. /\ v1' = [v1 EXCEPT ![f] = w] /\ v2' = v2 /\ v3' = v3 /\ v4' = v4 /\ v5' = v5 /\ v6' = v6
      BY <1>1 DEF Media!Presign
    <2>2. /\ w \in Media!File /\ w.purpose = v1[f].purpose /\ w.asset = v1[f].asset /\ w.object = v1[f].object
          /\ w.age = v1[f].age /\ w.used = v1[f].used /\ w.attached = v1[f].attached
      BY <1>0 DEF Media!File
    <2> HIDE DEF w
    <2>3. v1' \in [Files -> Media!File]
      BY <1>0, <2>1, <2>2
    <2>4. \A g \in Files : /\ v1'[g].purpose = v1[g].purpose /\ v1'[g].asset = v1[g].asset
                           /\ v1'[g].object = v1[g].object /\ v1'[g].age = v1[g].age
                           /\ v1'[g].used = v1[g].used /\ v1'[g].attached = v1[g].attached
      BY <1>0, <2>1, <2>2
    <2>5. \A g \in Files : FileFit(g)'
      BY <1>F, <2>1, <2>4 DEF FileFit, InUse
    <2>6. Media!CleanupKnows'
      BY <1>0, <1>C, <2>1, <2>4 DEF Media!CleanupKnows, Media!Exists
    <2>7. QED
      BY <1>0, <2>1, <2>3, <2>4, <2>5, <2>6, MediaKeeps
  <1>2. ASSUME NEW f \in Files, NEW object \in {"right", "wrong"}, Media!Put(f, object)
        PROVE  Media!IInv'
    <2> DEFINE w == [v1[f] EXCEPT !.object = object]
    <2>1. /\ v1' = [v1 EXCEPT ![f] = w] /\ v2' = v2 /\ v3' = v3 /\ v4' = v4 /\ v5' = v5 /\ v6' = v6
          /\ v1[f].asset = "none"
      BY <1>2 DEF Media!Put
    <2>2. /\ w \in Media!File /\ w.purpose = v1[f].purpose /\ w.asset = v1[f].asset /\ w.object = object
          /\ w.age = v1[f].age /\ w.used = v1[f].used /\ w.attached = v1[f].attached
      BY <1>0, <1>2 DEF Media!File
    <2> HIDE DEF w
    <2>3. v1' \in [Files -> Media!File]
      BY <1>0, <2>1, <2>2
    <2>4. \A g \in Files : /\ v1'[g].purpose = v1[g].purpose /\ v1'[g].asset = v1[g].asset
                           /\ v1'[g].object = (IF g = f THEN object ELSE v1[g].object) /\ v1'[g].age = v1[g].age
                           /\ v1'[g].used = v1[g].used /\ v1'[g].attached = v1[g].attached
      BY <1>0, <2>1, <2>2
    <2>5. \A g \in Files : FileFit(g)'
      BY <1>F, <2>1, <2>4 DEF FileFit, InUse
    <2>6. Media!CleanupKnows'
      BY <1>0, <1>C, <2>1, <2>4 DEF Media!CleanupKnows, Media!Exists
    <2>7. QED
      BY <1>0, <2>1, <2>3, <2>4, <2>5, <2>6, MediaKeeps
  <1>3. ASSUME NEW o \in Requests, NEW f \in Files, Media!CompleteRead(o, f)
        PROVE  Media!IInv'
    <2> DEFINE x == [pc |-> "head", on |-> f, from |-> NoFile]
    <2>1. v3' = [v3 EXCEPT ![o] = x] /\ v1' = v1 /\ v2' = v2 /\ v4' = v4 /\ v5' = v5 /\ v6' = v6
      BY <1>3 DEF Media!CompleteRead, Media!Begin, Media!OnlyOps
    <2>2. x \in Media!Op /\ OpFit(x)
      BY DEF Media!Op, OpFit
    <2> HIDE DEF x
    <2>3. QED
      BY <1>0, <2>1, <2>2, MediaAsks
  <1>4. ASSUME NEW o \in Requests, Media!Head(o)
        PROVE  Media!IInv'
    <2>1. v1' = v1 /\ v2' = v2 /\ v4' = v4 /\ v5' = v5 /\ v6' = v6 /\ v3[o].pc = "head"
      BY <1>4 DEF Media!Head, Media!OnlyOps, Media!At
    <2>2. v3[o].on \in Files /\ v3[o] \in Media!Op
      BY <1>0, <1>O, <2>1
    <2>3. v1[v3[o].on].object \in {"none", "right", "wrong"}
      BY <1>0, <2>2 DEF Media!File
    <2>4. \/ v3' = [v3 EXCEPT ![o] = Media!Idle]
          \/ v3' = [v3 EXCEPT ![o].pc = "reject"]
          \/ v3' = [v3 EXCEPT ![o].pc = "create"] /\ v1[v3[o].on].object # "none"
      BY <1>4, <2>3 DEF Media!Head, Media!GoTo, Media!Finish, Media!On
    <2>5. CASE v3' = [v3 EXCEPT ![o] = Media!Idle]
      BY <1>0, <1>I, <2>1, <2>5, MediaDefaults, MediaAsks
    <2>6. ASSUME NEW pc \in {"reject", "create"}, v3' = [v3 EXCEPT ![o].pc = pc],
                 pc = "create" => v1[v3[o].on].object # "none"
          PROVE  Media!IInv'
      <3> DEFINE x == [v3[o] EXCEPT !.pc = pc]
      <3>1. v3' = [v3 EXCEPT ![o] = x]
        BY <2>6
      <3>2. x \in Media!Op /\ x.pc = pc /\ x.on = v3[o].on
        BY <2>2 DEF Media!Op
      <3> HIDE DEF x
      <3>3. OpFit(x)
        BY <2>2, <2>6, <3>2 DEF OpFit
      <3>4. QED
        BY <1>0, <2>1, <3>1, <3>2, <3>3, MediaAsks
    <2>7. QED
      BY <2>4, <2>5, <2>6
  <1>5. ASSUME NEW o \in Requests, Media!CompleteReject(o)
        PROVE  Media!IInv'
    <2> DEFINE f == v3[o].on
    <2> DEFINE w == [v1[f] EXCEPT !.intent = "REJECTED"]
    <2>1. /\ v1' = [v1 EXCEPT ![f] = w] /\ v2' = v2 /\ v4' = v4 /\ v5' = v5 /\ v6' = v6
          /\ v3' = [v3 EXCEPT ![o] = Media!Idle] /\ f \in Files
      BY <1>5, <1>O DEF Media!CompleteReject, Media!At, Media!On, Media!Finish
    <2>2. /\ w \in Media!File /\ w.purpose = v1[f].purpose /\ w.asset = v1[f].asset /\ w.object = v1[f].object
          /\ w.age = v1[f].age /\ w.used = v1[f].used /\ w.attached = v1[f].attached
      BY <1>0, <2>1 DEF Media!File
    <2> HIDE DEF w, f
    <2>3. v1' \in [Files -> Media!File]
      BY <1>0, <2>1, <2>2
    <2>4. \A g \in Files : /\ v1'[g].purpose = v1[g].purpose /\ v1'[g].asset = v1[g].asset
                           /\ v1'[g].object = v1[g].object /\ v1'[g].age = v1[g].age
                           /\ v1'[g].used = v1[g].used /\ v1'[g].attached = v1[g].attached
      BY <1>0, <2>1, <2>2
    <2>5. \A g \in Files : FileFit(g)'
      BY <1>F, <2>1, <2>4 DEF FileFit, InUse
    <2>6. Media!CleanupKnows'
      BY <1>0, <1>C, <2>1, <2>4 DEF Media!CleanupKnows, Media!Exists
    <2>7. v3' \in [Requests -> Media!Op] /\ \A p \in Requests : v3'[p] = v3[p] \/ OpFit(v3[p])'
      BY <1>0, <1>I, <2>1, MediaDefaults DEF OpFit
    <2>8. QED
      BY <1>0, <2>1, <2>3, <2>4, <2>5, <2>6, <2>7, MediaKeeps
  <1>6. ASSUME NEW o \in Requests, Media!CompleteCommit(o)
        PROVE  Media!IInv'
    <2> DEFINE f == v3[o].on
    <2> DEFINE w == [v1[f] EXCEPT !.intent = "COMPLETED", !.asset = "USABLE"]
    <2>1. /\ v1' = [v1 EXCEPT ![f] = w] /\ v2' = v2 /\ v4' = v4 /\ v5' = v5 /\ v6' = v6
          /\ v3' = [v3 EXCEPT ![o] = Media!Idle] /\ f \in Files
          /\ v1[f].asset = "none" /\ v1[f].object # "none"
      BY <1>6, <1>O DEF Media!CompleteCommit, Media!At, Media!On, Media!Finish
    <2>2. /\ w \in Media!File /\ w.purpose = v1[f].purpose /\ w.asset = "USABLE" /\ w.object = v1[f].object
          /\ w.age = v1[f].age /\ w.used = v1[f].used /\ w.attached = v1[f].attached
      <3>1. v1[f] \in Media!File
        BY <1>0, <2>1
      <3> HIDE DEF f
      <3>2. QED
        BY <3>1 DEF Media!File
    <2> HIDE DEF w, f
    <2>3. v1' \in [Files -> Media!File]
      BY <1>0, <2>1, <2>2
    <2>4. \A g \in Files : /\ v1'[g].purpose = v1[g].purpose
                           /\ v1'[g].asset = (IF g = f THEN "USABLE" ELSE v1[g].asset)
                           /\ v1'[g].object = v1[g].object /\ v1'[g].age = v1[g].age
                           /\ v1'[g].used = v1[g].used /\ v1'[g].attached = v1[g].attached
      BY <1>0, <2>1, <2>2
    <2>5. \A g \in Files : FileFit(g)'
      BY <1>F, <2>1, <2>4 DEF FileFit, InUse
    <2>6. Media!CleanupKnows'
      BY <1>0, <1>C, <2>1, <2>4 DEF Media!CleanupKnows, Media!Exists
    <2>7. v3' \in [Requests -> Media!Op] /\ \A p \in Requests : v3'[p] = v3[p] \/ OpFit(v3[p])'
      BY <1>0, <1>I, <2>1, MediaDefaults DEF OpFit
    <2>8. QED
      BY <1>0, <2>1, <2>3, <2>4, <2>5, <2>6, <2>7, MediaKeeps
  \* Using an asset.
  <1>7. ASSUME NEW o \in Requests, NEW f \in Files, Media!CheckUsable(o, f)
        PROVE  Media!IInv'
    <2> DEFINE x == [pc |-> IF v1[f].purpose = "AVATAR" THEN "attach" ELSE "use", on |-> f, from |-> NoFile]
    <2>1. /\ v3' = [v3 EXCEPT ![o] = x] /\ v1' = v1 /\ v2' = v2 /\ v4' = v4 /\ v5' = v5 /\ v6' = v6
          /\ v1[f].asset = "USABLE"
      BY <1>7 DEF Media!CheckUsable, Media!Begin, Media!OnlyOps, Media!Usable
    <2>2. x \in Media!Op /\ OpFit(x)
      BY <2>1 DEF Media!Op, OpFit, Media!Exists, Media!IsAvatar
    <2> HIDE DEF x
    <2>3. QED
      BY <1>0, <2>1, <2>2, MediaAsks
  <1>8. ASSUME NEW o \in Requests, Media!AvatarRead(o)
        PROVE  Media!IInv'
    <2> DEFINE x == [pc |-> "swap", on |-> v3[o].on, from |-> v2]
    <2>1. /\ v3' = [v3 EXCEPT ![o] = x] /\ v1' = v1 /\ v2' = v2 /\ v4' = v4 /\ v5' = v5 /\ v6' = v6
          /\ v3[o].pc = "attach"
      BY <1>8 DEF Media!AvatarRead, Media!At, Media!On, Media!OnlyOps
    <2>2. x \in Media!Op /\ OpFit(x)
      BY <1>0, <1>C, <1>O, <2>1 DEF Media!Op, OpFit, Media!Exists, Media!IsAvatar
    <2> HIDE DEF x
    <2>3. QED
      BY <1>0, <2>1, <2>2, MediaAsks
  <1>9. ASSUME NEW o \in Requests, Media!DeleteAvatarRead(o)
        PROVE  Media!IInv'
    <2> DEFINE x == [pc |-> "swap", on |-> NoFile, from |-> v2]
    <2>1. v3' = [v3 EXCEPT ![o] = x] /\ v1' = v1 /\ v2' = v2 /\ v4' = v4 /\ v5' = v5 /\ v6' = v6
      BY <1>9 DEF Media!DeleteAvatarRead, Media!Begin, Media!OnlyOps
    <2>2. x \in Media!Op /\ OpFit(x)
      BY <1>0, <1>C DEF Media!Op, OpFit, Media!Exists, Media!IsAvatar
    <2> HIDE DEF x
    <2>3. QED
      BY <1>0, <2>1, <2>2, MediaAsks
  <1>10. ASSUME NEW o \in Requests, Media!AvatarCommit(o)
         PROVE  Media!IInv'
    <2> DEFINE new == v3[o].on
    <2> DEFINE old == v3[o].from
    <2>1. /\ v1' = [f \in Files |-> IF f = new THEN [v1[f] EXCEPT !.attached = TRUE]
                                    ELSE IF f = old THEN [v1[f] EXCEPT !.attached = FALSE] ELSE v1[f]]
          /\ v2' = new /\ v3' = [v3 EXCEPT ![o] = Media!Idle] /\ v4' = v4 /\ v5' = v5
          /\ IF new = NoFile THEN v6' = v6
             ELSE v6' = IF new \in v4 \/ v5 = new \/ v1[new].object = "none" THEN v6 \cup {new} ELSE v6
      BY <1>10 DEF Media!AvatarCommit, Media!On, Media!Finish, Media!Doom, Media!Found
    <2>2. /\ new \in Files \cup {NoFile} /\ old \in Files \cup {NoFile}
          /\ new # NoFile => v1[new].purpose = "AVATAR" /\ v1[new].asset # "none"
          /\ old # NoFile => v1[old].purpose = "AVATAR" /\ v1[old].asset # "none"
      BY <1>10, <1>O DEF Media!AvatarCommit, Media!At
    <2> HIDE DEF new, old
    <2>3. ASSUME NEW g \in Files
          PROVE  /\ v1'[g] \in Media!File
                 /\ v1'[g].purpose = v1[g].purpose /\ v1'[g].asset = v1[g].asset
                 /\ v1'[g].object = v1[g].object /\ v1'[g].age = v1[g].age /\ v1'[g].used = v1[g].used
                 /\ v1'[g].attached = (IF g = new THEN TRUE ELSE IF g = old THEN FALSE ELSE v1[g].attached)
      <3>1. v1[g] \in Media!File
        BY <1>0
      <3>2. CASE g = new
        <4>1. v1'[g] = [v1[g] EXCEPT !.attached = TRUE]
          BY <2>1, <3>2
        <4>2. QED
          BY <3>1, <3>2, <4>1 DEF Media!File
      <3>3. CASE g # new /\ g = old
        <4>1. v1'[g] = [v1[g] EXCEPT !.attached = FALSE]
          BY <2>1, <3>3
        <4>2. QED
          BY <3>1, <3>3, <4>1 DEF Media!File
      <3>4. CASE g # new /\ g # old
        BY <2>1, <3>1, <3>4
      <3>5. QED
        BY <3>2, <3>3, <3>4
    <2>4. v1' \in [Files -> Media!File]
      BY <2>1, <2>3
    <2>5. v6' \subseteq Files
      BY <1>0, <2>1, <2>2
    <2>6. ASSUME NEW g \in Files
          PROVE  FileFit(g)'
      <3>1. v1[g].asset \in {"none", "USABLE", "REMOVED"}
        BY <1>0 DEF Media!File
      <3>F. /\ v1[g].asset = "REMOVED" => v1[g].object = "none" /\ v1[g].age = "old"
            /\ v1[g].asset = "USABLE" /\ v1[g].object = "none" => v1[g].age = "old"
        BY <1>F DEF FileFit
      <3>K. /\ v1'[g].purpose = v1[g].purpose /\ v1'[g].asset = v1[g].asset
            /\ v1'[g].object = v1[g].object /\ v1'[g].age = v1[g].age /\ v1'[g].used = v1[g].used
        BY <2>3
      <3>2. CASE g = new
        <4>1. v1'[g].attached
          BY <2>3, <3>2
        <4>2. v1[g].asset # "none" /\ new # NoFile
          BY <1>N, <2>2, <3>2
        <4>3. g \notin v6' => g \notin v4' /\ v5' # g /\ v1[g].object # "none"
          BY <2>1, <3>2, <4>2
        <4>4. QED
          BY <3>1, <3>F, <3>K, <4>1, <4>2, <4>3 DEF FileFit
      <3>3. CASE g # new
        <4>1. v2' # g /\ (g \in v6' <=> g \in v6)
          BY <2>1, <3>3
        <4>2. v1[g].purpose = "PORTFOLIO" => v1'[g].attached = v1[g].attached
          BY <1>N, <2>2, <2>3, <3>3
        <4>3. InUse(g)' => InUse(g) /\ v1[g].purpose = "PORTFOLIO"
          BY <3>K, <4>1 DEF InUse
        <4>4. InUse(g)' => v1'[g].attached
          BY <1>F, <4>2, <4>3 DEF FileFit
        <4>5. InUse(g)' /\ g \notin v6' =>
                v1'[g].asset = "USABLE" /\ v1'[g].object # "none" /\ g \notin v4' /\ v5' # g
          BY <1>F, <2>1, <3>K, <4>1, <4>3 DEF FileFit
        <4>6. QED
          BY <3>F, <3>K, <4>4, <4>5 DEF FileFit
      <3>4. QED
        BY <3>2, <3>3
    <2>7. Media!CleanupKnows'
      BY <1>0, <1>C, <2>1, <2>3 DEF Media!CleanupKnows, Media!Exists
    <2>8. v3' \in [Requests -> Media!Op] /\ \A p \in Requests : v3'[p] = v3[p] \/ OpFit(v3[p])'
      BY <1>0, <1>I, <2>1, MediaDefaults DEF OpFit
    <2>9. v2' # NoFile => v2' = v2 \/ Media!IsAvatar(v2)'
      BY <2>1, <2>2, <2>3 DEF Media!IsAvatar, Media!Exists
    <2>10. v2' \in Files \cup {NoFile}
      BY <2>1, <2>2
    <2>11. QED
      BY <1>0, <2>1, <2>3, <2>4, <2>5, <2>6, <2>7, <2>8, <2>9, <2>10, MediaKeeps
  <1>11. ASSUME NEW o \in Requests, Media!PortfolioCommit(o)
         PROVE  Media!IInv'
    <2> DEFINE f == v3[o].on
    <2> DEFINE w == [v1[f] EXCEPT !.used = "yes", !.attached = TRUE]
    <2>1. /\ v1' = [v1 EXCEPT ![f] = w] /\ v2' = v2 /\ v4' = v4 /\ v5' = v5
          /\ v3' = [v3 EXCEPT ![o] = Media!Idle]
          /\ v6' = IF f \in v4 \/ v5 = f \/ v1[f].object = "none" THEN v6 \cup {f} ELSE v6
      BY <1>11 DEF Media!PortfolioCommit, Media!On, Media!Finish, Media!Doom, Media!Found
    <2>2. f \in Files /\ v1[f] \in Media!File /\ v1[f].purpose = "PORTFOLIO" /\ v1[f].asset # "none"
      BY <1>0, <1>11, <1>O DEF Media!PortfolioCommit, Media!At, Media!On
    <2> HIDE DEF f
    <2>3. /\ w \in Media!File /\ w.purpose = v1[f].purpose /\ w.asset = v1[f].asset /\ w.object = v1[f].object
          /\ w.age = v1[f].age /\ w.used = "yes" /\ w.attached = TRUE
      BY <2>2 DEF Media!File
    <2> HIDE DEF w
    <2>4. v1' \in [Files -> Media!File] /\ v6' \subseteq Files
      BY <1>0, <2>1, <2>2, <2>3
    <2>5. \A g \in Files : /\ v1'[g].purpose = v1[g].purpose /\ v1'[g].asset = v1[g].asset
                           /\ v1'[g].object = v1[g].object /\ v1'[g].age = v1[g].age
                           /\ (g # f => v1'[g] = v1[g])
      BY <1>0, <2>1, <2>3
    <2>6. ASSUME NEW g \in Files
          PROVE  FileFit(g)'
      <3>1. /\ v1[g].asset \in {"none", "USABLE", "REMOVED"}
            /\ v1[g].asset = "REMOVED" => v1[g].object = "none" /\ v1[g].age = "old"
            /\ v1[g].asset = "USABLE" /\ v1[g].object = "none" => v1[g].age = "old"
        BY <1>0, <1>F DEF FileFit, Media!File
      <3>2. CASE g = f
        <4>1. v1'[g].attached
          BY <1>0, <2>1, <2>3, <3>2
        <4>2. g \notin v6' => g \notin v4' /\ v5' # g /\ v1[g].object # "none"
          BY <2>1, <3>2
        <4>3. QED
          BY <2>2, <2>5, <3>1, <3>2, <4>1, <4>2 DEF FileFit
      <3>3. CASE g # f
        <4>1. g \in v6' <=> g \in v6
          BY <2>1, <3>3
        <4>2. v1'[g] = v1[g] /\ (InUse(g)' <=> InUse(g))
          BY <2>1, <2>5, <3>3 DEF InUse
        <4>3. QED
          BY <1>F, <2>1, <4>1, <4>2 DEF FileFit
      <3>4. QED
        BY <3>2, <3>3
    <2>7. Media!CleanupKnows'
      BY <1>0, <1>C, <2>1, <2>5 DEF Media!CleanupKnows, Media!Exists
    <2>8. v3' \in [Requests -> Media!Op] /\ \A p \in Requests : v3'[p] = v3[p] \/ OpFit(v3[p])'
      BY <1>0, <1>I, <2>1, MediaDefaults DEF OpFit
    <2>9. QED
      BY <1>0, <2>1, <2>4, <2>5, <2>6, <2>7, <2>8, MediaKeeps
  <1>12. ASSUME NEW o \in Requests, NEW f \in Files, Media!DeletePortfolioRead(o, f)
         PROVE  Media!IInv'
    <2> DEFINE x == [pc |-> "delete", on |-> f, from |-> NoFile]
    <2>1. /\ v3' = [v3 EXCEPT ![o] = x] /\ v1' = v1 /\ v2' = v2 /\ v4' = v4 /\ v5' = v5 /\ v6' = v6
          /\ v1[f].purpose = "PORTFOLIO"
      BY <1>12 DEF Media!DeletePortfolioRead, Media!Begin, Media!OnlyOps
    <2>2. x \in Media!Op /\ OpFit(x)
      BY <2>1 DEF Media!Op, OpFit
    <2> HIDE DEF x
    <2>3. QED
      BY <1>0, <2>1, <2>2, MediaAsks
  <1>13. ASSUME NEW o \in Requests, Media!DeletePortfolioCommit(o)
         PROVE  Media!IInv'
    <2>0. PICK f : f = v3[o].on
      OBVIOUS
    <2> DEFINE w == [v1[f] EXCEPT !.used = "past", !.attached = FALSE]
    <2>1. /\ v1' = [v1 EXCEPT ![f] = w] /\ v2' = v2 /\ v4' = v4 /\ v5' = v5 /\ v6' = v6
          /\ v3' = [v3 EXCEPT ![o] = Media!Idle]
      BY <1>13, <2>0 DEF Media!DeletePortfolioCommit, Media!On, Media!Finish
    <2>2. f \in Files /\ v1[f] \in Media!File /\ v1[f].purpose = "PORTFOLIO"
      BY <1>0, <1>13, <1>O, <2>0 DEF Media!DeletePortfolioCommit, Media!At
    <2>3. /\ w \in Media!File /\ w.purpose = v1[f].purpose /\ w.asset = v1[f].asset /\ w.object = v1[f].object
          /\ w.age = v1[f].age /\ w.used = "past"
      BY <2>2 DEF Media!File
    <2> HIDE DEF w
    <2>4. v1' \in [Files -> Media!File]
      BY <1>0, <2>1, <2>2, <2>3
    <2>5. \A g \in Files : /\ v1'[g].purpose = v1[g].purpose /\ v1'[g].asset = v1[g].asset
                           /\ v1'[g].object = v1[g].object /\ v1'[g].age = v1[g].age
                           /\ (g # f => v1'[g] = v1[g])
      BY <1>0, <2>1, <2>3
    <2>6. ~ InUse(f)'
      BY <1>0, <1>C, <1>N, <2>1, <2>2, <2>3 DEF InUse
    <2>7. \A g \in Files \ {f} : InUse(g)' <=> InUse(g)
      BY <2>1, <2>5 DEF InUse
    <2>8. \A g \in Files : FileFit(g)'
      BY <1>F, <2>1, <2>5, <2>6, <2>7 DEF FileFit
    <2>9. Media!CleanupKnows'
      BY <1>0, <1>C, <2>1, <2>5 DEF Media!CleanupKnows, Media!Exists
    <2>10. v3' \in [Requests -> Media!Op] /\ \A p \in Requests : v3'[p] = v3[p] \/ OpFit(v3[p])'
      BY <1>0, <1>I, <2>1, MediaDefaults DEF OpFit
    <2>11. QED
      BY <1>0, <2>1, <2>4, <2>5, <2>8, <2>9, <2>10, MediaKeeps
  <1>14. ASSUME NEW o \in Requests, Media!ReferenceCommit(o)
         PROVE  Media!IInv'
    <2> DEFINE f == v3[o].on
    <2> DEFINE w == [v1[f] EXCEPT !.used = "yes"]
    <2>1. /\ v1' = [v1 EXCEPT ![f] = w] /\ v2' = v2 /\ v4' = v4 /\ v5' = v5 /\ v6' = v6
          /\ v3' = [v3 EXCEPT ![o] = Media!Idle]
      BY <1>14 DEF Media!ReferenceCommit, Media!On, Media!Finish
    <2>2. f \in Files /\ v1[f] \in Media!File /\ v1[f].purpose # "PORTFOLIO"
      BY <1>0, <1>14, <1>O DEF Media!ReferenceCommit, Media!At, Media!On
    <2> HIDE DEF f
    <2>3. /\ w \in Media!File /\ w.purpose = v1[f].purpose /\ w.asset = v1[f].asset /\ w.object = v1[f].object
          /\ w.age = v1[f].age /\ w.attached = v1[f].attached
      BY <2>2 DEF Media!File
    <2> HIDE DEF w
    <2>4. v1' \in [Files -> Media!File]
      BY <1>0, <2>1, <2>2, <2>3
    <2>5. \A g \in Files : /\ v1'[g].purpose = v1[g].purpose /\ v1'[g].asset = v1[g].asset
                           /\ v1'[g].object = v1[g].object /\ v1'[g].age = v1[g].age
                           /\ v1'[g].attached = v1[g].attached /\ (g # f => v1'[g] = v1[g])
      BY <1>0, <2>1, <2>3
    <2>6. \A g \in Files : InUse(g)' <=> InUse(g)
      BY <2>1, <2>2, <2>5 DEF InUse
    <2>7. \A g \in Files : FileFit(g)'
      BY <1>F, <2>1, <2>5, <2>6 DEF FileFit
    <2>8. Media!CleanupKnows'
      BY <1>0, <1>C, <2>1, <2>5 DEF Media!CleanupKnows, Media!Exists
    <2>9. v3' \in [Requests -> Media!Op] /\ \A p \in Requests : v3'[p] = v3[p] \/ OpFit(v3[p])'
      BY <1>0, <1>I, <2>1, MediaDefaults DEF OpFit
    <2>10. QED
      BY <1>0, <2>1, <2>4, <2>5, <2>7, <2>8, <2>9, MediaKeeps
  \* The cleanup.
  <1>15. ASSUME v1' = v1, v2' = v2, v3' = v3, v6' = v6, v4' \subseteq Files, v5' \in Files \cup {NoFile},
                Media!CleanupKnows', \A g \in Files : (g \in v4' => g \in v4 \/ ~ v1[g].attached) /\ (v5' = g => v5 = g)
         PROVE  Media!IInv'
    <2>1. \A g \in Files : FileFit(g)'
      BY <1>15, <1>F DEF FileFit, InUse
    <2>2. QED
      BY <1>0, <1>15, <2>1, MediaKeeps
  <1>16. CASE Media!CleanFind
    <2>1. /\ v1' = v1 /\ v2' = v2 /\ v3' = v3 /\ v5' = v5 /\ v6' = v6 /\ v5 = NoFile
          /\ \A f \in v4' : f \in Files /\ v1[f].asset = "USABLE" /\ ~ v1[f].attached
      BY <1>16 DEF Media!CleanFind, Media!Orphans, Media!Usable
    <2>2. Media!CleanupKnows'
      BY <2>1 DEF Media!CleanupKnows, Media!Exists
    <2>3. QED
      BY <1>0, <1>15, <2>1, <2>2
  <1>17. ASSUME NEW f \in Files, Media!CleanSkip(f)
         PROVE  Media!IInv'
    <2>1. v1' = v1 /\ v2' = v2 /\ v3' = v3 /\ v5' = v5 /\ v6' = v6 /\ v4' = v4 \ {f}
      BY <1>17 DEF Media!CleanSkip
    <2>2. Media!CleanupKnows'
      BY <1>C, <2>1 DEF Media!CleanupKnows, Media!Exists
    <2>3. QED
      BY <1>0, <1>15, <2>1, <2>2
  <1>18. ASSUME NEW f \in Files, Media!CleanObject(f)
         PROVE  Media!IInv'
    <2> DEFINE w == [v1[f] EXCEPT !.object = "none"]
    <2>1. /\ v1' = [v1 EXCEPT ![f] = w] /\ v2' = v2 /\ v3' = v3 /\ v4' = v4 \ {f} /\ v5' = f /\ v6' = v6
          /\ f \in v4 /\ v1[f].age = "old" /\ v1[f] \in Media!File
      BY <1>0, <1>18 DEF Media!CleanObject
    <2>2. /\ w \in Media!File /\ w.purpose = v1[f].purpose /\ w.asset = v1[f].asset /\ w.object = "none"
          /\ w.age = "old" /\ w.used = v1[f].used /\ w.attached = v1[f].attached
      BY <2>1 DEF Media!File
    <2> HIDE DEF w
    <2>3. v1' \in [Files -> Media!File]
      BY <1>0, <2>1, <2>2
    <2>4. \A g \in Files : /\ v1'[g].purpose = v1[g].purpose /\ v1'[g].asset = v1[g].asset
                           /\ v1'[g].age = v1[g].age /\ v1'[g].used = v1[g].used
                           /\ v1'[g].attached = v1[g].attached /\ (g # f => v1'[g].object = v1[g].object)
      BY <1>0, <2>1, <2>2
    <2>5. v1'[f].object = "none" /\ v1'[f].age = "old" /\ v1[f].asset # "none"
      BY <1>0, <1>C, <2>1, <2>2
    <2>6. \A g \in Files : InUse(g)' <=> InUse(g)
      BY <2>1, <2>4 DEF InUse
    <2>7. \A g \in Files \ {f} : FileFit(g)'
      BY <1>F, <2>1, <2>4, <2>6 DEF FileFit
    <2>8. FileFit(f)'
      BY <1>F, <2>1, <2>4, <2>5, <2>6 DEF FileFit
    <2>9. Media!CleanupKnows'
      BY <1>0, <1>C, <2>1, <2>4, <2>5 DEF Media!CleanupKnows, Media!Exists
    <2>10. QED
      BY <1>0, <2>1, <2>3, <2>4, <2>5, <2>7, <2>8, <2>9, MediaKeeps
  <1>19. CASE Media!CleanMark
    <2>0. PICK f : f = v5
      OBVIOUS
    <2> DEFINE w == [v1[f] EXCEPT !.asset = "REMOVED"]
    <2>1. /\ v1' = [v1 EXCEPT ![f] = w] /\ v2' = v2 /\ v3' = v3 /\ v4' = v4 /\ v5' = NoFile /\ v6' = v6
          /\ f \in Files /\ v1[f].age = "old" /\ v1[f].object = "none" /\ v5 = f
          /\ v1[f] \in Media!File /\ v1[f].asset # "none"
      BY <1>0, <1>19, <1>C, <2>0 DEF Media!CleanMark
    <2>2. /\ w \in Media!File /\ w.purpose = v1[f].purpose /\ w.asset = "REMOVED" /\ w.object = v1[f].object
          /\ w.age = "old" /\ w.used = v1[f].used /\ w.attached = v1[f].attached
      BY <2>1 DEF Media!File
    <2> HIDE DEF w
    <2>3. v1' \in [Files -> Media!File]
      BY <1>0, <2>1, <2>2
    <2>4. \A g \in Files : /\ v1'[g].purpose = v1[g].purpose /\ v1'[g].object = v1[g].object
                           /\ v1'[g].age = v1[g].age /\ v1'[g].used = v1[g].used
                           /\ v1'[g].attached = v1[g].attached /\ (g # f => v1'[g].asset = v1[g].asset)
      BY <1>0, <2>1, <2>2
    <2>5. v1'[f].asset = "REMOVED"
      BY <1>0, <2>1, <2>2
    <2>6. \A g \in Files : InUse(g)' <=> InUse(g)
      BY <2>1, <2>4 DEF InUse
    <2>7. \A g \in Files \ {f} : FileFit(g)'
      BY <1>F, <1>N, <2>1, <2>4, <2>6 DEF FileFit
    <2>8. FileFit(f)'
      BY <1>F, <2>1, <2>4, <2>5, <2>6 DEF FileFit
    <2>9. Media!CleanupKnows'
      <3>1. \A g \in v4' : v1'[g].asset # "none"
        BY <1>0, <1>C, <2>1, <2>4, <2>5
      <3>2. QED
        BY <2>1, <3>1 DEF Media!CleanupKnows, Media!Exists
    <2>10. \A g \in Files : v1'[g].asset # "none" \/ v1[g].asset = "none"
      BY <2>4, <2>5
    <2>11. QED
      BY <1>0, <2>1, <2>3, <2>4, <2>7, <2>8, <2>9, <2>10, MediaKeeps
  <1>20. CASE Media!CleanFail
    <2>1. v1' = v1 /\ v2' = v2 /\ v3' = v3 /\ v5' = NoFile /\ v6' = v6 /\ v4' \subseteq v4
      BY <1>20 DEF Media!CleanFail
    <2>2. Media!CleanupKnows'
      BY <1>C, <2>1 DEF Media!CleanupKnows, Media!Exists
    <2>3. QED
      BY <1>0, <1>15, <1>N, <2>1, <2>2
  <1>21. CASE Media!CleanCrash
    <2>1. v1' = v1 /\ v2' = v2 /\ v3' = v3 /\ v5' = NoFile /\ v6' = v6 /\ v4' = {}
      BY <1>21 DEF Media!CleanCrash
    <2>2. Media!CleanupKnows'
      BY <2>1 DEF Media!CleanupKnows
    <2>3. QED
      BY <1>0, <1>15, <1>N, <2>1, <2>2
  \* Time passes, or a request ends.
  <1>22. ASSUME NEW f \in Files, Media!Pass(f)
         PROVE  Media!IInv'
    <2>1. PICK age \in {"kept", "old"} : v1' = [v1 EXCEPT ![f].age = age] /\ v1[f].age # "old"
      BY <1>22 DEF Media!Pass
    <2> DEFINE w == [v1[f] EXCEPT !.age = age]
    <2>2. v1' = [v1 EXCEPT ![f] = w] /\ v2' = v2 /\ v3' = v3 /\ v4' = v4 /\ v5' = v5 /\ v6' = v6
      BY <1>22, <2>1 DEF Media!Pass
    <2>3. /\ w \in Media!File /\ w.purpose = v1[f].purpose /\ w.asset = v1[f].asset
          /\ w.object = v1[f].object /\ w.used = v1[f].used /\ w.attached = v1[f].attached
      <3>1. v1[f] \in Media!File
        BY <1>0
      <3>2. QED
        BY <3>1 DEF Media!File
    <2> HIDE DEF w
    <2>4. v1' \in [Files -> Media!File]
      BY <1>0, <2>2, <2>3
    <2>5. \A g \in Files : /\ v1'[g].purpose = v1[g].purpose /\ v1'[g].asset = v1[g].asset
                           /\ v1'[g].object = v1[g].object /\ v1'[g].used = v1[g].used
                           /\ v1'[g].attached = v1[g].attached /\ (v1[g].age = "old" => v1'[g].age = "old")
      BY <1>0, <2>1, <2>2, <2>3
    <2>6. \A g \in Files : FileFit(g)'
      BY <1>F, <2>2, <2>5 DEF FileFit, InUse
    <2>7. Media!CleanupKnows'
      BY <1>0, <1>C, <2>2, <2>5 DEF Media!CleanupKnows, Media!Exists
    <2>8. QED
      BY <1>0, <2>2, <2>4, <2>5, <2>6, <2>7, MediaKeeps
  <1>23. ASSUME NEW o \in Requests, Media!Abort(o)
         PROVE  Media!IInv'
    <2>1. /\ v3' = [v3 EXCEPT ![o] = Media!Idle] /\ v1' = v1 /\ v2' = v2 /\ v4' = v4 /\ v5' = v5 /\ v6' = v6
      BY <1>23 DEF Media!Abort, Media!Finish, Media!OnlyOps
    <2>2. QED
      BY <1>0, <1>I, <2>1, MediaDefaults, MediaAsks
  <1>24. QED
    BY <1>1, <1>2, <1>3, <1>4, <1>5, <1>6, <1>7, <1>8, <1>9, <1>10, <1>11, <1>12, <1>13, <1>14, <1>16,
       <1>17, <1>18, <1>19, <1>20, <1>21, <1>22, <1>23 DEF Media!Next

-----------------------------------------------------------------------------
\* A finite set that is not empty has a last element in every strict order.
LEMMA HasLast ==
  ASSUME NEW S, IsFiniteSet(S), S # {}, NEW R, \A a \in S : <<a, a>> \notin R,
         \A a, b, c \in S : <<a, b>> \in R /\ <<b, c>> \in R => <<a, c>> \in R
  PROVE  \E a \in S : \A b \in S : <<a, b>> \notin R
  <1> DEFINE Above(a) == {b \in S : <<a, b>> \in R}
             T == {Above(a) : a \in S}
  <1>1. IsWellFoundedOn(StrictSubsetOrdering(S), SUBSET S)
    BY FS_StrictSubsetOrderingWellFounded, FS_FiniteSubsetsOfFinite
  <1>2. T \subseteq SUBSET S /\ T # {}
    <2>1. PICK a \in S : TRUE
      OBVIOUS
    <2>2. Above(a) \in T
      OBVIOUS
    <2>3. \A b \in S : Above(b) \in SUBSET S
      OBVIOUS
    <2> HIDE DEF Above
    <2>4. T \subseteq SUBSET S
      BY <2>3
    <2> HIDE DEF T
    <2>5. QED
      BY <2>2, <2>4
  <1> HIDE DEF T
  <1>3. PICK A \in T : \A B \in T : <<B, A>> \notin StrictSubsetOrdering(S)
    BY <1>1, <1>2, WFMin
  <1>4. PICK a \in S : A = Above(a)
    BY <1>3 DEF T
  <1>5. ASSUME NEW b \in S, <<a, b>> \in R
        PROVE  FALSE
    <2>0. \A c : /\ c \in A <=> c \in S /\ <<a, c>> \in R
                 /\ c \in Above(b) <=> c \in S /\ <<b, c>> \in R
      BY <1>4
    <2>1. Above(b) \subseteq A /\ b \in A /\ b \notin Above(b)
      <3> HIDE DEF Above
      <3>1. QED
        BY <1>5, <2>0
    <2>2. Above(b) \in T /\ Above(b) \in SUBSET S /\ A \in SUBSET S
      <3>1. A \in SUBSET S
        BY <1>2, <1>3
      <3>2. Above(b) \in T
        BY DEF T
      <3>3. QED
        BY <3>1, <3>2
    <2> HIDE DEF Above
    <2>3. <<Above(b), A>> \in StrictSubsetOrdering(S)
      BY <2>1, <2>2 DEF StrictSubsetOrdering
    <2>4. QED
      BY <1>3, <2>2, <2>3
  <1>6. QED
    BY <1>5

\* P holds those of S that have fewer than n below them in the order R.
FirstOf(P, n, S, R, Below) ==
  /\ P \subseteq S /\ \A a \in S : a \in P <=> Cardinality(Below[a]) < n
  /\ \A a \in S : Below[a] \subseteq S /\ \A b \in S : b \in Below[a] <=> <<b, a>> \in R
Orders(R, S) ==
  /\ \A a \in S : <<a, a>> \notin R
  /\ \A a, b, c \in S : <<a, b>> \in R /\ <<b, c>> \in R => <<a, c>> \in R
  /\ \A a, b \in S : a # b => <<a, b>> \in R \/ <<b, a>> \in R
Front(P, n, S, R) ==
  /\ \A a \in P, b \in S : <<b, a>> \in R => b \in P
  /\ Cardinality(S) <= n => P = S
  /\ S # {} => \E a \in P : \A b \in P \ {a} : <<b, a>> \in R

\* The first n elements of a finite set in a strict order come before all
\* others, are all there are if they are no more than n, and have a last one.
LEMMA FirstOnes ==
  ASSUME NEW S, IsFiniteSet(S), NEW R, Orders(R, S), NEW n \in Nat \ {0},
         NEW P, NEW Below, FirstOf(P, n, S, R, Below)
  PROVE  Front(P, n, S, R)
  <1> USE DEF Orders, FirstOf
  <1>1. \A a \in S : IsFiniteSet(Below[a]) /\ Cardinality(Below[a]) \in Nat
    BY FS_Subset, FS_CardinalityType
  <1>2. ASSUME NEW a \in P, NEW b \in S, <<b, a>> \in R
        PROVE  b \in P
    <2>1. Below[b] \subseteq Below[a] /\ a \in S
      BY <1>2
    <2>2. Cardinality(Below[b]) <= Cardinality(Below[a])
      BY <1>1, <2>1, FS_Subset
    <2>3. Cardinality(Below[a]) < n
      BY <1>2
    <2>4. Cardinality(Below[b]) < n
      <3>1. Cardinality(Below[a]) \in Nat /\ Cardinality(Below[b]) \in Nat
        BY <1>1, <2>1
      <3>2. QED
        BY <2>2, <2>3, <3>1
    <2>5. QED
      BY <2>4
  <1>3. ASSUME Cardinality(S) <= n, NEW a \in S
        PROVE  a \in P
    <2>1. IsFiniteSet(S \ {a}) /\ Cardinality(S \ {a}) = Cardinality(S) - 1 /\ Cardinality(S) \in Nat
      BY FS_RemoveElement, FS_CardinalityType
    <2>2. Below[a] \in SUBSET (S \ {a})
      OBVIOUS
    <2>3. Cardinality(Below[a]) <= Cardinality(S \ {a})
      BY <2>1, <2>2, FS_Subset
    <2>4. Cardinality(Below[a]) < n
      <3>1. Cardinality(Below[a]) \in Nat
        BY <1>1
      <3>2. QED
        BY <1>3, <2>1, <2>3, <3>1
    <2>5. QED
      BY <2>4
  <1>4. ASSUME S # {}
        PROVE  P # {}
    <2> DEFINE U == {x \in S \X S : <<x[2], x[1]>> \in R}
    <2>1. \A a, b \in S : <<a, b>> \in U <=> <<b, a>> \in R
      OBVIOUS
    <2> HIDE DEF U
    <2>2. (\A a \in S : <<a, a>> \notin U)
          /\ (\A a, b, c \in S : <<a, b>> \in U /\ <<b, c>> \in U => <<a, c>> \in U)
      BY <2>1
    <2>3. PICK a \in S : \A b \in S : <<a, b>> \notin U
      BY <1>4, <2>2, HasLast
    <2>4. Below[a] = {}
      BY <2>1, <2>3
    <2>5. Cardinality(Below[a]) < n
      BY <2>4, FS_EmptySet
    <2>6. QED
      BY <2>5
  <1>5. ASSUME S # {}
        PROVE  \E a \in P : \A b \in P \ {a} : <<b, a>> \in R
    <2>1. P \in SUBSET S /\ P # {}
      BY <1>4, <1>5
    <2>2. IsFiniteSet(P)
      BY <2>1, FS_Subset
    <2>3. PICK a \in P : \A b \in P : <<a, b>> \notin R
      <3>1. ASSUME NEW Q \in SUBSET S, Q # {}, IsFiniteSet(Q)
            PROVE  \E a \in Q : \A b \in Q : <<a, b>> \notin R
        <4>1. /\ \A a \in Q : <<a, a>> \notin R
              /\ \A a, b, c \in Q : <<a, b>> \in R /\ <<b, c>> \in R => <<a, c>> \in R
          OBVIOUS
        <4>2. QED
          BY <3>1, <4>1, HasLast
      <3>2. QED
        BY <2>1, <2>2, <3>1
    <2>4. QED
      BY <2>1, <2>3
  <1>6. QED
    BY <1>2, <1>3, <1>5 DEF Front

-----------------------------------------------------------------------------
(* Lists: v1 holds list, v2 search, v3 row, v4 cursor, v5 ended, v6 shown,  *)
(* v7 stray, v8 cut and v9 stayed.                                         *)

\* How lists are searched, and what their rows hold.
LEMMA ListsDefaults ==
  /\ \A l \in Lists!Lists : l.search \in {"none", "or", "and"}
  /\ \A l : Lists!Keys(l) \subseteq 0..MaxAt
  /\ \A s : Lists!States(s) \subseteq {"out", "filtered", "found"}
  /\ Lists!Start.id = 0 /\ Lists!Start.at = 0
  /\ Lists!Start \in [at: 0..MaxAt, id: Rows \cup {0}]
  <1>1. \A l \in Lists!Lists : l.search \in {"none", "or", "and"}
    <2> DEFINE How == {"none", "or", "and"}
               Any == [search: How, enters: {"first", "anywhere"}, moves: BOOLEAN, nulls: BOOLEAN]
    <2>1. Lists!ByDate \in Any /\ \A how \in How : Lists!Newest(how) \in Any
      BY DEF Lists!ByDate, Lists!Newest
    <2>2. \A l \in Any : [l EXCEPT !.moves = TRUE] \in Any /\ [l EXCEPT !.moves = TRUE, !.nulls = TRUE] \in Any
      OBVIOUS
    <2> HIDE DEF Any
    <2>3. /\ Lists!users \in Any /\ Lists!photographers \in Any /\ Lists!reviews \in Any
          /\ Lists!reports \in Any /\ Lists!penalties \in Any /\ Lists!adminBookings \in Any
          /\ Lists!activityFields \in Any /\ Lists!roles \in Any /\ Lists!services \in Any
          /\ Lists!legalDocuments \in Any
      BY <2>1 DEF Lists!users, Lists!photographers, Lists!reviews, Lists!reports, Lists!penalties,
           Lists!adminBookings, Lists!activityFields, Lists!roles, Lists!services, Lists!legalDocuments
    <2>4. /\ Lists!incoming \in Any /\ Lists!matches \in Any /\ Lists!messages \in Any
          /\ Lists!photographerReviews \in Any /\ Lists!blocks \in Any /\ Lists!bookings \in Any
      BY <2>1 DEF Lists!incoming, Lists!matches, Lists!messages, Lists!photographerReviews, Lists!blocks,
           Lists!bookings
    <2>5. /\ Lists!nearby \in Any /\ Lists!publicPortfolio \in Any
          /\ Lists!discover \in Any /\ Lists!conversations \in Any
      BY <2>1, <2>2 DEF Lists!nearby, Lists!publicPortfolio, Lists!discover, Lists!conversations
    <2>6. Lists!Lists \subseteq Any
      BY <2>3, <2>4, <2>5 DEF Lists!Lists
    <2>7. QED
      BY <2>6 DEF Any
  <1>2. MaxAt \in Nat
    BY LimitAssumption
  <1>3. \A l : Lists!Keys(l) \subseteq 0..MaxAt
    BY <1>2 DEF Lists!Keys
  <1>4. \A s : Lists!States(s) \subseteq {"out", "filtered", "found"}
    BY DEF Lists!States
  <1>5. Lists!Start.id = 0 /\ Lists!Start.at = 0 /\ Lists!Start \in [at: 0..MaxAt, id: Rows \cup {0}]
    BY <1>2 DEF Lists!Start
  <1>6. QED
    BY <1>1, <1>3, <1>4, <1>5

\* Before the first page nothing is shown.
LEMMA ListsInit == Lists!Init => Lists!IInv
  <1> SUFFICES ASSUME Lists!Init PROVE Lists!IInv
    OBVIOUS
  <1>1. v3 \in [Rows -> Lists!Row]
    BY ListsDefaults DEF Lists!Init, Lists!Row
  <1>2. v6 = [r \in Rows |-> 0] /\ v7 = {} /\ v9 = Rows /\ v5 = FALSE /\ v8 = FALSE /\ v4 = Lists!Start
    BY DEF Lists!Init
  <1>3. Lists!TypeOK
    <2>1. v1 \in Lists!Lists /\ v2 \in BOOLEAN
      BY DEF Lists!Init
    <2>2. v4 \in [at: 0..MaxAt, id: Rows \cup {0}]
      BY <1>2, ListsDefaults
    <2>3. v6 \in [Rows -> Nat]
      BY <1>2
    <2>4. QED
      BY <1>1, <1>2, <2>1, <2>2, <2>3 DEF Lists!TypeOK
  <1>4. Lists!ShownUpToCursor /\ Lists!StayersShownOnce /\ Lists!SearchKeptUnlessReplaced
    BY <1>2 DEF Lists!ShownUpToCursor, Lists!StayersShownOnce, Lists!SearchKeptUnlessReplaced
  <1>5. Lists!SearchesAndCuts
    BY <1>2 DEF Lists!Init, Lists!SearchesAndCuts
  <1>6. QED
    BY <1>3, <1>4, <1>5 DEF Lists!IInv

\* The page is the first rows the query selects: no row selected comes before
\* one of them and is left out, all are on it unless there are more, and then
\* it has a last one.
LEMMA PageFacts ==
  ASSUME Lists!TypeOK
  PROVE  /\ Lists!Page \subseteq Lists!Selected
         /\ \A a \in Lists!Page, b \in Lists!Selected : Lists!Comes(b, v3[a].at, a) => b \in Lists!Page
         /\ ~ Lists!HasMore => Lists!Page = Lists!Selected
         /\ Lists!HasMore => /\ Lists!Last \in Lists!Page
                             /\ \A b \in Lists!Page \ {Lists!Last} : Lists!Comes(b, v3[Lists!Last].at, Lists!Last)
  <1> DEFINE S == Lists!Selected
             R == {x \in Rows \X Rows : Lists!Comes(x[1], v3[x[2]].at, x[2])}
  <1>1. Rows \subseteq Nat /\ IsFiniteSet(Rows) /\ Limit \in Nat \ {0}
    BY RowsAssumption, LimitAssumption
  <1>2. S \in SUBSET Rows /\ IsFiniteSet(S)
    BY <1>1, FS_Subset DEF Lists!Selected
  <1>3. \A a, b \in Rows : <<a, b>> \in R <=> Lists!Comes(a, v3[b].at, b)
    OBVIOUS
  <1>4. \A a \in Rows : v3[a].at \in Nat
    BY LimitAssumption DEF Lists!TypeOK, Lists!Row
  <1> HIDE DEF R
  <1>5. /\ \A a \in S : <<a, a>> \notin R
        /\ \A a, b, c \in S : <<a, b>> \in R /\ <<b, c>> \in R => <<a, c>> \in R
        /\ \A a, b \in S : a # b => <<a, b>> \in R \/ <<b, a>> \in R
    BY <1>1, <1>2, <1>3, <1>4 DEF Lists!Comes
  <1>6. Lists!Page = {a \in S : Cardinality({b \in S : <<b, a>> \in R}) < Limit}
    <2>1. \A T : Lists!Cardinality(T) = Cardinality(T)
      BY DEF Lists!Cardinality, Cardinality
    <2>2. ASSUME NEW a \in S
          PROVE  {b \in S : <<b, a>> \in R} = {b \in S : Lists!Comes(b, v3[a].at, a)}
      BY <1>2, <1>3
    <2>3. QED
      BY <2>1, <2>2 DEF Lists!Page
  <1>7. Lists!HasMore <=> ~ Cardinality(S) <= Limit
    <2>1. Lists!Cardinality(S) = Cardinality(S)
      BY DEF Lists!Cardinality, Cardinality
    <2>2. QED
      BY <1>1, <1>2, <2>1, FS_CardinalityType DEF Lists!HasMore
  <1> DEFINE P == Lists!Page
  <1> DEFINE Below == [a \in S |-> {b \in S : <<b, a>> \in R}]
  <1>a. P \in SUBSET S /\ \A a \in S : a \in P <=> Cardinality(Below[a]) < Limit
    BY <1>6
  <1>b. \A a \in S : Below[a] \subseteq S /\ \A b \in S : b \in Below[a] <=> <<b, a>> \in R
    OBVIOUS
  <1> HIDE DEF S, P, Below
  <1>c. Front(P, Limit, S, R)
    BY <1>1, <1>2, <1>5, <1>a, <1>b, FirstOnes DEF Orders, FirstOf
  <1>8. /\ \A a \in P, b \in S : <<b, a>> \in R => b \in P
        /\ Cardinality(S) <= Limit => P = S
        /\ S # {} => \E a \in P : \A b \in P \ {a} : <<b, a>> \in R
    BY <1>c DEF Front
  <1>9. P \subseteq S
    BY <1>a
  <1>10. ASSUME Lists!HasMore
         PROVE  Lists!Last \in P /\ \A b \in P \ {Lists!Last} : Lists!Comes(b, v3[Lists!Last].at, Lists!Last)
    <2>1. S # {}
      BY <1>1, <1>7, <1>10, FS_EmptySet
    <2>2. \E a \in P : \A b \in P \ {a} : Lists!Comes(b, v3[a].at, a)
      BY <1>2, <1>3, <1>8, <1>9, <2>1
    <2>3. QED
      BY <2>2 DEF Lists!Last, P
  <1>11. QED
    BY <1>2, <1>3, <1>7, <1>8, <1>9, <1>10 DEF S, P

\* A page shows what was not shown, and where the next one starts everything
\* before it was.
LEMMA ListsFetch == Lists!IInv /\ Lists!Fetch => Lists!IInv'
  <1> SUFFICES ASSUME Lists!IInv, Lists!Fetch PROVE Lists!IInv'
    OBVIOUS
  <1> DEFINE P == Lists!Page
             S == Lists!Selected
             L == Lists!Last
  <1>0. /\ v1 \in Lists!Lists /\ v2 \in BOOLEAN /\ v3 \in [Rows -> Lists!Row]
        /\ v4 \in [at: 0..MaxAt, id: Rows \cup {0}] /\ v6 \in [Rows -> Nat] /\ v7 \subseteq Rows /\ v9 \subseteq Rows
    BY DEF Lists!IInv, Lists!TypeOK
  <1>1. /\ ~ v5 /\ v4' = Lists!NextCursor /\ v5' = (Lists!NextCursor = Lists!Start)
        /\ v8' = (Lists!HasMore /\ Lists!NextCursor = Lists!Start)
        /\ v6' = [r \in Rows |-> v6[r] + (IF r \in P THEN 1 ELSE 0)]
        /\ v7' = v7 \cup {r \in P : v2 /\ v3[r].state # "found"}
        /\ v1' = v1 /\ v2' = v2 /\ v3' = v3 /\ v9' = v9
    BY DEF Lists!Fetch
  <1>2. /\ \A r \in Rows : v3[r].at \in 0..MaxAt /\ v3[r].state \in {"out", "filtered", "found"}
        /\ Rows \subseteq Nat \ {0} /\ MaxAt \in Nat /\ 0..MaxAt \subseteq Nat
    BY <1>0, RowsAssumption, LimitAssumption DEF Lists!Row
  <1>3. /\ S \subseteq Rows
        /\ \A r \in Rows : r \in S <=>
             v3[r].state # "out" /\ Lists!Found(r) /\ (v4 # Lists!Start => Lists!After(r))
    BY DEF Lists!Selected
  <1>4. /\ P \subseteq S
        /\ \A a \in P, b \in S : Lists!Comes(b, v3[a].at, a) => b \in P
        /\ ~ Lists!HasMore => P = S
        /\ Lists!HasMore => L \in P /\ \A b \in P \ {L} : Lists!Comes(b, v3[L].at, L)
    BY PageFacts DEF Lists!IInv
  <1>5. \A r \in Rows : v3[r].state = "found" => Lists!Found(r) /\ v3[r].state # "out"
    BY DEF Lists!Found
  <1> HIDE DEF P, S, L
  <1>6. \/ /\ Lists!HasMore /\ L \in Rows
           /\ v4' = [at |-> v3[L].at, id |-> L] /\ v4'.at = v3[L].at /\ v4'.id = L
           /\ v4' # Lists!Start /\ v5' = FALSE /\ v8' = FALSE
        \/ /\ v4' = Lists!Start /\ v5' = TRUE
           /\ (v8' <=> Lists!HasMore) /\ (Lists!HasMore => v1.nulls)
    <2>1. Lists!HasMore => L \in Rows /\ L # 0
      BY <1>2, <1>3, <1>4
    <2>2. [at |-> v3[L].at, id |-> L].id = L
      OBVIOUS
    <2>3. Lists!HasMore => [at |-> v3[L].at, id |-> L] # Lists!Start
      BY <2>1, <2>2, ListsDefaults
    <2>4. CASE Lists!HasMore /\ ~ (v1.nulls /\ v3[L].at = 0)
      <3>1. Lists!NextCursor = [at |-> v3[L].at, id |-> L]
        BY <2>4 DEF Lists!NextCursor, L
      <3>2. QED
        BY <1>1, <2>1, <2>3, <2>4, <3>1
    <2>5. CASE ~ (Lists!HasMore /\ ~ (v1.nulls /\ v3[L].at = 0))
      <3>1. Lists!NextCursor = Lists!Start
        BY <2>5 DEF Lists!NextCursor, L
      <3>2. v4' = Lists!Start /\ v5' = TRUE
        BY <1>1, <3>1
      <3>3. v8' <=> Lists!HasMore
        BY <1>1, <3>1
      <3>4. QED
        BY <2>5, <3>2, <3>3
    <2>6. QED
      BY <2>4, <2>5
  <1>7. \A r \in v9 : v6[r] \in Nat /\ v6[r] <= 1 /\ (r \in S => v6[r] = 0)
    BY <1>0, <1>1, <1>3 DEF Lists!IInv, Lists!ShownUpToCursor, Lists!StayersShownOnce
  <1>8. \A r \in v9 : r \notin S /\ v3[r].state = "found" => v6[r] = 1
    BY <1>0, <1>1, <1>3, <1>5 DEF Lists!IInv, Lists!ShownUpToCursor
  <1>9. \A r \in v9 : v6'[r] = (IF r \in P THEN 1 ELSE v6[r])
    BY <1>0, <1>1, <1>4, <1>7
  <1>10. Lists!TypeOK'
    <2>1. v4' \in [at: 0..MaxAt, id: Rows \cup {0}]
      BY <1>2, <1>6, ListsDefaults
    <2>2. v6' \in [Rows -> Nat]
      BY <1>0, <1>1
    <2>3. v7' \subseteq Rows
      BY <1>0, <1>1, <1>3, <1>4
    <2>4. v5' \in BOOLEAN /\ v8' \in BOOLEAN
      BY <1>1
    <2>5. QED
      BY <1>0, <1>1, <2>1, <2>2, <2>3, <2>4 DEF Lists!TypeOK
  <1>11. Lists!ShownUpToCursor'
    <2> SUFFICES ASSUME ~ v5', v4' # Lists!Start, NEW r \in v9
                 PROVE  /\ Lists!After(r)' => v6'[r] = 0
                        /\ ~ Lists!After(r)' /\ v3[r].state = "found" => v6'[r] = 1
      BY <1>1, <1>6, ListsDefaults DEF Lists!ShownUpToCursor, Lists!Start
    <2>1. Lists!HasMore /\ L \in Rows /\ L \in P /\ L \in S /\ v4'.at = v3[L].at /\ v4'.id = L
      BY <1>4, <1>6
    <2>2. r \in Rows /\ r \in Nat /\ L \in Nat /\ v3[r].at \in Nat /\ v3[L].at \in Nat
      BY <1>0, <1>2, <2>1
    <2>3. Lists!After(r)' <=> v3[r].at > v3[L].at \/ (v3[r].at = v3[L].at /\ r > L)
      BY <1>1, <2>1 DEF Lists!After
    <2>4. ASSUME Lists!After(r)'
          PROVE  v6'[r] = 0
      <3>1. r # L /\ ~ Lists!Comes(r, v3[L].at, L)
        BY <2>2, <2>3, <2>4 DEF Lists!Comes
      <3>2. r \notin P
        BY <1>4, <2>1, <3>1
      <3>3. CASE v4 = Lists!Start
        BY <1>0, <1>1, <1>9, <2>2, <3>2, <3>3 DEF Lists!IInv, Lists!ShownUpToCursor
      <3>4. CASE v4 # Lists!Start
        <4>1. Lists!After(L)
          BY <1>3, <2>1, <3>4
        <4>a. v4.at \in 0..MaxAt /\ v4.id \in Rows \cup {0}
          BY <1>0
        <4>b. 0 \in Nat
          OBVIOUS
        <4>2. v4.at \in Nat /\ v4.id \in Nat
          BY <1>2, <4>a, <4>b
        <4>3. Lists!After(r)
          BY <2>2, <2>3, <2>4, <4>1, <4>2 DEF Lists!After
        <4>4. QED
          BY <1>1, <1>9, <3>2, <3>4, <4>3 DEF Lists!IInv, Lists!ShownUpToCursor
      <3>5. QED
        BY <3>3, <3>4
    <2>5. ASSUME ~ Lists!After(r)', v3[r].state = "found"
          PROVE  v6'[r] = 1
      <3>1. r = L \/ Lists!Comes(r, v3[L].at, L)
        BY <2>2, <2>3, <2>5 DEF Lists!Comes
      <3>2. r \in S => r \in P
        BY <1>4, <2>1, <3>1
      <3>3. QED
        BY <1>8, <1>9, <2>5, <3>2
    <2>6. QED
      BY <2>4, <2>5
  <1>12. Lists!StayersShownOnce'
    <2>1. \A r \in v9' : v6'[r] <= 1
      BY <1>1, <1>7, <1>9
    <2>2. v8' => v1'.nulls
      BY <1>1, <1>6
    <2>3. ASSUME v5', ~ v8', NEW r \in v9', v3'[r].state = "found"
          PROVE  v6'[r] = 1
      <3>1. P = S
        BY <1>4, <1>6, <2>3
      <3>2. QED
        BY <1>1, <1>8, <1>9, <2>3, <3>1
    <2>4. QED
      BY <2>1, <2>2, <2>3 DEF Lists!StayersShownOnce
  <1>13. Lists!SearchKeptUnlessReplaced'
    <2>1. ASSUME NEW r \in P, v2, v3[r].state # "found"
          PROVE  v1.search = "or"
      <3>1. ~ (v4 = Lists!Start \/ v1.search = "and")
        BY <1>3, <1>4, <2>1 DEF Lists!Found
      <3>2. v1.search # "none" /\ v1.search \in {"none", "or", "and"}
        BY <1>0, <2>1, ListsDefaults DEF Lists!IInv, Lists!SearchesAndCuts
      <3>3. QED
        BY <3>1, <3>2
    <2>2. QED
      BY <1>1, <2>1 DEF Lists!IInv, Lists!SearchKeptUnlessReplaced
  <1>14. Lists!SearchesAndCuts'
    BY <1>1, <1>6 DEF Lists!IInv, Lists!SearchesAndCuts
  <1>15. QED
    BY <1>10, <1>11, <1>12, <1>13, <1>14 DEF Lists!IInv

\* A row that comes, goes or moves is not among those that stayed any more.
LEMMA ListsChange ==
  ASSUME Lists!IInv, NEW r \in Rows, NEW next \in Lists!Row, ~ v5, v4 # Lists!Start,
         v3' = [v3 EXCEPT ![r] = next], v9' = v9 \ {r},
         UNCHANGED <<v1, v2, v4, v5, v6, v7, v8>>
  PROVE  Lists!IInv'
  <1>1. v3 \in [Rows -> Lists!Row] /\ v9 \subseteq Rows
    BY DEF Lists!IInv, Lists!TypeOK
  <1>2. /\ v1' = v1 /\ v2' = v2 /\ v4' = v4 /\ v5' = v5 /\ v6' = v6 /\ v7' = v7 /\ v8' = v8
        /\ v9' \subseteq v9 /\ \A q \in v9' : v3'[q] = v3[q]
    BY <1>1
  <1>3. Lists!TypeOK'
    BY <1>1, <1>2 DEF Lists!IInv, Lists!TypeOK
  <1>4. \A q \in v9' : Lists!After(q)' <=> Lists!After(q)
    BY <1>2 DEF Lists!After
  <1>5. Lists!ShownUpToCursor'
    <2>1. v4' # Lists!Start
      BY <1>2
    <2>2. QED
      BY <1>2, <1>4, <2>1 DEF Lists!IInv, Lists!ShownUpToCursor
  <1>6. Lists!StayersShownOnce'
    BY <1>2 DEF Lists!IInv, Lists!StayersShownOnce
  <1>7. Lists!SearchKeptUnlessReplaced' /\ Lists!SearchesAndCuts'
    BY <1>2 DEF Lists!IInv, Lists!SearchKeptUnlessReplaced, Lists!SearchesAndCuts
  <1>8. QED
    BY <1>3, <1>5, <1>6, <1>7 DEF Lists!IInv

\* Every page and every change of a row keeps the inductive invariant.
LEMMA ListsStep == Lists!IInv /\ Lists!Next => Lists!IInv'
  <1> SUFFICES ASSUME Lists!IInv, Lists!Next PROVE Lists!IInv'
    OBVIOUS
  <1>0. v3 \in [Rows -> Lists!Row] /\ MaxAt \in Nat
    BY LimitAssumption DEF Lists!IInv, Lists!TypeOK
  <1>1. CASE Lists!Fetch
    BY <1>1, ListsFetch
  <1>2. ASSUME NEW r \in Rows, Lists!Leave(r)
        PROVE  Lists!IInv'
    <2>1. [v3[r] EXCEPT !.state = "out"] \in Lists!Row
      BY <1>0 DEF Lists!Row
    <2>2. QED
      BY <1>2, <2>1, ListsChange DEF Lists!Leave, Lists!Change
  <1>3. ASSUME NEW r \in Rows, NEW at \in Lists!Keys(v1), Lists!Move(r, at)
        PROVE  Lists!IInv'
    <2>1. at \in 0..MaxAt
      BY ListsDefaults
    <2>2. [v3[r] EXCEPT !.at = at] \in Lists!Row
      BY <1>0, <2>1 DEF Lists!Row
    <2>3. QED
      BY <1>3, <2>2, ListsChange DEF Lists!Move, Lists!Change
  <1>4. ASSUME NEW r \in Rows, NEW at \in Lists!Keys(v1), NEW state \in Lists!States(v2), Lists!Enter(r, at, state)
        PROVE  Lists!IInv'
    <2>1. at \in 0..MaxAt /\ state \in {"out", "filtered", "found"}
      BY ListsDefaults
    <2>2. [at |-> at, state |-> state] \in Lists!Row
      BY <2>1 DEF Lists!Row
    <2>3. QED
      BY <1>4, <2>2, ListsChange DEF Lists!Enter, Lists!Change
  <1>5. QED
    BY <1>1, <1>2, <1>3, <1>4 DEF Lists!Next

-----------------------------------------------------------------------------
(* The parts together                                                      *)

\* Each part begins where its inductive invariant holds.
LEMMA PartsInitial == PartsInit => PartsIInv
  BY AccountsInit, CodesInit, MediaInit, LegalInit, DevicesInit, ListsInit, CatalogueInit
  DEF PartsInit, PartsIInv

\* A part whose variables do not change keeps its inductive invariant.
LEMMA PartsStutter ==
  ASSUME PartsIInv, UNCHANGED <<part, parts>>
  PROVE  PartsIInv'
  <1>1. UNCHANGED <<v1, v2, v3, v4, v5, v6, v7, v8, v9>>
    BY DEF parts
  <1>2. Accounts!IInv => Accounts!IInv'
    <2>1. Accounts!TypeOK => Accounts!TypeOK'
      BY <1>1 DEF Accounts!TypeOK
    <2>2. Accounts!SessionsEarned => Accounts!SessionsEarned'
      BY <1>1 DEF Accounts!SessionsEarned, Accounts!SessionsNeedVerifiedEmail, Accounts!Live
    <2>3. Accounts!DatesHold => Accounts!DatesHold'
      BY <1>1 DEF Accounts!DatesHold, Accounts!OnlyEndedExpire, Accounts!Imposed
    <2>4. Accounts!OpsKnow => Accounts!OpsKnow'
      BY <1>1 DEF Accounts!OpsKnow
    <2>5. /\ \A p : Accounts!Announced(p)' <=> Accounts!Announced(p)
          /\ \A p : Accounts!Causes(p)' <=> Accounts!Causes(p)
          /\ \A o : Accounts!Works(o)' <=> Accounts!Works(o)
          /\ Accounts!SuspensionHasCause' <=> Accounts!SuspensionHasCause
      BY <1>1 DEF Accounts!Announced, Accounts!Bars, Accounts!Causes, Accounts!Works,
                  Accounts!SuspensionHasCause
    <2>6. Accounts!StatusSettles => Accounts!StatusSettles'
      BY <1>1, <2>5 DEF Accounts!StatusSettles
    <2>7. QED
      BY <2>1, <2>2, <2>3, <2>4, <2>6 DEF Accounts!IInv
  <1>3. Codes!IInv => Codes!IInv'
    <2>1. Codes!TypeOK => Codes!TypeOK'
      BY <1>1 DEF Codes!TypeOK
    <2>2. Codes!RequestsKnow => Codes!RequestsKnow'
      BY <1>1 DEF Codes!RequestsKnow
    <2>3. /\ \A c : Codes!Guessable(c)' <=> Codes!Guessable(c)
          /\ \A c : Codes!Unanswered(c)' = Codes!Unanswered(c)
          /\ Codes!Unconsumed' = Codes!Unconsumed
      BY <1>1 DEF Codes!Guessable, Codes!Unanswered, Codes!Unconsumed
    <2>4. \A S : Codes!Cardinality(S)' = Codes!Cardinality(S)
      OBVIOUS
    <2>5. Codes!GuessesCount => Codes!GuessesCount'
      BY <1>1, <2>3, <2>4 DEF Codes!GuessesCount
    <2>6. Codes!OneIssue => Codes!OneIssue'
      BY <1>1, <2>3 DEF Codes!OneIssue
    <2>7. QED
      BY <1>1, <2>1, <2>2, <2>5, <2>6 DEF Codes!IInv
  <1>4. Media!IInv => Media!IInv'
    <2> SUFFICES ASSUME Media!IInv PROVE Media!IInv'
      OBVIOUS
    <2>1. v3' \in [Requests -> Media!Op] /\ \A o \in Requests : v3'[o] = v3[o]
      BY <1>1 DEF Media!IInv, Media!TypeOK
    <2>2. QED
      BY <1>1, <2>1, MediaAsks
  <1>5. Legal!IInv => Legal!IInv'
    BY <1>1
    DEF Legal!IInv, Legal!TypeOK, Legal!OneKey, Legal!Actives, Legal!ActivationsExclude,
        Legal!ConsentsStandNow, Legal!Stands
  <1>6. Devices!IInv => Devices!IInv'
    BY <1>1
    DEF Devices!IInv, Devices!TypeOK, Devices!ClaimsHold, Devices!DeliveriesAgree, Devices!Delivering,
        Devices!PushesFollowTheToken, Devices!AnsweredStays
  <1>7. Lists!IInv => Lists!IInv'
    BY <1>1
    DEF Lists!IInv, Lists!TypeOK, Lists!ShownUpToCursor, Lists!SearchesAndCuts, Lists!StayersShownOnce,
        Lists!SearchKeptUnlessReplaced, Lists!After
  <1>8. Catalogue!IInv => Catalogue!IInv'
    BY <1>1
    DEF Catalogue!IInv, Catalogue!TypeOK, Catalogue!ServicesExist, Catalogue!ServicesBelong,
        Catalogue!publicProfile, Catalogue!ArchivedFieldsAreEmpty
  <1>9. QED
    BY <1>1, <1>2, <1>3, <1>4, <1>5, <1>6, <1>7, <1>8 DEF PartsIInv

\* Every step of a part keeps its inductive invariant.
LEMMA PartsInductive == PartsIInv /\ [PartsNext]_<<part, vars, parts>> => PartsIInv'
  <1> SUFFICES ASSUME PartsIInv, [PartsNext]_<<part, vars, parts>> PROVE PartsIInv'
    OBVIOUS
  <1>1. CASE part = "idempotency" /\ Next /\ UNCHANGED <<part, parts>>
    BY <1>1, PartsStutter
  <1>2. CASE part = "accounts" /\ Accounts!Next /\ UNCHANGED <<part, vars, v9>>
    BY <1>2, AccountsStep DEF PartsIInv
  <1>3. CASE part = "codes" /\ Codes!Next /\ UNCHANGED <<part, vars, v8, v9>>
    BY <1>3, CodesStep DEF PartsIInv
  <1>4. CASE part = "media" /\ Media!Next /\ UNCHANGED <<part, vars, v7, v8, v9>>
    BY <1>4, MediaStep DEF PartsIInv
  <1>5. CASE part = "legal" /\ Legal!Next /\ UNCHANGED <<part, vars, v6, v7, v8, v9>>
    BY <1>5, LegalStep DEF PartsIInv
  <1>6. CASE part = "devices" /\ Devices!Next /\ UNCHANGED <<part, vars, v7, v8, v9>>
    BY <1>6, DevicesStep DEF PartsIInv
  <1>7. CASE part = "lists" /\ Lists!Next /\ UNCHANGED <<part, vars>>
    BY <1>7, ListsStep DEF PartsIInv
  <1>8. CASE part = "catalogue" /\ Catalogue!Next /\ UNCHANGED <<part, vars, v8, v9>>
    BY <1>8, CatalogueStep DEF PartsIInv
  <1>9. CASE UNCHANGED <<part, vars, parts>>
    BY <1>9, PartsStutter
  <1>10. QED
    BY <1>1, <1>2, <1>3, <1>4, <1>5, <1>6, <1>7, <1>8, <1>9 DEF PartsNext

\* The inductive invariant holds in every behaviour of every part.
THEOREM PartsInvariant == PartsSpec => []PartsIInv
  BY PartsInitial, PartsInductive, PTL DEF PartsSpec

\* The variables of the part a behaviour is about hold what they may hold.
THEOREM PartsTypeCorrect == PartsSpec => []PartsTypeOK
  <1>1. PartsIInv => PartsTypeOK
    BY DEF PartsIInv, PartsTypeOK, Accounts!IInv, Codes!IInv, Media!IInv, Legal!IInv, Devices!IInv,
           Lists!IInv, Catalogue!IInv
  <1>2. QED
    BY <1>1, PartsInvariant, PTL

\* Whatever sign-ins, moderation and the expiration of penalties do at once
\* (auth.service.ts, trust.service.ts), a session that a penalty has ended is
\* never let in again, and nobody has one before the email is verified.
THEOREM SessionsStayEntitled == PartsSpec => []SessionsAreEntitled
  <1>1. PartsIInv => SessionsAreEntitled
    BY AccountsSafe DEF PartsIInv, SessionsAreEntitled
  <1>2. QED
    BY <1>1, PartsInvariant, PTL

\* Only penalties that have ended expire (outbox.processor.ts), and where
\* nothing overlapped the status of the account follows those in force.
THEOREM PenaltiesKeepRuling == PartsSpec => []PenaltiesRule
  <1>1. PartsIInv => PenaltiesRule
    BY AccountsSafe DEF PartsIInv, PenaltiesRule
  <1>2. QED
    BY <1>1, PartsInvariant, PTL

\* A one-time code (auth.service.ts) is taken once, in time and before too
\* many guesses, and a new one ends the one before, unless two were issued at
\* once.
THEOREM CodesStayLimited == PartsSpec => []CodesAreLimited
  <1>1. PartsIInv => CodesAreLimited
    BY CodesSafe DEF PartsIInv, CodesAreLimited
  <1>2. QED
    BY <1>1, PartsInvariant, PTL

\* However uploads, attaching, deleting and the cleanup race, an object goes
\* before the row that names it and never before the retention is over, and
\* what is in use keeps both unless the cleanup had found it before
\* (profiles.service.ts, outbox.processor.ts).
THEOREM MediaStaysKept == PartsSpec => []MediaIsKept
  <1>1. PartsIInv => MediaIsKept
    BY DEF PartsIInv, MediaIsKept, Media!IInv
  <1>2. QED
    BY <1>1, PartsInvariant, PTL

\* One version of a legal document is in force, and what users consented to
\* (profiles.service.ts) is what it says, unless an edit was overtaken.
THEOREM ConsentsKeepStanding == PartsSpec => []ConsentsStand
  <1>1. PartsIInv => ConsentsStand
    BY LegalSafe DEF PartsIInv, ConsentsStand
  <1>2. QED
    BY <1>1, PartsInvariant, PTL

\* Once another user has asked for the token of a phone, nothing is pushed to it
\* for the former one but by deliveries under way, and a registration that was
\* answered stays in force until one of the events AnsweredStays names
\* (devices.service.ts, outbox.processor.ts).
THEOREM PushesStayOnCourse == PartsSpec => []PushesReachTheirUser
  <1>1. PartsIInv => PushesReachTheirUser
    BY DEF PartsIInv, PushesReachTheirUser, Devices!IInv
  <1>2. QED
    BY <1>1, PartsInvariant, PTL

\* A list read to its end has shown every row that stayed exactly once
\* (pagination.ts), for every number of rows and every page size, and only
\* lists whose cursor replaces their search (admin.service.ts) show what it
\* does not find.
THEOREM PagesAlwaysAddUp == PartsSpec => []PagesAddUp
  <1>1. PartsIInv => PagesAddUp
    BY DEF PartsIInv, PagesAddUp, Lists!IInv
  <1>2. QED
    BY <1>1, PartsInvariant, PTL

\* What roles select and admins archive fits the fields of the services
\* (profiles.service.ts, admin.service.ts).
THEOREM SelectionsStayInCatalogue == PartsSpec => []SelectionsFitCatalogue
  <1>1. PartsIInv => SelectionsFitCatalogue
    BY DEF PartsIInv, SelectionsFitCatalogue, Catalogue!IInv
  <1>2. QED
    BY <1>1, PartsInvariant, PTL
=============================================================================
