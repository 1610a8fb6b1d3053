------------------------------ MODULE Devices -------------------------------
(***************************************************************************)
(* Push registrations (devices.service.ts) and the pushes sent to them     *)
(* (outbox.processor.ts), of one provider.  Nothing is locked: a token is  *)
(* taken from its users and then given to one, and a push is sent to       *)
(* tokens read before, whose rows it switches off by id.                   *)
(***************************************************************************)
EXTENDS Naturals, FiniteSets

CONSTANTS
  Users,
  DeviceIds,  \* bound: device_id values of a user
  Tokens,     \* bound
  Requests,   \* bound: requests and deliveries in flight at once
  NoToken     \* no row

VARIABLES
  device,     \* device_registrations
  dead,       \* tokens the provider answers as invalid
  job,        \* requests and deliveries in flight
  asked,      \* history: who asked for a token last, or at the same time
  overtaken,  \* history: deliveries, and tokens asked for since they began
  answered    \* history: registrations that were answered and not ended since

vars == <<device, dead, job, asked, overtaken, answered>>
history == <<asked, overtaken, answered>>

-----------------------------------------------------------------------------
\* Rows are unique by user and device id, and by token.
Registrations == Users \X DeviceIds
Row == [token: Tokens \cup {NoToken}, isActive: BOOLEAN]
Missing == [token |-> NoToken, isActive |-> FALSE]

Job == [pc: {"idle", "upsert", "send", "invalid"}, token: Tokens \cup {NoToken},
        to: SUBSET (Registrations \X Tokens)]
Idle == [pc |-> "idle", token |-> NoToken, to |-> {}]

TypeOK ==
  /\ device \in [Registrations -> Row]
  /\ dead \subseteq Tokens
  /\ job \in [Requests -> Job]
  /\ asked \in [Tokens -> SUBSET Users]
  /\ overtaken \subseteq Requests \X Tokens
  /\ answered \subseteq Registrations \X Tokens

Init ==
  /\ device = [d \in Registrations |-> Missing]
  /\ dead = {}
  /\ job = [r \in Requests |-> Idle]
  /\ asked = [t \in Tokens |-> {}]
  /\ overtaken = {} /\ answered = {}

Begin(r, pc, token, to) ==
  job[r].pc = "idle" /\ job' = [job EXCEPT ![r] = [pc |-> pc, token |-> token, to |-> to]]
Finish(r) == job' = [job EXCEPT ![r] = Idle]
SwitchOff(ds) == [d \in Registrations |->
  IF d \in ds THEN [device[d] EXCEPT !.isActive = FALSE] ELSE device[d]]

-----------------------------------------------------------------------------
(* Histories                                                               *)

Delivering == {q \in Requests : job[q].pc \in {"send", "invalid"}}
Asking(t) == {u \in Users : \E r \in Requests, k \in DeviceIds :
  job[r].pc = "upsert" /\ <<<<u, k>>, t>> \in job[r].to}

\* User u asks for a token: everyone's claim on it is over whose request is.
Ask(u, t) ==
  /\ asked' = [asked EXCEPT ![t] = {u} \cup Asking(t)]
  /\ overtaken' = overtaken \cup (Delivering \X {t})
  /\ answered' = {a \in answered : a[2] = t => a[1][1] = u}

\* A delivery has read a former token of the row, which it may yet find invalid.
Doubtful(d, t) == \E q \in Delivering : \E p \in job[q].to : p[1] = d /\ p[2] # t

Answer(d, t) ==
  answered' = {a \in answered : a[1] # d} \cup {a \in {<<d, t>>} : ~ Doubtful(d, t)}

-----------------------------------------------------------------------------
\* Mutants of OfOthers: all rows of the token are switched off, or none.
OfAll(u, t) == {d \in Registrations : device[d].token = t}
OfNobody(u, t) == {}

OfOthers(u, t) == {d \in Registrations : device[d].token = t /\ d[1] # u}

register(r, d, t) ==
  /\ Begin(r, "upsert", t, {<<d, t>>})
  /\ device' = SwitchOff(OfOthers(d[1], t))
  /\ Ask(d[1], t)
  /\ UNCHANGED dead

\* The row of a token keeps it: the upsert of any other row is refused.
Upsert(r) ==
  /\ job[r].pc = "upsert"
  /\ \E p \in job[r].to :
       /\ \A e \in Registrations \ {p[1]} : device[e].token # p[2]
       /\ device' = [device EXCEPT ![p[1]] = [token |-> p[2], isActive |-> TRUE]]
       /\ Answer(p[1], p[2])
  /\ Finish(r)
  /\ UNCHANGED <<dead, asked, overtaken>>

remove(d) ==
  /\ device' = SwitchOff({d})
  /\ answered' = {a \in answered : a[1] # d}
  /\ UNCHANGED <<dead, job, asked, overtaken>>

-----------------------------------------------------------------------------
(* deliverPush                                                             *)

\* Mutant of ActiveOf: rows that were switched off too.
AllOf(u) == {d \in Registrations : d[1] = u /\ device[d].token \in Tokens}

ActiveOf(u) == {d \in Registrations : d[1] = u /\ device[d].isActive}

deliverPush(r, u) ==
  /\ ActiveOf(u) # {}
  /\ Begin(r, "send", NoToken, {<<d, device[d].token>> : d \in ActiveOf(u)})
  /\ overtaken' = overtaken \ ({r} \X Tokens)
  /\ UNCHANGED <<device, dead, asked, answered>>

\* A token answered as invalid ends the delivery to its device.
Send(r) ==
  /\ job[r].pc = "send"
  /\ \E p \in job[r].to :
       job' = IF p[2] \in dead THEN [job EXCEPT ![r].pc = "invalid", ![r].token = p[2]]
              ELSE [job EXCEPT ![r].to = @ \ {p}]
  /\ UNCHANGED <<device, dead, history>>

\* By the id of the row, whatever token it has by now.
SwitchOffInvalid(r) ==
  /\ job[r].pc = "invalid"
  /\ \E p \in job[r].to :
       /\ p[2] = job[r].token
       /\ device' = SwitchOff({p[1]})
       /\ job' = [job EXCEPT ![r] = [pc |-> "send", token |-> NoToken, to |-> job[r].to \ {p}]]
       /\ answered' = answered \ {p}
  /\ UNCHANGED <<dead, asked, overtaken>>

-----------------------------------------------------------------------------
\* The app is removed from the phone: the provider knows the token no more.
Uninstall(t) ==
  /\ t \notin dead
  /\ dead' = dead \cup {t}
  /\ UNCHANGED <<device, job, history>>

\* Refused, answered or died.
End(r) ==
  /\ job[r].pc # "idle"
  /\ Finish(r)
  /\ UNCHANGED <<device, dead, history>>

Next ==
  \/ \E r \in Requests :
       \/ \E d \in Registrations, t \in Tokens : register(r, d, t)
       \/ \E u \in Users : deliverPush(r, u)
       \/ Upsert(r) \/ Send(r) \/ SwitchOffInvalid(r) \/ End(r)
  \/ \E d \in Registrations : remove(d)
  \/ \E t \in Tokens : Uninstall(t)

Spec == Init /\ [][Next]_vars

-----------------------------------------------------------------------------
(* Properties                                                              *)

\* Nothing is pushed to a phone for a user whose registration of it was over
\* when another user asked for its token (register switches it off), other than
\* by a delivery that had begun before.
PushesFollowTheToken ==
  \A q \in Delivering : \A p \in job[q].to : p[1][1] \in asked[p[2]] \/ <<q, p[2]>> \in overtaken

\* A registration that was answered gets the pushes of its user, also while the
\* user registers again and fails midway, while others try for other tokens and
\* while deliveries find other tokens invalid.  It ends when its user removes it
\* or has another token registered for the device, when another user asks for
\* the token, and when the token is answered as invalid; nothing is promised to
\* one that was answered while a delivery had read a former token of its row.
AnsweredStays ==
  \A a \in answered : device[a[1]] = [token |-> a[2], isActive |-> TRUE]

-----------------------------------------------------------------------------
(* Inductive invariant                                                   *)

\* Who asks for a token, and whose row of it is active, has a claim on it.
ClaimsHold ==
  /\ \A r \in Requests : job[r].pc = "upsert" =>
       \A p \in job[r].to : p[1][1] \in asked[p[2]]
  /\ \A d \in Registrations : device[d].isActive =>
       device[d].token \in Tokens /\ d[1] \in asked[device[d].token]

\* Deliveries have read no other token of a row whose registration stands.
DeliveriesAgree ==
  \A a \in answered, q \in Delivering : \A p \in job[q].to : p[1] = a[1] => p = a

IInv == TypeOK /\ ClaimsHold /\ DeliveriesAgree /\ PushesFollowTheToken /\ AnsweredStays
=============================================================================
