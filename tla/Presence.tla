------------------------------ MODULE Presence ------------------------------
(***************************************************************************)
(* Where a user is and where the user's roles are shown: the exact         *)
(* location, kept to the owner, and one public presence per role, derived  *)
(* from it (discovery.service.ts, location.repository.ts).  Replacing and  *)
(* deleting are transactions; enabling reads the location and writes the   *)
(* presence in statements of their own.                                    *)
(***************************************************************************)
EXTENDS Naturals

CONSTANTS
  Roles,         \* roles of the user
  MaxLocations,  \* bound: locations put
  Requests       \* bound: requests in flight at once

VARIABLES
  location,      \* the current one, 0 when there is none
  newest,        \* the number of the last location put
  presence,
  eligible,      \* what enabling asks of features, account, profile and role
  request,
  crossed,       \* history: roles shown by a request a deletion overtook
  trouble        \* history: requests overlapped, or putLocation failed midway

vars == <<location, newest, presence, eligible, request, crossed, trouble>>

-----------------------------------------------------------------------------
\* point: the location the public point is derived from.  due: visible_until
\* has passed.
Presence == [visible: BOOLEAN, due: BOOLEAN, point: 0..MaxLocations]
Hidden == [visible |-> FALSE, due |-> TRUE, point |-> 0]

\* todo: roles still to be enabled.  on: the location the request has read.
Request == [pc: {"idle", "put", "find", "ask", "read", "write"}, todo: SUBSET Roles,
            on: 0..MaxLocations, putting: BOOLEAN]
Idle == [pc |-> "idle", todo |-> {}, on |-> 0, putting |-> FALSE]

TypeOK ==
  /\ location \in 0..MaxLocations /\ newest \in 0..MaxLocations
  /\ presence \in [Roles -> Presence]
  /\ eligible \in BOOLEAN
  /\ request \in [Requests -> Request]
  /\ crossed \subseteq Roles
  /\ trouble \in BOOLEAN

Init ==
  /\ location = 0 /\ newest = 0
  /\ presence = [r \in Roles |-> Hidden]
  /\ eligible = TRUE
  /\ request = [q \in Requests |-> Idle]
  /\ crossed = {} /\ trouble = FALSE

-----------------------------------------------------------------------------
Shown(r) == presence[r].visible /\ ~ presence[r].due

\* What nearby asks of the presence; the account and the profile are not kept
\* apart here.
Listed(r) == Shown(r)

Quiet == \A q \in Requests : request[q].pc = "idle"
Begin(q, next) ==
  /\ request[q].pc = "idle"
  /\ request' = [request EXCEPT ![q] = next]
  /\ trouble' = (trouble \/ ~ Quiet)
Go(q, next) == request' = [request EXCEPT ![q] = next]
Fails(q) == Go(q, Idle) /\ trouble' = (trouble \/ request[q].putting)

-----------------------------------------------------------------------------
(* putLocation                                                             *)

\* The update of the rows that are current by its snapshot.
Put(q) ==
  /\ newest < MaxLocations
  /\ Begin(q, [Idle EXCEPT !.pc = "put", !.on = location, !.putting = TRUE])
  /\ UNCHANGED <<location, newest, presence, eligible, crossed>>

\* The insert fails on the one current row per user, if another came instead.
PutCommit(q) ==
  /\ request[q].pc = "put" /\ location \in {0, request[q].on} /\ newest < MaxLocations
  /\ newest' = newest + 1 /\ location' = newest'
  /\ Go(q, [request[q] EXCEPT !.pc = "find"])
  /\ UNCHANGED <<presence, eligible, crossed, trouble>>

\* Mutant of PutFind: presences keep the point they have.
PutFindNone(q) ==
  /\ request[q].pc = "find"
  /\ Go(q, Idle)
  /\ UNCHANGED <<location, newest, presence, eligible, crossed, trouble>>

\* The roles shown are enabled again, one after the other.
PutFind(q) ==
  /\ request[q].pc = "find"
  /\ LET roles == {r \in Roles : Shown(r)} IN
     Go(q, IF roles = {} THEN Idle ELSE [request[q] EXCEPT !.pc = "ask", !.todo = roles])
  /\ UNCHANGED <<location, newest, presence, eligible, crossed, trouble>>

-----------------------------------------------------------------------------
(* enable and presence                                                     *)

Enable(q, r) ==
  /\ Begin(q, [Idle EXCEPT !.pc = "ask", !.todo = {r}])
  /\ UNCHANGED <<location, newest, presence, eligible, crossed>>

\* The features, the role and its eligibility; a refusal ends the request,
\* with the roles it has not come to.
EnableAsk(q) ==
  /\ request[q].pc = "ask"
  /\ IF eligible THEN Go(q, [request[q] EXCEPT !.pc = "read"]) /\ UNCHANGED trouble ELSE Fails(q)
  /\ UNCHANGED <<location, newest, presence, eligible, crossed>>

EnableRead(q) ==
  /\ request[q].pc = "read"
  /\ IF location # 0 THEN Go(q, [request[q] EXCEPT !.pc = "write", !.on = location]) /\ UNCHANGED trouble
     ELSE Fails(q)
  /\ UNCHANGED <<location, newest, presence, eligible, crossed>>

\* upsertPresence, whatever the location is by now.
EnableWrite(q) ==
  /\ request[q].pc = "write"
  /\ \E r \in request[q].todo :
       /\ presence' = [presence EXCEPT ![r] = [visible |-> TRUE, due |-> FALSE, point |-> request[q].on]]
       /\ crossed' = IF location = 0 THEN crossed \cup {r} ELSE crossed \ {r}
       /\ Go(q, IF request[q].todo = {r} THEN Idle
                ELSE [request[q] EXCEPT !.pc = "ask", !.todo = @ \ {r}])
  /\ UNCHANGED <<location, newest, eligible, trouble>>

Disable(r) ==
  /\ presence' = [presence EXCEPT ![r].visible = FALSE, ![r].due = TRUE]
  /\ UNCHANGED <<location, newest, eligible, request, crossed, trouble>>

-----------------------------------------------------------------------------
(* deleteLocation, expirePresence and time                                 *)

\* Mutant of Delete: the presences are left to expire.
DeleteExactOnly ==
  /\ location' = 0
  /\ UNCHANGED <<newest, presence, eligible, request, crossed, trouble>>

Delete ==
  /\ location' = 0
  /\ presence' = [r \in Roles |-> [presence[r] EXCEPT !.visible = FALSE, !.due = TRUE]]
  /\ trouble' = (trouble \/ ~ Quiet)
  /\ UNCHANGED <<newest, eligible, request, crossed>>

ExpirePresence ==
  /\ \E r \in Roles : presence[r].visible /\ presence[r].due
  /\ presence' = [r \in Roles |-> [presence[r] EXCEPT !.visible = @ /\ ~ presence[r].due]]
  /\ UNCHANGED <<location, newest, eligible, request, crossed, trouble>>

Pass(r) ==
  /\ Shown(r)
  /\ presence' = [presence EXCEPT ![r].due = TRUE]
  /\ UNCHANGED <<location, newest, eligible, request, crossed, trouble>>

\* A penalty, the settings, the services or the portfolio change.
SetEligible ==
  /\ eligible' = ~ eligible
  /\ UNCHANGED <<location, newest, presence, request, crossed, trouble>>

Abort(q) ==
  /\ request[q].pc # "idle"
  /\ Fails(q)
  /\ UNCHANGED <<location, newest, presence, eligible, crossed>>

Next ==
  \/ \E q \in Requests :
       \/ Put(q) \/ PutCommit(q) \/ PutFind(q)
       \/ \E r \in Roles : Enable(q, r)
       \/ EnableAsk(q) \/ EnableRead(q) \/ EnableWrite(q) \/ Abort(q)
  \/ \E r \in Roles : Disable(r) \/ Pass(r)
  \/ Delete \/ ExpirePresence \/ SetEligible

Spec == Init /\ [][Next]_vars

-----------------------------------------------------------------------------
(* Properties                                                              *)

\* "Deleting an exact location must also hide every role presence"
\* (docs/operations-runbook.md:28): no role is listed without one, unless the
\* deletion overtook a request that had read the location.
ListedHasLocation == \A r \in Roles : Listed(r) => location # 0 \/ r \in crossed

\* As long as requests come one at a time and complete, every role listed is
\* shown where the user is: a new location reaches all of them.
ListedWhereUserIs ==
  Quiet /\ ~ trouble => \A r \in Roles : Listed(r) => presence[r].point = location

-----------------------------------------------------------------------------
(* Inductive invariant                                                   *)

\* putLocation is known by its flag, and without trouble there is one request,
\* which writes the location that is current.
OneAtATime ==
  /\ \A q \in Requests : request[q].pc \in {"put", "find"} => request[q].putting
  /\ ~ trouble =>
       /\ \A p, q \in Requests : request[p].pc # "idle" /\ request[q].pc # "idle" => p = q
       /\ \A q \in Requests : request[q].pc = "write" => request[q].on = location

\* A role listed elsewhere is one that putLocation has still to enable.
ElsewhereIsToDo ==
  ~ trouble => \A r \in Roles : Listed(r) =>
    \/ presence[r].point = location
    \/ \E q \in Requests :
         \/ request[q].pc = "find"
         \/ request[q].pc \in {"ask", "read", "write"} /\ request[q].putting /\ r \in request[q].todo

IInv == TypeOK /\ OneAtATime /\ ElsewhereIsToDo /\ ListedHasLocation
=============================================================================
