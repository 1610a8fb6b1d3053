------------------------------ MODULE Catalogue ------------------------------
(***************************************************************************)
(* Activity fields, services and what one role of a user selects of them   *)
(* (admin.service.ts, profiles.service.ts).  Handlers check first and      *)
(* write later, in a transaction that holds no lock on what was checked.   *)
(*                                                                         *)
(* The fields a role may ask for are the active ones that are mapped to    *)
(* it: any are.  Of what refers to a service, and keeps it in its field,   *)
(* the selection of the role is modelled.                                  *)
(***************************************************************************)
EXTENDS Naturals, FiniteSets

CONSTANTS
  Fields,     \* bound
  Services,   \* bound
  Requests    \* bound: requests in flight at once

VARIABLES
  field,      \* status of each activity field
  service,
  fields,     \* user_role_fields of the role
  selected,   \* user_role_services of the role
  request,
  stale,      \* history: a write whose check no longer held, or that missed another
  revived     \* history: a service was brought back into an archived field

vars == <<field, service, fields, selected, request, stale, revived>>

-----------------------------------------------------------------------------
Statuses == {"ACTIVE", "INACTIVE", "ARCHIVED"}
Service == [status: Statuses \cup {"none"}, field: Fields]

\* fields, services, status: the input.  seenFields, seenServices: the rows that
\* deletes have seen.
Pcs == {"idle", "create", "archive", "target", "update", "fields", "fieldsIn", "fieldsOut",
        "pick", "services", "servicesIn"}
Request == [pc: Pcs, fields: SUBSET Fields, services: SUBSET Services,
            status: Statuses \cup {"same"},
            seenFields: SUBSET Fields, seenServices: SUBSET Services]
Asked(pc, fs, ss, status) == [pc |-> pc, fields |-> fs, services |-> ss, status |-> status,
                              seenFields |-> {}, seenServices |-> {}]
Idle == Asked("idle", {}, {}, "same")

TypeOK ==
  /\ field \in [Fields -> Statuses]
  /\ service \in [Services -> Service]
  /\ fields \subseteq Fields
  /\ selected \subseteq Services
  /\ request \in [Requests -> Request]
  /\ stale \in BOOLEAN /\ revived \in BOOLEAN

Init ==
  /\ field = [f \in Fields |-> "ACTIVE"]
  /\ \E f \in Fields : service = [s \in Services |-> [status |-> "none", field |-> f]]
  /\ fields = {} /\ selected = {}
  /\ request = [r \in Requests |-> Idle]
  /\ stale = FALSE /\ revived = FALSE

Begin(r, pc, fs, ss, status) ==
  /\ request[r].pc = "idle"
  /\ request' = [request EXCEPT ![r] = Asked(pc, fs, ss, status)]
GoTo(r, from, pc) == request[r].pc = from /\ request' = [request EXCEPT ![r].pc = pc]
Finish(r, from) == request[r].pc = from /\ request' = [request EXCEPT ![r] = Idle]

\* The request ends, and the rows it inserted are new to what others deleted.
Replace(r, from, fs, ss) ==
  /\ request[r].pc = from
  /\ request' = [q \in Requests |-> IF q = r THEN Idle ELSE
       [request[q] EXCEPT !.seenFields = @ \ fs, !.seenServices = @ \ ss]]

rows == <<field, service, fields, selected>>

Active(fs) == \A f \in fs : field[f] = "ACTIVE"
FieldsOf(ss) == {service[s].field : s \in ss}

\* Mutant of Open: only active services keep a field open.
OpenActive(f) == \E s \in Services : service[s].field = f /\ service[s].status = "ACTIVE"

\* The field has services that are not archived.
Open(f) == \E s \in Services : service[s].field = f /\ service[s].status \in {"ACTIVE", "INACTIVE"}

-----------------------------------------------------------------------------
(* Administration                                                          *)

createService(r, s, f) ==
  /\ service[s].status = "none"
  /\ Active({f})
  /\ Begin(r, "create", {f}, {s}, "ACTIVE")
  /\ UNCHANGED <<rows, stale, revived>>

CreateCommit(r) ==
  /\ Finish(r, "create")
  /\ \E s \in request[r].services, f \in request[r].fields :
       /\ service[s].status = "none"
       /\ service' = [service EXCEPT ![s] = [status |-> "ACTIVE", field |-> f]]
  /\ stale' = (stale \/ ~ Active(request[r].fields))
  /\ UNCHANGED <<field, fields, selected, revived>>

\* Any status but the last is set without a look at the services.
updateActivityField(r, f, status) ==
  IF status = "ARCHIVED"
  THEN /\ ~ Open(f)
       /\ Begin(r, "archive", {f}, {}, status)
       /\ UNCHANGED <<rows, stale, revived>>
  ELSE /\ field' = [field EXCEPT ![f] = status]
       /\ UNCHANGED <<service, fields, selected, request, stale, revived>>

ArchiveCommit(r) ==
  /\ Finish(r, "archive")
  /\ \E f \in request[r].fields :
       /\ field' = [field EXCEPT ![f] = "ARCHIVED"]
       /\ stale' = (stale \/ Open(f))
  /\ UNCHANGED <<service, fields, selected, revived>>

\* to: no field, the service's own or the one it shall move to, which is
\* looked up after the references were counted.
updateService(r, s, to, status) ==
  /\ service[s].status # "none"
  /\ IF to \subseteq {service[s].field} THEN Begin(r, "update", to, {s}, status)
     ELSE s \notin selected /\ Begin(r, "target", to, {s}, status)
  /\ UNCHANGED <<rows, stale, revived>>

ServiceTarget(r) ==
  /\ Active(request[r].fields)
  /\ GoTo(r, "target", "update")
  /\ UNCHANGED <<rows, stale, revived>>

ServiceCommit(r) ==
  /\ Finish(r, "update")
  /\ \E s \in request[r].services :
       LET was == service[s]
           in == IF request[r].fields = {} THEN was.field ELSE CHOOSE f \in request[r].fields : TRUE
           status == IF request[r].status = "same" THEN was.status ELSE request[r].status
       IN /\ service' = [service EXCEPT ![s] = [status |-> status, field |-> in]]
          /\ stale' = (stale \/ (in # was.field /\ (s \in selected \/ field[in] # "ACTIVE")))
          /\ revived' = (revived \/ (field[in] = "ARCHIVED" /\ was.status = "ARCHIVED" /\ status # "ARCHIVED"))
  /\ UNCHANGED <<field, fields, selected>>

-----------------------------------------------------------------------------
(* The role's own choice                                                   *)

replaceFields(r, fs) ==
  /\ Active(fs)
  /\ Begin(r, "fields", fs, {}, "same")
  /\ UNCHANGED <<rows, stale, revived>>

FieldsDelete(r) ==
  /\ request[r].pc = "fields"
  /\ request' = [request EXCEPT ![r].pc = "fieldsIn", ![r].seenFields = fields]
  /\ UNCHANGED <<rows, stale, revived>>

GivenUp(fs) == {s \in selected : service[s].field \notin fs}

\* The services of fields given up go in a statement of their own.
FieldsDrop(r) ==
  /\ request[r].pc = "fieldsIn"
  /\ request' = [request EXCEPT ![r].pc = "fieldsOut", ![r].seenServices = GivenUp(request[r].fields)]
  /\ UNCHANGED <<rows, stale, revived>>

\* Mutant of FieldsCommit: services of fields given up stay selected.
FieldsCommitAlone(r) ==
  /\ Replace(r, "fieldsOut", request[r].fields, {})
  /\ (fields \ request[r].seenFields) \cap request[r].fields = {}
  /\ fields' = (fields \ request[r].seenFields) \cup request[r].fields
  /\ UNCHANGED <<field, service, selected, stale, revived>>

\* Rows another request has committed since the delete stay, or are in the way.
FieldsCommit(r) ==
  /\ Replace(r, "fieldsOut", request[r].fields, {})
  /\ (fields \ request[r].seenFields) \cap request[r].fields = {}
  /\ fields' = (fields \ request[r].seenFields) \cup request[r].fields
  /\ selected' = selected \ request[r].seenServices
  /\ stale' = (stale \/ ~ GivenUp(request[r].fields) \subseteq request[r].seenServices)
  /\ UNCHANGED <<field, service, revived>>

\* The field of a service need not be active.
replaceServices(r, ss) ==
  /\ \A s \in ss : service[s].status = "ACTIVE"
  /\ Begin(r, "pick", FieldsOf(ss), ss, "same")
  /\ UNCHANGED <<rows, stale, revived>>

FieldsRead(r) ==
  /\ request[r].fields \subseteq fields
  /\ GoTo(r, "pick", "services")
  /\ UNCHANGED <<rows, stale, revived>>

ServicesDelete(r) ==
  /\ request[r].pc = "services"
  /\ request' = [request EXCEPT ![r].pc = "servicesIn", ![r].seenServices = selected]
  /\ UNCHANGED <<rows, stale, revived>>

ServicesCommit(r) ==
  /\ Replace(r, "servicesIn", {}, request[r].services)
  /\ (selected \ request[r].seenServices) \cap request[r].services = {}
  /\ selected' = (selected \ request[r].seenServices) \cup request[r].services
  /\ stale' = (stale \/ ~ FieldsOf(request[r].services) \subseteq fields)
  /\ UNCHANGED <<field, service, fields, revived>>

-----------------------------------------------------------------------------
\* Refused by a later check or by a key, or the process dies.
End(r) ==
  /\ request[r].pc # "idle"
  /\ Finish(r, request[r].pc)
  /\ UNCHANGED <<rows, stale, revived>>

\* Bounds: a field that is not ACTIVE is ARCHIVED, a service is moved or gets a
\* status, in requests of their own, and a behaviour is followed up to the first
\* write whose check no longer held or that missed another.
Next ==
  ~ stale /\ \E r \in Requests :
    \/ \E s \in Services :
         \/ \E f \in Fields : createService(r, s, f)
         \/ \E f \in Fields : updateService(r, s, {f}, "same")
         \/ \E status \in Statuses : updateService(r, s, {}, status)
    \/ \E f \in Fields, status \in {"ACTIVE", "ARCHIVED"} : updateActivityField(r, f, status)
    \/ \E fs \in SUBSET Fields : replaceFields(r, fs)
    \/ \E ss \in SUBSET Services : replaceServices(r, ss)
    \/ CreateCommit(r) \/ ArchiveCommit(r) \/ ServiceTarget(r) \/ ServiceCommit(r)
    \/ FieldsDelete(r) \/ FieldsDrop(r) \/ FieldsCommit(r)
    \/ FieldsRead(r) \/ ServicesDelete(r) \/ ServicesCommit(r)
    \/ End(r)

Spec == Init /\ [][Next]_vars

-----------------------------------------------------------------------------
(* Properties                                                              *)

\* What publicProfile shows of the role.
publicProfile == [activityFields |-> fields, services |-> selected]

\* "Service must belong to a selected activity field"
\* (profiles.service.ts:307): on a public profile it does, whatever fields the
\* role gives up and wherever services move, as long as no write was overtaken
\* by one that undid its check, and no selection came between the statements
\* that replace the fields.
ServicesBelong ==
  \/ stale
  \/ \A s \in publicProfile.services : service[s].field \in publicProfile.activityFields

\* "Archive child services before archiving the activity field"
\* (admin.service.ts:899): an archived field has no other services, unless a
\* write was overtaken or an archived service was brought back.
ArchivedFieldsAreEmpty ==
  \/ stale \/ revived
  \/ \A s \in Services : field[service[s].field] = "ARCHIVED" => service[s].status \in {"none", "ARCHIVED"}

-----------------------------------------------------------------------------
(* Inductive invariant                                                   *)

\* What is selected, or about to be, and what is updated has been created.
ServicesExist ==
  /\ \A s \in selected : service[s].status # "none"
  /\ \A r \in Requests : request[r].pc \in {"target", "update", "pick", "services", "servicesIn"} =>
       \A s \in request[r].services : service[s].status # "none"

IInv == TypeOK /\ ServicesExist /\ ServicesBelong /\ ArchivedFieldsAreEmpty
=============================================================================
