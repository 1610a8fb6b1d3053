---------------------------- MODULE ServiceSide -----------------------------
(***************************************************************************)
(* Idempotency and, each in behaviours of its own, the services behind the *)
(* interceptor: part says which of them a behaviour is about.              *)
(***************************************************************************)
EXTENDS Idempotency

CONSTANTS
  Requests,
  Sessions, Penalties, Offers,
  Challenges, MaxAttempts,
  Files, NoFile, Uploads, Take,
  Documents, Users, Nobody, MaxEdits,
  DeviceIds, Tokens, NoToken,
  Rows, MaxAt, Limit,
  Fields, Services

ASSUME LimitAssumption ==
  /\ MaxAttempts \in Nat /\ MaxEdits \in Nat /\ MaxAt \in Nat
  /\ Take \in Nat \ {0} /\ Limit \in Nat \ {0}
ASSUME RowsAssumption == Rows \subseteq Nat \ {0} /\ IsFiniteSet(Rows)
ASSUME RequestsAssumption == IsFiniteSet(Requests)
ASSUME NobodyAssumption == Nobody \notin Requests /\ NoFile \notin Files

\* The parts are never in one behaviour: v1, ... are the variables of the one it
\* is about, or None where that has fewer.
VARIABLES part, v1, v2, v3, v4, v5, v6, v7, v8, v9

Accounts == INSTANCE Accounts WITH
  Ops <- Requests,
  account <- v1, verified <- v2, code <- v3, sessions <- v4, penalties <- v5, op <- v6,
  condemned <- v7, trouble <- v8
Codes == INSTANCE Codes WITH
  kind <- v1, challenge <- v2, request <- v3, wrong <- v4, entered <- v5, late <- v6,
  overlapped <- v7
Media == INSTANCE Media WITH
  Ops <- Requests,
  file <- v1, avatar <- v2, op <- v3, batch <- v4, removing <- v5, doomed <- v6
Legal == INSTANCE Legal WITH
  document <- v1, accepted <- v2, lock <- v3, legal <- v4, overtaken <- v5
Devices == INSTANCE Devices WITH
  device <- v1, dead <- v2, job <- v3, asked <- v4, overtaken <- v5, answered <- v6
Lists == INSTANCE Lists WITH
  list <- v1, search <- v2, row <- v3, cursor <- v4, ended <- v5, shown <- v6,
  stray <- v7, cut <- v8, stayed <- v9
Catalogue == INSTANCE Catalogue WITH
  field <- v1, service <- v2, fields <- v3, selected <- v4, request <- v5, stale <- v6,
  revived <- v7

ASSUME OffersAssumption == Offers \subseteq Accounts!Terms
ASSUME UploadsAssumption == Uploads \subseteq [Files -> [purpose: Media!Purposes, ready: BOOLEAN]]

parts == <<v1, v2, v3, v4, v5, v6, v7, v8, v9>>

PartsInit ==
  /\ Init
  /\ \/ part = "accounts" /\ Accounts!Init /\ v9 = None
     \/ part = "codes" /\ Codes!Init /\ v8 = None /\ v9 = None
     \/ part = "media" /\ Media!Init /\ v7 = None /\ v8 = None /\ v9 = None
     \/ part = "legal" /\ Legal!Init /\ v6 = None /\ v7 = None /\ v8 = None /\ v9 = None
     \/ part = "devices" /\ Devices!Init /\ v7 = None /\ v8 = None /\ v9 = None
     \/ part = "lists" /\ Lists!Init
     \/ part = "catalogue" /\ Catalogue!Init /\ v8 = None /\ v9 = None
     \/ /\ part = "idempotency" /\ v1 = None /\ v2 = None /\ v3 = None /\ v4 = None /\ v5 = None
        /\ v6 = None /\ v7 = None /\ v8 = None /\ v9 = None

PartsNext ==
  \/ part = "idempotency" /\ Next /\ UNCHANGED <<part, parts>>
  \/ part = "accounts" /\ Accounts!Next /\ UNCHANGED <<part, vars, v9>>
  \/ part = "codes" /\ Codes!Next /\ UNCHANGED <<part, vars, v8, v9>>
  \/ part = "media" /\ Media!Next /\ UNCHANGED <<part, vars, v7, v8, v9>>
  \/ part = "legal" /\ Legal!Next /\ UNCHANGED <<part, vars, v6, v7, v8, v9>>
  \/ part = "devices" /\ Devices!Next /\ UNCHANGED <<part, vars, v7, v8, v9>>
  \/ part = "lists" /\ Lists!Next /\ UNCHANGED <<part, vars>>
  \/ part = "catalogue" /\ Catalogue!Next /\ UNCHANGED <<part, vars, v8, v9>>

PartsSpec == PartsInit /\ [][PartsNext]_<<part, vars, parts>>

-----------------------------------------------------------------------------
(* Properties                                                              *)

\* The variables of the part a behaviour is about hold what they may hold.
PartsTypeOK ==
  CASE part = "accounts" -> Accounts!TypeOK
    [] part = "codes" -> Codes!TypeOK
    [] part = "media" -> Media!TypeOK
    [] part = "legal" -> Legal!TypeOK
    [] part = "devices" -> Devices!TypeOK
    [] part = "lists" -> Lists!TypeOK
    [] part = "catalogue" -> Catalogue!TypeOK
    [] OTHER -> part = "idempotency"

\* Whatever sign-ins, moderation and the expiration of penalties do at once
\* (auth.service.ts, trust.service.ts), a session that a penalty has ended is
\* never let in again, and nobody has one before the email is verified.
SessionsAreEntitled ==
  part = "accounts" => Accounts!CondemnedStayOut /\ Accounts!SessionsNeedVerifiedEmail

\* Only penalties that have ended expire (outbox.processor.ts), and where
\* nothing overlapped the status of the account follows those in force.
PenaltiesRule ==
  part = "accounts" => Accounts!OnlyEndedExpire /\ Accounts!StatusFollowsPenalties

\* A one-time code (auth.service.ts) is taken once and in time, and a new one
\* ends the one before, unless two were issued at once.
CodesAreLimited ==
  part = "codes" => Codes!TakenOnceInTime /\ Codes!OneChallengeUntilOverlap

\* However uploads, attaching, deleting and the cleanup race, objects go with
\* the rows that name them and what is in use keeps both (profiles.service.ts,
\* outbox.processor.ts).
MediaIsKept == part = "media" => Media!StoreFollowsRows /\ Media!InUseIsKept

\* One version of a legal document is in force, and what users consented to
\* (profiles.service.ts) is what it says, unless an edit was overtaken.
ConsentsStand == part = "legal" => Legal!OneActiveVersion /\ Legal!ConsentedTextStays

\* However registrations, handovers of a phone and deliveries race
\* (devices.service.ts, outbox.processor.ts), a former user's pushes stop at the
\* handover but for deliveries under way, and an answered registration stays.
PushesReachTheirUser ==
  part = "devices" => Devices!PushesFollowTheToken /\ Devices!AnsweredStays

\* A list read to its end has shown once whatever stayed (pagination.ts), and
\* only lists whose cursor replaces their search (admin.service.ts) show what
\* it does not find.
PagesAddUp == part = "lists" => Lists!StayersShownOnce /\ Lists!SearchKeptUnlessReplaced

\* What roles select and admins archive fits the fields of the services
\* (profiles.service.ts, admin.service.ts).
SelectionsFitCatalogue ==
  part = "catalogue" => Catalogue!ServicesBelong /\ Catalogue!ArchivedFieldsAreEmpty

-----------------------------------------------------------------------------
(* Inductive invariant                                                     *)

\* The inductive invariant of the part a behaviour is about.
PartsIInv ==
  /\ part \in {"idempotency", "accounts", "codes", "media", "legal", "devices", "lists", "catalogue"}
  /\ part = "accounts" => Accounts!IInv
  /\ part = "codes" => Codes!IInv
  /\ part = "media" => Media!IInv
  /\ part = "legal" => Legal!IInv
  /\ part = "devices" => Devices!IInv
  /\ part = "lists" => Lists!IInv
  /\ part = "catalogue" => Catalogue!IInv
=============================================================================
