---------------------------- MODULE BookingSide -----------------------------
(***************************************************************************)
(* Bookings and, each in behaviours of its own, the conversations, events  *)
(* and presence of those who book: part says which of them a behaviour is  *)
(* about.                                                                  *)
(***************************************************************************)
EXTENDS Bookings

CONSTANTS
  Conversations, ClientIds, MaxMessages, Nothing,
  Users, Participants, Messages, Home, Sockets, Nobody,
  Roles, MaxLocations

ASSUME LimitAssumption == MaxMessages \in Nat /\ MaxLocations \in Nat
ASSUME ParticipantsAssumption == Participants \in [Conversations -> SUBSET Users]
ASSUME HomeAssumption == Home \in [Messages -> [conversation: Conversations, sender: Users]]

\* The parts are never in one behaviour: v1, ... are the variables of the one it
\* is about, or None where that has fewer.
VARIABLES part, v1, v2, v3, v4, v5, v6, v7, v8, v9

Messaging == INSTANCE Messaging WITH
  conversation <- v1, lastMessage <- v2, barred <- v3, message <- v4, request <- v5,
  answered <- v6, excused <- v7, late <- v8, overlapped <- v9
Realtime == INSTANCE Realtime WITH
  session <- v1, socket <- v2, sent <- v3, sharesReads <- v4, receipt <- v5,
  events <- v6, request <- v7, heard <- v8
Presence == INSTANCE Presence WITH
  location <- v1, newest <- v2, presence <- v3, eligible <- v4, request <- v5,
  crossed <- v6, trouble <- v7

parts == <<v1, v2, v3, v4, v5, v6, v7, v8, v9>>

PartsInit ==
  /\ Init
  /\ \/ part = "messaging" /\ Messaging!Init
     \/ part = "realtime" /\ Realtime!Init /\ v9 = None
     \/ part = "presence" /\ Presence!Init /\ v8 = None /\ v9 = None
     \/ /\ part = "bookings" /\ v1 = None /\ v2 = None /\ v3 = None /\ v4 = None /\ v5 = None
        /\ v6 = None /\ v7 = None /\ v8 = None /\ v9 = None

PartsNext ==
  \/ part = "bookings" /\ Next /\ UNCHANGED <<part, parts>>
  \/ part = "messaging" /\ Messaging!Next /\ UNCHANGED <<part, vars>>
  \/ part = "realtime" /\ Realtime!Next /\ UNCHANGED <<part, vars, v9>>
  \/ part = "presence" /\ Presence!Next /\ UNCHANGED <<part, vars, v8, v9>>

PartsSpec == PartsInit /\ [][PartsNext]_<<part, vars, parts>>

-----------------------------------------------------------------------------
(* Properties                                                              *)

\* The variables of the part a behaviour is about hold what they may hold.
PartsTypeOK ==
  CASE part = "messaging" -> Messaging!TypeOK
    [] part = "realtime" -> Realtime!TypeOK
    [] part = "presence" -> Presence!TypeOK
    [] OTHER -> part = "bookings"

\* Retries of a message, messages sent at once and the end of a conversation
\* (messaging.service.ts) leave one message per client id, none in what was
\* closed before, and the time of the last one.
MessagesAreInOrder ==
  part = "messaging" =>
    /\ Messaging!OneMessagePerClientId
    /\ Messaging!ClosedTakesNoMore
    /\ Messaging!LastMessageUnlessOverlap

\* Events of a conversation reach its participants only (messaging.gateway.ts)
\* and what they tell of receipts is never taken back (messaging.service.ts).
EventsAreTrue ==
  part = "realtime" => Realtime!HeardByParticipants /\ Realtime!ReceiptEventsHold

\* A role is listed nearby at the place where its user is, and not at all once
\* the place is deleted (discovery.service.ts).
ListedAtLocation ==
  part = "presence" => Presence!ListedHasLocation /\ Presence!ListedWhereUserIs

-----------------------------------------------------------------------------
(* Inductive invariant                                                     *)

\* The inductive invariant of the part a behaviour is about.
PartsIInv ==
  /\ part \in {"bookings", "messaging", "realtime", "presence"}
  /\ part = "messaging" => Messaging!IInv
  /\ part = "realtime" => Realtime!IInv
  /\ part = "presence" => Presence!IInv
=============================================================================
