------------------------------ MODULE Realtime ------------------------------
(***************************************************************************)
(* Receipts of messages (messaging.service.ts) and what connected clients  *)
(* hear (messaging.gateway.ts, event-subscriber.service.ts).  A socket is  *)
(* checked against its session when it connects and against a conversation *)
(* when it joins the room; neither is asked for again.                     *)
(***************************************************************************)
EXTENDS Naturals

CONSTANTS
  Users,
  Conversations,
  Participants,   \* the two users of each conversation, who never leave it
  Messages,
  Home,           \* bound: the conversation and sender each message will have
  Sockets,        \* bound: connections, each used again after it ends
  Requests,       \* bound: receipts in flight at once
  Nobody

VARIABLES
  session,        \* users whose session is live
  socket,
  sent,           \* messages committed
  sharesReads,    \* users with read_receipts_enabled
  receipt,        \* the columns set, of each message and user
  events,         \* the outbox, of messages and receipts
  request,
  heard           \* history: whom events of a conversation reached

vars == <<session, socket, sent, sharesReads, receipt, events, request, heard>>

-----------------------------------------------------------------------------
Kinds == {"created", "delivered", "read"}
Event == [kind: Kinds, of: Messages, by: Users]

\* welcome: the session was live when the socket was let in.
Socket == [user: Users \cup {Nobody}, state: {"off", "checking", "in"},
           rooms: SUBSET Conversations, welcome: BOOLEAN]
Off == [user |-> Nobody, state |-> "off", rooms |-> {}, welcome |-> FALSE]

Request == [pc: {"idle", "settings", "upsert", "event"}, event: Event \cup {Nobody}]
Idle == [pc |-> "idle", event |-> Nobody]

TypeOK ==
  /\ session \subseteq Users
  /\ socket \in [Sockets -> Socket]
  /\ sent \subseteq Messages
  /\ sharesReads \subseteq Users
  /\ receipt \in [Messages -> [Users -> SUBSET {"delivered_at", "read_at"}]]
  /\ events \subseteq Event
  /\ request \in [Requests -> Request]
  /\ heard \subseteq [in: Conversations, user: Users, welcome: BOOLEAN]

Init ==
  /\ session = Users
  /\ socket = [s \in Sockets |-> Off]
  /\ sent = {}
  /\ sharesReads = Users
  /\ receipt = [m \in Messages |-> [u \in Users |-> {}]]
  /\ events = {}
  /\ request = [r \in Requests |-> Idle]
  /\ heard = {}

-----------------------------------------------------------------------------
(* Receipts                                                                *)

Place(m) == Home[m].conversation
NotSockets == UNCHANGED <<session, socket, heard>>
Advance(r, ok, pc) == request' = [request EXCEPT ![r] = IF ok THEN [@ EXCEPT !.pc = pc] ELSE Idle]

\* A message, its empty receipt and its event are committed together.
Commit(m) ==
  /\ sent' = sent \cup {m}
  /\ events' = events \cup {[kind |-> "created", of |-> m, by |-> Home[m].sender]}
  /\ NotSockets /\ UNCHANGED <<sharesReads, receipt, request>>

\* By a participant, of a message of somebody else.
Receipt(r, m, u, kind) ==
  /\ m \in sent /\ u \in Participants[Place(m)] /\ u # Home[m].sender
  /\ request[r].pc = "idle"
  /\ request' = [request EXCEPT ![r] = [pc |-> IF kind = "read" THEN "settings" ELSE "upsert",
                                        event |-> [kind |-> kind, of |-> m, by |-> u]]]
  /\ NotSockets /\ UNCHANGED <<sent, sharesReads, receipt, events>>

\* Reading is not even kept for a user who does not share it.
Settings(r) ==
  /\ request[r].pc = "settings"
  /\ Advance(r, request[r].event.by \in sharesReads, "upsert")
  /\ NotSockets /\ UNCHANGED <<sent, sharesReads, receipt, events>>

\* The columns this kind of receipt writes.
After(e) == IF e.kind = "read" THEN {"delivered_at", "read_at"} ELSE {"delivered_at"}

\* Mutant of Kept: the update writes read_at as null where it is undefined.
KeptWritten(e) == After(e)

\* The columns set after the upsert, which leaves read_at alone or sets it.
Kept(e) == receipt[e.of][e.by] \cup After(e)

Upsert(r) ==
  /\ request[r].pc = "upsert"
  /\ LET e == request[r].event IN receipt' = [receipt EXCEPT ![e.of][e.by] = Kept(e)]
  /\ Advance(r, TRUE, "event")
  /\ NotSockets /\ UNCHANGED <<sent, sharesReads, events>>

Tell(r) ==
  /\ request[r].pc = "event"
  /\ events' = events \cup {request[r].event}
  /\ Advance(r, FALSE, "idle")
  /\ NotSockets /\ UNCHANGED <<sent, sharesReads, receipt>>

\* A receipt whose request dies has no event.
Abort(r) ==
  /\ request[r].pc # "idle"
  /\ Advance(r, FALSE, "idle")
  /\ NotSockets /\ UNCHANGED <<sent, sharesReads, receipt, events>>

SetSharesReads(u) ==
  /\ sharesReads' = IF u \in sharesReads THEN sharesReads \ {u} ELSE sharesReads \cup {u}
  /\ NotSockets /\ UNCHANGED <<sent, receipt, events, request>>

-----------------------------------------------------------------------------
(* Sockets                                                                 *)

NotReceipts == UNCHANGED <<sent, sharesReads, receipt, events, request>>

SignOut(u) ==
  /\ u \in session
  /\ session' = session \ {u}
  /\ UNCHANGED <<socket, heard>> /\ NotReceipts

\* handleConnection: a socket with a valid token is there while its session is
\* looked up; it can send conversation.join, but has no user yet.
Connect(s, u) ==
  /\ socket[s].state = "off"
  /\ socket' = [socket EXCEPT ![s] = [Off EXCEPT !.user = u, !.state = "checking"]]
  /\ UNCHANGED <<session, heard>> /\ NotReceipts

\* Mutant of Admit: the token is enough.
AdmitByToken(s) ==
  /\ socket[s].state = "checking"
  /\ socket' = [socket EXCEPT ![s].state = "in", ![s].welcome = socket[s].user \in session]
  /\ UNCHANGED <<session, heard>> /\ NotReceipts

Admit(s) ==
  /\ socket[s].state = "checking"
  /\ socket' = [socket EXCEPT ![s] =
       IF socket[s].user \in session THEN [socket[s] EXCEPT !.state = "in", !.welcome = TRUE] ELSE Off]
  /\ UNCHANGED <<session, heard>> /\ NotReceipts

\* Mutant of CanJoin: any conversation there is.
CanJoinAny(s, c) == c \in Conversations

CanJoin(s, c) == socket[s].user \in Participants[c]

Join(s, c) ==
  /\ socket[s].state = "in" /\ CanJoin(s, c)
  /\ socket' = [socket EXCEPT ![s].rooms = @ \cup {c}]
  /\ UNCHANGED <<session, heard>> /\ NotReceipts

Disconnect(s) ==
  /\ socket[s].state # "off"
  /\ socket' = [socket EXCEPT ![s] = Off]
  /\ UNCHANGED <<session, heard>> /\ NotReceipts

\* The event comes back from Redis, also a second time, to who is there now.
\* The payload names the conversation, so it goes to the room.
Publish(e) ==
  /\ e \in events
  /\ heard' = heard \cup {[in |-> Place(e.of), user |-> socket[s].user, welcome |-> socket[s].welcome] :
                            s \in {s \in Sockets : Place(e.of) \in socket[s].rooms}}
  /\ UNCHANGED <<session, socket>> /\ NotReceipts

Next ==
  \/ \E m \in Messages : Commit(m)
  \/ \E r \in Requests, m \in Messages, u \in Users, kind \in {"delivered", "read"} :
       Receipt(r, m, u, kind)
  \/ \E r \in Requests : Settings(r) \/ Upsert(r) \/ Tell(r) \/ Abort(r)
  \/ \E u \in Users : SignOut(u)
  \/ \E c \in Conversations : \E u \in Participants[c] : SetSharesReads(u)
  \/ \E s \in Sockets : \/ \E u \in Users : Connect(s, u)
                        \/ Admit(s) \/ Disconnect(s)
                        \/ \E c \in Conversations : Join(s, c)
  \/ \E e \in events : Publish(e)

Spec == Init /\ [][Next]_vars

-----------------------------------------------------------------------------
(* Properties                                                              *)

\* Only the two participants hear of a conversation, on sockets whose session
\* was live when they connected, however connecting, joining and signing out
\* interleave.
HeardByParticipants ==
  \A h \in heard : h.user \in Participants[h.in] /\ h.welcome

\* What an event tells of a receipt stays true: the row has the columns, and
\* no later receipt, in whatever order, takes one back.
ReceiptEventsHold ==
  \A e \in events : e.kind # "created" =>
    e.of \in sent /\ After(e) \subseteq receipt[e.of][e.by]

-----------------------------------------------------------------------------
(* Inductive invariant                                                   *)

\* A socket that is in had a live session, and its rooms are conversations of
\* its user.
SocketsEntitled ==
  \A s \in Sockets :
    /\ socket[s].state = "in" => socket[s].welcome
    /\ \A c \in socket[s].rooms : socket[s].user \in Participants[c] /\ socket[s].welcome

\* A receipt in flight is one of a message that is there; before its event the
\* columns are set.
ReceiptsKnow ==
  \A r \in Requests : request[r].pc # "idle" =>
    LET e == request[r].event IN
    /\ e \in Event /\ e.kind # "created" /\ e.of \in sent
    /\ request[r].pc = "event" => After(e) \subseteq receipt[e.of][e.by]

IInv == TypeOK /\ SocketsEntitled /\ ReceiptsKnow /\ HeardByParticipants /\ ReceiptEventsHold
=============================================================================
