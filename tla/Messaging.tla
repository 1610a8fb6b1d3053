------------------------------ MODULE Messaging -----------------------------
(***************************************************************************)
(* The messages one user sends to another (messaging.service.ts), with the *)
(* retries of a client, and what can close a conversation meanwhile: a     *)
(* block (trust.service.ts), an unmatch (relationships.service.ts) or a    *)
(* penalty (feature-access.service.ts).                                    *)
(***************************************************************************)
EXTENDS Naturals, FiniteSets

CONSTANTS
  Conversations,  \* bound: conversations of the two users, one per match
  ClientIds,      \* bound: client_message_id values of the sender
  MaxMessages,    \* bound: messages created
  Requests,       \* bound: requests in flight at once
  Nothing

VARIABLES
  conversation,   \* "none", "open": it and its match are ACTIVE, or "closed"
  lastMessage,    \* last_message_at
  barred,         \* subset of {"block", "penalty"}
  message,
  request,
  answered,       \* history: messages returned to sends, by client id
  excused,        \* history: requests in flight when something closed
  late,           \* history: messages committed by others after that
  overlapped      \* history: two messages of a conversation were in creation

vars == <<conversation, lastMessage, barred, message, request, answered, excused, late, overlapped>>

-----------------------------------------------------------------------------
\* Rows are numbered in the order of their sent_at.
Rows == 1..MaxMessages
Message == [state: {"none", "created", "sent", "gone"},
            in: Conversations \cup {Nothing}, client: ClientIds \cup {Nothing}]
NoMessage == [state |-> "none", in |-> Nothing, client |-> Nothing]

Request == [pc: {"idle", "read", "count", "lock", "commit"},
            in: Conversations \cup {Nothing}, client: ClientIds \cup {Nothing},
            on: 0..MaxMessages]
Idle == [pc |-> "idle", in |-> Nothing, client |-> Nothing, on |-> 0]

TypeOK ==
  /\ conversation \in [Conversations -> {"none", "open", "closed"}]
  /\ lastMessage \in [Conversations -> 0..MaxMessages]
  /\ barred \subseteq {"block", "penalty"}
  /\ message \in [Rows -> Message]
  /\ request \in [Requests -> Request]
  /\ answered \subseteq ClientIds \X Rows
  /\ excused \subseteq Requests
  /\ late \subseteq Rows
  /\ overlapped \subseteq Conversations

Init ==
  /\ conversation = [c \in Conversations |-> "none"]
  /\ lastMessage = [c \in Conversations |-> 0]
  /\ barred = {}
  /\ message = [m \in Rows |-> NoMessage]
  /\ request = [r \in Requests |-> Idle]
  /\ answered = {} /\ excused = {} /\ late = {} /\ overlapped = {}

-----------------------------------------------------------------------------
Exists(m) == message[m].state \in {"created", "sent"}
Sending == {r \in Requests : request[r].pc \in {"read", "count", "lock", "commit"}}
Creating(c) == {m \in Rows : message[m].state = "created" /\ message[m].in = c}

Begin(r, next) == request[r].pc = "idle" /\ request' = [request EXCEPT ![r] = next]
GoTo(r, pc) == request' = [request EXCEPT ![r].pc = pc]
Finish(r) == request' = [request EXCEPT ![r] = Idle] /\ excused' = excused \ {r}
Advance(r, ok, pc) == IF ok THEN GoTo(r, pc) /\ UNCHANGED excused ELSE Finish(r)

NotTheUsers == UNCHANGED <<conversation, barred>>
NotMessages == UNCHANGED <<lastMessage, message, answered, late, overlapped>>

-----------------------------------------------------------------------------
(* What closes and opens a conversation                                    *)

\* A match brings its conversation, also while a block it raced with stands.
Pair(c) ==
  /\ conversation[c] = "none"
  /\ conversation' = [conversation EXCEPT ![c] = "open"]
  /\ UNCHANGED <<barred, request, excused>> /\ NotMessages

\* Mutant of Unmatch: the conversation takes the status of the match.
UnmatchAlike(c) ==
  /\ conversation[c] = "open"
  /\ conversation' = [conversation EXCEPT ![c] = "ended"]
  /\ excused' = excused \cup Sending
  /\ UNCHANGED <<barred, request>> /\ NotMessages

Unmatch(c) ==
  /\ conversation[c] = "open"
  /\ conversation' = [conversation EXCEPT ![c] = "closed"]
  /\ excused' = excused \cup Sending
  /\ UNCHANGED <<barred, request>> /\ NotMessages

\* The transaction of block closes the conversations of all active matches.
Block ==
  /\ "block" \notin barred
  /\ barred' = barred \cup {"block"}
  /\ conversation' = [c \in Conversations |->
                        IF conversation[c] = "open" THEN "closed" ELSE conversation[c]]
  /\ excused' = excused \cup Sending
  /\ UNCHANGED request /\ NotMessages

\* A restriction of CHAT, a suspension or a ban of the sender.
Penalise ==
  /\ "penalty" \notin barred
  /\ barred' = barred \cup {"penalty"}
  /\ excused' = excused \cup Sending
  /\ UNCHANGED <<conversation, request>> /\ NotMessages

\* Unblocking, or a penalty over, opens no conversation again.
Lift(why) ==
  /\ why \in barred
  /\ barred' = barred \ {why}
  /\ UNCHANGED <<conversation, request, excused>> /\ NotMessages

-----------------------------------------------------------------------------
(* send                                                                    *)

Send(r, c, k) ==
  /\ conversation[c] # "none" /\ "penalty" \notin barred
  /\ Begin(r, [Idle EXCEPT !.pc = "read", !.in = c, !.client = k])
  /\ UNCHANGED excused /\ NotTheUsers /\ NotMessages

\* Mutant of SendRead: the check that readers pass.
SendReadInactive(r) ==
  /\ request[r].pc = "read"
  /\ GoTo(r, "count")
  /\ UNCHANGED excused /\ NotTheUsers /\ NotMessages

\* assertParticipant: the conversation and its match, then the blocks.
SendRead(r) ==
  /\ request[r].pc = "read"
  /\ Advance(r, conversation[request[r].in] = "open", "count")
  /\ NotTheUsers /\ NotMessages

SendCount(r) ==
  /\ request[r].pc = "count"
  /\ Advance(r, "block" \notin barred, "lock")
  /\ NotTheUsers /\ NotMessages

\* The advisory lock of sender and client id, held until the commit.
Locked(k) == \E q \in Requests : request[q].pc = "commit" /\ request[q].client = k

\* Mutant of Earlier: a message counts in its conversation only.
EarlierHere(r) ==
  {m \in Rows : message[m].state = "sent" /\ message[m].client = request[r].client
                    /\ message[m].in = request[r].in}

Earlier(r) ==
  {m \in Rows : message[m].state = "sent" /\ message[m].client = request[r].client}

\* A retry is answered with the message there is, whichever conversation and
\* text it names.
SendAgain(r) ==
  /\ request[r].pc = "lock" /\ ~ Locked(request[r].client)
  /\ \E m \in Earlier(r) : answered' = answered \cup {<<request[r].client, m>>}
  /\ Finish(r)
  /\ NotTheUsers /\ UNCHANGED <<lastMessage, message, late, overlapped>>

SendCreate(r) ==
  /\ request[r].pc = "lock" /\ ~ Locked(request[r].client) /\ Earlier(r) = {}
  /\ \E m \in Rows :
       /\ message[m] = NoMessage /\ \A n \in Rows : n < m => message[n] # NoMessage
       /\ message' = [message EXCEPT ![m] =
                        [state |-> "created", in |-> request[r].in, client |-> request[r].client]]
       /\ request' = [request EXCEPT ![r].pc = "commit", ![r].on = m]
  /\ overlapped' = IF Creating(request[r].in) = {} THEN overlapped
                   ELSE overlapped \cup {request[r].in}
  /\ NotTheUsers /\ UNCHANGED <<lastMessage, answered, excused, late>>

\* Mutant of SendCommit: the conversation is left as it was.
SendCommitQuiet(r) ==
  /\ request[r].pc = "commit"
  /\ message' = [message EXCEPT ![request[r].on].state = "sent"]
  /\ answered' = answered \cup {<<request[r].client, request[r].on>>}
  /\ Finish(r)
  /\ NotTheUsers /\ UNCHANGED <<lastMessage, late, overlapped>>

\* The conversation takes the time of the message, the outbox its event.
SendCommit(r) ==
  /\ request[r].pc = "commit"
  /\ LET m == request[r].on
         c == request[r].in IN
     /\ message' = [message EXCEPT ![m].state = "sent"]
     /\ lastMessage' = [lastMessage EXCEPT ![c] = m]
     /\ answered' = answered \cup {<<request[r].client, m>>}
     /\ late' = IF r \notin excused /\ (conversation[c] = "closed" \/ barred # {})
                THEN late \cup {m} ELSE late
  /\ Finish(r)
  /\ NotTheUsers /\ UNCHANGED overlapped

-----------------------------------------------------------------------------
\* A request dies; its message is rolled back.
Abort(r) ==
  /\ request[r].pc # "idle"
  /\ message' = [m \in Rows |-> IF request[r].pc = "commit" /\ m = request[r].on
                   THEN [NoMessage EXCEPT !.state = "gone"] ELSE message[m]]
  /\ Finish(r)
  /\ NotTheUsers /\ UNCHANGED <<lastMessage, answered, late, overlapped>>

Next ==
  \/ \E c \in Conversations : Pair(c) \/ Unmatch(c)
  \/ Block \/ Penalise
  \/ \E why \in {"block", "penalty"} : Lift(why)
  \/ \E r \in Requests :
       \/ \E c \in Conversations, k \in ClientIds : Send(r, c, k)
       \/ SendRead(r) \/ SendCount(r) \/ SendAgain(r) \/ SendCreate(r) \/ SendCommit(r)
       \/ Abort(r)

Spec == Init /\ [][Next]_vars

-----------------------------------------------------------------------------
(* Properties                                                              *)

\* "Client retries are deduplicated by (sender_user_id, client_message_id)"
\* (docs/policies/message-policy.md:10): however retries race, also across conversations,
\* every send of a client id is answered with one committed message.
OneMessagePerClientId ==
  /\ \A m, n \in Rows : Exists(m) /\ Exists(n) /\ message[m].client = message[n].client => m = n
  /\ \A a \in answered : message[a[2]].state = "sent" /\ message[a[2]].client = a[1]

\* Once a conversation is closed by an unmatch or a block, or the sender barred
\* from CHAT, only requests that were in flight by then still add a message.
ClosedTakesNoMore == late = {}

\* The list of conversations sorts by the time of the last message: it is that
\* unless two messages of the conversation were in creation at once.
LastMessageUnlessOverlap ==
  \A c \in Conversations \ overlapped : \A m \in Rows :
    message[m].state = "sent" /\ message[m].in = c => m <= lastMessage[c]

-----------------------------------------------------------------------------
(* Inductive invariant                                                   *)

\* A request in flight has a conversation and a client id.  At its commit it
\* owns the message it created, and every created message has such a request.
CreatedHaveOwners ==
  /\ \A r \in Requests : request[r].pc # "idle" =>
       request[r].in \in Conversations /\ request[r].client \in ClientIds
  /\ \A r \in Requests : request[r].pc = "commit" =>
       /\ request[r].on \in Rows
       /\ message[request[r].on] =
            [state |-> "created", in |-> request[r].in, client |-> request[r].client]
  /\ \A q, r \in Requests :
       request[q].pc = "commit" /\ request[r].pc = "commit" /\ request[q].on = request[r].on => q = r
  /\ \A m \in Rows : message[m].state = "created" =>
       \E r \in Requests : request[r].pc = "commit" /\ request[r].on = m

\* What a request that nothing overtook has checked still holds.
ChecksStand ==
  \A r \in Requests \ excused :
    /\ request[r].pc # "idle" => "penalty" \notin barred
    /\ request[r].pc \in {"count", "lock", "commit"} => conversation[request[r].in] = "open"
    /\ request[r].pc \in {"lock", "commit"} => "block" \notin barred

\* Rows are taken in order, and a message in creation is the last one there is
\* in a conversation where creations never overlapped.
RowsInOrder ==
  /\ \A m, n \in Rows : m < n /\ message[n] # NoMessage => message[m] # NoMessage
  /\ \A c \in Conversations \ overlapped : \A m \in Creating(c), n \in Rows :
       Exists(n) /\ message[n].in = c => n <= m

IInv ==
  /\ TypeOK /\ CreatedHaveOwners /\ ChecksStand /\ RowsInOrder
  /\ OneMessagePerClientId /\ ClosedTakesNoMore /\ LastMessageUnlessOverlap
=============================================================================
