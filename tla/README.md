# A TLA+ model of the Photomatch API

Photomatch is a NestJS service on PostgreSQL, Redis and BullMQ. Customers find
photographers, express interest, are matched, chat and make bookings; admins
moderate. This directory holds TLA+ modules of it, the TLC configurations that
check them on small instances, and TLAPS proofs of its safety properties for
instances of every size. Paths below are relative to the root of the
repository; the sources of the service are in `src/`.

## 1. Inventory of the system

Every HTTP request runs its handler in one of several API processes. Handlers
share nothing in memory: they meet in the database, which runs at its default
level, READ COMMITTED, and orders them only by unique indexes, the row locks of
updates and the advisory locks some of them take. A worker process runs the jobs
of a BullMQ queue. What makes the code hard is nearly always the same thing: a
row is read, something else commits, and what was read is used.

| Component (`src/...`) | State | Operations that change it | What is hard | What makes it correct |
|---|---|---|---|---|
| Pairs: `relationships/*.service.ts`, `block`/`unblock` of `trust/trust.service.ts` | swipes, matches with `active_pair_key`, conversations, user_blocks, two kinds of advisory locks | swipe, decide, ensurePair (from decide and from a booking), unmatch, block, unblock | interleavings; a transaction rolled back by the pair's refusal; lock order; cooldown | one active match per pair, columns that agree, one decision per interest, the cooldown, no one waits for ever |
| Bookings: `bookings/*` | bookings, bookingStatusHistory, reviews, an advisory lock per booking | create, update, transition, review | checks made outside the transaction that writes | the documented transition matrix, a history without gaps, a sane schedule |
| Outbox: `jobs/outbox-relay.service.ts`, `jobs/outbox.processor.ts` | outbox_events, delivery_deduplication, the queue | relay, dispatch, push | crash between claim and add, retries, lost records, stalls, requeue | delivered before PUBLISHED, no push repeated without need, every event settles |
| Sessions: `auth/auth.service.ts` | auth_sessions, password_reset_tokens | sign-in, refresh, sign-out, OTP, reset | bulk revocation against rotation, tokens and grants used twice | a family is one rotation; a grant sets one password; a reset ends all sessions |
| Idempotency: `common/idempotency.interceptor.ts` | idempotency_records | claim, replay, re-claim, complete, fail | retries at once, slow handlers, failed stores | one execution, and the answer of that execution |
| Accounts: `auth/auth.service.ts` | users, identities | sign-up by email or provider, verify, sign-in | a status written unconditionally; a sign-in that checks long before its session | no session before the email is verified, none for whom a penalty has signed out |
| Codes: `auth/auth.service.ts` | email_verification_tokens, password_reset_tokens | ask, issue, guess, count, lock, take | counting attempts in three statements, two live challenges | a code is taken once, and within its attempts |
| Moderation: `trust/trust.service.ts`, `admin/admin.service.ts`, job penalty-expiration | account_penalties, user_reports, account status | impose, revoke, expire, resolve, set the status | four writers of one status, none with a lock | the status follows the penalties; only what has ended expires |
| Guard: `common/access-token.guard.ts`, `common/feature-access.service.ts` | none | - | its readings are stale at once | a session that was ended is never let in again |
| Messaging: `messaging/messaging.service.ts` | messages, receipts, last_message_at | send, receipt | check before lock; retries across conversations; receipts out of order | one message per client id, none into what was closed before |
| Realtime: `messaging/messaging.gateway.ts`, `jobs/event-subscriber.service.ts` | sockets and rooms | connect, join, publish | checked once, used for ever | participants only |
| Media: `uploads/*`, job orphan-media, avatar and portfolio in `profiles/profiles.service.ts` | upload intents and assets, objects in the bucket, attached_at | presign, complete, attach, replace, delete, clean up | three stores that go apart; clean-up against attachment | what is in use keeps its object, what is removed has none |
| Discovery: `discovery/*`, job presence-expiration | user_locations, discovery_presence | put and delete location, enable, disable, expire | enabling what was read before a deletion | nobody is shown without a location, or at an old one |
| Catalogue: `admin/admin.service.ts`, `profiles/profiles.service.ts` | activity_fields, services, user_role_fields, user_role_services | create, move, archive; replace fields and services | checks outside the transaction; replacements at once | selected services are of selected fields; archived fields are empty |
| Legal: `admin/admin.service.ts`, `profiles/profiles.service.ts` | legal_documents, user_consents | create, edit, activate, archive; consent | an edit against an activation | one active version, and the text that was accepted |
| Devices: `jobs/devices.service.ts`, push of `jobs/outbox.processor.ts` | device_registrations | register, remove, switch off | a token that changes hands while pushes are under way | a former user's pushes stop, and an answered registration stays |
| Lists: `common/pagination.ts` and twenty queries | none | - | rows that come, go and move between two pages | everything that stays is shown once |
| Roles: `auth/roles.service.ts`; profile texts and settings | user_roles, profiles | add, switch, edit | - | - |
| Adapters, configuration, health, metrics, contract, controllers | none of the system's own | - | - | - |

How they meet: `decide` and `bookings.create` call ensurePair inside their own
transaction; a match or a booking inserts its outbox event in that transaction
too; messaging asks the match, the conversation and the blocks; a password
reset, a penalty and an admin revoke sessions; the guard asks session, account
and penalties before every handler; the location decides where a presence is
shown; the interceptor wraps decide, the booking operations, messages and
others. `PROJECT.json` lists each hazard at the line where it bites with the
property that watches it.

## 2. Modules

| Module | Models | State and actions |
|---|---|---|
| `PairMatching` | pairs and blocks | `matches` is a row of matches with the status of its conversation, `interests` a RIGHT swipe, `decisions` an ACCEPT or REJECT swipe; `SwipeCheck`/`SwipeInsert`, `DecideBegin`/`DecideKnown`/`DecideOpen`, `Verify`, `LockPairFree`/`LockPairExisting`, `CreateMatch` and `Commit` are the statements of swipe, decide, a booking and ensurePair; `BlockScan`/`BlockCommit`, `UnmatchRead`/`UnmatchCommit` |
| `Bookings` | bookings and reviews of two parties | one reading and one writing action for create, update, transition and review; only transition holds `lock` in between |
| `BookingLifecycle` | abstract: the matrix of `docs/policies/booking-transitions.md` | walked by one step per row |
| `Outbox` | relay, queue and workers | `status` is the row, `job` the BullMQ job of an event, `relay` what a relay has claimed and not added, `worker` how far a handler is |
| `Sessions` | sessions and password recovery of one account | `rowLock` holds the rows of an uncommitted rotation; a revocation of many rows is a scan and a later application |
| `TokenFamily` | abstract: rotating refresh tokens | Start, Rotate, End |
| `Idempotency` | one actor, key and route | the row, and calls from their arrival to what the client got |
| `Accounts` | one account, its sessions and penalties | `account`, `verified`, `sessions`, `penalties` are the rows; `op` an operation between two of its statements, such as createPenalty between the penalty (`Impose`), the status (`ImposeStatus`) and the sessions (`ImposeSessions`); `Admits` is the guard |
| `Codes` | one-time codes of one account, of either kind | `challenge` a row; `Ask`, `IssueUpdate`, `IssueCommit` make one, `WrongCount`, `WrongBack`, `WrongLock` are the three statements of a wrong guess, `RightCommit` the update that takes the code |
| `Messaging` | the messages of one user to another | `conversation` open or closed by `Unmatch`, `Block`; `SendRead`, `SendCount` check, `SendAgain`, `SendCreate`, `SendCommit` are under the advisory lock |
| `Realtime` | receipts and sockets | `receipt` the columns set, `events` the outbox rows, `socket` with its rooms; `Upsert` then `Tell`, `Connect` then `Admit`, `Join`, `Publish` |
| `Media` | files of one user | `file` is intent, object and asset together, since each upload has one of each; `CompleteRead`, `Head`, `CompleteCommit`; `AvatarRead`, `AvatarCommit`; `CleanFind`, `CleanObject`, `CleanMark` |
| `Presence` | location and presence of one user's roles | `location` the current one by number, `presence` with the location its point is derived from; `Put`, `PutCommit`, `PutFind`, then `EnableAsk`, `EnableRead`, `EnableWrite` for each role, as for a single `Enable` |
| `Catalogue` | activity fields, services, one role's choice | `field`, `service`, `fields`, `selected`; a check, and the transaction that writes, of each of five operations; `FieldsDelete`, `FieldsDrop` are the two deletes of replaceFields, `ServicesDelete` that of replaceServices, with what each has seen |
| `Legal` | the versions of one document type | `document`, `accepted` with the text accepted; `updateLegalDocument`/`EditCommit`, `legalStatus`/`Lock`/`StatusOthers`/`StatusCommit`, `consent`/`ConsentCommit` |
| `Devices` | push registrations of one provider | `device` by user and device id; `register`/`Upsert`, `deliverPush`/`Send`/`SwitchOffInvalid`; histories of who asked for a token, which deliveries began before, and which registrations were answered |
| `Lists` | all lists, one at a time | a record per list says how it is sorted, searched and changed; `Fetch` is a page, `Enter`, `Leave`, `Move` the rows meanwhile |
| `BookingSide` | bookings beside what those who book do | `Bookings` by extension; instances of `Messaging`, `Realtime`, `Presence` |
| `ServiceSide` | the interceptor beside the services behind it | `Idempotency` by extension; instances of `Accounts`, `Codes`, `Media`, `Legal`, `Devices`, `Catalogue`, `Lists` |
| `PairMatchingProofs`, `BookingsProofs`, `SessionsProofs`, `IdempotencyProofs`, `OutboxProofs`, `BookingSideProofs`, `ServiceSideProofs` | theorems | extend the module they prove about |
| `IdentityProofs` | the lemmas of `ServiceSideProofs` about `Accounts` and `Codes` | extends `ServiceSide` |
| `MC...` | small instances | symmetry and the values a configuration cannot write |

`BookingSide` and `ServiceSide` each put several instances side by side that do
not interact: a behaviour is about one of them, which `part` names from the
start, and the variables of that part are `v1`, `v2`, ... The states of such a
run are the sum, not the product, of those of its parts. `MCBookings` and
`MCIdempotency` extend them, and the theorems about the parts are about their
`PartsSpec`: what it says of the behaviours of one part is what that module
says by itself. `Bookings` and `Idempotency` have their own variables, and their
theorems are about the modules themselves. Where components do interact, the
other's effect is an action of the module: `Unmatch`, `Block` and `Penalise` in
`Messaging`, `SignOut` in `Realtime`, `CleanFind` in `Media`, `SetEligible` in
`Presence`.

Conventions shared by all of them:

- A request in flight is a record with a program counter. A step is one
  statement, or several nothing can usefully interleave with; what a transaction
  wrote is seen at its commit. `Abort` (`End` in some modules) ends
  any request anywhere: a check that
  refuses, a time-out, a process that dies; its transaction rolls back and its
  locks go. `Abort` therefore also stands for the refusals whose condition is
  outside the module (eligibility, feature restrictions, roles).
- An advisory lock is a variable holding its owner. In `Sessions` the row locks
  of PostgreSQL are explicit too, since an UPDATE of many rows behaves there as
  no reader expects: it takes a snapshot, waits for each row, looks again, and
  never sees a row inserted meanwhile. Two resets of one account lock the
  same rows first and are serialised by `resetting`.
- Time is a counter, `clock`, that may advance between any two steps. Only in
  `PairMatching`, where a tick stands for days of the 30-day cooldown, does it
  wait until no request is in flight: none lives that long. The hosted modules keep
  no clock: a row has a phase instead, such as due or over, and `Pass` moves it on.
- A constant named `Max...`, and the sets of rows and requests, are bounds. A
  guard that enforces a bound is named after it or commented with it.
- Variables marked "history" are read by properties only (and by the bound at
  which behaviours of `Catalogue` end). Several name what a
  property does not promise: two operations that overlapped, a write whose check
  no longer held, a process that died in the middle. Such a property says what
  holds *unless* that happened, which is the most the code gives; section 5
  lists what can happen otherwise.
- Operators introduced by a comment "Mutant of ..." are variants of a definition
  with a plausible bug. Nothing uses them: they are there to show that the
  property beside them fails when the code is changed that way.
  `PROJECT.json`, "mutants", names one for each property; the others break
  another conjunct of the same property.

## 3. Runs

| Run | Checks | Bounds, and why they are enough |
|---|---|---|
| `pair_matching` | types, `OneActiveMatchPerPair`, `CreateFindsKeyFree`, `MatchColumnsAgree`, `OneDecisionPerInterest`, `AcceptHasMatch`, `CooldownRespected` | one pair, two matches, two interests, three requests: two that race for a match and a block or unmatch against both; the second match is the rematch; clock 0..2 with a cooldown of 1 reaches both sides of its end |
| `pair_live` | `EveryRequestEnds` | two requests are enough for each to hold a lock the other wants |
| `bookings` | types, `HistoryIsChain`, `ScheduleOrdered`, `ReviewAfterCompletion`, `FollowsLifecycle` | one booking, two requests, times 0..3: a schedule, its patch on either side, and a start that has passed |
| - messaging | `MessagesAreInOrder` | two sends, two client ids and two conversations, so that a retry may name the other one; two messages that commit in either order |
| - realtime | `EventsAreTrue` | one message with both receipts in flight; one socket, used again after it ends, and a stranger to the conversation |
| - presence | `ListedAtLocation` | two roles, so that putLocation can fail between them; two locations, two requests and deletions at any time |
| `outbox` | types, `PublishedMeansDelivered`, `FailedAfterAllAttempts`, `RepeatsOnlyAfterLoss`, `OneWorkerPerEvent`, `PublishedIsFinal` | two relays and two workers race over one event with two devices, so that an attempt can fail between them; two attempts (first and last), a stall, a crash, a requeue |
| `outbox_live` | `EventSettles` | two events compete for one worker while a relay or the worker dies |
| `sessions` | types, `ReplacementsAreChain`, `OneResetPerGrant`, `FollowsTokenFamily` | two families, four sessions, three requests: two refreshes of one token and a reset or a sign-out |
| `idempotency` | types, `AnswersAreCommitted`, `ExecutedOnceUntilTrouble` | four calls (one that fails, two retries, one late), two bodies, time for one claim to run out and another to begin |
| - accounts | `SessionsAreEntitled`, `PenaltiesRule` | two operations at once, a session, two penalties out of three offers: a restriction, a suspension that starts later and a ban without end |
| - codes | `CodesAreLimited` | two challenges of one kind, two requests, two attempts: a first and a last |
| - media | `MediaIsKept` | two avatars, one of which replaces the other, or a new portfolio item beside evidence; two requests and a cleanup that reads one asset a time, so that assets it did not read are left |
| - legal | `ConsentsStand` | two versions, one edit, two requests, two users |
| - devices | `PushesReachTheirUser` | two users, one device each, two tokens (one old and one new), two requests or deliveries: a handover, or an invalid answer, against a delivery or another registration |
| - catalogue | `SelectionsFitCatalogue` | two fields and a service that can move between them, two requests |
| - lists | `PagesAddUp` | three rows on pages of one: a row before, at and after a cursor; two key values, so that ties occur |
| `pair_block_race`, `booking_terms`, `outbox_requeue`, `sessions_reset`, `idempotency_retry` | one property each, found violated | see section 5 |

`CHECK_DEADLOCK FALSE` everywhere: the rows are finite in number, and when all
are used and every request has ended, the system has nothing left to do. That
no request waits for ever is `EveryRequestEnds`.

`booking_terms` and `idempotency_retry` check `Bookings` and `Idempotency`
themselves, without the other parts. In `MCIdempotency` the values of the calls
stand for requests, rows, users, fields and versions of the other parts as
well, which keeps the permutations of the symmetry few. Every constant that is
permuted is a set none of the modules orders or names a member of.

The properties of the hosted parts are conjunctions of those stated in the
modules, where each conjunct has its comment:

- `MessagesAreInOrder`: `OneMessagePerClientId`, `ClosedTakesNoMore`,
  `LastMessageUnlessOverlap`. Requests that were in flight when a conversation
  was closed may still add a message; none that begins later does.
- `EventsAreTrue`: `HeardByParticipants`, `ReceiptEventsHold`. `Connect` and
  `Join` interleave with sign-outs, and a socket is let in by its session only.
- `ListedAtLocation`: `ListedHasLocation` (unless a deletion overtook a request
  that had read the location), `ListedWhereUserIs` (as long as requests come one
  at a time and complete).
- `SessionsAreEntitled`: `CondemnedStayOut`, `SessionsNeedVerifiedEmail`. These
  two hold under all interleavings, crashes included.
- `PenaltiesRule`: `OnlyEndedExpire` always; `StatusFollowsPenalties` as long as
  operations on the account come one at a time, complete, and only penalties set
  the status.
- `CodesAreLimited`: `TakenOnceInTime` always, `OneChallengeUntilOverlap` unless
  two challenges were issued at once.
- `MediaIsKept`: `StoreFollowsRows` always, `InUseIsKept` unless the cleanup had
  found the asset before it was taken into use.
- `ConsentsStand`: `OneActiveVersion` always, `ConsentedTextStays` unless an
  edit was overtaken by an activation.
- `PushesReachTheirUser`: `PushesFollowTheToken`, over what deliveries are about
  to push, unless they began before another user asked for the token;
  `AnsweredStays`, over the rows, unless a registration was answered while a
  delivery had read a former token of its row, which it may yet switch off.
- `SelectionsFitCatalogue`: `ServicesBelong`, `ArchivedFieldsAreEmpty`, until
  the first write whose check no longer held, or that missed what another
  request had written, where behaviours end.
- `PagesAddUp`: `StayersShownOnce` always, also while rows come, go and move;
  `SearchKeptUnlessReplaced` tells which lists keep their search.

What is asked of the abstract specifications: `FollowsLifecycle` says that
whatever requests interleave, each committed change of a booking is a row of
the documented matrix, made by a party that row names. The row DRAFT -> PENDING
is not in `BookingLifecycle`, since no operation writes DRAFT.
`FollowsTokenFamily` says that a family has one valid token, which is exchanged
once, and that a family that was ended never lives again, even while refreshes,
reuse, sign-outs and resets race.

`Outbox` is checked in three environments. In *calm* ones relays and jobs are
done within the 5 minutes after which a row is claimed again, workers renew the
locks of their jobs, and a failed statement or add has no effect. In a *backlog*
rows outlast the 5 minutes, an add whose answer is lost may have succeeded, and
the statements outside the try block of dispatch may throw. A *hostile* one also
lets a live worker lose its job. Each property says in its first line
which environments it is about; `PublishedMeansDelivered` and
`FailedAfterAllAttempts` hold in all.

### Fairness

- `pair_live`: strong fairness of `Proceed`, the steps of each request. Node
  keeps running the handlers it started, and PostgreSQL queues the waiters of an
  advisory lock, so that a request that can get the lock again and again gets it.
  `Abort` is not fair: that a time-out of the transaction would end a stuck
  request is not what the property relies on.
- `outbox_live`, `outbox_requeue`: the interval of the relay, the check for
  stalled jobs and the steps of a worker are weakly fair, since a timer or a
  process that is restarted drives them. `Take` and `Enqueue` are strongly fair
  per event: BullMQ hands out jobs in turn, and Redis is not down at every single
  add. Crashes are bounded; nothing is assumed of the pushes.

## 4. Proofs

`tlapm` proves every invariant and every action property of the passing runs,
for any sets of rows and requests, under the assumptions named in the modules:
null values are no values; bounds and limits are natural numbers, and those of
which there must be one (attempts of a job, rows of a page, assets of a cleanup)
are positive; in `PairMatching` roles have owners and no role is of both kinds;
in `BookingSide` conversations have participants among the users
(`ParticipantsAssumption`), and messages a conversation and a sender
(`HomeAssumption`); in `ServiceSide` there are finitely many requests and rows
of a list at a time; `Outbox` takes any set of its environments. Nothing is
assumed that the schema, the code or the bounds of the model do not give.

Each module states its inductive invariant, `IInv`, as named parts. Before the
proofs, TLC checked those of the hosted modules and of `Outbox` on the instances
of section 3; more than one part came out of a proof that failed without it.

- **`PairMatchingProofs`** - `TypeCorrect`, `CreateNeverConflicts`,
  `ColumnsAlwaysAgree`, `AtMostOneActiveMatch`, `CooldownAlwaysRespected`. That
  at most one match is active is not inductive: a request about to insert has
  looked before, so the invariant `IInv` adds that such a request holds the
  advisory lock of its pair (`PairLockHeld`), that the key is free while it does
  (`CreateFindsKeyFree`: only the holder inserts, and everyone else only frees
  keys), and that key and status agree (`MatchColumnsAgree`, `KeysUnique`,
  `ActiveHasPair`). The cooldown needs a second invariant, `CooldownInv`: what
  the holder of the lock found cooled down stays so until it inserts, since a
  match of the pair could only end now if it were active. The unique index is
  never needed. `DecidedOnce` and `AcceptAlwaysMatched` have invariants of their
  own: a transaction that decides holds the lock of its interest, which is OPEN
  until it commits (`DecisionInv`), and what will commit an ACCEPT has its match
  by then, while no row of matches ever changes its pair (`AcceptInv`).
- **`BookingsProofs`** - `TypeCorrect`, `HistoryAlwaysChains`,
  `ScheduleAlwaysOrdered`, `ReviewsFollowCompletion`, `ImplementsLifecycle`.
  `IInv` says what each request in flight still knows: the status a transition
  read is the status, because it holds the lock (`TransitionKnows`); a review
  only that the booking was COMPLETED once, which never changes back
  (`ReviewKnows`); a patch nothing but that the booking exists (`UpdateKnows`),
  so that a schedule put together from two patches is ordered only thanks to
  the check constraint of the table, `bookings_schedule_check`. Every step is
  then shown to be a row of the matrix or a stutter.
- **`SessionsProofs`** - `TypeCorrect`, `ReplacementsAlwaysChain`,
  `GrantsWorkOnce`, `ImplementsTokenFamily`. `IInv`: a family has at most one
  live row (`OneLive`), a rotation that holds the lock of a row finds it live
  until it commits, and a reset that is under way finds its grant verified
  (`RequestsKnow`), and a grant counts what it did (`GrantsCounted`).
- **`IdempotencyProofs`** - `TypeCorrect`, `AnswersAlwaysCommitted`,
  `ExecutedOnce`. Nothing locks the record, so what a second claimant might
  overwrite is part of the argument: a body is written once
  (`PayloadsKnown`), a stored response is of a committed call with that body
  (`ResponseStored`, `AnswersStored`), and, as long as nothing has gone wrong,
  the call that claimed the record is the only one past its claim (`Calm`).

- **`OutboxProofs`** - `DeliveryInvariant`, `TypeCorrect`,
  `PublishedWasDelivered`, `FailedWasTried`, `PushesRepeatOnlyAfterLoss`,
  `WorkersDiffer`, and the action property `PublishedStaysFinal`. A job has an
  owner exactly while it is active, and a worker that lost its job knows fewer
  attempts of it than were made (`JobsHaveOwners`), which is why the attempt
  that marks a row FAILED is the last one. What is on record was sent, and so
  was what a worker has behind it (`PushesSent`): hence PUBLISHED means
  delivered, even if a worker without a job writes it. Where workers keep their
  jobs, a push is on record, about to be, or counted as lost (`SendsCounted`).
  Where relays are timely too, a claimed row has no live job and is in the hands
  of one relay (`RelaysExclude`), and no one is left who could write over
  PUBLISHED.
- **`BookingSideProofs`** - `PartsInvariant`, `PartsTypeCorrect`,
  `MessagesStayInOrder`, `EventsStayTrue`, `RolesStayAtLocation`.
  - `Messaging`: a message that is created and not committed belongs to one
    request, which holds the lock of its client id (`CreatedHaveOwners`); what a
    request has checked holds unless it was overtaken (`ChecksStand`); and without
    overlap a message in creation is the last one of its conversation
    (`RowsInOrder`).
  - `Realtime`: a socket's rooms were joined as a participant and with a live
    session (`SocketsEntitled`); the columns a receipt reports are set before its
    event is written (`ReceiptsKnow`), and no column is ever cleared.
  - `Presence`: as long as nothing overlaps or fails, there is one request and it
    writes the current location (`OneAtATime`), and a role listed elsewhere is
    one that this request has still to do (`ElsewhereIsToDo`).
- **`ServiceSideProofs`** with `IdentityProofs` - `PartsInvariant`,
  `PartsTypeCorrect`, `SessionsStayEntitled`, `PenaltiesKeepRuling`,
  `CodesStayLimited`, `MediaStaysKept`, `ConsentsKeepStanding`,
  `PushesStayOnCourse`, `PagesAlwaysAddUp`, `SelectionsStayInCatalogue`.
  - `Accounts`: sessions a penalty has found are revoked, for good
    (`SessionsEarned`), and what is about to expire is over (`DatesHold`). That
    the status follows the penalties is broken in the middle of every operation,
    so that `StatusSettles` says in which steps which half of it does not hold,
    and that what a revocation or an expiration has counted stands until it
    writes.
  - `Codes`: while a challenge can be guessed, its wrong guesses and those not
    yet answered are within the counted attempts (`GuessesCount`); without
    overlap the request that issues a challenge has seen the only one there is
    (`OneIssue`).
  - `Media`: what an operation or the cleanup found of its files still holds
    (`OpsKnow`, `CleanupKnows`), and nothing in use is in the hands of the cleanup
    unless it was there before (`KeptUnlessDoomed`).
  - `Legal`: the type key is that of the one active version (`OneKey`); the
    activation that holds the lock has seen all others (`ActivationsExclude`);
    consents are to versions no longer edited (`ConsentsStandNow`).
  - `Devices`: a request that is about to write a row, and an active row, are of
    a user whose claim on the token stands (`ClaimsHold`); and a delivery that
    has read the row of a registration in force has read its token
    (`DeliveriesAgree`), so that no other invalid answer can switch it off.
  - `Catalogue`: whatever is referred to has been created (`ServicesExist`).
  - `Lists`: between two pages, what stayed was shown once if it comes before
    the cursor and never if it comes after (`ShownUpToCursor`), for every order,
    every number of rows and every size of a page.

Left to TLC: the liveness properties `EveryRequestEnds` and `EventSettles`, since
fairness and ENABLED are beyond the prover, and the five violations, for which a
counterexample is what is wanted.

## 5. Where the code and its documents disagree

1. **A block can lose to a match** (`pair_block_race`).
   `relationships/pair-orchestration.service.ts:34` counts the blocks before it
   waits for the pair lock, and `block` takes no such lock. A block that commits
   in between is followed by an ACTIVE match of the two.
   `docs/security-review.md:27`: "Blocks propagate bidirectionally".
2. **Accepted terms can change** (`booking_terms`).
   `bookings/bookings.service.ts:228` writes a patch by id alone after checking
   PENDING outside the transaction.
   `docs/policies/booking-transitions.md:16`: "may be patched only by the creator
   while `PENDING`".
3. **A requeued event is not attempted** (`outbox_requeue`).
   `jobs/outbox-relay.service.ts:58` adds it under the id of the failed job the
   queue still keeps. `docs/operations-runbook.md:12`: "move reviewed terminal
   failures back to `PENDING`".
4. **A session can survive a password reset** (`sessions_reset`).
   `auth/auth.service.ts:576` revokes what its snapshot shows; the session a
   concurrent refresh inserts is not in it. `README.md:182`: "completing the
   reset revokes existing sessions".
5. **Two retries can both execute** (`idempotency_retry`).
   `common/idempotency.interceptor.ts:126` takes a FAILED record over by key
   alone. `test/e2e/direct-booking.e2e.spec.ts:116`: "one pending booking under
   concurrent retry".

What the histories of section 2 admit was met while modelling, without a run of
its own. Where a document says otherwise, it is quoted.

- *Accounts.* A status can differ from the penalties after operations overlap:
  `trust/trust.service.ts:245` counts and then writes ACTIVE, also over a ban
  that came between. When the expiration job dies between its update and the
  account, the account stays SUSPENDED, since the next run finds no penalty
  (`jobs/outbox.processor.ts:157`; `docs/operations-runbook.md:24` calls the
  job idempotent and has suspended accounts return to ACTIVE). Without any
  overlap, a suspension over a ban leaves SUSPENDED; revoking a feature
  restriction makes an account ACTIVE that an admin had suspended directly;
  suspending an account before its email is verified and revoking that leaves
  it ACTIVE but unverified, so that it cannot sign in.
- *Media.* Nothing sets attached_at of chat files and evidence, so the cleanup
  removes them after their retention, also while a message or report refers to
  them (`jobs/outbox.processor.ts:183`; `docs/operations-runbook.md:32`:
  "Report evidence and attached chat/portfolio/avatar assets must remain"). The
  retention counts from created_at, not from when the asset was orphaned, and
  an asset the job found may be attached before it is removed. The job reads
  the 100 oldest unattached assets and skips the young ones, so that 100 of
  long retention hide all others. Of two avatars attached at once the one that
  is overwritten stays attached. The limits in `docs/policies/media-policy.md`
  are not those of `uploads/upload-policy.ts`.
- *Presence.* A deletion of the location that overtakes `enable` or
  `putLocation` leaves a role listed (`discovery/discovery.service.ts:29`);
  putLocation that fails midway leaves the other roles at the old point, and it
  rounds what is left of their time up to a full hour.
- *Lists.* The admin lists with a search of several columns lose it from the
  second page on, as the OR of the cursor replaces it
  (`admin/admin.service.ts:107`). A conversation without a message has no
  cursor and ends the list where it is the last of a page
  (`messaging/messaging.service.ts:78`). Lists that sort by a key that moves
  can show a row twice or not at all, which `StayersShownOnce` leaves out on
  purpose.
- *Devices.* The unique token refuses the upsert of another user while the row
  of the former one keeps it, which the statement before has switched off: the
  phone then gets no pushes (`jobs/devices.service.ts:10`). A delivery under way
  at the handover still pushes to the phone for its former user
  (`jobs/outbox.processor.ts:106`). A push answered as invalid switches its row
  off by id, also when it has got a new token since, and so a registration that
  was answered (`jobs/outbox.processor.ts:131`);
  `docs/operations-runbook.md:16` relies on a registration at the next session.
- *Catalogue.* A service can be brought back in an archived field
  (`admin/admin.service.ts:1026`), selected where its field is not active, and a
  selection made while fields are replaced can be of a field given up: one
  committed after the second delete of replaceFields, too, although it passed
  its check against the fields there were
  (`profiles/profiles.service.ts:236`). Two replacements at once can leave the
  union of both.
- *Legal.* An edit checked before an activation changes the text in force
  (`admin/admin.service.ts:1077`).
- *Codes.* Two challenges issued at once are both good, each for its own attempts.
- *Realtime.* A socket stays in its rooms after a block, an unmatch or a
  sign-out, until it disconnects.

## 6. What is not modelled, and the plan

Not modelled because there is no state of the system in it: adapters of external
services (the models let each call succeed or fail), configuration, health,
metrics, logging, the exception filter, projections, controllers, DTOs, the
generated contract, scripts and deployment.

Not modelled because one statement writes what it is given, and nothing else
reads it together with another row: texts and settings of profiles, order and
edits of portfolio items, the mapping of fields to roles, moderation of
reviews, the status of a report, LEFT swipes, adding and switching roles,
linking an OAuth identity to an account there is.

Left out of the modelled components: the rows a new match or booking
inserts for the outbox and the notifications (they are part of the same
transaction, and `Outbox` begins with such a row); prices and texts; notification
preferences; the expiry of sessions and grants, which `Abort` covers as a
refusal; the removal of old finished jobs from the queue; the geometry of
locations; sockets' personal rooms, which hold no one else's sockets.

What follows, most important first:

1. Action properties of the hosted parts, and theorems of them: a consumed
   challenge, the text of an archived version and a removed asset never come
   back, and a stored message keeps its conversation and client id.
2. Narrower exceptions: several properties hold "unless something overlapped";
   which of the overlaps matter, one pair of operations at a time.
3. Liveness of the maintenance jobs, by TLC: what is over expires in the end, as
   long as no run dies; an asset that nothing uses is removed unless a hundred
   others hide it.
