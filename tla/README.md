# A verification of the messaging service

TLA+ models of `school-eos-messaging`, the service that opens one-to-one
conversations between the people of a school, carries their end-to-end
encrypted messages and notifies them. The models are checked with TLC on small
instances; the results that matter most are proved with TLAPS for every
instance.

The repository is a NestJS application (`src/src/`) over PostgreSQL
(`src/database/migrations/`) and Redis, with a second service, Core, asked over
HTTP who people are and who may write to whom. Several instances of the process
run at once; everything they share is in PostgreSQL or Redis.

## 1. Inventory

What each component keeps, what it does, whom it talks to, what is hard about it
and what makes it right.

| component | state | operations | talks to |
|---|---|---|---|
| conversations | `conversations`, `conversation_members` | createDirect, getById, list, ackMlsWelcome | authorization, unit of work, outbox |
| requests | `conversation_requests` | createRequest, accept, decline, cancel, lists | the same |
| messages | `messages`, `message_delivery` | send, sync, history | unit of work, outbox |
| read state | `message_read_state` | mark read (REST, WebSocket) | Redis publish |
| outbox | `outbox_events`, `isRunning` per instance | enqueue, dispatchPending | Redis publish, presence, Core, Expo |
| devices | `messaging_devices` | register, revoke, list | advisory lock, audit |
| E2EE keys | identity keys, signed prekeys, one-time prekeys, MLS KeyPackages | publish, publishMlsKeyPackages, getKeyBundleForUser | devices, authorization |
| WebSocket gateway | connection registry per instance, socket data | connect, disconnect, ping, message.send, conversation.read, typing, request decisions, sync | all services, Redis subscriber |
| presence | one Redis key per person, with a TTL | markOnline, refresh, isOnline | Redis |
| rate limit | one Redis counter per person and window | consume | Redis |
| Core integration | a cache of 5 s per instance | relationships, projections, push tokens, with retries | Core over HTTP |
| authorization, relationships | none | authorizeMessaging, canSendMessage, canDecideRequest, canCancelRequest | Core integration |
| directory | none | discovery pages over Core's user list and a person's relations | Core integration |
| unit of work, pool | a pool of 25 connections | run, withTransaction, query | PostgreSQL |
| audit | `security_events` | record, best effort | pool |
| auth, config, health, validation, error filter | none | pure functions and I/O | - |

**Conversations, requests and messages.** A conversation is one row and two
member rows, created in one transaction with, when there are any, the joiner's
MLS Welcome, a request and a first message. Every write transaction ends with an
outbox row. Hard: creates of one pair race on a partial unique index, and the
loser re-reads; the authorization of a send is read *before* the transaction
that inserts; sequence numbers come from a row lock; a send may be repeated
while its first execution runs; accept, decline and cancel race on `FOR UPDATE`;
any of it can die after any statement. Right: one conversation per pair, one
gapless log per conversation, a message stored once per key, one message while a
request is pending, one decision, an outbox that matches the rows, and replies
that are never taken back.

**Outbox.** A cron job on every instance reads due rows, without claiming them,
and works through its batch. Hard: two instances process one row at the same
time, with attempt counts that are stale when they are used; each step can fail,
including the steps that record a failure; a process can die between any two.
Right: at least one complete delivery before PUBLISHED, a bounded number of
attempts, no event given up early, none left behind.

**Devices and E2EE keys.** Registration revokes a person's devices and adds one
under a per-person advisory lock. Publication checks the device first and writes
afterwards, outside any transaction; a bundle is read key by key. Hard:
overlapping registrations, revocation between a check and a write, concurrent
publications and concurrent consumers. Right: one active device, no key handed
out twice, one active signed prekey, signed by the identity it is handed out
with; the last two hold as far as publications do not overlap. That a person has one
active device is the rule of `devices.service.ts:29-39`; the comment on top of
`messaging-devices.repository.ts`, which still speaks of several, is older.

**Gateway, presence and fan-out.** A connection is authenticated over several
awaits, then registered, marked online and told to synchronise; a heartbeat
prolongs a Redis key; every instance subscribes to the events of all people and
forwards those of its own sockets. Hard: a socket that closes while it is being
authenticated; an event published between two of these steps; a key that expired;
a subscription that is down. Right: a client that has synchronised misses
nothing, and nothing is registered that is not connected.

**Rate limit.** `INCR` then, on the first count, `EXPIRE`: two commands. Hard: the
process dies, or Redis fails, between them. Right: at most the limit within a
window, and every window ends.

**Read state.** One number per member and conversation, moved by receipts from
any of the member's clients, over two ways in. Hard: receipts that arrive late,
twice or at once. Right: what others are told of has been stored and stays.

**Conversation list and Welcome.** The list is read page by page below an
`(updated_at, id)` cursor while sends move conversations to its front; a
membership row keeps the MLS Welcome until its owner acknowledges it. Hard: a
transaction that began earlier commits later; a client that dies between
joining and acknowledging. Right: a conversation that stays is shown once, a
Welcome is not lost.

**Core integration, authorization, directory.** A cached, retried HTTP call, and
what is decided and listed with its answers. Hard: staleness, concurrent misses,
a service that takes a minute to wake up, a scope that changes between two pages
that different instances answer. Right: bounded attempts, a failure never read
as an answer, no decision older than the cache allows, a walk that shows
everybody and ends.

**Pool.** Registration holds a connection while the audit record it awaits needs
another. Hard: all connections held by registrations. Right: nobody waits
for ever.

## 2. Plan

In the order of importance to the people who use the service:

1. `Messaging` (with `MessagingInvariant`, `MessagingRefinement`, the abstract
   `DirectChannel`) and its proofs, the refinement among them - done.
2. `Outbox` and its proofs - done.
3. `KeyDistribution` (with `KeyInvariant`): devices and E2EE keys, and its
   proofs - done.
4. `Realtime`: gateway, registry, subscriber and sync, and its proofs - done.
5. `Ephemeral`: presence and the rate limiter, two users of Redis keys with a
   time to live, and its proofs - done.
6. `CoreClient` (cache, retries, time limits) and `Directory` on top of it
   (scope, decision, discovery and its cursors), and its proofs - done.
7. `Inbox`: the list's cursor under concurrent updates, and the Welcome from
   create to acknowledgement with a client that crashes, and its proofs - done.
8. `ReadState`: the GREATEST upsert against the numbers clients report - done,
   and proved.
9. `DeviceSession`: the devices of `KeyDistribution` joined to the sockets of
   `Realtime`: what revoking a device does to its connection. `jwt-auth.guard.ts:24-27`
   says the device is checked "on every WebSocket connect/heartbeat";
   `onPing` does not.
10. `Delivery`: `Messaging`, `Outbox` and `Realtime` composed, with the promise that
    a committed message reaches a recipient who keeps coming back. Today the
    three meet through named properties: `Realtime` takes the gapless log from
    `Messaging!GaplessSequence` and the fairness of `Publish` from
    `Outbox!EventuallySettled`; `Outbox` takes its rows from
    `Messaging!OutboxAtomic`. In the same way `Messaging` lets
    `authorizeMessaging` answer anything, which includes what `Directory` decides.
11. The pool: connections held while more are awaited.

Every safety invariant and every action property that a run checks has a theorem now;
further proofs come with further modules.

## 3. The modules and the code

A handler is a sequence of awaits. Between two awaits Node runs it without
interruption, and a statement outside a transaction commits by itself; so an
action is one await: it begins where the last one ended, and its effect is the
statement's. A transaction is one action per statement that can *wait* (a
unique index, a row lock, an advisory lock), and its writes appear together at its commit;
what it holds in the meantime is read off the program counters of the calls
(`HoldsPair`, `HoldsConversation`, `HoldsRequest`) or kept in a variable
(`registerLock`, `rowLock`). A handler of any instance is a member of `Call`: all
state they share is in PostgreSQL or Redis, so instances need no name except
where one keeps something of its own (`Outbox`, `Realtime`).

**`Messaging`** - `convs`, `requests`, `messages` and `outbox` are the tables
(a conversation's members and the stored Welcome, if one was sent, are in its row);
`call` holds for each handler execution its next await and what it has read so
far; `accepted` and `opened` are the replies clients have heard.

| actions | code |
|---|---|
| CallCreate, CallSend, CallDecide | the controllers and the gateway's handlers |
| FindActiveBetween, AuthorizeMessaging, InsertConversation, CommitConversation, FindWinner, DescribeExisting, ReplyCreate | `ConversationsService.createDirect`, `RequestsService.createRequest` |
| FindByIdempotencyKey, CheckCanSend, AllocateNextSequence, InsertMessage, CommitMessage, FindMessageWinner, ReplySend | `MessagesService.send` |
| LockRequest, CommitDecision | `RequestsService` accept, decline, cancel |
| Crash | the end of a process, a lost connection, a failed statement: rollback, no reply |

`authorizeMessaging` may answer anything: what Core says of two people changes
at any time and is not this program's data. `canSendMessage` and
`canDecideRequest` are `MaySend` and `MayDecide`. A message's content is its
`clientMessageId`. `DirectChannel` is what the service promises two people: one
log per pair. `MessagingRefinement` computes that log from the tables, with
the unique index, the races and the retries gone.

**`Outbox`** - `rows` is the table, `worker` each instance's run: its batch with
the attempt counts *as they were read*, and where in the loop it is.
Enqueue is a commit of `Messaging`; BackoffEnds is `next_attempt_at` passing; Tick
is the cron job with `findDueBatch`; Publish, CheckPresence, Push are
`processEvent`; MarkPublished and MarkFailed are the two endings, either of which
may itself fail and end the run; CrashWorker ends the process. Nothing
claims a row, so two workers hold the same one.

**`KeyDistribution`** - the tables of devices and keys, one program counter per
call, one action per autocommitted statement. A claim
(`UPDATE ... FOR UPDATE SKIP LOCKED`) is two actions, the row lock and the commit,
since what the clause is for lies between them. A signature is the identity
key it verifies under. `everIdentity`, `since` and `crossed` are history; `crossed` is
for each publication the others of its device that ran while it did.

**`Realtime`** - one person, since registry, channel and log are keyed by person.
`conn` holds each socket's place in `handleConnection` and what its client is
doing; `registry`, `subscribed` and `inbox` belong to an instance; `held` is a client's
store. Verified, DeviceFound, Touched, MarkedOnline and Reject are the awaits of
the handshake; Disconnect is `handleDisconnect`, at any moment of it; Deliver is
`deliverToLocalSockets`; SyncRead and SyncAnswered are `onSyncRequest`. The client
(Ask, and asking again after a full page) is not in the repository: the model
gives it what the protocol expects, a request from the newest message
it has whenever it was told of something. `sent` are the messages of the log that the
person sent, from whichever client: Publish announces the others only, as
`processMessageCreated` does, to their recipient. `inbox` is a set: Redis keeps order on a
connection, the model does not rely on it.

**`Ephemeral`** - two Redis keys with a time to live and time that passes in
Ticks: `presence`, driven by connections and heartbeats, and `counter`, driven by
`consume`, whose INCR and EXPIRE are two commands. `granted` is history: how many
calls were let through by their count, within each number of last Ticks.

**`CoreClient`** - `related`, `enabled` and `asleep` are Core, which is not in the
repository and is modelled from how it is asked: it answers out of its data at
one instant, or not at all. `cache` is each instance's Map, `req` what a call
waits for. Durations are Ticks that are left, so nothing grows. Attempt, Deliver,
TryAgain, TimesOut, Retry are `request`'s loop; Asking and Stored are
`cached`, which takes the time *before* it asks, and `getUserProjectionsBatch`,
which takes it after. `news` is history: how long what Core last changed about
a person may stay unknown, the TTL for a relationship and the TTL plus a time
limit for the person's own data.

**`Directory`** - what is built on it: `task` is a handler in
`authorizeMessaging`, `getDirectScope` or `discover` at its next await, `walk` a
client that asks for page after page.

| actions | code |
|---|---|
| Authorize, UserRead, Forget | `AuthorizationService.authorizeMessaging` and its caller |
| GetDirectScope, RelationshipsRead | `RelationshipsService.getDirectScope`, one list after another |
| NextPage, ReadProjections, ProjectionsRead, PageOf, PageRead | `DirectoryService.discover`, the `S:` phase and the `C:` phase |
| Unavailable | `CoreIntegrationUnavailableError` on its way out |
| StartWalk, PageArrives, PageLost | the client |

People are numbers in id order. `steady` is history: the people of whom nothing
that somebody may not know yet has changed since the call, or the walk, began.

**`Inbox`** - `row` is a conversation with the person's membership row,
`open` the transactions that write `updated_at`, which is `now()`: the time of
BEGIN, so that commits come in another order than times. BeginWrite and Commit are
the writing half of createDirect, createRequest and send as the list sees it
(what they do to each other is `Messaging`); ListPage is `listForPerson` with
its cursor, whose time goes through a JavaScript Date and loses what is below the
millisecond (TimeOf); GetById and AckMlsWelcome are the two operations of those
names. The client is not in the repository: it does what the comments and the
migration ask of it, joins, stores the group, then acknowledges, and
acknowledges again when it sees a Welcome whose group it has.

**`ReadState`** - one member's mark in one conversation. A receipt is a handler in
`onConversationRead` or `markRead`, await by await; `told` is history: the
numbers that were published or answered.

## 4. What TLC checks

| run | instance | shows |
|---|---|---|
| messaging | 2 people, 2 handlers, 2 conversations, 2 message ids and Welcomes, from the empty database | one conversation per pair however creates race; one creator, whose Welcome is the stored one and not that of the attempt that lost; a reported ACTIVE stays; the outbox is exactly the rows; history is kept; every behaviour is one of `DirectChannel` |
| messaging_steady | 3 people, 2 handlers, 1 conversation, 2 message ids, from an opened conversation or from the empty database | gapless numbers, each key stored once, replies durable, one decision per request; no create, send or decision waits for ever, on the index, a row or itself |
| messaging_acceptance | 2 people, 1 handler, 1 conversation | *violation*, section 7 |
| outbox | 2 events, 2 workers, 3 attempts, 1 crash | at least once, never given up early, attempts bounded although workers act on stale counts |
| outbox_live | 2 events, 2 workers, batches of one | every event ends PUBLISHED or DEAD_LETTER, and stays there |
| keys | workload *devices*: 2 registrations, 1 revocation, 1 publication of KeyPackages, 2 fetches; workload *prekeys*: 1 device, 2 publications that may overlap, 2 identity keys, 1 fetch | one active device; no key in two bundles; no bundle of two devices; no replaced device served; a stored prekey was verified; two ACTIVE signed prekeys, or one under an identity key that is no longer the device's, come of publications that overlapped and of nothing else, also when publications fail half-way |
| keys_two_active | 2 publications that overlap | *violation*, section 7 |
| realtime | 1 client, 2 sockets, 1 instance, pages of 1, 2 messages, each received or sent, 1 fault | nothing published to the person is missed, no holes, and the client catches up with what the person received |
| ephemeral | 2 sockets, 2 calls, limit 2, windows of 3 Ticks, 1 fault | online while connected, offline in the end, bursts bounded, windows end |
| ephemeral_ttl | 1 socket, 2 calls, limit 1, 1 fault | *violation*, section 7 |
| directory | 3 people, 2 instances, 2 calls, TTL 1, time limit 2, 2 retries, wake-up time 3, 1 change, pages of 2, 2 failed pages | no decision older than the cache allows; waking up is survived; a walk shows everybody, once, and ends; every question ends |
| inbox | 3 conversations, a clock of 4 units, milliseconds of 2, 2 transactions, 1 fault; 2 receipts, numbers up to 3 | a conversation that stays is listed once; no Welcome is lost and each is acknowledged in the end; nobody is told of a mark that is not stored |

**Why these bounds.** `messaging` has one message id for everything that may be called,
and two for creates alone, which then differ in their Welcome (one of the two, or none)
and their first message: with one, the loser's Welcome would be the winner's.
Every race in this code is between two parties: two
creates of a pair, two sends of a key, two decisions, two workers on a row, two
fetches on a key, an old and a new socket. Two handlers, each of which may call
again and again, meet each of them, and with a crash in between the retry of
what was already done. Two conversation ids let both sides of the race insert;
the second is never used by the winner. A third person shows that a
non-member gets nothing. Two events and batches of one let an event that fails
delay another. Three attempts let a row be failed, read, failed by the other
worker and settled. Two registrations, a revocation and two fetches let a device
be replaced while one fetch holds its old list and another claims its last
key; a batch over the limit is one more than `MaxBatch`. Two messages and pages
of one make a client ask twice while the second message is committed; one fault is a
lost subscription, a restart or a failed read, and the claim is about what
happens after the last one. More clients and instances are left to
`realtime`'s theorems. A window of three Ticks and a limit of two let the counts of
two windows fall within one period. Symmetry is used only where no liveness is
checked, over sets whose members are interchangeable. `messaging_steady` checks
liveness too, so it breaks the symmetry by hand: of all choices of who opened
the conversation with whom and with which message id, which differ in names only,
it takes one (`Asker`, `Other`, `Opening`). From the empty database it has creates by
both, and sends and decisions that come while a create is under way, so that all three
queue for one another; from the opened conversation, sends and decisions of all
three people. One wait of the code is never entered: `CommitMessage` would
wait for a request row that it fills, and a request always has its first message from
the start, so the gate lets nobody past who would fill it.

Three more runs ask several questions that need different actors at their full size.
Their MC modules choose a *workload* in the first state and keep to it; a
workload only forbids calls, it changes none.
`keys`: *devices* or *prekeys*, as above, with one call that fails, anywhere. Fetches that
are denied, or begin before their target has a device, are left to
*prekeys*, where a fetch runs beside one publication, not two. `KeyDistribution` has one
person here, so what `NoStaleDeviceServed` and `BundleOfOneDevice` say of a device's owner
is left to their theorems, as is what `EveryLiveSocketIsFound` says of the instance, of
which `realtime` has one. A state in which nothing runs may be
the last of a workload (`AtRest`); one in which a call waits may not.
`directory`: *waking*, one call at a time about one person, for any actor with at
most one list, while Core sleeps, hangs, rejects and fails; *overlap*, two decisions at once on one instance with
slow answers, which is where a slow miss meets a newer entry, the one reading both
lists and the other one of them; *batched*, a page and decisions at once on one
instance, with answers as slow as the timeout allows, where a decision finds what the
page's batch left in the cache; *walks*, over three people and two instances with
one change at any moment and lost pages. The walks start with everybody or all but
one enabled, and with a scope of nobody, the person who may change, the other two or
everybody: short of, equal to and over a page. A `PRINCIPAL`'s walk reads no list, nor
does that of a role to which Core has none (`LIBRARY` for the eight of them), so one list
stands for all; a `DRIVER` may not use messaging.
`inbox`: *list*, pages of two over three old conversations, two of which are
moved, by transactions that overlap; *welcome*, two invitations read by pages
of one, over the three clock values of two milliseconds, with one restart or one lost acknowledgement; *read*, two receipts.

A TTL of one Tick and a time limit of two let an entry expire while a slow answer is
on its way. Two retries with delays of 1 and 2 Ticks bridge a wake-up time of 3,
the longest `CoreClientAssumption` admits (`WakeTime <= Power[MaxRetries] - 1`), as
six with delays up to 32 s bridge 63 s for the code's 30-60 s. Pages of two
over three people put the turn from the scope to Core's list before, in and
after a page. One change is what a property about staleness speaks of: what has not
changed since is right.

The bounds `MaxCrashes`, `MaxMessages` and `MaxFaults` are guards of the modules;
`counter` stops one above `Limit`, where every further call gets the same answer.
`AttemptsBounded` is stated with room for stale counts; it is not the number the
configuration names (section 8).

**Fairness.** `Messaging`: a handler that can go on goes on (weak), and one that
waits for a lock gets it if it becomes free again and again (strong): PostgreSQL
queues waiters. `Outbox`: cron ticks, a run's next step and the end of a back-off
(weak); the database does not refuse `markFailed` for ever (strong), without
which no event could be settled. `Realtime`: the handshake's awaits end, the
outbox publishes every event, Redis hands over what it took, `ready` brings the
subscription back, and a client that was told of something asks (weak). No
connection is assumed to stay: `CatchesUp` speaks of clients that have one that does.
`Ephemeral`: time passes, a due heartbeat is sent, EXPIRE ends (weak).
`Directory`: timers go off, a handler goes on once its await is over, a client that walks
goes on (weak), and time passes (strong, since a handler that is ready to run
comes first each time); nothing at all is assumed of Core or the network, so
a request may end by its timer only. `Inbox`: the client lists its
conversations again and again, goes on with the groups it has begun, and an
acknowledgement that is not lost arrives (weak); it need not open any conversation.

## 5. What TLAPS proves

For every value of the constants, from the named assumptions of the modules
(sizes are positive, sentinels are not members of the sets they mark) and nothing
else:

| module | theorem | says |
|---|---|---|
| MessagingProofs | Invariance, TypeCorrect | `IInv` holds always |
| | OneConversation | two people never share two conversations |
| | PendingHoldsOneMessage | a pending conversation holds the one message |
| | StoredOnce, StoredForMembers | a key is stored once, between members |
| | Durability | a reply names a committed row |
| | AnswerIsFinal | a request is decided once |
| | NoDeadlock | who waits for a lock waits for one transaction, which waits for none |
| MessagingChannelProofs | HInvariance | `HInv` holds always |
| | NoGaps | a conversation's numbers are 1 to its counter, each once |
| | AnnouncedExactly | the outbox is exactly what the committed rows call for |
| | CreatorIsUnique, ActiveStays | one creator, with the stored Welcome if it sent one; a reported ACTIVE stays |
| | HistoryOnlyGrows | no step removes or changes a message, an outbox event or who is in a conversation |
| | Refinement | the service implements `DirectChannel` |
| OutboxProofs | OutboxInvariance, AtLeastOnce, NeverGivenUpEarly | at least once, never given up early |
| | AttemptsInvariance, AttemptsAreBounded | attempts are bounded although counts are stale |
| KeyDistributionProofs | KeyInvariance, OneActiveDevice, NoKeyTwice, NoStaleDevice | one active device, the newest; no key twice; no stale device |
| | KeysInvariance, BundlesAreOfOneDevice, PrekeysAreVerified | a bundle is of one device; each prekey was verified |
| | CrossInvariance, TwoActiveHaveCrossed, AcceptedOrReplaced | two ACTIVE prekeys, or an identity key replaced before the insert, come of overlapping publications only |
| | LockHoldersRun | an advisory lock is held by a registration that runs |
| RealtimeProofs | RealtimeInvariance, EverySocketFound, NoMessageMissed, StoresHaveNoHoles | nothing missed, no holes |
| EphemeralProofs | PresenceInvariance, ConnectedIsOnline | online while connected |
| | CounterInvariance, BurstIsBounded | bursts are bounded |
| | KeysExpire, KeysRunOut | keys have a time to live, and nothing lengthens it that should not |
| InboxProofs | WelcomeIsKept | a Welcome is shown until its group is stored |
| | WalkInvariance, EveryoneIsListedOnce | a conversation that stays is listed once |
| | ToldNumbersAreStored | nobody is told of a read mark that is not stored |
| DirectoryProofs | DecisionInvariance, DecisionsAreCurrent | no decision is older than the caches allow |
| | WakeInvariance, WakeUpsAreSurvived | the doubling delays outlast Core's sleep |
| | DiscoveryInvariance, WalksShowEverybody | a walk shows everybody, and nobody twice |
| | WalksGoForward | each page leads a walk on, through finitely many cursors |
| | WaitsBounded, WaitsRunOut | a wait for Core is bounded, and gets shorter with every Tick |

Each proof is the usual three facts about an inductive invariant, with one lemma
or step per action. The inductive invariants were checked with TLC before they
were proved; the runs no longer repeat what the proofs show of them, and the
type invariants are conjuncts of them.

*Messaging.* `OneMessageWhilePending` is not inductive: `send` reads the request
before its transaction. `IInv` adds what each call still knows at its next await
(`CallOK`): in particular that a call past the gate finds its conversation not
pending, which stays true because a request is created only in the
transaction that creates its conversation; that two calls never stand where they
would hold one lock (`LocksExclusive`); and that numbers and keys identify rows
(`Numbered`). The transaction's reads then fix what its commit writes.
`NoDeadlock` follows from `IInv`: a transaction takes the lock that others wait for last,
except that a send takes the conversation row first, and a send that holds it has no
request left to wait for; so a chain of waits has one link (`WaitsAreShort`).

What clients were told of takes a second invariant on top, `HInv`. `OneCreator` and
`ActiveIsStable` speak of replies that arrived, so `ReportsOK` says the same of a reply
that a handler is about to give, and `ClaimsApart` that no two handlers are about to
claim one conversation as theirs. `OutboxAtomic` and `GaplessSequence` are inductive
beside `IInv`, each by what the three commits add (`CommitMessageEffect`,
`CommitDecisionEffect`, `CommitConversationEffect`); `AllocateNextSequence` writes
nothing until its transaction commits, which is why a number that is given up leaves no
gap.

*The refinement.* `Refinement` says that under the mapping of `MessagingRefinement` an
initial state is one of `DirectChannel`, and a step is a step of it or a stutter.
Three lemmas read the mapping off the tables: a pair's phase and log are those of its one
conversation (`PairsRead`, from `OneConversation`), a log is as long as its counter and
each row is its entry there (`LogRead`, from `NoGaps`). Then CommitConversation is OpenDirect or
AskFirst, CommitMessage is Post, CommitDecision is Answer, ReplySend is Tell, and
everything else stutters.

*Outbox.* A worker's step is right only if what it did earlier in its run is
still true when it writes: `RunKnows` says it of the current item, and that
the counts in a batch are at most the row's. Attempts only grow, so a decision on
a stale count is never early.

`AttemptsBounded` needs to know how much is still to come. A run that holds the event
with a count below `MaxAttempts` can bring its row back from DEAD_LETTER, once
(`StaleRuns`); one that holds it with a count that is not can only add to it
(`FreshRuns`). `AttemptsInv` is a budget: once an event has had `MaxAttempts`, its
attempts, one for every run that holds it or may still read it (`ToCome`), and for
every stale run its own attempt and one of every run that reads what it revives
(`Revivals`), stay below the bound. A tick adds nothing to it: the run it begins reads a
count that revives nothing.

*KeyDistribution.* `RegistrationSawAll`: between its read and its commit a
registration knows of every active device, because the advisory lock excludes
other registrations and a revocation only takes devices away. `RowLocks` and
`HeldIsConsumed` say where a key is on its way from AVAILABLE to a bundle, and
`FetchIsFresh` that the list a fetch works from was complete when it was read.
`HoldersRun` says who may hold an advisory lock, after any failure.
`KeysInv` (in `KeyInvariant`) adds where keys come from: a stored key is of the device
its publication checked, what a fetch holds is of the device it reads at that moment, and
a publication past the check carries a signature that verified under an identity key
its device has had. Nothing in `publish` keeps publications of a device apart, and
keys_two_active shows what that leads to; `CrossInv` says that it leads to nothing
else. Two publications that run at once know of each other (`CrossedOK`), and what one of
them has checked is still so when it inserts, but for what those that overlapped it
wrote (`CheckStillHolds`): the identity key is the one it verified under or one of theirs,
and the ACTIVE prekeys it would add to are theirs. `TwoActiveHaveCrossed` and
`AcceptedOrReplaced` are what a client sees of it; a publication that overlaps no other
leaves one ACTIVE prekey (`OnePrekeyIfSerial`).

*Realtime.* `NothingMissed` survives Publish because a steady socket's instance is
subscribed, Deliver because the registry finds the socket, and SyncRead because
a client's store has no holes, so `afterSequence` leaves nothing behind it
(`RequestsResume`).

*Ephemeral.* Presence: `KeyCoversPings` says that the key's time left and the time since a
socket's last heartbeat are together never less than the TTL. So the key outlives the
wait for that socket's next heartbeat, whichever socket touched it last, and closing
one takes nothing from the others.
Rate limit: `BurstInv` bounds what was let through in the last `a + 1` Ticks, for every
`a` up to the window's length, together with what the window and the calls that wait in it
still can (`ToLetThrough`): by one limit for as long as the current window has lasted, by
two beyond it, and by one more for each fault. The interesting step is the INCR that finds
no window: it may begin one only after the last one's TTL has passed, or after a fault.
`KeysExpire` is the part of the comment on `redis.service.ts` that holds (section 7 has
the other): while nothing fails, the call that creates a counter still stands between
it and its EXPIRE. `KeysRunOut` takes from `BurstInv` that no call of an earlier window
can then still be waiting to move the end of this one.

*Inbox.* For the list, `ListInv` says of a conversation that nothing moved since the walk
began, and that no rounding ties to a cursor, that it has been shown just if it lies above
the cursor (`ShownSoFar`), and not twice. A page is by definition the rows below the cursor
with fewer than `limit` rows above them (`PageIs`); that the page's last row separates
the shown from the rest (`CursorSeparates`), and that a row left out lies below it
(`LeftOutIsBelow`), is shown for a finite set of any size. `WelcomeKept` needs to know of the acknowledgements on their way that
each is for a group that is stored (`AckedIsStored`), which a restart of the
client does not undo.

*Directory.* A decision that is out of date would show in the end only, after an answer
that was right when Core gave it has waited, been kept by one instance and been found
there by a call that began later. `DecisionInv` says of every place where an
answer can be that what it may still live is no longer than the news about whom it
is wrong: an entry's time left (`EntriesOK`), and for an answer on its way the time left of the
entry it will make (`Lives`): of `cached` what remains of the TTL that began with the
question, of a batch the TTL and what remains of the timer. A Tick takes one from
both sides, a change sets the news to the longest an entry can live, and
`StoredOK` says that handing over keeps it. So an answer is never wrong about somebody
of whom there is no news, and what `getDirectScope` has put together of such a person
is what Core would say (`ScopeSoFar`), list by list. Awaits overlap freely, on any number of
instances.

`SurvivesWakeUp` is about a sum: attempt `n` begins after `2^n - 1` Ticks of delays, and
they passed in Core's sleep if Core still sleeps. `WakeInv` says just this of each attempt
and of what is left of a delay, whatever time the attempts themselves took; at
`MaxRetries` nothing of the sleep can be left, so a last attempt that fails was made on a
Core that was awake. `2^n` is the recursive function `Power`. That there is such a function
(`PowerIs`) is proved from its finite beginnings, which exist (`PowerExists`) and agree
(`PowerUnique`) because a set of numbers has a least one (`LeastNumber`).

`WalkShowsEverybody` relates a cursor, which is all the client keeps, to whom it was shown.
`Passed` says whom a walk has passed that came to a cursor: of the scope up to its person
in phase `S`, the whole scope and Core's list up to its person in phase `C`. `Shows` says
that whoever was passed, and may use messaging and did not change, was shown, and that
nobody else was, nor anybody twice, if nothing changed. `WalkInv` carries it through the awaits of one
`discover`: the scope as far as it is read (`ReadsScope`), its projections
(`ReadsUsers`), the rest of the page asked of Core (`ReadsPage`), and the page before the
client has it (`BringsPage`). A page is the beginning of what it is taken from
(`PageIsBeginning`), so its last person separates those shown from the rest. That the
answers are right about the unchanged is taken from `DecisionInv`. The case that takes
care: a person named by the cursor who has left the scope lets the walk begin the scope
again; then somebody changed, and being shown twice is allowed, missing is not.

`WalksGoForward` is the other side of that case. `Onward` orders the cursors by phase and
person; a page of the scope ends after the person it began with because that person is
still in the scope, unless something changed about them (`Shows` says so of every
cursor), and Core's cursor is a person of its page (`PageIsRight`). A client that
asks for page after page comes by each cursor once.

`WaitLeft` is the time a request can still take: what remains of its timer or its delay,
and whole timers and doubling delays for the attempts to come. Every step of the
request keeps it or shortens it (`WaitStays`), a Tick takes one (`WaitTicks`), and the
longest is that of a request just made: with the code's numbers, seven timers of 45 s and
delays of 63 s.

*ReadState.* A handler that is past the upsert carries a number the mark
reaches, and the mark only grows.

## 6. What is only model-checked, and what is left out

Liveness (`EveryCallEnds`, `EventuallySettled`, `CatchesUp`, `OfflineInTheEnd`,
`WindowEnds`, `EveryReadEnds`, `WalkEnds`, `EveryWelcomeDelivered`) is beyond the prover
used here. All other properties of the passing runs have a theorem. Of the liveness
properties the safety half is proved for any values of the constants, where there is one to
prove: nobody waits in a ring (`NoDeadlock`), a request's time runs out (`WaitsRunOut`), a
walk goes forward (`WalksGoForward`), keys run out (`KeysRunOut`), attempts are bounded
(`AttemptsAreBounded`), nothing is missed (`NoMessageMissed`) and a Welcome is kept
(`WelcomeIsKept`). That the steps they count do happen, which fairness gives, is
what TLC alone shows.

The bounds `Count`, `Window` and the others stand for any numbers in the theorems. The
theorems speak of the modules' `Spec`s: the workloads of the MC modules, and the bounds
that only they set, play no part in them.

Not modelled: the connections of the pool, which are node-postgres and only
configured here; devices and sockets joined, and the path of a message end to end
(planned, section 2); typing indicators, which are told and forgotten; audit rows, which nothing reads;
cryptography and JWTs, which are relations here (a signature verifies
under one key, a token is accepted or not); the wording of payloads and errors;
configuration, validation, health and wiring, which keep no state; attachments,
which are tables without code. Of the directory: the search string, the state of an
existing conversation that is shown with a person, the limit on calls, the chunks
of 200 of a batch, and the third of three relationship lists that differ in name
only. Paging back through a conversation's messages reads a log that only
grows at its other end. Statements are taken to commit at one instant, and
PostgreSQL, Redis and socket.io to do what their documentation says.

## 7. Where the code and its words differ

- **A conversation opens without acceptance** (messaging_acceptance).
  `authorization.types.ts:96-97` says "only recipient acceptance changes state to
  ACTIVE". `canSendMessage` looks for a PENDING request only, so one that was
  declined or cancelled opens the conversation to both: the trace is a request, its
  decline or cancellation, and a second message.
- **Two ACTIVE signed prekeys** (keys_two_active).
  `e2ee-keys.repository.ts:114-116` says a device "never has more than one ACTIVE
  signed prekey at a time". Retiring and inserting are two statements without a
  transaction: two publications retire, then both insert. `findActiveSignedPrekey`
  takes the newest, so fetches still agree on one. It takes publications that overlap
  (`TwoActiveOnlyIfCrossed` in keys).
- **A key without a time to live** (ephemeral_ttl). `redis.service.ts:4-5` says every
  key "must carry a TTL". `consume` counts first and sets the TTL in a second
  command, once: when that fails, the counter is never reset and its caller is
  refused for ever past the limit. Without failures windows end (`WindowEnds`).

## 8. Observations without a run

- `markFailed` compares the attempt count before its own increment, so an event is
  tried once more than `maxAttempts` names; stale counts add more.
- A row that backs off is overtaken by newer ones: "oldest first so a backlog drains
  in order" (`outbox-events.repository.ts:62-63`) is true of due rows only. Clients
  order by sequence number.
- A client that repeats a create whose reply was lost is told `isNew = false`
  although the stored Welcome is its own.
- With overlapping publications the identity key may be replaced between the check
  of a signature and the insert of the prekey (`AcceptedUnlessCrossed` allows just that).
- `message.new` goes to the recipient's channel alone. Another client of the sender
  hears nothing of a message sent from this one, until the next message the person
  receives, or the next connection, makes it synchronise; `CatchesUp` promises no
  more. A client that files its own message, whose number the reply tells it, above a gap
  must not ask from there (`NoHoles` is about what its synchronisations gave it).
- A socket that closes during its handshake is registered afterwards and stays in
  the registry; emits to it do nothing.
- A presence key that expired is not brought back by heartbeats (EXPIRE does nothing
  without a key), only by the next connection.
- A heartbeat does not look at the device again, so revoking a device ends no
  connection.
- A person who enters the scope of somebody in the middle of that walk may be shown
  by neither of its phases: the first is past them, the second leaves out the scope.
- A decision may use a projection that is minutes older than the relationship lists
  read after it: seven attempts of 45 s and 63 s of delays lie between at worst.
- An entry made by `cached` expires five seconds after its question; one made by the
  batch five seconds after its answer, so what it says may be fifty seconds old. A
  slow miss overwrites an entry that is newer.
- The list is "cursor-paginated by (updated_at, id)" (`conversations.repository.ts:164`),
  but the cursor's time is a Date: conversations of one millisecond on the two
  sides of a page's end may be skipped. `ListedOnce` and `EveryWelcomeDelivered`
  leave such ties out.
- `getById` always answers `ownLastReadSequence` 0; `get` and `updateLastRead` of the
  read state have no callers.
- The socket and REST answer a receipt with the number that was reported, not with
  the one that is stored; a number beyond the log is stored. A receipt over REST
  is told to nobody else.
- `register` awaits an audit record on a second connection while its transaction holds
  one, and the record of a revocation stays when that transaction rolls back.
