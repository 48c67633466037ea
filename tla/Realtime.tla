------------------------------ MODULE Realtime ------------------------------
(***************************************************************************)
(* Realtime delivery to the sockets of one person: the WebSocket gateway,  *)
(* the connection registry and the Redis subscriber of every instance, and *)
(* the sync.request with which a client catches up.  The registry, the     *)
(* channel and the log are keyed by person, so one person stands for all.  *)
(*                                                                         *)
(* A message is its sequence number in the person's conversation, which    *)
(* Messaging shows to be gapless; the person received it or sent it from   *)
(* some client.  message.new goes to the recipient's channel alone and     *)
(* carries the number and not the message, so it only tells a client to    *)
(* ask; the client, which is not in the repository, does what the protocol *)
(* expects of it.                                                          *)
(***************************************************************************)
EXTENDS Naturals

CONSTANTS
  Client,       \* installed clients of the person
  Socket,       \* connections ever made; a reconnect is a new one
  Instance,     \* processes of the service
  SyncLimit,    \* rows of one sync.response, 200 in the gateway
  MaxMessages,  \* bound on the messages committed
  MaxFaults     \* bound on lost subscriptions, failed reads and restarts

ASSUME RealtimeAssumption ==
  /\ SyncLimit \in Nat \ {0}
  /\ MaxMessages \in Nat
  /\ MaxFaults \in Nat

VARIABLES
  conn,        \* per socket: handleConnection's progress and the client's end
  registry,    \* per instance: socketsByPerson.get(personId)
  subscribed,  \* per instance: psubscribe('ws:user:*') is in force
  inbox,       \* per instance: published events its subscriber has not handled
  committed,   \* sequence number of the last committed message
  sent,        \* those of them that the person sent
  published,   \* messages published on the person's channel at least once
  held,        \* per client: messages it has stored
  faults

realtimeVars ==
  <<conn, registry, subscribed, inbox, committed, sent, published, held, faults>>

\* What the connection is waiting for: verifyToken, findById, touchLastSeen,
\* markOnline; ready once sync.required went out.
ConnPc == {"unused", "verify", "device", "touch", "online", "ready", "rejected", "gone"}

\* want: the client was told of something and has not asked since.
\* sync, after, answer: its sync.request, afterSequence and the rows read.
\* steady (history): the instance has been subscribed since registry.add.
Conn ==
  [pc : ConnPc, client : Client, at : Instance, open : BOOLEAN, steady : BOOLEAN,
   want : BOOLEAN, sync : {"none", "asked", "read"}, after : Nat, answer : SUBSET Nat]

RealtimeTypeOK ==
  /\ conn \in [Socket -> Conn]
  /\ registry \in [Instance -> SUBSET Socket]
  /\ subscribed \in [Instance -> BOOLEAN]
  /\ committed \in 0..MaxMessages
  /\ sent \in SUBSET (1..committed)
  /\ published \in SUBSET (1..committed)
  /\ inbox \in [Instance -> SUBSET published]
  /\ held \in [Client -> SUBSET (1..committed)]
  /\ faults \in 0..MaxFaults

\* client.data is set and registry.add was called.
Admitted(s) == conn[s].pc \in {"online", "ready"}

\* A connection whose socket closed, with the client's end forgotten.
Closed(r) ==
  [r EXCEPT !.open = FALSE, !.steady = FALSE, !.want = FALSE,
            !.sync = "none", !.after = 0, !.answer = {}]

-----------------------------------------------------------------------------
\* Connecting

Connect(s) ==
  /\ conn[s].pc = "unused"
  /\ conn' = [conn EXCEPT ![s].pc = "verify", ![s].open = TRUE]
  /\ UNCHANGED <<registry, subscribed, inbox, committed, sent, published, held, faults>>

\* registry.add
Added(s, set) == set \union {s}

\* client.data and registry.add, in the same turn as the end of the await,
\* whether or not the socket is still open.
Admit(s) ==
  /\ conn' = [conn EXCEPT ![s].pc = "online",
                          ![s].steady = conn[s].open /\ subscribed[conn[s].at]]
  /\ registry' = [registry EXCEPT ![conn[s].at] = Added(s, @)]
  /\ UNCHANGED <<subscribed, inbox, committed, sent, published, held, faults>>

\* One of the checks fails or throws: an error, then disconnect(true), whose
\* handleDisconnect finds no client.data.
Reject(s) ==
  /\ conn[s].pc \in {"verify", "device", "touch"}
  /\ conn' = [conn EXCEPT ![s] = [Closed(@) EXCEPT !.pc = "rejected"]]
  /\ UNCHANGED <<registry, subscribed, inbox, committed, sent, published, held, faults>>

\* verifyToken; a handshake without a device id is admitted at once.
Verified(s) ==
  /\ conn[s].pc = "verify"
  /\ \/ /\ conn' = [conn EXCEPT ![s].pc = "device"]
        /\ UNCHANGED <<registry, subscribed, inbox, committed, sent, published, held, faults>>
     \/ Admit(s)

\* findById returns an ACTIVE device of the person.
DeviceFound(s) ==
  /\ conn[s].pc = "device"
  /\ conn' = [conn EXCEPT ![s].pc = "touch"]
  /\ UNCHANGED <<registry, subscribed, inbox, committed, sent, published, held, faults>>

\* touchLastSeen
Touched(s) == conn[s].pc = "touch" /\ Admit(s)

\* (Mutant of Told: nothing asks a fresh connection to synchronise.)
ToldNothing(s) == conn[s].want

\* What the client knows after an emit, if its socket is still there.
Told(s) == conn[s].want \/ conn[s].open

\* markOnline, which never throws, then sync.required.
MarkedOnline(s) ==
  /\ conn[s].pc = "online"
  /\ conn' = [conn EXCEPT ![s].pc = "ready", ![s].want = Told(s)]
  /\ UNCHANGED <<registry, subscribed, inbox, committed, sent, published, held, faults>>

\* (Mutant of Removed: the person's entry is deleted with its first socket.)
RemovedAll(s, set) == {}

\* registry.remove
Removed(s, set) == set \ {s}

\* The socket closes: handleDisconnect.  A handshake in progress goes on.
Disconnect(s) ==
  /\ conn[s].open
  /\ conn' = [conn EXCEPT ![s] = Closed(@)]
  /\ registry' = IF Admitted(s)
                   THEN [registry EXCEPT ![conn[s].at] = Removed(s, @)]
                   ELSE registry
  /\ UNCHANGED <<subscribed, inbox, committed, sent, published, held, faults>>

-----------------------------------------------------------------------------
\* Fan-out

\* MessagesService.send commits a message, of the person or to the person, and
\* its outbox row.
Commit ==
  /\ committed < MaxMessages
  /\ committed' = committed + 1
  /\ sent' \in {sent, sent \union {committed + 1}}
  /\ UNCHANGED <<conn, registry, subscribed, inbox, published, held, faults>>

\* The messages whose recipient the person is.
Received == (1..committed) \ sent

\* processMessageCreated publishes to recipientPersonId, once or, after a failed
\* attempt, again.  A message the person sent goes to somebody else's channel.
Publish(n) ==
  /\ n \in Received
  /\ published' = published \union {n}
  /\ inbox' = [i \in Instance |->
                 IF subscribed[i] THEN inbox[i] \union {n} ELSE inbox[i]]
  /\ UNCHANGED <<conn, registry, subscribed, committed, sent, held, faults>>

\* Who hears of message n on instance i and has a reason to ask.
Hears(s, i, n) == s \in registry[i] /\ conn[s].open /\ n \notin held[conn[s].client]

\* on('pmessage'): deliverToLocalSockets.
Deliver(i, n) ==
  /\ n \in inbox[i]
  /\ inbox' = [inbox EXCEPT ![i] = @ \ {n}]
  /\ conn' = [s \in Socket |->
                [conn[s] EXCEPT !.want = @ \/ Hears(s, i, n)]]
  /\ UNCHANGED <<registry, subscribed, committed, sent, published, held, faults>>

\* on('ready'), or the first attempt of onModuleInit.
Subscribe(i) ==
  /\ ~subscribed[i]
  /\ subscribed' = [subscribed EXCEPT ![i] = TRUE]
  /\ UNCHANGED <<conn, registry, inbox, committed, sent, published, held, faults>>

\* The subscriber's connection to Redis breaks; what was on its way is lost.
LoseSubscription(i) ==
  /\ subscribed[i]
  /\ faults < MaxFaults
  /\ faults' = faults + 1
  /\ subscribed' = [subscribed EXCEPT ![i] = FALSE]
  /\ inbox' = [inbox EXCEPT ![i] = {}]
  /\ conn' = [s \in Socket |->
                [conn[s] EXCEPT !.steady = @ /\ conn[s].at # i]]
  /\ UNCHANGED <<registry, committed, sent, published, held>>

\* The process dies and starts again: everything it kept is gone.
Restart(i) ==
  /\ faults < MaxFaults
  /\ faults' = faults + 1
  /\ registry' = [registry EXCEPT ![i] = {}]
  /\ subscribed' = [subscribed EXCEPT ![i] = FALSE]
  /\ inbox' = [inbox EXCEPT ![i] = {}]
  /\ conn' = [s \in Socket |->
                IF conn[s].at = i /\ conn[s].pc # "unused"
                  THEN [Closed(conn[s]) EXCEPT !.pc = "gone"]
                  ELSE conn[s]]
  /\ UNCHANGED <<committed, sent, published, held>>

-----------------------------------------------------------------------------
\* Catching up

\* The client's sync.request from the last message it has.
Ask(s) ==
  /\ conn[s].open /\ Admitted(s)
  /\ conn[s].want /\ conn[s].sync = "none"
  /\ \E a \in held[conn[s].client] \union {0} :
       /\ \A n \in held[conn[s].client] : n <= a
       /\ conn' = [conn EXCEPT ![s].want = FALSE, ![s].sync = "asked", ![s].after = a]
  /\ UNCHANGED <<registry, subscribed, inbox, committed, sent, published, held, faults>>

\* (Mutant of RowsAfter: the newest rows instead of the oldest.)
NewestAfter(a) == {n \in (a + 1)..committed : n + SyncLimit > committed}

\* findAfterSequence: ascending, at most SyncLimit rows of a gapless log.
RowsAfter(a) == {n \in (a + 1)..committed : n <= a + SyncLimit}

\* onSyncRequest: access is checked, then the rows are read.
SyncRead(s) ==
  /\ conn[s].open /\ conn[s].sync = "asked"
  /\ conn' = [conn EXCEPT ![s].sync = "read", ![s].answer = RowsAfter(conn[s].after)]
  /\ UNCHANGED <<registry, subscribed, inbox, committed, sent, published, held, faults>>

\* A query fails: emitError, and the client asks again.
SyncFails(s) ==
  /\ conn[s].open /\ conn[s].sync = "asked"
  /\ faults < MaxFaults
  /\ faults' = faults + 1
  /\ conn' = [conn EXCEPT ![s].sync = "none", ![s].want = TRUE]
  /\ UNCHANGED <<registry, subscribed, inbox, committed, sent, published, held>>

Full(s) == conn[s].after + SyncLimit \in conn[s].answer

\* sync.response arrives; after a full page the client asks for the next.
SyncAnswered(s) ==
  /\ conn[s].open /\ conn[s].sync = "read"
  /\ held' = [held EXCEPT ![conn[s].client] = @ \union conn[s].answer]
  /\ conn' = [conn EXCEPT ![s].sync = "none", ![s].after = 0, ![s].answer = {},
                          ![s].want = @ \/ Full(s)]
  /\ UNCHANGED <<registry, subscribed, inbox, committed, sent, published, faults>>

-----------------------------------------------------------------------------
\* Which client makes a connection and where it is routed is chosen beforehand.
Unconnected(c, i) ==
  [pc |-> "unused", client |-> c, at |-> i, open |-> FALSE, steady |-> FALSE,
   want |-> FALSE, sync |-> "none", after |-> 0, answer |-> {}]

RealtimeInit ==
  /\ conn \in [Socket -> {Unconnected(c, i) : c \in Client, i \in Instance}]
  /\ registry = [i \in Instance |-> {}]
  /\ subscribed = [i \in Instance |-> FALSE]
  /\ inbox = [i \in Instance |-> {}]
  /\ committed = 0
  /\ sent = {}
  /\ published = {}
  /\ held = [c \in Client |-> {}]
  /\ faults = 0

HandshakeStep(s) ==
  Verified(s) \/ DeviceFound(s) \/ Touched(s) \/ MarkedOnline(s)

RealtimeNext ==
  \/ \E s \in Socket :
       \/ Connect(s)
       \/ HandshakeStep(s)
       \/ Reject(s)
       \/ Disconnect(s)
       \/ Ask(s)
       \/ SyncRead(s)
       \/ SyncFails(s)
       \/ SyncAnswered(s)
  \/ Commit
  \/ \E n \in Received : Publish(n)
  \/ \E i \in Instance :
       \/ \E n \in inbox[i] : Deliver(i, n)
       \/ Subscribe(i)
       \/ LoseSubscription(i)
       \/ Restart(i)

RealtimeSpec == RealtimeInit /\ [][RealtimeNext]_realtimeVars

\* What the processes and the network do is fair: a handshake's queries end,
\* the outbox publishes every event (Outbox!EventuallySettled), Redis hands
\* over what it took, the subscriber is subscribed again on every 'ready',
\* and a client that was told something asks.
RealtimeFairness ==
  /\ \A s \in Socket :
       /\ WF_realtimeVars(HandshakeStep(s))
       /\ WF_realtimeVars(Ask(s))
       /\ WF_realtimeVars(SyncRead(s))
       /\ WF_realtimeVars(SyncAnswered(s))
  /\ \A n \in 1..MaxMessages : WF_realtimeVars(n \notin published /\ Publish(n))
  /\ \A i \in Instance :
       /\ WF_realtimeVars(Subscribe(i))
       /\ \A n \in 1..MaxMessages : WF_realtimeVars(Deliver(i, n))

RealtimeFairSpec == RealtimeSpec /\ RealtimeFairness

-----------------------------------------------------------------------------
\* Properties

\* A socket that went through the whole handshake and is still there.
Live(s) == conn[s].open /\ conn[s].pc = "ready"

\* The registry finds every admitted socket that is open, on its instance and
\* on no other, whatever sockets of the person came and went around it
\* (ConnectionRegistryService.remove deletes an entry only when it is empty).
EveryLiveSocketIsFound ==
  \A s \in Socket :
    /\ conn[s].open /\ Admitted(s) => s \in registry[conn[s].at]
    /\ \A i \in Instance : s \in registry[i] => i = conn[s].at

\* Message n will reach the client of s without anything new happening: it is
\* there, or on its way, or the client will ask and the rows will include it.
OnItsWay(s, n) ==
  \/ n \in held[conn[s].client]
  \/ conn[s].want
  \/ conn[s].sync = "asked"
  \/ conn[s].sync = "read" /\ (n \in conn[s].answer \/ Full(s))
  \/ n \in inbox[conn[s].at]

\* A message published to the person is never missed by a socket that finished
\* its handshake on an instance whose subscription held since: because
\* handleConnection registers the socket before it tells the client to synchronise, and a
\* client that hears of a message during its sync asks again.
NothingMissed ==
  \A s \in Socket : Live(s) /\ conn[s].steady =>
    \A n \in published : OnItsWay(s, n)

\* A client's store has no hole below its newest message, however its sockets'
\* answers cross each other and the commits: afterSequence, the newest number
\* it has, is enough to resume from (findAfterSequence's order and limit).
NoHoles ==
  \A c \in Client : \A n \in held[c] : \A k \in 1..n : k \in held[c]

\* What a sync.request in flight rests on: it resumes from a message the
\* client has, and the rows read follow it without a gap.
RequestsResume ==
  \A s \in Socket :
    /\ conn[s].after # 0 => conn[s].after \in held[conn[s].client]
    /\ conn[s].sync # "read" => conn[s].answer = {}
    /\ \A n \in conn[s].answer :
         /\ conn[s].after < n /\ n <= committed
         /\ \A k \in (conn[s].after + 1)..n : k \in conn[s].answer

SteadyIsSubscribed ==
  \A s \in Socket :
    conn[s].steady => subscribed[conn[s].at] /\ conn[s].pc # "unused"

\* Inductive: NothingMissed survives Publish because a steady socket's instance
\* is subscribed, Deliver because the registry finds the socket, and SyncRead
\* because nothing below afterSequence is missing (findAfterSequence).
RealtimeInv ==
  /\ RealtimeTypeOK
  /\ EveryLiveSocketIsFound
  /\ NoHoles
  /\ RequestsResume
  /\ SteadyIsSubscribed
  /\ NothingMissed

\* A client that keeps a connection ends up with every message the person
\* received, even when only its first sync.request tells it of them, and with
\* whatever the person sent in between.  (Of what the person sent last from
\* another client it is told nothing: that goes to the recipient's channel.)
CatchesUp ==
  \A c \in Client :
    <>[](\E s \in Socket : conn[s].client = c /\ Live(s) /\ conn[s].steady)
      => <>[](Received \subseteq held[c])

=============================================================================
