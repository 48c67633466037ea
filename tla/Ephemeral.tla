----------------------------- MODULE Ephemeral -----------------------------
(***************************************************************************)
(* What the service keeps in Redis under a time to live: the presence key  *)
(* of one person (PresenceService, driven by the gateway's connections and *)
(* heartbeats) and the counter of one rate limit (RateLimitService), which *)
(* all instances share.                                                    *)
(*                                                                         *)
(* Time passes in Ticks.  A key is [value, ttl]: value 0 is no key, ttl 0  *)
(* a key that never expires.                                               *)
(***************************************************************************)
EXTENDS Naturals, FiniteSets

CONSTANTS
  Socket,       \* connections of the person, on any instance
  Call,         \* executions of consume in flight
  PresenceTtl,  \* PRESENCE_TTL_SECONDS
  Heartbeat,    \* the longest a client waits between two pings
  Window,       \* windowSeconds
  Limit,        \* limit
  MaxFaults     \* bound on failures of Redis and on process deaths

ASSUME EphemeralAssumption ==
  /\ PresenceTtl \in Nat /\ Heartbeat \in Nat \ {0} /\ Heartbeat < PresenceTtl
  /\ Window \in Nat \ {0}
  /\ Limit \in Nat \ {0}
  /\ MaxFaults \in Nat

VARIABLES
  presence,  \* presence:user:<person>
  link,      \* per socket: off, waiting for markOnline, on, or closed while
             \* it waits
  beat,      \* per socket: Ticks since it last pinged
  counter,   \* ratelimit:<dimension>:<key>
  pending,   \* calls that have counted and wait for EXPIRE
  granted,   \* history: the calls let through by their count in the last
             \* a + 1 Ticks, for each a
  faults

ephemeralVars == <<presence, link, beat, counter, pending, granted, faults>>

NoEntry == [value |-> 0, ttl |-> 0]
Ages == 0..(Window - 1)

EphemeralTypeOK ==
  /\ presence \in [value : {0, 1}, ttl : 0..PresenceTtl]
  /\ link \in [Socket -> {"off", "marking", "on", "leaving"}]
  /\ beat \in [Socket -> 0..Heartbeat]
  /\ counter \in [value : 0..(Limit + 1), ttl : 0..Window]
  /\ pending \subseteq Call
  /\ granted \in [Ages -> Nat]
  /\ faults \in 0..MaxFaults

Connected(s) == link[s] = "on"

Fault == faults < MaxFaults /\ faults' = faults + 1

\* (Mutant of SetEx: SET without EX.)
SetForever(ttl) == [value |-> 1, ttl |-> 0]

\* SET key 1 EX ttl
SetEx(ttl) == [value |-> 1, ttl |-> ttl]

\* EXPIRE key ttl, which does nothing when there is no key.
Expired(k, ttl) == IF k.value = 0 THEN k ELSE [k EXCEPT !.ttl = ttl]

\* INCR key, which creates the key without a time to live.
Incremented(k) == [k EXCEPT !.value = @ + 1]

\* A key one Tick later.
Aged(k) ==
  IF k.ttl = 0 THEN k
  ELSE IF k.ttl = 1 THEN NoEntry
  ELSE [k EXCEPT !.ttl = @ - 1]

-----------------------------------------------------------------------------
\* Presence

\* handleConnection calls markOnline.
Connect(s) ==
  /\ link[s] = "off"
  /\ link' = [link EXCEPT ![s] = "marking"]
  /\ UNCHANGED <<presence, beat, counter, pending, granted, faults>>

\* The end of markOnline, which a socket may not have waited for.
Marked(s) ==
  /\ link[s] \in {"marking", "leaving"}
  /\ link' = [link EXCEPT ![s] = IF @ = "marking" THEN "on" ELSE "off"]

\* markOnline
MarkOnline(s) ==
  /\ Marked(s)
  /\ presence' = SetEx(PresenceTtl)
  /\ UNCHANGED <<beat, counter, pending, granted, faults>>

\* Redis fails, the connection stands.
MarkOnlineFails(s) ==
  /\ Marked(s)
  /\ Fault
  /\ UNCHANGED <<presence, beat, counter, pending, granted>>

\* onPing calls refresh.
Ping(s) ==
  /\ Connected(s)
  /\ beat' = [beat EXCEPT ![s] = 0]
  /\ presence' = Expired(presence, PresenceTtl)
  /\ UNCHANGED <<link, counter, pending, granted, faults>>

PingFails(s) ==
  /\ Connected(s)
  /\ beat' = [beat EXCEPT ![s] = 0]
  /\ Fault
  /\ UNCHANGED <<link, presence, counter, pending, granted>>

\* (Mutant of AfterDisconnect: a disconnect marks the person offline.)
MarkedOffline == NoEntry

\* handleDisconnect leaves the key to its time to live.
AfterDisconnect == presence

Disconnect(s) ==
  /\ link[s] \in {"marking", "on"}
  /\ link' = [link EXCEPT ![s] = IF @ = "marking" THEN "leaving" ELSE "off"]
  /\ beat' = [beat EXCEPT ![s] = 0]
  /\ presence' = AfterDisconnect
  /\ UNCHANGED <<counter, pending, granted, faults>>

-----------------------------------------------------------------------------
\* Rate limit

\* (Mutant of WithinLimit: one call too many.)
BelowNextLimit(count) == count <= Limit + 1

\* What consume answers to a count.
WithinLimit(count) == count <= Limit

\* (Mutant of StartsWindow: the first call is not the one that starts it.)
StartsLate(count) == count = 2

\* The counts on which consume calls EXPIRE.
StartsWindow(count) == count = 1

Grant == granted' = [a \in Ages |-> granted[a] + 1]

\* consume: INCR; the first call of a window waits for EXPIRE, the others
\* are answered.
Count(c) ==
  /\ c \notin pending
  /\ counter.value <= Limit  \* bound: higher counts are all refused alike
  /\ counter' = Incremented(counter)
  /\ IF StartsWindow(counter'.value)
       THEN pending' = pending \union {c} /\ UNCHANGED granted
       ELSE /\ UNCHANGED pending
            /\ IF WithinLimit(counter'.value) THEN Grant ELSE UNCHANGED granted
  /\ UNCHANGED <<presence, link, beat, faults>>

\* Redis fails, with or without having counted: consume lets the call through.
CountFails(c) ==
  /\ c \notin pending
  /\ counter.value <= Limit  \* bound: higher counts are all refused alike
  /\ counter' \in {counter, Incremented(counter)}
  /\ Fault
  /\ UNCHANGED <<presence, link, beat, pending, granted>>

\* consume: EXPIRE, and the answer to the first count of the window.
StartWindow(c) ==
  /\ c \in pending
  /\ pending' = pending \ {c}
  /\ counter' = Expired(counter, Window)
  /\ Grant
  /\ UNCHANGED <<presence, link, beat, faults>>

\* EXPIRE fails and the call is let through, or its process dies before it.
StartWindowFails(c) ==
  /\ c \in pending
  /\ pending' = pending \ {c}
  /\ Fault
  /\ \/ Grant
     \/ UNCHANGED granted
  /\ UNCHANGED <<presence, link, beat, counter>>

-----------------------------------------------------------------------------
\* Redis loses what it has.
RedisRestart ==
  /\ Fault
  /\ presence' = NoEntry
  /\ counter' = NoEntry
  /\ UNCHANGED <<link, beat, pending, granted>>

\* Time passes, but not past the moment a connected client has to ping.
Tick ==
  /\ \A s \in Socket : beat[s] # Heartbeat
  /\ beat' = [s \in Socket |-> IF Connected(s) THEN beat[s] + 1 ELSE beat[s]]
  /\ presence' = Aged(presence)
  /\ counter' = Aged(counter)
  /\ granted' = [a \in Ages |-> IF a = 0 THEN 0 ELSE granted[a - 1]]
  /\ UNCHANGED <<link, pending, faults>>

EphemeralInit ==
  /\ presence = NoEntry
  /\ link = [s \in Socket |-> "off"]
  /\ beat = [s \in Socket |-> 0]
  /\ counter = NoEntry
  /\ pending = {}
  /\ granted = [a \in Ages |-> 0]
  /\ faults = 0

EphemeralNext ==
  \/ \E s \in Socket :
       \/ Connect(s)
       \/ MarkOnline(s)
       \/ MarkOnlineFails(s)
       \/ Ping(s)
       \/ PingFails(s)
       \/ Disconnect(s)
  \/ \E c \in Call :
       \/ Count(c)
       \/ CountFails(c)
       \/ StartWindow(c)
       \/ StartWindowFails(c)
  \/ RedisRestart
  \/ Tick

EphemeralSpec == EphemeralInit /\ [][EphemeralNext]_ephemeralVars

\* Time passes, clients ping and commands sent to Redis end.
EphemeralFairSpec ==
  /\ EphemeralSpec
  /\ WF_ephemeralVars(Tick)
  /\ \A s \in Socket : WF_ephemeralVars(beat[s] = Heartbeat /\ Ping(s))
  /\ \A c \in Call : WF_ephemeralVars(StartWindow(c))

-----------------------------------------------------------------------------
\* Properties

\* While Redis answers, a person with a connection that pings in time is
\* online, also when other connections of theirs, on any instance, close:
\* handleDisconnect must not end what another connection keeps up.
OnlineWhileConnected ==
  faults = 0 => \A s \in Socket : Connected(s) => presence.value = 1

\* A person without connections goes offline without anybody saying so
\* (presence.service.ts:3-5), also when the last markOnline came late.
OfflineInTheEnd ==
  <>[](\A s \in Socket : link[s] = "off") => <>[](presence.value = 0)

\* A fixed window lets through at most twice its limit in any period of its
\* length, whichever calls of any instance race at its edges; a restart of
\* Redis or a failed EXPIRE adds at most one limit.
BurstBounded ==
  granted[Window - 1] <= (2 + faults) * Limit

\* Without failures every window ends: nobody is refused for ever.
WindowEnds == [](faults = 0) => []<>(counter.value = 0)

\* redis.service.ts: "Every key this service's callers write must carry a TTL
\* - nothing here is meant to live forever."  The counter has one, or a call
\* is about to give it one.
EveryKeyExpires ==
  counter.value > 0 => counter.ttl > 0 \/ pending # {}

\* The inductive invariants behind OnlineWhileConnected: while Redis answers, what the key
\* has left covers the time a connected client may still wait before it pings.
KeyCoversPings ==
  /\ \A s \in Socket : ~Connected(s) => beat[s] = 0
  /\ faults = 0 =>
       \A s \in Socket :
         Connected(s) => presence.value = 1 /\ presence.ttl + beat[s] >= PresenceTtl

\* And behind BurstBounded.  The calls that a window has still to let through are those that
\* wait for EXPIRE and those its count leaves room for.  With those let through since it
\* began they are one limit, and one more for every fault; with those of the last Window
\* Ticks two.  A call waits for an EXPIRE of a window that is over only after a fault.
Waiting == Cardinality(pending)
Room == IF counter.value <= Limit THEN Limit - counter.value ELSE 0
ToLetThrough == Waiting + Room

BurstInv ==
  /\ IsFiniteSet(pending)
  /\ \A a, b \in Ages : a <= b => granted[a] <= granted[b]
  /\ counter.value = 0 => counter.ttl = 0
  /\ Waiting <= 1 + faults
  /\ counter.value = 0 \/ counter.ttl > 0 => Waiting <= faults
  /\ granted[0] + ToLetThrough <= (1 + faults) * Limit
  /\ counter.ttl > 0 =>
       granted[Window - counter.ttl] + ToLetThrough <= (1 + faults) * Limit
  /\ granted[Window - 1] + ToLetThrough <= (2 + faults) * Limit

EphemeralInv == EphemeralTypeOK /\ KeyCoversPings /\ BurstInv

=============================================================================
