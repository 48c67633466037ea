-------------------------- MODULE EphemeralProofs --------------------------
(***************************************************************************)
(* Proofs about Ephemeral: the presence key and the rate limit, for any    *)
(* sockets, calls, limits, windows, times to live and number of faults.    *)
(***************************************************************************)
EXTENDS Ephemeral, FiniteSetTheorems, TLAPS

----------------------------------------------------------------------------
(* The operators on keys.                                                   *)

\* What EXPIRE, INCR and a Tick make of a key.
LEMMA KeyOperators ==
  ASSUME NEW k \in [value : Nat, ttl : Nat], NEW t
  PROVE  /\ Expired(k, t) = [value |-> k.value, ttl |-> IF k.value = 0 THEN k.ttl ELSE t]
         /\ Incremented(k) = [value |-> k.value + 1, ttl |-> k.ttl]
         /\ Aged(k) = IF k.ttl = 0 THEN k
                      ELSE [value |-> IF k.ttl = 1 THEN 0 ELSE k.value,
                            ttl |-> IF k.ttl = 1 THEN 0 ELSE k.ttl - 1]
<1>1. k = [value |-> k.value, ttl |-> k.ttl] OBVIOUS
<1>2. [k EXCEPT !.ttl = t] = [value |-> k.value, ttl |-> t] OBVIOUS
<1>3. [k EXCEPT !.value = @ + 1] = [value |-> k.value + 1, ttl |-> k.ttl] OBVIOUS
<1>4. [k EXCEPT !.ttl = @ - 1] = [value |-> k.value, ttl |-> k.ttl - 1] OBVIOUS
<1>5. Expired(k, t) = [value |-> k.value, ttl |-> IF k.value = 0 THEN k.ttl ELSE t]
  <2>1. CASE k.value = 0 BY <1>1, <2>1 DEF Expired
  <2>2. CASE k.value # 0 BY <1>2, <2>2 DEF Expired
  <2> QED BY <2>1, <2>2
<1>6. Aged(k) = IF k.ttl = 0 THEN k
                ELSE [value |-> IF k.ttl = 1 THEN 0 ELSE k.value,
                      ttl |-> IF k.ttl = 1 THEN 0 ELSE k.ttl - 1]
  <2>1. CASE k.ttl = 0 BY <2>1 DEF Aged
  <2>2. CASE k.ttl = 1 BY <2>2 DEF Aged, NoEntry
  <2>3. CASE k.ttl # 0 /\ k.ttl # 1 BY <1>4, <2>3 DEF Aged
  <2> QED BY <2>1, <2>2, <2>3
<1> QED BY <1>3, <1>5, <1>6 DEF Incremented

----------------------------------------------------------------------------
(* Presence.                                                                *)

PresenceTypeOK ==
  /\ presence \in [value : {0, 1}, ttl : 0..PresenceTtl]
  /\ link \in [Socket -> {"off", "marking", "on", "leaving"}]
  /\ beat \in [Socket -> 0..Heartbeat]
  /\ faults \in 0..MaxFaults


\* The types of what a step leaves of the presence key and the clocks of the pings, and what
\* it says of the sockets that are not connected.
LEMMA FailureCovers ==
  ASSUME PresenceTypeOK, KeyCoversPings, Fault,
         presence' \in {presence, NoEntry}, beat' \in [Socket -> 0..Heartbeat],
         link' \in [Socket -> {"off", "marking", "on", "leaving"}],
         \A s \in Socket : ~Connected(s)' => beat'[s] = 0
  PROVE  PresenceTypeOK' /\ KeyCoversPings'
<1>1. faults' \in 0..MaxFaults /\ faults' # 0
  BY EphemeralAssumption DEF Fault, PresenceTypeOK
<1>2. presence' \in [value : {0, 1}, ttl : 0..PresenceTtl]
  BY EphemeralAssumption DEF PresenceTypeOK, NoEntry
<1> QED BY <1>1, <1>2 DEF PresenceTypeOK, KeyCoversPings

\* A socket whose markOnline ends is not connected before and has no clock running.
LEMMA MarkedSocket ==
  ASSUME PresenceTypeOK, KeyCoversPings, NEW s \in Socket, Marked(s), UNCHANGED beat
  PROVE  /\ link' \in [Socket -> {"off", "marking", "on", "leaving"}]
         /\ \A r \in Socket : ~Connected(r)' => beat'[r] = 0
         /\ \A r \in Socket : Connected(r)' => Connected(r) \/ beat'[r] = 0
<1>1. link \in [Socket -> {"off", "marking", "on", "leaving"}] BY DEF PresenceTypeOK
<1>2. link' \in [Socket -> {"off", "marking", "on", "leaving"}] BY <1>1 DEF Marked
<1>3. \A r \in Socket : r # s => link'[r] = link[r] BY <1>1 DEF Marked
<1>4. beat'[s] = 0 BY DEF Marked, KeyCoversPings, Connected
<1> QED BY <1>2, <1>3, <1>4 DEF KeyCoversPings, Connected

\* SET EX gives the key its whole time to live, so it covers every connected socket.
LEMMA MarkOnlineCovers ==
  ASSUME PresenceTypeOK, KeyCoversPings, NEW s \in Socket, MarkOnline(s)
  PROVE  PresenceTypeOK' /\ KeyCoversPings'
<1>1. /\ link' \in [Socket -> {"off", "marking", "on", "leaving"}]
      /\ \A r \in Socket : ~Connected(r)' => beat'[r] = 0
  BY MarkedSocket DEF MarkOnline
<1>2. presence' = [value |-> 1, ttl |-> PresenceTtl] BY DEF MarkOnline, SetEx
<1>3. presence' \in [value : {0, 1}, ttl : 0..PresenceTtl]
  BY <1>2, EphemeralAssumption
<1>4. beat \in [Socket -> 0..Heartbeat] BY DEF PresenceTypeOK
<1>5. \A r \in Socket : PresenceTtl + beat[r] >= PresenceTtl
  BY <1>4, EphemeralAssumption
<1> QED BY <1>1, <1>2, <1>3, <1>5 DEF MarkOnline, PresenceTypeOK, KeyCoversPings

\* A heartbeat that Redis takes prolongs the key; without a fault it finds the key there.
LEMMA PingCovers ==
  ASSUME PresenceTypeOK, KeyCoversPings, NEW s \in Socket, Ping(s)
  PROVE  PresenceTypeOK' /\ KeyCoversPings'
<1>1. presence \in [value : {0, 1}, ttl : 0..PresenceTtl] /\ beat \in [Socket -> 0..Heartbeat]
  BY DEF PresenceTypeOK
<1>2. presence' = [value |-> presence.value,
                   ttl |-> IF presence.value = 0 THEN presence.ttl ELSE PresenceTtl]
  <2>1. presence \in [value : Nat, ttl : Nat] BY <1>1, EphemeralAssumption
  <2> QED BY <2>1, KeyOperators DEF Ping
<1>3. presence' \in [value : {0, 1}, ttl : 0..PresenceTtl]
  BY <1>1, <1>2, EphemeralAssumption
<1>4. beat' \in [Socket -> 0..Heartbeat] /\ \A r \in Socket : beat'[r] \in {0, beat[r]}
  BY <1>1, EphemeralAssumption DEF Ping
<1>5. PresenceTypeOK' BY <1>3, <1>4 DEF PresenceTypeOK, Ping
<1>6. ASSUME faults = 0 
      PROVE  presence'.value = 1 /\ \A r \in Socket : presence'.ttl + beat'[r] >= PresenceTtl
  <2>1. presence.value = 1 BY <1>6 DEF Ping, KeyCoversPings
  <2>2. presence'.value = 1 /\ presence'.ttl = PresenceTtl BY <1>2, <2>1
  <2> QED BY <1>4, <2>2, EphemeralAssumption
<1> QED BY <1>4, <1>5, <1>6 DEF Ping, KeyCoversPings, Connected

\* A disconnect leaves the key alone, so it covers the sockets that stay.
LEMMA DisconnectCovers ==
  ASSUME PresenceTypeOK, KeyCoversPings, NEW s \in Socket, Disconnect(s)
  PROVE  PresenceTypeOK' /\ KeyCoversPings'
<1>1. link \in [Socket -> {"off", "marking", "on", "leaving"}] /\ beat \in [Socket -> 0..Heartbeat]
  BY DEF PresenceTypeOK
<1>2. link' \in [Socket -> {"off", "marking", "on", "leaving"}] /\ beat' \in [Socket -> 0..Heartbeat]
  BY <1>1, EphemeralAssumption DEF Disconnect
<1>3. beat'[s] = 0 /\ link'[s] # "on" BY <1>1 DEF Disconnect
<1>4. \A r \in Socket : r # s => link'[r] = link[r] /\ beat'[r] = beat[r]
  BY <1>1 DEF Disconnect
<1>5. UNCHANGED <<presence, faults>> BY DEF Disconnect, AfterDisconnect
<1> QED BY <1>2, <1>3, <1>4, <1>5 DEF PresenceTypeOK, KeyCoversPings, Connected

\* No Tick passes a connected client's Heartbeat, and PresenceTtl is longer.
LEMMA TickCovers ==
  ASSUME PresenceTypeOK, KeyCoversPings, Tick PROVE PresenceTypeOK' /\ KeyCoversPings'
<1>1. presence \in [value : {0, 1}, ttl : 0..PresenceTtl] /\ beat \in [Socket -> 0..Heartbeat]
  BY DEF PresenceTypeOK
<1>2. presence' = IF presence.ttl = 0 THEN presence
                  ELSE [value |-> IF presence.ttl = 1 THEN 0 ELSE presence.value,
                        ttl |-> IF presence.ttl = 1 THEN 0 ELSE presence.ttl - 1]
  <2>1. presence \in [value : Nat, ttl : Nat] BY <1>1, EphemeralAssumption
  <2> QED BY <2>1, KeyOperators DEF Tick
<1>3. presence' \in [value : {0, 1}, ttl : 0..PresenceTtl]
  <2>1. CASE presence.ttl = 0 BY <1>1, <1>2, <2>1
  <2>2. CASE presence.ttl # 0 BY <1>1, <1>2, <2>2, EphemeralAssumption
  <2> QED BY <2>1, <2>2
<1>4. \A s \in Socket : /\ beat'[s] = IF Connected(s) THEN beat[s] + 1 ELSE beat[s]
                        /\ beat[s] # Heartbeat /\ beat[s] \in 0..Heartbeat
  BY <1>1 DEF Tick
<1>5. beat' \in [Socket -> 0..Heartbeat]
  <2>1. \A s \in Socket : beat'[s] \in 0..Heartbeat BY <1>4, EphemeralAssumption
  <2> QED BY <2>1 DEF Tick
<1>6. ASSUME faults = 0, NEW s \in Socket, Connected(s)
      PROVE  presence'.value = 1 /\ presence'.ttl + beat'[s] >= PresenceTtl
  <2>1. presence.value = 1 /\ presence.ttl + beat[s] >= PresenceTtl
    BY <1>6 DEF KeyCoversPings
  <2>2. beat[s] + 1 <= Heartbeat /\ beat'[s] = beat[s] + 1 BY <1>4, <1>6, EphemeralAssumption
  <2>3. PICK t \in 0..PresenceTtl : t = presence.ttl BY <1>1
  <2>4. PICK b \in 0..Heartbeat : b = beat[s] BY <1>1
  <2>5. t >= 2 BY <2>1, <2>2, <2>3, <2>4, EphemeralAssumption
  <2>6. presence'.value = 1 /\ presence'.ttl = t - 1 BY <1>2, <2>1, <2>3, <2>5
  <2> QED BY <2>1, <2>2, <2>3, <2>4, <2>6, EphemeralAssumption
<1>7. UNCHANGED <<link, faults>> BY DEF Tick
<1> QED BY <1>3, <1>4, <1>5, <1>6, <1>7 DEF PresenceTypeOK, KeyCoversPings, Connected

\* Steps of the rate limit leave presence alone; they may fail.
LEMMA OthersCover ==
  ASSUME PresenceTypeOK, KeyCoversPings, UNCHANGED <<presence, beat>>,
         \A s \in Socket : Connected(s)' = Connected(s),
         link' \in [Socket -> {"off", "marking", "on", "leaving"}],
         Fault \/ UNCHANGED faults
  PROVE  PresenceTypeOK' /\ KeyCoversPings'
<1>1. CASE Fault
  <2>1. \A s \in Socket : ~Connected(s)' => beat'[s] = 0 BY DEF KeyCoversPings
  <2> QED BY <1>1, <2>1, FailureCovers DEF PresenceTypeOK
<1>2. CASE UNCHANGED faults BY <1>2 DEF PresenceTypeOK, KeyCoversPings
<1> QED BY <1>1, <1>2

\* Every step keeps what presence knows of the key.
LEMMA PresenceStep ==
  ASSUME PresenceTypeOK, KeyCoversPings, [EphemeralNext]_ephemeralVars
  PROVE  PresenceTypeOK' /\ KeyCoversPings'
<1>1. /\ link \in [Socket -> {"off", "marking", "on", "leaving"}]
      /\ beat \in [Socket -> 0..Heartbeat]
      /\ \A s \in Socket : ~Connected(s) => beat[s] = 0
  BY DEF PresenceTypeOK, KeyCoversPings
<1>2. ASSUME NEW s \in Socket, Connect(s) PROVE PresenceTypeOK' /\ KeyCoversPings'
  <2>1. link' \in [Socket -> {"off", "marking", "on", "leaving"}]
        /\ \A r \in Socket : Connected(r)' = Connected(r)
    BY <1>1, <1>2 DEF Connect, Connected
  <2> QED BY <1>2, <2>1, OthersCover DEF Connect
<1>3. ASSUME NEW s \in Socket, MarkOnlineFails(s) PROVE PresenceTypeOK' /\ KeyCoversPings'
  <2>1. /\ link' \in [Socket -> {"off", "marking", "on", "leaving"}]
        /\ \A r \in Socket : ~Connected(r)' => beat'[r] = 0
    BY <1>3, MarkedSocket DEF MarkOnlineFails
  <2> QED BY <1>1, <1>3, <2>1, FailureCovers DEF MarkOnlineFails
<1>4. ASSUME NEW s \in Socket, PingFails(s) PROVE PresenceTypeOK' /\ KeyCoversPings'
  <2>1. /\ beat' \in [Socket -> 0..Heartbeat]
        /\ \A r \in Socket : ~Connected(r)' => beat'[r] = 0
    BY <1>1, <1>4, EphemeralAssumption DEF PingFails, Connected
  <2> QED BY <1>1, <1>4, <2>1, FailureCovers DEF PingFails
<1>5. CASE RedisRestart
  BY <1>1, <1>5, FailureCovers DEF RedisRestart, Connected
<1>6. CASE \E c \in Call : Count(c) \/ CountFails(c) \/ StartWindow(c) \/ StartWindowFails(c)
  <2>1. UNCHANGED <<presence, beat, link>> /\ (Fault \/ UNCHANGED faults)
    BY <1>6 DEF Count, CountFails, StartWindow, StartWindowFails
  <2> QED BY <1>1, <2>1, OthersCover DEF Connected
<1>7. CASE UNCHANGED ephemeralVars
  BY <1>1, <1>7, OthersCover DEF ephemeralVars, Connected
<1> QED BY <1>2, <1>3, <1>4, <1>5, <1>6, <1>7, MarkOnlineCovers, PingCovers, DisconnectCovers,
           TickCovers DEF EphemeralNext

PresenceInv == PresenceTypeOK /\ KeyCoversPings

\* PresenceInv is inductive: every connection keeps the key up for longer than it may wait,
\* whatever the person's other connections do.
THEOREM PresenceInvariance == EphemeralSpec => []PresenceInv
<1>1. EphemeralInit => PresenceInv
  BY EphemeralAssumption DEF EphemeralInit, PresenceInv, PresenceTypeOK, KeyCoversPings, NoEntry,
     Connected
<1>2. PresenceInv /\ [EphemeralNext]_ephemeralVars => PresenceInv'
  BY PresenceStep DEF PresenceInv
<1> QED BY <1>1, <1>2, PTL DEF EphemeralSpec

\* While Redis answers, a person with a connection that pings in time is online.
THEOREM ConnectedIsOnline == EphemeralSpec => []OnlineWhileConnected
<1>1. PresenceInv => OnlineWhileConnected BY DEF PresenceInv, KeyCoversPings, OnlineWhileConnected
<1> QED BY <1>1, PresenceInvariance, PTL

----------------------------------------------------------------------------
(* The rate limit.                                                          *)

CounterTypeOK ==
  /\ counter \in [value : 0..(Limit + 1), ttl : 0..Window]
  /\ granted \in [Ages -> Nat]
  /\ faults \in 0..MaxFaults

\* Limits add up.
LEMMA Limits ==
  ASSUME NEW f \in Nat
  PROVE  /\ f * Limit \in Nat /\ f <= f * Limit
         /\ (1 + f) * Limit = f * Limit + Limit
         /\ (2 + f) * Limit = f * Limit + 2 * Limit
         /\ (1 + (f + 1)) * Limit = f * Limit + 2 * Limit
         /\ (2 + (f + 1)) * Limit = f * Limit + 3 * Limit
<1>1. PICK m \in Nat : Limit = m + 1
  <2>1. Limit - 1 \in Nat /\ Limit = (Limit - 1) + 1 BY EphemeralAssumption
  <2> QED BY <2>1
<1>2. \A x, y \in Nat : x * y \in Nat OBVIOUS
<1>3. f * m \in Nat BY <1>1, <1>2
<1>4. f * Limit = f * m + f BY <1>1
<1>5. /\ (1 + f) * Limit = f * Limit + Limit
      /\ (2 + f) * Limit = f * Limit + 2 * Limit
      /\ (1 + (f + 1)) * Limit = f * Limit + 2 * Limit
      /\ (2 + (f + 1)) * Limit = f * Limit + 3 * Limit
  BY EphemeralAssumption
<1> QED BY <1>3, <1>4, <1>5, EphemeralAssumption

\* The calls that wait for EXPIRE are counted one by one.
LEMMA WaitingCounted ==
  ASSUME IsFiniteSet(pending)
  PROVE  /\ Waiting \in Nat
         /\ UNCHANGED pending => IsFiniteSet(pending') /\ Waiting' = Waiting
         /\ \A c : c \notin pending /\ pending' = pending \cup {c} =>
              IsFiniteSet(pending') /\ Waiting' = Waiting + 1
         /\ \A c : c \in pending /\ pending' = pending \ {c} =>
              IsFiniteSet(pending') /\ Waiting' = Waiting - 1 /\ Waiting >= 1
<1>1. Waiting \in Nat BY FS_CardinalityType DEF Waiting
<1>2. ASSUME NEW c, c \notin pending, pending' = pending \cup {c}
      PROVE  IsFiniteSet(pending') /\ Waiting' = Waiting + 1
  BY <1>2, FS_AddElement DEF Waiting
<1>3. ASSUME NEW c, c \in pending, pending' = pending \ {c}
      PROVE  IsFiniteSet(pending') /\ Waiting' = Waiting - 1 /\ Waiting >= 1
  <2>1. IsFiniteSet(pending') /\ Waiting' = Waiting - 1 BY <1>3, FS_RemoveElement DEF Waiting
  <2>2. Waiting' \in Nat BY <2>1, FS_CardinalityType DEF Waiting
  <2> QED BY <1>1, <2>1, <2>2
<1> QED BY <1>1, <1>2, <1>3 DEF Waiting

\* A step in which no time passes, which lets at most one call through and adds no more to
\* the calls that a window may still let through than its failures allow.
Adds(d) == \A a \in Ages : granted'[a] = granted[a] + d
Spends(d) ==
  \/ UNCHANGED faults /\ d + ToLetThrough' <= ToLetThrough
  \/ faults' = faults + 1 /\ d + ToLetThrough' <= ToLetThrough + Limit
InTime ==
  /\ counter'.value = 0 => counter'.ttl = 0
  /\ counter'.ttl > 0 => counter'.ttl \in {counter.ttl, Window}
  /\ Waiting' <= 1 + faults'
  /\ counter'.value = 0 \/ counter'.ttl > 0 => Waiting' <= faults'

\* The quantities of the window are natural numbers.
LEMMA NumbersOfWindow ==
  ASSUME CounterTypeOK, IsFiniteSet(pending)
  PROVE  /\ Waiting \in Nat /\ Room \in 0..Limit /\ ToLetThrough \in Nat /\ faults \in Nat
         /\ ToLetThrough = Waiting + Room
         /\ counter.value \in Nat /\ counter.ttl \in 0..Window
         /\ \A a \in Ages : granted[a] \in Nat
<1>1. Waiting \in Nat BY FS_CardinalityType DEF Waiting
<1>2. counter.value \in Nat /\ counter.ttl \in 0..Window /\ faults \in Nat
  BY EphemeralAssumption DEF CounterTypeOK
<1>3. Room \in 0..Limit BY <1>2, EphemeralAssumption DEF Room
<1> QED BY <1>1, <1>2, <1>3, EphemeralAssumption DEF ToLetThrough, CounterTypeOK

\* A step without a Tick keeps the bound on bursts if what it lets through was among what
\* the window and its waiting calls still could.
LEMMA NoTimePasses ==
  ASSUME CounterTypeOK, BurstInv, CounterTypeOK', IsFiniteSet(pending'),
         NEW d \in {0, 1}, Adds(d), Spends(d), InTime
  PROVE  BurstInv'
<1>1. PICK f \in Nat, u \in Nat, F \in Nat :
        f = faults /\ u = ToLetThrough /\ F = f * Limit
  BY NumbersOfWindow, Limits DEF BurstInv
<1>2. PICK f2 \in Nat, u2 \in Nat : f2 = faults' /\ u2 = ToLetThrough'
  <2>1. faults' \in Nat BY EphemeralAssumption DEF CounterTypeOK
  <2>2. Waiting' \in Nat BY FS_CardinalityType DEF Waiting
  <2>3. Room' \in Nat BY EphemeralAssumption DEF Room, CounterTypeOK
  <2>4. ToLetThrough' = Waiting' + Room' BY DEF ToLetThrough
  <2>5. \A x, y \in Nat : x + y \in Nat OBVIOUS
  <2>6. ToLetThrough' \in Nat BY ONLY <2>2, <2>3, <2>4, <2>5
  <2> QED BY <2>1, <2>6
<1>3. /\ (1 + f) * Limit = F + Limit /\ (2 + f) * Limit = F + 2 * Limit
      /\ (1 + (f + 1)) * Limit = F + 2 * Limit /\ (2 + (f + 1)) * Limit = F + 3 * Limit
  BY <1>1, Limits
<1>4. \A x, y \in Nat :
        /\ x + u <= (1 + f) * Limit /\ y = x + d => y + u2 <= (1 + f2) * Limit
        /\ x + u <= (2 + f) * Limit /\ y = x + d => y + u2 <= (2 + f2) * Limit
  <2>1. CASE f2 = f /\ d + u2 <= u BY <1>3, <2>1, EphemeralAssumption
  <2>2. CASE f2 = f + 1 /\ d + u2 <= u + Limit BY <1>3, <2>2, EphemeralAssumption
  <2> QED BY <1>1, <1>2, <2>1, <2>2 DEF Spends
<1>5. \A a \in Ages : granted[a] \in Nat /\ granted'[a] \in Nat
  BY DEF CounterTypeOK
<1>6. 0 \in Ages /\ Window - 1 \in Ages
      /\ \A t \in 1..Window : Window - t \in Ages
  BY EphemeralAssumption DEF Ages
<1>7. /\ granted'[0] + u2 <= (1 + f2) * Limit
      /\ granted'[Window - 1] + u2 <= (2 + f2) * Limit
  BY <1>1, <1>4, <1>5, <1>6 DEF BurstInv, Adds
<1>8. ASSUME counter'.ttl > 0
      PROVE  granted'[Window - counter'.ttl] + u2 <= (1 + f2) * Limit
  <2>1. counter'.ttl \in 1..Window BY <1>8, EphemeralAssumption DEF CounterTypeOK
  <2>2. CASE counter'.ttl = Window
    <3>1. Window - counter'.ttl = 0 BY <2>2, EphemeralAssumption
    <3> QED BY <1>7, <3>1
  <2>3. CASE counter'.ttl = counter.ttl
    BY <1>1, <1>4, <1>5, <1>6, <1>8, <2>1, <2>3 DEF BurstInv, Adds
  <2> QED BY <1>8, <2>2, <2>3 DEF InTime
<1>9. ASSUME NEW a \in Ages, NEW b \in Ages, a <= b PROVE granted'[a] <= granted'[b]
  <2>1. granted[a] <= granted[b] BY <1>9 DEF BurstInv
  <2> QED BY <1>5, <2>1 DEF Adds
<1> QED BY <1>2, <1>7, <1>8, <1>9 DEF BurstInv, InTime

\* A Tick shifts the ages, and may end the window: those it let through are then older.
LEMMA TickBounds ==
  ASSUME CounterTypeOK, BurstInv, Tick PROVE CounterTypeOK' /\ BurstInv'
<1>1. PICK v \in Nat, t \in Nat, f \in Nat, p \in Nat, F \in Nat, room \in Nat :
        /\ v = counter.value /\ t = counter.ttl /\ t <= Window /\ f = faults /\ p = Waiting
        /\ room = Room /\ ToLetThrough = p + room /\ F = f * Limit
  <2>1. IsFiniteSet(pending) BY DEF BurstInv
  <2>2. /\ Waiting \in Nat /\ Room \in Nat /\ faults \in Nat /\ ToLetThrough = Waiting + Room
        /\ counter.value \in Nat /\ counter.ttl \in Nat /\ counter.ttl <= Window
    BY <2>1, NumbersOfWindow, EphemeralAssumption
  <2>3. faults * Limit \in Nat BY <2>2, Limits
  <2> QED BY <2>2, <2>3
<1>2. counter \in [value : Nat, ttl : Nat] BY EphemeralAssumption DEF CounterTypeOK
<1>3. counter' = IF t = 0 THEN counter
                 ELSE [value |-> IF t = 1 THEN 0 ELSE v, ttl |-> IF t = 1 THEN 0 ELSE t - 1]
  BY <1>1, <1>2, KeyOperators DEF Tick
<1>4. UNCHANGED <<pending, faults>> BY DEF Tick
<1>5. counter'.value = (IF t = 1 THEN 0 ELSE v) /\ counter'.ttl = IF t = 0 THEN 0 ELSE t - 1
  BY <1>1, <1>3
<1>6. \A a \in Ages : /\ granted'[a] = IF a = 0 THEN 0 ELSE granted[a - 1]
                      /\ granted[a] \in Nat /\ (a # 0 => a - 1 \in Ages /\ granted[a - 1] \in Nat)
  BY EphemeralAssumption DEF Tick, CounterTypeOK, Ages
<1>7. CounterTypeOK'
  <2>1. counter' \in [value : 0..(Limit + 1), ttl : 0..Window]
    BY <1>1, <1>3, EphemeralAssumption DEF CounterTypeOK
  <2>2. granted' \in [Ages -> Nat] BY <1>6 DEF Tick
  <2> QED BY <1>4, <2>1, <2>2 DEF CounterTypeOK
<1>8. Waiting' = p /\ IsFiniteSet(pending') BY <1>1, <1>4 DEF Waiting, BurstInv
<1>9. PICK left \in Nat : left = Room' /\ left <= Limit /\ (t # 1 => left = room)
                          /\ (counter'.value # 0 => left <= Limit - 1)
  <2>1. Room' = IF counter'.value <= Limit THEN Limit - counter'.value ELSE 0 BY DEF Room
  <2>2. Room' \in Nat /\ Room' <= Limit /\ (counter'.value # 0 => Room' <= Limit - 1)
    BY <1>1, <1>5, <2>1, EphemeralAssumption
  <2>3. t # 1 => Room' = room BY <1>1, <1>5, <2>1 DEF Room
  <2> QED BY <2>2, <2>3
<1>10. ToLetThrough' = p + left BY <1>8, <1>9 DEF ToLetThrough
<1>11. f <= F /\ (1 + f) * Limit = F + Limit /\ (2 + f) * Limit = F + 2 * Limit
  BY <1>1, Limits
<1>20. f <= F /\ Limit \in Nat /\ Limit >= 1 BY <1>11, EphemeralAssumption
<1>12. /\ p <= 1 + f /\ (v = 0 \/ t > 0 => p <= f) /\ (v = 0 => t = 0)
       /\ t > 0 => granted[Window - t] + (p + room) <= F + Limit
       /\ granted[Window - 1] + (p + room) <= F + 2 * Limit
  BY <1>1, <1>11 DEF BurstInv
<1>13. p + left <= F + Limit
  <2>1. \A l \in Nat : \/ p <= f /\ left <= l /\ f <= F
                       \/ p <= 1 + f /\ left <= l - 1 /\ f <= F
                       => p + left <= F + l
    OBVIOUS
  <2>2. CASE counter'.value = 0
    <3>1. p <= f BY <1>5, <1>12, <2>2
    <3> QED BY ONLY <1>9, <1>20, <2>1, <3>1
  <2>3. CASE counter'.value # 0
    <3>1. p <= 1 + f /\ left <= Limit - 1 BY <1>9, <1>12, <2>3
    <3> QED BY ONLY <1>20, <2>1, <3>1
  <2> QED BY <2>2, <2>3
<1>14. ASSUME counter'.ttl > 0
       PROVE  granted'[Window - counter'.ttl] + (p + left) <= F + Limit
  <2>1. t >= 2 /\ counter'.ttl = t - 1 BY <1>5, <1>14
  <2>2. Window - counter'.ttl \in Ages /\ Window - counter'.ttl # 0
        /\ Window - counter'.ttl - 1 = Window - t
    BY <1>1, <2>1, EphemeralAssumption DEF Ages
  <2>3. granted'[Window - counter'.ttl] = granted[Window - t] BY <1>6, <2>2
  <2> QED BY <1>9, <1>12, <2>1, <2>3
<1>15. granted'[Window - 1] + (p + left) <= F + 2 * Limit
  <2>1. Window - 1 \in Ages BY EphemeralAssumption DEF Ages
  <2>2. CASE Window = 1
    <3>1. granted'[Window - 1] = 0 BY <1>6, <2>1, <2>2
    <3> QED BY <1>13, <1>20, <3>1
  <2>3. CASE Window # 1
    <3>1. Window - 1 # 0 /\ Window - 2 \in Ages /\ Window - 1 - 1 = Window - 2
      BY <2>3, EphemeralAssumption DEF Ages
    <3>2. granted'[Window - 1] = granted[Window - 2] BY <1>6, <2>1, <3>1
    <3>3. PICK x \in Nat, y \in Nat : x = granted[Window - 2] /\ y = granted[Window - 1] /\ x <= y
      <4>1. Window - 2 <= Window - 1 BY EphemeralAssumption
      <4> QED BY <1>6, <2>1, <3>1, <4>1 DEF BurstInv
    <3>4. CASE t = 1
      <4>1. y + (p + room) <= F + Limit BY <1>12, <3>3, <3>4
      <4> QED BY <1>9, <1>20, <3>2, <3>3, <4>1
    <3>5. CASE t # 1 BY <1>9, <1>12, <1>20, <3>2, <3>3, <3>5
    <3> QED BY <3>4, <3>5
  <2> QED BY <2>2, <2>3
<1>16. ASSUME NEW a \in Ages, NEW b \in Ages, a <= b PROVE granted'[a] <= granted'[b]
  <2>1. CASE a = 0
    <3>1. granted'[b] \in Nat BY <1>7 DEF CounterTypeOK
    <3> QED BY <1>6, <2>1, <3>1
  <2>2. CASE a # 0
    <3>1. a - 1 \in Ages /\ b - 1 \in Ages /\ a - 1 <= b - 1 /\ b # 0
      BY <1>16, <2>2, EphemeralAssumption DEF Ages
    <3>2. granted[a - 1] <= granted[b - 1] BY <3>1 DEF BurstInv
    <3> QED BY <1>6, <2>2, <3>1, <3>2
  <2> QED BY <2>1, <2>2
<1>17. /\ granted'[0] = 0 BY <1>6, EphemeralAssumption DEF Ages
<1>18. /\ counter'.value = 0 => counter'.ttl = 0
       /\ counter'.value = 0 \/ counter'.ttl > 0 => p <= f
  BY <1>5, <1>12
<1>19. faults' = f BY <1>1, <1>4
<1> QED BY <1>7, <1>8, <1>10, <1>11, <1>12, <1>13, <1>14, <1>15, <1>16, <1>17, <1>18, <1>19
        DEF BurstInv

\* Of a call that is let through the ages keep one more, of the others no trace.
LEMMA GrantAdds ==
  ASSUME CounterTypeOK, Grant \/ UNCHANGED granted
  PROVE  /\ granted' \in [Ages -> Nat]
         /\ Grant => Adds(1)
         /\ UNCHANGED granted => Adds(0)
<1>1. \A a \in Ages : granted[a] \in Nat BY DEF CounterTypeOK
<1> QED BY <1>1 DEF CounterTypeOK, Grant, Adds

\* What a call that counts finds: room for it, or a window whose limit is reached.
LEMMA CountedOnce ==
  ASSUME CounterTypeOK, counter.value <= Limit, counter' = Incremented(counter)
  PROVE  /\ counter' \in [value : 0..(Limit + 1), ttl : 0..Window]
         /\ counter'.value = counter.value + 1 /\ counter'.ttl = counter.ttl
         /\ counter.value \in Nat
         /\ Room' = IF counter.value < Limit THEN Room - 1 ELSE Room
         /\ Room \in Nat /\ Room' \in Nat
<1>1. counter \in [value : Nat, ttl : Nat] BY EphemeralAssumption DEF CounterTypeOK
<1>2. counter' = [value |-> counter.value + 1, ttl |-> counter.ttl] BY <1>1, KeyOperators
<1>3. PICK v \in 0..Limit : v = counter.value BY <1>1, EphemeralAssumption
<1>4. counter'.value = v + 1 /\ counter'.ttl = counter.ttl BY <1>2, <1>3
<1>5. Room = Limit - v /\ Room' = IF v + 1 <= Limit THEN Limit - (v + 1) ELSE 0
  BY <1>3, <1>4, EphemeralAssumption DEF Room
<1>6. counter' \in [value : 0..(Limit + 1), ttl : 0..Window]
  BY <1>2, <1>3, EphemeralAssumption DEF CounterTypeOK
<1> QED BY <1>3, <1>4, <1>5, <1>6, EphemeralAssumption

\* INCR keeps the bound: its call takes a place of the window, or waits to start one.
LEMMA CountBounds ==
  ASSUME CounterTypeOK, BurstInv, NEW c \in Call, Count(c)
  PROVE  CounterTypeOK' /\ BurstInv'
<1>1. /\ counter' \in [value : 0..(Limit + 1), ttl : 0..Window]
      /\ counter'.value = counter.value + 1 /\ counter'.ttl = counter.ttl
      /\ counter.value \in Nat /\ Room \in Nat /\ Room' \in Nat
      /\ Room' = IF counter.value < Limit THEN Room - 1 ELSE Room
  BY CountedOnce DEF Count
<1>2. UNCHANGED faults /\ faults \in Nat BY EphemeralAssumption DEF Count, CounterTypeOK
<1>3. Grant \/ UNCHANGED granted BY DEF Count
<1>4. CounterTypeOK' BY <1>1, <1>2, <1>3, GrantAdds DEF CounterTypeOK
<1>5. IsFiniteSet(pending) /\ Waiting \in Nat BY WaitingCounted DEF BurstInv
<1>6. /\ counter.value = 0 => counter.ttl = 0
      /\ Waiting <= 1 + faults
      /\ counter.value = 0 \/ counter.ttl > 0 => Waiting <= faults
  BY DEF BurstInv
<1>7. CASE counter.value = 0
  <2>1. pending' = pending \cup {c} /\ c \notin pending /\ UNCHANGED granted
    BY <1>1, <1>7 DEF Count, StartsWindow
  <2>2. IsFiniteSet(pending') /\ Waiting' = Waiting + 1 BY <1>5, <2>1, WaitingCounted
  <2>3. Room' = Room - 1 BY <1>1, <1>7, EphemeralAssumption
  <2>4. 0 + ToLetThrough' <= ToLetThrough BY <1>1, <1>5, <2>2, <2>3 DEF ToLetThrough
  <2>5. InTime BY <1>1, <1>2, <1>5, <1>6, <1>7, <2>2 DEF InTime
  <2>6. Adds(0) BY <2>1, GrantAdds
  <2>7. Spends(0) BY <1>2, <2>4 DEF Spends
  <2> QED BY <1>4, <2>2, <2>5, <2>6, <2>7, NoTimePasses
<1>8. CASE counter.value # 0
  <2>1. pending' = pending /\ IF counter.value < Limit THEN Grant ELSE UNCHANGED granted
    BY <1>1, <1>8, EphemeralAssumption DEF Count, StartsWindow, WithinLimit
  <2>2. IsFiniteSet(pending') /\ Waiting' = Waiting BY <1>5, <2>1, WaitingCounted
  <2>3. InTime BY <1>1, <1>2, <1>5, <1>6, <1>8, <2>2 DEF InTime
  <2>4. CASE counter.value < Limit
    <3>1. 1 + ToLetThrough' <= ToLetThrough BY <1>1, <1>5, <2>2, <2>4 DEF ToLetThrough
    <3>2. Adds(1) /\ Spends(1) BY <1>2, <2>1, <2>4, <3>1, GrantAdds DEF Spends
    <3> QED BY <1>4, <2>2, <2>3, <3>2, NoTimePasses
  <2>5. CASE ~(counter.value < Limit)
    <3>1. 0 + ToLetThrough' <= ToLetThrough BY <1>1, <1>5, <2>2, <2>5 DEF ToLetThrough
    <3>2. Adds(0) /\ Spends(0) BY <1>2, <2>1, <2>5, <3>1, GrantAdds DEF Spends
    <3> QED BY <1>4, <2>2, <2>3, <3>2, NoTimePasses
  <2> QED BY <2>4, <2>5
<1> QED BY <1>7, <1>8

\* A count that Redis may have kept takes room from the window, and is a failure.
LEMMA CountFailsBounds ==
  ASSUME CounterTypeOK, BurstInv, NEW c \in Call, CountFails(c)
  PROVE  CounterTypeOK' /\ BurstInv'
<1>1. /\ counter' \in [value : 0..(Limit + 1), ttl : 0..Window]
      /\ counter'.value \in {counter.value, counter.value + 1} /\ counter'.ttl = counter.ttl
      /\ counter.value \in Nat /\ Room \in Nat /\ Room' \in Nat /\ Room' <= Room
  <2>1. CASE counter' = counter
    <3>1. counter.value \in Nat /\ Room \in Nat
      BY EphemeralAssumption DEF CounterTypeOK, Room
    <3> QED BY <2>1, <3>1 DEF CounterTypeOK, Room
  <2>2. CASE counter' = Incremented(counter)
    <3>1. counter.value <= Limit BY DEF CountFails
    <3> QED BY <2>2, <3>1, CountedOnce
  <2> QED BY <2>1, <2>2 DEF CountFails
<1>2. /\ UNCHANGED <<pending, granted>> /\ faults' = faults + 1
      /\ faults' \in 0..MaxFaults /\ faults \in Nat
  BY EphemeralAssumption DEF CountFails, Fault, CounterTypeOK
<1>3. CounterTypeOK' BY <1>1, <1>2 DEF CounterTypeOK
<1>4. IsFiniteSet(pending') /\ Waiting' = Waiting /\ Waiting \in Nat
  BY <1>2, WaitingCounted DEF BurstInv
<1>5. Waiting <= 1 + faults /\ (counter.value = 0 => counter.ttl = 0) BY DEF BurstInv
<1>6. InTime BY <1>1, <1>2, <1>4, <1>5 DEF InTime
<1>7. 0 + ToLetThrough' <= ToLetThrough + Limit
  <2>1. \A w, x, y \in Nat : x <= y => w + x <= w + y + Limit BY EphemeralAssumption
  <2>2. ToLetThrough' = Waiting' + Room' BY DEF ToLetThrough
  <2>3. ToLetThrough' = Waiting + Room' /\ Waiting + Room' <= ToLetThrough + Limit
    BY <1>1, <1>4, <2>1, <2>2 DEF ToLetThrough
  <2>4. 0 + ToLetThrough' = ToLetThrough'
    <3>1. \A x, y \in Nat : 0 + (x + y) = x + y OBVIOUS
    <3> QED BY ONLY <1>1, <1>4, <2>3, <3>1
  <2> QED BY <2>3, <2>4
<1>8. Adds(0) /\ Spends(0) BY <1>2, <1>7, GrantAdds DEF Spends
<1> QED BY <1>3, <1>4, <1>6, <1>8, NoTimePasses

\* EXPIRE keeps the bound: a call less waits to start the window.
LEMMA StartWindowBounds ==
  ASSUME CounterTypeOK, BurstInv, NEW c \in Call, StartWindow(c)
  PROVE  CounterTypeOK' /\ BurstInv'
<1>1. counter \in [value : Nat, ttl : Nat] BY EphemeralAssumption DEF CounterTypeOK
<1>2. counter' = [value |-> counter.value,
                  ttl |-> IF counter.value = 0 THEN counter.ttl ELSE Window]
  BY <1>1, KeyOperators DEF StartWindow
<1>3. UNCHANGED faults /\ faults \in Nat BY EphemeralAssumption DEF StartWindow, CounterTypeOK
<1>4. counter' \in [value : 0..(Limit + 1), ttl : 0..Window]
  BY <1>2, EphemeralAssumption DEF CounterTypeOK
<1>5. granted' \in [Ages -> Nat] /\ Adds(1) BY GrantAdds DEF StartWindow
<1>6. CounterTypeOK' BY <1>3, <1>4, <1>5 DEF CounterTypeOK
<1>7. /\ IsFiniteSet(pending') /\ Waiting' = Waiting - 1 /\ Waiting >= 1 /\ Waiting \in Nat
  BY WaitingCounted DEF StartWindow, BurstInv
<1>8. counter'.value = counter.value
      /\ counter'.ttl = IF counter.value = 0 THEN counter.ttl ELSE Window
  BY <1>2
<1>9. Room' = Room /\ Room \in Nat
  BY <1>8, EphemeralAssumption DEF Room, CounterTypeOK
<1>10. 1 + ToLetThrough' <= ToLetThrough BY <1>7, <1>9 DEF ToLetThrough
<1>11. Waiting <= 1 + faults /\ (counter.value = 0 => counter.ttl = 0) BY DEF BurstInv
<1>12. InTime BY <1>3, <1>7, <1>8, <1>11 DEF InTime
<1>13. Spends(1) BY <1>3, <1>10 DEF Spends
<1> QED BY <1>5, <1>6, <1>7, <1>12, <1>13, NoTimePasses

\* The counter stays, and has no time to live unless another call gives it one.
LEMMA StartWindowFailsBounds ==
  ASSUME CounterTypeOK, BurstInv, NEW c \in Call, StartWindowFails(c)
  PROVE  CounterTypeOK' /\ BurstInv'
<1>1. /\ UNCHANGED counter /\ faults' = faults + 1 /\ faults' \in 0..MaxFaults /\ faults \in Nat
  BY EphemeralAssumption DEF StartWindowFails, Fault, CounterTypeOK
<1>2. CounterTypeOK' BY <1>1, GrantAdds DEF StartWindowFails, CounterTypeOK
<1>3. IsFiniteSet(pending') /\ Waiting' = Waiting - 1 /\ Waiting >= 1 /\ Waiting \in Nat
  BY WaitingCounted DEF StartWindowFails, BurstInv
<1>4. Room' = Room /\ Room \in Nat BY <1>1, EphemeralAssumption DEF Room, CounterTypeOK
<1>5. Waiting <= 1 + faults /\ (counter.value = 0 => counter.ttl = 0) BY DEF BurstInv
<1>6. InTime BY <1>1, <1>3, <1>5 DEF InTime
<1>7. 1 + ToLetThrough' <= ToLetThrough + Limit
  BY <1>3, <1>4, EphemeralAssumption DEF ToLetThrough
<1>8. Spends(1) /\ Spends(0)
  <2>1. \A x, y \in Nat : 1 + x <= y => 0 + x <= y OBVIOUS
  <2>2. ToLetThrough' = Waiting' + Room' BY DEF ToLetThrough
  <2>3. Waiting' + Room' \in Nat /\ ToLetThrough + Limit \in Nat
    BY <1>3, <1>4, EphemeralAssumption DEF ToLetThrough
  <2>4. 0 + ToLetThrough' <= ToLetThrough + Limit BY <1>7, <2>1, <2>2, <2>3
  <2> QED BY <1>1, <1>7, <2>4 DEF Spends
<1>9. CASE Grant BY <1>2, <1>3, <1>6, <1>8, <1>9, GrantAdds, NoTimePasses
<1>10. CASE UNCHANGED granted BY <1>2, <1>3, <1>6, <1>8, <1>10, GrantAdds, NoTimePasses
<1> QED BY <1>9, <1>10 DEF StartWindowFails

\* An empty Redis has room for a limit: that is what a restart costs.
LEMMA RestartBounds ==
  ASSUME CounterTypeOK, BurstInv, RedisRestart
  PROVE  CounterTypeOK' /\ BurstInv'
<1>1. /\ counter' = NoEntry /\ UNCHANGED <<pending, granted>> /\ faults' = faults + 1
      /\ faults' \in 0..MaxFaults /\ faults \in Nat
  BY EphemeralAssumption DEF RedisRestart, Fault, CounterTypeOK
<1>2. CounterTypeOK' BY <1>1, EphemeralAssumption DEF CounterTypeOK, NoEntry
<1>3. IsFiniteSet(pending') /\ Waiting' = Waiting /\ Waiting \in Nat
  BY <1>1, WaitingCounted DEF BurstInv
<1>4. counter'.value = 0 /\ counter'.ttl = 0 BY <1>1 DEF NoEntry
<1>5. Room' = Limit BY <1>4, EphemeralAssumption DEF Room
<1>6. Room \in Nat BY EphemeralAssumption DEF Room, CounterTypeOK
<1>7. 0 + ToLetThrough' <= ToLetThrough + Limit
  BY <1>3, <1>5, <1>6, EphemeralAssumption DEF ToLetThrough
<1>8. InTime BY <1>1, <1>3, <1>4 DEF InTime, BurstInv
<1>9. Adds(0) /\ Spends(0) BY <1>1, <1>7, GrantAdds DEF Spends
<1> QED BY <1>2, <1>3, <1>8, <1>9, NoTimePasses

\* Every step keeps the bound on bursts.
LEMMA BurstStep ==
  ASSUME CounterTypeOK, BurstInv, [EphemeralNext]_ephemeralVars
  PROVE  CounterTypeOK' /\ BurstInv'
<1>1. CASE \/ UNCHANGED ephemeralVars
           \/ \E s \in Socket : \/ Connect(s) \/ MarkOnline(s) \/ MarkOnlineFails(s)
                                \/ Ping(s) \/ PingFails(s) \/ Disconnect(s)
  <2>1. UNCHANGED <<counter, pending, granted>> /\ (UNCHANGED faults \/ Fault)
    BY <1>1 DEF ephemeralVars, Connect, MarkOnline, MarkOnlineFails, Ping, PingFails, Disconnect
  <2>2. CounterTypeOK' /\ faults' \in {faults, faults + 1} /\ faults \in Nat
    BY <2>1, EphemeralAssumption DEF CounterTypeOK, Fault
  <2>3. IsFiniteSet(pending') /\ Waiting' = Waiting /\ Waiting \in Nat
    BY <2>1, WaitingCounted DEF BurstInv
  <2>4. Room' = Room /\ Room \in Nat BY <2>1, EphemeralAssumption DEF Room, CounterTypeOK
  <2>5. /\ Waiting <= 1 + faults /\ (counter.value = 0 => counter.ttl = 0)
        /\ counter.value = 0 \/ counter.ttl > 0 => Waiting <= faults
    BY DEF BurstInv
  <2>6. InTime
    <3>1. counter'.value = counter.value /\ counter'.ttl = counter.ttl BY <2>1
    <3>2. Waiting' <= 1 + faults' /\ (Waiting <= faults => Waiting' <= faults')
      <4>1. \A w, f \in Nat : \A f2 \in {f, f + 1} :
              (w <= 1 + f => w <= 1 + f2) /\ (w <= f => w <= f2)
        OBVIOUS
      <4> QED BY ONLY <2>2, <2>3, <2>5, <4>1
    <3> QED BY <2>5, <3>1, <3>2 DEF InTime
  <2>7. ToLetThrough' = ToLetThrough /\ ToLetThrough \in Nat BY <2>3, <2>4 DEF ToLetThrough
  <2>8. Adds(0) /\ Spends(0) BY <2>1, <2>2, <2>7, GrantAdds, EphemeralAssumption DEF Spends
  <2> QED BY <2>2, <2>3, <2>6, <2>8, NoTimePasses
<1> QED BY <1>1, CountBounds, CountFailsBounds, StartWindowBounds, StartWindowFailsBounds,
           RestartBounds, TickBounds DEF EphemeralNext

CounterInv == CounterTypeOK /\ BurstInv

\* CounterInv is inductive: what a window has let through and may still let through is one
\* limit, and one more for every failure.
THEOREM CounterInvariance == EphemeralSpec => []CounterInv
<1>1. EphemeralInit => CounterInv
  <2> SUFFICES ASSUME EphemeralInit PROVE CounterTypeOK /\ BurstInv
    BY DEF CounterInv
  <2>1. CounterTypeOK BY EphemeralAssumption DEF EphemeralInit, CounterTypeOK, NoEntry
  <2>2. IsFiniteSet(pending) /\ Waiting = 0 BY FS_EmptySet DEF EphemeralInit, Waiting
  <2>3. counter.value = 0 /\ counter.ttl = 0 /\ faults = 0 BY DEF EphemeralInit, NoEntry
  <2>4. ToLetThrough = Limit BY <2>2, <2>3, EphemeralAssumption DEF ToLetThrough, Room
  <2>5. \A a \in Ages : granted[a] = 0 BY DEF EphemeralInit
  <2>6. 0 \in Ages /\ Window - 1 \in Ages BY EphemeralAssumption DEF Ages
  <2>7. (1 + 0) * Limit = Limit /\ (2 + 0) * Limit = 2 * Limit BY EphemeralAssumption
  <2> QED BY <2>1, <2>2, <2>3, <2>4, <2>5, <2>6, <2>7, EphemeralAssumption DEF BurstInv
<1>2. CounterInv /\ [EphemeralNext]_ephemeralVars => CounterInv'
  BY BurstStep DEF CounterInv
<1> QED BY <1>1, <1>2, PTL DEF EphemeralSpec

\* In any period as long as a window at most two limits of calls are let through, and one
\* more for every failure.
THEOREM BurstIsBounded == EphemeralSpec => []BurstBounded
<1>1. CounterInv => BurstBounded
  <2> SUFFICES ASSUME CounterInv PROVE granted[Window - 1] <= (2 + faults) * Limit
    BY DEF BurstBounded
  <2>1. ToLetThrough \in Nat /\ faults \in Nat BY NumbersOfWindow DEF CounterInv, BurstInv
  <2>2. granted[Window - 1] \in Nat
    BY EphemeralAssumption DEF CounterInv, CounterTypeOK, Ages
  <2>3. (2 + faults) * Limit = faults * Limit + 2 * Limit /\ faults * Limit \in Nat
    BY <2>1, Limits
  <2> QED BY <2>1, <2>2, <2>3, EphemeralAssumption DEF CounterInv, BurstInv
<1> QED BY <1>1, CounterInvariance, PTL

\* The keys and clocks keep their shapes.
THEOREM EphemeralTypeCorrect == EphemeralSpec => []EphemeralTypeOK
<1>1. EphemeralInit => pending \subseteq Call BY DEF EphemeralInit
<1>2. pending \subseteq Call /\ [EphemeralNext]_ephemeralVars => (pending \subseteq Call)'
  BY DEF EphemeralNext, ephemeralVars, Connect, MarkOnline, MarkOnlineFails, Ping, PingFails,
         Disconnect, Count, CountFails, StartWindow, StartWindowFails, RedisRestart, Tick
<1>3. PresenceInv /\ CounterInv /\ pending \subseteq Call => EphemeralTypeOK
  BY DEF PresenceInv, PresenceTypeOK, CounterInv, CounterTypeOK, EphemeralTypeOK
<1> QED BY <1>1, <1>2, <1>3, PresenceInvariance, CounterInvariance, PTL DEF EphemeralSpec

----------------------------------------------------------------------------
(* What becomes of the keys.                                                *)

\* A presence key has a time to live.  So has a counter, or a call is about to give it one,
\* unless Redis failed or a process died: only then a key can stay for ever.
KeysHaveTtl ==
  /\ presence.value = 0 <=> presence.ttl = 0
  /\ faults = 0 => EveryKeyExpires

\* Every step leaves the keys with a time to live.
LEMMA KeysHaveTtlStep ==
  ASSUME PresenceInv, CounterInv, KeysHaveTtl, [EphemeralNext]_ephemeralVars
  PROVE  KeysHaveTtl'
<1>1. /\ presence \in [value : {0, 1}, ttl : 0..PresenceTtl]
      /\ presence \in [value : Nat, ttl : Nat] /\ counter \in [value : Nat, ttl : Nat]
      /\ faults \in Nat /\ PresenceTtl \in Nat \ {0} /\ Window \in Nat \ {0}
  BY EphemeralAssumption DEF PresenceInv, PresenceTypeOK, CounterInv, CounterTypeOK
<1>2. Fault => faults' # 0 BY <1>1 DEF Fault
<1>3. presence'.value = 0 <=> presence'.ttl = 0
  <2>1. \/ presence' = presence \/ presence' = NoEntry \/ presence' = SetEx(PresenceTtl)
        \/ presence' = Expired(presence, PresenceTtl) \/ presence' = Aged(presence)
    BY DEF EphemeralNext, ephemeralVars, Connect, MarkOnline, MarkOnlineFails, Ping, PingFails,
           Disconnect, AfterDisconnect, Count, CountFails, StartWindow, StartWindowFails,
           RedisRestart, Tick
  <2> QED BY <1>1, <2>1, KeyOperators DEF KeysHaveTtl, NoEntry, SetEx
<1>4. ASSUME faults' = 0, counter'.value > 0 PROVE counter'.ttl > 0 \/ pending' # {}
  <2>1. ASSUME UNCHANGED <<counter, pending, faults>> PROVE counter'.ttl > 0 \/ pending' # {}
    BY <1>4, <2>1 DEF KeysHaveTtl, EveryKeyExpires
  <2>2. ASSUME NEW c \in Call, Count(c) PROVE counter'.ttl > 0 \/ pending' # {}
    <3>1. counter'.value = counter.value + 1 /\ counter'.ttl = counter.ttl
      BY <1>1, <2>2, KeyOperators DEF Count
    <3>2. CASE counter.value = 0 BY <2>2, <3>1, <3>2 DEF Count, StartsWindow
    <3>3. CASE counter.value # 0
      <4>1. counter.ttl > 0 \/ pending # {}
        BY <1>1, <1>4, <2>2, <3>3 DEF Count, KeysHaveTtl, EveryKeyExpires
      <4> QED BY <2>2, <3>1, <4>1 DEF Count
    <3> QED BY <3>2, <3>3
  <2>3. ASSUME NEW c \in Call, StartWindow(c) PROVE counter'.ttl > 0
    BY <1>1, <1>4, <2>3, KeyOperators DEF StartWindow
  <2>4. ASSUME Tick PROVE counter'.ttl > 0 \/ pending' # {}
    <3>1. UNCHANGED <<pending, faults>> /\ counter' = Aged(counter) BY <2>4 DEF Tick
    <3>2. counter'.ttl > 0 \/ (counter'.value = counter.value /\ counter.ttl = 0)
      BY <1>1, <1>4, <3>1, KeyOperators
    <3> QED BY <1>4, <3>1, <3>2 DEF KeysHaveTtl, EveryKeyExpires
  <2> QED BY <1>2, <1>4, <2>1, <2>2, <2>3, <2>4
       DEF EphemeralNext, ephemeralVars, Connect, MarkOnline, MarkOnlineFails, Ping, PingFails,
           Disconnect, CountFails, StartWindowFails, RedisRestart
<1> QED BY <1>3, <1>4 DEF KeysHaveTtl, EveryKeyExpires

\* What redis.service.ts says of all keys holds of the presence key, and of the counter as
\* long as Redis answers and no process dies.
THEOREM KeysExpire == EphemeralSpec => []KeysHaveTtl
<1>1. EphemeralInit => KeysHaveTtl
  BY DEF EphemeralInit, NoEntry, KeysHaveTtl, EveryKeyExpires
<1>2. PresenceInv /\ CounterInv /\ KeysHaveTtl /\ [EphemeralNext]_ephemeralVars => KeysHaveTtl'
  BY KeysHaveTtlStep
<1> QED BY <1>1, <1>2, PresenceInvariance, CounterInvariance, PTL DEF EphemeralSpec

\* Nobody lengthens a window that runs, also not a call that waits for its EXPIRE, and nobody
\* the presence of a person without sockets; a Tick shortens them.
TtlsRunOut ==
  /\ faults' = 0 /\ counter.ttl > 0 =>
       counter'.ttl <= counter.ttl /\ (Tick => counter'.ttl < counter.ttl)
  /\ (\A s \in Socket : link[s] = "off") /\ presence.ttl > 0 =>
       presence'.ttl <= presence.ttl /\ (Tick => presence'.ttl < presence.ttl)

\* What no socket keeps up and no call begins runs out: the window is fixed from its first
\* call on, however many calls race for it.
THEOREM KeysRunOut == EphemeralSpec => [][TtlsRunOut]_ephemeralVars
<1>1. ASSUME PresenceInv, CounterInv, [EphemeralNext]_ephemeralVars PROVE [TtlsRunOut]_ephemeralVars
  <2>1. /\ presence \in [value : Nat, ttl : Nat] /\ counter \in [value : Nat, ttl : Nat]
        /\ faults \in Nat
    BY <1>1, EphemeralAssumption DEF PresenceInv, PresenceTypeOK, CounterInv, CounterTypeOK
  <2>2. Fault => faults' # 0 BY <2>1 DEF Fault
  <2>3. ASSUME Tick PROVE /\ counter.ttl > 0 => counter'.ttl < counter.ttl
                          /\ presence.ttl > 0 => presence'.ttl < presence.ttl
    BY <2>1, <2>3, KeyOperators DEF Tick
  <2>4. ASSUME ~Tick, faults' = 0, counter.ttl > 0 PROVE counter'.ttl <= counter.ttl
    <3>1. faults = 0 BY <1>1, <2>1, <2>2, <2>4
      DEF EphemeralNext, ephemeralVars, Connect, MarkOnline, MarkOnlineFails, Ping, PingFails,
          Disconnect, Count, CountFails, StartWindow, StartWindowFails, RedisRestart
    <3>2. IsFiniteSet(pending) /\ Waiting <= 0 BY <1>1, <2>4, <3>1 DEF CounterInv, BurstInv
    <3>3. pending = {} BY <3>2, FS_CardinalityType, FS_EmptySet DEF Waiting
    <3>4. \A c \in Call : Count(c) => counter'.ttl = counter.ttl
      BY <2>1, KeyOperators DEF Count
    <3>5. counter'.ttl = counter.ttl BY <1>1, <2>2, <2>4, <3>3, <3>4
      DEF EphemeralNext, ephemeralVars, Connect, MarkOnline, MarkOnlineFails, Ping, PingFails,
          Disconnect, CountFails, StartWindow, StartWindowFails, RedisRestart
    <3> QED BY <2>1, <3>5
  <2>5. ASSUME ~Tick, \A s \in Socket : link[s] = "off" PROVE presence'.ttl <= presence.ttl
    <3>1. presence' \in {presence, NoEntry}
      BY <1>1, <2>5
      DEF EphemeralNext, ephemeralVars, Connected, Marked, Connect, MarkOnline, MarkOnlineFails,
          Ping, PingFails, Disconnect, Count, CountFails, StartWindow, StartWindowFails,
          RedisRestart
    <3> QED BY <2>1, <3>1 DEF NoEntry
  <2>6. \A x, y \in Nat : x < y => x <= y OBVIOUS
  <2>7. presence'.ttl \in Nat /\ counter'.ttl \in Nat
    <3>1. PresenceTypeOK' /\ CounterTypeOK'
      BY <1>1, PresenceStep, BurstStep DEF PresenceInv, CounterInv
    <3> QED BY <3>1 DEF PresenceTypeOK, CounterTypeOK
  <2> QED BY <2>1, <2>3, <2>4, <2>5, <2>6, <2>7 DEF TtlsRunOut
<1> QED BY <1>1, PresenceInvariance, CounterInvariance, PTL DEF EphemeralSpec

=============================================================================
