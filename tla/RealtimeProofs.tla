--------------------------- MODULE RealtimeProofs ---------------------------
(***************************************************************************)
(* Proofs about Realtime: the inductive invariant RealtimeInv and what     *)
(* follows from it, for any clients, sockets, instances and page size.     *)
(***************************************************************************)
EXTENDS Realtime, TLAPS

USE RealtimeAssumption DEF ConnPc

\* What RealtimeInv says of one socket.
Sound(s) ==
  /\ conn[s].open /\ Admitted(s) => s \in registry[conn[s].at]
  /\ \A i \in Instance : s \in registry[i] => i = conn[s].at
  /\ conn[s].after # 0 => conn[s].after \in held[conn[s].client]
  /\ conn[s].sync # "read" => conn[s].answer = {}
  /\ \A n \in conn[s].answer :
       /\ conn[s].after < n /\ n <= committed
       /\ \A k \in (conn[s].after + 1)..n : k \in conn[s].answer
  /\ conn[s].steady => subscribed[conn[s].at] /\ conn[s].pc # "unused"
  /\ Live(s) /\ conn[s].steady => \A n \in published : OnItsWay(s, n)

\* The invariant, said socket by socket.
LEMMA BySocket ==
  RealtimeInv <=> RealtimeTypeOK /\ NoHoles /\ \A s \in Socket : Sound(s)
BY DEF RealtimeInv, Sound, EveryLiveSocketIsFound, RequestsResume, SteadyIsSubscribed,
       NothingMissed

\* The same of the next state.
LEMMA BySocketNext ==
  RealtimeTypeOK' /\ NoHoles' /\ (\A s \in Socket : Sound(s)') => RealtimeInv'
BY DEF RealtimeInv, Sound, EveryLiveSocketIsFound, RequestsResume, SteadyIsSubscribed,
       NothingMissed

-----------------------------------------------------------------------------
\* The initial states.
LEMMA InitInv == RealtimeInit => RealtimeInv
<1> SUFFICES ASSUME RealtimeInit PROVE RealtimeInv
  OBVIOUS
<1>1. conn \in [Socket -> Conn]
  <2>1. \A c \in Client, i \in Instance : Unconnected(c, i) \in Conn
    BY DEF Unconnected, Conn
  <2>2. {Unconnected(c, i) : c \in Client, i \in Instance} \subseteq Conn
    BY <2>1
  <2>3. conn \in [Socket -> {Unconnected(c, i) : c \in Client, i \in Instance}]
    BY DEF RealtimeInit
  <2> QED
    BY <2>2, <2>3
<1>2. RealtimeTypeOK
  BY <1>1 DEF RealtimeInit, RealtimeTypeOK
<1>3. ASSUME NEW s \in Socket
      PROVE  /\ conn[s].pc = "unused" /\ ~conn[s].open /\ ~conn[s].steady
             /\ conn[s].after = 0 /\ conn[s].answer = {}
  <2>1. PICK c \in Client, i \in Instance : conn[s] = Unconnected(c, i)
    BY DEF RealtimeInit
  <2> QED
    BY <2>1 DEF Unconnected
<1>4. \A s \in Socket : Sound(s)
  BY <1>3 DEF RealtimeInit, Sound, Live, Admitted
<1> QED
  BY <1>2, <1>4, BySocket DEF RealtimeInit, NoHoles

-----------------------------------------------------------------------------
\* A step of one socket that touches neither the channel nor the stores has to
\* show the invariant of that socket only.
LEMMA OfOneSocket ==
  ASSUME RealtimeInv, NEW s \in Socket,
         UNCHANGED <<subscribed, inbox, committed, sent, published, held>>,
         RealtimeTypeOK',
         \A t \in Socket \ {s} : conn'[t] = conn[t],
         \A t \in Socket \ {s}, i \in Instance : t \in registry'[i] => t \in registry[i],
         \A t \in Socket \ {s} : t \in registry[conn[t].at] => t \in registry'[conn[t].at],
         Sound(s)'
  PROVE  RealtimeInv'
<1>1. RealtimeTypeOK /\ NoHoles /\ \A t \in Socket : Sound(t)
  BY BySocket
<1>2. NoHoles'
  BY <1>1 DEF NoHoles
<1>3. ASSUME NEW t \in Socket, t # s PROVE Sound(t)'
  <2>1. Sound(t) /\ conn'[t] = conn[t]
    BY <1>1, <1>3
  <2> QED
    BY <2>1, <1>1, <1>3 DEF Sound, Admitted, Live, OnItsWay, Full
<1>4. \A t \in Socket : Sound(t)'
  BY <1>3
<1> QED
  BY <1>2, <1>4, BySocketNext

\* The same for a step that changes the connection table only.
LEMMA OfOneConnection ==
  ASSUME RealtimeInv, NEW s \in Socket, NEW r \in Conn,
         conn' = [conn EXCEPT ![s] = r],
         UNCHANGED <<registry, subscribed, inbox, committed, sent, published, held>>,
         faults' \in 0..MaxFaults,
         Sound(s)'
  PROVE  RealtimeInv'
<1>1. RealtimeTypeOK
  BY DEF RealtimeInv
<1>2. RealtimeTypeOK'
  BY <1>1 DEF RealtimeTypeOK
<1> QED
  BY <1>1, <1>2, OfOneSocket DEF RealtimeTypeOK

-----------------------------------------------------------------------------
\* Connecting.  Each step shows the new record, its type and Sound(s)'.

LEMMA ConnectStep ==
  ASSUME RealtimeInv, NEW s \in Socket, Connect(s)
  PROVE  RealtimeInv'
<1>1. RealtimeTypeOK /\ Sound(s)
  BY BySocket
<1>2. conn[s] \in Conn /\ conn[s].pc = "unused"
  BY <1>1 DEF RealtimeTypeOK, Connect
<1> DEFINE r == [conn[s] EXCEPT !.pc = "verify", !.open = TRUE]
<1>3. r \in Conn /\ conn' = [conn EXCEPT ![s] = r] /\ conn'[s] = r
  BY <1>1, <1>2 DEF Connect, Conn, RealtimeTypeOK
<1>4. Sound(s)'
  BY <1>1, <1>2, <1>3 DEF Connect, Sound, Admitted, Live, Conn
<1> QED
  BY <1>1, <1>3, <1>4, OfOneConnection DEF Connect, RealtimeTypeOK

\* A refused handshake ends its connection.
LEMMA RejectStep ==
  ASSUME RealtimeInv, NEW s \in Socket, Reject(s)
  PROVE  RealtimeInv'
<1>1. RealtimeTypeOK /\ Sound(s)
  BY BySocket
<1>2. conn[s] \in Conn
  BY <1>1 DEF RealtimeTypeOK
<1> DEFINE r == [Closed(conn[s]) EXCEPT !.pc = "rejected"]
<1>3. r \in Conn /\ conn' = [conn EXCEPT ![s] = r] /\ conn'[s] = r
  BY <1>1, <1>2 DEF Reject, Conn, RealtimeTypeOK, Closed
<1>4. Sound(s)'
  BY <1>1, <1>2, <1>3 DEF Reject, Sound, Admitted, Live, Conn, Closed
<1> QED
  BY <1>1, <1>3, <1>4, OfOneConnection DEF Reject, RealtimeTypeOK

\* registry.add comes before anything is announced to the client.
LEMMA AdmitStep ==
  ASSUME RealtimeInv, NEW s \in Socket, Admit(s)
  PROVE  RealtimeInv'
<1>1. RealtimeTypeOK /\ Sound(s)
  BY BySocket
<1>2. conn[s] \in Conn
  BY <1>1 DEF RealtimeTypeOK
<1> DEFINE r == [conn[s] EXCEPT !.pc = "online",
                                !.steady = conn[s].open /\ subscribed[conn[s].at]]
<1>3. r \in Conn /\ conn' = [conn EXCEPT ![s] = r] /\ conn'[s] = r
  BY <1>1, <1>2 DEF Admit, Conn, RealtimeTypeOK
<1>4. registry' = [registry EXCEPT ![conn[s].at] = @ \union {s}]
  BY DEF Admit, Added
<1>5. /\ registry' \in [Instance -> SUBSET Socket]
      /\ \A i \in Instance : s \in registry'[i] <=> i = conn[s].at \/ s \in registry[i]
      /\ \A t \in Socket \ {s}, i \in Instance : t \in registry'[i] <=> t \in registry[i]
  BY <1>1, <1>2, <1>4 DEF RealtimeTypeOK, Conn
<1>6. conn[s].at \in Instance /\ conn'[s].at = conn[s].at
  BY <1>2, <1>3 DEF Conn
<1>7. Sound(s)'
  BY ZenonT(60), <1>1, <1>2, <1>3, <1>5, <1>6 DEF Admit, Sound, Admitted, Live, Conn
<1>8. RealtimeTypeOK'
  BY <1>1, <1>3, <1>5 DEF Admit, RealtimeTypeOK
<1>9. \A t \in Socket \ {s} : conn'[t] = conn[t] /\ conn[t].at \in Instance
  BY <1>1, <1>3 DEF RealtimeTypeOK, Conn
<1> QED
  BY <1>5, <1>7, <1>8, <1>9, OfOneSocket DEF Admit

\* An await of the handshake that ends touches its own socket only.
LEMMA HandshakeKeeps ==
  ASSUME RealtimeInv, NEW s \in Socket, HandshakeStep(s)
  PROVE  RealtimeInv'
<1>1. RealtimeTypeOK /\ Sound(s)
  BY BySocket
<1>2. conn[s] \in Conn
  BY <1>1 DEF RealtimeTypeOK
<1>3. CASE Admit(s)
  BY <1>3, AdmitStep
<1>4. CASE Verified(s) /\ ~Admit(s)
  <2> DEFINE r == [conn[s] EXCEPT !.pc = "device"]
  <2>1. r \in Conn /\ conn' = [conn EXCEPT ![s] = r] /\ conn'[s] = r
    BY <1>1, <1>2, <1>4 DEF Verified, Conn, RealtimeTypeOK
  <2>2. UNCHANGED <<registry, subscribed, inbox, committed, sent, published, held, faults>>
    BY <1>4 DEF Verified
  <2>3. Sound(s)'
    BY <1>1, <1>2, <2>1, <2>2 DEF Sound, Admitted, Live, Conn
  <2> QED
    BY <1>1, <2>1, <2>2, <2>3, OfOneConnection DEF RealtimeTypeOK
<1>5. CASE DeviceFound(s)
  <2> DEFINE r == [conn[s] EXCEPT !.pc = "touch"]
  <2>1. r \in Conn /\ conn' = [conn EXCEPT ![s] = r] /\ conn'[s] = r
    BY <1>1, <1>2, <1>5 DEF DeviceFound, Conn, RealtimeTypeOK
  <2>2. Sound(s)'
    BY <1>1, <1>2, <1>5, <2>1 DEF DeviceFound, Sound, Admitted, Live, Conn
  <2> QED
    BY <1>1, <1>5, <2>1, <2>2, OfOneConnection DEF DeviceFound, RealtimeTypeOK
<1>6. CASE MarkedOnline(s)
  \* sync.required: whatever was published before, the client will ask.
  <2> DEFINE r == [conn[s] EXCEPT !.pc = "ready", !.want = Told(s)]
  <2>1. r \in Conn /\ conn' = [conn EXCEPT ![s] = r] /\ conn'[s] = r
    BY <1>1, <1>2, <1>6 DEF MarkedOnline, Told, Conn, RealtimeTypeOK
  <2>2. Sound(s)'
    BY ZenonT(60), <1>1, <1>2, <1>6, <2>1
    DEF MarkedOnline, Told, Sound, Admitted, Live, OnItsWay, Conn
  <2> QED
    BY <1>1, <1>6, <2>1, <2>2, OfOneConnection DEF MarkedOnline, RealtimeTypeOK
<1> QED
  BY <1>3, <1>4, <1>5, <1>6 DEF HandshakeStep, Verified, Touched

\* A socket that goes takes its claims with it.
LEMMA DisconnectStep ==
  ASSUME RealtimeInv, NEW s \in Socket, Disconnect(s)
  PROVE  RealtimeInv'
<1>1. RealtimeTypeOK /\ Sound(s)
  BY BySocket
<1>2. conn[s] \in Conn
  BY <1>1 DEF RealtimeTypeOK
<1> DEFINE r == Closed(conn[s])
<1>3. r \in Conn /\ conn' = [conn EXCEPT ![s] = r] /\ conn'[s] = r
  BY <1>1, <1>2 DEF Disconnect, Conn, RealtimeTypeOK, Closed
<1>4. /\ registry' \in [Instance -> SUBSET Socket]
      /\ \A i \in Instance : s \in registry'[i] => s \in registry[i]
      /\ \A t \in Socket \ {s}, i \in Instance : t \in registry'[i] <=> t \in registry[i]
  BY <1>1, <1>2 DEF Disconnect, Removed, RealtimeTypeOK, Conn
<1>5. Sound(s)'
  <2>1. /\ ~conn'[s].open /\ ~conn'[s].steady /\ conn'[s].at = conn[s].at
        /\ conn'[s].sync = "none" /\ conn'[s].after = 0 /\ conn'[s].answer = {}
    <3>1. conn'[s] = Closed(conn[s])
      BY <1>3
    <3> QED
      BY <1>2, <3>1 DEF Conn, Closed
  <2>2. \A i \in Instance : s \in registry'[i] => i = conn'[s].at
    BY <1>1, <1>4, <2>1 DEF Sound
  <2> QED
    BY <2>1, <2>2 DEF Sound, Live
<1>6. RealtimeTypeOK'
  BY <1>1, <1>3, <1>4 DEF Disconnect, RealtimeTypeOK
<1>7. \A t \in Socket \ {s} : conn'[t] = conn[t] /\ conn[t].at \in Instance
  BY <1>1, <1>3 DEF RealtimeTypeOK, Conn
<1> QED
  BY <1>4, <1>5, <1>6, <1>7, OfOneSocket DEF Disconnect

-----------------------------------------------------------------------------
\* Fan-out

LEMMA CommitStep ==
  ASSUME RealtimeInv, Commit
  PROVE  RealtimeInv'
<1>1. RealtimeTypeOK /\ NoHoles /\ \A s \in Socket : Sound(s)
  BY BySocket
<1>2. 1..committed \subseteq 1..(committed') /\ committed' \in 0..MaxMessages
  BY <1>1 DEF Commit, RealtimeTypeOK
<1>3. RealtimeTypeOK'
  <2>1. /\ sent' \in SUBSET (1..committed')
        /\ published' \in SUBSET (1..committed')
        /\ inbox' \in [Instance -> SUBSET published']
        /\ held' \in [Client -> SUBSET (1..committed')]
    BY <1>1, <1>2 DEF Commit, RealtimeTypeOK
  <2> QED
    BY <1>1, <1>2, <2>1 DEF Commit, RealtimeTypeOK
<1>4. NoHoles'
  BY <1>1 DEF Commit, NoHoles
<1>5. ASSUME NEW s \in Socket PROVE Sound(s)'
  <2>1. Sound(s) /\ conn[s].answer \in SUBSET Nat
    BY <1>1 DEF RealtimeTypeOK, Conn
  <2>2. \A n \in conn[s].answer : n <= committed => n <= committed'
    BY <1>1, <2>1 DEF Commit, RealtimeTypeOK
  <2> QED
    BY <2>1, <2>2 DEF Commit, Sound, Admitted, Live, OnItsWay, Full
<1> QED
  BY <1>3, <1>4, <1>5, BySocketNext

\* A steady socket's instance is subscribed, so it is told of n.
LEMMA PublishStep ==
  ASSUME RealtimeInv, NEW n \in Received, Publish(n)
  PROVE  RealtimeInv'
<1>1. RealtimeTypeOK /\ NoHoles /\ \A s \in Socket : Sound(s)
  BY BySocket
<1>a. n \in 1..committed
  BY DEF Received
<1>2. /\ inbox' \in [Instance -> SUBSET published']
      /\ \A i \in Instance : inbox[i] \subseteq inbox'[i]
      /\ \A i \in Instance : subscribed[i] => n \in inbox'[i]
  BY <1>1 DEF Publish, RealtimeTypeOK
<1>3. RealtimeTypeOK'
  BY <1>1, <1>a, <1>2 DEF Publish, RealtimeTypeOK
<1>4. NoHoles'
  BY <1>1 DEF Publish, NoHoles
<1>5. ASSUME NEW s \in Socket PROVE Sound(s)'
  <2>1. Sound(s) /\ conn'[s] = conn[s] /\ conn[s].at \in Instance
    BY <1>1 DEF Publish, RealtimeTypeOK, Conn
  <2>2. ASSUME Live(s)', conn'[s].steady, NEW k \in published' PROVE OnItsWay(s, k)'
    <3>1. CASE k = n
      BY <1>2, <2>1, <2>2, <3>1 DEF Sound, OnItsWay
    <3>2. CASE k \in published
      BY <1>2, <2>1, <2>2, <3>2 DEF Publish, Sound, Live, OnItsWay, Full
    <3> QED
      BY <2>2, <3>1, <3>2 DEF Publish
  <2> QED
    BY <2>1, <2>2 DEF Publish, Sound, Admitted, Live
<1> QED
  BY <1>3, <1>4, <1>5, BySocketNext

\* Steps that only set fields of connections for all sockets of an instance
\* have the type of the table in common.
LEMMA DeliverStep ==
  ASSUME RealtimeInv, NEW i \in Instance, NEW n \in inbox[i], Deliver(i, n)
  PROVE  RealtimeInv'
<1>1. RealtimeTypeOK /\ NoHoles /\ \A s \in Socket : Sound(s)
  BY BySocket
<1>2. ASSUME NEW s \in Socket
      PROVE  /\ conn[s] \in Conn
             /\ conn'[s] = [conn[s] EXCEPT !.want = @ \/ Hears(s, i, n)]
  BY <1>1 DEF Deliver, RealtimeTypeOK
<1>3. ASSUME NEW s \in Socket PROVE conn'[s] \in Conn
  BY ZenonT(60), <1>2 DEF Hears, Conn
<1>4. conn' \in [Socket -> Conn]
  BY <1>3 DEF Deliver
<1>5. /\ inbox' \in [Instance -> SUBSET published]
      /\ \A j \in Instance : \A k \in inbox[j] : k \in inbox'[j] \/ (j = i /\ k = n)
  BY <1>1 DEF Deliver, RealtimeTypeOK
<1>6. RealtimeTypeOK'
  BY <1>1, <1>4, <1>5 DEF Deliver, RealtimeTypeOK
<1>7. NoHoles'
  BY <1>1 DEF Deliver, NoHoles
<1>8. ASSUME NEW s \in Socket PROVE Sound(s)'
  <2>1. Sound(s) /\ conn[s].at \in Instance
    BY <1>1, <1>2 DEF Conn
  <2>2. /\ conn'[s].pc = conn[s].pc /\ conn'[s].open = conn[s].open
        /\ conn'[s].at = conn[s].at /\ conn'[s].client = conn[s].client
        /\ conn'[s].steady = conn[s].steady /\ conn'[s].sync = conn[s].sync
        /\ conn'[s].after = conn[s].after /\ conn'[s].answer = conn[s].answer
        /\ conn'[s].want <=> conn[s].want \/ Hears(s, i, n)
    BY ZenonT(60), <1>2 DEF Conn
  <2>3. ASSUME Live(s)', conn'[s].steady, NEW k \in published' PROVE OnItsWay(s, k)'
    <3>1. Live(s) /\ conn[s].steady /\ k \in published
      BY <2>2, <2>3 DEF Live, Deliver
    <3>2. OnItsWay(s, k)
      BY <2>1, <3>1 DEF Sound
    <3>3. CASE conn[s].at = i /\ k = n
      <4>1. s \in registry[i] /\ conn[s].open
        BY <2>1, <3>1, <3>3 DEF Sound, Live, Admitted
      <4> QED
        BY <2>2, <3>3, <4>1 DEF Hears, OnItsWay, Deliver
    <3>4. CASE ~(conn[s].at = i /\ k = n)
      BY <1>5, <2>1, <2>2, <3>2, <3>4 DEF OnItsWay, Full, Deliver
    <3> QED
      BY <3>3, <3>4
  <2> QED
    BY <2>1, <2>2, <2>3 DEF Deliver, Sound, Admitted, Live
<1> QED
  BY <1>6, <1>7, <1>8, BySocketNext

\* A subscription comes back.
LEMMA SubscribeStep ==
  ASSUME RealtimeInv, NEW i \in Instance, Subscribe(i)
  PROVE  RealtimeInv'
<1>1. RealtimeTypeOK /\ NoHoles /\ \A s \in Socket : Sound(s)
  BY BySocket
<1>2. /\ subscribed' \in [Instance -> BOOLEAN]
      /\ \A j \in Instance : subscribed[j] => subscribed'[j]
  BY <1>1 DEF Subscribe, RealtimeTypeOK
<1>3. RealtimeTypeOK' /\ NoHoles'
  BY <1>1, <1>2 DEF Subscribe, RealtimeTypeOK, NoHoles
<1>4. \A s \in Socket : conn[s].at \in Instance
  BY <1>1 DEF RealtimeTypeOK, Conn
<1>5. \A s \in Socket : Sound(s)'
  BY <1>1, <1>2, <1>4 DEF Subscribe, Sound, Admitted, Live, OnItsWay, Full
<1> QED
  BY <1>3, <1>5, BySocketNext

\* No socket of an instance that loses its subscription counts as steady.
LEMMA LoseSubscriptionStep ==
  ASSUME RealtimeInv, NEW i \in Instance, LoseSubscription(i)
  PROVE  RealtimeInv'
<1>1. RealtimeTypeOK /\ NoHoles /\ \A s \in Socket : Sound(s)
  BY BySocket
<1>2. ASSUME NEW s \in Socket
      PROVE  /\ conn[s] \in Conn
             /\ conn'[s] = [conn[s] EXCEPT !.steady = @ /\ conn[s].at # i]
  BY <1>1 DEF LoseSubscription, RealtimeTypeOK
<1>3. ASSUME NEW s \in Socket PROVE conn'[s] \in Conn
  BY ZenonT(60), <1>2 DEF Conn
<1>4. conn' \in [Socket -> Conn]
  BY <1>3 DEF LoseSubscription
<1>5. /\ subscribed' \in [Instance -> BOOLEAN] /\ inbox' \in [Instance -> SUBSET published]
      /\ \A j \in Instance \ {i} : subscribed'[j] = subscribed[j] /\ inbox'[j] = inbox[j]
      /\ faults' \in 0..MaxFaults
  BY <1>1 DEF LoseSubscription, RealtimeTypeOK
<1>6. RealtimeTypeOK' /\ NoHoles'
  BY <1>1, <1>4, <1>5 DEF LoseSubscription, RealtimeTypeOK, NoHoles
<1>7. ASSUME NEW s \in Socket PROVE Sound(s)'
  <2>1. Sound(s) /\ conn[s].at \in Instance
    BY <1>1, <1>2 DEF Conn
  <2>2. /\ conn'[s].pc = conn[s].pc /\ conn'[s].open = conn[s].open
        /\ conn'[s].at = conn[s].at /\ conn'[s].client = conn[s].client
        /\ conn'[s].want = conn[s].want /\ conn'[s].sync = conn[s].sync
        /\ conn'[s].after = conn[s].after /\ conn'[s].answer = conn[s].answer
        /\ conn'[s].steady <=> conn[s].steady /\ conn[s].at # i
    BY ZenonT(60), <1>2 DEF Conn
  <2> QED
    BY <1>5, <2>1, <2>2
    DEF LoseSubscription, Sound, Admitted, Live, OnItsWay, Full
<1> QED
  BY <1>6, <1>7, BySocketNext

\* A restart closes the instance's sockets.
LEMMA RestartStep ==
  ASSUME RealtimeInv, NEW i \in Instance, Restart(i)
  PROVE  RealtimeInv'
<1>1. RealtimeTypeOK /\ NoHoles /\ \A s \in Socket : Sound(s)
  BY BySocket
<1>2. ASSUME NEW s \in Socket
      PROVE  /\ conn[s] \in Conn /\ conn[s].at \in Instance
             /\ conn'[s] = IF conn[s].at = i /\ conn[s].pc # "unused"
                             THEN [Closed(conn[s]) EXCEPT !.pc = "gone"] ELSE conn[s]
  BY <1>1 DEF Restart, RealtimeTypeOK, Conn
<1>3. ASSUME NEW s \in Socket PROVE conn'[s] \in Conn
  <2>1. [Closed(conn[s]) EXCEPT !.pc = "gone"] \in Conn
    BY ZenonT(60), <1>2 DEF Conn, Closed
  <2> QED
    BY <1>2, <2>1
<1>4. conn' \in [Socket -> Conn]
  BY <1>3 DEF Restart
<1>5. /\ subscribed' \in [Instance -> BOOLEAN] /\ inbox' \in [Instance -> SUBSET published]
      /\ registry' \in [Instance -> SUBSET Socket] /\ registry'[i] = {}
      /\ \A j \in Instance \ {i} : /\ subscribed'[j] = subscribed[j] /\ inbox'[j] = inbox[j]
                                   /\ registry'[j] = registry[j]
      /\ faults' \in 0..MaxFaults
  BY <1>1 DEF Restart, RealtimeTypeOK
<1>6. RealtimeTypeOK' /\ NoHoles'
  BY <1>1, <1>4, <1>5 DEF Restart, RealtimeTypeOK, NoHoles
<1>7. ASSUME NEW s \in Socket PROVE Sound(s)'
  <2>1. Sound(s)
    BY <1>1
  <2>2. CASE conn[s].at = i /\ conn[s].pc # "unused"
    <3>1. /\ conn'[s].pc = "gone" /\ ~conn'[s].steady /\ conn'[s].at = i
          /\ conn'[s].after = 0 /\ conn'[s].answer = {}
      <4>1. conn'[s] = [Closed(conn[s]) EXCEPT !.pc = "gone"]
        BY <1>2, <2>2
      <4> QED
        BY <1>2, <2>2, <4>1 DEF Conn, Closed
    <3>2. \A j \in Instance : s \in registry'[j] => j = conn'[s].at
      BY <1>5, <2>1, <2>2, <3>1 DEF Sound
    <3> QED
      BY <3>1, <3>2 DEF Sound, Admitted, Live
  <2>3. CASE conn[s].at = i /\ conn[s].pc = "unused"
    <3>1. conn'[s] = conn[s]
      BY <1>2, <2>3
    <3> QED
      BY <1>5, <2>1, <2>3, <3>1 DEF Restart, Sound, Admitted, Live
  <2>4. CASE conn[s].at # i
    <3>1. conn'[s] = conn[s] /\ conn[s].at \in Instance \ {i}
      BY <1>2, <2>4
    <3> QED
      BY <1>5, <2>1, <3>1 DEF Restart, Sound, Admitted, Live, OnItsWay, Full
  <2> QED
    BY <2>2, <2>3, <2>4
<1> QED
  BY <1>6, <1>7, BySocketNext

-----------------------------------------------------------------------------
\* Catching up

LEMMA AskStep ==
  ASSUME RealtimeInv, NEW s \in Socket, Ask(s)
  PROVE  RealtimeInv'
<1>1. RealtimeTypeOK /\ Sound(s)
  BY BySocket
<1>2. conn[s] \in Conn /\ held[conn[s].client] \in SUBSET Nat
  BY <1>1 DEF RealtimeTypeOK, Conn
<1>3. PICK a \in held[conn[s].client] \union {0} :
        conn' = [conn EXCEPT ![s].want = FALSE, ![s].sync = "asked", ![s].after = a]
  BY DEF Ask
<1>4. conn[s].answer = {}
  BY <1>1 DEF Ask, Sound
<1> DEFINE r == [conn[s] EXCEPT !.want = FALSE, !.sync = "asked", !.after = a]
<1>5. r \in Conn /\ conn' = [conn EXCEPT ![s] = r] /\ conn'[s] = r
  <2>1. a \in Nat
    BY <1>2
  <2>2. r \in Conn
    BY <1>2, <2>1 DEF Conn
  <2>3. conn' = [conn EXCEPT ![s] = r]
    BY <1>1, <1>2, <1>3 DEF Conn, RealtimeTypeOK
  <2> QED
    BY <1>1, <2>2, <2>3 DEF RealtimeTypeOK
<1>6. Sound(s)'
  BY ZenonT(60), <1>1, <1>2, <1>3, <1>4, <1>5
  DEF Ask, Sound, Admitted, Live, OnItsWay, Conn
<1> QED
  BY <1>1, <1>5, <1>6, OfOneConnection DEF Ask, RealtimeTypeOK

\* The rows after afterSequence, a page of them or all; below it nothing is
\* missing.
LEMMA SyncReadStep ==
  ASSUME RealtimeInv, NEW s \in Socket, SyncRead(s)
  PROVE  RealtimeInv'
<1>1. RealtimeTypeOK /\ NoHoles /\ Sound(s)
  BY BySocket
<1>2. /\ conn[s] \in Conn /\ conn[s].client \in Client /\ conn[s].after \in Nat
      /\ committed \in Nat
  BY <1>1 DEF RealtimeTypeOK, Conn
<1> DEFINE a == conn[s].after
           r == [conn[s] EXCEPT !.sync = "read", !.answer = RowsAfter(a)]
<1>3. RowsAfter(a) \in SUBSET Nat
  BY <1>2 DEF RowsAfter
<1>4. r \in Conn /\ conn' = [conn EXCEPT ![s] = r] /\ conn'[s] = r
  BY <1>1, <1>2, <1>3 DEF SyncRead, Conn, RealtimeTypeOK
<1>5. \A n \in RowsAfter(a) : a < n /\ n <= committed /\ \A k \in (a + 1)..n : k \in RowsAfter(a)
  BY <1>2 DEF RowsAfter
<1>6. ASSUME NEW n \in published
      PROVE  n \in held[conn[s].client] \/ n \in RowsAfter(a) \/ a + SyncLimit \in RowsAfter(a)
  <2>1. n \in 1..committed
    BY <1>1 DEF RealtimeTypeOK
  <2>2. CASE n <= a
    BY <1>1, <1>2, <2>1, <2>2 DEF Sound, NoHoles
  <2>3. CASE a < n
    BY <1>2, <2>1, <2>3 DEF RowsAfter
  <2> QED
    BY <1>2, <2>1, <2>2, <2>3
<1>7. /\ r.sync = "read" /\ r.answer = RowsAfter(a) /\ r.after = a
      /\ r.client = conn[s].client /\ r.at = conn[s].at /\ r.pc = conn[s].pc
      /\ r.open = conn[s].open /\ r.steady = conn[s].steady
  BY <1>2 DEF Conn
<1> HIDE DEF r
<1>8. Sound(s)'
  BY ZenonT(60), <1>1, <1>4, <1>5, <1>6, <1>7
  DEF SyncRead, Sound, Admitted, Live, OnItsWay, Full
<1> QED
  BY <1>1, <1>4, <1>8, OfOneConnection DEF SyncRead, RealtimeTypeOK

\* A failed sync answers nothing.
LEMMA SyncFailsStep ==
  ASSUME RealtimeInv, NEW s \in Socket, SyncFails(s)
  PROVE  RealtimeInv'
<1>1. RealtimeTypeOK /\ Sound(s)
  BY BySocket
<1>2. conn[s] \in Conn
  BY <1>1 DEF RealtimeTypeOK
<1> DEFINE r == [conn[s] EXCEPT !.sync = "none", !.want = TRUE]
<1>3. r \in Conn /\ conn' = [conn EXCEPT ![s] = r] /\ conn'[s] = r
  BY <1>1, <1>2 DEF SyncFails, Conn, RealtimeTypeOK
<1>4. Sound(s)'
  BY <1>1, <1>2, <1>3 DEF SyncFails, Sound, Admitted, Live, OnItsWay, Conn
<1>5. faults' \in 0..MaxFaults
  BY <1>1 DEF SyncFails, RealtimeTypeOK
<1> QED
  BY <1>1, <1>3, <1>4, <1>5, OfOneConnection DEF SyncFails

\* A store grows by rows that follow a message it has.
LEMMA SyncAnsweredStep ==
  ASSUME RealtimeInv, NEW s \in Socket, SyncAnswered(s)
  PROVE  RealtimeInv'
<1>1. RealtimeTypeOK /\ NoHoles /\ \A t \in Socket : Sound(t)
  BY BySocket
<1>2. /\ conn[s] \in Conn /\ conn[s].client \in Client /\ conn[s].after \in Nat
      /\ conn[s].answer \in SUBSET Nat
  BY <1>1 DEF RealtimeTypeOK, Conn
<1> DEFINE c == conn[s].client
           r == [conn[s] EXCEPT !.sync = "none", !.after = 0, !.answer = {},
                                !.want = @ \/ Full(s)]
<1>3. r \in Conn
  BY <1>2 DEF Conn, Full
<1>4. conn' = [conn EXCEPT ![s] = r] /\ conn'[s] = r
  BY <1>1, <1>2, <1>3 DEF SyncAnswered, Conn, RealtimeTypeOK
<1>5. /\ r.sync = "none" /\ r.answer = {} /\ r.after = 0
      /\ r.client = c /\ r.at = conn[s].at /\ r.pc = conn[s].pc
      /\ r.open = conn[s].open /\ r.steady = conn[s].steady
      /\ r.want <=> conn[s].want \/ Full(s)
  BY <1>2 DEF Conn
<1> HIDE DEF r
<1>6. /\ held'[c] = held[c] \union conn[s].answer
      /\ \A d \in Client \ {c} : held'[d] = held[d]
      /\ \A d \in Client : held[d] \subseteq held'[d]
      /\ held' \in [Client -> SUBSET (1..committed)]
  <2>1. conn[s].answer \subseteq 1..committed
    BY <1>1, <1>2 DEF Sound, RealtimeTypeOK
  <2> QED
    BY <1>1, <1>2, <2>1 DEF SyncAnswered, RealtimeTypeOK
<1>7. RealtimeTypeOK'
  BY <1>1, <1>3, <1>4, <1>6 DEF SyncAnswered, RealtimeTypeOK
<1>8. NoHoles'
  <2> SUFFICES ASSUME NEW d \in Client, NEW n \in held'[d], NEW k \in 1..n
               PROVE  k \in held'[d]
    BY DEF NoHoles
  <2>1. CASE n \in held[d]
    BY <1>1, <1>6, <2>1 DEF NoHoles
  <2>2. CASE d = c /\ n \in conn[s].answer
    <3>1. n \in Nat /\ k \in Nat /\ 1 <= k /\ k <= n
      BY <1>2, <2>2
    <3>2. CASE k <= conn[s].after
      BY <1>1, <1>2, <1>6, <2>2, <3>1, <3>2 DEF Sound, NoHoles
    <3>3. CASE conn[s].after < k
      BY <1>1, <1>2, <1>6, <2>2, <3>1, <3>3 DEF Sound
    <3> QED
      BY <1>2, <3>1, <3>2, <3>3
  <2> QED
    BY <1>6, <2>1, <2>2
<1>9. Sound(s)'
  <2>1. ASSUME Live(s), conn[s].steady, NEW n \in published
        PROVE  n \in held'[c] \/ r.want \/ n \in inbox[conn[s].at]
    <3>1. OnItsWay(s, n) /\ conn[s].sync = "read"
      BY <1>1, <2>1 DEF Sound, SyncAnswered
    <3> QED
      BY <1>5, <1>6, <3>1 DEF OnItsWay
  <2>2. Live(s)' <=> Live(s)
    BY <1>4, <1>5 DEF Live
  <2>3. (Live(s) /\ conn[s].steady => \A n \in published : OnItsWay(s, n))'
    BY <1>4, <1>5, <2>1, <2>2 DEF SyncAnswered, OnItsWay
  <2> QED
    BY ZenonT(60), <1>1, <1>4, <1>5, <2>3 DEF SyncAnswered, Sound, Admitted
<1>10. ASSUME NEW t \in Socket, t # s PROVE Sound(t)'
  <2>1. Sound(t) /\ conn'[t] = conn[t] /\ conn[t].client \in Client
    BY <1>1, <1>4, <1>10 DEF RealtimeTypeOK, Conn
  <2> QED
    BY ZenonT(60), <1>6, <2>1 DEF SyncAnswered, Sound, Admitted, Live, OnItsWay, Full
<1> QED
  BY <1>7, <1>8, <1>9, <1>10, BySocketNext

-----------------------------------------------------------------------------
\* Every step keeps the invariant.
LEMMA NextInv == RealtimeInv /\ [RealtimeNext]_realtimeVars => RealtimeInv'
<1> SUFFICES ASSUME RealtimeInv, [RealtimeNext]_realtimeVars PROVE RealtimeInv'
  OBVIOUS
<1>1. CASE UNCHANGED realtimeVars
  BY <1>1 DEF realtimeVars, RealtimeInv, RealtimeTypeOK, EveryLiveSocketIsFound, NoHoles,
     RequestsResume, SteadyIsSubscribed, NothingMissed, Live, Admitted, OnItsWay, Full
<1>2. CASE \E s \in Socket : Connect(s) \/ HandshakeStep(s) \/ Reject(s) \/ Disconnect(s)
  BY <1>2, ConnectStep, HandshakeKeeps, RejectStep, DisconnectStep
<1>3. CASE \E s \in Socket : Ask(s) \/ SyncRead(s) \/ SyncFails(s) \/ SyncAnswered(s)
  BY <1>3, AskStep, SyncReadStep, SyncFailsStep, SyncAnsweredStep
<1>4. CASE Commit \/ \E n \in Received : Publish(n)
  BY <1>4, CommitStep, PublishStep
<1>5. CASE \E i \in Instance : \E n \in inbox[i] : Deliver(i, n)
  BY <1>5, DeliverStep
<1>6. CASE \E i \in Instance : Subscribe(i) \/ LoseSubscription(i) \/ Restart(i)
  BY <1>6, SubscribeStep, LoseSubscriptionStep, RestartStep
<1> QED
  BY <1>1, <1>2, <1>3, <1>4, <1>5, <1>6 DEF RealtimeNext

\* The connection table, the registries, the channel and the stores agree in
\* every reachable state (the gateway and its subscriber).
THEOREM RealtimeInvariance == RealtimeSpec => []RealtimeInv
BY InitInv, NextInv, PTL DEF RealtimeSpec

\* Every variable stays in its domain; nothing is held or announced that was
\* not committed.
THEOREM RealtimeTypeCorrect == RealtimeSpec => []RealtimeTypeOK
<1>1. RealtimeInv => RealtimeTypeOK
  BY DEF RealtimeInv
<1> QED
  BY <1>1, RealtimeInvariance, PTL

\* The registry of an instance finds each of its open, admitted sockets, and
\* no registry lists a socket of another instance.
THEOREM EverySocketFound == RealtimeSpec => []EveryLiveSocketIsFound
<1>1. RealtimeInv => EveryLiveSocketIsFound
  BY DEF RealtimeInv
<1> QED
  BY <1>1, RealtimeInvariance, PTL

\* A connected client misses no message published to its person while its instance stays
\* subscribed, for any page size and any number of sockets and messages.
THEOREM NoMessageMissed == RealtimeSpec => []NothingMissed
<1>1. RealtimeInv => NothingMissed
  BY DEF RealtimeInv
<1> QED
  BY <1>1, RealtimeInvariance, PTL

\* A client's store never has a hole.
THEOREM StoresHaveNoHoles == RealtimeSpec => []NoHoles
<1>1. RealtimeInv => NoHoles
  BY DEF RealtimeInv
<1> QED
  BY <1>1, RealtimeInvariance, PTL

=============================================================================
