----------------------------- MODULE InboxProofs ----------------------------
(***************************************************************************)
(* Proofs about Inbox: a Welcome is shown until the client has stored its  *)
(* group, and a walk of the list shows what stays where it is exactly once *)
(* for any conversations, page sizes and clocks.  And about ReadState:     *)
(* nobody is told of a read mark that is not stored.                       *)
(***************************************************************************)
EXTENDS Inbox, ReadState, FiniteSetTheorems, WellFoundedInduction, TLAPS

RowType == [exists : BOOLEAN, updated : Nat, welcome : BOOLEAN, delivered : BOOLEAN]
OpenType == [conv : Conv, at : Nat, welcome : BOOLEAN, no : Nat]
Progress == {"none", "fetched", "joined", "held", "kept"}

InboxTypeOK ==
  /\ clock \in Nat /\ writes \in Nat
  /\ row \in [Conv -> RowType]
  /\ open \subseteq OpenType
  /\ group \in [Conv -> Progress]
  /\ acks \subseteq Conv

\* An ack is on its way, or has arrived, only for a group that is stored.
AckedIsStored == \A c \in Conv : row[c].delivered \/ c \in acks => Stored(c)

InboxInv == InboxTypeOK /\ AckedIsStored

\* What a client has stored it keeps, and a fetch stores nothing (Taken).
LEMMA TakenKeeps ==
  ASSUME InboxInv, NEW cs \in SUBSET Conv
  PROVE  /\ Taken(cs) \in [Conv -> Progress]
         /\ \A c \in Conv : Stored(c) => Taken(cs)[c] \in {"held", "kept"}
  BY DEF InboxInv, InboxTypeOK, Taken, Stored, Progress

\* Steps that leave the rows and the acks alone and take no stored group away.
LEMMA GroupStep ==
  ASSUME InboxInv, row' = row, open' = open, acks' \subseteq acks,
         clock' \in Nat, writes' \in Nat,
         group' \in [Conv -> Progress],
         \A c \in Conv : Stored(c) => group'[c] \in {"held", "kept"}
  PROVE  InboxInv'
  BY DEF InboxInv, InboxTypeOK, AckedIsStored, Stored

\* The inductive invariant holds at the start.
LEMMA InboxStarts == InboxInit => InboxInv
<1> SUFFICES ASSUME InboxInit
             PROVE  InboxInv
  OBVIOUS
<1>1. clock \in Nat
  <2>1. MaxTime \in Nat
    BY InboxAssumption DEF InboxAssumption
  <2>2. clock \in 0..MaxTime
    BY DEF InboxInit
  <2> QED BY <2>1, <2>2
<1>2. NoRow \in RowType /\ ~NoRow.delivered
  BY DEF NoRow, RowType
<1>3. ASSUME NEW t \in Nat
      PROVE  LET r == [NoRow EXCEPT !.exists = TRUE, !.updated = t]
             IN  r \in RowType /\ ~r.delivered
  BY <1>3 DEF NoRow, RowType
<1>4. ASSUME NEW c \in Conv
      PROVE  row[c] \in RowType /\ ~row[c].delivered
  <2>1. CASE row[c] = NoRow
    BY <2>1, <1>2
  <2>2. CASE \E t \in 0..clock : row[c] = [NoRow EXCEPT !.exists = TRUE, !.updated = t]
    <3>1. PICK t \in 0..clock : row[c] = [NoRow EXCEPT !.exists = TRUE, !.updated = t]
      BY <2>2
    <3>2. t \in Nat
      BY <1>1
    <3> QED BY <1>3, <3>1, <3>2
  <2> QED BY <2>1, <2>2 DEF InboxInit
<1>5. row = [c \in Conv |-> row[c]]
  BY DEF InboxInit
<1>6. row \in [Conv -> RowType]
  BY <1>4, <1>5
<1>7. writes \in Nat /\ open \subseteq OpenType /\ acks = {} /\ group \in [Conv -> Progress]
  BY DEF InboxInit, Progress
<1> QED BY <1>1, <1>4, <1>6, <1>7 DEF InboxInv, InboxTypeOK, AckedIsStored

\* A transaction begins with the conversation, the time and the Welcome it has.
LEMMA BeginWriteKeeps ==
  ASSUME InboxInv, NEW c \in Conv, NEW welcome \in BOOLEAN, BeginWrite(c, welcome)
  PROVE  InboxInv'
<1>1. open' \subseteq OpenType /\ writes' \in Nat
  BY DEF BeginWrite, InboxInv, InboxTypeOK, OpenType
<1> QED BY <1>1 DEF BeginWrite, InboxInv, InboxTypeOK, AckedIsStored, Stored

\* A commit writes existence, time and Welcome, and no delivery (Written).
LEMMA CommitKeeps ==
  ASSUME InboxInv, NEW t \in open, Commit(t)
  PROVE  InboxInv'
<1>1. t \in OpenType /\ row[t.conv] \in RowType
  BY DEF InboxInv, InboxTypeOK, OpenType
<1> DEFINE r == [exists |-> TRUE, updated |-> t.at,
                 welcome |-> row[t.conv].welcome \/ t.welcome,
                 delivered |-> row[t.conv].delivered]
<1>2. r \in RowType /\ r.delivered = row[t.conv].delivered
  <2>1. t.at \in Nat /\ t.welcome \in BOOLEAN
    BY <1>1 DEF OpenType
  <2>2. (row[t.conv].welcome \/ t.welcome) \in BOOLEAN
    OBVIOUS
  <2> QED BY <1>1, <2>1, <2>2, ZenonT(60) DEF RowType
<1>3. row' = [row EXCEPT ![t.conv] = r]
  BY DEF Commit, Written
<1> HIDE DEF r
<1>4. row' \in [Conv -> RowType] /\ \A c \in Conv : row'[c].delivered = row[c].delivered
  BY <1>1, <1>2, <1>3 DEF InboxInv, InboxTypeOK, OpenType
<1> QED BY <1>4 DEF Commit, InboxInv, InboxTypeOK, AckedIsStored, Stored

\* ackMlsWelcome is for a group that is stored.
LEMMA AckKeeps ==
  ASSUME InboxInv, NEW c \in Conv, AckMlsWelcome(c)
  PROVE  InboxInv'
<1>1. row[c] \in RowType
  BY DEF InboxInv, InboxTypeOK
<1> DEFINE r == [row[c] EXCEPT !.delivered = TRUE]
<1>2. r \in RowType
  BY <1>1 DEF RowType
<1>3. row' = [row EXCEPT ![c] = r]
  BY DEF AckMlsWelcome
<1> HIDE DEF r
<1>4. row' \in [Conv -> RowType] /\ \A d \in Conv \ {c} : row'[d] = row[d]
  BY <1>2, <1>3 DEF InboxInv, InboxTypeOK
<1>5. c \in acks /\ acks' \subseteq acks /\ group' = group
  BY DEF AckMlsWelcome
<1>6. AckedIsStored'
  BY <1>4, <1>5 DEF InboxInv, AckedIsStored, Stored
<1> QED BY <1>4, <1>5, <1>6 DEF AckMlsWelcome, InboxInv, InboxTypeOK

\* Every step of the service and of the client keeps the invariant.
LEMMA InboxStepKeeps == InboxInv /\ [InboxNext]_inboxVars => InboxInv'
<1> SUFFICES ASSUME InboxInv, [InboxNext]_inboxVars
             PROVE  InboxInv'
  OBVIOUS
<1>0. clock \in Nat /\ writes \in Nat
  BY DEF InboxInv, InboxTypeOK
<1>1. CASE Advance
  BY <1>0, <1>1, GroupStep DEF Advance, InboxInv, InboxTypeOK, Stored
<1>2. ASSUME NEW c \in Conv, NEW welcome \in BOOLEAN, BeginWrite(c, welcome)
      PROVE  InboxInv'
  BY <1>2, BeginWriteKeeps
<1>3. ASSUME NEW t \in open, Commit(t) \/ Rollback(t)
      PROVE  InboxInv'
  <2>1. CASE Commit(t)
    BY <2>1, CommitKeeps
  <2>2. CASE Rollback(t)
    BY <2>2 DEF Rollback, InboxInv, InboxTypeOK, AckedIsStored, Stored
  <2> QED BY <1>3, <2>1, <2>2
<1>4. ASSUME NEW limit \in Limits, StartListing(limit)
      PROVE  InboxInv'
  BY <1>0, <1>4, GroupStep DEF StartListing, InboxInv, InboxTypeOK, Stored
<1>5. CASE ListPage
  <2> DEFINE page == PageBelow(listing.cursor)
  <2>1. page \in SUBSET Conv
    BY DEF PageBelow
  <2>2. group' = Taken(page) /\ row' = row /\ UNCHANGED <<clock, open, writes, acks>>
    BY <1>5 DEF ListPage, AfterFetch
  <2> HIDE DEF page
  <2> QED BY <1>0, <2>1, <2>2, TakenKeeps, GroupStep
<1>6. ASSUME NEW c \in Conv, JoinGroup(c) \/ StoreGroup(c)
      PROVE  InboxInv'
  <2>1. /\ group' \in [Conv -> Progress]
        /\ \A d \in Conv : Stored(d) => group'[d] \in {"held", "kept"}
        /\ UNCHANGED <<clock, row, open, writes, acks>>
    BY <1>6 DEF JoinGroup, StoreGroup, InboxInv, InboxTypeOK, Progress, Stored
  <2> QED BY <1>0, <2>1, GroupStep
<1>7. ASSUME NEW c \in Conv, SendAck(c)
      PROVE  InboxInv'
  BY <1>7 DEF SendAck, InboxInv, InboxTypeOK, Progress, AckedIsStored, Stored
<1>8. ASSUME NEW c \in Conv, GetById(c)
      PROVE  InboxInv'
  <2>1. group' = Taken({c}) /\ row' = row /\ UNCHANGED <<clock, open, writes, acks>>
    BY <1>8 DEF GetById, AfterFetch
  <2> QED BY <1>0, <2>1, TakenKeeps, GroupStep
<1>9. ASSUME NEW c \in Conv, AckMlsWelcome(c)
      PROVE  InboxInv'
  BY <1>9, AckKeeps
<1>10. ASSUME NEW c \in Conv, AckLost(c)
       PROVE  InboxInv'
  BY <1>0, <1>10, GroupStep DEF AckLost, InboxInv, InboxTypeOK, Stored
<1>11. CASE Restart
  <2>1. /\ group' \in [Conv -> Progress]
        /\ \A d \in Conv : Stored(d) => group'[d] \in {"held", "kept"}
        /\ UNCHANGED <<clock, row, open, writes, acks>>
    BY <1>11 DEF Restart, Stored, Progress
  <2> QED BY <1>0, <2>1, GroupStep
<1>12. CASE UNCHANGED inboxVars
  BY <1>12 DEF inboxVars, InboxInv, InboxTypeOK, AckedIsStored, Stored
<1> QED BY <1>1, <1>2, <1>3, <1>4, <1>5, <1>6, <1>7, <1>8, <1>9, <1>10, <1>11, <1>12
        DEF InboxNext, ClientStep

\* However often the client fetches, restarts or loses an ack, a Welcome it has
\* not stored is still shown to it.
THEOREM WelcomeIsKept == InboxSpec => []WelcomeKept
<1>1. InboxInv => WelcomeKept
  BY DEF InboxInv, AckedIsStored, WelcomeKept, Shows
<1> QED BY <1>1, InboxStarts, InboxStepKeeps, PTL DEF InboxSpec

----------------------------------------------------------------------------
(* The walk of the list.                                                    *)

ListingType ==
  [on : BOOLEAN, ended : BOOLEAN, limit : Nat, cursor : Nat, shown : [Conv -> Nat],
   quiet : SUBSET Conv]

\* No row or transaction is younger than the clock, and a walk asks for a page.
InTime ==
  /\ clock <= MaxTime
  /\ \A c \in Conv : row[c].updated <= clock
  /\ \A t \in open : t.at <= clock
  /\ listing \in ListingType
  /\ listing.on => listing.limit >= 1

\* A conversation that stays where it is has its millisecond for itself, and the walk has
\* shown it once if it has passed it, and else not yet.
ShownSoFar ==
  /\ \A c \in listing.quiet : row[c].exists /\ ~Tied(c)
  /\ listing.on => \A c \in listing.quiet :
       listing.shown[c] = IF RankOf(c) >= listing.cursor THEN 1 ELSE 0
  /\ ListedOnce

ListInv == InTime /\ ShownSoFar

\* A set of numbers has a least one; a finite set of numbers has a greatest.
LEMMA LeastNumber ==
  ASSUME NEW T, T \subseteq Nat, T # {}
  PROVE  \E x \in T : \A y \in T : x <= y
<1>1. PICK x \in T : \A y \in T : ~(<<y, x>> \in OpToRel(<, Nat))
  BY WFMin, NatLessThanWellFounded
<1>2. ASSUME NEW y \in T PROVE x <= y
  <2>1. x \in Nat /\ y \in Nat OBVIOUS
  <2>2. ~(y < x) BY <1>1, <2>1 DEF OpToRel
  <2> QED BY <2>1, <2>2
<1> QED BY <1>2

Above(x, T, f) == {y \in T : f[y] > f[x]}

\* A finite set that is not empty has a member that f puts above all others.
LEMMA Highest ==
  ASSUME NEW T, IsFiniteSet(T), T # {}, NEW f \in [T -> Nat]
  PROVE  \E x \in T : \A y \in T : f[y] <= f[x]
<1> DEFINE N == {Cardinality(Above(x, T, f)) : x \in T}
<1>1. \A x \in T : Above(x, T, f) \subseteq T /\ IsFiniteSet(Above(x, T, f))
                   /\ Cardinality(Above(x, T, f)) \in Nat
  BY FS_Subset, FS_CardinalityType DEF Above
<1>2. N \subseteq Nat /\ N # {} BY <1>1
<1>3. PICK x \in T : \A y \in T : Cardinality(Above(x, T, f)) <= Cardinality(Above(y, T, f))
  <2>1. \E n \in N : \A k \in N : n <= k
    <3> HIDE DEF N
    <3> QED BY <1>2, LeastNumber
  <2>2. PICK n \in N : \A k \in N : n <= k BY <2>1
  <2>3. PICK x \in T : n = Cardinality(Above(x, T, f)) OBVIOUS
  <2> QED BY <2>2, <2>3
<1>4. ASSUME NEW y \in T, ~(f[y] <= f[x]) PROVE FALSE
  <2>1. f[y] > f[x] /\ f[y] \in Nat /\ f[x] \in Nat BY <1>4
  <2>2. Above(y, T, f) \subseteq Above(x, T, f) BY <2>1 DEF Above
  <2>3. y \in Above(x, T, f) /\ y \notin Above(y, T, f) BY <2>1 DEF Above
  <2>4. Cardinality(Above(y, T, f)) <= Cardinality(Above(x, T, f))
    BY <1>1, <2>2, FS_Subset
  <2>5. Cardinality(Above(y, T, f)) = Cardinality(Above(x, T, f)) BY <1>1, <1>3, <2>4
  <2>6. Above(y, T, f) = Above(x, T, f) BY <1>1, <2>2, <2>5, FS_Subset
  <2> QED BY <2>3, <2>6
<1> QED BY <1>4

\* Max(Conv) + 1 is more than every conversation, so a Rank is read as digits.
LEMMA MaxConv == /\ Max(Conv) + 1 \in Nat
                 /\ \A c \in Conv : c \in Nat /\ c < Max(Conv) + 1
<1> DEFINE f == [c \in Conv |-> c]
<1>1. f \in [Conv -> Nat] BY InboxAssumption
<1>2. \E x \in Conv : \A y \in Conv : f[y] <= f[x] BY <1>1, InboxAssumption, Highest
<1>3. \E x \in Conv : \A y \in Conv : x >= y BY <1>1, <1>2, InboxAssumption
<1>4. Max(Conv) \in Conv /\ \A y \in Conv : Max(Conv) >= y BY <1>3 DEF Max
<1>5. PICK m \in Nat : m = Max(Conv) /\ \A y \in Conv : m >= y BY <1>4, InboxAssumption
<1>6. \A c \in Conv : c \in Nat BY InboxAssumption
<1> QED BY <1>5, <1>6

\* Places in the list are ordered by the time, then by the id.
LEMMA RankOrder ==
  ASSUME NEW u \in Nat, NEW c \in Conv \cup {0}
  PROVE  /\ Rank(u, c) \in Nat
         /\ \A v \in Nat : \A d \in Conv \cup {0} :
              /\ u < v => Rank(u, c) < Rank(v, d)
              /\ u <= v => Rank(u, d) <= Rank(v, d)
              /\ Rank(u, c) = Rank(v, d) => c = d
              /\ Rank(u, c) < Rank(v, d) => u <= v
<1>1. PICK M \in Nat : M = Max(Conv) + 1 /\ \A d \in Conv \cup {0} : d \in Nat /\ d < M
  <2>1. Max(Conv) + 1 > 0
    <3>1. PICK c0 \in Conv : TRUE BY InboxAssumption
    <3> QED BY <3>1, MaxConv
  <2>2. 0 \in Nat OBVIOUS
  <2> QED BY <2>1, <2>2, MaxConv
<1>2. \A v \in Nat : \A d \in Conv \cup {0} : Rank(v, d) = v * M + d BY <1>1 DEF Rank, Places
<1>3. \A x, y \in Nat : x * y \in Nat OBVIOUS
<1>4. \A v \in Nat : v * M \in Nat BY <1>1, <1>3
<1>5. \A v, x \in Nat : v < x => v * M + M <= x * M
  <2> TAKE v, x \in Nat
  <2> HAVE v < x
  <2>1. PICK k \in Nat : x = v + 1 + k
    <3>1. x - v - 1 \in Nat /\ x = v + 1 + (x - v - 1) OBVIOUS
    <3> QED BY <3>1
  <2>2. x * M = v * M + M + k * M BY <2>1
  <2>3. v * M \in Nat /\ k * M \in Nat BY <1>4
  <2> QED BY ONLY <1>1, <2>2, <2>3
<1>6. \A v, x \in Nat : \A d, e \in Conv \cup {0} : v < x => v * M + d < x * M + e
  <2> TAKE v, x \in Nat
  <2> TAKE d, e \in Conv \cup {0}
  <2> HAVE v < x
  <2>1. PICK a \in Nat, b \in Nat : a = v * M /\ b = x * M BY <1>4
  <2>2. a + M <= b BY <1>5, <2>1
  <2>3. d \in Nat /\ d < M /\ e \in Nat BY <1>1
  <2>4. a + d < b + e BY ONLY <2>2, <2>3, M \in Nat, a \in Nat, b \in Nat
  <2> QED BY <2>1, <2>4
<1>7. Rank(u, c) \in Nat
  <2>1. PICK a \in Nat : a = u * M BY <1>4
  <2>2. c \in Nat BY <1>1
  <2>3. Rank(u, c) = a + c BY <1>2, <2>1
  <2>4. a + c \in Nat BY ONLY <2>2, a \in Nat
  <2> QED BY <2>3, <2>4
<1>8. ASSUME NEW v \in Nat, NEW d \in Conv \cup {0}
      PROVE  /\ u < v => Rank(u, c) < Rank(v, d)
             /\ u <= v => Rank(u, d) <= Rank(v, d)
             /\ Rank(u, c) = Rank(v, d) => c = d
             /\ Rank(u, c) < Rank(v, d) => u <= v
  <2>1. PICK x \in Nat, y \in Nat, C \in Nat, D \in Nat :
          x = u * M /\ y = v * M /\ C = c /\ D = d
    BY <1>1, <1>4
  <2>2. (u < v => x + C < y + D /\ x + D < y + D) /\ (v < u => y + D < x + C)
        /\ (u = v => x = y)
    BY <1>6, <2>1
  <2>3. Rank(u, c) = x + C /\ Rank(v, d) = y + D /\ Rank(u, d) = x + D BY <1>2, <2>1
  <2>4. \/ u < v \/ u = v \/ v < u OBVIOUS
  <2>5. /\ u < v => x + C < y + D
        /\ u <= v => x + D <= y + D
        /\ x + C = y + D => C = D
        /\ x + C < y + D => u <= v
    BY ONLY <2>2, <2>4, u \in Nat, v \in Nat
  <2> QED BY <2>1, <2>3, <2>5
<1> QED BY <1>7, <1>8

\* A millisecond holds the times from its start to that of the next.
LEMMA Milliseconds ==
  ASSUME NEW t \in Nat
  PROVE  /\ TimeOf(t) \in Nat /\ TimeOf(t) * Millisecond \in Nat
         /\ TimeOf(t) * Millisecond <= t
         /\ \A u \in Nat : u <= t /\ TimeOf(u) # TimeOf(t) => u < TimeOf(t) * Millisecond
<1>1. PICK m \in Nat : m = Millisecond /\ m > 0 BY InboxAssumption
<1>2. \A u \in Nat : u \div m \in Nat /\ u = (u \div m) * m + (u % m) /\ u % m \in 0..(m - 1)
  BY <1>1
<1>3. \A x, y \in Nat : x * y \in Nat OBVIOUS
<1>4. \A u \in Nat : /\ TimeOf(u) \in Nat /\ TimeOf(u) * m \in Nat
                     /\ TimeOf(u) * m <= u /\ u < TimeOf(u) * m + m
  BY <1>1, <1>2, <1>3 DEF TimeOf
<1>5. ASSUME NEW u \in Nat, u <= t, TimeOf(u) # TimeOf(t) PROVE u < TimeOf(t) * m
  <2>1. PICK a \in Nat, b \in Nat : a = TimeOf(u) /\ b = TimeOf(t) BY <1>4
  <2>2. CASE a < b
    <3>1. PICK k \in Nat : b = a + 1 + k
      <4>1. b - a - 1 \in Nat /\ b = a + 1 + (b - a - 1) BY <2>2
      <4> QED BY <4>1
    <3>2. b * m = a * m + m + k * m BY <3>1
    <3>3. k * m \in Nat /\ a * m \in Nat BY <1>3
    <3> QED BY ONLY <1>4, <2>1, <3>2, <3>3, <1>1, u \in Nat
  <2>3. CASE b < a
    <3>1. PICK k \in Nat : a = b + 1 + k
      <4>1. a - b - 1 \in Nat /\ a = b + 1 + (a - b - 1) BY <2>3
      <4> QED BY <4>1
    <3>2. a * m = b * m + m + k * m BY <3>1
    <3>3. k * m \in Nat /\ b * m \in Nat BY <1>3
    <3> QED BY ONLY <1>4, <1>5, <2>1, <3>2, <3>3, <1>1, u \in Nat, t \in Nat
  <2> QED BY <1>5, <2>1, <2>2, <2>3
<1> QED BY <1>1, <1>4, <1>5

\* What a walk has before it, and the page of it that is read.
Rest == {c \in Conv : row[c].exists /\ RankOf(c) < listing.cursor}
Page == PageBelow(listing.cursor)
Higher(c) == {d \in Rest : RankOf(d) > RankOf(c)}
Last == CHOOSE c \in Page : \A d \in Page : RankOf(c) <= RankOf(d)

\* The list is a linear order of the conversations.
LEMMA RankOfOrders ==
  ASSUME InboxTypeOK
  PROVE  \A c \in Conv : /\ row[c].updated \in Nat /\ RankOf(c) \in Nat
                         /\ \A d \in Conv : RankOf(c) = RankOf(d) => c = d
                         /\ \A d \in Conv : RankOf(c) < RankOf(d) => row[c].updated <= row[d].updated
<1>1. \A c \in Conv : row[c].updated \in Nat BY DEF InboxTypeOK, RowType
<1> QED BY <1>1, RankOrder DEF RankOf

\* A page holds the rows below the cursor that have fewer than `limit` rows above them.
LEMMA PageIs ==
  ASSUME InboxTypeOK, InTime
  PROVE  /\ Page = {c \in Rest : Cardinality(Higher(c)) < listing.limit}
         /\ Rest \subseteq Conv /\ IsFiniteSet(Rest) /\ IsFiniteSet(Page) /\ Page \subseteq Rest
         /\ listing.limit \in Nat /\ listing.cursor \in Nat
         /\ \A c \in Conv : /\ IsFiniteSet(Higher(c)) /\ Cardinality(Higher(c)) \in Nat
                            /\ Higher(c) \subseteq Rest
<1>1. Page = {c \in Rest : Cardinality(Higher(c)) < listing.limit}
  BY DEF Page, PageBelow, Rest, Higher
<1>2. Rest \subseteq Conv /\ Page \subseteq Rest BY <1>1 DEF Rest
<1>3. IsFiniteSet(Rest) /\ IsFiniteSet(Page) BY <1>2, InboxAssumption, FS_Subset
<1>4. listing.limit \in Nat /\ listing.cursor \in Nat BY DEF InTime, ListingType
<1>5. \A c \in Conv : Higher(c) \subseteq Rest BY DEF Higher
<1>6. \A c \in Conv : IsFiniteSet(Higher(c)) /\ Cardinality(Higher(c)) \in Nat
  BY <1>3, <1>5, FS_Subset, FS_CardinalityType
<1> QED BY <1>1, <1>2, <1>3, <1>4, <1>5, <1>6

\* What a page leaves out is below everything it shows.
LEMMA LeftOutIsBelow ==
  ASSUME InboxTypeOK, InTime, NEW c \in Rest \ Page, NEW d \in Page
  PROVE  RankOf(c) < RankOf(d)
<1>1. /\ c \in Conv /\ d \in Conv /\ RankOf(c) \in Nat /\ RankOf(d) \in Nat
      /\ \A x \in Conv : RankOf(x) \in Nat
  BY PageIs, RankOfOrders
<1>2. ASSUME RankOf(d) <= RankOf(c) PROVE FALSE
  <2>1. Higher(c) \subseteq Higher(d) BY <1>1, <1>2, PageIs DEF Higher
  <2>2. Cardinality(Higher(c)) <= Cardinality(Higher(d)) BY <1>1, <2>1, PageIs, FS_Subset
  <2>3. Cardinality(Higher(d)) < listing.limit /\ ~(Cardinality(Higher(c)) < listing.limit)
    BY PageIs
  <2> QED BY <1>1, <2>2, <2>3, PageIs
<1> QED BY <1>1, <1>2

\* The page has a last row.
LEMMA LastOfPage ==
  ASSUME InboxTypeOK, InTime, Page # {}
  PROVE  Last \in Page /\ \A d \in Page : RankOf(Last) <= RankOf(d)
<1> DEFINE T == {RankOf(c) : c \in Page}
<1>1. T \subseteq Nat /\ T # {} BY PageIs, RankOfOrders
<1>2. \E n \in T : \A k \in T : n <= k
  <2> HIDE DEF T
  <2> QED BY <1>1, LeastNumber
<1>3. \E c \in Page : \A d \in Page : RankOf(c) <= RankOf(d) BY <1>2
<1> QED BY <1>3 DEF Last

\* A page that leaves something out is full: it is what lies above the first left out, and
\* what lies above its last is one less.
LEMMA LeavesOutIfFull ==
  ASSUME InboxTypeOK, InTime, listing.limit >= 1, Rest \ Page # {}
  PROVE  Cardinality(Page) = listing.limit
<1> DEFINE f == [c \in Rest \ Page |-> RankOf(c)]
<1>1. f \in [Rest \ Page -> Nat] /\ IsFiniteSet(Rest \ Page)
  BY PageIs, RankOfOrders, FS_Subset
<1>2. PICK c \in Rest \ Page : \A d \in Rest \ Page : RankOf(d) <= RankOf(c)
  <2>1. \E x \in Rest \ Page : \A y \in Rest \ Page : f[y] <= f[x] BY <1>1, Highest
  <2> QED BY <2>1
<1>3. \A x \in Rest : RankOf(x) \in Nat /\ \A y \in Rest : RankOf(x) = RankOf(y) => x = y
  BY PageIs, RankOfOrders
<1>4. Higher(c) = Page
  <2>1. ASSUME NEW d \in Higher(c) PROVE d \in Page
    <3>1. d \in Rest /\ RankOf(d) > RankOf(c) BY DEF Higher
    <3> QED BY <1>2, <1>3, <3>1
  <2>2. ASSUME NEW d \in Page PROVE d \in Higher(c)
    <3>1. RankOf(c) < RankOf(d) BY LeftOutIsBelow
    <3>2. d \in Rest BY PageIs
    <3> QED BY <1>3, <3>1, <3>2 DEF Higher
  <2> QED BY <2>1, <2>2
<1>5. Cardinality(Page) \in Nat /\ listing.limit \in Nat BY PageIs, FS_CardinalityType
<1>6. Cardinality(Page) >= listing.limit BY <1>4, <1>5, PageIs
<1>7. Page # {} BY <1>5, <1>6, FS_EmptySet
<1>8. Last \in Page /\ \A d \in Page : RankOf(Last) <= RankOf(d) BY <1>7, LastOfPage
<1>9. Page = Higher(Last) \cup {Last} /\ Last \notin Higher(Last)
  <2>1. Last \in Rest BY <1>8, PageIs
  <2>2. ASSUME NEW d \in Page, d # Last PROVE d \in Higher(Last)
    <3>1. d \in Rest /\ RankOf(Last) <= RankOf(d) BY <1>8, PageIs
    <3>2. RankOf(d) > RankOf(Last) BY <1>3, <2>1, <2>2, <3>1
    <3> QED BY <3>1, <3>2 DEF Higher
  <2>3. ASSUME NEW d \in Higher(Last) PROVE d \in Page
    <3>1. d \in Rest /\ RankOf(d) > RankOf(Last) BY DEF Higher
    <3>2. d \in Rest \ Page => RankOf(d) < RankOf(Last) BY <1>8, LeftOutIsBelow
    <3> QED BY <1>3, <2>1, <3>1, <3>2
  <2>4. Last \notin Higher(Last) BY <1>3, <2>1 DEF Higher
  <2> QED BY <1>8, <2>2, <2>3, <2>4
<1>10. Cardinality(Page) = Cardinality(Higher(Last)) + 1
  <2>1. Last \in Conv /\ IsFiniteSet(Higher(Last)) BY <1>8, PageIs
  <2> QED BY <1>9, <2>1, FS_AddElement
<1>11. Cardinality(Higher(Last)) < listing.limit /\ Cardinality(Higher(Last)) \in Nat
  BY <1>8, PageIs
<1> QED BY <1>5, <1>6, <1>10, <1>11

\* The cursor made of the last row stays above what the page leaves out, if that has its
\* millisecond for itself, and below what it shows.
LEMMA CursorSeparates ==
  ASSUME InboxTypeOK, InTime, Page # {}
  PROVE  /\ CursorAt(Last) \in Nat
         /\ \A d \in Page : CursorAt(Last) <= RankOf(d)
         /\ CursorAt(Last) <= listing.cursor
         /\ \A c \in Rest \ Page : ~Tied(c) => RankOf(c) < CursorAt(Last)
<1>1. Last \in Page /\ \A d \in Page : RankOf(Last) <= RankOf(d) BY LastOfPage
<1>2. Last \in Rest /\ Last \in Conv BY <1>1, PageIs
<1>3. PICK u \in Nat : u = row[Last].updated BY <1>2, RankOfOrders
<1>4. PICK v \in Nat : v = TimeOf(u) * Millisecond /\ v <= u
                       /\ \A t \in Nat : t <= u /\ TimeOf(t) # TimeOf(u) => t < v
  BY Milliseconds
<1>5. CursorAt(Last) = Rank(v, Last) /\ RankOf(Last) = Rank(u, Last)
  BY <1>3, <1>4 DEF CursorAt, RankOf
<1>6. CursorAt(Last) \in Nat /\ RankOf(Last) \in Nat /\ CursorAt(Last) <= RankOf(Last)
  BY <1>2, <1>4, <1>5, RankOrder
<1>7. ASSUME NEW d \in Page PROVE CursorAt(Last) <= RankOf(d)
  <2>1. RankOf(d) \in Nat /\ RankOf(Last) <= RankOf(d) BY <1>1, PageIs, RankOfOrders
  <2> QED BY <1>6, <2>1
<1>8. CursorAt(Last) <= listing.cursor
  <2>1. RankOf(Last) < listing.cursor /\ listing.cursor \in Nat BY <1>2, PageIs DEF Rest
  <2> QED BY <1>6, <2>1
<1>9. ASSUME NEW c \in Rest \ Page, ~Tied(c) PROVE RankOf(c) < CursorAt(Last)
  <2>1. c \in Conv /\ c # Last BY <1>1, PageIs
  <2>2. RankOf(c) < RankOf(Last) BY <1>1, LeftOutIsBelow
  <2>3. PICK t \in Nat : t = row[c].updated /\ t <= u BY <1>2, <1>3, <2>1, <2>2, RankOfOrders
  <2>4. TimeOf(t) # TimeOf(u) BY <1>2, <1>3, <1>9, <2>1, <2>3 DEF Tied, TiedIn, Rest
  <2>5. t < v BY <1>4, <2>3, <2>4
  <2> QED BY <1>2, <1>5, <2>1, <2>3, <2>5, RankOrder DEF RankOf
<1> QED BY <1>6, <1>7, <1>8, <1>9

\* A step that reads no page, and moves no conversation that counts as quiet after it.
LEMMA QuietStep ==
  ASSUME ShownSoFar, listing \in ListingType, NEW q \in SUBSET listing.quiet,
         listing' = [listing EXCEPT !.quiet = q],
         \A c \in q : row'[c].exists = row[c].exists /\ row'[c].updated = row[c].updated
                      /\ ~Tied(c)'
  PROVE  ShownSoFar' /\ listing' \in ListingType /\ listing'.on = listing.on
         /\ listing'.limit = listing.limit
<1>1. /\ listing' \in ListingType /\ listing'.quiet = q
      /\ listing'.on = listing.on /\ listing'.ended = listing.ended /\ listing'.limit = listing.limit
      /\ listing'.cursor = listing.cursor /\ listing'.shown = listing.shown
  BY DEF ListingType
<1>2. \A c \in q : c \in listing.quiet /\ RankOf(c)' = RankOf(c) BY DEF RankOf, Rank
<1> QED BY <1>1, <1>2 DEF ShownSoFar, ListedOnce

\* Nothing of the list moves if the rows keep their existence and their times.
LEMMA SamePlaces ==
  ASSUME \A c \in Conv : row'[c].exists = row[c].exists /\ row'[c].updated = row[c].updated
  PROVE  \A c \in Conv : Tied(c)' = Tied(c)
BY DEF Tied, TiedIn

\* A step that moves no conversation in the list keeps the walk's invariant.
LEMMA SameListing ==
  ASSUME ListInv, listing' = listing,
         \A c \in Conv : row'[c].exists = row[c].exists /\ row'[c].updated = row[c].updated,
         clock' \in clock .. MaxTime, clock \in Nat, InboxTypeOK,
         \A t \in open' : t \in open \/ t.at = clock
  PROVE  ListInv'
<1>1. \A c \in Conv : Tied(c)' = Tied(c) BY SamePlaces
<1>2. listing \in ListingType BY DEF ListInv, InTime
<1>3. listing.quiet \subseteq Conv BY <1>2 DEF ListingType
<1>4. listing' = [listing EXCEPT !.quiet = listing.quiet] BY <1>2 DEF ListingType
<1>5. ShownSoFar' BY <1>1, <1>2, <1>3, <1>4, QuietStep DEF ListInv, ShownSoFar
<1>6. \A c \in Conv : row'[c].updated <= clock'
  <2>1. \A c \in Conv : row[c].updated \in Nat /\ row[c].updated <= clock
    BY DEF ListInv, InTime, InboxTypeOK, RowType
  <2> QED BY <2>1
<1>7. \A t \in open' : t.at <= clock'
  <2>1. \A t \in open : t.at \in Nat /\ t.at <= clock
    BY DEF ListInv, InTime, InboxTypeOK, OpenType
  <2> QED BY <2>1
<1>8. clock' <= MaxTime BY InboxAssumption
<1> QED BY <1>2, <1>5, <1>6, <1>7, <1>8 DEF ListInv, InTime

\* A commit that moves a conversation takes it, and those it now shares a millisecond with,
\* off those that are quiet.
LEMMA CommitLists ==
  ASSUME InboxTypeOK, ListInv, NEW t \in open, Commit(t) PROVE ListInv'
<1>1. t \in OpenType /\ t.conv \in Conv /\ t.at \in Nat /\ t.at <= clock /\ clock \in Nat
  BY DEF InboxTypeOK, ListInv, InTime, OpenType
<1> DEFINE r == [exists |-> TRUE, updated |-> t.at,
                 welcome |-> row[t.conv].welcome \/ t.welcome,
                 delivered |-> row[t.conv].delivered]
<1>2. row' = [row EXCEPT ![t.conv] = r] /\ r.updated = t.at BY DEF Commit, Written
<1> HIDE DEF r
<1>3. /\ \A c \in Conv : c # t.conv => row'[c] = row[c]
      /\ row'[t.conv].updated = t.at
  BY <1>1, <1>2 DEF InboxTypeOK
<1>4. PICK q : /\ q = {c \in listing.quiet : c # t.conv /\ ~TiedIn(row', c)}
               /\ listing' = [listing EXCEPT !.quiet = q]
  BY DEF Commit
<1>5. listing \in ListingType /\ listing.quiet \subseteq Conv BY DEF ListInv, InTime, ListingType
<1>6. \A c \in q : /\ row'[c].exists = row[c].exists /\ row'[c].updated = row[c].updated
                   /\ ~Tied(c)'
  BY <1>3, <1>4, <1>5 DEF Tied
<1>7. ShownSoFar' /\ listing' \in ListingType /\ listing'.on = listing.on
      /\ listing'.limit = listing.limit
  BY <1>4, <1>5, <1>6, QuietStep DEF ListInv
<1>8. \A c \in Conv : row'[c].updated <= clock BY <1>1, <1>3 DEF ListInv, InTime
<1> QED BY <1>7, <1>8 DEF Commit, ListInv, InTime

\* A new walk has shown nothing, and its cursor lies above everything.
LEMMA StartLists ==
  ASSUME InboxTypeOK, ListInv, NEW limit \in Limits, StartListing(limit) PROVE ListInv'
<1> DEFINE q == {c \in Conv : row[c].exists /\ ~Tied(c)}
           shown == [c \in Conv |-> 0]
<1>1. listing' = [on |-> TRUE, ended |-> FALSE, limit |-> limit, cursor |-> Infinite,
                  shown |-> shown, quiet |-> q]
  BY DEF StartListing, NoListing
<1>2. UNCHANGED <<clock, row, open>> BY DEF StartListing
<1>3. limit \in Nat /\ limit >= 1 /\ MaxTime + 1 \in Nat BY InboxAssumption
<1>4. Infinite \in Nat BY <1>3, RankOrder DEF Infinite
<1>5. \A c \in Conv : RankOf(c) < Infinite /\ RankOf(c) \in Nat
  <2>1. \A c \in Conv : row[c].updated \in Nat /\ row[c].updated < MaxTime + 1
    BY InboxAssumption DEF InboxTypeOK, RowType, ListInv, InTime
  <2> QED BY <1>3, <2>1, RankOrder DEF RankOf, Infinite
<1>6. shown \in [Conv -> Nat] /\ q \in SUBSET Conv OBVIOUS
<1>7. listing' \in ListingType BY <1>1, <1>3, <1>4, <1>6 DEF ListingType
<1>8. /\ listing'.on /\ ~listing'.ended /\ listing'.limit = limit /\ listing'.cursor = Infinite
      /\ listing'.quiet = q /\ listing'.shown = shown
  BY <1>1
<1>9. \A c \in q : c \in Conv /\ row[c].exists /\ ~Tied(c) /\ shown[c] = 0 OBVIOUS
<1>10. \A c \in Conv : RankOf(c)' = RankOf(c) /\ Tied(c)' = Tied(c)
  BY <1>2 DEF RankOf, Tied, TiedIn
<1> HIDE DEF q, shown
<1>11. ShownSoFar'
  <2>1. \A c \in q : ~(RankOf(c)' >= listing'.cursor) BY <1>4, <1>5, <1>8, <1>9, <1>10
  <2> QED BY <1>2, <1>8, <1>9, <1>10, <2>1 DEF ShownSoFar, ListedOnce
<1> QED BY <1>2, <1>3, <1>7, <1>8, <1>11 DEF ListInv, InTime

\* The next page shows what is quiet below the cursor and above the next one, and when it is
\* the last everything below the cursor.
LEMMA PageLists ==
  ASSUME InboxTypeOK, ListInv, ListPage PROVE ListInv'
<1> USE DEF ListInv
<1>1. listing \in ListingType /\ listing.on /\ listing.limit >= 1
      /\ UNCHANGED <<row, clock, open>>
  BY DEF InTime, ListPage, AfterFetch
<1>2. listing.limit \in Nat /\ listing.cursor \in Nat /\ listing.quiet \subseteq Conv
      /\ listing.shown \in [Conv -> Nat]
  BY <1>1 DEF ListingType
<1> DEFINE shown == [c \in Conv |-> IF c \in Page /\ listing.shown[c] < 2
                                      THEN listing.shown[c] + 1 ELSE listing.shown[c]]
           cursor == IF More(Page) THEN CursorAt(Last) ELSE listing.cursor
<1>3. listing' = [listing EXCEPT !.on = More(Page), !.ended = ~More(Page), !.cursor = cursor,
                                 !.shown = shown]
  BY DEF ListPage, Page, Last
<1>4. shown \in [Conv -> Nat] BY <1>2
<1>5. More(Page) => Page # {}
  <2>1. CASE Page = {}
    <3>1. Cardinality(Page) = 0 BY <2>1, FS_EmptySet
    <3>2. Cardinality(Page) # listing.limit BY <1>1, <1>2, <3>1
    <3> QED BY <3>2 DEF More
  <2> QED BY <2>1
<1>6. cursor \in Nat /\ cursor <= listing.cursor /\ (More(Page) => cursor = CursorAt(Last))
  BY <1>2, <1>5, CursorSeparates
<1>7. More(Page) \in BOOLEAN BY DEF More
<1>8. /\ \A c \in Page : listing.shown[c] = 0 => shown[c] = 1
      /\ \A c \in Conv \ Page : shown[c] = listing.shown[c]
  BY <1>2, PageIs DEF Rest
<1> HIDE DEF shown, cursor
<1>9. /\ listing' \in ListingType /\ listing'.limit = listing.limit
      /\ listing'.on = More(Page) /\ listing'.ended = ~More(Page) /\ listing'.cursor = cursor
      /\ listing'.shown = shown /\ listing'.quiet = listing.quiet
  BY <1>1, <1>3, <1>4, <1>6, <1>7 DEF ListingType
<1>10. \A c \in Conv : RankOf(c)' = RankOf(c) /\ Tied(c)' = Tied(c)
  BY <1>1 DEF RankOf, Tied, TiedIn
<1>11. ASSUME NEW c \in listing.quiet
       PROVE  shown[c] = IF ~More(Page) \/ RankOf(c) >= cursor THEN 1 ELSE 0
  <2>1. /\ c \in Conv /\ RankOf(c) \in Nat /\ row[c].exists /\ ~Tied(c)
        /\ listing.shown[c] = IF RankOf(c) >= listing.cursor THEN 1 ELSE 0
    BY <1>1, <1>2, RankOfOrders DEF ShownSoFar
  <2>2. CASE RankOf(c) >= listing.cursor
    <3>1. c \notin Page BY <1>2, <2>1, <2>2, PageIs DEF Rest
    <3>2. RankOf(c) >= cursor BY <1>2, <1>6, <2>1, <2>2
    <3> QED BY <1>8, <2>1, <2>2, <3>1, <3>2
  <2>3. CASE c \in Page
    <3>1. listing.shown[c] = 0 BY <1>2, <2>1, <2>3, PageIs DEF Rest
    <3>2. More(Page) => RankOf(c) >= cursor
      BY <1>6, <2>1, <2>3, CursorSeparates
    <3> QED BY <1>8, <2>3, <3>1, <3>2
  <2>4. CASE ~(RankOf(c) >= listing.cursor) /\ c \notin Page
    <3>1. c \in Rest \ Page BY <1>2, <2>1, <2>4 DEF Rest
    <3>2. More(Page) BY <1>1, <3>1, LeavesOutIfFull DEF More
    <3>3. RankOf(c) < cursor BY <1>5, <1>6, <2>1, <3>1, <3>2, CursorSeparates
    <3>4. ~(RankOf(c) >= cursor) BY <1>6, <2>1, <3>3
    <3> QED BY <1>8, <2>1, <2>4, <3>2, <3>4
  <2> QED BY <2>2, <2>3, <2>4
<1>12. ShownSoFar'
  <2>1. \A c \in listing.quiet : c \in Conv /\ row[c].exists /\ ~Tied(c)
    BY <1>2 DEF ShownSoFar
  <2>2. \A c \in listing'.quiet : row'[c].exists /\ ~Tied(c)'
    BY <1>1, <1>9, <1>10, <2>1
  <2>3. listing'.on => \A c \in listing'.quiet :
          listing'.shown[c] = IF RankOf(c)' >= listing'.cursor THEN 1 ELSE 0
    BY <1>9, <1>10, <1>11, <2>1
  <2>4. listing'.ended => \A c \in listing'.quiet : listing'.shown[c] = 1
    BY <1>9, <1>11
  <2> QED BY <2>2, <2>3, <2>4 DEF ShownSoFar, ListedOnce
<1> QED BY <1>1, <1>9, <1>12 DEF InTime

\* A client that restarts has no walk.
LEMMA RestartLists ==
  ASSUME InboxTypeOK, ListInv, Restart PROVE ListInv'
<1>1. listing' = NoListing /\ UNCHANGED <<row, clock, open>> BY DEF Restart
<1>2. Infinite \in Nat
  <2>1. MaxTime + 1 \in Nat BY InboxAssumption
  <2> QED BY <2>1, RankOrder DEF Infinite
<1>3. NoListing \in ListingType BY <1>2 DEF NoListing, ListingType
<1>4. ~NoListing.on /\ ~NoListing.ended /\ NoListing.quiet = {} BY DEF NoListing
<1> HIDE DEF NoListing
<1> QED BY <1>1, <1>3, <1>4 DEF ListInv, InTime, ShownSoFar, ListedOnce

\* ListInv is inductive: between two pages a walk has shown exactly what is quiet above its
\* cursor, whatever is written meanwhile.
THEOREM WalkInvariance == InboxSpec => []ListInv
<1>1. InboxInit => ListInv
  <2> SUFFICES ASSUME InboxInit PROVE ListInv
    OBVIOUS
  <2>1. clock \in Nat /\ clock <= MaxTime
    <3>1. clock \in 0..MaxTime BY DEF InboxInit
    <3> QED BY <3>1, InboxAssumption
  <2>2. Infinite \in Nat
    <3>1. MaxTime + 1 \in Nat BY InboxAssumption
    <3> QED BY <3>1, RankOrder DEF Infinite
  <2>3. NoListing \in ListingType BY <2>2 DEF NoListing, ListingType
  <2>4. ~NoListing.on /\ ~NoListing.ended /\ NoListing.quiet = {} BY DEF NoListing
  <2>5. \A c \in Conv : row[c].updated <= clock
    <3>1. NoRow.updated = 0 BY DEF NoRow
    <3>2. \A t \in 0..clock : [NoRow EXCEPT !.exists = TRUE, !.updated = t].updated = t
      BY DEF NoRow
    <3>3. ASSUME NEW c \in Conv PROVE row[c].updated <= clock
      <4>1. row[c] = NoRow \/ \E t \in 0..clock :
              row[c] = [NoRow EXCEPT !.exists = TRUE, !.updated = t]
        BY DEF InboxInit
      <4>2. row[c].updated = 0 \/ row[c].updated \in 0..clock BY <3>1, <3>2, <4>1
      <4> QED BY <2>1, <4>2
    <3> QED BY <3>3
  <2>6. listing = NoListing /\ open = {} BY DEF InboxInit
  <2> HIDE DEF NoListing
  <2> QED BY <2>1, <2>3, <2>4, <2>5, <2>6 DEF ListInv, InTime, ShownSoFar, ListedOnce
<1>2. InboxInv /\ ListInv /\ [InboxNext]_inboxVars => ListInv'
  <2> SUFFICES ASSUME InboxTypeOK, ListInv, [InboxNext]_inboxVars PROVE ListInv'
    BY DEF InboxInv
  <2>1. clock \in Nat /\ clock <= MaxTime BY DEF InboxTypeOK, ListInv, InTime
  <2>2. clock \in clock .. MaxTime BY <2>1, InboxAssumption
  <2>3. CASE Advance
    <3>1. clock' \in clock .. MaxTime BY <2>1, <2>3, InboxAssumption DEF Advance
    <3> QED BY <2>1, <2>3, <3>1, SameListing DEF Advance
  <2>4. ASSUME NEW c \in Conv, NEW welcome \in BOOLEAN, BeginWrite(c, welcome) PROVE ListInv'
    <3>1. \A t \in open' : t \in open \/ t.at = clock BY <2>4 DEF BeginWrite
    <3> QED BY <2>1, <2>2, <2>4, <3>1, SameListing DEF BeginWrite
  <2>5. ASSUME NEW t \in open, Rollback(t) PROVE ListInv'
    BY <2>1, <2>2, <2>5, SameListing DEF Rollback
  <2>6. ASSUME NEW c \in Conv,
               JoinGroup(c) \/ StoreGroup(c) \/ SendAck(c) \/ GetById(c) \/ AckLost(c)
        PROVE  ListInv'
    <3>1. UNCHANGED <<clock, row, open, listing>>
      BY <2>6 DEF JoinGroup, StoreGroup, SendAck, GetById, AckLost, AfterFetch
    <3> QED BY <2>1, <2>2, <3>1, SameListing
  <2>7. ASSUME NEW c \in Conv, AckMlsWelcome(c) PROVE ListInv'
    <3>1. \A d \in Conv : row'[d].exists = row[d].exists /\ row'[d].updated = row[d].updated
      BY <2>7 DEF AckMlsWelcome, InboxTypeOK, RowType
    <3> QED BY <2>1, <2>2, <2>7, <3>1, SameListing DEF AckMlsWelcome
  <2>8. CASE UNCHANGED inboxVars
    <3>1. UNCHANGED <<clock, row, open, listing>> BY <2>8 DEF inboxVars
    <3> QED BY <2>1, <2>2, <3>1, SameListing
  <2> QED BY <2>3, <2>4, <2>5, <2>6, <2>7, <2>8, CommitLists, StartLists, PageLists, RestartLists
          DEF InboxNext, ClientStep
<1>3. InboxSpec => []InboxInv BY InboxStarts, InboxStepKeeps, PTL DEF InboxSpec
<1> QED BY <1>1, <1>2, <1>3, PTL DEF InboxSpec

\* A walk shows a conversation that stays where it is exactly once.
THEOREM EveryoneIsListedOnce == InboxSpec => []ListedOnce
<1>1. ListInv => ListedOnce BY DEF ListInv, ShownSoFar
<1> QED BY <1>1, WalkInvariance, PTL

-----------------------------------------------------------------------------
(* The read mark.                                                           *)

ReceiptType ==
  [pc : {"idle", "membership", "upsert", "other", "publish", "answer"},
   socket : BOOLEAN, seq : 0..MaxSeq]

ReadTypeOK ==
  /\ mark \in 0..MaxSeq
  /\ receipt \in [Receipt -> ReceiptType]
  /\ told \subseteq 0..MaxSeq

\* Past upsert, a handler holds a number the mark has reached.
StoredBeforeTold ==
  \A r \in Receipt :
    receipt[r].pc \in {"other", "publish", "answer"} => receipt[r].seq <= mark

ReadInv == ReadTypeOK /\ StoredBeforeTold /\ ToldIsStored

\* GREATEST is one of the two and no less than either (upsert).
LEMMA GreatestBounds ==
  ASSUME NEW m \in 0..MaxSeq, NEW n \in 0..MaxSeq
  PROVE  /\ Greatest(m, n) \in 0..MaxSeq
         /\ m <= Greatest(m, n)
         /\ n <= Greatest(m, n)
  BY ReadStateAssumption DEF Greatest, ReadStateAssumption

\* The inductive invariant holds before any receipt (migration: no row yet).
LEMMA ReadStarts == ReadInit => ReadInv
  BY ReadStateAssumption
  DEF ReadStateAssumption, ReadInit, ReadInv, ReadTypeOK, ReceiptType, NoReceipt,
      StoredBeforeTold, ToldIsStored

\* Every statement of onConversationRead and markRead keeps it.
LEMMA ReadStepKeeps == ReadInv /\ [ReadNext]_readVars => ReadInv'
<1> SUFFICES ASSUME ReadInv, [ReadNext]_readVars
             PROVE  ReadInv'
  OBVIOUS
<1> USE ReadStateAssumption DEF ReadStateAssumption
<1>1. ASSUME NEW r \in Receipt, NEW socket \in BOOLEAN, NEW n \in 0..MaxSeq,
             Report(r, socket, n)
      PROVE  ReadInv'
  BY <1>1 DEF Report, ReadInv, ReadTypeOK, ReceiptType, StoredBeforeTold, ToldIsStored
<1>2. ASSUME NEW r \in Receipt, FindMembership(r)
      PROVE  ReadInv'
  BY <1>2 DEF FindMembership, To, ReadInv, ReadTypeOK, ReceiptType, StoredBeforeTold,
              ToldIsStored
<1>3. ASSUME NEW r \in Receipt, Upsert(r)
      PROVE  ReadInv'
  <2> DEFINE n == receipt[r].seq
  <2>1. mark \in 0..MaxSeq /\ n \in 0..MaxSeq
    BY DEF ReadInv, ReadTypeOK, ReceiptType
  <2>2. mark' \in 0..MaxSeq /\ mark <= mark' /\ n <= mark'
    BY <1>3, <2>1, GreatestBounds DEF Upsert
  <2>3. /\ receipt' \in [Receipt -> ReceiptType]
        /\ \A q \in Receipt : receipt'[q].seq = receipt[q].seq
        /\ \A q \in Receipt \ {r} : receipt'[q] = receipt[q]
    BY <1>3 DEF Upsert, To, ReadInv, ReadTypeOK, ReceiptType
  <2>4. StoredBeforeTold'
    BY <2>1, <2>2, <2>3 DEF ReadInv, ReadTypeOK, ReceiptType, StoredBeforeTold
  <2>5. ToldIsStored'
    BY <1>3, <2>1, <2>2 DEF Upsert, ReadInv, ReadTypeOK, ToldIsStored
  <2> QED BY <1>3, <2>2, <2>3, <2>4, <2>5 DEF Upsert, ReadInv, ReadTypeOK
<1>4. ASSUME NEW r \in Receipt, FindOtherMember(r)
      PROVE  ReadInv'
  BY <1>4 DEF FindOtherMember, To, ReadInv, ReadTypeOK, ReceiptType, StoredBeforeTold,
              ToldIsStored
<1>5. ASSUME NEW r \in Receipt, Publish(r)
      PROVE  ReadInv'
  <2>1. receipt[r] \in ReceiptType /\ receipt[r].seq <= mark
    BY <1>5 DEF Publish, ReadInv, ReadTypeOK, StoredBeforeTold
  <2>2. receipt' \in [Receipt -> ReceiptType] /\ mark' = mark
    BY <1>5 DEF Publish, To, ReadInv, ReadTypeOK, ReceiptType
  <2>3. told' = told \cup {receipt[r].seq}
    BY <1>5 DEF Publish
  <2>4. told' \subseteq 0..MaxSeq
    BY <2>1, <2>3 DEF ReadInv, ReadTypeOK, ReceiptType
  <2>5. StoredBeforeTold'
    BY <1>5, <2>1, <2>2 DEF Publish, To, ReadInv, ReadTypeOK, ReceiptType, StoredBeforeTold
  <2>6. ToldIsStored'
    BY <2>1, <2>2, <2>3 DEF ReadInv, ToldIsStored
  <2> QED BY <2>2, <2>4, <2>5, <2>6 DEF ReadInv, ReadTypeOK
<1>6. ASSUME NEW r \in Receipt, Answer(r)
      PROVE  ReadInv'
  <2>1. receipt[r] \in ReceiptType /\ receipt[r].seq <= mark
    BY <1>6 DEF Answer, ReadInv, ReadTypeOK, StoredBeforeTold
  <2>2. receipt' \in [Receipt -> ReceiptType] /\ mark' = mark
    BY <1>6 DEF Answer, NoReceipt, ReadInv, ReadTypeOK, ReceiptType
  <2>3. told' = told \cup {receipt[r].seq}
    BY <1>6 DEF Answer
  <2>4. told' \subseteq 0..MaxSeq
    BY <2>1, <2>3 DEF ReadInv, ReadTypeOK, ReceiptType
  <2>5. StoredBeforeTold'
    BY <1>6, <2>1, <2>2 DEF Answer, NoReceipt, ReadInv, ReadTypeOK, ReceiptType, StoredBeforeTold
  <2>6. ToldIsStored'
    BY <2>1, <2>2, <2>3 DEF ReadInv, ToldIsStored
  <2> QED BY <2>2, <2>4, <2>5, <2>6 DEF ReadInv, ReadTypeOK
<1>7. ASSUME NEW r \in Receipt, ReceiptFails(r)
      PROVE  ReadInv'
  BY <1>7 DEF ReceiptFails, NoReceipt, ReadInv, ReadTypeOK, ReceiptType, StoredBeforeTold,
              ToldIsStored
<1>8. CASE UNCHANGED readVars
  BY <1>8 DEF readVars, ReadInv, ReadTypeOK, StoredBeforeTold, ToldIsStored
<1> QED BY <1>1, <1>2, <1>3, <1>4, <1>5, <1>6, <1>7, <1>8 DEF ReadNext

\* Whatever receipts arrive, late, twice or at once, and whichever handlers
\* fail, a number that was published or answered stays stored.
THEOREM ToldNumbersAreStored == ReadSpec => []ToldIsStored
<1>1. ReadInv => ToldIsStored
  BY DEF ReadInv
<1> QED BY <1>1, ReadStarts, ReadStepKeeps, PTL DEF ReadSpec

=============================================================================
