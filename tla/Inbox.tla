-------------------------------- MODULE Inbox -------------------------------
(***************************************************************************)
(* The conversations of one person as their client reads them: the list,   *)
(* page by page, and the MLS Welcome that waits in the person's membership *)
(* row until the client has joined the group and says so.                  *)
(*                                                                         *)
(* updated_at is the start of the transaction that wrote it, in clock      *)
(* units; a cursor goes through a JavaScript Date and keeps its millisecond*)
(* only.  The client, which is not in the repository, does what the        *)
(* comments of the code and the migration ask of it.                       *)
(***************************************************************************)
EXTENDS Integers, FiniteSets, FiniteSetsExt

CONSTANTS
  Conv,         \* conversations, as numbers in id order
  Limits,       \* limits a walk may ask for
  Millisecond,  \* clock units of a millisecond
  MaxTime,      \* bound on the clock
  MaxWrites,    \* bound on transactions that write updated_at
  MaxFaults     \* bound on restarts of the client and on lost acks

ASSUME InboxAssumption ==
  /\ IsFiniteSet(Conv) /\ Conv # {} /\ Conv \subseteq Nat \ {0}
  /\ Limits \subseteq Nat \ {0} /\ Millisecond \in Nat \ {0}
  /\ MaxTime \in Nat /\ MaxWrites \in Nat /\ MaxFaults \in Nat

VARIABLES
  clock,   \* now()
  row,     \* per conversation: its row and the person's membership row
  open,    \* transactions that have begun and are not over
  writes,  \* transactions so far
  listing, \* the client's walk of the list
  group,   \* per conversation: the client's MLS group
  acks,    \* acks on their way to the service
  faults

inboxVars == <<clock, row, open, writes, listing, group, acks, faults>>

NoRow == [exists |-> FALSE, updated |-> 0, welcome |-> FALSE, delivered |-> FALSE]

\* Position in ORDER BY updated_at DESC, id DESC; the list shows the highest
\* first.
Places == Max(Conv) + 1
Rank(time, c) == time * Places + c
RankOf(c) == Rank(row[c].updated, c)
Infinite == Rank(MaxTime + 1, 0)

\* shown: how often each conversation was, up to 2.  quiet (history): those
\* that existed at the start, have not been written since and share their
\* millisecond with no other.
NoListing ==
  [on |-> FALSE, ended |-> FALSE, limit |-> 0, cursor |-> Infinite,
   shown |-> [c \in Conv |-> 0], quiet |-> {}]

\* A client's group: none, the Welcome fetched, joined in memory, stored with
\* the ack still to be sent, stored.
Stored(c) == group[c] \in {"held", "kept"}

InboxInit ==
  /\ clock \in 0..MaxTime
  /\ row \in [Conv -> {NoRow} \cup {[NoRow EXCEPT !.exists = TRUE, !.updated = t] :
                                     t \in 0..clock}]
  /\ open = {}
  /\ writes = 0
  /\ listing = NoListing
  /\ group = [c \in Conv |-> "none"]
  /\ acks = {}
  /\ faults = 0

-----------------------------------------------------------------------------
\* Time and the transactions that move a conversation in the list

TimeOf(t) == t \div Millisecond

\* Two conversations were last written in the same millisecond.
TiedIn(rows, c) ==
  \E d \in Conv \ {c} :
    rows[c].exists /\ rows[d].exists /\ TimeOf(rows[c].updated) = TimeOf(rows[d].updated)
Tied(c) == TiedIn(row, c)

Advance ==
  /\ clock < MaxTime
  /\ clock' = clock + 1
  /\ UNCHANGED <<row, open, writes, listing, group, acks, faults>>

\* createDirect or createRequest, with a Welcome for this person or as the
\* creator, and a send into a conversation that exists.
BeginWrite(c, welcome) ==
  /\ writes < MaxWrites
  /\ writes' = writes + 1
  /\ row[c].exists => ~welcome
  /\ ~row[c].exists => \A t \in open : t.conv # c
  /\ open' = open \cup {[conv |-> c, at |-> clock, welcome |-> welcome, no |-> writes']}
  /\ UNCHANGED <<clock, row, listing, group, acks, faults>>

\* updated_at = now(), whichever of two transactions commits last; setMlsWelcome
\* in the transaction that creates the row.
Written(t) ==
  [row EXCEPT ![t.conv] =
     [exists |-> TRUE, updated |-> t.at, welcome |-> row[t.conv].welcome \/ t.welcome,
      delivered |-> row[t.conv].delivered]]

Commit(t) ==
  /\ row' = Written(t)
  /\ open' = open \ {t}
  /\ listing' = [listing EXCEPT !.quiet =
                   {c \in @ : c # t.conv /\ ~TiedIn(row', c)}]
  /\ UNCHANGED <<clock, writes, group, acks, faults>>

Rollback(t) ==
  /\ open' = open \ {t}
  /\ UNCHANGED <<clock, row, writes, listing, group, acks, faults>>

-----------------------------------------------------------------------------
\* Reading: listForPerson and getById, which show a Welcome until it is acked

\* mapRowWithMlsWelcome
Shows(c) == row[c].welcome /\ ~row[c].delivered

\* (Mutant of AfterFetch: a fetch consumes the Welcomes it shows.)
Consumed(cs) ==
  [c \in Conv |-> IF c \in cs THEN [row[c] EXCEPT !.delivered = Shows(c) \/ @] ELSE row[c]]

\* A fetch is not consumption.
AfterFetch(cs) == row

\* What the client makes of the Welcomes it is shown: it joins, or it repeats
\* an ack that seems to be lost.
Taken(cs) ==
  [c \in Conv |->
     CASE c \in cs /\ Shows(c) /\ group[c] = "none" -> "fetched"
       [] c \in cs /\ Shows(c) /\ group[c] = "kept" -> "held"
       [] OTHER -> group[c]]

\* The page of the list below a cursor, highest first.
PageBelow(cursor) ==
  LET rest == {c \in Conv : row[c].exists /\ RankOf(c) < cursor}
  IN {c \in rest : Cardinality({d \in rest : RankOf(d) > RankOf(c)}) < listing.limit}

\* (Mutant of CursorAt: the cursor is the row's time without its id.)
CursorOfTime(c) == Rank(row[c].updated + 1, 0)

\* updatedAt and id of the page's last row, updatedAt as a Date.
CursorAt(c) == Rank(TimeOf(row[c].updated) * Millisecond, c)

\* (Mutant of More: a full page is taken for the last.)
MoreIfOver(page) == Cardinality(page) > listing.limit

\* items.length === limit
More(page) == Cardinality(page) = listing.limit

StartListing(limit) ==
  /\ ~listing.on
  /\ listing' = [NoListing EXCEPT !.on = TRUE, !.limit = limit,
                                  !.quiet = {c \in Conv : row[c].exists /\ ~Tied(c)}]
  /\ UNCHANGED <<clock, row, open, writes, group, acks, faults>>

\* GET /conversations; an answer that is lost changes nothing, and the client
\* asks again with the cursor it has.
ListPage ==
  LET page == PageBelow(listing.cursor)
      last == CHOOSE c \in page : \A d \in page : RankOf(c) <= RankOf(d)
  IN
  /\ listing.on
  /\ row' = AfterFetch(page)
  /\ group' = Taken(page)
  /\ listing' = [listing EXCEPT
                   !.on = More(page), !.ended = ~More(page),
                   !.cursor = IF More(page) THEN CursorAt(last) ELSE @,
                   !.shown = [c \in Conv |-> IF c \in page /\ @[c] < 2 THEN @[c] + 1 ELSE @[c]]]
  /\ UNCHANGED <<clock, open, writes, acks, faults>>

\* GET /conversations/:id, when the client opens a conversation.
GetById(c) ==
  /\ row[c].exists /\ Shows(c) /\ group[c] \in {"none", "kept"}
  /\ row' = AfterFetch({c})
  /\ group' = Taken({c})
  /\ UNCHANGED <<clock, open, writes, listing, acks, faults>>

-----------------------------------------------------------------------------
\* The client joins, stores the group and only then acks

JoinGroup(c) ==
  /\ group[c] = "fetched"
  /\ group' = [group EXCEPT ![c] = "joined"]
  /\ UNCHANGED <<clock, row, open, writes, listing, acks, faults>>

StoreGroup(c) ==
  /\ group[c] = "joined"
  /\ group' = [group EXCEPT ![c] = "held"]
  /\ UNCHANGED <<clock, row, open, writes, listing, acks, faults>>

SendAck(c) ==
  /\ group[c] = "held"
  /\ group' = [group EXCEPT ![c] = "kept"]
  /\ acks' = acks \cup {c}
  /\ UNCHANGED <<clock, row, open, writes, listing, faults>>

\* POST mls-welcome/ack, whose request may arrive twice.
AckMlsWelcome(c) ==
  /\ c \in acks
  /\ row' = [row EXCEPT ![c].delivered = TRUE]
  /\ acks' \in {acks, acks \ {c}}
  /\ acks' = acks => ~row[c].delivered
  /\ UNCHANGED <<clock, open, writes, listing, group, faults>>

Fault == faults < MaxFaults /\ faults' = faults + 1

AckLost(c) ==
  /\ Fault
  /\ c \in acks
  /\ acks' = acks \ {c}
  /\ UNCHANGED <<clock, row, open, writes, listing, group>>

\* The client restarts with what it has stored.
Restart ==
  /\ Fault
  /\ group' = [c \in Conv |-> IF Stored(c) THEN "kept" ELSE "none"]
  /\ listing' = NoListing
  /\ UNCHANGED <<clock, row, open, writes, acks>>

-----------------------------------------------------------------------------
\* The specification

ClientStep ==
  \/ \E limit \in Limits : StartListing(limit)
  \/ ListPage
  \/ \E c \in Conv : JoinGroup(c) \/ StoreGroup(c) \/ SendAck(c)

InboxNext ==
  \/ Advance
  \/ \E c \in Conv, welcome \in BOOLEAN : BeginWrite(c, welcome)
  \/ \E t \in open : Commit(t) \/ Rollback(t)
  \/ ClientStep
  \/ \E c \in Conv : GetById(c) \/ AckMlsWelcome(c) \/ AckLost(c)
  \/ Restart

InboxSpec == InboxInit /\ [][InboxNext]_inboxVars

\* A client that lists its conversations does so to the end and again and
\* again, and goes on with the groups it has begun; an ack that is not lost
\* arrives.  It need not open any conversation.
InboxFairness ==
  /\ WF_inboxVars(\E limit \in Limits : StartListing(limit)) /\ WF_inboxVars(ListPage)
  /\ WF_inboxVars(\E c \in Conv : JoinGroup(c) \/ StoreGroup(c) \/ SendAck(c))
  /\ WF_inboxVars(\E c \in Conv : AckMlsWelcome(c))

InboxFairSpec == InboxSpec /\ InboxFairness

-----------------------------------------------------------------------------
\* Properties

\* A walk of the list shows a conversation that stays where it is exactly once,
\* whatever moves to the front meanwhile or is committed behind the cursor
\* (listForPerson, nextCursor).  Conversations of one millisecond are excepted:
\* the cursor cannot tell them apart.
ListedOnce == listing.ended => \A c \in listing.quiet : listing.shown[c] = 1

\* A Welcome is shown until the client has the group in its store, however often
\* it was fetched and wherever the client restarts (setMlsWelcome,
\* mapRowWithMlsWelcome, getById, ackMlsWelcome).
WelcomeKept == \A c \in Conv : row[c].welcome /\ ~Stored(c) => Shows(c)

\* The client joins every conversation it is invited to and the Welcome is
\* acked in the end, if only the list is read again and again.
EveryWelcomeDelivered ==
  \A c \in Conv : Shows(c) ~> row[c].delivered \/ Tied(c)

=============================================================================
