------------------------ MODULE MessagingRefinement ------------------------
(***************************************************************************)
(* Messaging implements DirectChannel: the committed rows, read as one log *)
(* per pair of people.                                                     *)
(***************************************************************************)
EXTENDS Messaging

PairOf(k) == convs[k].members

\* The conversation of a pair, if it has one.
HasConversation(pr) == \E k \in ConvId : Exists(k) /\ PairOf(k) = pr
ConversationOf(pr) == CHOOSE k \in ConvId : Exists(k) /\ PairOf(k) = pr

Pairs == {{p, q} : p, q \in Person} \ {{p} : p \in Person}

PhaseOf(k) ==
  IF requests[k] = None THEN "direct"
  ELSE [PENDING |-> "pending", ACCEPTED |-> "accepted",
        DECLINED |-> "declined", CANCELLED |-> "cancelled"][requests[k].status]

RowAt(k, s) == CHOOSE r \in messages : r.conv = k /\ r.seq = s

LogOf(k) ==
  [s \in 1 .. convs[k].lastSeq |->
    [sender |-> RowAt(k, s).sender, cmid |-> RowAt(k, s).cmid]]

\* The channel's variables, read off the tables and the replies.
Phase == [pr \in Pairs |-> IF HasConversation(pr)
                           THEN PhaseOf(ConversationOf(pr)) ELSE "none"]

Log == [pr \in Pairs |-> IF HasConversation(pr)
                         THEN LogOf(ConversationOf(pr)) ELSE <<>>]

ToldOf(a) == [pair |-> PairOf(a.conv),
              entry |-> [sender |-> a.sender, cmid |-> a.cmid],
              position |-> a.seq]

Told == {ToldOf(a) : a \in accepted}

Channel == INSTANCE DirectChannel WITH phase <- Phase, log <- Log, told <- Told

\* Every step of the handlers, interleaved and crashing as they may, is a step
\* of the channel between two people or is invisible there.
ImplementsChannel == Channel!ChannelSpec

============================================================================
