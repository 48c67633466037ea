------------------------ MODULE MessagingInvariant -------------------------
(***************************************************************************)
(* The inductive invariant of Messaging: what every handler execution      *)
(* knows of the committed rows at each of its awaits, and which two of     *)
(* them cannot stand where they do at the same time.                       *)
(***************************************************************************)
EXTENDS Messaging

\* Awaits of a create that still needs the other person's id.
PeerPc == {"findActive", "authorize", "insertConv", "commitConv", "findWinner"}

\* Awaits at which a conversation id is known.
ConvPc == {"commitConv", "describe", "replyCreate"} \cup SendPc \cup DecidePc

\* Awaits past the gate of send, up to the end of its transaction.
GatedPc == {"allocate", "insertMsg", "commitMsg"}

\* The inputs a call carries.
InputsKnown(me) ==
  /\ me.pc # "idle" => me.actor \in Person
  /\ me.pc \in PeerPc \cup SendPc => me.cmid \in MsgId
  /\ me.pc \in PeerPc => me.peer \in Person /\ me.peer # me.actor
  /\ me.pc \in ConvPc => me.conv \in ConvId
  /\ me.pc \in DecidePc => me.op \in DecideOps
  /\ me.pc \in {"findActive", "authorize"} /\ me.op = "createRequest" => me.hasMessage
  /\ me.pc \in PeerPc /\ me.pending =>
       me.hasMessage /\ me.pc \in {"insertConv", "commitConv", "findWinner"}

\* An open create has the pair and the id to itself.
CreateKnows(me) ==
  me.pc = "commitConv" => ~Exists(me.conv) /\ Between(me.actor, me.peer) = {}

\* What a create is about to report.
ReportKnows(me) ==
  me.pc \in {"describe", "replyCreate"} => IsMember(me.actor, me.conv)

\* What send read at its gate, outside the transaction, is still true inside:
\* no request becomes PENDING on a conversation that exists.
SendKnows(me) ==
  /\ me.pc \in GatedPc =>
       IsMember(me.actor, me.conv) /\ ~IsPending(me.conv) /\ ~me.fills
  /\ me.pc \in {"insertMsg", "commitMsg"} => me.seq = convs[me.conv].lastSeq + 1
  /\ me.pc = "commitMsg" => WithKey(me.actor, me.conv, me.cmid) = {}
  /\ me.pc = "replySend" =>
       \E r \in WithKey(me.actor, me.conv, me.cmid) : r.seq = me.seq

DecideKnows(me) == me.pc = "commitDecision" => IsPending(me.conv)

CallOK(me) ==
  /\ InputsKnown(me)
  /\ CreateKnows(me)
  /\ ReportKnows(me)
  /\ SendKnows(me)
  /\ DecideKnows(me)

\* Two calls never hold the same lock.
Compatible(a, b) ==
  /\ a.pc = "commitConv" /\ b.pc = "commitConv" =>
       a.conv # b.conv /\ {a.actor, a.peer} # {b.actor, b.peer}
  /\ a.pc \in {"insertMsg", "commitMsg"} /\ b.pc \in {"insertMsg", "commitMsg"}
       => a.conv # b.conv
  /\ a.pc = "commitDecision" /\ b.pc = "commitDecision" => a.conv # b.conv

LocksExclusive ==
  \A c, d \in Call : c # d => Compatible(call[c], call[d])

\* Every message lies within its conversation's numbers, and a number or a key
\* identifies it.
Numbered ==
  /\ \A r \in messages : 1 <= r.seq /\ r.seq <= convs[r.conv].lastSeq
  /\ \A r1, r2 \in messages : r1.conv = r2.conv /\ r1.seq = r2.seq => r1 = r2

\* A conversation's members are two people.
TwoMembers ==
  \A k \in ConvId : Exists(k) =>
    \E p, q \in Person : p # q /\ convs[k].members = {p, q}

RowsOK ==
  /\ TwoMembers
  /\ MembersOnly
  /\ OnePerPair
  /\ Numbered
  /\ ExactlyOnce
  /\ OneMessageWhilePending

IInv ==
  /\ TypeOK
  /\ RowsOK
  /\ \A c \in Call : CallOK(call[c])
  /\ LocksExclusive
  /\ RepliesAreDurable

----------------------------------------------------------------------------
(* What clients are told of a create, and what other services are told of   *)
(* the rows, strengthened until every step keeps it.                        *)

\* A report about a conversation, on its way to the client or arrived there,
\* stays true of the rows.
ReportTrue(o) ==
  /\ IsMember(o.actor, o.conv)
  /\ IF o.pending THEN requests[o.conv] # None ELSE ~IsPending(o.conv)
  /\ o.isNew => /\ o.actor = convs[o.conv].createdBy
                /\ convs[o.conv].welcome = o.welcome

Reporting(c) == At(c, "replyCreate")

\* No two reports, each on its way or arrived, claim one conversation.
ClaimsApart ==
  /\ \A o1, o2 \in opened : o1.isNew /\ o2.isNew /\ o1.conv = o2.conv => o1 = o2
  /\ \A c \in Call, o \in opened :
       Reporting(c) /\ call[c].isNew /\ o.isNew => o.conv # call[c].conv
  /\ \A c, d \in Call :
       /\ c # d
       /\ Reporting(c) /\ call[c].isNew
       /\ Reporting(d) /\ call[d].isNew
       => call[c].conv # call[d].conv

ReportsOK ==
  /\ \A o \in opened : ReportTrue(o)
  /\ \A c \in Call : Reporting(c) => ReportTrue(call[c])
  /\ ClaimsApart

HInv ==
  /\ IInv
  /\ GaplessSequence
  /\ OutboxAtomic
  /\ ReportsOK

============================================================================
