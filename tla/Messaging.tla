----------------------------- MODULE Messaging -----------------------------
(***************************************************************************)
(* The transactional heart of the messaging service: opening a DIRECT      *)
(* conversation (ConversationsService.createDirect), the request lifecycle *)
(* (RequestsService.createRequest / accept / decline / cancel) and the     *)
(* send pipeline (MessagesService.send), as concurrent handler executions  *)
(* over one PostgreSQL database.                                           *)
(*                                                                         *)
(* The database variables hold COMMITTED rows only.  An open transaction   *)
(* is the local state of its call: what it has written is invisible to the *)
(* others until its Commit action, what it has locked is visible through   *)
(* HoldsPair, HoldsConversation and HoldsRequest.  Every await of a        *)
(* handler at which another handler may observably run separates two       *)
(* actions.                                                                *)
(*                                                                         *)
(* A surrogate bigserial message id is written as the message's sequence   *)
(* number in its conversation (uq_messages_sequence makes that a key).     *)
(***************************************************************************)
EXTENDS Naturals

CONSTANTS
  Person,   \* people (uuid of a Core person)
  Call,     \* slots for handler executions in flight, over all instances
  ConvId,   \* conversation ids (gen_random_uuid)
  MsgId,    \* clientMessageId values; one also names the MLS Welcome of the
            \* group a client generated for a create attempt
  None      \* the SQL NULL / JS null of every column

VARIABLES
  convs,     \* conversations with their two conversation_members rows
  requests,  \* conversation_requests, keyed by the conversation they gate
  messages,  \* messages, each with its message_delivery recipient
  outbox,    \* outbox_events ever enqueued
  call,      \* the handler executions
  accepted,  \* history: SendMessageResult replies that reached a client
  opened     \* history: CreateConversationResult replies that reached one

db == <<convs, requests, messages, outbox>>
vars == <<convs, requests, messages, outbox, call, accepted, opened>>

----------------------------------------------------------------------------
(* Rows and call states.                                                   *)

ConvRow == [members : SUBSET Person, createdBy : Person, lastSeq : Nat,
            lastMessage : Nat, welcome : MsgId \cup {None}]

ReqStatus == {"PENDING", "ACCEPTED", "DECLINED", "CANCELLED"}

ReqRow == [requester : Person, recipient : Person, status : ReqStatus,
           initial : Nat]      \* initial = 0 is initial_message_id IS NULL

\* NULL is no value and no row.
ASSUME NoneAssumption ==
  /\ None \notin Person \cup ConvId \cup MsgId
  /\ None \notin ConvRow
  /\ None \notin ReqRow

Message == [conv : ConvId, sender : Person, cmid : MsgId, seq : Nat,
            recipient : Person]

EventType == {"message.created", "request.created", "request.accepted",
              "request.declined"}

Event == [type : EventType, conv : ConvId, seq : Nat]

CreateOps == {"createDirect", "createRequest"}
DecideOps == {"accept", "decline", "cancel"}

\* Where a handler execution stands: the await it is about to perform.
CreatePc == {"findActive", "authorize", "insertConv", "commitConv",
             "findWinner", "describe", "replyCreate"}
SendPc   == {"findKey", "gate", "allocate", "insertMsg", "commitMsg",
             "findMsgWinner", "replySend"}
DecidePc == {"lockRequest", "commitDecision"}

CallState ==
  [pc : {"idle"} \cup CreatePc \cup SendPc \cup DecidePc,
   op : CreateOps \cup DecideOps \cup {"send", None},
   actor : Person \cup {None}, peer : Person \cup {None},
   conv : ConvId \cup {None}, cmid : MsgId \cup {None},
   welcome : MsgId \cup {None}, hasMessage : BOOLEAN, fills : BOOLEAN,
   pending : BOOLEAN, seq : Nat, isNew : BOOLEAN]

Idle == [pc |-> "idle", op |-> None, actor |-> None, peer |-> None,
         conv |-> None, cmid |-> None, welcome |-> None, hasMessage |-> FALSE,
         fills |-> FALSE, pending |-> FALSE, seq |-> 0, isNew |-> FALSE]

----------------------------------------------------------------------------
(* Repository queries.                                                     *)

Exists(k) == convs[k] # None

\* findActiveBetween: no code ever writes a status other than ACTIVE, so
\* every row is non-CLOSED.
Between(p, q) == {k \in ConvId : Exists(k) /\ convs[k].members = {p, q}}

\* findByIdempotencyKey.
WithKey(p, k, m) ==
  {r \in messages : r.sender = p /\ r.conv = k /\ r.cmid = m}

\* findPendingForConversation.
IsPending(k) == requests[k] # None /\ requests[k].status = "PENDING"

\* findMembership; membership_status is never written after the insert.
IsMember(p, k) == Exists(k) /\ p \in convs[k].members

----------------------------------------------------------------------------
(* Locks held by open transactions.                                        *)

\* (Mutant of HoldsPair: the partial unique index is missing.)
NoPairIndex(d, p, q) == FALSE

\* An uncommitted entry of uq_conversations_active_pair.
HoldsPair(d, p, q) ==
  call[d].pc = "commitConv" /\ {call[d].actor, call[d].peer} = {p, q}

\* The row lock UPDATE conversations ... RETURNING last_sequence_no takes.
HoldsConversation(d, k) ==
  call[d].pc \in {"insertMsg", "commitMsg"} /\ call[d].conv = k

\* (Mutant of HoldsRequest: findById instead of findByIdForUpdate.)
NoRequestLock(d, k) == FALSE

\* SELECT ... FROM conversation_requests ... FOR UPDATE.
HoldsRequest(d, k) == call[d].pc = "commitDecision" /\ call[d].conv = k

At(c, pc) == call[c].pc = pc
Goto(c, next) == call' = [call EXCEPT ![c] = next]
\* The handler throws: an error response, the transaction rolled back.
Fail(c) == Goto(c, Idle)

----------------------------------------------------------------------------
(* A client's request reaches a handler.  The controllers' DTO validation  *)
(* and the p = q check at the top of both create paths come first.         *)

CallCreate(c, op, p, q, m, w, hasMessage) ==
  /\ At(c, "idle")
  /\ p # q
  /\ op = "createRequest" => hasMessage
  /\ Goto(c, [Idle EXCEPT !.pc = "findActive", !.op = op, !.actor = p,
                          !.peer = q, !.cmid = m, !.welcome = w,
                          !.hasMessage = hasMessage])
  /\ UNCHANGED <<db, accepted, opened>>

CallSend(c, p, k, m) ==
  /\ At(c, "idle")
  /\ Goto(c, [Idle EXCEPT !.pc = "findKey", !.op = "send", !.actor = p,
                          !.conv = k, !.cmid = m])
  /\ UNCHANGED <<db, accepted, opened>>

CallDecide(c, op, p, k) ==
  /\ At(c, "idle")
  /\ Goto(c, [Idle EXCEPT !.pc = "lockRequest", !.op = op, !.actor = p,
                          !.conv = k])
  /\ UNCHANGED <<db, accepted, opened>>

----------------------------------------------------------------------------
(* createDirect and createRequest.                                         *)

\* The handler has found the pair's conversation and will describe it.
Describe(me, k) == [Idle EXCEPT !.pc = "describe", !.actor = me.actor, !.conv = k]

FindActiveBetween(c) ==
  LET existing == Between(call[c].actor, call[c].peer) IN
  /\ At(c, "findActive")
  /\ \/ existing = {} /\ Goto(c, [call[c] EXCEPT !.pc = "authorize"])
     \/ \E k \in existing : Goto(c, Describe(call[c], k))
  /\ UNCHANGED <<db, accepted, opened>>

\* Core's decision is an external input: ALLOW_DIRECT, REQUIRE_REQUEST (of use
\* to createRequest only), DENY; an unreachable Core throws like DENY does.
AuthorizeMessaging(c) ==
  LET asked == call[c].op = "createRequest" IN
  /\ At(c, "authorize")
  /\ \/ \E requireRequest \in {FALSE, asked} :
           Goto(c, [call[c] EXCEPT !.pc = "insertConv", !.op = None,
                                   !.pending = requireRequest])
     \/ Fail(c)
  /\ UNCHANGED <<db, accepted, opened>>

\* (Mutant of InsertConversation: ON CONFLICT DO UPDATE instead of an error.)
UpsertConversation(c) ==
  LET me == call[c] IN
  /\ At(c, "insertConv")
  /\ \A d \in Call : ~HoldsPair(d, me.actor, me.peer)
  /\ \E k \in ConvId :
       /\ IF Between(me.actor, me.peer) = {}
          THEN ~Exists(k) /\ \A d \in Call :
                              ~(At(d, "commitConv") /\ call[d].conv = k)
          ELSE k \in Between(me.actor, me.peer)
       /\ Goto(c, [me EXCEPT !.pc = "commitConv", !.conv = k])
  /\ UNCHANGED <<db, accepted, opened>>

\* INSERT INTO conversations: uq_conversations_active_pair waits for an
\* uncommitted twin, then either takes the pair or raises 23505.
InsertConversation(c) ==
  LET me == call[c] IN
  /\ At(c, "insertConv")
  /\ \A d \in Call : ~HoldsPair(d, me.actor, me.peer)
  /\ \/ /\ Between(me.actor, me.peer) = {}
        /\ \E k \in ConvId :
             /\ ~Exists(k)
             /\ \A d \in Call : ~(At(d, "commitConv") /\ call[d].conv = k)
             /\ Goto(c, [me EXCEPT !.pc = "commitConv", !.conv = k])
     \/ /\ Between(me.actor, me.peer) # {}
        /\ Goto(c, [me EXCEPT !.pc = "findWinner"])
  /\ UNCHANGED <<db, accepted, opened>>

\* What the rest of the transaction writes: members, the joiner's Welcome,
\* insertFirstMessage, and for REQUIRE_REQUEST the request with its
\* initial_message_id.
CreatedConv(me) ==
  [members |-> {me.actor, me.peer}, createdBy |-> me.actor,
   lastSeq |-> IF me.hasMessage THEN 1 ELSE 0,
   lastMessage |-> IF me.hasMessage THEN 1 ELSE 0,
   welcome |-> me.welcome]

FirstMessage(me) ==
  [conv |-> me.conv, sender |-> me.actor, cmid |-> me.cmid, seq |-> 1,
   recipient |-> me.peer]

CreatedRequest(me) ==
  [requester |-> me.actor, recipient |-> me.peer, status |-> "PENDING",
   initial |-> 1]

MessageEvent(k, s) == [type |-> "message.created", conv |-> k, seq |-> s]
RequestEvent(t, k) == [type |-> t, conv |-> k, seq |-> 0]

CommitConversation(c) ==
  LET me == call[c] IN
  /\ At(c, "commitConv")
  /\ convs' = [convs EXCEPT ![me.conv] = CreatedConv(me)]
  /\ messages' = messages \cup (IF me.hasMessage THEN {FirstMessage(me)} ELSE {})
  /\ requests' = IF me.pending
                 THEN [requests EXCEPT ![me.conv] = CreatedRequest(me)]
                 ELSE requests
  /\ outbox' = outbox
       \cup (IF me.hasMessage THEN {MessageEvent(me.conv, 1)} ELSE {})
       \cup (IF me.pending THEN {RequestEvent("request.created", me.conv)} ELSE {})
  /\ Goto(c, [me EXCEPT !.pc = "replyCreate", !.isNew = TRUE, !.peer = None,
                          !.cmid = None, !.hasMessage = FALSE])
  /\ UNCHANGED <<accepted, opened>>

\* (Mutant of FindWinner: the loser stores its own Welcome first.)
LoserStoresWelcome(c) ==
  LET winner == Between(call[c].actor, call[c].peer) IN
  /\ At(c, "findWinner")
  /\ \E k \in winner :
       /\ Goto(c, Describe(call[c], k))
       /\ convs' = [convs EXCEPT ![k].welcome = call[c].welcome]
  /\ UNCHANGED <<requests, messages, outbox, accepted, opened>>

\* The loser of the race re-reads; without a row it rethrows.
FindWinner(c) ==
  LET winner == Between(call[c].actor, call[c].peer) IN
  /\ At(c, "findWinner")
  /\ \/ winner = {} /\ Fail(c)
     \/ \E k \in winner : Goto(c, Describe(call[c], k))
  /\ UNCHANGED <<db, accepted, opened>>

\* (Mutant of DescribeExisting: the state is conversations.status, which has no
\* PENDING value.)
DescribeAsActive(c) ==
  /\ At(c, "describe")
  /\ Goto(c, [call[c] EXCEPT !.pc = "replyCreate"])
  /\ UNCHANGED <<db, accepted, opened>>

DescribeExisting(c) ==
  /\ At(c, "describe")
  /\ Goto(c, [call[c] EXCEPT !.pc = "replyCreate", !.isNew = FALSE,
                               !.pending = IsPending(call[c].conv)])
  /\ UNCHANGED <<db, accepted, opened>>

ReplyCreate(c) ==
  LET me == call[c] IN
  /\ At(c, "replyCreate")
  /\ opened' = opened \cup {[actor |-> me.actor, conv |-> me.conv,
                             welcome |-> me.welcome, pending |-> me.pending,
                             isNew |-> me.isNew]}
  /\ Goto(c, Idle)
  /\ UNCHANGED <<db, accepted>>

----------------------------------------------------------------------------
(* MessagesService.send.                                                   *)

\* The fast path, outside any transaction.
FindByIdempotencyKey(c) ==
  LET me == call[c]
      existing == WithKey(me.actor, me.conv, me.cmid)
  IN
  /\ At(c, "findKey")
  /\ \/ existing = {} /\ Goto(c, [me EXCEPT !.pc = "gate"])
     \/ \E r \in existing :
           Goto(c, [me EXCEPT !.pc = "replySend", !.seq = r.seq])
  /\ UNCHANGED <<db, accepted, opened>>

\* (Mutant of MaySend: the pending request is not looked at.)
MaySendPending(p, k) == IsMember(p, k)

\* canSendMessage: a pending request admits only its requester, and only
\* while it has no initial message.
MaySend(p, k) ==
  /\ IsMember(p, k)
  /\ IsPending(k) => /\ requests[k].initial = 0
                     /\ requests[k].requester = p

\* findById, findMembership, findPendingForConversation, canSendMessage: what
\* the first two read never changes, so the last read decides.  None of it is
\* inside the transaction that follows.
CheckCanSend(c) ==
  LET me == call[c] IN
  /\ At(c, "gate")
  /\ \/ /\ MaySend(me.actor, me.conv)
        /\ Goto(c, [me EXCEPT !.pc = "allocate", !.fills = IsPending(me.conv)])
     \/ ~MaySend(me.actor, me.conv) /\ Fail(c)
  /\ UNCHANGED <<db, accepted, opened>>

\* (Mutant of AllocateNextSequence: the UPDATE runs on the pool, outside the
\* transaction, and commits at once.)
AllocateOutside(c) ==
  LET me == call[c] IN
  /\ At(c, "allocate")
  /\ Goto(c, [me EXCEPT !.pc = "insertMsg", !.seq = convs[me.conv].lastSeq + 1])
  /\ convs' = [convs EXCEPT ![me.conv].lastSeq = @ + 1]
  /\ UNCHANGED <<requests, messages, outbox, accepted, opened>>

\* UPDATE conversations SET last_sequence_no = last_sequence_no + 1
\* RETURNING: waits for the row lock, keeps it to the end of the transaction.
AllocateNextSequence(c) ==
  LET me == call[c] IN
  /\ At(c, "allocate")
  /\ \A d \in Call : ~HoldsConversation(d, me.conv)
  /\ Goto(c, [me EXCEPT !.pc = "insertMsg", !.seq = convs[me.conv].lastSeq + 1])
  /\ UNCHANGED <<db, accepted, opened>>

\* (Mutant of Conflicts: uq_messages_idempotency is missing.)
NoIdempotencyKey(me) ==
  \E r \in messages : r.conv = me.conv /\ r.seq = me.seq

\* uq_messages_idempotency and uq_messages_sequence, against committed rows.
\* (An uncommitted rival would hold this conversation's row lock.)
Conflicts(me) ==
  \/ WithKey(me.actor, me.conv, me.cmid) # {}
  \/ \E r \in messages : r.conv = me.conv /\ r.seq = me.seq

\* (Mutant of InsertMessage: the loser reports the number it rolled back.)
LoserKeepsSequence(c) ==
  LET me == call[c] IN
  /\ At(c, "insertMsg")
  /\ Goto(c, [me EXCEPT !.pc = IF Conflicts(me) THEN "replySend"
                               ELSE "commitMsg"])
  /\ UNCHANGED <<db, accepted, opened>>

InsertMessage(c) ==
  LET me == call[c] IN
  /\ At(c, "insertMsg")
  /\ \/ ~Conflicts(me) /\ Goto(c, [me EXCEPT !.pc = "commitMsg"])
     \/ Conflicts(me) /\ Goto(c, [me EXCEPT !.pc = "findMsgWinner", !.seq = 0,
                                           !.fills = FALSE])
  /\ UNCHANGED <<db, accepted, opened>>

\* findOtherMember: the conversation's member who is not the sender.
OtherMember(p, k) == CHOOSE q \in convs[k].members : q # p

SentMessage(me) ==
  [conv |-> me.conv, sender |-> me.actor, cmid |-> me.cmid, seq |-> me.seq,
   recipient |-> OtherMember(me.actor, me.conv)]

\* (Mutant of CommitMessage: updateLastMessage is not given the transaction's
\* client and queues, on another connection, for the row that this transaction
\* has locked: a ring of waits that PostgreSQL cannot see.)
CommitWaitsForItself(c) ==
  LET me == call[c] IN
  /\ At(c, "commitMsg")
  /\ \A d \in Call : ~HoldsConversation(d, me.conv)
  /\ Fail(c)
  /\ UNCHANGED <<db, accepted, opened>>

\* The rest of the transaction.  The wait for a request row to fill is in the
\* code and never met: a request has its initial message from the start, so
\* the gate lets nobody past who would fill it.
CommitMessage(c) ==
  LET me == call[c] IN
  /\ At(c, "commitMsg")
  /\ me.fills => \A d \in Call : ~HoldsRequest(d, me.conv)
  /\ messages' = messages \cup {SentMessage(me)}
  /\ convs' = [convs EXCEPT ![me.conv].lastSeq = me.seq,
                            ![me.conv].lastMessage = me.seq]
  /\ requests' = IF me.fills
                 THEN [requests EXCEPT ![me.conv].initial = me.seq]
                 ELSE requests
  /\ outbox' = outbox \cup {MessageEvent(me.conv, me.seq)}
  /\ Goto(c, [me EXCEPT !.pc = "replySend", !.fills = FALSE])
  /\ UNCHANGED <<accepted, opened>>

FindMessageWinner(c) ==
  LET me == call[c]
      winner == WithKey(me.actor, me.conv, me.cmid)
  IN
  /\ At(c, "findMsgWinner")
  /\ \/ winner = {} /\ Fail(c)
     \/ \E r \in winner :
           Goto(c, [me EXCEPT !.pc = "replySend", !.seq = r.seq])
  /\ UNCHANGED <<db, accepted, opened>>

ReplySend(c) ==
  LET me == call[c] IN
  /\ At(c, "replySend")
  /\ accepted' = accepted \cup {[sender |-> me.actor, conv |-> me.conv,
                                 cmid |-> me.cmid, seq |-> me.seq]}
  /\ Goto(c, Idle)
  /\ UNCHANGED <<db, opened>>

----------------------------------------------------------------------------
(* accept, decline and cancel.                                             *)

Resolution == [accept |-> "ACCEPTED", decline |-> "DECLINED",
               cancel |-> "CANCELLED"]

\* canDecideRequest, canCancelRequest.
MayDecide(op, p, k) ==
  /\ IsPending(k)
  /\ p = IF op = "cancel" THEN requests[k].requester ELSE requests[k].recipient

\* SELECT ... FOR UPDATE, then the check on the row it returned.
LockRequest(c) ==
  LET me == call[c] IN
  /\ At(c, "lockRequest")
  /\ \A d \in Call : ~HoldsRequest(d, me.conv)
  /\ \/ /\ MayDecide(me.op, me.actor, me.conv)
        /\ Goto(c, [me EXCEPT !.pc = "commitDecision"])
     \/ ~MayDecide(me.op, me.actor, me.conv) /\ Fail(c)
  /\ UNCHANGED <<db, accepted, opened>>

\* (Mutant of DecisionEvents: a cancellation is announced as a refusal.)
CancelAnnounced(op, k) ==
  {RequestEvent(IF op = "accept" THEN "request.accepted"
                ELSE "request.declined", k)}

\* A cancelled request tells nobody.
DecisionEvents(op, k) ==
  CASE op = "accept"  -> {RequestEvent("request.accepted", k)}
    [] op = "decline" -> {RequestEvent("request.declined", k)}
    [] op = "cancel"  -> {}

CommitDecision(c) ==
  LET me == call[c] IN
  /\ At(c, "commitDecision")
  /\ requests' = [requests EXCEPT ![me.conv].status = Resolution[me.op]]
  /\ outbox' = outbox \cup DecisionEvents(me.op, me.conv)
  /\ Goto(c, Idle)
  /\ UNCHANGED <<convs, messages, accepted, opened>>

----------------------------------------------------------------------------
(* The process dies, the database fails the statement or the COMMIT, or    *)
(* the reply is lost after the COMMIT: what was open is rolled back.       *)
Crash(c) ==
  /\ ~At(c, "idle")
  /\ Fail(c)
  /\ UNCHANGED <<db, accepted, opened>>

----------------------------------------------------------------------------
Init ==
  /\ convs    = [k \in ConvId |-> None]
  /\ requests = [k \in ConvId |-> None]
  /\ messages = {}
  /\ outbox   = {}
  /\ call     = [c \in Call |-> Idle]
  /\ accepted = {}
  /\ opened   = {}

Arrive(c) ==
  \/ \E op \in CreateOps, p, q \in Person, m \in MsgId, hm \in BOOLEAN :
       \E w \in {m, None} : CallCreate(c, op, p, q, m, w, hm)
  \/ \E p \in Person, k \in ConvId, m \in MsgId : CallSend(c, p, k, m)
  \/ \E op \in DecideOps, p \in Person, k \in ConvId : CallDecide(c, op, p, k)

\* Steps that wait for no other transaction.
FreeStep(c) ==
  \/ FindActiveBetween(c) \/ AuthorizeMessaging(c) \/ CommitConversation(c)
  \/ FindWinner(c) \/ DescribeExisting(c) \/ ReplyCreate(c)
  \/ FindByIdempotencyKey(c) \/ CheckCanSend(c) \/ InsertMessage(c)
  \/ CommitMessage(c) \/ FindMessageWinner(c) \/ ReplySend(c)
  \/ CommitDecision(c)

\* Steps that queue for a lock another transaction may hold.
LockStep(c) == InsertConversation(c) \/ AllocateNextSequence(c) \/ LockRequest(c)

Next == \E c \in Call : Arrive(c) \/ FreeStep(c) \/ LockStep(c) \/ Crash(c)

\* The event loop and PostgreSQL finish every statement they are given, Core
\* answers or times out, and a lock queue reaches each of its waiters.
\* Clients need not call, and nothing need crash.
Fairness == \A c \in Call : WF_vars(FreeStep(c)) /\ SF_vars(LockStep(c))

Spec == Init /\ [][Next]_vars
FairSpec == Spec /\ Fairness

----------------------------------------------------------------------------
(* Type invariant.                                                         *)

Accepted == [sender : Person, conv : ConvId, cmid : MsgId, seq : Nat]

Opened == [actor : Person, conv : ConvId, welcome : MsgId \cup {None},
           pending : BOOLEAN, isNew : BOOLEAN]

\* Every variable holds rows, calls and replies of the shapes above.
TypeOK ==
  /\ convs \in [ConvId -> ConvRow \cup {None}]
  /\ requests \in [ConvId -> ReqRow \cup {None}]
  /\ messages \subseteq Message
  /\ outbox \subseteq Event
  /\ call \in [Call -> CallState]
  /\ accepted \subseteq Accepted
  /\ opened \subseteq Opened

----------------------------------------------------------------------------
(* Safety.                                                                 *)

\* uq_conversations_active_pair: however creates race, two people share at
\* most one conversation.
OnePerPair ==
  \A k, l \in ConvId :
    Exists(k) /\ Exists(l) /\ convs[k].members = convs[l].members => k = l

\* allocateNextSequence is gapless: the committed messages of a conversation
\* carry exactly the numbers 1 .. last_sequence_no, each once, and
\* last_message_id is the newest of them; a rolled-back send burns none.
SeqsOf(k) == {r.seq : r \in {r \in messages : r.conv = k}}

GaplessSequence ==
  /\ \A r1, r2 \in messages : r1.conv = r2.conv /\ r1.seq = r2.seq => r1 = r2
  /\ \A k \in ConvId :
       IF Exists(k)
       THEN /\ SeqsOf(k) = 1 .. convs[k].lastSeq
            /\ convs[k].lastMessage = convs[k].lastSeq
       ELSE SeqsOf(k) = {}

\* A clientMessageId is stored at most once per sender and conversation, be
\* it retried, raced against itself or reused after a create.
ExactlyOnce ==
  \A r1, r2 \in messages :
    /\ r1.conv = r2.conv
    /\ r1.sender = r2.sender
    /\ r1.cmid = r2.cmid
    => r1 = r2

\* While a request is PENDING its conversation holds exactly one message, the
\* requester's, and it is the request's initial message; although the gate is
\* read before the transaction that inserts.
OneMessageWhilePending ==
  \A k \in ConvId :
    IsPending(k) =>
      /\ Exists(k)
      /\ convs[k].lastSeq = 1
      /\ requests[k].initial = 1
      /\ \A r \in messages : r.conv = k => /\ r.seq = 1
                                          /\ r.sender = requests[k].requester

\* Only members' messages are stored, each addressed to the other member, and
\* a request is between the two members of its conversation.
MembersOnly ==
  /\ \A r \in messages : /\ Exists(r.conv)
                         /\ r.sender # r.recipient
                         /\ convs[r.conv].members = {r.sender, r.recipient}
  /\ \A k \in ConvId : requests[k] # None =>
       /\ Exists(k)
       /\ requests[k].requester = convs[k].createdBy
       /\ convs[k].members = {requests[k].requester, requests[k].recipient}

\* A SendMessageResult is never taken back: the row a client was told about
\* is committed under the number it was told, so every retry of a
\* clientMessageId hears the same number.
RepliesAreDurable ==
  \A a \in accepted :
    \E r \in WithKey(a.sender, a.conv, a.cmid) : r.seq = a.seq

\* isNew: of all the attempts to open a conversation at most one is told it
\* created it, it is its creator, and what is stored for the joiner is the
\* Welcome that attempt sent, or none if it sent none: no other attempt's
\* group is ever taken for the conversation's.
OneCreator ==
  \A o \in opened : o.isNew =>
    /\ Exists(o.conv)
    /\ o.actor = convs[o.conv].createdBy
    /\ convs[o.conv].welcome = o.welcome
    /\ \A o2 \in opened : o2.isNew /\ o2.conv = o.conv => o2 = o

\* The state a create reports: ACTIVE is stable, a conversation a client was
\* told is ACTIVE never waits on a request again, and PENDING was true once.
ActiveIsStable ==
  \A o \in opened : /\ Exists(o.conv)
                   /\ o.actor \in convs[o.conv].members
                   /\ IF o.pending THEN requests[o.conv] # None
                                   ELSE ~IsPending(o.conv)

\* The transactional outbox: an event row exists exactly for each committed
\* message, request and answered request, so nothing is announced that was
\* rolled back and nothing committed goes unannounced.
OutboxAtomic ==
  outbox = {MessageEvent(r.conv, r.seq) : r \in messages}
    \cup {RequestEvent("request.created", k) :
            k \in {k \in ConvId : requests[k] # None}}
    \cup {RequestEvent("request.accepted", k) :
            k \in {k \in ConvId : requests[k] # None /\
                                 requests[k].status = "ACCEPTED"}}
    \cup {RequestEvent("request.declined", k) :
            k \in {k \in ConvId : requests[k] # None /\
                                 requests[k].status = "DECLINED"}}

----------------------------------------------------------------------------
(* What a step may never do.                                               *)

\* FOR UPDATE makes a request's answer final: concurrent accept, decline and
\* cancel leave one decision, taken while the request was PENDING, and the
\* row never changes again.
DecidedOnce ==
  [][/\ \A c \in Call : CommitDecision(c) => IsPending(call[c].conv)
     /\ \A k \in ConvId :
          requests[k] # None /\ ~IsPending(k) => requests'[k] = requests[k]]_vars

\* Stored history is append-only, messages and announced events alike, and a
\* conversation's members, creator and Welcome never change once committed.
HistoryIsKept ==
  [][/\ messages \subseteq messages'
     /\ outbox \subseteq outbox'
     /\ \A k \in ConvId : Exists(k) =>
          /\ convs'[k] # None
          /\ convs'[k].lastSeq >= convs[k].lastSeq
          /\ convs'[k].members = convs[k].members
          /\ convs'[k].createdBy = convs[k].createdBy
          /\ convs'[k].welcome = convs[k].welcome]_vars

----------------------------------------------------------------------------
(* What a comment says and the code does not do.                           *)

\* authorization.types.ts quotes LLD 31: "only recipient acceptance changes
\* state to ACTIVE".  A conversation opened by a request would then hold a
\* second message only once the request is ACCEPTED.
OpensOnlyByAcceptance ==
  \A k \in ConvId :
    requests[k] # None /\ convs[k].lastSeq > 1 => requests[k].status = "ACCEPTED"

----------------------------------------------------------------------------
(* Liveness.                                                               *)

\* No handler waits for ever: whatever creates, sends and decisions queue for
\* the index entry, the conversation row or the request row of one another,
\* nobody is in a ring of waits, and every queue moves on.
EveryCallEnds == \A c \in Call : []<>At(c, "idle")

============================================================================
