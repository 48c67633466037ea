-------------------------- MODULE MessagingProofs --------------------------
(***************************************************************************)
(* Proofs about Messaging, for any people, handlers, ids and messages.     *)
(***************************************************************************)
EXTENDS MessagingInvariant, TLAPS

----------------------------------------------------------------------------
(* Steps that move one call and write no row.                              *)

\* A call record whose fields have the types a CallState has.
LEMMA IdleState == Idle \in CallState /\ CallOK(Idle)
  BY DEF Idle, CallState, CallOK, InputsKnown, CreateKnows, ReportKnows,
         SendKnows, DecideKnows, CreatePc, SendPc, DecidePc, PeerPc, ConvPc,
         GatedPc

\* Compatibility is symmetric, and a call that holds no lock clashes with none.
LEMMA CompatibleSymmetric ==
  ASSUME NEW a, NEW b, Compatible(a, b) PROVE Compatible(b, a)
  BY DEF Compatible

\* A call outside every transaction excludes nobody.
LEMMA LockFree ==
  ASSUME NEW a, NEW b,
         a.pc \notin {"commitConv", "insertMsg", "commitMsg", "commitDecision"}
  PROVE  Compatible(a, b) /\ Compatible(b, a)
  BY DEF Compatible

\* To keep the invariant, a step that writes no row need only move its call to
\* a record that knows what it should and clashes with no other, and report
\* nothing that is not stored.
LEMMA LocalStep ==
  ASSUME IInv, NEW c \in Call, NEW me \in CallState,
         CallOK(me), \A d \in Call \ {c} : Compatible(me, call[d]),
         Goto(c, me), UNCHANGED db,
         accepted' \subseteq Accepted, opened' \subseteq Opened, RepliesAreDurable'
  PROVE  IInv'
<1> USE DEF IInv, Goto, db
<1>1. call \in [Call -> CallState] /\ call' = [call EXCEPT ![c] = me]
  BY DEF TypeOK
<1>2. TypeOK'
  BY <1>1 DEF TypeOK
<1>3. RowsOK'
  BY DEF RowsOK, TwoMembers, MembersOnly, OnePerPair, Numbered, ExactlyOnce,
         OneMessageWhilePending, Exists, IsPending
<1>4. \A d \in Call : CallOK(call[d])'
  <2>1. ASSUME NEW d \in Call PROVE CallOK(call'[d])
    BY <1>1, <2>1
  <2> QED
    BY <2>1 DEF CallOK, InputsKnown, CreateKnows, ReportKnows, SendKnows,
                DecideKnows, Exists, Between, IsMember, IsPending, WithKey
<1>5. LocksExclusive'
  <2> SUFFICES ASSUME NEW d \in Call, NEW e \in Call, d # e
               PROVE  Compatible(call'[d], call'[e])
    BY DEF LocksExclusive, Compatible
  <2>1. CASE d = c
    BY <1>1, <2>1
  <2>2. CASE e = c
    BY <1>1, <2>2, CompatibleSymmetric
  <2>3. CASE d # c /\ e # c
    BY <1>1, <2>3 DEF LocksExclusive
  <2> QED BY <2>1, <2>2, <2>3
<1> QED BY <1>2, <1>3, <1>4, <1>5

\* The common case: the step ends in a record that holds no lock and tells no
\* client anything.
LEMMA QuietStep ==
  ASSUME IInv, NEW c \in Call, NEW me \in CallState, CallOK(me),
         me.pc \notin {"commitConv", "insertMsg", "commitMsg", "commitDecision"},
         Goto(c, me), UNCHANGED <<db, accepted, opened>>
  PROVE  IInv'
<1>1. \A d \in Call \ {c} : Compatible(me, call[d])
  BY LockFree
<1>2. accepted' \subseteq Accepted /\ opened' \subseteq Opened /\ RepliesAreDurable'
  BY DEF IInv, TypeOK, RepliesAreDurable, WithKey, db
<1> QED BY <1>1, <1>2, LocalStep DEF db

\* What the current record of a call gives every action of that call.
LEMMA Here ==
  ASSUME IInv, NEW c \in Call
  PROVE  call[c] \in CallState /\ CallOK(call[c])
  BY DEF IInv, TypeOK

----------------------------------------------------------------------------
(* Arrivals.                                                               *)

LEMMA CallCreateStep ==
  ASSUME IInv, NEW c \in Call, NEW op \in CreateOps, NEW p \in Person,
         NEW q \in Person, NEW m \in MsgId, NEW w \in {m, None},
         NEW hm \in BOOLEAN, CallCreate(c, op, p, q, m, w, hm)
  PROVE  IInv'
<1> DEFINE me == [Idle EXCEPT !.pc = "findActive", !.op = op, !.actor = p,
                              !.peer = q, !.cmid = m, !.welcome = w,
                              !.hasMessage = hm]
<1>1. me \in CallState
  BY DEF Idle, CallState, CreatePc
<1>2. CallOK(me)
  BY DEF CallCreate, Idle, CallOK, InputsKnown, CreateKnows, ReportKnows,
         SendKnows, DecideKnows, CreatePc, SendPc, DecidePc, PeerPc, ConvPc,
         GatedPc
<1> QED BY <1>1, <1>2, QuietStep DEF CallCreate, Idle

\* A send that begins knows nothing yet.
LEMMA CallSendStep ==
  ASSUME IInv, NEW c \in Call, NEW p \in Person, NEW k \in ConvId,
         NEW m \in MsgId, CallSend(c, p, k, m)
  PROVE  IInv'
<1> DEFINE me == [Idle EXCEPT !.pc = "findKey", !.op = "send", !.actor = p,
                              !.conv = k, !.cmid = m]
<1>1. me \in CallState
  BY DEF Idle, CallState, SendPc
<1>2. CallOK(me)
  BY DEF Idle, CallOK, InputsKnown, CreateKnows, ReportKnows,
         SendKnows, DecideKnows, CreatePc, SendPc, DecidePc, PeerPc, ConvPc,
         GatedPc
<1> QED BY <1>1, <1>2, QuietStep DEF CallSend, Idle

\* A decision that begins knows nothing yet.
LEMMA CallDecideStep ==
  ASSUME IInv, NEW c \in Call, NEW op \in DecideOps, NEW p \in Person,
         NEW k \in ConvId, CallDecide(c, op, p, k)
  PROVE  IInv'
<1> DEFINE me == [Idle EXCEPT !.pc = "lockRequest", !.op = op, !.actor = p,
                              !.conv = k]
<1>1. me \in CallState
  BY DEF Idle, CallState, DecidePc
<1>2. CallOK(me)
  BY DEF Idle, CallOK, InputsKnown, CreateKnows, ReportKnows,
         SendKnows, DecideKnows, CreatePc, SendPc, DecidePc, PeerPc, ConvPc,
         GatedPc
<1> QED BY <1>1, <1>2, QuietStep DEF CallDecide, Idle

\* Every way a handler throws, and a crash, ends here.
LEMMA FailStep ==
  ASSUME IInv, NEW c \in Call, Fail(c), UNCHANGED <<db, accepted, opened>>
  PROVE  IInv'
  BY IdleState, QuietStep DEF Fail, Idle

----------------------------------------------------------------------------
(* The steps of a create that write nothing.                               *)

\* The conversation of a pair is one its people are members of.
LEMMA DescribeOK ==
  ASSUME IInv, NEW c \in Call, call[c].pc \in PeerPc,
         NEW k \in Between(call[c].actor, call[c].peer)
  PROVE  /\ Describe(call[c], k) \in CallState
         /\ CallOK(Describe(call[c], k))
         /\ Describe(call[c], k).pc = "describe"
<1>1. call[c] \in CallState /\ InputsKnown(call[c])
  BY Here DEF CallOK
<1>2. k \in ConvId /\ IsMember(call[c].actor, k)
  BY <1>1 DEF Between, IsMember, InputsKnown, PeerPc
<1>3. call[c].actor \in Person
  BY <1>1 DEF InputsKnown, PeerPc, CreatePc
<1> QED
  BY <1>2, <1>3 DEF Describe, Idle, CallState, CallOK, InputsKnown, CreateKnows,
     ReportKnows, SendKnows, DecideKnows, CreatePc, SendPc, DecidePc, PeerPc,
     ConvPc, GatedPc

\* Looking for the pair's conversation keeps the invariant.
LEMMA FindActiveBetweenStep ==
  ASSUME IInv, NEW c \in Call, FindActiveBetween(c) PROVE IInv'
<1>1. CASE Goto(c, [call[c] EXCEPT !.pc = "authorize"])
  <2> DEFINE me == [call[c] EXCEPT !.pc = "authorize"]
  <2>1. me \in CallState
    BY Here DEF CallState, CreatePc
  <2>2. CallOK(me)
    BY Here DEF FindActiveBetween, At, CallState,
       CallOK, InputsKnown, CreateKnows, ReportKnows, SendKnows, DecideKnows,
       CreatePc, SendPc, DecidePc, PeerPc, ConvPc, GatedPc
  <2> QED BY <1>1, <2>1, <2>2, QuietStep, Here DEF FindActiveBetween, CallState
<1>2. CASE \E k \in Between(call[c].actor, call[c].peer) :
             Goto(c, Describe(call[c], k))
  BY <1>2, DescribeOK, QuietStep DEF FindActiveBetween, At, PeerPc
<1> QED BY <1>1, <1>2 DEF FindActiveBetween

\* Whatever Core answers, the invariant stays.
LEMMA AuthorizeMessagingStep ==
  ASSUME IInv, NEW c \in Call, AuthorizeMessaging(c) PROVE IInv'
<1>1. ASSUME NEW r \in {FALSE, call[c].op = "createRequest"},
             Goto(c, [call[c] EXCEPT !.pc = "insertConv", !.op = None,
                                     !.pending = r])
      PROVE  IInv'
  <2> DEFINE me == [call[c] EXCEPT !.pc = "insertConv", !.op = None, !.pending = r]
  <2>0. r \in BOOLEAN
    OBVIOUS
  <2>1. me \in CallState
    BY ZenonT(60), <2>0, Here DEF CallState, CreatePc
  <2>2. CallOK(me)
    BY ZenonT(60), Here DEF AuthorizeMessaging, At, CallState,
       CallOK, InputsKnown, CreateKnows, ReportKnows, SendKnows, DecideKnows,
       CreatePc, SendPc, DecidePc, PeerPc, ConvPc, GatedPc
  <2> QED BY <1>1, <2>1, <2>2, QuietStep, Here DEF AuthorizeMessaging, CallState
<1> QED BY <1>1, FailStep DEF AuthorizeMessaging

\* uq_conversations_active_pair: the pair and the id taken are nobody else's.
LEMMA InsertConversationStep ==
  ASSUME IInv, NEW c \in Call, InsertConversation(c) PROVE IInv'
<1>1. ASSUME Between(call[c].actor, call[c].peer) = {},
             NEW k \in ConvId, ~Exists(k),
             \A d \in Call : ~(At(d, "commitConv") /\ call[d].conv = k),
             Goto(c, [call[c] EXCEPT !.pc = "commitConv", !.conv = k])
      PROVE  IInv'
  <2> DEFINE me == [call[c] EXCEPT !.pc = "commitConv", !.conv = k]
  <2>1. me \in CallState
    BY Here DEF CallState, CreatePc
  <2>2. CallOK(me)
    BY ZenonT(60), <1>1, Here DEF InsertConversation, At, CallState,
       CallOK, InputsKnown, CreateKnows, ReportKnows, SendKnows, DecideKnows,
       CreatePc, SendPc, DecidePc, PeerPc, ConvPc, GatedPc
  <2>3. \A d \in Call \ {c} : Compatible(me, call[d])
    BY <1>1, Here DEF InsertConversation, HoldsPair, At, Compatible, CallState
  <2>4. accepted' = accepted /\ opened' = opened /\ UNCHANGED db
    BY DEF InsertConversation
  <2>5. accepted' \subseteq Accepted /\ opened' \subseteq Opened /\ RepliesAreDurable'
    BY <2>4 DEF IInv, TypeOK, RepliesAreDurable, WithKey, db
  <2> QED BY <1>1, <2>1, <2>2, <2>3, <2>4, <2>5, LocalStep
<1>2. CASE Goto(c, [call[c] EXCEPT !.pc = "findWinner"])
  <2> DEFINE me == [call[c] EXCEPT !.pc = "findWinner"]
  <2>1. me \in CallState
    BY Here DEF CallState, CreatePc
  <2>2. CallOK(me)
    BY ZenonT(60), Here DEF InsertConversation, At, CallState,
       CallOK, InputsKnown, CreateKnows, ReportKnows, SendKnows, DecideKnows,
       CreatePc, SendPc, DecidePc, PeerPc, ConvPc, GatedPc
  <2> QED BY <1>2, <2>1, <2>2, QuietStep, Here DEF InsertConversation, CallState
<1> QED BY <1>1, <1>2 DEF InsertConversation

\* The loser of a race reads the winner's row.
LEMMA FindWinnerStep ==
  ASSUME IInv, NEW c \in Call, FindWinner(c) PROVE IInv'
<1>1. CASE \E k \in Between(call[c].actor, call[c].peer) :
             Goto(c, Describe(call[c], k))
  BY <1>1, DescribeOK, QuietStep DEF FindWinner, At, PeerPc
<1> QED BY <1>1, FailStep DEF FindWinner

\* Describing a conversation that exists reads rows only.
LEMMA DescribeExistingStep ==
  ASSUME IInv, NEW c \in Call, DescribeExisting(c) PROVE IInv'
<1> DEFINE me == [call[c] EXCEPT !.pc = "replyCreate", !.isNew = FALSE,
                                 !.pending = IsPending(call[c].conv)]
<1>0. IsPending(call[c].conv) \in BOOLEAN
  BY DEF IsPending
<1>1. me \in CallState
  BY <1>0, Here DEF CallState, CreatePc
<1>2. CallOK(me)
  BY Here DEF DescribeExisting, At, CallState,
     CallOK, InputsKnown, CreateKnows, ReportKnows, SendKnows, DecideKnows,
     CreatePc, SendPc, DecidePc, PeerPc, ConvPc, GatedPc
<1> QED BY <1>1, <1>2, QuietStep, Here DEF DescribeExisting, CallState

\* The reply to a create names a committed conversation.
LEMMA ReplyCreateStep ==
  ASSUME IInv, NEW c \in Call, ReplyCreate(c) PROVE IInv'
<1>1. Idle.pc = "idle" /\ \A d \in Call \ {c} : Compatible(Idle, call[d])
  BY LockFree DEF Idle
<1>2. opened' \subseteq Opened
  BY Here DEF ReplyCreate, At, IInv, TypeOK, Opened, CallState, CallOK,
     InputsKnown, CreatePc, ConvPc
<1>3. accepted' \subseteq Accepted /\ RepliesAreDurable'
  BY DEF ReplyCreate, IInv, TypeOK, RepliesAreDurable, WithKey, db
<1> QED BY <1>1, <1>2, <1>3, IdleState, LocalStep DEF ReplyCreate

----------------------------------------------------------------------------
(* The steps of a send and of a decision that write nothing.               *)

\* A row found by its key answers the call.
LEMMA FoundRow ==
  ASSUME IInv, NEW c \in Call, call[c].pc \in {"findKey", "findMsgWinner"},
         NEW r \in WithKey(call[c].actor, call[c].conv, call[c].cmid),
         Goto(c, [call[c] EXCEPT !.pc = "replySend", !.seq = r.seq]),
         UNCHANGED <<db, accepted, opened>>
  PROVE  IInv'
<1> DEFINE me == [call[c] EXCEPT !.pc = "replySend", !.seq = r.seq]
<1>0. r.seq \in Nat
  BY DEF WithKey, IInv, TypeOK, Message
<1>1. me \in CallState
  BY <1>0, Here DEF CallState, SendPc
<1>2. CallOK(me)
  BY Here DEF CallState,
     CallOK, InputsKnown, CreateKnows, ReportKnows, SendKnows, DecideKnows,
     CreatePc, SendPc, DecidePc, PeerPc, ConvPc, GatedPc
<1> QED BY <1>1, <1>2, QuietStep, Here DEF CallState

\* Looking for an earlier send of the key keeps the invariant.
LEMMA FindByIdempotencyKeyStep ==
  ASSUME IInv, NEW c \in Call, FindByIdempotencyKey(c) PROVE IInv'
<1>1. CASE Goto(c, [call[c] EXCEPT !.pc = "gate"])
  <2> DEFINE me == [call[c] EXCEPT !.pc = "gate"]
  <2>1. me \in CallState
    BY Here DEF CallState, SendPc
  <2>2. CallOK(me)
    BY Here DEF FindByIdempotencyKey, At, CallState,
       CallOK, InputsKnown, CreateKnows, ReportKnows, SendKnows, DecideKnows,
       CreatePc, SendPc, DecidePc, PeerPc, ConvPc, GatedPc
  <2> QED BY <1>1, <2>1, <2>2, QuietStep, Here DEF FindByIdempotencyKey, CallState
<1> QED BY <1>1, FoundRow DEF FindByIdempotencyKey, At

\* The gate: a pending request always has its initial message, so a send that
\* passes found no pending request.
LEMMA CheckCanSendStep ==
  ASSUME IInv, NEW c \in Call, CheckCanSend(c) PROVE IInv'
<1>1. ASSUME MaySend(call[c].actor, call[c].conv),
             Goto(c, [call[c] EXCEPT !.pc = "allocate",
                                     !.fills = IsPending(call[c].conv)])
      PROVE  IInv'
  <2> DEFINE me == [call[c] EXCEPT !.pc = "allocate",
                                   !.fills = IsPending(call[c].conv)]
  <2>0. call[c].conv \in ConvId
    BY Here DEF CheckCanSend, At, CallOK, InputsKnown, ConvPc, SendPc
  <2>1. IsMember(call[c].actor, call[c].conv) /\ ~IsPending(call[c].conv)
    BY <1>1, <2>0 DEF MaySend, IInv, RowsOK, OneMessageWhilePending
  <2>a. IsPending(call[c].conv) \in BOOLEAN
    BY DEF IsPending
  <2>2. me \in CallState
    BY <2>a, Here DEF CallState, SendPc
  <2>3. CallOK(me)
    BY <2>1, Here DEF CheckCanSend, At, CallState,
       CallOK, InputsKnown, CreateKnows, ReportKnows, SendKnows, DecideKnows,
       CreatePc, SendPc, DecidePc, PeerPc, ConvPc, GatedPc
  <2> QED BY <1>1, <2>2, <2>3, QuietStep, Here DEF CheckCanSend, CallState
<1> QED BY <1>1, FailStep DEF CheckCanSend

\* The row lock of UPDATE ... RETURNING: the number taken is nobody else's.
LEMMA AllocateNextSequenceStep ==
  ASSUME IInv, NEW c \in Call, AllocateNextSequence(c) PROVE IInv'
<1> DEFINE me == [call[c] EXCEPT !.pc = "insertMsg",
                                 !.seq = convs[call[c].conv].lastSeq + 1]
<1>0. convs[call[c].conv] \in ConvRow
  BY Here DEF AllocateNextSequence, At, IInv, TypeOK,
     CallOK, InputsKnown, CreateKnows, ReportKnows, SendKnows, DecideKnows,
     CreatePc, SendPc, DecidePc, PeerPc, ConvPc, GatedPc, IsMember, Exists
<1>a. convs[call[c].conv].lastSeq + 1 \in Nat
  BY <1>0 DEF ConvRow
<1>1. me \in CallState
  BY <1>a, Here DEF CallState, SendPc
<1>2. CallOK(me)
  BY Here DEF AllocateNextSequence, At, CallState,
     CallOK, InputsKnown, CreateKnows, ReportKnows, SendKnows, DecideKnows,
     CreatePc, SendPc, DecidePc, PeerPc, ConvPc, GatedPc
<1>3. \A d \in Call \ {c} : Compatible(me, call[d])
  BY Here DEF AllocateNextSequence, HoldsConversation, Compatible, CallState
<1>4. accepted' \subseteq Accepted /\ opened' \subseteq Opened /\ RepliesAreDurable'
  BY DEF AllocateNextSequence, IInv, TypeOK, RepliesAreDurable, WithKey, db
<1> QED BY <1>1, <1>2, <1>3, <1>4, LocalStep DEF AllocateNextSequence

\* The insert meets the unique index, or leads to the commit.
LEMMA InsertMessageStep ==
  ASSUME IInv, NEW c \in Call, InsertMessage(c) PROVE IInv'
<1>1. ASSUME ~Conflicts(call[c]), Goto(c, [call[c] EXCEPT !.pc = "commitMsg"])
      PROVE  IInv'
  <2> DEFINE me == [call[c] EXCEPT !.pc = "commitMsg"]
  <2>1. me \in CallState
    BY Here DEF CallState, SendPc
  <2>2. CallOK(me)
    BY <1>1, Here DEF InsertMessage, Conflicts, At, CallState,
       CallOK, InputsKnown, CreateKnows, ReportKnows, SendKnows, DecideKnows,
       CreatePc, SendPc, DecidePc, PeerPc, ConvPc, GatedPc
  <2>3. \A d \in Call \ {c} : Compatible(me, call[d])
    BY Here DEF InsertMessage, At, IInv, LocksExclusive, Compatible, CallState
  <2>4. accepted' \subseteq Accepted /\ opened' \subseteq Opened /\ RepliesAreDurable'
    BY DEF InsertMessage, IInv, TypeOK, RepliesAreDurable, WithKey, db
  <2> QED BY <1>1, <2>1, <2>2, <2>3, <2>4, LocalStep DEF InsertMessage
<1>2. CASE Goto(c, [call[c] EXCEPT !.pc = "findMsgWinner", !.seq = 0,
                                   !.fills = FALSE])
  <2> DEFINE me == [call[c] EXCEPT !.pc = "findMsgWinner", !.seq = 0,
                                   !.fills = FALSE]
  <2>1. me \in CallState
    BY Here DEF CallState, SendPc
  <2>2. CallOK(me)
    BY Here DEF InsertMessage, At, CallState,
       CallOK, InputsKnown, CreateKnows, ReportKnows, SendKnows, DecideKnows,
       CreatePc, SendPc, DecidePc, PeerPc, ConvPc, GatedPc
  <2> QED BY <1>2, <2>1, <2>2, QuietStep, Here DEF InsertMessage, CallState
<1> QED BY <1>1, <1>2 DEF InsertMessage

\* The loser of a race on a key finds the stored row.
LEMMA FindMessageWinnerStep ==
  ASSUME IInv, NEW c \in Call, FindMessageWinner(c) PROVE IInv'
  BY FoundRow, FailStep DEF FindMessageWinner, At

\* The reply names a stored row, and stored rows stay.
LEMMA ReplySendStep ==
  ASSUME IInv, NEW c \in Call, ReplySend(c) PROVE IInv'
<1>1. Idle.pc = "idle" /\ \A d \in Call \ {c} : Compatible(Idle, call[d])
  BY LockFree DEF Idle
<1>2. accepted' \subseteq Accepted
  BY Here DEF ReplySend, At, IInv, TypeOK, Accepted, CallState, CallOK,
     InputsKnown, SendPc, ConvPc
<1>3. RepliesAreDurable'
  BY Here DEF ReplySend, At, IInv, RepliesAreDurable, WithKey, db, CallOK, SendKnows
<1>4. opened' \subseteq Opened
  BY DEF ReplySend, IInv, TypeOK
<1> QED BY <1>1, <1>2, <1>3, <1>4, IdleState, LocalStep DEF ReplySend

\* SELECT ... FOR UPDATE: the request found PENDING is nobody else's.
LEMMA LockRequestStep ==
  ASSUME IInv, NEW c \in Call, LockRequest(c) PROVE IInv'
<1>1. ASSUME MayDecide(call[c].op, call[c].actor, call[c].conv),
             Goto(c, [call[c] EXCEPT !.pc = "commitDecision"])
      PROVE  IInv'
  <2> DEFINE me == [call[c] EXCEPT !.pc = "commitDecision"]
  <2>1. me \in CallState
    BY Here DEF CallState, DecidePc
  <2>2. CallOK(me)
    BY <1>1, Here DEF LockRequest, MayDecide, At, CallState,
       CallOK, InputsKnown, CreateKnows, ReportKnows, SendKnows, DecideKnows,
       CreatePc, SendPc, DecidePc, PeerPc, ConvPc, GatedPc
  <2>3. \A d \in Call \ {c} : Compatible(me, call[d])
    BY Here DEF LockRequest, HoldsRequest, At, Compatible, CallState
  <2>4. accepted' \subseteq Accepted /\ opened' \subseteq Opened /\ RepliesAreDurable'
    BY DEF LockRequest, IInv, TypeOK, RepliesAreDurable, WithKey, db
  <2> QED BY <1>1, <2>1, <2>2, <2>3, <2>4, LocalStep DEF LockRequest
<1> QED BY <1>1, FailStep DEF LockRequest

----------------------------------------------------------------------------
(* The COMMITs.                                                            *)

\* The rows a committed send leaves: the next entry of its conversation's log.
MessageStored(c, k, row, new) ==
  /\ call[c].pc = "commitMsg" /\ k = call[c].conv
  /\ Exists(k) /\ ~IsPending(k) /\ row.sender \in convs[k].members
  /\ WithKey(row.sender, k, row.cmid) = {}
  /\ row.conv = k /\ row.sender = call[c].actor /\ row.cmid = call[c].cmid
  /\ row.seq = call[c].seq /\ row.seq = convs[k].lastSeq + 1
  /\ row.recipient # row.sender
  /\ convs[k].members = {row.sender, row.recipient}
  /\ new.members = convs[k].members /\ new.createdBy = convs[k].createdBy
  /\ new.welcome = convs[k].welcome
  /\ new.lastSeq = row.seq /\ new.lastMessage = row.seq
  /\ convs' = [convs EXCEPT ![k] = new]
  /\ messages' = messages \cup {row}
  /\ requests' = requests
  /\ outbox' = outbox \cup {MessageEvent(k, row.seq)}
  /\ call' = [call EXCEPT ![c] = [call[c] EXCEPT !.pc = "replySend", !.fills = FALSE]]
  /\ accepted' = accepted /\ opened' = opened

\* What a send knows when it commits makes its row the next of the log.
LEMMA CommitMessageEffect ==
  ASSUME IInv, NEW c \in Call, CommitMessage(c)
  PROVE  \E k \in ConvId, row \in Message, new \in ConvRow :
            MessageStored(c, k, row, new)
<1>a. PICK old : old = call[c]
  OBVIOUS
<1>b. PICK k : k = old.conv
  OBVIOUS
<1>d. PICK row : row = SentMessage(old)
  OBVIOUS
<1>e. PICK new : new = [convs[k] EXCEPT !.lastSeq = old.seq, !.lastMessage = old.seq]
  OBVIOUS
<1>1. /\ old \in CallState /\ CallOK(old) /\ old.pc = "commitMsg"
      /\ old.actor \in Person /\ old.cmid \in MsgId /\ k \in ConvId
  BY <1>a, <1>b, Here DEF CommitMessage, At, CallOK, InputsKnown, SendPc, ConvPc
<1>2. /\ Exists(k) /\ old.actor \in convs[k].members /\ ~IsPending(k)
      /\ ~old.fills /\ old.seq = convs[k].lastSeq + 1
      /\ WithKey(old.actor, k, old.cmid) = {}
  BY <1>1, <1>b DEF CallOK, SendKnows, GatedPc, IsMember
<1>3. convs[k] \in ConvRow /\ old.seq \in Nat
  BY <1>1, <1>2 DEF IInv, TypeOK, Exists, CallState
<1>4. /\ OtherMember(old.actor, k) \in Person
      /\ OtherMember(old.actor, k) # old.actor
      /\ convs[k].members = {old.actor, OtherMember(old.actor, k)}
  <2>1. PICK p, q \in Person : p # q /\ convs[k].members = {p, q}
    BY <1>1, <1>2 DEF IInv, RowsOK, TwoMembers
  <2>2. \E o \in convs[k].members : o # old.actor
    BY <2>1, <1>2
  <2> QED BY <2>1, <2>2, <1>2 DEF OtherMember
<1>5. row \in Message /\ row.conv = k /\ row.sender = old.actor
      /\ row.cmid = old.cmid /\ row.seq = old.seq
      /\ row.recipient = OtherMember(old.actor, k)
  BY <1>1, <1>3, <1>4, <1>b, <1>d DEF SentMessage, Message
<1>6. /\ new \in ConvRow
      /\ new.members = convs[k].members /\ new.createdBy = convs[k].createdBy
      /\ new.welcome = convs[k].welcome
      /\ new.lastSeq = old.seq /\ new.lastMessage = old.seq
  BY <1>3, <1>e DEF ConvRow
<1>7. /\ messages' = messages \cup {row}
      /\ requests' = requests
      /\ outbox' = outbox \cup {MessageEvent(k, old.seq)}
      /\ call' = [call EXCEPT ![c] = [old EXCEPT !.pc = "replySend", !.fills = FALSE]]
      /\ accepted' = accepted /\ opened' = opened
  BY <1>2, <1>a, <1>b, <1>d DEF CommitMessage, Goto
<1>8. convs' = [convs EXCEPT ![k] = new]
  BY <1>1, <1>a, <1>b, <1>e DEF CommitMessage, IInv, TypeOK
<1>9. MessageStored(c, k, row, new)
  BY <1>a, <1>b, <1>1, <1>2, <1>4, <1>5, <1>6, <1>7, <1>8 DEF MessageStored
<1> QED BY <1>1, <1>5, <1>6, <1>9

\* A message added to the log of an existing conversation under the next
\* number keeps every other call's knowledge, because no other call holds the
\* conversation's row lock.
LEMMA CommitMessageStep ==
  ASSUME IInv, NEW c \in Call, CommitMessage(c) PROVE IInv'
<1>a. PICK old : old = call[c]
  OBVIOUS
<1>b. PICK k \in ConvId, row \in Message, new \in ConvRow :
        MessageStored(c, k, row, new)
  BY CommitMessageEffect
<1>c. PICK me : me = [old EXCEPT !.pc = "replySend", !.fills = FALSE]
  OBVIOUS
<1>1. /\ old \in CallState /\ CallOK(old) /\ old.pc = "commitMsg"
      /\ old.actor \in Person /\ old.cmid \in MsgId /\ k = old.conv
  BY <1>a, <1>b, Here DEF MessageStored, CallOK, InputsKnown, SendPc
<1>2. /\ Exists(k) /\ old.actor \in convs[k].members /\ ~IsPending(k)
      /\ old.seq = convs[k].lastSeq + 1 /\ old.seq \in Nat
      /\ WithKey(old.actor, k, old.cmid) = {}
  BY <1>a, <1>b DEF MessageStored, Message
<1>3. convs[k] \in ConvRow
  BY <1>2 DEF IInv, TypeOK, Exists
<1>5. row.conv = k /\ row.sender = old.actor /\ row.cmid = old.cmid
      /\ row.seq = old.seq /\ row.recipient # row.sender
      /\ convs[k].members = {row.sender, row.recipient}
  BY <1>a, <1>b DEF MessageStored
<1>6. /\ new # None
      /\ new.members = convs[k].members /\ new.createdBy = convs[k].createdBy
      /\ new.lastSeq = old.seq
  BY <1>b, <1>5, NoneAssumption DEF MessageStored
<1>7. /\ messages' = messages \cup {row}
      /\ requests' = requests
      /\ outbox' = outbox \cup {MessageEvent(k, old.seq)}
      /\ call' = [call EXCEPT ![c] = me]
      /\ accepted' = accepted /\ opened' = opened
  BY <1>a, <1>b, <1>c, <1>5 DEF MessageStored
<1>8. /\ convs' \in [ConvId -> ConvRow \cup {None}]
      /\ convs'[k] = new
      /\ \A l \in ConvId \ {k} : convs'[l] = convs[l]
  BY <1>b DEF MessageStored, IInv, TypeOK
<1>9. me \in CallState /\ me.pc = "replySend" /\ me.actor = old.actor
      /\ me.conv = k /\ me.cmid = old.cmid /\ me.seq = old.seq
  BY <1>1, <1>c DEF CallState, SendPc
<1>10. TypeOK'
  <2>1. MessageEvent(k, old.seq) \in Event
    BY <1>b, <1>2 DEF MessageEvent, Event, EventType
  <2> QED BY <1>b, <1>7, <1>8, <1>9, <2>1 DEF IInv, TypeOK
<1>11. RowsOK'
  <2>1. \A r \in messages : r \in Message /\ Exists(r.conv) /\ r.conv \in ConvId
    BY DEF IInv, TypeOK, RowsOK, MembersOnly, Message
  <2>2. \A l \in ConvId : /\ Exists(l)' <=> Exists(l)
                          /\ Exists(l) => convs'[l].members = convs[l].members
                          /\ Exists(l) => convs'[l].createdBy = convs[l].createdBy
    BY <1>2, <1>6, <1>8 DEF Exists
  <2>3. TwoMembers'
    BY <2>2 DEF IInv, RowsOK, TwoMembers
  <2>4. MembersOnly'
    <3>1. \A r \in messages' : /\ Exists(r.conv)'
                              /\ r.sender # r.recipient
                              /\ convs'[r.conv].members = {r.sender, r.recipient}
      BY <1>1, <1>2, <1>5, <1>7, <2>1, <2>2 DEF IInv, RowsOK, MembersOnly
    <3>2. \A l \in ConvId : requests'[l] # None =>
            /\ Exists(l)'
            /\ requests'[l].requester = convs'[l].createdBy
            /\ convs'[l].members = {requests'[l].requester, requests'[l].recipient}
      BY <1>7, <2>2 DEF IInv, RowsOK, MembersOnly
    <3> QED BY <3>1, <3>2 DEF MembersOnly
  <2>5. OnePerPair'
    BY <2>2 DEF IInv, RowsOK, OnePerPair
  <2>6. Numbered'
    <3>1. \A r \in messages : /\ r.conv = k => convs'[r.conv].lastSeq = convs[r.conv].lastSeq + 1
                              /\ r.conv # k => convs'[r.conv].lastSeq = convs[r.conv].lastSeq
      BY <1>2, <1>6, <1>8, <2>1
    <3>2. \A r \in messages : convs[r.conv].lastSeq \in Nat /\ r.seq \in Nat
      BY <2>1 DEF IInv, TypeOK, Exists, ConvRow, Message
    <3>3. \A r \in messages' : 1 <= r.seq /\ r.seq <= convs'[r.conv].lastSeq
      BY <3>1, <3>2, <1>2, <1>3, <1>5, <1>6, <1>7, <1>8
         DEF IInv, RowsOK, Numbered, ConvRow
    <3>4. \A r \in messages : r.conv = k => r.seq # row.seq
      BY <3>2, <1>2, <1>3, <1>5 DEF IInv, RowsOK, Numbered, ConvRow
    <3>5. \A r1, r2 \in messages' : r1.conv = r2.conv /\ r1.seq = r2.seq => r1 = r2
      BY <3>4, <1>5, <1>7 DEF IInv, RowsOK, Numbered
    <3> QED BY <3>3, <3>5 DEF Numbered
  <2>7. ExactlyOnce'
    BY <1>2, <1>5, <1>7 DEF IInv, RowsOK, ExactlyOnce, WithKey
  <2>8. OneMessageWhilePending'
    BY <1>2, <1>5, <1>7, <1>8, <2>2
       DEF IInv, RowsOK, OneMessageWhilePending, IsPending
  <2> QED BY <2>3, <2>4, <2>5, <2>6, <2>7, <2>8 DEF RowsOK
<1>12. ASSUME NEW d \in Call PROVE CallOK(call[d])'
  <2>a. PICK it : it = call'[d]
    OBVIOUS
  <2>1. CASE d = c
    <3>1. it = me
      BY <1>7, <2>1, <2>a DEF IInv, TypeOK
    <3>2. \E r \in WithKey(it.actor, it.conv, it.cmid)' : r.seq = it.seq
      BY <1>5, <1>7, <1>9, <3>1 DEF WithKey
    <3>3. InputsKnown(it) /\ it.pc = "replySend"
      BY <1>1, <1>9, <3>1 DEF InputsKnown, CreatePc, SendPc, DecidePc, PeerPc, ConvPc
    <3> QED
      BY <2>a, <3>2, <3>3 DEF CallOK, InputsKnown, CreateKnows, ReportKnows,
                              SendKnows, DecideKnows, GatedPc
  <2>2. CASE d # c
    <3>1. it = call[d] /\ CallOK(it) /\ Compatible(it, old)
      BY <1>7, <1>a, <2>2, <2>a DEF IInv, TypeOK, LocksExclusive
    <3>2. it.pc \in ConvPc => it.conv \in ConvId
      BY <3>1 DEF CallOK, InputsKnown
    <3>3. CreateKnows(it)'
      <4> SUFFICES ASSUME it.pc = "commitConv"
                   PROVE  ~Exists(it.conv)' /\ Between(it.actor, it.peer)' = {}
        BY DEF CreateKnows
      <4>1. ~Exists(it.conv) /\ Between(it.actor, it.peer) = {} /\ it.conv \in ConvId
        BY <3>1, <3>2 DEF CallOK, CreateKnows, ConvPc
      <4> QED BY <4>1, <1>2, <1>6, <1>8 DEF Exists, Between
    <3>4. ReportKnows(it)'
      BY <3>1, <3>2, <1>2, <1>6, <1>8
         DEF CallOK, ReportKnows, ConvPc, IsMember, Exists
    <3>5. SendKnows(it)'
      <4>1. it.pc \in GatedPc =>
              (IsMember(it.actor, it.conv) /\ ~IsPending(it.conv) /\ ~it.fills)'
        BY <3>1, <3>2, <1>2, <1>6, <1>7, <1>8
           DEF CallOK, SendKnows, GatedPc, ConvPc, SendPc, IsMember, IsPending, Exists
      <4>2. it.pc \in {"insertMsg", "commitMsg"} => it.conv # k /\ it.conv \in ConvId
        BY <3>1, <3>2, <1>1 DEF Compatible, ConvPc, SendPc
      <4>3. it.pc \in {"insertMsg", "commitMsg"} =>
              it.seq = convs'[it.conv].lastSeq + 1
        BY <3>1, <4>2, <1>8 DEF CallOK, SendKnows
      <4>4. it.pc = "commitMsg" => WithKey(it.actor, it.conv, it.cmid)' = {}
        BY <3>1, <4>2, <1>5, <1>7 DEF CallOK, SendKnows, WithKey
      <4>5. it.pc = "replySend" =>
              \E r \in WithKey(it.actor, it.conv, it.cmid)' : r.seq = it.seq
        BY <3>1, <1>7 DEF CallOK, SendKnows, WithKey
      <4> QED BY <4>1, <4>3, <4>4, <4>5 DEF SendKnows
    <3>6. DecideKnows(it)'
      BY <3>1, <1>7 DEF CallOK, DecideKnows, IsPending
    <3> QED BY <2>a, <3>1, <3>3, <3>4, <3>5, <3>6 DEF CallOK, InputsKnown,
               CreateKnows, ReportKnows, SendKnows, DecideKnows
  <2> QED BY <2>1, <2>2
<1>13. LocksExclusive'
  <2>1. ASSUME NEW x PROVE Compatible(me, x) /\ Compatible(x, me)
    BY <1>9, LockFree
  <2>2. ASSUME NEW d \in Call, NEW e \in Call, d # e
        PROVE  Compatible(call'[d], call'[e])
    BY <1>7, <2>1, <2>2 DEF IInv, TypeOK, LocksExclusive
  <2> QED BY <2>2 DEF LocksExclusive, Compatible
<1>14. RepliesAreDurable'
  BY <1>7 DEF IInv, RepliesAreDurable, WithKey
<1> QED BY <1>10, <1>11, <1>12, <1>13, <1>14 DEF IInv

\* The row an answered request leaves, and whom it is announced to.
RequestAnswered(c, k, new) ==
  /\ call[c].pc = "commitDecision" /\ k = call[c].conv /\ IsPending(k)
  /\ call[c].op \in DecideOps
  /\ new.requester = requests[k].requester /\ new.recipient = requests[k].recipient
  /\ new.status = Resolution[call[c].op]
  /\ requests' = [requests EXCEPT ![k] = new]
  /\ outbox' = outbox \cup DecisionEvents(call[c].op, k)
  /\ call' = [call EXCEPT ![c] = Idle]
  /\ UNCHANGED <<convs, messages, accepted, opened>>

\* A decision commits on a request that is still PENDING.
LEMMA CommitDecisionEffect ==
  ASSUME IInv, NEW c \in Call, CommitDecision(c)
  PROVE  \E k \in ConvId, new \in ReqRow : RequestAnswered(c, k, new)
<1>a. PICK old : old = call[c]
  OBVIOUS
<1>b. PICK k : k = old.conv
  OBVIOUS
<1>c. PICK new : new = [requests[k] EXCEPT !.status = Resolution[old.op]]
  OBVIOUS
<1>1. /\ old.pc = "commitDecision" /\ old.op \in DecideOps
      /\ k \in ConvId /\ IsPending(k)
  BY <1>a, <1>b, Here DEF CommitDecision, At, CallOK, InputsKnown, DecideKnows,
     DecidePc, ConvPc
<1>2. requests[k] \in ReqRow
  BY <1>1 DEF IInv, TypeOK, IsPending
<1>3. /\ new \in ReqRow /\ new.status = Resolution[old.op]
      /\ new.requester = requests[k].requester
      /\ new.recipient = requests[k].recipient
  <2>1. Resolution[old.op] \in ReqStatus
    BY <1>1 DEF Resolution, DecideOps, ReqStatus
  <2> QED BY <1>2, <1>c, <2>1 DEF ReqRow
<1>4. /\ UNCHANGED <<convs, messages, accepted, opened>>
      /\ outbox' = outbox \cup DecisionEvents(old.op, k)
      /\ call' = [call EXCEPT ![c] = Idle]
      /\ requests' = [requests EXCEPT ![k] = new]
  BY <1>1, <1>a, <1>b, <1>c DEF CommitDecision, Goto, IInv, TypeOK
<1>5. RequestAnswered(c, k, new)
  BY <1>a, <1>b, <1>1, <1>3, <1>4 DEF RequestAnswered
<1> QED BY <1>1, <1>3, <1>5

\* A decision leaves the request answered; the other decisions in flight hold
\* other requests, and no send relies on a request being pending.
LEMMA CommitDecisionStep ==
  ASSUME IInv, NEW c \in Call, CommitDecision(c) PROVE IInv'
<1>a. PICK old : old = call[c]
  OBVIOUS
<1>b. PICK k \in ConvId, new \in ReqRow : RequestAnswered(c, k, new)
  BY CommitDecisionEffect
<1>1. /\ old \in CallState /\ CallOK(old) /\ old.pc = "commitDecision"
      /\ old.op \in DecideOps /\ k = old.conv /\ IsPending(k)
  BY <1>a, <1>b, Here DEF RequestAnswered
<1>3. /\ new # None /\ new.status # "PENDING"
      /\ new.requester = requests[k].requester
      /\ new.recipient = requests[k].recipient
  BY <1>a, <1>b, NoneAssumption DEF RequestAnswered, Resolution, DecideOps
<1>4. /\ UNCHANGED <<convs, messages, accepted, opened>>
      /\ outbox' = outbox \cup DecisionEvents(old.op, k)
      /\ call' = [call EXCEPT ![c] = Idle]
  BY <1>a, <1>b DEF RequestAnswered
<1>5. /\ requests' \in [ConvId -> ReqRow \cup {None}]
      /\ requests'[k] = new
      /\ \A l \in ConvId \ {k} : requests'[l] = requests[l]
  BY <1>b DEF RequestAnswered, IInv, TypeOK
<1>6. TypeOK'
  <2>1. DecisionEvents(old.op, k) \subseteq Event
    BY <1>1 DEF DecisionEvents, RequestEvent, DecideOps, Event, EventType
  <2> QED BY <1>4, <1>5, <2>1, IdleState DEF IInv, TypeOK
<1>7. \A l \in ConvId : /\ Exists(l)' <=> Exists(l)
                        /\ IsPending(l)' <=> IsPending(l) /\ l # k
  BY <1>3, <1>4, <1>5 DEF Exists, IsPending
<1>8. RowsOK'
  <2>1. MembersOnly'
    BY <1>1, <1>3, <1>4, <1>5, <1>7
       DEF IInv, RowsOK, MembersOnly, Exists, IsPending
  <2>2. OneMessageWhilePending'
    BY <1>4, <1>5, <1>7 DEF IInv, RowsOK, OneMessageWhilePending
  <2> QED BY <1>4, <2>1, <2>2 DEF IInv, RowsOK, TwoMembers, OnePerPair, Numbered,
             ExactlyOnce, Exists
<1>9. ASSUME NEW d \in Call PROVE CallOK(call[d])'
  <2>a. PICK it : it = call'[d]
    OBVIOUS
  <2>1. CASE d = c
    <3>1. it = Idle
      BY <1>4, <2>1, <2>a DEF IInv, TypeOK
    <3> QED BY <2>a, <3>1 DEF Idle, CallOK, InputsKnown, CreateKnows, ReportKnows,
               SendKnows, DecideKnows, CreatePc, SendPc, DecidePc, PeerPc, ConvPc,
               GatedPc
  <2>2. CASE d # c
    <3>1. it = call[d] /\ CallOK(it) /\ Compatible(it, old)
      BY <1>4, <1>a, <2>2, <2>a DEF IInv, TypeOK, LocksExclusive
    <3>2. it.pc \in ConvPc => it.conv \in ConvId
      BY <3>1 DEF CallOK, InputsKnown
    <3>3. CreateKnows(it)' /\ ReportKnows(it)'
      BY <3>1, <1>4 DEF CallOK, CreateKnows, ReportKnows, Exists, Between, IsMember
    <3>4. SendKnows(it)'
      BY <3>1, <3>2, <1>4, <1>7
         DEF CallOK, SendKnows, GatedPc, ConvPc, SendPc, IsMember, Exists, WithKey
    <3>5. DecideKnows(it)'
      BY <3>1, <3>2, <1>1, <1>b, <1>7
         DEF CallOK, DecideKnows, Compatible, ConvPc, DecidePc
    <3> QED BY <2>a, <3>1, <3>3, <3>4, <3>5 DEF CallOK, InputsKnown,
               CreateKnows, ReportKnows, SendKnows, DecideKnows
  <2> QED BY <2>1, <2>2
<1>10. LocksExclusive'
  <2>1. ASSUME NEW x PROVE Compatible(Idle, x) /\ Compatible(x, Idle)
    BY LockFree DEF Idle
  <2>2. ASSUME NEW d \in Call, NEW e \in Call, d # e
        PROVE  Compatible(call'[d], call'[e])
    BY <1>4, <2>1, <2>2 DEF IInv, TypeOK, LocksExclusive
  <2> QED BY <2>2 DEF LocksExclusive, Compatible
<1>11. RepliesAreDurable'
  BY <1>4 DEF IInv, RepliesAreDurable, WithKey
<1> QED BY <1>6, <1>8, <1>9, <1>10, <1>11 DEF IInv

\* The rows a committed create leaves: a conversation with its first message
\* and its request, if it has them.
ConversationBorn(c, k, new, req, row) ==
  /\ call[c].pc = "commitConv" /\ k = call[c].conv
  /\ call[c].actor \in Person /\ call[c].peer \in Person
  /\ call[c].peer # call[c].actor /\ call[c].cmid \in MsgId
  /\ call[c].pending => call[c].hasMessage
  /\ ~Exists(k) /\ Between(call[c].actor, call[c].peer) = {}
  /\ requests[k] = None /\ \A r \in messages : r.conv # k /\ r.conv \in ConvId
  /\ new.members = {call[c].actor, call[c].peer} /\ new.createdBy = call[c].actor
  /\ new.welcome = call[c].welcome /\ new.lastMessage = new.lastSeq
  /\ new.lastSeq = (IF call[c].hasMessage THEN 1 ELSE 0)
  /\ req.requester = call[c].actor /\ req.recipient = call[c].peer
  /\ req.status = "PENDING" /\ req.initial = 1
  /\ row.conv = k /\ row.sender = call[c].actor /\ row.recipient = call[c].peer
  /\ row.cmid = call[c].cmid /\ row.seq = 1
  /\ convs' = [convs EXCEPT ![k] = new]
  /\ messages' = messages \cup (IF call[c].hasMessage THEN {row} ELSE {})
  /\ requests' = IF call[c].pending THEN [requests EXCEPT ![k] = req] ELSE requests
  /\ outbox' = outbox
       \cup (IF call[c].hasMessage THEN {MessageEvent(k, 1)} ELSE {})
       \cup (IF call[c].pending THEN {RequestEvent("request.created", k)} ELSE {})
  /\ call' = [call EXCEPT ![c] = [call[c] EXCEPT !.pc = "replyCreate", !.isNew = TRUE,
                                   !.peer = None, !.cmid = None,
                                   !.hasMessage = FALSE]]
  /\ accepted' = accepted /\ opened' = opened

\* A create commits under an id and for a pair nobody else has.
LEMMA CommitConversationEffect ==
  ASSUME IInv, NEW c \in Call, CommitConversation(c)
  PROVE  \E k \in ConvId, new \in ConvRow, req \in ReqRow, row \in Message :
            ConversationBorn(c, k, new, req, row)
<1>a. PICK old : old = call[c]
  OBVIOUS
<1>b. PICK k : k = old.conv
  OBVIOUS
<1>c. PICK new : new = CreatedConv(old)
  OBVIOUS
<1>d. PICK req : req = CreatedRequest(old)
  OBVIOUS
<1>e. PICK row : row = FirstMessage(old)
  OBVIOUS
<1>1. /\ old \in CallState /\ CallOK(old) /\ old.pc = "commitConv"
      /\ old.actor \in Person /\ old.peer \in Person /\ old.peer # old.actor
      /\ old.cmid \in MsgId /\ k \in ConvId
      /\ old.pending => old.hasMessage
  BY <1>a, <1>b, Here DEF CommitConversation, At, CallOK, InputsKnown, CreatePc,
     PeerPc, ConvPc
<1>2. ~Exists(k) /\ Between(old.actor, old.peer) = {}
  BY <1>1, <1>b DEF CallOK, CreateKnows
<1>3. /\ new \in ConvRow /\ new.members = {old.actor, old.peer}
      /\ new.createdBy = old.actor /\ new.welcome = old.welcome
      /\ new.lastSeq = (IF old.hasMessage THEN 1 ELSE 0)
      /\ new.lastMessage = new.lastSeq
  BY <1>1, <1>c DEF CreatedConv, ConvRow, CallState
<1>4. /\ req \in ReqRow /\ req.requester = old.actor
      /\ req.recipient = old.peer /\ req.status = "PENDING" /\ req.initial = 1
  BY <1>1, <1>d DEF CreatedRequest, ReqRow, ReqStatus
<1>5. /\ row \in Message /\ row.conv = k /\ row.sender = old.actor
      /\ row.seq = 1 /\ row.recipient = old.peer /\ row.cmid = old.cmid
  BY <1>1, <1>b, <1>e DEF FirstMessage, Message
<1>6. /\ convs' = [convs EXCEPT ![k] = new]
      /\ messages' = messages \cup (IF old.hasMessage THEN {row} ELSE {})
      /\ requests' = IF old.pending THEN [requests EXCEPT ![k] = req] ELSE requests
      /\ outbox' = outbox
            \cup (IF old.hasMessage THEN {MessageEvent(k, 1)} ELSE {})
            \cup (IF old.pending THEN {RequestEvent("request.created", k)} ELSE {})
      /\ call' = [call EXCEPT ![c] = [old EXCEPT !.pc = "replyCreate", !.isNew = TRUE,
                                       !.peer = None, !.cmid = None,
                                   !.hasMessage = FALSE]]
      /\ accepted' = accepted /\ opened' = opened
  BY <1>a, <1>b, <1>c, <1>d, <1>e DEF CommitConversation, Goto
<1>7. requests[k] = None /\ \A r \in messages : r.conv # k /\ r.conv \in ConvId
  BY <1>1, <1>2 DEF IInv, TypeOK, RowsOK, MembersOnly, Message
<1>8. ConversationBorn(c, k, new, req, row)
  BY <1>a, <1>b, <1>1, <1>2, <1>3, <1>4, <1>5, <1>6, <1>7 DEF ConversationBorn
<1> QED BY <1>1, <1>3, <1>4, <1>5, <1>8

\* A create commits rows nobody else has, under an id nobody else has: its
\* conversation is born with its request and its first message.
LEMMA CommitConversationStep ==
  ASSUME IInv, NEW c \in Call, CommitConversation(c) PROVE IInv'
<1>a. PICK old : old = call[c]
  OBVIOUS
<1>b. PICK k \in ConvId, new \in ConvRow, req \in ReqRow, row \in Message :
        ConversationBorn(c, k, new, req, row)
  BY CommitConversationEffect
<1>c. PICK me : me = [old EXCEPT !.pc = "replyCreate", !.isNew = TRUE,
                                 !.peer = None, !.cmid = None,
                                   !.hasMessage = FALSE]
  OBVIOUS
<1>1. /\ old \in CallState /\ CallOK(old) /\ old.pc = "commitConv"
      /\ old.actor \in Person /\ old.peer \in Person /\ old.peer # old.actor
      /\ old.cmid \in MsgId /\ k = old.conv
      /\ old.pending => old.hasMessage
  BY <1>a, <1>b, Here DEF ConversationBorn
<1>2. ~Exists(k) /\ Between(old.actor, old.peer) = {}
  BY <1>a, <1>b DEF ConversationBorn
<1>3. /\ new # None /\ new.members = {old.actor, old.peer}
      /\ new.createdBy = old.actor
      /\ new.lastSeq = (IF old.hasMessage THEN 1 ELSE 0)
  BY <1>a, <1>b, NoneAssumption DEF ConversationBorn
<1>4. /\ req # None /\ req.requester = old.actor
      /\ req.recipient = old.peer /\ req.initial = 1
  BY <1>a, <1>b, NoneAssumption DEF ConversationBorn
<1>5. /\ row.conv = k /\ row.sender = old.actor
      /\ row.seq = 1 /\ row.recipient = old.peer /\ row.cmid = old.cmid
  BY <1>a, <1>b DEF ConversationBorn
<1>6. /\ me \in CallState /\ me.pc = "replyCreate" /\ me.actor = old.actor
      /\ me.conv = k
  BY <1>1, <1>c DEF CallState, CreatePc
<1>7. /\ messages' = messages \cup (IF old.hasMessage THEN {row} ELSE {})
      /\ outbox' = outbox
            \cup (IF old.hasMessage THEN {MessageEvent(k, 1)} ELSE {})
            \cup (IF old.pending THEN {RequestEvent("request.created", k)} ELSE {})
      /\ call' = [call EXCEPT ![c] = me]
      /\ accepted' = accepted /\ opened' = opened
  BY <1>a, <1>b, <1>c DEF ConversationBorn
<1>8. /\ convs' \in [ConvId -> ConvRow \cup {None}] /\ convs'[k] = new
      /\ \A l \in ConvId \ {k} : convs'[l] = convs[l]
      /\ requests' \in [ConvId -> ReqRow \cup {None}]
      /\ old.pending => requests'[k] = req
      /\ \A l \in ConvId : l # k \/ ~old.pending => requests'[l] = requests[l]
  BY <1>a, <1>b DEF ConversationBorn, IInv, TypeOK
<1>9. requests[k] = None /\ \A r \in messages : r.conv # k /\ r.conv \in ConvId
  BY <1>b DEF ConversationBorn
<1>10. TypeOK'
  <2>1. MessageEvent(k, 1) \in Event /\ RequestEvent("request.created", k) \in Event
    BY <1>1 DEF MessageEvent, RequestEvent, Event, EventType
  <2> QED BY <1>5, <1>6, <1>7, <1>8, <2>1 DEF IInv, TypeOK
<1>11. RowsOK'
  <2>1. TwoMembers'
    BY <1>1, <1>3, <1>8 DEF IInv, RowsOK, TwoMembers, Exists
  <2>2. MembersOnly'
    <3>1. \A r \in messages' : /\ Exists(r.conv)'
                              /\ r.sender # r.recipient
                              /\ convs'[r.conv].members = {r.sender, r.recipient}
      BY <1>1, <1>3, <1>5, <1>7, <1>8, <1>9 DEF IInv, RowsOK, MembersOnly, Exists
    <3>2. \A l \in ConvId : requests'[l] # None =>
            /\ Exists(l)'
            /\ requests'[l].requester = convs'[l].createdBy
            /\ convs'[l].members = {requests'[l].requester, requests'[l].recipient}
      BY <1>1, <1>3, <1>4, <1>8, <1>9 DEF IInv, RowsOK, MembersOnly, Exists
    <3> QED BY <3>1, <3>2 DEF MembersOnly
  <2>3. OnePerPair'
    BY <1>2, <1>3, <1>8 DEF IInv, RowsOK, OnePerPair, Between, Exists
  <2>4. Numbered'
    BY <1>3, <1>5, <1>7, <1>8, <1>9 DEF IInv, RowsOK, Numbered
  <2>5. ExactlyOnce'
    BY <1>5, <1>7, <1>9 DEF IInv, RowsOK, ExactlyOnce
  <2>6. OneMessageWhilePending'
    BY <1>1, <1>3, <1>4, <1>5, <1>7, <1>8, <1>9
       DEF IInv, RowsOK, OneMessageWhilePending, IsPending, Exists
  <2> QED BY <2>1, <2>2, <2>3, <2>4, <2>5, <2>6 DEF RowsOK
<1>12. ASSUME NEW d \in Call PROVE CallOK(call[d])'
  <2>a. PICK it : it = call'[d]
    OBVIOUS
  <2>1. CASE d = c
    <3>1. it = me
      BY <1>7, <2>1, <2>a DEF IInv, TypeOK
    <3>2. IsMember(it.actor, it.conv)'
      BY <1>3, <1>6, <1>8, <3>1 DEF IsMember, Exists
    <3> QED BY <2>a, <3>1, <3>2, <1>1, <1>6 DEF CallOK, InputsKnown, CreateKnows,
               ReportKnows, SendKnows, DecideKnows, CreatePc, SendPc, DecidePc,
               PeerPc, ConvPc, GatedPc
  <2>2. CASE d # c
    <3>1. it = call[d] /\ CallOK(it) /\ Compatible(it, old)
      BY <1>7, <1>a, <2>2, <2>a DEF IInv, TypeOK, LocksExclusive
    <3>2. it.pc \in ConvPc => it.conv \in ConvId
      BY <3>1 DEF CallOK, InputsKnown
    <3>3. CreateKnows(it)'
      BY <3>1, <3>2, <1>1, <1>b, <1>3, <1>8
         DEF CallOK, CreateKnows, Compatible, Exists, Between, ConvPc
    <3>4. ReportKnows(it)'
      BY <3>1, <3>2, <1>2, <1>8 DEF CallOK, ReportKnows, ConvPc, IsMember, Exists
    <3>5. it.pc \in GatedPc => it.conv \in ConvId \ {k}
      BY <3>1, <3>2, <1>2 DEF CallOK, SendKnows, GatedPc, ConvPc, SendPc, IsMember
    <3>6. SendKnows(it)'
      <4>1. it.pc \in GatedPc =>
              (IsMember(it.actor, it.conv) /\ ~IsPending(it.conv) /\ ~it.fills)'
        BY <3>1, <3>5, <1>8
           DEF CallOK, SendKnows, GatedPc, IsMember, IsPending, Exists
      <4>2. it.pc \in {"insertMsg", "commitMsg"} =>
              it.seq = convs'[it.conv].lastSeq + 1
        BY <3>1, <3>5, <1>8 DEF CallOK, SendKnows, GatedPc
      <4>3. it.pc = "commitMsg" => WithKey(it.actor, it.conv, it.cmid)' = {}
        BY <3>1, <3>5, <1>5, <1>7 DEF CallOK, SendKnows, GatedPc, WithKey
      <4>4. it.pc = "replySend" =>
              \E r \in WithKey(it.actor, it.conv, it.cmid)' : r.seq = it.seq
        BY <3>1, <1>7 DEF CallOK, SendKnows, WithKey
      <4> QED BY <4>1, <4>2, <4>3, <4>4 DEF SendKnows
    <3>7. DecideKnows(it)'
      BY <3>1, <3>2, <1>8, <1>9
         DEF CallOK, DecideKnows, IsPending, ConvPc, DecidePc
    <3> QED BY <2>a, <3>1, <3>3, <3>4, <3>6, <3>7 DEF CallOK, InputsKnown,
               CreateKnows, ReportKnows, SendKnows, DecideKnows
  <2> QED BY <2>1, <2>2
<1>13. LocksExclusive'
  <2>1. ASSUME NEW x PROVE Compatible(me, x) /\ Compatible(x, me)
    BY <1>6, LockFree
  <2>2. ASSUME NEW d \in Call, NEW e \in Call, d # e
        PROVE  Compatible(call'[d], call'[e])
    BY <1>7, <2>1, <2>2 DEF IInv, TypeOK, LocksExclusive
  <2> QED BY <2>2 DEF LocksExclusive, Compatible
<1>14. RepliesAreDurable'
  BY <1>7 DEF IInv, RepliesAreDurable, WithKey
<1> QED BY <1>10, <1>11, <1>12, <1>13, <1>14 DEF IInv

----------------------------------------------------------------------------
(* The theorems.                                                           *)

LEMMA InitIInv == Init => IInv
  BY IdleState DEF Init, IInv, TypeOK, RowsOK, TwoMembers, MembersOnly, OnePerPair,
     Numbered, ExactlyOnce, OneMessageWhilePending, Exists, IsPending, CallOK,
     InputsKnown, CreateKnows, ReportKnows, SendKnows, DecideKnows, CreatePc,
     SendPc, DecidePc, PeerPc, ConvPc, GatedPc, LocksExclusive, Compatible,
     RepliesAreDurable, Idle

\* Every step keeps the inductive invariant.
LEMMA NextIInv == IInv /\ [Next]_vars => IInv'
<1> SUFFICES ASSUME IInv, [Next]_vars PROVE IInv'
  OBVIOUS
<1>1. ASSUME NEW c \in Call, Arrive(c) PROVE IInv'
  BY <1>1, CallCreateStep, CallSendStep, CallDecideStep DEF Arrive
<1>2. ASSUME NEW c \in Call, FreeStep(c) PROVE IInv'
  BY <1>2, FindActiveBetweenStep, AuthorizeMessagingStep, CommitConversationStep,
     FindWinnerStep, DescribeExistingStep, ReplyCreateStep,
     FindByIdempotencyKeyStep, CheckCanSendStep, InsertMessageStep,
     CommitMessageStep, FindMessageWinnerStep, ReplySendStep, CommitDecisionStep
     DEF FreeStep
<1>3. ASSUME NEW c \in Call, LockStep(c) PROVE IInv'
  BY <1>3, InsertConversationStep, AllocateNextSequenceStep, LockRequestStep
     DEF LockStep
<1>4. ASSUME NEW c \in Call, Crash(c) PROVE IInv'
  BY <1>4, FailStep DEF Crash
<1>5. CASE UNCHANGED vars
  <2> USE <1>5 DEF vars
  <2>1. TypeOK' /\ RepliesAreDurable'
    BY DEF IInv, TypeOK, RepliesAreDurable, WithKey
  <2>2. RowsOK'
    BY DEF IInv, RowsOK, TwoMembers, MembersOnly, OnePerPair, Numbered,
           ExactlyOnce, OneMessageWhilePending, Exists, IsPending
  <2>3. \A c \in Call : CallOK(call[c])'
    BY DEF IInv, CallOK, InputsKnown, CreateKnows, ReportKnows, SendKnows,
           DecideKnows, Exists, IsPending, Between, IsMember, WithKey
  <2>4. LocksExclusive'
    BY DEF IInv, LocksExclusive, Compatible
  <2> QED BY <2>1, <2>2, <2>3, <2>4 DEF IInv
<1> QED BY <1>1, <1>2, <1>3, <1>4, <1>5 DEF Next

\* Every reachable state satisfies the inductive invariant.
THEOREM Invariance == Spec => []IInv
  BY InitIInv, NextIInv, PTL DEF Spec

\* Every variable keeps the shape of its rows, calls and replies.
THEOREM TypeCorrect == Spec => []TypeOK
<1>1. IInv => TypeOK
  BY DEF IInv
<1> QED BY <1>1, Invariance, PTL

\* Any number of concurrent creates leaves a pair with one conversation.
THEOREM OneConversation == Spec => []OnePerPair
<1>1. IInv => OnePerPair
  BY DEF IInv, RowsOK
<1> QED BY <1>1, Invariance, PTL

\* While a request is PENDING there is one message, the requester's, although
\* canSendMessage runs outside the transaction that inserts.
THEOREM PendingHoldsOneMessage == Spec => []OneMessageWhilePending
<1>1. IInv => OneMessageWhilePending
  BY DEF IInv, RowsOK
<1> QED BY <1>1, Invariance, PTL

\* A clientMessageId is stored at most once per sender and conversation.
THEOREM StoredOnce == Spec => []ExactlyOnce
<1>1. IInv => ExactlyOnce
  BY DEF IInv, RowsOK
<1> QED BY <1>1, Invariance, PTL

\* Only members' messages are stored, addressed to the other member.
THEOREM StoredForMembers == Spec => []MembersOnly
<1>1. IInv => MembersOnly
  BY DEF IInv, RowsOK
<1> QED BY <1>1, Invariance, PTL

\* Whatever crashes and retries follow, a reply that reached a client stays
\* true: its message is stored under the number it named.
THEOREM Durability == Spec => []RepliesAreDurable
<1>1. IInv => RepliesAreDurable
  BY DEF IInv
<1> QED BY <1>1, Invariance, PTL

\* FOR UPDATE makes the answer to a request final.
THEOREM AnswerIsFinal == Spec => DecidedOnce
<1> DEFINE Final == /\ \A c \in Call : CommitDecision(c) => IsPending(call[c].conv)
                    /\ \A k \in ConvId : requests[k] # None /\ ~IsPending(k)
                                          => requests'[k] = requests[k]
<1>1. IInv /\ [Next]_vars => [Final]_vars
  <2> SUFFICES ASSUME IInv, Next PROVE Final
    OBVIOUS
  <2>1. ASSUME NEW c \in Call, CommitDecision(c) PROVE IsPending(call[c].conv)
    BY <2>1, Here DEF CommitDecision, At, CallOK, DecideKnows
  <2>2. ASSUME NEW k \in ConvId, requests[k] # None, ~IsPending(k)
        PROVE  requests'[k] = requests[k]
    <3>1. ASSUME NEW c \in Call, CommitDecision(c) PROVE requests'[k] = requests[k]
      BY <3>1, <2>1, <2>2 DEF CommitDecision, IInv, TypeOK
    <3>2. ASSUME NEW c \in Call, CommitConversation(c)
          PROVE  requests'[k] = requests[k]
      BY <3>2, <2>2, Here DEF CommitConversation, At, CallOK, CreateKnows, IInv,
         TypeOK, RowsOK, MembersOnly
    <3>3. ASSUME NEW c \in Call, CommitMessage(c) PROVE requests'[k] = requests[k]
      BY <3>3, Here DEF CommitMessage, At, CallOK, SendKnows, GatedPc
    <3>4. UNCHANGED requests
          \/ \E c \in Call : \/ CommitDecision(c) \/ CommitConversation(c)
                             \/ CommitMessage(c)
      BY ZenonT(60) DEF Next, Arrive, FreeStep, LockStep, Crash, CallCreate, CallSend,
         CallDecide, FindActiveBetween, AuthorizeMessaging, InsertConversation,
         FindWinner, DescribeExisting, ReplyCreate, FindByIdempotencyKey,
         CheckCanSend, AllocateNextSequence, InsertMessage, FindMessageWinner,
         ReplySend, LockRequest, db
    <3> QED BY <3>1, <3>2, <3>3, <3>4
  <2> QED BY <2>1, <2>2
<1> QED BY <1>1, Invariance, PTL DEF Spec, DecidedOnce

----------------------------------------------------------------------------
(* Waiting.                                                                *)

\* d's open transaction holds what c's next statement waits for: the pair's
\* entry in the unique index, the conversation's row or the request's row.
WaitsFor(c, d) ==
  /\ c # d
  /\ \/ At(c, "insertConv") /\ HoldsPair(d, call[c].actor, call[c].peer)
     \/ At(c, "allocate") /\ HoldsConversation(d, call[c].conv)
     \/ At(c, "commitMsg") /\ call[c].fills /\ HoldsRequest(d, call[c].conv)
     \/ At(c, "lockRequest") /\ HoldsRequest(d, call[c].conv)

\* Whoever waits, waits for one transaction, which itself waits for none.
WaitsAreShort ==
  \A c, d \in Call : WaitsFor(c, d) =>
    \A e \in Call : ~WaitsFor(d, e) /\ (WaitsFor(c, e) => e = d)

\* Creates, sends and decisions never wait for one another in a circle, nor in
\* a chain, however many run: a lock is taken last, but for the conversation's,
\* and a send that holds this one has no request left to wait for
\* (uq_conversations_active_pair, allocateNextSequence, findByIdForUpdate).
THEOREM NoDeadlock == Spec => []WaitsAreShort
<1>1. IInv => WaitsAreShort
  <2> SUFFICES ASSUME IInv, NEW c \in Call, NEW d \in Call, WaitsFor(c, d),
                      NEW e \in Call
               PROVE  ~WaitsFor(d, e) /\ (WaitsFor(c, e) => e = d)
    BY DEF WaitsAreShort
  <2>1. /\ call[c].pc = "commitMsg" => ~call[c].fills
        /\ call[d].pc = "commitMsg" => ~call[d].fills
    BY Here DEF CallOK, SendKnows, GatedPc
  <2>2. call[d].pc \in {"commitConv", "insertMsg", "commitMsg", "commitDecision"}
    BY DEF WaitsFor, HoldsPair, HoldsConversation, HoldsRequest
  <2>3. ~WaitsFor(d, e) BY <2>1, <2>2 DEF WaitsFor, At
  <2>4. ASSUME WaitsFor(c, e), e # d PROVE FALSE
    <3>1. Compatible(call[d], call[e]) BY <2>4 DEF IInv, LocksExclusive
    <3>2. CASE At(c, "insertConv")
      BY <2>4, <3>1, <3>2 DEF WaitsFor, At, HoldsPair, Compatible
    <3>3. CASE At(c, "allocate")
      BY <2>4, <3>1, <3>3 DEF WaitsFor, At, HoldsConversation, Compatible
    <3>4. CASE At(c, "lockRequest")
      BY <2>4, <3>1, <3>4 DEF WaitsFor, At, HoldsRequest, Compatible
    <3> QED BY <2>1, <2>4, <3>2, <3>3, <3>4 DEF WaitsFor, At
  <2> QED BY <2>3, <2>4
<1> QED BY <1>1, Invariance, PTL

============================================================================
