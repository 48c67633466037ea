----------------------- MODULE MessagingChannelProofs -----------------------
(***************************************************************************)
(* Proofs about what clients and other services are told by Messaging:     *)
(* numbers without gaps, reports that stay true, events for exactly the    *)
(* committed rows, and the one log per pair that DirectChannel promises.   *)
(***************************************************************************)
EXTENDS MessagingProofs, MessagingRefinement, SequenceTheorems

----------------------------------------------------------------------------
(* What a step can be.                                                     *)

\* A call moves on, to somewhere it does not report a create from, and nothing
\* else changes.
Quiet(c) ==
  /\ \E me : me.pc # "replyCreate" /\ Goto(c, me)
  /\ UNCHANGED <<convs, requests, messages, outbox, accepted, opened>>

\* Arrivals, crashes and every await up to a COMMIT or a reply are quiet.
LEMMA StepKinds ==
  ASSUME IInv, Next
  PROVE  \E c \in Call : \/ CommitConversation(c) \/ CommitMessage(c)
                         \/ CommitDecision(c) \/ DescribeExisting(c)
                         \/ ReplyCreate(c) \/ ReplySend(c) \/ Quiet(c)
<1>1. PICK c \in Call : Arrive(c) \/ FreeStep(c) \/ LockStep(c) \/ Crash(c)
  BY DEF Next
<1>2. PICK it : it = call[c]
  OBVIOUS
<1>3. it \in CallState
  BY <1>2, Here
<1>4. Idle.pc # "replyCreate"
  BY DEF Idle
<1>5. ASSUME Arrive(c) PROVE Quiet(c)
  BY <1>5 DEF Arrive, CallCreate, CallSend, CallDecide, Quiet, Idle, db
<1>6. ASSUME Crash(c) PROVE Quiet(c)
  BY <1>4, <1>6 DEF Crash, Fail, Quiet, db
<1>7. \A k : Describe(it, k).pc # "replyCreate"
  BY DEF Describe, Idle
<1>8. ASSUME FindActiveBetween(c) \/ FindWinner(c) PROVE Quiet(c)
  <2>1. [it EXCEPT !.pc = "authorize"].pc # "replyCreate"
    BY <1>3 DEF CallState
  <2> QED BY <1>2, <1>4, <1>7, <1>8, <2>1
             DEF FindActiveBetween, FindWinner, Fail, Quiet, db
<1>9. ASSUME AuthorizeMessaging(c) PROVE Quiet(c)
  <2>1. \A r : [it EXCEPT !.pc = "insertConv", !.op = None, !.pending = r].pc
                 # "replyCreate"
    BY <1>3 DEF CallState
  <2> QED BY <1>2, <1>4, <1>9, <2>1 DEF AuthorizeMessaging, Fail, Quiet, db
<1>10. ASSUME InsertConversation(c) PROVE Quiet(c)
  <2>1. /\ \A k : [it EXCEPT !.pc = "commitConv", !.conv = k].pc # "replyCreate"
        /\ [it EXCEPT !.pc = "findWinner"].pc # "replyCreate"
    BY <1>3 DEF CallState
  <2> QED BY <1>2, <1>10, <2>1 DEF InsertConversation, Quiet, db
<1>11. ASSUME FindByIdempotencyKey(c) \/ FindMessageWinner(c) PROVE Quiet(c)
  <2>1. /\ [it EXCEPT !.pc = "gate"].pc # "replyCreate"
        /\ \A s : [it EXCEPT !.pc = "replySend", !.seq = s].pc # "replyCreate"
    BY <1>3 DEF CallState
  <2> QED BY <1>2, <1>4, <1>11, <2>1
             DEF FindByIdempotencyKey, FindMessageWinner, Fail, Quiet, db
<1>12. ASSUME CheckCanSend(c) \/ AllocateNextSequence(c) PROVE Quiet(c)
  <2>1. /\ \A f : [it EXCEPT !.pc = "allocate", !.fills = f].pc # "replyCreate"
        /\ \A s : [it EXCEPT !.pc = "insertMsg", !.seq = s].pc # "replyCreate"
    BY <1>3 DEF CallState
  <2> QED BY <1>2, <1>4, <1>12, <2>1
             DEF CheckCanSend, AllocateNextSequence, Fail, Quiet, db
<1>13. ASSUME InsertMessage(c) \/ LockRequest(c) PROVE Quiet(c)
  <2>1. /\ [it EXCEPT !.pc = "commitMsg"].pc # "replyCreate"
        /\ [it EXCEPT !.pc = "findMsgWinner", !.seq = 0, !.fills = FALSE].pc
             # "replyCreate"
        /\ [it EXCEPT !.pc = "commitDecision"].pc # "replyCreate"
    BY <1>3 DEF CallState
  <2> QED BY <1>2, <1>4, <1>13, <2>1 DEF InsertMessage, LockRequest, Fail, Quiet, db
<1> QED
  BY <1>1, <1>5, <1>6, <1>8, <1>9, <1>10, <1>11, <1>12, <1>13
     DEF FreeStep, LockStep

\* What is left of a step that commits nothing.
LEMMA RowsKept ==
  ASSUME NEW c \in Call,
         DescribeExisting(c) \/ ReplyCreate(c) \/ ReplySend(c) \/ Quiet(c)
  PROVE  UNCHANGED <<convs, requests, messages, outbox>>
  BY DEF DescribeExisting, ReplyCreate, ReplySend, Quiet, db

----------------------------------------------------------------------------
(* The sequence numbers of a conversation.                                 *)

\* A stored row adds its number to its own conversation and to no other.
LEMMA SeqsGrow ==
  ASSUME NEW row, NEW k, messages' = messages \cup {row}
  PROVE  SeqsOf(k)' = SeqsOf(k) \cup (IF row.conv = k THEN {row.seq} ELSE {})
  BY DEF SeqsOf

\* The row lock makes the committed number the next one, and a conversation
\* is born with the numbers its own transaction wrote.
LEMMA GaplessStep ==
  ASSUME IInv, GaplessSequence, Next, IInv' PROVE GaplessSequence'
<1>1. \A r1, r2 \in messages' : r1.conv = r2.conv /\ r1.seq = r2.seq => r1 = r2
  BY DEF IInv, RowsOK, Numbered
<1>2. ASSUME NEW l \in ConvId
      PROVE  IF Exists(l)'
             THEN /\ SeqsOf(l)' = 1 .. convs'[l].lastSeq
                  /\ convs'[l].lastMessage = convs'[l].lastSeq
             ELSE SeqsOf(l)' = {}
  <2>a. IF Exists(l)
        THEN /\ SeqsOf(l) = 1 .. convs[l].lastSeq
             /\ convs[l].lastMessage = convs[l].lastSeq
        ELSE SeqsOf(l) = {}
    BY DEF GaplessSequence
  <2>1. ASSUME NEW c \in Call, CommitMessage(c)
        PROVE  IF Exists(l)'
               THEN /\ SeqsOf(l)' = 1 .. convs'[l].lastSeq
                    /\ convs'[l].lastMessage = convs'[l].lastSeq
               ELSE SeqsOf(l)' = {}
    <3>1. PICK k \in ConvId, row \in Message, new \in ConvRow :
            MessageStored(c, k, row, new)
      BY <2>1, CommitMessageEffect
    <3>2. /\ Exists(k) /\ row.conv = k /\ row.seq = convs[k].lastSeq + 1
          /\ new.lastSeq = row.seq /\ new.lastMessage = row.seq /\ new # None
          /\ messages' = messages \cup {row}
          /\ convs'[k] = new /\ \A m \in ConvId \ {k} : convs'[m] = convs[m]
      BY <3>1, NoneAssumption DEF MessageStored, IInv, TypeOK
    <3>3. convs[k].lastSeq \in Nat
      BY <3>2 DEF IInv, TypeOK, Exists, ConvRow
    <3>4. SeqsOf(l)' = SeqsOf(l) \cup (IF l = k THEN {row.seq} ELSE {})
      BY <3>2, SeqsGrow
    <3>5. CASE l = k
      <4>1. SeqsOf(l)' = (1 .. convs[k].lastSeq) \cup {convs[k].lastSeq + 1}
        BY <2>a, <3>2, <3>4, <3>5
      <4>2. (1 .. convs[k].lastSeq) \cup {convs[k].lastSeq + 1}
              = 1 .. (convs[k].lastSeq + 1)
        BY <3>3
      <4> QED BY <3>2, <3>5, <4>1, <4>2 DEF Exists
    <3>6. CASE l # k
      BY <2>a, <3>2, <3>4, <3>6 DEF Exists
    <3> QED BY <3>5, <3>6
  <2>2. ASSUME NEW c \in Call, CommitConversation(c)
        PROVE  IF Exists(l)'
               THEN /\ SeqsOf(l)' = 1 .. convs'[l].lastSeq
                    /\ convs'[l].lastMessage = convs'[l].lastSeq
               ELSE SeqsOf(l)' = {}
    <3>1. PICK k \in ConvId, new \in ConvRow, req \in ReqRow, row \in Message :
            ConversationBorn(c, k, new, req, row)
      BY <2>2, CommitConversationEffect
    <3>2. /\ ~Exists(k) /\ row.conv = k /\ row.seq = 1 /\ new # None
          /\ new.lastSeq = (IF call[c].hasMessage THEN 1 ELSE 0)
          /\ new.lastMessage = new.lastSeq
          /\ messages' = messages \cup (IF call[c].hasMessage THEN {row} ELSE {})
          /\ convs'[k] = new /\ \A m \in ConvId \ {k} : convs'[m] = convs[m]
      BY <3>1, NoneAssumption DEF ConversationBorn, IInv, TypeOK
    <3>3. SeqsOf(l)' = SeqsOf(l) \cup (IF l = k /\ call[c].hasMessage THEN {1} ELSE {})
      <4>1. CASE call[c].hasMessage
        BY <3>2, <4>1, SeqsGrow
      <4>2. CASE ~call[c].hasMessage
        BY <3>2, <4>2 DEF SeqsOf
      <4> QED BY <4>1, <4>2
    <3>4. 1 .. 0 = {} /\ 1 .. 1 = {1}
      OBVIOUS
    <3>5. CASE l = k
      BY <2>a, <3>2, <3>3, <3>4, <3>5 DEF Exists
    <3>6. CASE l # k
      BY <2>a, <3>2, <3>3, <3>6 DEF Exists
    <3> QED BY <3>5, <3>6
  <2>3. ASSUME UNCHANGED <<convs, messages>>
        PROVE  IF Exists(l)'
               THEN /\ SeqsOf(l)' = 1 .. convs'[l].lastSeq
                    /\ convs'[l].lastMessage = convs'[l].lastSeq
               ELSE SeqsOf(l)' = {}
    BY <2>a, <2>3 DEF Exists, SeqsOf
  <2>4. ASSUME NEW c \in Call, CommitDecision(c) PROVE UNCHANGED <<convs, messages>>
    BY <2>4 DEF CommitDecision
  <2> QED BY <2>1, <2>2, <2>3, <2>4, StepKinds, RowsKept
<1> QED BY <1>1, <1>2 DEF GaplessSequence

----------------------------------------------------------------------------
(* The transactional outbox.                                               *)

\* OutboxAtomic, event by event.
EventOf(e) ==
  \/ \E r \in messages : e = MessageEvent(r.conv, r.seq)
  \/ \E k \in ConvId : requests[k] # None /\ e = RequestEvent("request.created", k)
  \/ \E k \in ConvId : /\ requests[k] # None /\ requests[k].status = "ACCEPTED"
                       /\ e = RequestEvent("request.accepted", k)
  \/ \E k \in ConvId : /\ requests[k] # None /\ requests[k].status = "DECLINED"
                       /\ e = RequestEvent("request.declined", k)

\* The outbox is exact if it holds an event just when a row accounts for it.
LEMMA OutboxByEvent == OutboxAtomic <=> \A e : e \in outbox <=> EventOf(e)
  BY DEF OutboxAtomic, EventOf

\* Each COMMIT writes its rows and their events together: an answered request
\* was PENDING, so its first announcement is neither lost nor repeated.
LEMMA OutboxStep ==
  ASSUME IInv, OutboxAtomic, Next PROVE OutboxAtomic'
<1>1. \A e : e \in outbox <=> EventOf(e)
  BY OutboxByEvent
<1>2. SUFFICES ASSUME NEW e PROVE e \in outbox' <=> EventOf(e)'
  BY OutboxByEvent DEF OutboxAtomic, EventOf
<1>3. ASSUME NEW c \in Call, CommitMessage(c) PROVE e \in outbox' <=> EventOf(e)'
  <2>1. PICK k \in ConvId, row \in Message, new \in ConvRow :
          MessageStored(c, k, row, new)
    BY <1>3, CommitMessageEffect
  <2> QED BY <1>1, <2>1 DEF MessageStored, EventOf
<1>4. ASSUME NEW c \in Call, CommitDecision(c) PROVE e \in outbox' <=> EventOf(e)'
  <2>1. PICK k \in ConvId, new \in ReqRow : RequestAnswered(c, k, new)
    BY <1>4, CommitDecisionEffect
  <2>2. /\ requests[k] # None /\ requests[k].status = "PENDING" /\ new # None
        /\ new.status = Resolution[call[c].op] /\ call[c].op \in DecideOps
        /\ requests'[k] = new /\ \A l \in ConvId \ {k} : requests'[l] = requests[l]
        /\ outbox' = outbox \cup DecisionEvents(call[c].op, k)
        /\ messages' = messages
    BY <2>1, NoneAssumption DEF RequestAnswered, IsPending, IInv, TypeOK
  <2>3. DecisionEvents(call[c].op, k) =
          (IF new.status = "ACCEPTED" THEN {RequestEvent("request.accepted", k)} ELSE {})
            \cup (IF new.status = "DECLINED" THEN {RequestEvent("request.declined", k)}
                  ELSE {})
    BY <2>2 DEF DecisionEvents, Resolution, DecideOps
  <2> QED BY <1>1, <2>2, <2>3 DEF EventOf
<1>5. ASSUME NEW c \in Call, CommitConversation(c) PROVE e \in outbox' <=> EventOf(e)'
  <2>1. PICK k \in ConvId, new \in ConvRow, req \in ReqRow, row \in Message :
          ConversationBorn(c, k, new, req, row)
    BY <1>5, CommitConversationEffect
  <2>2. /\ requests[k] = None /\ req # None /\ req.status = "PENDING"
        /\ row.conv = k /\ row.seq = 1
        /\ messages' = messages \cup (IF call[c].hasMessage THEN {row} ELSE {})
        /\ call[c].pending => requests'[k] = req
        /\ ~call[c].pending => requests' = requests
        /\ \A l \in ConvId \ {k} : requests'[l] = requests[l]
        /\ outbox' = outbox
             \cup (IF call[c].hasMessage THEN {MessageEvent(k, 1)} ELSE {})
             \cup (IF call[c].pending THEN {RequestEvent("request.created", k)} ELSE {})
    BY <2>1, NoneAssumption DEF ConversationBorn, IInv, TypeOK
  <2> QED BY <1>1, <2>2 DEF EventOf
<1>6. ASSUME UNCHANGED <<requests, messages, outbox>>
      PROVE  e \in outbox' <=> EventOf(e)'
  BY <1>1, <1>6 DEF EventOf
<1> QED BY <1>3, <1>4, <1>5, <1>6, StepKinds, RowsKept

----------------------------------------------------------------------------
(* What clients are told of a create.                                      *)

\* No COMMIT takes back what a report says: members, creator and Welcome are
\* written once, and a conversation that exists never becomes PENDING.
LEMMA ReportKept ==
  ASSUME IInv, Next, NEW o, o.conv \in ConvId, ReportTrue(o)
  PROVE  ReportTrue(o)'
<1>1. ASSUME NEW c \in Call, CommitMessage(c) PROVE ReportTrue(o)'
  <2>1. PICK k \in ConvId, row \in Message, new \in ConvRow :
          MessageStored(c, k, row, new)
    BY <1>1, CommitMessageEffect
  <2>2. /\ Exists(k) /\ new # None /\ new.members = convs[k].members
        /\ new.createdBy = convs[k].createdBy /\ new.welcome = convs[k].welcome
        /\ convs'[k] = new /\ \A m \in ConvId \ {k} : convs'[m] = convs[m]
        /\ requests' = requests
    BY <2>1, NoneAssumption DEF MessageStored, IInv, TypeOK
  <2> QED BY <2>2 DEF ReportTrue, IsMember, IsPending, Exists
<1>2. ASSUME NEW c \in Call, CommitDecision(c) PROVE ReportTrue(o)'
  <2>1. PICK k \in ConvId, new \in ReqRow : RequestAnswered(c, k, new)
    BY <1>2, CommitDecisionEffect
  <2>2. /\ new # None /\ new.status # "PENDING"
        /\ requests'[k] = new /\ \A m \in ConvId \ {k} : requests'[m] = requests[m]
        /\ convs' = convs
    BY <2>1, NoneAssumption DEF RequestAnswered, Resolution, DecideOps, IInv, TypeOK
  <2> QED BY <2>2 DEF ReportTrue, IsMember, IsPending, Exists
<1>3. ASSUME NEW c \in Call, CommitConversation(c) PROVE ReportTrue(o)'
  <2>1. PICK k \in ConvId, new \in ConvRow, req \in ReqRow, row \in Message :
          ConversationBorn(c, k, new, req, row)
    BY <1>3, CommitConversationEffect
  <2>2. /\ ~Exists(k)
        /\ \A m \in ConvId \ {k} : convs'[m] = convs[m]
        /\ \A m \in ConvId \ {k} : requests'[m] = requests[m]
    BY <2>1 DEF ConversationBorn, IInv, TypeOK
  <2> QED BY <2>2 DEF ReportTrue, IsMember, IsPending, Exists
<1>4. ASSUME UNCHANGED <<convs, requests>> PROVE ReportTrue(o)'
  BY <1>4 DEF ReportTrue, IsMember, IsPending, Exists
<1> QED BY <1>1, <1>2, <1>3, <1>4, StepKinds, RowsKept

\* Only the COMMIT of a create makes a claim, on an id nobody had; its reply
\* carries the claim to the client, or a crash drops it.
LEMMA ReportsStep ==
  ASSUME IInv, ReportsOK, Next, IInv' PROVE ReportsOK'
<1>a. /\ call \in [Call -> CallState]
      /\ \A o \in opened : o.conv \in ConvId
      /\ \A d \in Call : Reporting(d) => call[d].conv \in ConvId
  BY Here DEF IInv, TypeOK, Opened, Reporting, At, CallOK, InputsKnown, ConvPc
<1>b. \A o : o.conv \in ConvId /\ ReportTrue(o) => ReportTrue(o)'
  BY ReportKept
<1>1. ASSUME NEW c \in Call,
             CommitMessage(c) \/ CommitDecision(c) \/ ReplySend(c) \/ Quiet(c)
      PROVE  ReportsOK'
  <2>1. PICK me : /\ me.pc # "replyCreate" /\ call' = [call EXCEPT ![c] = me]
                  /\ opened' = opened
    <3>1. [call[c] EXCEPT !.pc = "replySend", !.fills = FALSE].pc # "replyCreate"
      BY <1>a DEF CallState
    <3>2. Idle.pc # "replyCreate"
      BY DEF Idle
    <3> QED BY <1>1, <3>1, <3>2
               DEF CommitMessage, CommitDecision, ReplySend, Quiet, Goto
  <2>2. \A d \in Call : Reporting(d)' => Reporting(d) /\ call'[d] = call[d]
    BY <1>a, <2>1 DEF Reporting, At
  <2>3. /\ \A p \in opened' : ReportTrue(p)'
        /\ \A d \in Call : Reporting(d)' => ReportTrue(call[d])'
    BY <1>a, <1>b, <2>1, <2>2 DEF ReportsOK, ReportTrue, IsMember, IsPending, Exists
  <2>4. ClaimsApart'
    BY <2>1, <2>2 DEF ReportsOK, ClaimsApart
  <2> QED BY <2>3, <2>4 DEF ReportsOK
<1>2. ASSUME NEW c \in Call, DescribeExisting(c) PROVE ReportsOK'
  <2>1. PICK me : me = [call[c] EXCEPT !.pc = "replyCreate", !.isNew = FALSE,
                                       !.pending = IsPending(call[c].conv)]
    OBVIOUS
  <2>2. /\ call' = [call EXCEPT ![c] = me] /\ opened' = opened
        /\ convs' = convs /\ requests' = requests
        /\ call[c].pc = "describe"
    BY <1>2, <2>1 DEF DescribeExisting, Goto, db, At
  <2>3. /\ me.actor = call[c].actor /\ me.conv = call[c].conv /\ ~me.isNew
        /\ me.pending <=> IsPending(call[c].conv)
    BY <1>a, <2>1 DEF CallState
  <2>4. IsMember(me.actor, me.conv)
    BY <2>2, <2>3, Here DEF CallOK, ReportKnows
  <2>5. ReportTrue(me)'
    BY <2>2, <2>3, <2>4 DEF ReportTrue, IsMember, IsPending, Exists
  <2>6. /\ call'[c] = me
        /\ \A d \in Call \ {c} : call'[d] = call[d]
    BY <1>a, <2>2
  <2>7. \A d \in Call \ {c} : Reporting(d)' => Reporting(d) /\ call'[d] = call[d]
    BY <2>6 DEF Reporting, At
  <2>8. /\ \A p \in opened' : ReportTrue(p)'
        /\ \A d \in Call : Reporting(d)' => ReportTrue(call[d])'
    BY <1>a, <1>b, <2>2, <2>5, <2>6, <2>7
       DEF ReportsOK, ReportTrue, IsMember, IsPending, Exists
  <2>9. ClaimsApart'
    BY <2>2, <2>3, <2>6, <2>7 DEF ReportsOK, ClaimsApart
  <2> QED BY <2>8, <2>9 DEF ReportsOK
<1>3. ASSUME NEW c \in Call, ReplyCreate(c) PROVE ReportsOK'
  <2>1. PICK o : o = [actor |-> call[c].actor, conv |-> call[c].conv,
                      welcome |-> call[c].welcome, pending |-> call[c].pending,
                      isNew |-> call[c].isNew]
    OBVIOUS
  <2>2. /\ call' = [call EXCEPT ![c] = Idle] /\ opened' = opened \cup {o}
        /\ convs' = convs /\ requests' = requests /\ Reporting(c)
    BY <1>3, <2>1 DEF ReplyCreate, Goto, db, Reporting
  <2>3. /\ o.actor = call[c].actor /\ o.conv = call[c].conv /\ o.welcome = call[c].welcome
        /\ o.pending = call[c].pending /\ o.isNew = call[c].isNew
    BY <2>1
  <2>4. ReportTrue(o)'
    BY <2>2, <2>3 DEF ReportsOK, ReportTrue, IsMember, IsPending, Exists
  <2>5. \A d \in Call : Reporting(d)' => d # c /\ Reporting(d) /\ call'[d] = call[d]
    BY <1>a, <2>2 DEF Reporting, At, Idle
  <2>6. /\ \A p \in opened' : ReportTrue(p)'
        /\ \A d \in Call : Reporting(d)' => ReportTrue(call[d])'
    BY <1>a, <1>b, <2>2, <2>4, <2>5
       DEF ReportsOK, ReportTrue, IsMember, IsPending, Exists
  <2>7. ClaimsApart'
    BY <2>2, <2>3, <2>5 DEF ReportsOK, ClaimsApart
  <2> QED BY <2>6, <2>7 DEF ReportsOK
<1>4. ASSUME NEW c \in Call, CommitConversation(c) PROVE ReportsOK'
  <2>1. PICK k \in ConvId, new \in ConvRow, req \in ReqRow, row \in Message :
          ConversationBorn(c, k, new, req, row)
    BY <1>4, CommitConversationEffect
  <2>2. PICK me : me = [call[c] EXCEPT !.pc = "replyCreate", !.isNew = TRUE,
                                       !.peer = None, !.cmid = None,
                                       !.hasMessage = FALSE]
    OBVIOUS
  <2>3. /\ me.actor = call[c].actor /\ me.conv = k /\ me.welcome = call[c].welcome
        /\ me.pending = call[c].pending /\ me.isNew
    BY <1>a, <2>1, <2>2 DEF CallState, ConversationBorn
  <2>4. /\ ~Exists(k) /\ new # None /\ req # None
        /\ me.actor \in new.members /\ new.createdBy = me.actor
        /\ new.welcome = me.welcome
        /\ requests[k] = None
        /\ me.pending => requests'[k] = req
        /\ ~me.pending => requests'[k] = None
        /\ convs'[k] = new /\ call' = [call EXCEPT ![c] = me] /\ opened' = opened
    BY <2>1, <2>2, <2>3, NoneAssumption DEF ConversationBorn, IInv, TypeOK
  <2>5. ReportTrue(me)'
    BY <2>3, <2>4 DEF ReportTrue, IsMember, IsPending, Exists
  <2>6. /\ \A o \in opened : o.conv # k
        /\ \A d \in Call : Reporting(d) => call[d].conv # k
    BY <2>4 DEF ReportsOK, ReportTrue, IsMember
  <2>7. /\ call'[c] = me
        /\ \A d \in Call \ {c} : call'[d] = call[d]
    BY <1>a, <2>4
  <2>8. /\ \A p \in opened' : ReportTrue(p)'
        /\ \A d \in Call : Reporting(d)' => ReportTrue(call[d])'
    BY <1>a, <1>b, <2>4, <2>5, <2>7
       DEF ReportsOK, ReportTrue, IsMember, IsPending, Exists, Reporting, At
  <2>9. ClaimsApart'
    BY <2>3, <2>4, <2>6, <2>7 DEF ReportsOK, ClaimsApart, Reporting, At
  <2> QED BY <2>8, <2>9 DEF ReportsOK
<1> QED BY <1>1, <1>2, <1>3, <1>4, StepKinds

----------------------------------------------------------------------------
(* The theorems about rows, events and reports.                            *)

LEMMA InitHInv == Init => HInv
<1> SUFFICES ASSUME Init PROVE HInv
  OBVIOUS
<1>1. IInv
  BY InitIInv
<1>2. GaplessSequence /\ OutboxAtomic
  BY DEF Init, GaplessSequence, OutboxAtomic, SeqsOf, Exists
<1>3. ReportsOK
  BY DEF Init, ReportsOK, ClaimsApart, Reporting, At, Idle
<1> QED BY <1>1, <1>2, <1>3 DEF HInv

\* Every step keeps the history invariant.
LEMMA NextHInv == HInv /\ [Next]_vars => HInv'
<1> SUFFICES ASSUME HInv, [Next]_vars PROVE HInv'
  OBVIOUS
<1>1. IInv /\ GaplessSequence /\ OutboxAtomic /\ ReportsOK
  BY DEF HInv
<1>2. IInv'
  BY <1>1, NextIInv
<1>3. CASE Next
  BY <1>1, <1>2, <1>3, GaplessStep, OutboxStep, ReportsStep DEF HInv
<1>4. CASE UNCHANGED vars
  <2>1. GaplessSequence' /\ OutboxAtomic'
    BY <1>1, <1>4 DEF vars, GaplessSequence, OutboxAtomic, SeqsOf, Exists
  <2>2. ReportsOK'
    BY <1>1, <1>4 DEF vars, ReportsOK, ClaimsApart, ReportTrue, Reporting, At,
       IsMember, IsPending, Exists
  <2> QED BY <1>2, <2>1, <2>2 DEF HInv
<1> QED BY <1>3, <1>4

\* Every reachable state satisfies the strengthened invariant.
THEOREM HInvariance == Spec => []HInv
  BY InitHInv, NextHInv, PTL DEF Spec

\* The committed messages of a conversation carry exactly the numbers up to
\* last_sequence_no, whatever sends were rolled back in between.
THEOREM NoGaps == Spec => []GaplessSequence
<1>1. HInv => GaplessSequence
  BY DEF HInv
<1> QED BY <1>1, HInvariance, PTL

\* An outbox row exists exactly for each committed message, request and
\* answered request.
THEOREM AnnouncedExactly == Spec => []OutboxAtomic
<1>1. HInv => OutboxAtomic
  BY DEF HInv
<1> QED BY <1>1, HInvariance, PTL

\* However creates of one pair race, crash and retry, at most one attempt is
\* told that it created the conversation, and the stored Welcome is its own.
THEOREM CreatorIsUnique == Spec => []OneCreator
<1>1. HInv => OneCreator
  BY DEF HInv, ReportsOK, ReportTrue, ClaimsApart, OneCreator, IsMember
<1> QED BY <1>1, HInvariance, PTL

\* A conversation reported ACTIVE never waits on a request again.
THEOREM ActiveStays == Spec => []ActiveIsStable
<1>1. HInv => ActiveIsStable
  BY DEF HInv, ReportsOK, ReportTrue, ActiveIsStable, IsMember
<1> QED BY <1>1, HInvariance, PTL

\* No step removes a message or an announced event, or rewrites a conversation's
\* members, creator or Welcome: the only COMMIT that touches an existing row advances its log.
THEOREM HistoryOnlyGrows == Spec => HistoryIsKept
<1> DEFINE Kept == /\ messages \subseteq messages'
                   /\ outbox \subseteq outbox'
                   /\ \A k \in ConvId : Exists(k) =>
                        /\ convs'[k] # None
                        /\ convs'[k].lastSeq >= convs[k].lastSeq
                        /\ convs'[k].members = convs[k].members
                        /\ convs'[k].createdBy = convs[k].createdBy
                        /\ convs'[k].welcome = convs[k].welcome
<1>1. ASSUME IInv, Next PROVE Kept
  <2>a. \A k \in ConvId : Exists(k) => convs[k].lastSeq \in Nat
    BY <1>1 DEF IInv, TypeOK, Exists, ConvRow
  <2>1. ASSUME NEW c \in Call, CommitMessage(c) PROVE Kept
    <3>1. PICK k \in ConvId, row \in Message, new \in ConvRow :
            MessageStored(c, k, row, new)
      BY <1>1, <2>1, CommitMessageEffect
    <3>2. /\ convs'[k] = new /\ new # None
          /\ \A m \in ConvId \ {k} : convs'[m] = convs[m]
      BY <1>1, <3>1, NoneAssumption DEF MessageStored, IInv, TypeOK
    <3>3. /\ messages' = messages \cup {row} /\ new.lastSeq = convs[k].lastSeq + 1
          /\ new.members = convs[k].members /\ new.createdBy = convs[k].createdBy
          /\ new.welcome = convs[k].welcome /\ outbox \subseteq outbox'
      BY <3>1 DEF MessageStored
    <3>4. \A n \in Nat : n + 1 >= n /\ n >= n
      OBVIOUS
    <3> QED BY <2>a, <3>2, <3>3, <3>4 DEF Exists
  <2>2. ASSUME NEW c \in Call, CommitConversation(c) PROVE Kept
    <3>1. PICK k \in ConvId, new \in ConvRow, req \in ReqRow, row \in Message :
            ConversationBorn(c, k, new, req, row)
      BY <1>1, <2>2, CommitConversationEffect
    <3>2. ~Exists(k) /\ \A m \in ConvId \ {k} : convs'[m] = convs[m]
      BY <1>1, <3>1 DEF ConversationBorn, IInv, TypeOK
    <3> QED BY <2>a, <3>1, <3>2 DEF ConversationBorn, Exists
  <2>3. ASSUME UNCHANGED <<convs, messages>>, outbox \subseteq outbox' PROVE Kept
    BY <2>a, <2>3 DEF Exists
  <2>4. ASSUME NEW c \in Call, CommitDecision(c)
        PROVE  UNCHANGED <<convs, messages>> /\ outbox \subseteq outbox'
    BY <2>4 DEF CommitDecision
  <2> QED BY <1>1, <2>1, <2>2, <2>3, <2>4, StepKinds, RowsKept
<1>2. IInv /\ [Next]_vars => [Kept]_vars
  BY <1>1
<1> QED BY <1>2, Invariance, PTL DEF Spec, HistoryIsKept

----------------------------------------------------------------------------
(* Reading one log per pair off the rows.                                  *)

EntryOf(r) == [sender |-> r.sender, cmid |-> r.cmid]

\* A pair is two different people.
LEMMA PairsAre ==
  \A pr : pr \in Pairs <=> \E p, q \in Person : p # q /\ pr = {p, q}
  BY DEF Pairs

\* A pair's conversation is the one it is read from.
PairsReadable ==
  /\ \A pr, k : k \in ConvId /\ Exists(k) /\ PairOf(k) = pr =>
       pr \in Pairs /\ HasConversation(pr) /\ ConversationOf(pr) = k
  /\ \A pr : HasConversation(pr) => \E k \in ConvId : Exists(k) /\ PairOf(k) = pr

\* A pair's phase and log are those of its one conversation.
LEMMA PairsRead == IInv => PairsReadable
<1> SUFFICES ASSUME IInv PROVE PairsReadable
  OBVIOUS
<1>1. ASSUME NEW k \in ConvId, Exists(k), NEW pr, PairOf(k) = pr
      PROVE  pr \in Pairs /\ HasConversation(pr) /\ ConversationOf(pr) = k
  <2>1. pr \in Pairs
    BY <1>1, PairsAre DEF IInv, RowsOK, TwoMembers, PairOf
  <2>2. \A l \in ConvId : Exists(l) /\ PairOf(l) = pr => l = k
    BY <1>1 DEF IInv, RowsOK, OnePerPair, PairOf
  <2> QED BY <1>1, <2>1, <2>2 DEF HasConversation, ConversationOf
<1> QED BY <1>1 DEF PairsReadable, HasConversation

\* A stored row is the one its conversation and number name.
LEMMA RowRead ==
  IInv => \A r \in messages : RowAt(r.conv, r.seq) = r
<1> SUFFICES ASSUME IInv, NEW r \in messages PROVE RowAt(r.conv, r.seq) = r
  OBVIOUS
<1>1. \A r2 \in messages : r2.conv = r.conv /\ r2.seq = r.seq => r2 = r
  BY DEF IInv, RowsOK, Numbered
<1> QED BY <1>1 DEF RowAt

\* Without gaps, a conversation's log has as many entries as it counts, and
\* entry s is the row numbered s.
LogsReadable ==
  \A k \in ConvId : Exists(k) =>
    /\ LogOf(k) \in Seq(Channel!Entry)
    /\ Len(LogOf(k)) = convs[k].lastSeq
    /\ convs[k].lastSeq \in Nat
    /\ \A s \in 1 .. convs[k].lastSeq : \E r \in messages : r.conv = k /\ r.seq = s
    /\ \A r \in messages : r.conv = k =>
         r.seq \in 1 .. convs[k].lastSeq /\ LogOf(k)[r.seq] = EntryOf(r)

\* A conversation's log is as long as its counter, and each stored row is an entry of it.
LEMMA LogRead == IInv /\ GaplessSequence => LogsReadable
<1> SUFFICES ASSUME IInv, GaplessSequence, NEW k \in ConvId, Exists(k)
             PROVE  /\ LogOf(k) \in Seq(Channel!Entry)
                    /\ Len(LogOf(k)) = convs[k].lastSeq
                    /\ convs[k].lastSeq \in Nat
                    /\ \A s \in 1 .. convs[k].lastSeq :
                         \E r \in messages : r.conv = k /\ r.seq = s
                    /\ \A r \in messages : r.conv = k =>
                         r.seq \in 1 .. convs[k].lastSeq /\ LogOf(k)[r.seq] = EntryOf(r)
  BY DEF LogsReadable
<1>1. PICK n \in Nat : n = convs[k].lastSeq
  BY DEF IInv, TypeOK, Exists, ConvRow
<1>2. \A s \in 1 .. n : \E r \in messages : r.conv = k /\ r.seq = s
  BY <1>1 DEF GaplessSequence, SeqsOf
<1>3. \A r \in messages : r.conv = k => r.seq \in 1 .. n
  BY <1>1 DEF GaplessSequence, SeqsOf
<1>4. \A r \in messages : r.conv = k => RowAt(k, r.seq) = r
  BY RowRead
<1>5. \A s \in 1 .. n : EntryOf(RowAt(k, s)) \in Channel!Entry
  <2> SUFFICES ASSUME NEW s \in 1 .. n PROVE EntryOf(RowAt(k, s)) \in Channel!Entry
    OBVIOUS
  <2>1. PICK r \in messages : r.conv = k /\ r.seq = s
    BY <1>2
  <2>2. RowAt(k, s) = r /\ r.sender \in Person /\ r.cmid \in MsgId
    BY <1>4, <2>1 DEF IInv, TypeOK, Message
  <2> QED BY <2>2 DEF EntryOf, Channel!Entry
<1>6. LogOf(k) = [s \in 1 .. n |-> EntryOf(RowAt(k, s))]
  BY <1>1 DEF LogOf, EntryOf
<1>7. LogOf(k) \in Seq(Channel!Entry) /\ Len(LogOf(k)) = n
  BY <1>5, <1>6
<1>8. \A r \in messages : r.conv = k => LogOf(k)[r.seq] = EntryOf(r)
  BY <1>3, <1>4, <1>6
<1> QED BY <1>1, <1>2, <1>3, <1>7, <1>8

\* The channel of a pair is its conversation's, or blank.
ChannelReadable ==
  /\ DOMAIN Phase = Pairs /\ DOMAIN Log = Pairs
  /\ \A pr, k : k \in ConvId /\ Exists(k) /\ PairOf(k) = pr =>
       Phase[pr] = PhaseOf(k) /\ Log[pr] = LogOf(k)
  /\ \A pr \in Pairs : ~HasConversation(pr) => Phase[pr] = "none" /\ Log[pr] = <<>>

\* The refinement mapping reads each pair off its conversation, or finds none.
LEMMA ChannelRead == IInv => ChannelReadable
<1> SUFFICES ASSUME IInv PROVE ChannelReadable
  OBVIOUS
<1>1. ASSUME NEW pr, NEW k \in ConvId, Exists(k), PairOf(k) = pr
      PROVE  Phase[pr] = PhaseOf(k) /\ Log[pr] = LogOf(k)
  BY <1>1, PairsRead DEF PairsReadable, Phase, Log
<1> QED BY <1>1 DEF ChannelReadable, Phase, Log

\* The same of the next state.
LEMMA ReadNext ==
  IInv' /\ GaplessSequence' => PairsReadable' /\ LogsReadable' /\ ChannelReadable'
  BY PairsRead, LogRead, ChannelRead, PTL

\* A log whose rows are the same is the same.
LEMMA LogKept ==
  ASSUME LogsReadable, LogsReadable', NEW k \in ConvId, Exists(k), Exists(k)',
         convs'[k].lastSeq = convs[k].lastSeq,
         \A r : r.conv = k => (r \in messages' <=> r \in messages)
  PROVE  LogOf(k)' = LogOf(k)
<1>1. PICK n \in Nat : n = convs[k].lastSeq
  BY DEF LogsReadable
<1>2. /\ LogOf(k) \in Seq(Channel!Entry) /\ Len(LogOf(k)) = n
      /\ LogOf(k)' \in Seq(Channel!Entry) /\ Len(LogOf(k)') = n
  BY <1>1 DEF LogsReadable
<1>3. ASSUME NEW s \in 1 .. n PROVE LogOf(k)'[s] = LogOf(k)[s]
  <2>1. PICK r \in messages : r.conv = k /\ r.seq = s
    BY <1>1 DEF LogsReadable
  <2>2. LogOf(k)[s] = EntryOf(r) /\ LogOf(k)'[s] = EntryOf(r)
    BY <2>1 DEF LogsReadable
  <2> QED BY <2>2
<1> QED BY <1>2, <1>3, SeqEqual

\* A step that touches one conversation changes the channel of its pair only.
LEMMA OnePairChanges ==
  ASSUME PairsReadable, PairsReadable', ChannelReadable, ChannelReadable',
         NEW k \in ConvId, NEW pr, Exists(k)', PairOf(k)' = pr,
         Exists(k) => PairOf(k) = pr,
         \A l \in ConvId \ {k} :
           /\ Exists(l)' <=> Exists(l)
           /\ Exists(l) => /\ PairOf(l)' = PairOf(l)
                           /\ PhaseOf(l)' = PhaseOf(l)
                           /\ LogOf(l)' = LogOf(l)
  PROVE  /\ pr \in Pairs
         /\ Phase' = [Phase EXCEPT ![pr] = PhaseOf(k)']
         /\ Log' = [Log EXCEPT ![pr] = LogOf(k)']
<1>1. /\ pr \in Pairs /\ Phase'[pr] = PhaseOf(k)' /\ Log'[pr] = LogOf(k)'
  BY DEF PairsReadable, ChannelReadable
<1>2. ASSUME NEW p \in Pairs, p # pr
      PROVE  Phase'[p] = Phase[p] /\ Log'[p] = Log[p]
  <2>1. CASE HasConversation(p)'
    <3>1. PICK l \in ConvId : Exists(l)' /\ PairOf(l)' = p
      BY <2>1 DEF PairsReadable
    <3>2. l # k /\ Exists(l) /\ PairOf(l) = p
      BY <1>2, <3>1
    <3> QED BY <3>1, <3>2 DEF ChannelReadable
  <2>2. CASE ~HasConversation(p)'
    <3>1. ~HasConversation(p)
      <4> SUFFICES ASSUME NEW l \in ConvId, Exists(l), PairOf(l) = p PROVE FALSE
        BY DEF PairsReadable
      <4>1. l # k
        BY <1>2
      <4> QED BY <2>2, <4>1 DEF PairsReadable
    <3> QED BY <2>2, <3>1 DEF ChannelReadable
  <2> QED BY <2>1, <2>2
<1>3. /\ Phase = [p \in Pairs |-> Phase[p]] /\ Phase' = [p \in Pairs |-> Phase'[p]]
      /\ Log = [p \in Pairs |-> Log[p]] /\ Log' = [p \in Pairs |-> Log'[p]]
  BY DEF Phase, Log
<1> QED BY <1>1, <1>2, <1>3 DEF ChannelReadable

\* Told positions stay told, because a row's conversation keeps its members.
LEMMA ToldKept ==
  ASSUME IInv, \A k \in ConvId : Exists(k) => PairOf(k)' = PairOf(k),
         accepted' = accepted
  PROVE  Told' = Told
<1>1. \A a \in accepted : a.conv \in ConvId /\ Exists(a.conv)
  BY DEF IInv, TypeOK, Accepted, RepliesAreDurable, WithKey, RowsOK, MembersOnly
<1>2. \A a \in accepted : ToldOf(a)' = ToldOf(a)
  BY <1>1 DEF ToldOf, PairOf
<1> QED BY <1>2 DEF Told

----------------------------------------------------------------------------
(* Each step is a step of the channel, or invisible there.                 *)

\* A step that writes no row leaves the channel as it reads.
LEMMA NothingChanges ==
  ASSUME PairsReadable, PairsReadable', ChannelReadable, ChannelReadable',
         LogsReadable, LogsReadable', UNCHANGED <<convs, messages, requests>>
  PROVE  Phase' = Phase /\ Log' = Log
<1>1. \A k \in ConvId : /\ Exists(k)' <=> Exists(k)
                        /\ PairOf(k)' = PairOf(k)
                        /\ PhaseOf(k)' = PhaseOf(k)
  BY DEF Exists, PairOf, PhaseOf
<1>2. ASSUME NEW k \in ConvId, Exists(k) PROVE LogOf(k)' = LogOf(k)
  BY <1>1, <1>2, LogKept
<1>3. ASSUME NEW p \in Pairs PROVE Phase'[p] = Phase[p] /\ Log'[p] = Log[p]
  <2>1. CASE HasConversation(p)
    <3>1. PICK k \in ConvId : Exists(k) /\ PairOf(k) = p
      BY <2>1 DEF PairsReadable
    <3> QED BY <1>1, <1>2, <3>1 DEF ChannelReadable
  <2>2. CASE ~HasConversation(p)
    <3>1. ~HasConversation(p)'
      BY <1>1, <2>2 DEF PairsReadable
    <3> QED BY <2>2, <3>1 DEF ChannelReadable
  <2> QED BY <2>1, <2>2
<1>4. /\ Phase = [p \in Pairs |-> Phase[p]] /\ Phase' = [p \in Pairs |-> Phase'[p]]
      /\ Log = [p \in Pairs |-> Log[p]] /\ Log' = [p \in Pairs |-> Log'[p]]
  BY DEF Phase, Log
<1> QED BY <1>3, <1>4

\* The phases a conversation can be in.
LEMMA PhaseValues ==
  ASSUME IInv, NEW k \in ConvId
  PROVE  /\ IsPending(k) => PhaseOf(k) = "pending"
         /\ ~IsPending(k) => PhaseOf(k) \in {"direct"} \cup Channel!Answers
<1>1. requests[k] # None => requests[k].status \in ReqStatus
  BY DEF IInv, TypeOK, ReqRow
<1> QED BY <1>1 DEF PhaseOf, IsPending, ReqStatus, Channel!Answers

\* The COMMIT of a send posts its entry at the end of its pair's log.
LEMMA CommitMessagePosts ==
  ASSUME HInv, HInv', NEW c \in Call, CommitMessage(c)
  PROVE  \E pr \in Pairs, e \in Channel!Entry : Channel!Post(pr, e)
<1>a. IInv /\ GaplessSequence /\ IInv' /\ GaplessSequence'
  BY DEF HInv
<1>b. /\ PairsReadable /\ LogsReadable /\ ChannelReadable
      /\ PairsReadable' /\ LogsReadable' /\ ChannelReadable'
  BY <1>a, PairsRead, LogRead, ChannelRead, ReadNext
<1>1. PICK k \in ConvId, row \in Message, new \in ConvRow :
        MessageStored(c, k, row, new)
  BY <1>a, CommitMessageEffect
<1>2. PICK pr : pr = PairOf(k)
  OBVIOUS
<1>3. PICK e : e = EntryOf(row)
  OBVIOUS
<1>4. PICK n \in Nat : n = convs[k].lastSeq
  BY <1>1, <1>b DEF MessageStored, LogsReadable
<1>5. /\ Exists(k) /\ ~IsPending(k) /\ row.sender \in pr
      /\ WithKey(row.sender, k, row.cmid) = {}
      /\ row.conv = k /\ row.seq = n + 1
      /\ messages' = messages \cup {row}
      /\ requests' = requests /\ accepted' = accepted
  BY <1>1, <1>2, <1>4 DEF MessageStored, PairOf
<1>6. /\ Exists(k)' /\ PairOf(k)' = pr /\ convs'[k].lastSeq = n + 1
      /\ \A l \in ConvId \ {k} : convs'[l] = convs[l]
  BY <1>a, <1>1, <1>2, <1>4, NoneAssumption
     DEF MessageStored, PairOf, Exists, IInv, TypeOK
<1>7. ASSUME NEW l \in ConvId \ {k}
      PROVE  /\ Exists(l)' <=> Exists(l)
             /\ Exists(l) => /\ PairOf(l)' = PairOf(l)
                             /\ PhaseOf(l)' = PhaseOf(l)
                             /\ LogOf(l)' = LogOf(l)
  <2>1. /\ Exists(l)' <=> Exists(l)
        /\ PairOf(l)' = PairOf(l) /\ PhaseOf(l)' = PhaseOf(l)
    BY <1>5, <1>6 DEF Exists, PairOf, PhaseOf
  <2>2. \A r : r.conv = l => (r \in messages' <=> r \in messages)
    BY <1>5
  <2> QED BY <1>b, <1>6, <2>1, <2>2, LogKept
<1>8. /\ pr \in Pairs
      /\ Phase' = [Phase EXCEPT ![pr] = PhaseOf(k)']
      /\ Log' = [Log EXCEPT ![pr] = LogOf(k)']
  BY <1>b, <1>2, <1>6, <1>7, OnePairChanges
<1>9. /\ Phase[pr] = PhaseOf(k) /\ PhaseOf(k)' = PhaseOf(k)
      /\ Log[pr] = LogOf(k)
  BY <1>b, <1>2, <1>5 DEF ChannelReadable, PhaseOf
<1>10. e \in Channel!Entry /\ e.sender = row.sender
  BY <1>3 DEF EntryOf, Message, Channel!Entry
<1>11. /\ LogOf(k) \in Seq(Channel!Entry) /\ Len(LogOf(k)) = n
       /\ LogOf(k)' \in Seq(Channel!Entry) /\ Len(LogOf(k)') = n + 1
  BY <1>b, <1>4, <1>5, <1>6 DEF LogsReadable
<1>12. LogOf(k)' = Append(LogOf(k), e)
  <2>1. LogOf(k)'[n + 1] = e
    BY <1>b, <1>3, <1>5, <1>6 DEF LogsReadable
  <2>2. ASSUME NEW s \in 1 .. n PROVE LogOf(k)'[s] = LogOf(k)[s]
    <3>1. PICK r \in messages : r.conv = k /\ r.seq = s
      BY <1>b, <1>4, <1>5 DEF LogsReadable
    <3>2. LogOf(k)[s] = EntryOf(r) /\ LogOf(k)'[s] = EntryOf(r)
      BY <1>b, <1>5, <1>6, <3>1 DEF LogsReadable
    <3> QED BY <3>2
  <2>3. /\ Append(LogOf(k), e) \in Seq(Channel!Entry)
        /\ Len(Append(LogOf(k), e)) = n + 1
        /\ \A s \in 1 .. n : Append(LogOf(k), e)[s] = LogOf(k)[s]
        /\ Append(LogOf(k), e)[n + 1] = e
    BY <1>10, <1>11, AppendProperties
  <2>4. \A s \in 1 .. n + 1 : LogOf(k)'[s] = Append(LogOf(k), e)[s]
    <3>1. \A s \in 1 .. n + 1 : s \in 1 .. n \/ s = n + 1
      OBVIOUS
    <3> QED BY <3>1, <2>1, <2>2, <2>3
  <2> QED BY <1>11, <2>3, <2>4, SeqEqual
<1>13. e \notin {LogOf(k)[i] : i \in 1 .. Len(LogOf(k))}
  <2> SUFFICES ASSUME NEW i \in 1 .. n, LogOf(k)[i] = e PROVE FALSE
    BY <1>11
  <2>1. PICK r \in messages : r.conv = k /\ r.seq = i
    BY <1>b, <1>4, <1>5 DEF LogsReadable
  <2>2. EntryOf(r) = EntryOf(row)
    BY <1>b, <1>3, <1>5, <2>1 DEF LogsReadable
  <2>3. r.sender = row.sender /\ r.cmid = row.cmid
    BY <2>2 DEF EntryOf
  <2> QED BY <1>5, <2>1, <2>3 DEF WithKey
<1>14. Phase[pr] \in {"direct"} \cup Channel!Answers
  BY <1>a, <1>5, <1>9, PhaseValues
<1>15. Phase' = Phase
  BY <1>8, <1>9 DEF Phase
<1>16. Log' = [Log EXCEPT ![pr] = Append(Log[pr], e)]
  BY <1>8, <1>9, <1>12
<1>17. Told' = Told
  <2>1. \A l \in ConvId : Exists(l) => PairOf(l)' = PairOf(l)
    BY <1>2, <1>6, <1>7
  <2> QED BY <1>a, <1>5, <2>1, ToldKept
<1>18. Channel!Post(pr, e)
  BY <1>5, <1>9, <1>10, <1>13, <1>14, <1>15, <1>16, <1>17
     DEF Channel!Post, Channel!Logged
<1> QED BY <1>8, <1>10, <1>18

\* The COMMIT of a decision answers the pair's request.
LEMMA CommitDecisionAnswers ==
  ASSUME HInv, HInv', NEW c \in Call, CommitDecision(c)
  PROVE  \E pr \in Pairs, a \in Channel!Answers : Channel!Answer(pr, a)
<1>a. IInv /\ GaplessSequence /\ IInv' /\ GaplessSequence'
  BY DEF HInv
<1>b. /\ PairsReadable /\ LogsReadable /\ ChannelReadable
      /\ PairsReadable' /\ LogsReadable' /\ ChannelReadable'
  BY <1>a, PairsRead, LogRead, ChannelRead, ReadNext
<1>1. PICK k \in ConvId, new \in ReqRow : RequestAnswered(c, k, new)
  BY <1>a, CommitDecisionEffect
<1>2. PICK pr : pr = PairOf(k)
  OBVIOUS
<1>3. /\ IsPending(k) /\ Exists(k) /\ new # None
      /\ new.status = Resolution[call[c].op] /\ call[c].op \in DecideOps
      /\ requests'[k] = new
      /\ \A l \in ConvId \ {k} : requests'[l] = requests[l]
      /\ UNCHANGED <<convs, messages, accepted>>
  BY <1>a, <1>1, NoneAssumption
     DEF RequestAnswered, IInv, TypeOK, RowsOK, OneMessageWhilePending
<1>4. PICK a : a = PhaseOf(k)'
  OBVIOUS
<1>5. a \in Channel!Answers
  BY <1>3, <1>4 DEF PhaseOf, Resolution, DecideOps, Channel!Answers
<1>6. ASSUME NEW l \in ConvId
      PROVE  /\ Exists(l)' <=> Exists(l)
             /\ PairOf(l)' = PairOf(l)
             /\ Exists(l) => LogOf(l)' = LogOf(l)
             /\ l # k => PhaseOf(l)' = PhaseOf(l)
  <2>1. (Exists(l)' <=> Exists(l)) /\ PairOf(l)' = PairOf(l)
    BY <1>3 DEF Exists, PairOf
  <2> QED BY <1>b, <1>3, <2>1, LogKept DEF PhaseOf
<1>7. /\ pr \in Pairs
      /\ Phase' = [Phase EXCEPT ![pr] = PhaseOf(k)']
      /\ Log' = [Log EXCEPT ![pr] = LogOf(k)']
  BY <1>b, <1>2, <1>3, <1>6, OnePairChanges
<1>8. Phase[pr] = "pending" /\ Log[pr] = LogOf(k)
  BY <1>a, <1>b, <1>2, <1>3, PhaseValues DEF ChannelReadable
<1>9. Log' = Log
  BY <1>3, <1>6, <1>7, <1>8 DEF Log
<1>10. Told' = Told
  BY <1>a, <1>3, <1>6, ToldKept
<1>11. Channel!Answer(pr, a)
  BY <1>4, <1>7, <1>8, <1>9, <1>10 DEF Channel!Answer
<1> QED BY <1>5, <1>7, <1>11

\* The COMMIT of a create opens its pair's conversation, freely or behind a
\* request that carries the first message.
LEMMA CommitConversationOpens ==
  ASSUME HInv, HInv', NEW c \in Call, CommitConversation(c)
  PROVE  \E pr \in Pairs : Channel!OpenDirect(pr) \/ Channel!AskFirst(pr)
<1>a. IInv /\ GaplessSequence /\ IInv' /\ GaplessSequence'
  BY DEF HInv
<1>b. /\ PairsReadable /\ LogsReadable /\ ChannelReadable
      /\ PairsReadable' /\ LogsReadable' /\ ChannelReadable'
  BY <1>a, PairsRead, LogRead, ChannelRead, ReadNext
<1>1. PICK k \in ConvId, new \in ConvRow, req \in ReqRow, row \in Message :
        ConversationBorn(c, k, new, req, row)
  BY <1>a, CommitConversationEffect
<1>2. PICK pr : pr = {call[c].actor, call[c].peer}
  OBVIOUS
<1>3. PICK first : first = call[c].hasMessage
  OBVIOUS
<1>4. /\ ~Exists(k) /\ requests[k] = None /\ \A r \in messages : r.conv # k
      /\ row.conv = k /\ row.seq = 1 /\ row.sender \in pr /\ row.cmid \in MsgId
      /\ new # None /\ new.members = pr /\ new.lastSeq = (IF first THEN 1 ELSE 0)
      /\ messages' = messages \cup (IF first THEN {row} ELSE {})
      /\ accepted' = accepted
      /\ \A l \in ConvId : Exists(l) => convs[l].members # pr
  BY <1>1, <1>2, <1>3, NoneAssumption DEF ConversationBorn, Between
<1>5. /\ convs'[k] = new /\ \A l \in ConvId \ {k} : convs'[l] = convs[l]
      /\ \A l \in ConvId \ {k} : requests'[l] = requests[l]
      /\ call[c].pending => first /\ requests'[k] = req /\ req.status = "PENDING"
                            /\ req # None
      /\ ~call[c].pending => requests'[k] = None
  BY <1>a, <1>1, <1>3, NoneAssumption DEF ConversationBorn, IInv, TypeOK
<1>6. ASSUME NEW l \in ConvId \ {k}
      PROVE  /\ Exists(l)' <=> Exists(l)
             /\ Exists(l) => /\ PairOf(l)' = PairOf(l)
                             /\ PhaseOf(l)' = PhaseOf(l)
                             /\ LogOf(l)' = LogOf(l)
  <2>1. /\ Exists(l)' <=> Exists(l)
        /\ PairOf(l)' = PairOf(l) /\ PhaseOf(l)' = PhaseOf(l)
    BY <1>5 DEF Exists, PairOf, PhaseOf
  <2>2. \A r : r.conv = l => (r \in messages' <=> r \in messages)
    BY <1>4
  <2> QED BY <1>b, <1>5, <2>1, <2>2, LogKept
<1>7. Exists(k)' /\ PairOf(k)' = pr /\ convs'[k].lastSeq = (IF first THEN 1 ELSE 0)
  BY <1>4, <1>5 DEF Exists, PairOf
<1>8. /\ pr \in Pairs
      /\ Phase' = [Phase EXCEPT ![pr] = PhaseOf(k)']
      /\ Log' = [Log EXCEPT ![pr] = LogOf(k)']
  BY <1>b, <1>4, <1>6, <1>7, OnePairChanges
<1>9. Phase[pr] = "none" /\ Log[pr] = <<>>
  <2>1. ~HasConversation(pr)
    BY <1>4 DEF HasConversation, PairOf
  <2> QED BY <1>b, <1>8, <2>1 DEF ChannelReadable
<1>10. LogOf(k)' = IF first THEN <<EntryOf(row)>> ELSE <<>>
  <2>1. /\ LogOf(k)' \in Seq(Channel!Entry)
        /\ Len(LogOf(k)') = (IF first THEN 1 ELSE 0)
    BY <1>b, <1>7 DEF LogsReadable
  <2>2. CASE first
    <3>0. row \in messages'
      BY <1>4, <2>2
    <3>1. EntryOf(row) \in Channel!Entry /\ LogOf(k)'[1] = EntryOf(row)
      BY <1>b, <1>4, <1>7, <3>0 DEF LogsReadable, EntryOf, Message, Channel!Entry
    <3>2. /\ <<EntryOf(row)>> \in Seq(Channel!Entry) /\ Len(<<EntryOf(row)>>) = 1
          /\ <<EntryOf(row)>>[1] = EntryOf(row)
      BY <3>1
    <3>3. \A i \in 1 .. 1 : i = 1
      OBVIOUS
    <3> QED BY <2>1, <2>2, <3>1, <3>2, <3>3, SeqEqual
  <2>3. CASE ~first
    BY <2>1, <2>3, EmptySeq
  <2> QED BY <2>2, <2>3
<1>11. Told' = Told
  <2>1. \A l \in ConvId : Exists(l) => PairOf(l)' = PairOf(l)
    BY <1>4, <1>6
  <2> QED BY <1>a, <1>4, <2>1, ToldKept
<1>12. CASE call[c].pending
  <2>1. PhaseOf(k)' = "pending"
    BY <1>5, <1>12 DEF PhaseOf
  <2>2. Log' = [Log EXCEPT ![pr] = <<[sender |-> row.sender, cmid |-> row.cmid]>>]
    BY <1>5, <1>8, <1>10, <1>12 DEF EntryOf
  <2>3. Channel!AskFirst(pr)
    BY <1>4, <1>8, <1>9, <1>11, <2>1, <2>2 DEF Channel!AskFirst
  <2> QED BY <1>8, <2>3
<1>13. CASE ~call[c].pending
  <2>1. PhaseOf(k)' = "direct"
    BY <1>5, <1>13 DEF PhaseOf
  <2>2. \/ Log' = Log
        \/ Log' = [Log EXCEPT ![pr] = <<[sender |-> row.sender, cmid |-> row.cmid]>>]
    BY <1>8, <1>9, <1>10 DEF EntryOf, Log
  <2>3. Channel!OpenDirect(pr)
    BY <1>4, <1>8, <1>9, <1>11, <2>1, <2>2 DEF Channel!OpenDirect
  <2> QED BY <1>8, <2>3
<1> QED BY <1>12, <1>13

\* A reply tells the client a position its entry has in the log.
LEMMA ReplySendTells ==
  ASSUME HInv, HInv', NEW c \in Call, ReplySend(c)
  PROVE  \E pr \in Pairs : \E i \in 1 .. Len(Log[pr]) : Channel!Tell(pr, i)
<1>a. IInv /\ GaplessSequence /\ IInv' /\ GaplessSequence'
  BY DEF HInv
<1>b. /\ PairsReadable /\ LogsReadable /\ ChannelReadable
      /\ PairsReadable' /\ LogsReadable' /\ ChannelReadable'
  BY <1>a, PairsRead, LogRead, ChannelRead, ReadNext
<1>1. PICK it : it = call[c]
  OBVIOUS
<1>2. PICK a : a = [sender |-> it.actor, conv |-> it.conv, cmid |-> it.cmid,
                    seq |-> it.seq]
  OBVIOUS
<1>3. /\ UNCHANGED <<convs, messages, requests>>
      /\ accepted' = accepted \cup {a} /\ it.pc = "replySend"
  BY <1>1, <1>2 DEF ReplySend, db, At
<1>4. PICK r \in messages : /\ r.sender = a.sender /\ r.conv = a.conv
                            /\ r.cmid = a.cmid /\ r.seq = a.seq
  BY <1>a, <1>1, <1>2, <1>3, Here DEF CallOK, SendKnows, WithKey
<1>5. PICK k \in ConvId : k = r.conv /\ Exists(k)
  BY <1>a DEF IInv, TypeOK, Message, RowsOK, MembersOnly
<1>6. PICK pr : pr = PairOf(k)
  OBVIOUS
<1>7. /\ pr \in Pairs /\ Log[pr] = LogOf(k)
      /\ r.seq \in 1 .. Len(Log[pr]) /\ Log[pr][r.seq] = EntryOf(r)
  BY <1>b, <1>5, <1>6 DEF PairsReadable, ChannelReadable, LogsReadable
<1>8. Phase' = Phase /\ Log' = Log
  BY <1>b, <1>3, NothingChanges
<1>9. Told' = Told \cup {[pair |-> pr, entry |-> Log[pr][r.seq], position |-> r.seq]}
  <2>1. \A b : ToldOf(b)' = ToldOf(b)
    BY <1>3 DEF ToldOf, PairOf
  <2>2. ToldOf(a) = [pair |-> pr, entry |-> Log[pr][r.seq], position |-> r.seq]
    BY <1>4, <1>5, <1>6, <1>7 DEF ToldOf, EntryOf
  <2> QED BY <1>3, <2>1, <2>2 DEF Told
<1>10. Channel!Tell(pr, r.seq)
  BY <1>7, <1>8, <1>9 DEF Channel!Tell
<1> QED BY <1>7, <1>10

\* Initially nobody has talked.
LEMMA InitChannel == Init => Channel!ChannelInit
<1> SUFFICES ASSUME Init PROVE Channel!ChannelInit
  OBVIOUS
<1>1. \A pr : ~HasConversation(pr)
  BY DEF Init, HasConversation, Exists
<1>2. Told = {}
  BY DEF Init, Told
<1>3. Pairs = Channel!Pair
  BY DEF Pairs, Channel!Pair
<1> QED BY <1>1, <1>2, <1>3 DEF Channel!ChannelInit, Phase, Log

\* Every step of the service is a step of the channel, or leaves the channel alone.
LEMMA NextChannel ==
  HInv /\ HInv' /\ [Next]_vars => [Channel!ChannelNext]_(Channel!channelVars)
<1> SUFFICES ASSUME HInv, HInv', [Next]_vars
             PROVE  \/ Channel!ChannelNext
                    \/ Phase' = Phase /\ Log' = Log /\ Told' = Told
  BY DEF Channel!channelVars
<1>a. IInv /\ GaplessSequence /\ IInv' /\ GaplessSequence'
  BY DEF HInv
<1>b. /\ PairsReadable /\ LogsReadable /\ ChannelReadable
      /\ PairsReadable' /\ LogsReadable' /\ ChannelReadable'
  BY <1>a, PairsRead, LogRead, ChannelRead, ReadNext
<1>c. Pairs = Channel!Pair
  BY DEF Pairs, Channel!Pair
<1>1. ASSUME NEW c \in Call, CommitMessage(c) PROVE Channel!ChannelNext
  BY <1>c, <1>1, CommitMessagePosts DEF Channel!ChannelNext
<1>2. ASSUME NEW c \in Call, CommitDecision(c) PROVE Channel!ChannelNext
  BY <1>c, <1>2, CommitDecisionAnswers DEF Channel!ChannelNext
<1>3. ASSUME NEW c \in Call, CommitConversation(c) PROVE Channel!ChannelNext
  BY <1>c, <1>3, CommitConversationOpens DEF Channel!ChannelNext
<1>4. ASSUME NEW c \in Call, ReplySend(c) PROVE Channel!ChannelNext
  BY <1>c, <1>4, ReplySendTells DEF Channel!ChannelNext
<1>5. ASSUME UNCHANGED <<convs, messages, requests, accepted>>
      PROVE  Phase' = Phase /\ Log' = Log /\ Told' = Told
  <2>1. Phase' = Phase /\ Log' = Log
    BY <1>b, <1>5, NothingChanges
  <2>2. \A k \in ConvId : PairOf(k)' = PairOf(k)
    BY <1>5 DEF PairOf
  <2> QED BY <1>a, <1>5, <2>1, <2>2, ToldKept
<1>6. ASSUME NEW c \in Call, DescribeExisting(c) \/ ReplyCreate(c) \/ Quiet(c)
      PROVE  UNCHANGED <<convs, messages, requests, accepted>>
  BY <1>6 DEF DescribeExisting, ReplyCreate, Quiet, db
<1>7. CASE Next
  BY <1>a, <1>1, <1>2, <1>3, <1>4, <1>5, <1>6, <1>7, StepKinds
<1>8. CASE UNCHANGED vars
  BY <1>5, <1>8 DEF vars
<1> QED BY <1>7, <1>8

\* For any people, handlers, ids and messages, whatever races and crashes, two
\* people see what DirectChannel promises: one log, opened once, appended to
\* in order and never while a request waits, whose told positions hold.
THEOREM Refinement == Spec => ImplementsChannel
  BY InitChannel, NextChannel, HInvariance, PTL
     DEF Spec, ImplementsChannel, Channel!ChannelSpec

============================================================================
