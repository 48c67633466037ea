------------------------- MODULE MCMessagingSteady --------------------------
(***************************************************************************)
(* Instances of Messaging for TLC in which every call must end.  Either    *)
(* the conversation is open: p has asked q, with m as the first message, or*)
(* was allowed to write directly.  Or there is none yet, and p and q open  *)
(* it with m while they, or one of them twice, already send and decide.    *)
(***************************************************************************)
EXTENDS MessagingRefinement, TLC

\* People and client message ids are interchangeable, so that one choice of
\* these three stands for all.
CONSTANTS
  Asker,    \* who created the conversation
  Other,    \* with whom
  Opening   \* client message id of the first message

Created(p, q, k, m, asked) ==
  LET creator == [Idle EXCEPT !.actor = p, !.peer = q, !.conv = k, !.cmid = m,
                              !.hasMessage = TRUE, !.pending = asked]
  IN
  /\ convs = [l \in ConvId |-> IF l = k THEN CreatedConv(creator) ELSE None]
  /\ requests = [l \in ConvId |-> IF l = k /\ asked THEN CreatedRequest(creator)
                                                  ELSE None]
  /\ messages = {FirstMessage(creator)}
  /\ outbox = {MessageEvent(k, 1)} \cup
              (IF asked THEN {RequestEvent("request.created", k)} ELSE {})
  /\ call = [c \in Call |-> Idle]
  /\ accepted = {}
  /\ opened = {}

\* The database was empty in the beginning; it takes a create by the two, with
\* a first message and no Welcome, to open the conversation.
VARIABLE fromEmpty
mcVars == <<vars, fromEmpty>>

MCInit ==
  \/ fromEmpty = TRUE /\ Init
  \/ /\ fromEmpty = FALSE
     /\ \E k \in ConvId, asked \in BOOLEAN : Created(Asker, Other, k, Opening, asked)

\* From the empty database, creates come until a client has heard of the
\* conversation, and sends and decisions while a create is under way; what they
\* meet without creates is left to the other beginning.
MayCome(p, k) ==
  fromEmpty => /\ p \in {Asker, Other}
               /\ Exists(k)
               /\ \E d \in Call : call[d].pc \in CreatePc

Arrives(c) ==
  \/ \E p \in Person, k \in ConvId, m \in MsgId :
       /\ MayCome(p, k) /\ (fromEmpty => m = Opening)
       /\ CallSend(c, p, k, m)
  \/ \E op \in DecideOps, p \in Person, k \in ConvId :
       MayCome(p, k) /\ CallDecide(c, op, p, k)
  \/ \E p, q \in {Asker, Other} :
       /\ fromEmpty /\ opened = {}
       /\ CallCreate(c, "createRequest", p, q, Opening, None, TRUE)

\* No call is under way, and another may or may not come.
AtRest == (\A c \in Call : At(c, "idle")) /\ UNCHANGED vars

MCNext ==
  /\ \/ \E c \in Call : Arrives(c) \/ FreeStep(c) \/ LockStep(c) \/ Crash(c)
     \/ AtRest
  /\ UNCHANGED fromEmpty

MCSpec == MCInit /\ [][MCNext]_mcVars /\ Fairness

============================================================================
