--------------------------- MODULE DirectChannel ---------------------------
(***************************************************************************)
(* What the service promises two people about their conversation, without  *)
(* rows, locks, transactions or handlers: one log per pair, opened at most *)
(* once, freely or behind a request; appended to only while no request is  *)
(* pending, never with the same entry twice; a request answered at most    *)
(* once; and positions in the log that, once told to a client, hold.       *)
(***************************************************************************)
EXTENDS Naturals, Sequences

CONSTANTS Person, MsgId

Pair == {{p, q} : p, q \in Person} \ {{p} : p \in Person}
Entry == [sender : Person, cmid : MsgId]

VARIABLES
  phase,  \* how each pair's conversation stands
  log,    \* each pair's messages, oldest first
  told    \* the positions clients have been told

channelVars == <<phase, log, told>>

Answers == {"accepted", "declined", "cancelled"}
Phases == {"none", "direct", "pending"} \cup Answers

ChannelTypeOK ==
  /\ phase \in [Pair -> Phases]
  /\ log \in [Pair -> Seq(Entry)]
  /\ told \subseteq [pair : Pair, entry : Entry, position : Nat]

ChannelInit ==
  /\ phase = [pr \in Pair |-> "none"]
  /\ log = [pr \in Pair |-> <<>>]
  /\ told = {}

Logged(pr) == {log[pr][i] : i \in 1 .. Len(log[pr])}

\* A first conversation, with or without a first message.
OpenDirect(pr) ==
  /\ phase[pr] = "none"
  /\ phase' = [phase EXCEPT ![pr] = "direct"]
  /\ \/ UNCHANGED log
     \/ \E p \in pr, m \in MsgId :
          log' = [log EXCEPT ![pr] = <<[sender |-> p, cmid |-> m]>>]
  /\ UNCHANGED told

\* A first conversation behind a request, which carries the first message.
AskFirst(pr) ==
  /\ phase[pr] = "none"
  /\ phase' = [phase EXCEPT ![pr] = "pending"]
  /\ \E p \in pr, m \in MsgId :
       log' = [log EXCEPT ![pr] = <<[sender |-> p, cmid |-> m]>>]
  /\ UNCHANGED told

Answer(pr, a) ==
  /\ phase[pr] = "pending"
  /\ phase' = [phase EXCEPT ![pr] = a]
  /\ UNCHANGED <<log, told>>

Post(pr, e) ==
  /\ phase[pr] \in {"direct"} \cup Answers
  /\ e.sender \in pr
  /\ e \notin Logged(pr)
  /\ log' = [log EXCEPT ![pr] = Append(@, e)]
  /\ UNCHANGED <<phase, told>>

Tell(pr, i) ==
  /\ i \in 1 .. Len(log[pr])
  /\ told' = told \cup {[pair |-> pr, entry |-> log[pr][i], position |-> i]}
  /\ UNCHANGED <<phase, log>>

ChannelNext ==
  \E pr \in Pair :
    \/ OpenDirect(pr)
    \/ AskFirst(pr)
    \/ \E a \in Answers : Answer(pr, a)
    \/ \E e \in Entry : Post(pr, e)
    \/ \E i \in 1 .. Len(log[pr]) : Tell(pr, i)

ChannelSpec == ChannelInit /\ [][ChannelNext]_channelVars

============================================================================
