------------------------------ MODULE ReadState -----------------------------
(***************************************************************************)
(* One member's read mark in one conversation: conversation.read on the    *)
(* socket and POST read, statement by statement, from any of the member's  *)
(* clients and on any instance, and what is said of the mark to the other  *)
(* member and to the client.                                               *)
(***************************************************************************)
EXTENDS Integers

CONSTANTS
  Receipt,  \* read receipts in flight
  MaxSeq    \* bound on the numbers reported

ASSUME ReadStateAssumption == MaxSeq \in Nat

VARIABLES
  mark,     \* last_read_sequence, 0 without a row
  receipt,  \* per receipt: its handler's progress
  told      \* history: numbers published in message.read or answered to a client

readVars == <<mark, receipt, told>>

\* pc: the query or command the handler waits for.
NoReceipt == [pc |-> "idle", socket |-> FALSE, seq |-> 0]

ReadInit ==
  /\ mark = 0
  /\ receipt = [r \in Receipt |-> NoReceipt]
  /\ told = {}

To(r, pc) == receipt' = [receipt EXCEPT ![r].pc = pc]

\* A member reports a number, over the socket or over HTTP.
Report(r, socket, n) ==
  /\ receipt[r].pc = "idle"
  /\ receipt' = [receipt EXCEPT ![r] = [pc |-> "membership", socket |-> socket, seq |-> n]]
  /\ UNCHANGED <<mark, told>>

\* findMembership: an active member goes on.
FindMembership(r) ==
  /\ receipt[r].pc = "membership"
  /\ To(r, "upsert")
  /\ UNCHANGED <<mark, told>>

\* (Mutant of Greatest: the last receipt wins.)
LastWins(old, new) == new

\* GREATEST(last_read_sequence, EXCLUDED.last_read_sequence)
Greatest(old, new) == IF old > new THEN old ELSE new

Upsert(r) ==
  /\ receipt[r].pc = "upsert"
  /\ mark' = Greatest(mark, receipt[r].seq)
  /\ To(r, IF receipt[r].socket THEN "other" ELSE "answer")
  /\ UNCHANGED told

FindOtherMember(r) ==
  /\ receipt[r].pc = "other"
  /\ To(r, "publish")
  /\ UNCHANGED <<mark, told>>

\* message.read to the other member.
Publish(r) ==
  /\ receipt[r].pc = "publish"
  /\ told' = told \cup {receipt[r].seq}
  /\ To(r, "answer")
  /\ UNCHANGED mark

\* conversation.updated, or the body of POST read.
Answer(r) ==
  /\ receipt[r].pc = "answer"
  /\ told' = told \cup {receipt[r].seq}
  /\ receipt' = [receipt EXCEPT ![r] = NoReceipt]
  /\ UNCHANGED mark

\* A query or Redis fails, or the process dies.
ReceiptFails(r) ==
  /\ receipt[r].pc # "idle"
  /\ receipt' = [receipt EXCEPT ![r] = NoReceipt]
  /\ UNCHANGED <<mark, told>>

ReadNext ==
  \E r \in Receipt :
    \/ \E socket \in BOOLEAN, n \in 0..MaxSeq : Report(r, socket, n)
    \/ FindMembership(r) \/ Upsert(r) \/ FindOtherMember(r) \/ Publish(r) \/ Answer(r)
    \/ ReceiptFails(r)

ReadSpec == ReadInit /\ [][ReadNext]_readVars

-----------------------------------------------------------------------------
\* Properties

\* Nobody has ever been told of a number the stored mark does not reach, now or
\* later: receipts that arrive late, twice or from several clients neither move
\* the mark back behind what the other member saw, nor are announced before they
\* are stored (onConversationRead, markRead, upsert).
ToldIsStored == \A n \in told : n <= mark

=============================================================================
