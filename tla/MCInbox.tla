------------------------------- MODULE MCInbox ------------------------------
(***************************************************************************)
(* Instances of Inbox and ReadState for TLC.  A behaviour has one of three *)
(* workloads:                                                              *)
(*   list      walks of a list of old conversations that sends move        *)
(*   welcome   two invitations, one restart or lost ack                    *)
(*   read      read receipts for one conversation                          *)
(***************************************************************************)
EXTENDS Inbox, ReadState, TLC

CONSTANTS
  MaxMoves,    \* MaxWrites of the workload list
  MaxInvites   \* MaxWrites of the workload welcome

VARIABLE workload
mcVars == <<inboxVars, readVars, workload>>

MCInit ==
  /\ InboxInit /\ ReadInit
  /\ workload \in {"list", "welcome", "read"}
  /\ IF workload = "list" THEN clock = 2 /\ \A c \in Conv : row[c].exists
                          ELSE clock = 0 /\ \A c \in Conv : row[c] = NoRow

List ==
  /\ faults' = 0 /\ listing'.limit \in {0, 2} /\ writes' <= MaxMoves
  /\ \A t \in open' : ~t.welcome

Welcomes ==
  /\ writes' <= MaxInvites /\ clock' <= Millisecond
  /\ listing'.limit \in {0, 1} /\ \A t \in open' : t.conv \in {1, 2}

MCNext ==
  /\ UNCHANGED workload
  /\ \/ workload \in {"list", "welcome"} /\ InboxNext /\ UNCHANGED readVars
     \/ workload = "read" /\ ReadNext /\ UNCHANGED inboxVars
  /\ CASE workload = "list" -> List
       [] workload = "welcome" -> Welcomes
       [] workload = "read" -> TRUE

MCSpec == MCInit /\ [][MCNext]_mcVars /\ InboxFairness

=============================================================================
