---------------------------- MODULE MCMessaging ----------------------------
(***************************************************************************)
(* Instances of Messaging for TLC.  A behaviour has one of two workloads,  *)
(* which forbid calls and change none.  With one client message id, every  *)
(* operation may be called, and every create sends a Welcome.  With all of *)
(* them, there are only creates, which differ in their Welcomes, if they   *)
(* send any, and in their first messages, if they have any.  Nobody names a*)
(* conversation before it exists.                                          *)
(***************************************************************************)
EXTENDS MessagingRefinement, MessagingInvariant, FiniteSets, TLC

VARIABLE ids  \* the client message ids of the workload
mcVars == <<vars, ids>>

OneId == Cardinality(ids) = 1

Fits ==
  \A c \in Call :
    /\ call[c].cmid \in ids \cup {None}
    /\ OneId => (At(c, "findActive") => call[c].welcome # None)
    /\ call[c].pc \in {"findKey", "lockRequest"} => Exists(call[c].conv)
    /\ ~OneId => call[c].pc \in {"idle"} \cup CreatePc

MCInit == Init /\ ids \in {{m} : m \in MsgId} \cup {MsgId}
MCNext == Next /\ UNCHANGED ids /\ Fits'
MCSpec == MCInit /\ [][MCNext]_mcVars

\* Every constant is a set of interchangeable values.
Symmetry ==
  Permutations(Person) \cup Permutations(Call) \cup Permutations(ConvId)
    \cup Permutations(MsgId)

=============================================================================
