------------------------- MODULE MCKeyDistribution --------------------------
(***************************************************************************)
(* Instances of KeyDistribution for TLC.  A behaviour has one of two       *)
(* workloads:                                                              *)
(*   devices   registrations, a revocation, KeyPackages, and fetches that  *)
(*             compete for them                                            *)
(*   prekeys   publications of one device that overlap each other, or one  *)
(*             of them a fetch                                             *)
(***************************************************************************)
EXTENDS KeyInvariant, TLC

CONSTANTS
    Earliest,     \* the publication that comes first
    MaxFailures   \* bound on calls that fail

VARIABLE workload
mcVars == <<vars, workload>>

AtMostOne(calls) == Cardinality({c \in calls : pc[c] # "idle"}) <= 1

\* What a fetch reads while two publications run is left out.
OverlapInTwos == Cardinality({c \in Publication \cup Fetch : Running(c)}) <= 2

Fits ==
    CASE workload = "devices" -> \A c \in Publication : pc[c] = "idle"
      [] workload = "prekeys" -> /\ \A c \in Revocation \cup MlsPublication : pc[c] = "idle"
                                 /\ AtMostOne(Registration) /\ AtMostOne(Fetch)
                                 /\ OverlapInTwos

\* Publications are interchangeable, so that one choice of the first stands for all.
InOrder == (\E c \in Publication : pc[c] # "idle") => pc[Earliest] # "idle"

FewFailures == Cardinality({c \in Call : pc[c] = "failed"}) <= MaxFailures

\* A fetch that is denied, or of a person who has no device yet, is left to the
\* other workload.
FetchesFindDevices ==
    workload = "devices" =>
      \A c \in Fetch : pc[c] = "idle" /\ pc'[c] # "idle" =>
                        pc'[c] = "devices" /\ Registered # {}

\* What was asked for of a device the caller may not use is not looked at: one
\* request stands for all.
RefusedAlike ==
    \A c \in Publication \cup MlsPublication :
      LET person == arg'[c].person
          device == arg'[c].device
      IN  pc[c] = "idle" /\ pc'[c] = "refused" /\ ~OwnsActive(person, device)
            => arg'[c] = [NoArg EXCEPT !.person = person, !.device = device]

\* Nothing runs; another call may or may not come.
AtRest == (\A c \in Call : ~Running(c)) /\ UNCHANGED vars

MCInit == Init /\ workload \in {"devices", "prekeys"}

MCNext ==
    /\ Next \/ AtRest
    /\ UNCHANGED workload
    /\ Fits' /\ InOrder' /\ FewFailures' /\ FetchesFindDevices
    /\ RefusedAlike

MCSpec == MCInit /\ [][MCNext]_mcVars

\* People, identity keys and the calls of the other kinds are interchangeable.
Symmetry ==
    Permutations(Person) \cup Permutations(IdentityKey) \cup Permutations(Registration)
      \cup Permutations(Fetch)

=============================================================================
