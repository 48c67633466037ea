----------------------------- MODULE MCDirectory ----------------------------
(***************************************************************************)
(* Instances of Directory for TLC.  A behaviour has one of four workloads, *)
(* so that each meets what it is about at its full size:                   *)
(*   waking   one call at a time, about one person, against a Core that    *)
(*            sleeps, hangs, rejects and fails                             *)
(*   overlap  two decisions about one person at once, on one instance,     *)
(*            slow answers that come before the timeout                    *)
(*   batched  pages of the directory and decisions about one person at    *)
(*            once, on one instance, answers as slow as the timeout allows *)
(*   walks    walks over everybody, on any instance, one change at any     *)
(*            moment, pages lost between the service and the client        *)
(***************************************************************************)
EXTENDS Directory, TLC

CONSTANTS
  First,  \* the call of the workloads with one call at a time
  Home    \* the instance of the workloads with one instance

VARIABLE workload
mcVars == <<directoryVars, workload>>

MCInit ==
  /\ DirectoryInit
  /\ \/ /\ workload \in {"waking", "overlap", "batched"}
        /\ enabled \subseteq {1} /\ \A r \in Role : related[r] \subseteq {1}
     \/ /\ workload = "walks"
        /\ Cardinality(enabled) >= Cardinality(Person) - 1
        /\ related["FACULTY"] \in {{}, {2}, Person \ {2}, Person}
  /\ workload # "overlap" => \A r \in Role \ {"FACULTY"} : related[r] = {}
  /\ workload # "waking" => asleep = 0

OneCall == \A c \in Call \ {First} : task'[c] = NoTask

OnePerson ==
  /\ \A p \in Person : news'[p] > 0 => p = 1
  /\ \A c \in Call : task'[c].at \in {0, Home} /\ task'[c].target \in {0, 1}

\* Every answer comes, in fewer than n Ticks.
InTime(n) ==
  \A c \in Call :
    /\ req'[c].attempt = 0 /\ req'[c].st \notin {"backoff", "failed"}
    /\ InFlight(c)' => req'[c].timer > RequestTimeout - n

OneList == \A r \in Role \ {"FACULTY"} : related'[r] = {}

\* Decisions, then a walk.
Waking ==
  /\ OneCall /\ OnePerson /\ OneList
  /\ task'[First].roles # Role /\ walk'.roles \in {{}, {"FACULTY"}}
  /\ walk' # NoWalk => task'[First].op # "authorize"

\* A decision that reads both lists, and one that reads the first.
Overlap ==
  /\ OnePerson /\ InTime(RequestTimeout) /\ walk' = NoWalk
  /\ task'[First].roles \in {{}, Role}
  /\ \A c \in Call \ {First} : task'[c].roles \in {{}, {"FACULTY"}}

\* A decision may read what the batch of a page has left in the cache.
Batched ==
  /\ OnePerson /\ InTime(RequestTimeout + 1) /\ OneList
  /\ task'[First].op # "authorize" /\ walk'.roles \in {{}, {"FACULTY"}}
  /\ walk'.failures = 0
  /\ \A c \in Call \ {First} :
       task'[c].op # "discover" /\ task'[c].roles \in {{}, {"FACULTY"}}

\* For somebody who reads no list, one list stands for all.
Walks ==
  /\ OneCall /\ OneList /\ InTime(1)
  /\ \A p \in Person : news'[p] > 0 => p = 2
  /\ task'[First].op # "authorize" /\ walk'.roles \in {{}, {"FACULTY"}, {"PRINCIPAL"}, {"LIBRARY"}}
  /\ walk'.roles \in {{"PRINCIPAL"}, {"LIBRARY"}} => related'["FACULTY"] = {}

MCNext ==
  /\ DirectoryNext
  /\ UNCHANGED workload
  /\ CASE workload = "waking" -> Waking
       [] workload = "overlap" -> Overlap
       [] workload = "batched" -> Batched
       [] workload = "walks" -> Walks

MCSpec == MCInit /\ [][MCNext]_mcVars /\ DirectoryFairness

=============================================================================
