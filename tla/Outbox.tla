------------------------------- MODULE Outbox -------------------------------
(***************************************************************************)
(* The outbox dispatcher (OutboxWorkerService): one cron-driven worker per *)
(* instance reads a batch of due rows, publishes each to Redis, pushes to  *)
(* people who are offline, and records the outcome.  Workers share the     *)
(* table and claim nothing; isRunning keeps one run per instance.          *)
(*                                                                         *)
(* An event is its rank by created_at.  Rows appear when the transaction   *)
(* that enqueued them commits, in any order (Messaging!OutboxAtomic says   *)
(* which rows there are).                                                  *)
(***************************************************************************)
EXTENDS Integers, FiniteSets

CONSTANTS
  Event,        \* events ever enqueued, ranked by created_at
  Worker,       \* instances running the cron job
  MaxAttempts,  \* outbox.maxAttempts
  BatchSize,    \* BATCH_SIZE, the LIMIT of findDueBatch
  MaxCrashes    \* bound on process deaths, for liveness only

ASSUME OutboxAssumption ==
  /\ Event \subseteq Nat
  /\ IsFiniteSet(Worker)
  /\ MaxAttempts \in Nat
  /\ BatchSize \in Nat \ {0}
  /\ MaxCrashes \in Nat

VARIABLES
  rows,      \* outbox_events; "ABSENT" before the enqueuing COMMIT
  worker,    \* each instance's run: isRunning is pc # "idle"
  fannedOut, \* history: events Redis took at least once
  handled,   \* history: events whose notifyIfOffline ran to its end
  crashes

outboxVars == <<rows, worker, fannedOut, handled, crashes>>

RowStatus == {"ABSENT", "PENDING", "FAILED", "PUBLISHED", "DEAD_LETTER"}
Row == [status : RowStatus, attempts : Nat, due : BOOLEAN]

\* A batch holds each row's attempt_count as findDueBatch read it.
Item == [event : Event, attempts : Nat]
WorkerPc == {"idle", "publish", "presence", "push", "markPublished", "markFailed"}
Run == [pc : WorkerPc, batch : SUBSET Item]

\* (Mutant of Due: an event that failed once is never looked at again.)
DuePending == {e \in Event : rows[e].status = "PENDING" /\ rows[e].due}

Due == {e \in Event : rows[e].status \in {"PENDING", "FAILED"} /\ rows[e].due}

\* ORDER BY created_at LIMIT BatchSize.
DueBatch == {e \in Due : Cardinality({f \in Due : f < e}) < BatchSize}

\* The item of the loop: the oldest left of the batch.
Current(w) ==
  {b \in worker[w].batch : \A x \in worker[w].batch : b.event <= x.event}

Step(w, pc) == worker' = [worker EXCEPT ![w].pc = pc]

\* The loop goes on to the next item, or the run ends.
NextItem(w, b) ==
  LET rest == worker[w].batch \ {b} IN
  worker' = [worker EXCEPT ![w] = [pc |-> IF rest = {} THEN "idle" ELSE "publish",
                                   batch |-> rest]]

EndRun(w) == worker' = [worker EXCEPT ![w] = [pc |-> "idle", batch |-> {}]]

----------------------------------------------------------------------------
\* A business transaction commits with its outbox row.
Enqueue(e) ==
  /\ rows[e].status = "ABSENT"
  /\ rows' = [rows EXCEPT ![e].status = "PENDING", ![e].due = TRUE]
  /\ UNCHANGED <<worker, fannedOut, handled, crashes>>

\* next_attempt_at passes: min(2^attempts, 300) seconds are over.
BackoffEnds(e) ==
  /\ rows[e].status = "FAILED" /\ ~rows[e].due
  /\ rows' = [rows EXCEPT ![e].due = TRUE]
  /\ UNCHANGED <<worker, fannedOut, handled, crashes>>

\* dispatchPending and findDueBatch.  A tick during a run does nothing; so
\* does one that finds nothing due or whose query throws.
Tick(w) ==
  /\ worker[w].pc = "idle"
  /\ Due # {}
  /\ worker' = [worker EXCEPT ![w] =
       [pc |-> "publish",
        batch |-> {[event |-> e, attempts |-> rows[e].attempts] : e \in DueBatch}]]
  /\ UNCHANGED <<rows, fannedOut, handled, crashes>>

\* PUBLISH ws:user:<person>, which may throw, before or after Redis took it.
Publish(w, b) ==
  /\ worker[w].pc = "publish"
  /\ \/ /\ Step(w, "presence")
        /\ fannedOut' = fannedOut \cup {b.event}
     \/ /\ Step(w, "markFailed")
        /\ fannedOut' \in {fannedOut, fannedOut \cup {b.event}}
  /\ UNCHANGED <<rows, handled, crashes>>

\* presence.isOnline never throws; a Redis error reads as offline.
CheckPresence(w, b) ==
  /\ worker[w].pc = "presence"
  /\ \/ Step(w, "markPublished") /\ handled' = handled \cup {b.event}
     \/ Step(w, "push") /\ UNCHANGED handled
  /\ UNCHANGED <<rows, fannedOut, crashes>>

\* (Mutant of Push: an unreachable Core is logged, like a failed push.)
PushOrNot(w, b) ==
  /\ worker[w].pc = "push"
  /\ Step(w, "markPublished")
  /\ handled' \in {handled, handled \cup {b.event}}
  /\ UNCHANGED <<rows, fannedOut, crashes>>

\* getPushTokens and getUserProjection may throw; a failed push does not.
Push(w, b) ==
  /\ worker[w].pc = "push"
  /\ \/ Step(w, "markPublished") /\ handled' = handled \cup {b.event}
     \/ Step(w, "markFailed") /\ UNCHANGED handled
  /\ UNCHANGED <<rows, fannedOut, crashes>>

SetPublished(e) == rows' = [rows EXCEPT ![e].status = "PUBLISHED"]

\* markPublished stands in the same try: if it throws, whether the UPDATE was
\* applied or only its answer lost, the catch marks the event failed.
MarkPublished(w, b) ==
  /\ worker[w].pc = "markPublished"
  /\ \/ SetPublished(b.event) /\ NextItem(w, b)
     \/ Step(w, "markFailed") /\ (SetPublished(b.event) \/ UNCHANGED rows)
  /\ UNCHANGED <<fannedOut, handled, crashes>>

\* (Mutants of SetFailed: the first retry is the last; no retry is the last.)
SetFailedOnce(b) ==
  LET status == IF b.attempts > 0 THEN "DEAD_LETTER" ELSE "FAILED" IN
  rows' = [rows EXCEPT ![b.event].status = status,
                       ![b.event].attempts = @ + 1,
                       ![b.event].due = FALSE]

SetFailedForever(b) ==
  rows' = [rows EXCEPT ![b.event].status = "FAILED",
                       ![b.event].attempts = @ + 1,
                       ![b.event].due = FALSE]

\* The UPDATE of markFailed: it compares the count it was given, not the row's,
\* and looks at no status.
SetFailed(b) ==
  LET status == IF b.attempts >= MaxAttempts THEN "DEAD_LETTER" ELSE "FAILED" IN
  rows' = [rows EXCEPT ![b.event].status = status,
                       ![b.event].attempts = @ + 1,
                       ![b.event].due = FALSE]

\* If markFailed itself throws, applied or not, the run ends and the rest of
\* the batch waits for the next tick.
MarkFailed(w, b) ==
  /\ worker[w].pc = "markFailed"
  /\ \/ SetFailed(b) /\ NextItem(w, b)
     \/ (SetFailed(b) \/ UNCHANGED rows) /\ EndRun(w)
  /\ UNCHANGED <<fannedOut, handled, crashes>>

\* The process dies and restarts: its run is gone, the rows are as they were.
CrashWorker(w) ==
  /\ worker[w].pc # "idle"
  /\ crashes < MaxCrashes
  /\ crashes' = crashes + 1
  /\ EndRun(w)
  /\ UNCHANGED <<rows, fannedOut, handled>>

----------------------------------------------------------------------------
OutboxInit ==
  /\ rows = [e \in Event |-> [status |-> "ABSENT", attempts |-> 0, due |-> FALSE]]
  /\ worker = [w \in Worker |-> [pc |-> "idle", batch |-> {}]]
  /\ fannedOut = {}
  /\ handled = {}
  /\ crashes = 0

RunStep(w) ==
  \E b \in Current(w) :
    Publish(w, b) \/ CheckPresence(w, b) \/ Push(w, b) \/ MarkPublished(w, b)
      \/ MarkFailed(w, b)

OutboxNext ==
  \/ \E e \in Event : Enqueue(e) \/ BackoffEnds(e)
  \/ \E w \in Worker : Tick(w) \/ RunStep(w) \/ CrashWorker(w)

OutboxSpec == OutboxInit /\ [][OutboxNext]_outboxVars

\* The cron job keeps ticking, a run keeps going, back-offs end; and the
\* database does not refuse a worker's markFailed for ever.
OutboxFairness ==
  /\ \A e \in Event : WF_outboxVars(BackoffEnds(e))
  /\ \A w \in Worker : /\ WF_outboxVars(Tick(w))
                        /\ WF_outboxVars(RunStep(w))
                        /\ SF_outboxVars(\E b \in Current(w) :
                                        MarkFailed(w, b) /\ rows' # rows)

OutboxFairSpec == OutboxSpec /\ OutboxFairness

----------------------------------------------------------------------------
\* Rows and runs have their shapes, and a batch lasts no longer than its run.
OutboxTypeOK ==
  /\ rows \in [Event -> Row]
  /\ worker \in [Worker -> Run]
  /\ \A w \in Worker : worker[w].pc = "idle" => worker[w].batch = {}
  /\ fannedOut \subseteq Event
  /\ handled \subseteq Event
  /\ crashes \in 0 .. MaxCrashes

\* At least once: an event is PUBLISHED only after Redis took it and the
\* notification of an offline person was carried through, whichever worker
\* wrote the row and however many died on the way.
PublishedWasHandled ==
  \A e \in Event : rows[e].status = "PUBLISHED" => e \in fannedOut \cap handled

\* No event is given up before MaxAttempts recorded failures, although
\* markFailed decides on a count read when the batch was.
GivenUpLate ==
  \A e \in Event : rows[e].status = "DEAD_LETTER" => rows[e].attempts >= MaxAttempts

\* The attempts spent on an event are bounded even though workers race on its
\* row, fail rows another has settled and act on counts they read before: a
\* worker can revive the row once with a stale count, and each revival can cost
\* every worker one attempt more.
AttemptsBounded ==
  \A e \in Event :
    rows[e].attempts <= MaxAttempts + Cardinality(Worker) * Cardinality(Worker)

\* "DEAD_LETTER instead of retrying forever": every committed event ends
\* PUBLISHED or DEAD_LETTER and stays there, behind poisoned events too.
EventuallySettled ==
  \A e \in Event :
    rows[e].status # "ABSENT" ~>
      [](rows[e].status \in {"PUBLISHED", "DEAD_LETTER"})

\* What a run knows of its current item, and of the counts in its batch: the
\* inductive invariant behind the two invariants above.
RunKnows(w) ==
  /\ \A b \in Current(w) :
       /\ worker[w].pc \in {"presence", "push", "markPublished"} =>
            b.event \in fannedOut
       /\ worker[w].pc = "markPublished" => b.event \in handled
  /\ \A b \in worker[w].batch : b.attempts <= rows[b.event].attempts

OutboxInv ==
  /\ OutboxTypeOK
  /\ PublishedWasHandled
  /\ GivenUpLate
  /\ \A w \in Worker : RunKnows(w)

\* The runs with an item of the event whose count is below MaxAttempts, which can bring a
\* row back from DEAD_LETTER, and those with one that is not, which cannot.
Stale(w, e) == \E b \in worker[w].batch : b.event = e /\ b.attempts < MaxAttempts
Fresh(w, e) == \E b \in worker[w].batch : b.event = e /\ b.attempts >= MaxAttempts
StaleRuns(e) == {w \in Worker : Stale(w, e)}
FreshRuns(e) == {w \in Worker : Fresh(w, e)}

\* Twice the attempts that k stale runs of n can still cause: each its own, and one of
\* every run that reads the row it has revived.
Revivals(k, n) == k * (2 * n + 3) - k * k

\* Twice the attempts still to come of an event that has had MaxAttempts: a row that may
\* be read costs one of every run that is not stale, a settled one of those that have read it.
ToCome(e) ==
  LET n == Cardinality(Worker)
      k == Cardinality(StaleRuns(e))
      next == IF rows[e].status \in {"PUBLISHED", "DEAD_LETTER"}
                THEN Cardinality(FreshRuns(e)) ELSE n - k
  IN 2 * next + Revivals(k, n)

OneItemEach ==
  \A w \in Worker : \A b, x \in worker[w].batch : b.event = x.event => b = x

\* The inductive invariant behind AttemptsBounded: what an event has spent and has still
\* to come never exceeds the bound.
AttemptsInv ==
  /\ OneItemEach
  /\ \A e \in Event : rows[e].attempts >= MaxAttempts =>
       2 * rows[e].attempts + ToCome(e)
         <= 2 * (MaxAttempts + Cardinality(Worker) * Cardinality(Worker))

============================================================================
