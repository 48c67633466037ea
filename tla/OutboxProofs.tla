---------------------------- MODULE OutboxProofs ----------------------------
(***************************************************************************)
(* Proofs about Outbox, for any events, workers, attempts and crashes.     *)
(***************************************************************************)
EXTENDS Outbox, FiniteSetTheorems, TLAPS

\* The current items of a run are items of its batch.
LEMMA CurrentItem ==
  ASSUME OutboxTypeOK, NEW w \in Worker, NEW b \in Current(w)
  PROVE  b \in worker[w].batch /\ b \in Item /\ b.event \in Event /\ b.attempts \in Nat
  BY DEF OutboxTypeOK, Current, Run, Item

\* A step that writes no row and moves one run keeps the invariant if it keeps
\* what that run knows.
LEMMA RunMoves ==
  ASSUME OutboxInv, NEW w \in Worker, NEW r \in Run,
         worker' = [worker EXCEPT ![w] = r],
         r.pc = "idle" => r.batch = {},
         UNCHANGED rows, fannedOut \subseteq fannedOut', handled \subseteq handled',
         fannedOut' \subseteq Event, handled' \subseteq Event,
         crashes' \in 0 .. MaxCrashes, RunKnows(w)'
  PROVE  OutboxInv'
<1>1. OutboxTypeOK'
  BY DEF OutboxInv, OutboxTypeOK
<1>2. PublishedWasHandled' /\ GivenUpLate'
  BY DEF OutboxInv, PublishedWasHandled, GivenUpLate
<1>3. ASSUME NEW v \in Worker PROVE RunKnows(v)'
  <2>1. CASE v = w
    BY <2>1
  <2>2. CASE v # w
    BY <2>2 DEF OutboxInv, OutboxTypeOK, RunKnows, Current
  <2> QED BY <2>1, <2>2
<1> QED BY <1>1, <1>2, <1>3 DEF OutboxInv

\* A step that writes one row keeps the invariant if the row still deserves its
\* status and has lost no attempt; the run that wrote it goes on to its next
\* item, ends, or goes on to mark the event failed.
LEMMA RowWritten ==
  ASSUME OutboxInv, NEW e \in Event, NEW row \in Row,
         rows' = [rows EXCEPT ![e] = row],
         row.attempts >= rows[e].attempts,
         row.status = "PUBLISHED" => e \in fannedOut \cap handled,
         row.status = "DEAD_LETTER" => row.attempts >= MaxAttempts,
         UNCHANGED <<fannedOut, handled, crashes>>,
         worker' \in [Worker -> Run],
         \A w \in Worker :
           /\ worker'[w].pc = "idle" => worker'[w].batch = {}
           /\ worker'[w].batch \subseteq worker[w].batch
           /\ worker'[w] = worker[w] \/ worker'[w].pc \in {"idle", "publish", "markFailed"}
  PROVE  OutboxInv'
<1>1. OutboxTypeOK'
  BY DEF OutboxInv, OutboxTypeOK
<1>2. PublishedWasHandled'
  BY DEF OutboxInv, OutboxTypeOK, PublishedWasHandled
<1>3. GivenUpLate'
  BY DEF OutboxInv, OutboxTypeOK, GivenUpLate
<1>4. \A f \in Event : rows[f].attempts \in Nat /\ rows'[f].attempts \in Nat
                       /\ rows[f].attempts <= rows'[f].attempts
  BY DEF OutboxInv, OutboxTypeOK, Row
<1>5. ASSUME NEW w \in Worker PROVE RunKnows(w)'
  <2>1. ASSUME NEW b \in worker'[w].batch PROVE b.attempts <= rows'[b.event].attempts
    <3>1. b \in Item /\ b.attempts <= rows[b.event].attempts
      BY DEF OutboxInv, OutboxTypeOK, RunKnows, Run
    <3> QED BY <3>1, <1>4 DEF Item
  <2>2. CASE worker'[w] = worker[w]
    BY <2>1, <2>2 DEF OutboxInv, RunKnows, Current
  <2>3. CASE worker'[w].pc \in {"idle", "publish", "markFailed"}
    BY <2>1, <2>3 DEF RunKnows
  <2> QED BY <2>2, <2>3
<1> QED BY <1>1, <1>2, <1>3, <1>5 DEF OutboxInv

----------------------------------------------------------------------------
\* What the code does to a row, or a run, keeps the invariant.
LEMMA EnqueueKeeps ==
  ASSUME OutboxInv, NEW e \in Event, Enqueue(e) PROVE OutboxInv'
<1>1. PICK row \in Row : /\ rows' = [rows EXCEPT ![e] = row]
                         /\ row.attempts = rows[e].attempts
                         /\ row.status = "PENDING"
  <2> DEFINE new == [rows[e] EXCEPT !.status = "PENDING", !.due = TRUE]
  <2>1. rows' = [rows EXCEPT ![e] = new] /\ new \in Row
        /\ new.attempts = rows[e].attempts /\ new.status = "PENDING"
    BY DEF Enqueue, OutboxInv, OutboxTypeOK, Row, RowStatus
  <2> QED BY <2>1
<1>2. row.attempts \in Nat /\ row.attempts >= rows[e].attempts
  BY <1>1 DEF Row
<1>3. UNCHANGED <<worker, fannedOut, handled, crashes>>
  BY DEF Enqueue
<1>4. worker' \in [Worker -> Run] /\ \A w \in Worker : worker'[w] = worker[w]
      /\ (worker'[w].pc = "idle" => worker'[w].batch = {})
  BY <1>3 DEF OutboxInv, OutboxTypeOK
<1>5. row.status # "PUBLISHED" /\ row.status # "DEAD_LETTER"
  BY <1>1
<1> QED BY <1>1, <1>2, <1>3, <1>4, <1>5, RowWritten

\* A back-off that ends touches no run.
LEMMA BackoffEndsKeeps ==
  ASSUME OutboxInv, NEW e \in Event, BackoffEnds(e) PROVE OutboxInv'
<1>1. PICK row \in Row : /\ rows' = [rows EXCEPT ![e] = row]
                         /\ row.attempts = rows[e].attempts
                         /\ row.status = "FAILED"
  <2> DEFINE new == [rows[e] EXCEPT !.due = TRUE]
  <2>1. rows' = [rows EXCEPT ![e] = new] /\ new \in Row
        /\ new.attempts = rows[e].attempts /\ new.status = "FAILED"
    BY DEF BackoffEnds, OutboxInv, OutboxTypeOK, Row, RowStatus
  <2> QED BY <2>1
<1>2. row.attempts \in Nat /\ row.attempts >= rows[e].attempts
  BY <1>1 DEF Row
<1>3. UNCHANGED <<worker, fannedOut, handled, crashes>>
  BY DEF BackoffEnds
<1>4. worker' \in [Worker -> Run] /\ \A w \in Worker : worker'[w] = worker[w]
      /\ (worker'[w].pc = "idle" => worker'[w].batch = {})
  BY <1>3 DEF OutboxInv, OutboxTypeOK
<1>5. row.status # "PUBLISHED" /\ row.status # "DEAD_LETTER"
  BY <1>1
<1> QED BY <1>1, <1>2, <1>3, <1>4, <1>5, RowWritten

\* A run begins with the counts of its rows and nothing done yet.
LEMMA TickKeeps ==
  ASSUME OutboxInv, NEW w \in Worker, Tick(w) PROVE OutboxInv'
<1>1. PICK r : /\ worker' = [worker EXCEPT ![w] = r]
               /\ r.pc = "publish"
               /\ r.batch = {[event |-> e, attempts |-> rows[e].attempts] : e \in DueBatch}
               /\ r = [pc |-> r.pc, batch |-> r.batch]
  <2> DEFINE new == [pc |-> "publish",
                     batch |-> {[event |-> e, attempts |-> rows[e].attempts] : e \in DueBatch}]
  <2>1. worker' = [worker EXCEPT ![w] = new]
    BY DEF Tick
  <2>2. /\ new.pc = "publish"
        /\ new.batch = {[event |-> e, attempts |-> rows[e].attempts] : e \in DueBatch}
        /\ new = [pc |-> new.pc, batch |-> new.batch]
    OBVIOUS
  <2> HIDE DEF new
  <2> QED BY <2>1, <2>2
<1>2. DueBatch \subseteq Event
  BY DEF DueBatch, Due
<1>3. ASSUME NEW b \in r.batch
      PROVE  b \in Item /\ b.attempts <= rows[b.event].attempts
  BY <1>1, <1>2 DEF OutboxInv, OutboxTypeOK, Row, Item
<1>4. r \in Run
  BY <1>1, <1>3 DEF Run, WorkerPc
<1>5. UNCHANGED <<rows, fannedOut, handled, crashes>>
  BY DEF Tick
<1>6. worker'[w] = r
  BY <1>1 DEF OutboxInv, OutboxTypeOK
<1>7. RunKnows(w)'
  BY <1>1, <1>3, <1>5, <1>6 DEF RunKnows
<1> QED BY <1>1, <1>4, <1>5, <1>7, RunMoves DEF OutboxInv, OutboxTypeOK

\* A run whose batch stays and whose pc becomes next.
LEMMA StepKeeps ==
  ASSUME OutboxInv, NEW w \in Worker, NEW b \in Current(w),
         NEW next \in WorkerPc \ {"idle"}, Step(w, next),
         UNCHANGED <<rows, crashes>>,
         fannedOut \subseteq fannedOut', handled \subseteq handled',
         fannedOut' \subseteq Event, handled' \subseteq Event,
         next \in {"presence", "push", "markPublished"} => b.event \in fannedOut',
         next = "markPublished" => b.event \in handled'
  PROVE  OutboxInv'
<1>1. PICK r : /\ worker' = [worker EXCEPT ![w] = r]
               /\ r = [pc |-> next, batch |-> worker[w].batch]
  <2> DEFINE new == [worker[w] EXCEPT !.pc = next]
  <2>1. worker' = [worker EXCEPT ![w] = new]
    BY DEF Step
  <2>2. new = [pc |-> next, batch |-> worker[w].batch]
    BY DEF OutboxInv, OutboxTypeOK, Run
  <2> QED BY <2>1, <2>2
<1>2. r \in Run /\ r.pc # "idle"
  BY <1>1 DEF OutboxInv, OutboxTypeOK, Run
<1>3. worker'[w] = r
  BY <1>1 DEF OutboxInv, OutboxTypeOK
<1>4. \A x \in Current(w) : x.event = b.event
  <2> TAKE x \in Current(w)
  <2>1. x \in worker[w].batch /\ b \in worker[w].batch /\ x.event \in Nat /\ b.event \in Nat
    BY CurrentItem, OutboxAssumption DEF OutboxInv
  <2>2. x.event <= b.event /\ b.event <= x.event
    BY <2>1 DEF Current
  <2> QED BY <2>1, <2>2
<1>5. Current(w)' = Current(w)
  BY <1>1, <1>3 DEF Current
<1>6. RunKnows(w)'
  BY <1>1, <1>3, <1>4, <1>5 DEF RunKnows, OutboxInv
<1> QED BY <1>1, <1>2, <1>6, RunMoves DEF OutboxInv, OutboxTypeOK

\* After a publish the run knows that Redis took the event, or goes on to record a failure.
LEMMA PublishKeeps ==
  ASSUME OutboxInv, NEW w \in Worker, NEW b \in Current(w), Publish(w, b)
  PROVE  OutboxInv'
<1>1. b.event \in Event /\ fannedOut \subseteq Event /\ handled \subseteq Event
  BY CurrentItem DEF OutboxInv, OutboxTypeOK
<1> QED BY <1>1, StepKeeps DEF Publish, WorkerPc

\* The presence check changes no row.
LEMMA CheckPresenceKeeps ==
  ASSUME OutboxInv, NEW w \in Worker, NEW b \in Current(w), CheckPresence(w, b)
  PROVE  OutboxInv'
<1>1. b.event \in Event /\ fannedOut \subseteq Event /\ handled \subseteq Event
  BY CurrentItem DEF OutboxInv, OutboxTypeOK
<1>2. b.event \in fannedOut
  BY DEF OutboxInv, RunKnows, CheckPresence
<1> QED BY <1>1, <1>2, StepKeeps DEF CheckPresence, WorkerPc

\* A push, or the lack of a need for one, completes the handling of the item.
LEMMA PushKeeps ==
  ASSUME OutboxInv, NEW w \in Worker, NEW b \in Current(w), Push(w, b)
  PROVE  OutboxInv'
<1>1. b.event \in Event /\ fannedOut \subseteq Event /\ handled \subseteq Event
  BY CurrentItem DEF OutboxInv, OutboxTypeOK
<1>2. b.event \in fannedOut
  BY DEF OutboxInv, RunKnows, Push
<1> QED BY <1>1, <1>2, StepKeeps DEF Push, WorkerPc

\* Marking writes one row; the run goes on, ends, or has its item marked failed.
LEMMA RunGoesOn ==
  ASSUME OutboxInv, NEW w \in Worker, NEW b \in Current(w),
         NextItem(w, b) \/ EndRun(w) \/ Step(w, "markFailed")
  PROVE  /\ worker' \in [Worker -> Run]
         /\ \A v \in Worker :
              /\ worker'[v].pc = "idle" => worker'[v].batch = {}
              /\ worker'[v].batch \subseteq worker[v].batch
              /\ worker'[v] = worker[v] \/ worker'[v].pc \in {"idle", "publish", "markFailed"}
<1>1. worker \in [Worker -> Run] /\ worker[w] \in Run
  BY DEF OutboxInv, OutboxTypeOK
<1>2. PICK r : /\ worker' = [worker EXCEPT ![w] = r]
               /\ r.pc \in {"idle", "publish", "markFailed"}
               /\ r.pc = "idle" => r.batch = {}
               /\ r.batch \subseteq worker[w].batch
               /\ r \in Run
  <2>1. CASE NextItem(w, b)
    <3> DEFINE rest == worker[w].batch \ {b}
               new == [pc |-> IF rest = {} THEN "idle" ELSE "publish", batch |-> rest]
    <3>1. worker' = [worker EXCEPT ![w] = new]
      BY <2>1 DEF NextItem
    <3>2. new \in Run
      BY <1>1 DEF Run, WorkerPc
    <3> QED BY <3>1, <3>2
  <2>2. CASE EndRun(w)
    <3> DEFINE new == [pc |-> "idle", batch |-> {}]
    <3>1. worker' = [worker EXCEPT ![w] = new] /\ new \in Run
      BY <2>2 DEF EndRun, Run, WorkerPc
    <3> QED BY <3>1
  <2>3. CASE Step(w, "markFailed")
    <3> DEFINE new == [worker[w] EXCEPT !.pc = "markFailed"]
    <3>1. worker' = [worker EXCEPT ![w] = new]
      BY <2>3 DEF Step
    <3>2. new \in Run /\ new.pc = "markFailed" /\ new.batch = worker[w].batch
      BY <1>1 DEF Run, WorkerPc
    <3> QED BY <3>1, <3>2
  <2> QED BY <2>1, <2>2, <2>3
<1> QED BY <1>1, <1>2 DEF OutboxInv, OutboxTypeOK

\* A run that is being marked writes PUBLISHED to a row that deserves it.
LEMMA PublishedRow ==
  ASSUME OutboxInv, NEW w \in Worker, NEW b \in Current(w),
         worker[w].pc = "markPublished", SetPublished(b.event),
         UNCHANGED <<fannedOut, handled, crashes>>,
         NextItem(w, b) \/ Step(w, "markFailed")
  PROVE  OutboxInv'
<1>1. b.event \in Event /\ b.event \in fannedOut \cap handled
  BY CurrentItem DEF OutboxInv, RunKnows
<1>2. PICK row \in Row : /\ rows' = [rows EXCEPT ![b.event] = row]
                         /\ row.attempts = rows[b.event].attempts
                         /\ row.status = "PUBLISHED"
  <2> DEFINE new == [rows[b.event] EXCEPT !.status = "PUBLISHED"]
  <2>1. rows' = [rows EXCEPT ![b.event] = new] /\ new \in Row
        /\ new.attempts = rows[b.event].attempts /\ new.status = "PUBLISHED"
    BY <1>1 DEF SetPublished, OutboxInv, OutboxTypeOK, Row, RowStatus
  <2> QED BY <2>1
<1>3. row.attempts \in Nat /\ row.attempts >= rows[b.event].attempts
  BY <1>2 DEF Row
<1> QED BY <1>1, <1>2, <1>3, RunGoesOn, RowWritten

\* markFailed adds an attempt, and gives up only at MaxAttempts: the row's own
\* count is no smaller than the one it compares.
LEMMA FailedRow ==
  ASSUME OutboxInv, NEW w \in Worker, NEW b \in Current(w),
         SetFailed(b), UNCHANGED <<fannedOut, handled, crashes>>,
         NextItem(w, b) \/ EndRun(w)
  PROVE  OutboxInv'
<1>1. /\ b.event \in Event /\ b.attempts \in Nat
      /\ b.attempts <= rows[b.event].attempts /\ rows[b.event].attempts \in Nat
  BY CurrentItem DEF OutboxInv, OutboxTypeOK, RunKnows, Row
<1> DEFINE status == IF b.attempts >= MaxAttempts THEN "DEAD_LETTER" ELSE "FAILED"
<1>2. PICK row \in Row : /\ rows' = [rows EXCEPT ![b.event] = row]
                         /\ row.attempts = rows[b.event].attempts + 1
                         /\ row.status = status
  <2> DEFINE new == [rows[b.event] EXCEPT !.status = status, !.attempts = @ + 1, !.due = FALSE]
  <2>1. rows[b.event].attempts + 1 \in Nat
    BY <1>1
  <2>2. rows' = [rows EXCEPT ![b.event] = new]
    BY DEF SetFailed
  <2>3. new \in Row /\ new.attempts = rows[b.event].attempts + 1 /\ new.status = status
    BY ZenonT(60), <1>1, <2>1 DEF OutboxInv, OutboxTypeOK, Row, RowStatus
  <2> QED BY <2>2, <2>3
<1>3. row.attempts >= rows[b.event].attempts
      /\ (row.status = "DEAD_LETTER" => row.attempts >= MaxAttempts)
      /\ row.status # "PUBLISHED"
  BY <1>1, <1>2, OutboxAssumption
<1> HIDE DEF status
<1> QED BY <1>1, <1>2, <1>3, RunGoesOn, RowWritten

\* A run that moves without writing a row.
LEMMA RunOnly ==
  ASSUME OutboxInv, NEW w \in Worker,
         UNCHANGED <<rows, fannedOut, handled>>, crashes' \in 0 .. MaxCrashes,
         EndRun(w) \/ (Step(w, "markFailed") /\ UNCHANGED crashes
                       /\ \E b \in Current(w) : worker[w].pc = "markPublished")
  PROVE  OutboxInv'
<1>1. CASE EndRun(w)
  <2> DEFINE new == [pc |-> "idle", batch |-> {}]
  <2>1. worker' = [worker EXCEPT ![w] = new] /\ new \in Run
    BY <1>1 DEF EndRun, Run, WorkerPc
  <2>2. worker'[w] = new
    BY <2>1 DEF OutboxInv, OutboxTypeOK
  <2>3. RunKnows(w)'
    BY <2>2 DEF RunKnows, Current
  <2>4. fannedOut \subseteq Event /\ handled \subseteq Event
    BY DEF OutboxInv, OutboxTypeOK
  <2> QED BY <2>1, <2>3, <2>4, RunMoves
<1>2. CASE /\ Step(w, "markFailed") /\ UNCHANGED crashes
           /\ \E b \in Current(w) : worker[w].pc = "markPublished"
  <2>1. fannedOut \subseteq Event /\ handled \subseteq Event
    BY DEF OutboxInv, OutboxTypeOK
  <2> QED BY <1>2, <2>1, StepKeeps DEF WorkerPc
<1> QED BY <1>1, <1>2

\* Only an item that was carried through is marked published.
LEMMA MarkPublishedKeeps ==
  ASSUME OutboxInv, NEW w \in Worker, NEW b \in Current(w), MarkPublished(w, b)
  PROVE  OutboxInv'
<1>1. CASE SetPublished(b.event)
  BY <1>1, PublishedRow DEF MarkPublished
<1>2. CASE Step(w, "markFailed") /\ UNCHANGED rows
  <2>1. crashes' \in 0 .. MaxCrashes
    BY DEF MarkPublished, OutboxInv, OutboxTypeOK
  <2> QED BY <1>2, <2>1, RunOnly DEF MarkPublished
<1> QED BY <1>1, <1>2 DEF MarkPublished

\* A failure is added to the row's own count.
LEMMA MarkFailedKeeps ==
  ASSUME OutboxInv, NEW w \in Worker, NEW b \in Current(w), MarkFailed(w, b)
  PROVE  OutboxInv'
<1>1. CASE SetFailed(b)
  BY <1>1, FailedRow DEF MarkFailed
<1>2. CASE EndRun(w) /\ UNCHANGED rows
  <2>1. crashes' \in 0 .. MaxCrashes
    BY DEF MarkFailed, OutboxInv, OutboxTypeOK
  <2> QED BY <1>2, <2>1, RunOnly DEF MarkFailed
<1> QED BY <1>1, <1>2 DEF MarkFailed

\* A run that dies knows nothing more.
LEMMA CrashKeeps ==
  ASSUME OutboxInv, NEW w \in Worker, CrashWorker(w) PROVE OutboxInv'
<1>1. crashes' \in 0 .. MaxCrashes
  BY OutboxAssumption DEF CrashWorker, OutboxInv, OutboxTypeOK
<1> QED BY <1>1, RunOnly DEF CrashWorker

----------------------------------------------------------------------------
\* OutboxInv is inductive: what a run knows of its batch (the Redis publish and
\* the push behind a markPublished, counts no newer than the rows) holds
\* whatever other workers do to the same rows, and however runs die.
THEOREM OutboxInvariance == OutboxSpec => []OutboxInv
<1>1. OutboxInit => OutboxInv
  BY OutboxAssumption DEF OutboxInit, OutboxInv, OutboxTypeOK, PublishedWasHandled,
     GivenUpLate, RunKnows, Current, Row, RowStatus, Run, WorkerPc
<1>2. OutboxInv /\ [OutboxNext]_outboxVars => OutboxInv'
  <2> SUFFICES ASSUME OutboxInv, [OutboxNext]_outboxVars PROVE OutboxInv'
    OBVIOUS
  <2>1. CASE \E e \in Event : Enqueue(e) \/ BackoffEnds(e)
    BY <2>1, EnqueueKeeps, BackoffEndsKeeps
  <2>2. CASE \E w \in Worker : Tick(w) \/ CrashWorker(w)
    BY <2>2, TickKeeps, CrashKeeps
  <2>3. CASE \E w \in Worker : RunStep(w)
    BY <2>3, PublishKeeps, CheckPresenceKeeps, PushKeeps, MarkPublishedKeeps,
       MarkFailedKeeps DEF RunStep
  <2>4. CASE UNCHANGED outboxVars
    BY <2>4 DEF outboxVars, OutboxInv, OutboxTypeOK, PublishedWasHandled, GivenUpLate,
       RunKnows, Current
  <2> QED BY <2>1, <2>2, <2>3, <2>4 DEF OutboxNext
<1> QED BY <1>1, <1>2, PTL DEF OutboxSpec

\* The outbox's rows and runs keep their shapes.
THEOREM OutboxTypeCorrect == OutboxSpec => []OutboxTypeOK
BY OutboxInvariance, PTL DEF OutboxInv

\* At least once: a row is PUBLISHED only after Redis took the event and the
\* notification of an offline person was carried through.
THEOREM AtLeastOnce == OutboxSpec => []PublishedWasHandled
BY OutboxInvariance, PTL DEF OutboxInv

\* No event is given up before MaxAttempts recorded failures.
THEOREM NeverGivenUpEarly == OutboxSpec => []GivenUpLate
BY OutboxInvariance, PTL DEF OutboxInv

----------------------------------------------------------------------------
(* How many attempts an event can cost.                                     *)

Runs == Cardinality(Worker)
OpenCost(k, n) == 2 * (n - k) + Revivals(k, n)
Settled(e) == rows[e].status \in {"PUBLISHED", "DEAD_LETTER"}

\* Fewer stale runs can cause fewer attempts.
LEMMA RevivalsGrow ==
  ASSUME NEW n \in Nat, NEW k \in 0 .. n, NEW j \in 0 .. k
  PROVE  /\ Revivals(j, n) <= Revivals(k, n) /\ OpenCost(j, n) <= OpenCost(k, n)
         /\ Revivals(k, n) \in Int /\ OpenCost(k, n) \in Int
         /\ Revivals(j, n) \in Int /\ OpenCost(j, n) \in Int
<1> DEFINE d == k - j
           s == 2 * n + 1 - k - j
<1>1. d \in Nat /\ s \in Nat OBVIOUS
<1>2. \A x, y \in Nat : x * y \in Nat OBVIOUS
<1>3. d * s \in Nat BY ONLY <1>1, <1>2
<1>4. OpenCost(k, n) = OpenCost(j, n) + d * s BY DEF OpenCost, Revivals
<1>5. Revivals(k, n) = Revivals(j, n) + d * s + 2 * d BY DEF Revivals
<1>6. Revivals(j, n) \in Int /\ OpenCost(j, n) \in Int BY DEF OpenCost, Revivals
<1>7. Revivals(k, n) \in Int /\ OpenCost(k, n) \in Int BY DEF OpenCost, Revivals
<1> HIDE DEF d, s
<1> QED BY <1>1, <1>3, <1>4, <1>5, <1>6, <1>7

\* A stale run that fails its event costs one attempt and reopens the row.
LEMMA OneRevival ==
  ASSUME NEW n \in Nat, NEW k \in 1 .. n, NEW j \in 0 .. (k - 1)
  PROVE  2 + OpenCost(j, n) <= Revivals(k, n)
<1>1. OpenCost(k - 1, n) + 2 = Revivals(k, n) BY DEF OpenCost, Revivals
<1>2. k - 1 \in 0 .. n OBVIOUS
<1>3. OpenCost(j, n) <= OpenCost(k - 1, n) /\ OpenCost(j, n) \in Int
      /\ OpenCost(k - 1, n) \in Int
  BY <1>2, RevivalsGrow
<1> QED BY <1>1, <1>3

\* All that is to come when an event has its MaxAttempts-th attempt.
LEMMA AllRevivals ==
  ASSUME NEW n \in Nat, NEW k \in 0 .. n, k < n \/ k = 0
  PROVE  OpenCost(k, n) <= 2 * (n * n)
<1>1. CASE k < n
  <2> DEFINE m == n - 1 - k
  <2>1. m \in Nat BY <1>1
  <2>2. 2 * (n * n) = OpenCost(k, n) + 2 * (n * m) + k * (k - 1)
    BY <2>1 DEF OpenCost, Revivals
  <2>3. \A x, y \in Nat : x * y \in Nat OBVIOUS
  <2>4. n * m \in Nat BY <2>1, <2>3
  <2>5. k * (k - 1) \in Nat
    <3>1. CASE k = 0 BY <3>1
    <3>2. CASE k # 0
      <4>1. k \in Nat /\ k - 1 \in Nat BY <3>2
      <4> QED BY <4>1, <2>3
    <3> QED BY <3>1, <3>2
  <2>6. OpenCost(k, n) \in Int BY DEF OpenCost, Revivals
  <2> HIDE DEF m
  <2> QED BY <2>2, <2>4, <2>5, <2>6
<1>2. CASE k = 0 /\ ~(k < n)
  <2>1. n = 0 BY <1>2
  <2> QED BY <1>2, <2>1 DEF OpenCost, Revivals
<1> QED BY <1>1, <1>2

\* The stale and the fresh runs of an event are different workers.
LEMMA RunsCounted ==
  ASSUME OutboxTypeOK, OneItemEach, NEW e \in Event
  PROVE  /\ Runs \in Nat
         /\ IsFiniteSet(StaleRuns(e)) /\ IsFiniteSet(FreshRuns(e))
         /\ Cardinality(StaleRuns(e)) \in Nat /\ Cardinality(FreshRuns(e)) \in Nat
         /\ Cardinality(StaleRuns(e)) + Cardinality(FreshRuns(e)) <= Runs
<1>1. StaleRuns(e) \subseteq Worker /\ FreshRuns(e) \subseteq Worker
  BY DEF StaleRuns, FreshRuns
<1>2. StaleRuns(e) \cap FreshRuns(e) = {}
  <2> SUFFICES ASSUME NEW w \in StaleRuns(e) \cap FreshRuns(e) PROVE FALSE
    OBVIOUS
  <2>1. PICK b \in worker[w].batch : b.event = e /\ b.attempts < MaxAttempts
    BY DEF StaleRuns, Stale
  <2>2. PICK x \in worker[w].batch : x.event = e /\ x.attempts >= MaxAttempts
    BY DEF FreshRuns, Fresh
  <2>3. w \in Worker BY DEF StaleRuns
  <2>4. b = x BY <2>1, <2>2, <2>3 DEF OneItemEach
  <2>5. b.attempts \in Nat BY <2>3 DEF OutboxTypeOK, Run, Item
  <2> QED BY <2>1, <2>2, <2>4, <2>5, OutboxAssumption
<1>3. IsFiniteSet(Worker) BY OutboxAssumption
<1>4. IsFiniteSet(StaleRuns(e)) /\ IsFiniteSet(FreshRuns(e)) BY <1>1, <1>3, FS_Subset
<1>5. Cardinality(StaleRuns(e)) \in Nat /\ Cardinality(FreshRuns(e)) \in Nat /\ Runs \in Nat
  BY <1>3, <1>4, FS_CardinalityType DEF Runs
<1>6. Cardinality(StaleRuns(e) \cup FreshRuns(e))
        = Cardinality(StaleRuns(e)) + Cardinality(FreshRuns(e))
            - Cardinality(StaleRuns(e) \cap FreshRuns(e))
  BY <1>4, FS_Union
<1>7. Cardinality(StaleRuns(e) \cap FreshRuns(e)) = 0 BY <1>2, FS_EmptySet
<1>8. Cardinality(StaleRuns(e) \cup FreshRuns(e)) <= Runs BY <1>1, <1>3, FS_Subset DEF Runs
<1> QED BY <1>4, <1>5, <1>6, <1>7, <1>8

WithinBudget(e) ==
  rows[e].attempts >= MaxAttempts => 2 * rows[e].attempts + ToCome(e) <= 2 * (MaxAttempts + Runs * Runs)

\* What is to come of an event, by whether its row may be read.
LEMMA ToComeIs ==
  ASSUME NEW e
  PROVE  ToCome(e) = IF Settled(e)
                       THEN 2 * Cardinality(FreshRuns(e)) + Revivals(Cardinality(StaleRuns(e)), Runs)
                       ELSE OpenCost(Cardinality(StaleRuns(e)), Runs)
  BY DEF ToCome, Settled, OpenCost, Runs

\* A step that fails no event of this rank: nobody comes to act on an old count, and a
\* settled row is neither reopened nor read.
Calm(e) ==
  /\ rows'[e].attempts = rows[e].attempts
  /\ Settled(e) => Settled(e)'
  /\ StaleRuns(e)' \subseteq StaleRuns(e)
  /\ Settled(e)' => FreshRuns(e)' \subseteq FreshRuns(e)

\* It keeps the event within its budget.
LEMMA CalmKeeps ==
  ASSUME OutboxTypeOK, OneItemEach, NEW e \in Event, WithinBudget(e),
         rows[e].attempts >= MaxAttempts => Calm(e), rows'[e].attempts = rows[e].attempts
  PROVE  WithinBudget(e)'
<1> SUFFICES ASSUME Calm(e), rows[e].attempts >= MaxAttempts
             PROVE  2 * rows'[e].attempts + ToCome(e)' <= 2 * (MaxAttempts + Runs * Runs)
  BY DEF WithinBudget, Runs
<1>1. PICK k \in Nat, f \in Nat, n \in Nat :
        /\ k = Cardinality(StaleRuns(e)) /\ f = Cardinality(FreshRuns(e)) /\ n = Runs
        /\ k + f <= n
  BY RunsCounted
<1>2. PICK j \in Nat : j = Cardinality(StaleRuns(e)') /\ j <= k
  BY <1>1, RunsCounted, FS_Subset, FS_CardinalityType DEF Calm
<1>3. PICK a \in Nat : a = rows[e].attempts BY DEF OutboxTypeOK, Row
<1>4. 2 * a + ToCome(e) <= 2 * (MaxAttempts + n * n) BY <1>1, <1>3 DEF WithinBudget
<1>5. MaxAttempts + n * n \in Nat BY OutboxAssumption
<1>6. /\ Revivals(j, n) <= Revivals(k, n) /\ OpenCost(j, n) <= OpenCost(k, n)
      /\ Revivals(k, n) \in Int /\ OpenCost(k, n) \in Int
      /\ Revivals(j, n) \in Int /\ OpenCost(j, n) \in Int
  BY <1>1, <1>2, RevivalsGrow
<1>7. ToCome(e)' = IF Settled(e)' THEN 2 * Cardinality(FreshRuns(e)') + Revivals(j, n)
                   ELSE OpenCost(j, n)
  BY <1>1, <1>2, ToComeIs DEF ToCome, Settled, OpenCost, Runs
<1>8. ToCome(e) = IF Settled(e) THEN 2 * f + Revivals(k, n) ELSE OpenCost(k, n)
  BY <1>1, ToComeIs
<1>9. CASE Settled(e)'
  <2>1. PICK g \in Nat : g = Cardinality(FreshRuns(e)') /\ g <= f
    BY <1>1, <1>9, RunsCounted, FS_Subset, FS_CardinalityType DEF Calm
  <2>2. ToCome(e)' = 2 * g + Revivals(j, n) BY <1>7, <1>9, <2>1
  <2>3. 2 * f + Revivals(k, n) <= ToCome(e) /\ ToCome(e) \in Int
    BY <1>1, <1>6, <1>8 DEF OpenCost
  <2>4. ToCome(e)' <= ToCome(e) /\ ToCome(e)' \in Int BY <1>6, <2>1, <2>2, <2>3
  <2> QED BY <1>1, <1>3, <1>4, <1>5, <2>3, <2>4 DEF Calm
<1>10. CASE ~Settled(e)'
  <2>1. ToCome(e)' = OpenCost(j, n) /\ ToCome(e) = OpenCost(k, n)
    BY <1>7, <1>8, <1>10 DEF Calm
  <2> QED BY <1>1, <1>3, <1>4, <1>5, <1>6, <2>1 DEF Calm
<1> QED BY <1>9, <1>10

\* An event that is failed: by the run of a count that is fresh, which settles it, or of a
\* stale one, which reopens it.
FailedBy(w, e) ==
  /\ rows'[e].attempts = rows[e].attempts + 1
  /\ StaleRuns(e)' \subseteq StaleRuns(e) \ {w}
  /\ FreshRuns(e)' \subseteq FreshRuns(e) \ {w}
  /\ \/ w \in FreshRuns(e) /\ Settled(e)'
     \/ w \in StaleRuns(e) /\ ~Settled(e)'

\* It too keeps the event within its budget.
LEMMA FailureKeeps ==
  ASSUME OutboxTypeOK, OneItemEach, NEW e \in Event, WithinBudget(e), NEW w \in Worker,
         FailedBy(w, e), rows[e].attempts < MaxAttempts => FreshRuns(e) = {}
  PROVE  WithinBudget(e)'
<1> USE DEF FailedBy
<1> SUFFICES ASSUME rows[e].attempts + 1 >= MaxAttempts
             PROVE  2 * rows'[e].attempts + ToCome(e)' <= 2 * (MaxAttempts + Runs * Runs)
  BY DEF WithinBudget, Runs
<1>1. PICK k \in Nat, f \in Nat, n \in Nat :
        /\ k = Cardinality(StaleRuns(e)) /\ f = Cardinality(FreshRuns(e)) /\ n = Runs
        /\ k + f <= n
  BY RunsCounted
<1>2. PICK j \in Nat : /\ j = Cardinality(StaleRuns(e)') /\ j <= k
                       /\ w \in StaleRuns(e) => j <= k - 1
  <2>1. IsFiniteSet(StaleRuns(e)) BY RunsCounted
  <2>2. /\ IsFiniteSet(StaleRuns(e) \ {w})
        /\ Cardinality(StaleRuns(e) \ {w}) = IF w \in StaleRuns(e) THEN k - 1 ELSE k
    BY <1>1, <2>1, FS_RemoveElement
  <2>3. IsFiniteSet(StaleRuns(e)') /\ Cardinality(StaleRuns(e)') <= Cardinality(StaleRuns(e) \ {w})
    BY <2>2, FS_Subset
  <2>4. Cardinality(StaleRuns(e)') \in Nat BY <2>3, FS_CardinalityType
  <2> QED BY <1>1, <2>2, <2>3, <2>4
<1>3. PICK g \in Nat : /\ g = Cardinality(FreshRuns(e)')
                       /\ w \in FreshRuns(e) => g <= f - 1
  <2>1. IsFiniteSet(FreshRuns(e)) BY RunsCounted
  <2>2. /\ IsFiniteSet(FreshRuns(e) \ {w})
        /\ Cardinality(FreshRuns(e) \ {w}) = IF w \in FreshRuns(e) THEN f - 1 ELSE f
    BY <1>1, <2>1, FS_RemoveElement
  <2>3. IsFiniteSet(FreshRuns(e)') /\ Cardinality(FreshRuns(e)') <= Cardinality(FreshRuns(e) \ {w})
    BY <2>2, FS_Subset
  <2>4. Cardinality(FreshRuns(e)') \in Nat BY <2>3, FS_CardinalityType
  <2> QED BY <1>1, <2>2, <2>3, <2>4
<1>4. PICK a \in Nat : a = rows[e].attempts BY DEF OutboxTypeOK, Row
<1>5. MaxAttempts \in Nat /\ n * n \in Nat BY OutboxAssumption
<1>6. /\ Revivals(j, n) <= Revivals(k, n) /\ Revivals(k, n) \in Int /\ Revivals(j, n) \in Int
      /\ OpenCost(j, n) \in Int
  BY <1>1, <1>2, RevivalsGrow
<1>7. ToCome(e)' = IF Settled(e)' THEN 2 * g + Revivals(j, n) ELSE OpenCost(j, n)
  BY <1>1, <1>2, <1>3, ToComeIs DEF ToCome, Settled, OpenCost, Runs
<1>8. a >= MaxAttempts =>
        /\ 2 * f + Revivals(k, n) <= ToCome(e) /\ ToCome(e) \in Int
        /\ 2 * a + ToCome(e) <= 2 * (MaxAttempts + n * n)
  <2>1. ToCome(e) = IF Settled(e) THEN 2 * f + Revivals(k, n) ELSE OpenCost(k, n)
    BY <1>1, ToComeIs
  <2> QED BY <1>1, <1>4, <1>6, <2>1 DEF WithinBudget, OpenCost
<1>9. CASE w \in FreshRuns(e) /\ Settled(e)'
  <2>1. a >= MaxAttempts BY <1>4, <1>5, <1>9
  <2>2. ToCome(e)' = 2 * g + Revivals(j, n) /\ g <= f - 1 BY <1>3, <1>7, <1>9
  <2>3. 2 + ToCome(e)' <= ToCome(e) /\ ToCome(e)' \in Int BY <1>6, <1>8, <2>1, <2>2, <1>1, <1>3
  <2> QED BY <1>1, <1>4, <1>5, <1>8, <2>1, <2>3
<1>10. CASE w \in StaleRuns(e) /\ ~Settled(e)'
  <2>1. ToCome(e)' = OpenCost(j, n) /\ j <= k - 1 BY <1>2, <1>7, <1>10
  <2>2. CASE a >= MaxAttempts
    <3>1. k \in 1 .. n /\ j \in 0 .. (k - 1) BY <1>1, <1>2, <2>1
    <3>2. 2 + ToCome(e)' <= Revivals(k, n) BY <2>1, <3>1, OneRevival
    <3>3. 2 + ToCome(e)' <= ToCome(e) /\ ToCome(e)' \in Int BY <1>1, <1>6, <1>8, <2>1, <2>2, <3>2
    <3> QED BY <1>1, <1>4, <1>5, <1>8, <2>2, <3>3
  <2>3. CASE a < MaxAttempts
    <3>1. a + 1 = MaxAttempts BY <1>4, <1>5, <2>3
    <3>2. j \in 0 .. n /\ j < n BY <1>1, <1>2, <2>1
    <3>3. OpenCost(j, n) <= 2 * (n * n) BY <3>2, AllRevivals
    <3> QED BY <1>1, <1>4, <1>5, <1>6, <2>1, <3>1, <3>3
  <2> QED BY <1>4, <1>5, <2>2, <2>3
<1> QED BY <1>9, <1>10

\* A step in which no run reads a row.
BatchesShrink == \A w \in Worker : worker'[w].batch \subseteq worker[w].batch

\* Nobody comes to hold an item then, and no run two of one event.
LEMMA NobodyReads ==
  ASSUME BatchesShrink, OneItemEach
  PROVE  /\ OneItemEach'
         /\ \A e \in Event : StaleRuns(e)' \subseteq StaleRuns(e)
                             /\ FreshRuns(e)' \subseteq FreshRuns(e)
<1>1. OneItemEach' BY DEF BatchesShrink, OneItemEach
<1>2. ASSUME NEW e \in Event, NEW w \in Worker
      PROVE  (Stale(w, e)' => Stale(w, e)) /\ (Fresh(w, e)' => Fresh(w, e))
  BY DEF BatchesShrink, Stale, Fresh
<1> QED BY <1>1, <1>2 DEF StaleRuns, FreshRuns

\* What the steps do to the events' attempts: nothing that counts, with no run reading a
\* row; a run that reads; or one that fails its item and lets go of it.
NoneFails ==
  /\ BatchesShrink
  /\ \A e \in Event : rows'[e].attempts = rows[e].attempts /\ (Settled(e) => Settled(e)')

LetsGo(w, b) == BatchesShrink /\ b \notin worker'[w].batch

\* What a step does to the attempts: it fails nobody, begins a run, or fails one item that its
\* worker lets go of.
LEMMA StepEffects ==
  ASSUME OutboxTypeOK, [OutboxNext]_outboxVars
  PROVE  \/ NoneFails
         \/ \E w \in Worker : Tick(w)
         \/ \E w \in Worker : \E b \in Current(w) : SetFailed(b) /\ LetsGo(w, b)
<1>1. worker \in [Worker -> Run] /\ rows \in [Event -> Row] BY DEF OutboxTypeOK
<1>2. UNCHANGED worker => BatchesShrink BY DEF BatchesShrink
<1>3. UNCHANGED rows => \A e \in Event : rows'[e].attempts = rows[e].attempts
                                        /\ (Settled(e) => Settled(e)')
  BY DEF Settled
<1>4. CASE UNCHANGED outboxVars
  BY <1>2, <1>3, <1>4 DEF outboxVars, NoneFails
<1>5. ASSUME NEW d \in Event, Enqueue(d) \/ BackoffEnds(d) PROVE NoneFails
  <2>1. ~Settled(d) /\ UNCHANGED worker BY <1>5 DEF Enqueue, BackoffEnds, Settled
  <2>2. ASSUME NEW e \in Event PROVE rows'[e].attempts = rows[e].attempts
                                     /\ (e # d => rows'[e] = rows[e])
    BY <1>1, <1>5 DEF Enqueue, BackoffEnds, Row
  <2> QED BY <1>2, <2>1, <2>2 DEF NoneFails, Settled
<1>6. ASSUME NEW w \in Worker, NEW pc, Step(w, pc) PROVE BatchesShrink
  BY <1>1, <1>6 DEF Step, BatchesShrink, Run
<1>7. ASSUME NEW w \in Worker, EndRun(w) PROVE worker'[w].batch = {} /\ BatchesShrink
  BY <1>1, <1>7 DEF EndRun, BatchesShrink
<1>8. ASSUME NEW w \in Worker, NEW b, NextItem(w, b)
      PROVE  b \notin worker'[w].batch /\ BatchesShrink
  <2> DEFINE rest == worker[w].batch \ {b}
             next == [pc |-> IF rest = {} THEN "idle" ELSE "publish", batch |-> rest]
  <2>1. worker' = [worker EXCEPT ![w] = next] BY <1>8 DEF NextItem
  <2>2. next.batch = rest OBVIOUS
  <2> HIDE DEF next
  <2>3. worker'[w].batch = rest /\ \A v \in Worker : v # w => worker'[v] = worker[v]
    BY <1>1, <2>1, <2>2
  <2> QED BY <2>3 DEF BatchesShrink
<1>9. ASSUME NEW w \in Worker, CrashWorker(w) PROVE NoneFails
  BY <1>3, <1>7, <1>9 DEF CrashWorker, NoneFails
<1>10. ASSUME NEW w \in Worker, NEW b \in Current(w),
              Publish(w, b) \/ CheckPresence(w, b) \/ Push(w, b)
       PROVE  NoneFails
  BY <1>3, <1>6, <1>10 DEF Publish, CheckPresence, Push, NoneFails
<1>11. ASSUME NEW w \in Worker, NEW b \in Current(w), MarkPublished(w, b) PROVE NoneFails
  <2>1. BatchesShrink BY <1>6, <1>8, <1>11 DEF MarkPublished
  <2>2. CASE SetPublished(b.event)
    <3>1. \A e \in Event : rows'[e].attempts = rows[e].attempts
                           /\ (rows'[e].status = rows[e].status \/ rows'[e].status = "PUBLISHED")
      BY <1>1, <2>2 DEF SetPublished, Row
    <3> QED BY <2>1, <3>1 DEF NoneFails, Settled
  <2> QED BY <1>3, <1>11, <2>1, <2>2 DEF MarkPublished, NoneFails
<1>12. ASSUME NEW w \in Worker, NEW b \in Current(w), MarkFailed(w, b)
       PROVE  NoneFails \/ (SetFailed(b) /\ LetsGo(w, b))
  BY <1>3, <1>7, <1>8, <1>12 DEF MarkFailed, NoneFails, LetsGo
<1> QED BY <1>4, <1>5, <1>9, <1>10, <1>11, <1>12 DEF OutboxNext, RunStep

\* A run reads only rows that are not settled, with the counts they have.
LEMMA TickStaysWithin ==
  ASSUME OutboxInv, AttemptsInv, NEW w \in Worker, Tick(w) PROVE AttemptsInv'
<1>1. worker \in [Worker -> Run] /\ rows \in [Event -> Row] /\ worker[w].batch = {}
  BY DEF OutboxInv, OutboxTypeOK, Tick
<1>2. worker'[w].batch = {[event |-> e, attempts |-> rows[e].attempts] : e \in DueBatch}
      /\ UNCHANGED rows /\ \A v \in Worker : v # w => worker'[v] = worker[v]
  BY <1>1 DEF Tick
<1>3. \A b \in worker'[w].batch : /\ b.event \in Event /\ ~Settled(b.event)
                                  /\ b.attempts = rows[b.event].attempts
                                  /\ b = [event |-> b.event, attempts |-> b.attempts]
  <2>1. \A e \in DueBatch : e \in Event /\ ~Settled(e) BY DEF DueBatch, Due, Settled
  <2> QED BY <1>2, <2>1
<1>4. OneItemEach' BY <1>2, <1>3 DEF OneItemEach, AttemptsInv
<1>5. ASSUME NEW e \in Event PROVE WithinBudget(e)'
  <2>1. ASSUME rows[e].attempts >= MaxAttempts PROVE Calm(e)
    <3>1. ~Stale(w, e)' 
      <4> SUFFICES ASSUME NEW b \in worker'[w].batch, b.event = e, b.attempts < MaxAttempts
                   PROVE  FALSE
        BY DEF Stale
      <4> QED BY <1>1, <1>3, <2>1, OutboxAssumption DEF Row
    <3>2. Settled(e) => ~Fresh(w, e)' BY <1>3 DEF Fresh
    <3>3. \A v \in Worker : v # w => (Stale(v, e)' => Stale(v, e)) /\ (Fresh(v, e)' => Fresh(v, e))
      BY <1>2 DEF Stale, Fresh
    <3>4. StaleRuns(e)' \subseteq StaleRuns(e) BY <3>1, <3>3 DEF StaleRuns
    <3>5. Settled(e) => FreshRuns(e)' \subseteq FreshRuns(e) BY <3>2, <3>3 DEF FreshRuns
    <3>6. Settled(e)' <=> Settled(e) BY <1>2 DEF Settled
    <3> QED BY <1>2, <3>4, <3>5, <3>6 DEF Calm
  <2>2. WithinBudget(e) BY DEF AttemptsInv, WithinBudget, Runs
  <2>3. rows'[e].attempts = rows[e].attempts BY <1>2
  <2> QED BY <2>1, <2>2, <2>3, CalmKeeps DEF AttemptsInv, OutboxInv
<1> QED BY <1>4, <1>5 DEF AttemptsInv, WithinBudget, Runs

\* A count in a batch is no newer than the row's, so the run of a fresh count fails a row
\* that has had its attempts.
LEMMA FailedEvent ==
  ASSUME OutboxInv, AttemptsInv, NEW e \in Event, NEW w \in Worker,
         rows'[e].attempts = rows[e].attempts + 1,
         StaleRuns(e)' \subseteq StaleRuns(e), FreshRuns(e)' \subseteq FreshRuns(e),
         w \notin StaleRuns(e)', w \notin FreshRuns(e)',
         \/ w \in FreshRuns(e) /\ Settled(e)'
         \/ w \in StaleRuns(e) /\ ~Settled(e)'
  PROVE  WithinBudget(e)'
<1>1. OutboxTypeOK /\ OneItemEach /\ WithinBudget(e)
  BY DEF OutboxInv, AttemptsInv, WithinBudget, Runs
<1>2. FailedBy(w, e) BY DEF FailedBy
<1>3. ASSUME rows[e].attempts < MaxAttempts, NEW v \in FreshRuns(e) PROVE FALSE
  <2>1. v \in Worker BY DEF FreshRuns
  <2>2. PICK x \in worker[v].batch : x.event = e /\ x.attempts >= MaxAttempts
    BY DEF FreshRuns, Fresh
  <2>3. x.attempts <= rows[e].attempts BY <2>1, <2>2 DEF OutboxInv, RunKnows
  <2>4. x.attempts \in Nat /\ rows[e].attempts \in Nat
    BY <2>1 DEF OutboxInv, OutboxTypeOK, Run, Item, Row
  <2> QED BY <1>3, <2>2, <2>3, <2>4, OutboxAssumption
<1> QED BY <1>1, <1>2, <1>3, FailureKeeps

\* The run that fails its item holds no other of that event; the others' events are calm.
LEMMA FailureStaysWithin ==
  ASSUME OutboxInv, AttemptsInv, NEW w \in Worker, NEW b \in Current(w), SetFailed(b),
         LetsGo(w, b)
  PROVE  AttemptsInv'
<1>1. worker \in [Worker -> Run] /\ rows \in [Event -> Row] /\ OutboxTypeOK /\ OneItemEach
  BY DEF OutboxInv, OutboxTypeOK, AttemptsInv
<1>2. b \in worker[w].batch /\ b.event \in Event /\ b.attempts \in Nat
  BY <1>1, CurrentItem
<1>3. /\ OneItemEach'
      /\ \A e \in Event : StaleRuns(e)' \subseteq StaleRuns(e) /\ FreshRuns(e)' \subseteq FreshRuns(e)
  BY <1>1, NobodyReads DEF LetsGo
<1>4. \A e \in Event : e # b.event => rows'[e] = rows[e]
  BY <1>1, <1>2 DEF SetFailed
<1>5. /\ rows'[b.event].attempts = rows[b.event].attempts + 1
      /\ rows'[b.event].status = IF b.attempts >= MaxAttempts THEN "DEAD_LETTER" ELSE "FAILED"
  BY <1>1, <1>2 DEF SetFailed, Row
<1>6. ASSUME NEW e \in Event, e # b.event PROVE WithinBudget(e)'
  <2>1. Calm(e) BY <1>3, <1>4, <1>6 DEF Calm, Settled
  <2>2. WithinBudget(e) BY DEF AttemptsInv, WithinBudget, Runs
  <2> QED BY <1>1, <2>1, <2>2, CalmKeeps DEF Calm
<1>7. WithinBudget(b.event)'
  <2>1. PICK e \in Event : e = b.event BY <1>2
  <2>2. \A x \in worker'[w].batch : x.event # e
    <3> SUFFICES ASSUME NEW x \in worker'[w].batch, x.event = e PROVE FALSE
      OBVIOUS
    <3>1. x \in worker[w].batch BY DEF LetsGo, BatchesShrink
    <3>2. x = b BY <1>1, <1>2, <2>1, <3>1 DEF OneItemEach
    <3> QED BY <3>2 DEF LetsGo
  <2>3. w \notin StaleRuns(e)' /\ w \notin FreshRuns(e)'
    BY <2>2 DEF StaleRuns, FreshRuns, Stale, Fresh
  <2>4. CASE b.attempts >= MaxAttempts
    <3>1. w \in FreshRuns(e) BY <1>2, <2>1, <2>4 DEF FreshRuns, Fresh
    <3>2. Settled(e)' BY <1>5, <2>1, <2>4 DEF Settled
    <3> QED BY <1>3, <1>5, <2>1, <2>3, <3>1, <3>2, FailedEvent
  <2>5. CASE ~(b.attempts >= MaxAttempts)
    <3>1. w \in StaleRuns(e) BY <1>2, <2>1, <2>5, OutboxAssumption DEF StaleRuns, Stale
    <3>2. ~Settled(e)' BY <1>5, <2>1, <2>5 DEF Settled
    <3> QED BY <1>3, <1>5, <2>1, <2>3, <3>1, <3>2, FailedEvent
  <2> QED BY <2>4, <2>5
<1> QED BY <1>3, <1>6, <1>7 DEF AttemptsInv, WithinBudget, Runs

\* AttemptsInv is inductive: what an event has spent and has still to come never grows, and
\* there is no more than its budget when it has had MaxAttempts.
THEOREM AttemptsInvariance == OutboxSpec => []AttemptsInv
<1>1. OutboxInit => AttemptsInv
  <2> SUFFICES ASSUME OutboxInit PROVE AttemptsInv
    OBVIOUS
  <2>1. OneItemEach BY DEF OneItemEach, OutboxInit
  <2>2. ASSUME NEW e \in Event PROVE WithinBudget(e)
    <3>1. rows[e].attempts = 0 /\ ~Settled(e) BY DEF OutboxInit, Settled
    <3>2. StaleRuns(e) = {} BY DEF OutboxInit, StaleRuns, Stale
    <3>3. Cardinality(StaleRuns(e)) = 0 BY <3>2, FS_EmptySet
    <3>4. PICK n \in Nat : n = Runs BY OutboxAssumption, FS_CardinalityType DEF Runs
    <3>5. OpenCost(0, n) <= 2 * (n * n) /\ OpenCost(0, n) \in Int /\ n * n \in Nat
      BY AllRevivals, RevivalsGrow
    <3>6. ToCome(e) = OpenCost(0, n) BY <3>1, <3>3, <3>4, ToComeIs
    <3> QED BY <3>1, <3>4, <3>5, <3>6, OutboxAssumption DEF WithinBudget
  <2> QED BY <2>1, <2>2 DEF AttemptsInv, WithinBudget, Runs
<1>2. OutboxInv /\ AttemptsInv /\ [OutboxNext]_outboxVars => AttemptsInv'
  <2> SUFFICES ASSUME OutboxInv, AttemptsInv, [OutboxNext]_outboxVars PROVE AttemptsInv'
    OBVIOUS
  <2>1. CASE NoneFails
    <3>1. /\ OneItemEach'
          /\ \A e \in Event : StaleRuns(e)' \subseteq StaleRuns(e)
                              /\ FreshRuns(e)' \subseteq FreshRuns(e)
      BY <2>1, NobodyReads DEF NoneFails, AttemptsInv
    <3>2. ASSUME NEW e \in Event PROVE WithinBudget(e)'
      <4>1. Calm(e) BY <2>1, <3>1 DEF NoneFails, Calm
      <4>2. WithinBudget(e) BY DEF AttemptsInv, WithinBudget, Runs
      <4> QED BY <4>1, <4>2, CalmKeeps DEF Calm, AttemptsInv, OutboxInv
    <3> QED BY <3>1, <3>2 DEF AttemptsInv, WithinBudget, Runs
  <2> QED BY <2>1, StepEffects, TickStaysWithin, FailureStaysWithin DEF OutboxInv
<1> QED BY <1>1, <1>2, OutboxInvariance, PTL DEF OutboxSpec

\* An event costs MaxAttempts attempts and at most the square of the number of workers more,
\* whatever stale counts they act on.
THEOREM AttemptsAreBounded == OutboxSpec => []AttemptsBounded
<1>1. OutboxInv /\ AttemptsInv => AttemptsBounded
  <2> SUFFICES ASSUME OutboxInv, AttemptsInv, NEW e \in Event
               PROVE  rows[e].attempts <= MaxAttempts + Runs * Runs
    BY DEF AttemptsBounded, Runs
  <2>1. PICK k \in Nat, f \in Nat, n \in Nat :
          /\ k = Cardinality(StaleRuns(e)) /\ f = Cardinality(FreshRuns(e)) /\ n = Runs
          /\ k + f <= n
    BY RunsCounted DEF AttemptsInv, OutboxInv
  <2>2. PICK a \in Nat : a = rows[e].attempts BY DEF OutboxInv, OutboxTypeOK, Row
  <2>3. MaxAttempts \in Nat /\ n * n \in Nat BY OutboxAssumption
  <2>4. CASE a < MaxAttempts BY <2>1, <2>2, <2>3, <2>4
  <2>5. CASE a >= MaxAttempts
    <3>1. Revivals(0, n) <= Revivals(k, n) /\ Revivals(k, n) \in Int /\ Revivals(0, n) = 0
      BY <2>1, RevivalsGrow DEF Revivals
    <3>2. ToCome(e) = IF Settled(e) THEN 2 * f + Revivals(k, n) ELSE 2 * (n - k) + Revivals(k, n)
      BY <2>1, ToComeIs DEF OpenCost
    <3>3. ToCome(e) >= 0 /\ ToCome(e) \in Int BY <2>1, <3>1, <3>2
    <3>4. 2 * a + ToCome(e) <= 2 * (MaxAttempts + n * n)
      BY <2>1, <2>2, <2>5 DEF AttemptsInv, Runs
    <3> QED BY <2>1, <2>2, <2>3, <3>3, <3>4
  <2> QED BY <2>2, <2>3, <2>4, <2>5
<1> QED BY <1>1, AttemptsInvariance, OutboxInvariance, PTL

=============================================================================
