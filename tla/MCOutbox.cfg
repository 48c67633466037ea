\* Two instances over two events, three attempts, one crash.
SPECIFICATION OutboxSpec
CONSTANTS
  Event = {1, 2}
  Worker = {w1, w2}
  MaxAttempts = 3
  BatchSize = 2
  MaxCrashes = 1
\* Once every event is settled and no other is enqueued, nothing is due.
CHECK_DEADLOCK FALSE
SYMMETRY Symmetry
INVARIANTS
  PublishedWasHandled
  GivenUpLate
  AttemptsBounded
