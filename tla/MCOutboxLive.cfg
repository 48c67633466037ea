\* One event per batch, so that a poisoned event delays the other.
SPECIFICATION OutboxFairSpec
CONSTANTS
  Event = {1, 2}
  Worker = {w1, w2}
  MaxAttempts = 1
  BatchSize = 1
  MaxCrashes = 1
CHECK_DEADLOCK FALSE
PROPERTIES
  EventuallySettled
