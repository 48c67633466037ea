\* Walks of three conversations by pages of two while sends move them; two
\* invitations with a restart or a lost ack; two read receipts at once.
SPECIFICATION MCSpec
CONSTANTS
  Conv = {1, 2, 3}
  Limits = {1, 2}
  Millisecond = 2
  MaxTime = 4
  MaxWrites = 3
  MaxFaults = 1
  Receipt = {r1, r2}
  MaxSeq = 3
  MaxMoves = 2
  MaxInvites = 2
INVARIANTS
  ListedOnce
  WelcomeKept
  ToldIsStored
PROPERTIES
  EveryWelcomeDelivered
