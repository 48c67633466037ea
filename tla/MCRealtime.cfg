\* One client with two sockets, so that an old and a new connection overlap;
\* messages it received and messages the person sent from elsewhere; pages of
\* one row; one fault.  Once both sockets are used up and every message was the
\* person's own there is nothing left to do, so the instance may stop.
SPECIFICATION RealtimeFairSpec
CHECK_DEADLOCK FALSE
CONSTANTS
  Client = {c1}
  Socket = {s1, s2}
  Instance = {i1}
  SyncLimit = 1
  MaxMessages = 2
  MaxFaults = 1
INVARIANTS
  EveryLiveSocketIsFound
  NothingMissed
  NoHoles
PROPERTIES
  CatchesUp
