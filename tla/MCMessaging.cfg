\* Every operation: two people, two handlers in flight over all instances.
SPECIFICATION MCSpec
CONSTANTS
  Person = {p1, p2}
  Call = {c1, c2}
  ConvId = {k1, k2}
  MsgId = {m1, m2}
  None = None
SYMMETRY Symmetry
INVARIANTS
  OnePerPair
  OneMessageWhilePending
  OneCreator
  ActiveIsStable
  OutboxAtomic
PROPERTIES
  HistoryIsKept
  ImplementsChannel
