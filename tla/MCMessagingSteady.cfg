\* The life of one conversation: a third person who is no member, two
\* client message ids, so that a log grows and a key can be reused.  Every call
\* ends, whatever it contends with.
SPECIFICATION MCSpec
CONSTANTS
  Person = {p1, p2, p3}
  Call = {c1, c2}
  ConvId = {k1}
  MsgId = {m1, m2}
  None = None
  Asker = p1
  Other = p2
  Opening = m1
INVARIANTS
  GaplessSequence
  ExactlyOnce
  RepliesAreDurable
PROPERTIES
  DecidedOnce
  EveryCallEnds
