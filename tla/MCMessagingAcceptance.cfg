\* A declined or cancelled request opens the conversation too.
SPECIFICATION MCSpec
CONSTANTS
  Person = {p1, p2}
  Call = {c1}
  ConvId = {k1}
  MsgId = {m1, m2}
  None = None
  Asker = p1
  Other = p2
  Opening = m1
INVARIANTS
  OpensOnlyByAcceptance
