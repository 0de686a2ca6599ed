CONSTANTS
  m1 = m1
  m2 = m2
  c1 = c1
  c2 = c2
  a1 = a1
  a2 = a2
  b1 = b1
  b2 = b2
  Process = {p1, p2}
  Version = {v1}
  EmptyVersion = {}
  Message = {m1, m2}
  Conversation = {c1, c2}
  Author = {a1, a2}
  Inputs <- Varied
  Body = {b1, b2}
  Topic = {t1}
  Topics <- SomeTopic
  Command = {"replay", "warmup", "verify", "work"}
  MayFail = {}
  QuietIngest = TRUE
  None = None

SPECIFICATION Spec
SYMMETRY Processes

INVARIANTS
  HitsStaleOnlyInExpertise
  RunRefreshes

PROPERTIES
  DivergenceHasCause
  PruneOnlyDead
