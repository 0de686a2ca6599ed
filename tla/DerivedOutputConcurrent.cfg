CONSTANTS
  m1 = m1
  m2 = m2
  c1 = c1
  c2 = c2
  a1 = a1
  a2 = a2
  b1 = b1
  b2 = b2
  Process = {p1, p2}
  Version = {v1, v0}
  EmptyVersion = {v0}
  Message = {m1, m2}
  Conversation = {c1}
  Author = {a1}
  Inputs <- Fixed
  Body = {b1, b2}
  Topic = {t1}
  Topics <- NoTopic
  Command = {"replay", "warmup", "verify", "work"}
  MayFail = {m1}
  QuietIngest = FALSE
  None = None

SPECIFICATION Spec
SYMMETRY Processes

INVARIANTS
  TypeOK
  RowsWellKeyed
  RowBound
  NoSilentGap
