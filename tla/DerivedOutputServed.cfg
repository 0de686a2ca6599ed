CONSTANTS
  m1 = m1
  m2 = m2
  c1 = c1
  c2 = c2
  a1 = a1
  a2 = a2
  b1 = b1
  b2 = b2
  Process = {p1}
  Version = {v1}
  EmptyVersion = {}
  Message = {m1}
  Conversation = {c1}
  Author = {a1, a2}
  Inputs <- Renamed
  Body = {b1, b2}
  Topic = {t1}
  Topics <- SharedTopic
  Command = {"replay", "warmup"}
  MayFail = {}
  QuietIngest = TRUE
  None = None

SPECIFICATION Spec

INVARIANT ServedEqualsReplay
