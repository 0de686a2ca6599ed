CONSTANTS
  messages = messages
  derived = derived
  f1 = f1
  f2 = f2
  Process = {p1, p2}
  Store = {messages, derived}
  Messages = messages
  FileName = {f1, f2}
  File <- OneFileEach
  Id = {m1, m2, m3}
  LegacySeq = {1, 2, 4}
  None = None

SPECIFICATION Spec
SYMMETRY Symmetry

INVARIANTS
  TypeOK
  OpenedStoreHasTable
  VersionIsHonest
  OpenedLogIsDense

PROPERTY LogSurvives
