CONSTANTS
  messages = messages
  derived = derived
  f1 = f1
  f2 = f2
  Process = {p1}
  Store = {messages, derived}
  Messages = messages
  FileName = {f1, f2}
  File <- OneFile
  Id = {m1}
  LegacySeq = {1}
  None = None

SPECIFICATION Spec

INVARIANT OpenedStoreHasTable
