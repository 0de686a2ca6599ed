CONSTANTS
  Process = {p, q}
  Writer = {p, q}
  Version = {v1, v2}
  Key = {m1}
  Message = {m1, m2, m3, m4}
  Projection = {x1, x2}
  None = None
  NoMessage = NoMessage
  Caps <- OneCap
  MaxUpserts = 4
  MaxReopens = 1
  MaxCommands = 3

SPECIFICATION InspectSpec
SYMMETRY Symmetry
CHECK_DEADLOCK FALSE

INVARIANTS
  RowsAreAnswers
  WritesOnce
  LatestInsertionsKept
  GrowthBounded
  JustWrittenKept
  TraceExplainsInspection

PROPERTY FrozenUnlessRaced
