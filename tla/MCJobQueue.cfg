SPECIFICATION Spec
CONSTANTS
  Job = {j1, j2}
  p1 = p1
  Process = {p1, p2}
  Invocation <- MCInvocation
  Shell <- MCShell
  Strategies <- MCStrategies
  DefaultMaxDeliveries = 2
  DefaultDeadLetterMax = 1
  MaxAttempts = 2
  MaxRequeues = 1
  Unset = Unset
  Malformed = Malformed
  Invalid = Invalid
  None = None
INVARIANT AckedIsServed
INVARIANT RunsBounded
PROPERTY WorkEnds
