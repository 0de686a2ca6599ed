CONSTANTS
  m1 = m1
  m2 = m2
  m3 = m3
  c1 = c1
  c2 = c2
  b1 = b1
  b2 = b2
  b3 = b3
  auth = auth
  ci = ci
  sqlite = sqlite
  ask = ask
  decide = decide
  Message = {m1, m2, m3}
  Conversation = {c1, c2}
  Author = {1, 2}
  Body = {b1, b2, b3}
  ConvOf <- InConversation
  AuthorOf <- ByAuthor
  ProjectionOf <- MCProjectionOf
  TopicKeywords <- Keywords
  EntityKeywords <- Entities
  Cues <- MCCues
  Catalog <- Components
  ComponentFor <- MCComponentFor
  MayFail = {m2}
  MaxAttempts = 2
  None = None

SPECIFICATION FairSpec

INVARIANTS
  GapsWereRetried
  RankedByInvolvement
  HintsAgree

PROPERTIES
  ImplementsRun
  Terminates
