CONSTANTS
  Id <- MCId
  Conversation <- MCConversation
  Body <- MCBody
  NoPayload = NoPayload
  Proc = {p, q}
  Args <- MCArgs
  Hosted <- Repository
  Number = {1, 2}
  Pulls = {2}
  CommentId = {1}
  IssueUrl <- MCIssueUrl
  NoNumber = NoNumber
  Post <- MCPost
  Text = {x, y}
  NoTitle = NoTitle
  PageSize = 1
  MaxChanges = 1
  Pasted <- MCPasted

SPECIFICATION IngestSpec
SYMMETRY Symmetry

INVARIANTS
  TypeOK
  DenseSeq
  ReadsAgree
  IssueBeforeComments
  CompletedIngestIsCurrent

PROPERTIES
  ImplementsLog
