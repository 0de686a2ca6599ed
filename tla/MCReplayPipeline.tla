--------------------------- MODULE MCReplayPipeline ---------------------------
(* Two messages of two authors in one conversation and one in another; the *)
(* bodies share topics, so expertise crosses conversations, and mention    *)
(* one of them twice, without confidence, or with more than there is.      *)
EXTENDS ReplayPipeline

CONSTANTS m1, m2, m3, c1, c2, b1, b2, b3, auth, ci, sqlite, ask, decide

InConversation == [m \in Message |-> IF m = m3 THEN c2 ELSE c1]
ByAuthor == [m \in Message |-> IF m = m1 THEN 2 ELSE 1]

\* Topics are numbered by name: 1 is "auth", 2 is "ci".
Keywords == <<2, 1>>
Entities == <<sqlite>>
MCCues == <<[intent |-> "question", words |-> {ask}], [intent |-> "decision", words |-> {decide}]>>
Components == {auth, ci}
MCComponentFor == (1 :> auth)

\* The first body goes through the mock, the others through a model.
MCProjectionOf ==
  b1 :> MockProjection({1, 2, ask, decide})
  @@ b2 :> ParseProjection([intent |-> "task", topics |-> <<1, 1>>, entities |-> << >>,
                            confidence |-> 12])
  @@ b3 :> ParseProjection([intent |-> "social", topics |-> <<2>>, entities |-> << >>,
                            confidence |-> -1])

=============================================================================
