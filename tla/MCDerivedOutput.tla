--------------------------- MODULE MCDerivedOutput ---------------------------
(* Instances of DerivedOutput.  A body is a model value; every body speaks *)
(* of the one topic, so that any two projections share it, or only the     *)
(* first does, or none does, so that nothing reaches beyond a conversation. *)
EXTENDS DerivedOutput, TLC

CONSTANTS m1, m2, c1, c2, a1, a2, b1, b2

From(c, a, b) == [conversation |-> c, author |-> a, body |-> b]

\* Two messages that never change.
Fixed == Message \X {From(c1, a1, b1)}

\* One message changes its author.
Renamed == {m1} \X {From(c1, a1, b1), From(c1, a2, b1)}

\* One message changes its author, is edited, or moves to the other conversation.
Varied ==
  ({m1} \X {From(c1, a1, b1), From(c1, a2, b1), From(c1, a1, b2), From(c2, a1, b1)})
    \cup {<<m2, From(c1, a2, b1)>>}

SharedTopic == [b \in Body |-> Topic]
NoTopic == [b \in Body |-> {}]
SomeTopic == [b \in Body |-> IF b = b1 THEN Topic ELSE {}]

Processes == Permutations(Process)
=============================================================================
