--------------------------- MODULE MCGitHubIngest ---------------------------
(* One repository with two numbers, the second a pull request, and one     *)
(* comment on the first.  A page holds one item, so that the second number *)
(* pushes the first one off it.                                            *)
EXTENDS GitHubIngest

Repository == <<"o", "n">>

MCArgs == {Repository, <<"o", "x">>, <<"o", "">>, <<"o", "n", "x">>}

MCId == {<<Repository, "issue", 1>>, <<Repository, "pull-request", 2>>}
          \cup {<<Repository, "comment", c>> : c \in CommentId}
MCConversation == {<<Repository, n>> : n \in 1..2}
MCPost == {[title |-> "t", text |-> "x"]}
MCBody == {<<x>> : x \in Text} \cup {<<"t", "x">>}
MCPasted == {[conversation |-> <<Repository, 2>>, body |-> <<"t", "x">>]}
MCIssueUrl == <<1>>

Symmetry == Permutations(Proc) \cup Permutations(Text)

=============================================================================
