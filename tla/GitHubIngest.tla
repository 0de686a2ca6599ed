---------------------------- MODULE GitHubIngest ----------------------------
(***************************************************************************)
(* `mirrorlane github` (mirrorlane-github rest.rs, source.rs and model.rs; *)
(* commands.rs github_ingest_rest) on top of the durable message log.      *)
(*                                                                         *)
(* Processes fetch the first page of a repository's issues, then the first *)
(* page of its comments, and append one message per item.  The repository  *)
(* changes at any time, between the two requests too; a request may fail;  *)
(* a process may be killed at any statement; `mirrorlane ingest` appends   *)
(* messages by hand, under the id of an item too.  What GitHub does is     *)
(* modelled as this code uses it: numbers are given out in order, issues   *)
(* are listed newest first and comments oldest first, and deleting an      *)
(* issue deletes its comments.                                             *)
(***************************************************************************)
EXTENDS SqliteMessageStore, FiniteSets

CONSTANTS
  Proc,        \* processes that run the command
  Args,        \* the --repo arguments, split at "/"
  Hosted,      \* the repository the server has
  Number,      \* issue and pull request numbers, 1..n
  Pulls,       \* those numbers that are pull requests
  CommentId,   \* comment ids, 1..n
  IssueUrl,    \* comment id -> the number its issue_url ends with, or NoNumber
  NoNumber,
  Post,        \* [title, text] of an issue
  Text,        \* texts of a comment
  NoTitle,     \* a title that is null
  PageSize,    \* per_page
  MaxChanges,  \* bound: edits and deletions on the server
  Pasted       \* the envelopes that `mirrorlane ingest` reads

VARIABLES
  issues,      \* number -> [title, text], for the issues that exist now
  comments,    \* comment id -> text, for the comments that exist now
  changes,     \* the edits and deletions so far
  used,        \* <<numbers, comment ids>> given out so far: none is used again
  proc,        \* process -> its place in the command
  straddled    \* history: the numbers opened between two requests of a process, or
               \* pushed off the first page of issues, or commented by hand

repoVars == <<issues, comments, changes, used>>
ingestVars == <<seq, payload, repoVars, proc, straddled>>

-----------------------------------------------------------------------------
(* Items and messages.                                                     *)

NoRepo == << >>

\* parse_repo: exactly two segments, both of them non-empty.
ParseRepo(arg) ==
  IF Len(arg) = 2 /\ arg[1] # "" /\ arg[2] # "" THEN arg ELSE NoRepo

\* number_from_issue_url: the last segment, 0 when it is no number.
NumberFromIssueUrl(c) == IF IssueUrl[c] = NoNumber THEN 0 ELSE IssueUrl[c]

\* One entry of the issues response: a pull request when it has pull_request.
IssueItem(n, post) ==
  [kind |-> IF n \in Pulls THEN "pull-request" ELSE "issue", number |-> n, id |-> n,
   title |-> post.title, text |-> post.text]

CommentItem(c, text) ==
  [kind |-> "comment", number |-> NumberFromIssueUrl(c), id |-> c,
   title |-> NoTitle, text |-> text]

Item == {IssueItem(n, post) : n \in Number, post \in Post}
          \cup {CommentItem(c, text) : c \in CommentId, text \in Text}

\* to_message: the id, stable under edits, ...
MessageId(item) == <<Hosted, item.kind, item.id>>

\* ... and the conversation of the issue, with the title before the text.
ToMessage(item) ==
  [conversation |-> <<Hosted, item.number>>,
   body |-> IF item.kind = "comment" \/ item.title = NoTitle THEN <<item.text>>
            ELSE <<item.title, item.text>>]

ASSUME IngestAssumption ==
  /\ IsFiniteSet(Number) /\ IsFiniteSet(CommentId)
  /\ Number \subseteq Nat /\ CommentId \subseteq Nat
  /\ \A item \in Item : MessageId(item) \in Id /\ ToMessage(item) \in Envelope
  /\ Pasted \subseteq Envelope
  /\ PageSize \in Nat /\ Text # {}

\* The first page of issues, newest first, and of comments, oldest first.
Newest == {n \in DOMAIN issues : Cardinality({m \in DOMAIN issues : m > n}) < PageSize}
Oldest == {c \in DOMAIN comments : Cardinality({d \in DOMAIN comments : d < c}) < PageSize}

Descending(S) == {s \in [1..Cardinality(S) -> S] : \A j, k \in DOMAIN s : j < k => s[j] > s[k]}
Ascending(S)  == {s \in [1..Cardinality(S) -> S] : \A j, k \in DOMAIN s : j < k => s[j] < s[k]}

IssuePages ==
  {[k \in DOMAIN s |-> IssueItem(s[k], issues[s[k]])] : s \in Descending(Newest)}
CommentPages ==
  {[k \in DOMAIN s |-> CommentItem(s[k], comments[s[k]])] : s \in Ascending(Oldest)}

OffPage == DOMAIN issues \ Newest

-----------------------------------------------------------------------------
(* The repository.                                                         *)

\* Any change is seen by the processes that are running a command.
Disturbed(S) == [p \in Proc |-> IF p \in S THEN [proc[p] EXCEPT !.quiet = FALSE] ELSE proc[p]]

RepoChanges == proc' = Disturbed(Proc) /\ UNCHANGED vars

Open(n, post) ==
  /\ n \notin used[1] /\ \A m \in Number : m < n => m \in used[1]
  /\ issues' = [m \in DOMAIN issues \cup {n} |-> IF m = n THEN post ELSE issues[m]]
  /\ used' = <<used[1] \cup {n}, used[2]>>
  /\ straddled' = straddled \cup OffPage'
                   \cup (IF \E p \in Proc : proc[p].pc = "comments" THEN {n} ELSE {})
  /\ UNCHANGED <<comments, changes>> /\ RepoChanges

Comment(c, text) ==
  /\ c \notin used[2] /\ \A d \in CommentId : d < c => d \in used[2]
  /\ IssueUrl[c] \in DOMAIN issues \cup {NoNumber}
  /\ comments' = [d \in DOMAIN comments \cup {c} |-> IF d = c THEN text ELSE comments[d]]
  /\ used' = <<used[1], used[2] \cup {c}>>
  /\ UNCHANGED <<issues, changes, straddled>> /\ RepoChanges

Edit ==
  /\ changes < MaxChanges /\ changes' = changes + 1
  /\ \/ /\ \E n \in DOMAIN issues, post \in Post : issues' = [issues EXCEPT ![n] = post]
        /\ UNCHANGED comments
     \/ /\ \E c \in DOMAIN comments, text \in Text : comments' = [comments EXCEPT ![c] = text]
        /\ UNCHANGED issues
  /\ UNCHANGED <<used, straddled>> /\ RepoChanges

Delete ==
  /\ changes < MaxChanges /\ changes' = changes + 1
  /\ \/ \E c \in DOMAIN comments :
          comments' = Restrict(comments, DOMAIN comments \ {c}) /\ UNCHANGED issues
     \/ \E n \in DOMAIN issues :
          /\ issues' = Restrict(issues, DOMAIN issues \ {n})
          /\ comments' = Restrict(comments, {c \in DOMAIN comments : IssueUrl[c] # n})
  /\ UNCHANGED <<used, straddled>> /\ RepoChanges

-----------------------------------------------------------------------------
(* The command.                                                            *)

Idle == [pc |-> "idle", items |-> << >>, quiet |-> TRUE]

ProcType == [pc : {"idle", "issues", "comments", "append"}, items : Seq(Item), quiet : BOOLEAN]

IngestTypeOK ==
  /\ DOMAIN issues \subseteq Number /\ \A n \in DOMAIN issues : issues[n] \in Post
  /\ DOMAIN comments \subseteq CommentId /\ \A c \in DOMAIN comments : comments[c] \in Text
  /\ proc \in [Proc -> ProcType]

IngestInit ==
  /\ Init
  /\ issues = [n \in {} |-> n] /\ comments = [c \in {} |-> c]
  /\ changes = 0 /\ used = <<{}, {}>>
  /\ proc = [p \in Proc |-> Idle]
  /\ straddled = {}

At(p, pc) == proc[p].pc = pc

Quietly == UNCHANGED <<vars, repoVars, straddled>>

\* parse_repo first: an invalid argument ends the command, and so does a
\* repository the server does not have.
Start(p) ==
  /\ At(p, "idle")
  /\ \E arg \in Args : ParseRepo(arg) = Hosted
  /\ proc' = [proc EXCEPT ![p] = [Idle EXCEPT !.pc = "issues"]]
  /\ Quietly

\* GET issues
FetchIssues(p) ==
  /\ At(p, "issues")
  /\ \E page \in IssuePages :
       proc' = [proc EXCEPT ![p].pc = "comments", ![p].items = page]
  /\ Quietly

\* Mutant: the comments go before the issues.
CommentsFirst(p) ==
  /\ At(p, "comments")
  /\ \E page \in CommentPages :
       proc' = [proc EXCEPT ![p].pc = "append", ![p].items = page \o @]
  /\ Quietly

\* GET issues/comments; the vector of items is complete.
FetchComments(p) ==
  /\ At(p, "comments")
  /\ \E page \in CommentPages :
       proc' = [proc EXCEPT ![p].pc = "append", ![p].items = @ \o page]
  /\ Quietly

\* Transport, status, read or parse error of either request: the ? of try_fetch.
FetchFails(p) ==
  /\ proc[p].pc \in {"issues", "comments"}
  /\ proc' = [proc EXCEPT ![p] = Idle]
  /\ Quietly

\* Mutant: INSERT OR IGNORE semantics, a known item is passed over.
AppendNewOnly(p) ==
  /\ At(p, "append") /\ proc[p].items # << >>
  /\ LET item == Head(proc[p].items)
     IN  IF seq[MessageId(item)] = 0 THEN AppendMessage(MessageId(item), ToMessage(item))
         ELSE UNCHANGED vars
  /\ proc' = [Disturbed(Proc \ {p}) EXCEPT ![p].items = Tail(@)]
  /\ UNCHANGED <<repoVars, straddled>>

\* ingest_items: map the next item and append its message.
AppendItem(p) ==
  /\ At(p, "append") /\ proc[p].items # << >>
  /\ LET item == Head(proc[p].items) IN AppendMessage(MessageId(item), ToMessage(item))
  /\ proc' = [Disturbed(Proc \ {p}) EXCEPT ![p].items = Tail(@)]
  /\ UNCHANGED <<repoVars, straddled>>

\* The end of the process, or a kill at any statement.
Exit(p) ==
  /\ ~At(p, "idle")
  /\ proc' = [proc EXCEPT ![p] = Idle]
  /\ Quietly

\* `mirrorlane ingest`: the id and the envelope are as they are pasted.
Ingest(id, e) ==
  /\ AppendMessage(id, e)
  /\ proc' = IF id \in {MessageId(item) : item \in Item} THEN Disturbed(Proc) ELSE proc
  /\ straddled' = straddled \cup
       {IssueUrl[c] : c \in {d \in CommentId : id = <<Hosted, "comment", d>> /\ seq[id] = 0}}
  /\ UNCHANGED repoVars

RepoStep ==
  \/ \E n \in Number, post \in Post : Open(n, post)
  \/ \E c \in CommentId, text \in Text : Comment(c, text)
  \/ Edit \/ Delete

IngestNext ==
  \/ RepoStep
  \/ \E p \in Proc : \/ Start(p) \/ FetchIssues(p) \/ FetchComments(p) \/ FetchFails(p)
                     \/ AppendItem(p) \/ Exit(p)
  \/ \E id \in Id, e \in Pasted : Ingest(id, e)

IngestSpec == IngestInit /\ [][IngestNext]_ingestVars

-----------------------------------------------------------------------------
(* Properties.                                                             *)

(* An ingest that completed while the repository stayed as it was and      *)
(* nobody else appended under an item's id leaves in the log the message of every item  *)
(* on the two first pages, with its current text - whatever earlier, killed *)
(* or overlapping ingests of the same items left there.  This is the       *)
(* convergence that source.rs:41-44 calls idempotent.                      *)
CompletedIngestIsCurrent ==
  \A p \in Proc : At(p, "append") /\ proc[p].items = << >> /\ proc[p].quiet =>
    \A page \in IssuePages \cup CommentPages : \A k \in DOMAIN page :
      payload[MessageId(page[k])] = ToMessage(page[k])

(* A comment is in the log only after its issue or pull request, so a      *)
(* conversation starts with the message that opened it, also when ingests  *)
(* are killed, fail or overlap - unless the issue was opened between the   *)
(* two requests of some ingest (rest.rs:144 and 168), or was pushed off    *)
(* the one page of issues that is fetched, or a comment of it was first    *)
(* ingested by hand.                                                       *)
IssueBeforeComments ==
  \A c \in CommentId : LET id == <<Hosted, "comment", c>>
                           n == IssueUrl[c]
                       IN  seq[id] # 0 /\ n # NoNumber /\ n \notin straddled =>
    \E kind \in {"issue", "pull-request"} :
      LET opening == <<Hosted, kind, n>>
      IN  opening \in Id /\ seq[opening] \in 1..seq[id]

=============================================================================
