----------------------------- MODULE MessageLog -----------------------------
(***************************************************************************)
(* The message log as its port promises it (mirrorlane-core,               *)
(* message_log.rs): an ordered list of ids and the envelope stored under   *)
(* each id.  This is trait MessageStore as InMemoryMessageStore implements *)
(* it; it is the abstract specification that the SQLite store refines.     *)
(***************************************************************************)
EXTENDS Naturals, Sequences, SequencesExt

CONSTANTS
  Id,            \* message ids
  Conversation,  \* conversation ids
  Body           \* message bodies; the author and the source are data no read here inspects

VARIABLES
  order,         \* Log.order: the ids, in append order
  by_id          \* Log.by_id: id -> envelope, for the ids that were appended

vars == <<order, by_id>>

Envelope == [conversation : Conversation, body : Body]

TypeOK ==
  /\ order \in Seq(Id)
  /\ DOMAIN by_id \subseteq Id
  /\ \A i \in DOMAIN by_id : by_id[i] \in Envelope

Init ==
  /\ order = << >>
  /\ by_id = [i \in {} |-> i]

\* append: a new id goes to the end of the order, a known one keeps its place;
\* either way the envelope is replaced.
AppendMessage(id, e) ==
  /\ order' = IF id \in DOMAIN by_id THEN order ELSE Append(order, id)
  /\ by_id' = [i \in DOMAIN by_id \cup {id} |-> IF i = id THEN e ELSE by_id[i]]

Next == \E id \in Id, e \in Envelope : AppendMessage(id, e)

Spec == Init /\ [][Next]_vars

-----------------------------------------------------------------------------
(* The reads of the port, with their default definitions over all().       *)

\* get: the envelope stored under id, or None.
Get(id, None) == IF id \in DOMAIN by_id THEN by_id[id] ELSE None

\* all: the ids in append order (each with by_id[i] as its envelope).
All == order

\* messages_for: all(), filtered.
MessagesFor(c) ==
  FoldLeft(LAMBDA kept, i : IF by_id[i].conversation = c THEN Append(kept, i) ELSE kept,
           << >>, All)

\* conversation_ids: walk all(), pushing a conversation the first time it is seen.
ConversationIds ==
  FoldLeft(LAMBDA seen, i :
             IF Contains(seen, by_id[i].conversation) THEN seen
             ELSE Append(seen, by_id[i].conversation),
           << >>, All)

-----------------------------------------------------------------------------
(* Properties.                                                             *)

(* The log accounts for each message exactly once (message_log.rs:10-11):  *)
(* no id occurs twice in the order, and the ids in the order are exactly   *)
(* the ids that have an envelope.                                          *)
ExactlyOnce ==
  /\ \A j, k \in 1..Len(order) : order[j] = order[k] => j = k
  /\ {order[k] : k \in 1..Len(order)} = DOMAIN by_id

(* The log is append-only: a step never removes or moves a message, so a   *)
(* read that happened earlier saw a prefix of what a later read sees.      *)
AppendOnly ==
  [][ /\ Len(order) <= Len(order')
      /\ SubSeq(order', 1, Len(order)) = order ]_vars

=============================================================================
