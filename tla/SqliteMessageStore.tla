------------------------- MODULE SqliteMessageStore -------------------------
(***************************************************************************)
(* The durable message log (mirrorlane-storage, sqlite_message_store.rs).  *)
(* The messages table is two functions on ids: seq, the row's sequence     *)
(* number, 0 when there is no row, and payload, the stored envelope.       *)
(*                                                                         *)
(* Every operation is one auto-committed SQL statement, and SQLite         *)
(* serialises the writers of a file, so one action per statement covers    *)
(* any number of processes and connections, and a crash between two        *)
(* statements loses nothing.                                               *)
(***************************************************************************)
EXTENDS Naturals, Sequences, Sorting

CONSTANTS Id, Conversation, Body,
          NoPayload   \* the payload of an id that has no row

ASSUME NoPayloadAssumption == NoPayload \notin [conversation : Conversation, body : Body]

VARIABLES seq, payload

vars == <<seq, payload>>

Envelope == [conversation : Conversation, body : Body]

Present == {i \in Id : seq[i] # 0}

TypeOK ==
  /\ seq \in [Id -> Nat]
  /\ payload \in [Id -> Envelope \cup {NoPayload}]
  /\ \A i \in Id : (seq[i] = 0) <=> (payload[i] = NoPayload)

\* A fresh file after open(): the table exists and is empty.
Init ==
  /\ seq = [i \in Id |-> 0]
  /\ payload = [i \in Id |-> NoPayload]

\* SELECT COALESCE(MAX(seq), 0) FROM messages
MaxSeq ==
  CHOOSE n \in {0} \cup {seq[i] : i \in Id} : \A i \in Id : seq[i] <= n

\* Mutant: MAX(seq) was read before a concurrent insert, so two rows share it.
AppendTies(id, e) ==
  /\ seq' = IF seq[id] # 0 THEN seq
            ELSE [seq EXCEPT ![id] = IF MaxSeq = 0 THEN 1 ELSE MaxSeq]
  /\ payload' = [payload EXCEPT ![id] = e]

\* Mutant: ON CONFLICT updates seq too.
AppendRenumbers(id, e) ==
  /\ seq' = [seq EXCEPT ![id] = MaxSeq + 1]
  /\ payload' = [payload EXCEPT ![id] = e]

\* Mutant: the insert leaves the payload to a second statement.
AppendSplit(id, e) ==
  /\ seq' = IF seq[id] # 0 THEN seq ELSE [seq EXCEPT ![id] = MaxSeq + 1]
  /\ payload' = IF seq[id] # 0 THEN [payload EXCEPT ![id] = e] ELSE payload

\* append: INSERT at MAX(seq) + 1; ON CONFLICT(id) only the payload is updated.
AppendMessage(id, e) ==
  /\ seq' = IF seq[id] # 0 THEN seq ELSE [seq EXCEPT ![id] = MaxSeq + 1]
  /\ payload' = [payload EXCEPT ![id] = e]

Next == \E id \in Id, e \in Envelope : AppendMessage(id, e)

Spec == Init /\ [][Next]_vars

-----------------------------------------------------------------------------
(* The SQL reads.                                                          *)

\* get: SELECT payload ... WHERE id = ?1
Get(id) == payload[id]

\* The ids of a set of rows, ORDER BY seq.
OrderBySeq(S) == Sorted(S, LAMBDA a, b : seq[a] < seq[b])

\* all: SELECT payload FROM messages ORDER BY seq
All == OrderBySeq(Present)

\* messages_for: the same, WHERE json_extract(payload, '$.conversation.id') = ?1
MessagesFor(c) == OrderBySeq({i \in Present : payload[i].conversation = c})

\* Mutant: ORDER BY MAX(seq).
ConversationIdsByLast ==
  LET Group(c) == {i \in Present : payload[i].conversation = c}
      MaxOf(c) == Max({seq[i] : i \in Group(c)})
  IN  Sorted({c \in Conversation : Group(c) # {}},
             LAMBDA c, d : MaxOf(c) < MaxOf(d))

\* conversation_ids: GROUP BY conversation ORDER BY MIN(seq)
ConversationIds ==
  LET Group(c) == {i \in Present : payload[i].conversation = c}
      MinSeq(c) == Min({seq[i] : i \in Group(c)})
  IN  Sorted({c \in Conversation : Group(c) # {}},
             LAMBDA c, d : MinSeq(c) < MinSeq(d))

-----------------------------------------------------------------------------
(* Properties.                                                             *)

(* Every message has a sequence number of its own and the numbers have no  *)
(* gap (spec.md "Concurrent appends never share a sequence number"): they  *)
(* are exactly 1..n for the n messages of the log.  This is what makes     *)
(* ORDER BY seq a total order, and it is inductive.                        *)
DenseSeq ==
  /\ MaxSeq \in Nat
  /\ \A i \in Id : seq[i] \in 0..MaxSeq
  /\ \A k \in 1..MaxSeq : \E i \in Id : seq[i] = k
  /\ \A i, j \in Present : seq[i] = seq[j] => i = j

\* The log this table stores: the k-th id is the one numbered k.
LogOrder == [k \in 1..MaxSeq |-> CHOOSE i \in Id : seq[i] = k]
LogById  == [i \in Present |-> payload[i]]

Log == INSTANCE MessageLog WITH order <- LogOrder, by_id <- LogById

(* The SQLite store implements the log its port promises: every statement  *)
(* that changes the table is an append of the abstract log, or stutters.   *)
ImplementsLog == Log!Spec

(* The specialised SQL reads answer what the port's default definitions    *)
(* over all() answer, also after a message was re-appended to another      *)
(* conversation: MIN(seq) of a group is its first-seen position.           *)
ReadsAgree ==
  /\ All = Log!All
  /\ ConversationIds = Log!ConversationIds
  /\ \A c \in Conversation : MessagesFor(c) = Log!MessagesFor(c)
  /\ \A i \in Id : Get(i) = Log!Get(i, NoPayload)

=============================================================================
