------------------------- MODULE GitHubIngestProofs -------------------------
(***************************************************************************)
(* The durable message log implements the log its port promises, for any   *)
(* sets of ids, conversations and bodies, and ingesting a repository from  *)
(* GitHub keeps that promise and two more.                                 *)
(*                                                                         *)
(* The store.  The inductive invariant names the length of the log: the    *)
(* sequence numbers are exactly 1..n, each used once.  MaxSeq is that n,   *)
(* so an append takes the first free number, and reading the rows in the   *)
(* order of their numbers gives the abstract log.                          *)
(*                                                                         *)
(* The command.  Whatever GitHub answers, the items a process holds are    *)
(* well formed (IngestTypeOK), so every step of the composed system is an  *)
(* append to the store or leaves its table alone.  What a process has      *)
(* still to append then says both that openings go before their comments   *)
(* (OrderInv) and what an undisturbed run leaves behind (CurrentInv).      *)
(***************************************************************************)
EXTENDS GitHubIngest, DataProofs

-----------------------------------------------------------------------------
(* The port (message_log.rs): what the abstract log promises its readers,  *)
(* for any ids and envelopes.  The store implements this log, so it keeps  *)
(* these promises too.                                                     *)

VARIABLES order, by_id

Port == INSTANCE MessageLog

PortInv == Port!TypeOK /\ Port!ExactlyOnce

(* An append keeps each id in the order exactly once, with its envelope,   *)
(* and every earlier id in its place.                                      *)
LEMMA PortKeeps ==
  ASSUME PortInv, NEW id \in Id, NEW e \in Port!Envelope, Port!AppendMessage(id, e)
  PROVE  PortInv' /\ Len(order) <= Len(order') /\ SubSeq(order', 1, Len(order)) = order
<1>1. /\ order \in Seq(Id)
      /\ \A j, k \in 1..Len(order) : order[j] = order[k] => j = k
      /\ \A k \in 1..Len(order) : order[k] \in DOMAIN by_id
      /\ \A i \in DOMAIN by_id : \E k \in 1..Len(order) : order[k] = i
  BY DEF PortInv, Port!TypeOK, Port!ExactlyOnce
<1>2. /\ DOMAIN by_id' = DOMAIN by_id \cup {id}
      /\ DOMAIN by_id' \subseteq Id
      /\ \A i \in DOMAIN by_id' : by_id'[i] \in Port!Envelope
  BY DEF PortInv, Port!TypeOK, Port!AppendMessage
<1>3. CASE id \in DOMAIN by_id
  <2>1. order' = order /\ DOMAIN by_id' = DOMAIN by_id
    BY <1>2, <1>3 DEF Port!AppendMessage
  <2>2. SubSeq(order, 1, Len(order)) = order
    BY <1>1
  <2>3. Port!TypeOK'
    BY <1>1, <1>2, <2>1 DEF Port!TypeOK
  <2>4. Port!ExactlyOnce'
    BY <2>1 DEF PortInv, Port!ExactlyOnce
  <2>5. Len(order) <= Len(order') /\ SubSeq(order', 1, Len(order)) = order
    BY <1>1, <2>1, <2>2
  <2> QED
    BY <2>3, <2>4, <2>5 DEF PortInv
<1>4. CASE id \notin DOMAIN by_id
  <2>1. order' = Append(order, id)
    BY <1>4 DEF Port!AppendMessage
  <2>2. /\ order' \in Seq(Id) /\ Len(order') = Len(order) + 1
        /\ \A k \in 1..Len(order) : order'[k] = order[k]
        /\ order'[Len(order) + 1] = id
    BY <1>1, <2>1
  <2>3. SubSeq(order', 1, Len(order)) = order
    BY <1>1, <2>1, <2>2
  <2>4. \A j, k \in 1..Len(order') : order'[j] = order'[k] => j = k
    <3>1. \A k \in 1..Len(order') : k = Len(order) + 1 \/ k \in 1..Len(order)
      BY <1>1, <2>2
    <3>2. \A k \in 1..Len(order) : order'[k] # id /\ order'[k] = order[k]
      BY <1>1, <1>4, <2>2
    <3> QED
      BY <1>1, <2>2, <3>1, <3>2
  <2>5. {order'[k] : k \in 1..Len(order')} = DOMAIN by_id'
    <3>1. \A k \in 1..Len(order') : order'[k] \in DOMAIN by_id'
      <4>1. \A k \in 1..Len(order') : k = Len(order) + 1 \/ k \in 1..Len(order)
        BY <1>1, <2>2
      <4>2. \A k \in 1..Len(order) : order'[k] \in DOMAIN by_id
        BY <1>1, <2>2
      <4> QED
        BY <1>2, <2>2, <4>1, <4>2
    <3>2. ASSUME NEW i \in DOMAIN by_id' PROVE \E k \in 1..Len(order') : order'[k] = i
      <4>1. CASE i = id
        <5>1. Len(order) + 1 \in 1..Len(order')
          BY <1>1, <2>2
        <5> QED
          BY <2>2, <4>1, <5>1
      <4>2. CASE i # id
        <5>1. PICK k \in 1..Len(order) : order[k] = i
          BY <1>1, <1>2, <3>2, <4>2
        <5>2. k \in 1..Len(order') /\ order'[k] = i
          BY <1>1, <2>2, <5>1
        <5> QED
          BY <5>2
      <4> QED
        BY <4>1, <4>2
    <3> QED
      BY <3>1, <3>2
  <2> QED
    BY <1>1, <1>2, <2>2, <2>3, <2>4, <2>5 DEF PortInv, Port!TypeOK, Port!ExactlyOnce
<1> QED
  BY <1>3, <1>4

(* The log accounts for each message exactly once, whatever is appended    *)
(* again or edited (message_log.rs:10-11).                                 *)
THEOREM EachMessageOnce == Port!Spec => []Port!ExactlyOnce
<1>1. Port!Init => PortInv
  BY DEF Port!Init, PortInv, Port!TypeOK, Port!ExactlyOnce
<1>2. PortInv /\ [Port!Next]_(Port!vars) => PortInv'
  <2> SUFFICES ASSUME PortInv, [Port!Next]_(Port!vars) PROVE PortInv'
    OBVIOUS
  <2>1. CASE Port!Next
    BY <2>1, PortKeeps DEF Port!Next
  <2>2. CASE UNCHANGED Port!vars
    BY <2>2 DEF Port!vars, PortInv, Port!TypeOK, Port!ExactlyOnce
  <2> QED
    BY <2>1, <2>2
<1>3. PortInv => Port!ExactlyOnce
  BY DEF PortInv
<1> QED
  BY <1>1, <1>2, <1>3, PTL DEF Port!Spec

(* A message never moves or disappears, so what a reader saw is a prefix   *)
(* of what any later reader sees.                                          *)
THEOREM EarlierReadsArePrefixes == Port!Spec => Port!AppendOnly
<1>1. Port!Init => PortInv
  BY DEF Port!Init, PortInv, Port!TypeOK, Port!ExactlyOnce
<1>2. PortInv /\ [Port!Next]_(Port!vars)
        => PortInv' /\ [Len(order) <= Len(order') /\ SubSeq(order', 1, Len(order)) = order]_(Port!vars)
  <2> SUFFICES ASSUME PortInv, [Port!Next]_(Port!vars)
               PROVE  PortInv' /\ [/\ Len(order) <= Len(order')
                                /\ SubSeq(order', 1, Len(order)) = order]_(Port!vars)
    OBVIOUS
  <2>1. CASE Port!Next
    BY <2>1, PortKeeps DEF Port!Next
  <2>2. CASE UNCHANGED Port!vars
    BY <2>2 DEF Port!vars, PortInv, Port!TypeOK, Port!ExactlyOnce
  <2> QED
    BY <2>1, <2>2
<1> QED
  BY <1>1, <1>2, PTL DEF Port!Spec, Port!AppendOnly

-----------------------------------------------------------------------------
(* The store: types and numbers (sqlite_message_store.rs).                 *)

\* The sequence numbers in use are 1..n, each for one id.
Numbered(n) ==
  /\ \A i \in Id : seq[i] \in 0..n
  /\ \A k \in 1..n : \E i \in Id : seq[i] = k
  /\ \A i, j \in Present : seq[i] = seq[j] => i = j

IInv == TypeOK /\ \E n \in Nat : Numbered(n)

\* SELECT COALESCE(MAX(seq), 0) is the length of the log.
LEMMA MaxSeqIsLength ==
  ASSUME NEW n \in Nat, seq \in [Id -> Nat], Numbered(n)
  PROVE  MaxSeq = n
<1> DEFINE Max0(x) == x \in {0} \cup {seq[i] : i \in Id} /\ \A i \in Id : seq[i] <= x
<1>1. Max0(n)
  BY DEF Numbered
<1>2. ASSUME NEW x, Max0(x) PROVE x = n
  <2>1. x \in 0..n
    BY <1>2 DEF Numbered
  <2>2. CASE n = 0
    BY <2>1, <2>2
  <2>3. CASE n # 0
    <3>1. PICK i \in Id : seq[i] = n
      BY <2>3 DEF Numbered
    <3> QED
      BY <3>1, <2>1, <1>2
  <2> QED
    BY <2>2, <2>3
<1>3. MaxSeq = CHOOSE x : Max0(x)
  BY DEF MaxSeq
<1> HIDE DEF Max0
<1> QED
  BY <1>1, <1>2, <1>3

\* The append statement keeps the rows typed and densely numbered.
LEMMA AppendKeepsIInv ==
  ASSUME IInv, NEW id \in Id, NEW e \in Envelope, AppendMessage(id, e)
  PROVE  IInv'
<1>1. PICK n \in Nat : Numbered(n)
  BY DEF IInv
<1>2. MaxSeq = n
  BY <1>1, MaxSeqIsLength DEF IInv, TypeOK
<1>3. CASE seq[id] # 0
  <2>1. seq' = seq /\ payload' = [payload EXCEPT ![id] = e]
    BY <1>3 DEF AppendMessage
  <2>2. TypeOK'
    BY <1>3, <2>1, NoPayloadAssumption DEF IInv, TypeOK, Envelope, NoPayloadAssumption
  <2>3. Numbered(n)'
    BY <1>1, <2>1 DEF Numbered, Present
  <2> QED
    BY <2>2, <2>3 DEF IInv
<1>4. CASE seq[id] = 0
  <2>1. seq' = [seq EXCEPT ![id] = n + 1] /\ payload' = [payload EXCEPT ![id] = e]
    BY <1>2, <1>4 DEF AppendMessage
  <2>2. TypeOK'
    BY <2>1, NoPayloadAssumption DEF IInv, TypeOK, Envelope, NoPayloadAssumption
  <2>3. Numbered(n + 1)'
    <3> USE DEF IInv, TypeOK
    <3>1. \A i \in Id : seq'[i] \in 0..n+1
      BY <1>1, <2>1 DEF Numbered
    <3>2. \A k \in 1..n+1 : \E i \in Id : seq'[i] = k
      <4> SUFFICES ASSUME NEW k \in 1..n+1 PROVE \E i \in Id : seq'[i] = k
        OBVIOUS
      <4>1. CASE k = n + 1
        BY <4>1, <2>1
      <4>2. CASE k \in 1..n
        <5>1. PICK i \in Id : seq[i] = k
          BY <4>2, <1>1 DEF Numbered
        <5> QED
          BY <5>1, <4>2, <1>4, <2>1
      <4> QED
        BY <4>1, <4>2
    <3>3. \A i, j \in Present' : seq'[i] = seq'[j] => i = j
      BY <1>1, <1>4, <2>1 DEF Numbered, Present
    <3> QED
      BY <3>1, <3>2, <3>3 DEF Numbered
  <2> QED
    BY <2>2, <2>3 DEF IInv
<1> QED
  BY <1>3, <1>4

LEMMA Invariance == Spec => []IInv
<1>1. Init => IInv
  <2> SUFFICES ASSUME Init PROVE IInv
    OBVIOUS
  <2>1. TypeOK
    BY DEF Init, TypeOK
  <2>2. Numbered(0)
    BY DEF Init, Numbered, Present
  <2> QED
    BY <2>1, <2>2 DEF IInv
<1>2. IInv /\ [Next]_vars => IInv'
  <2> SUFFICES ASSUME IInv, [Next]_vars PROVE IInv'
    OBVIOUS
  <2>1. CASE Next
    BY <2>1, AppendKeepsIInv DEF Next
  <2>2. CASE UNCHANGED vars
    BY <2>2 DEF vars, IInv, TypeOK, Numbered, Present
  <2> QED
    BY <2>1, <2>2
<1> QED
  BY <1>1, <1>2, PTL DEF Spec

(* Every row has a sequence number and a payload, or neither               *)
(* (sqlite_message_store.rs append writes both in one statement).          *)
THEOREM TypeCorrect == Spec => []TypeOK
<1>1. IInv => TypeOK
  BY DEF IInv
<1> QED
  BY <1>1, Invariance, PTL

(* Appends never share a sequence number and leave no gap (spec.md         *)
(* "Concurrent appends never share a sequence number").                    *)
THEOREM SeqStaysDense == Spec => []DenseSeq
<1>1. IInv => DenseSeq
  <2> SUFFICES ASSUME IInv PROVE DenseSeq
    OBVIOUS
  <2>1. PICK n \in Nat : Numbered(n)
    BY DEF IInv
  <2>2. MaxSeq = n
    BY <2>1, MaxSeqIsLength DEF IInv, TypeOK
  <2> QED
    BY <2>1, <2>2 DEF DenseSeq, Numbered
<1> QED
  BY <1>1, Invariance, PTL

-----------------------------------------------------------------------------
(* Refinement.                                                             *)

\* The rows in the order of their numbers are a sequence of ids: its k-th
\* element is the id numbered k.
LEMMA LogOrderIsSeq ==
  ASSUME TypeOK, NEW n \in Nat, Numbered(n)
  PROVE  /\ LogOrder \in Seq(Id)
         /\ Len(LogOrder) = n
         /\ \A k \in 1..n : LogOrder[k] \in Id /\ seq[LogOrder[k]] = k
<1>1. MaxSeq = n
  BY MaxSeqIsLength DEF TypeOK
<1>2. LogOrder = [k \in 1..n |-> CHOOSE i \in Id : seq[i] = k]
  BY <1>1 DEF LogOrder
<1>3. \A k \in 1..n : LogOrder[k] \in Id /\ seq[LogOrder[k]] = k
  BY <1>2 DEF Numbered
<1>4. LogOrder \in [1..n -> Id]
  BY <1>2, <1>3
<1> QED
  BY <1>3, <1>4

\* The same fact, as a formula that also holds of the next state.
OrderFact ==
  \A n \in Nat : Numbered(n) =>
    /\ MaxSeq = n
    /\ LogOrder \in Seq(Id)
    /\ Len(LogOrder) = n
    /\ \A k \in 1..n : LogOrder[k] \in Id /\ seq[LogOrder[k]] = k

LEMMA InitRefines == Init => Log!Init
<1> SUFFICES ASSUME Init PROVE Log!Init
  OBVIOUS
<1>1. TypeOK /\ Numbered(0)
  BY DEF Init, TypeOK, Numbered, Present
<1>2. LogOrder = << >>
  BY <1>1, LogOrderIsSeq, EmptySeq
<1>3. LogById = [i \in {} |-> i]
  BY DEF LogById, Init, Present
<1> QED
  BY <1>2, <1>3 DEF Log!Init

LEMMA AppendRefines ==
  ASSUME IInv, IInv', OrderFact, OrderFact',
         NEW id \in Id, NEW e \in Envelope, AppendMessage(id, e)
  PROVE  Log!AppendMessage(id, e)
<1>1. PICK n \in Nat : Numbered(n)
  BY DEF IInv
<1>2. PICK n1 \in Nat : Numbered(n1)'
  BY DEF IInv
<1>3. /\ MaxSeq = n /\ LogOrder \in Seq(Id) /\ Len(LogOrder) = n
      /\ \A k \in 1..n : LogOrder[k] \in Id /\ seq[LogOrder[k]] = k
  BY <1>1 DEF OrderFact
<1>4. /\ LogOrder' \in Seq(Id) /\ Len(LogOrder') = n1
      /\ \A k \in 1..n1 : LogOrder'[k] \in Id /\ seq'[LogOrder'[k]] = k
  BY <1>2 DEF OrderFact
<1>5. DOMAIN LogById = Present
  BY DEF LogById
<1>6. Present' = Present \cup {id}
  BY <1>3 DEF AppendMessage, Present, IInv, TypeOK
<1>7. LogById' = [i \in DOMAIN LogById \cup {id} |-> IF i = id THEN e ELSE LogById[i]]
  <2>1. LogById' = [i \in Present \cup {id} |-> payload'[i]]
    BY <1>6 DEF LogById
  <2>2. \A i \in Present \cup {id} : payload'[i] = IF i = id THEN e ELSE LogById[i]
    BY DEF LogById, AppendMessage, IInv, TypeOK, Present
  <2> QED
    BY <2>1, <2>2, <1>5
<1>8. LogOrder' = IF id \in DOMAIN LogById THEN LogOrder ELSE Append(LogOrder, id)
  <2>1. CASE id \in Present
    <3>1. seq' = seq
      BY <2>1 DEF AppendMessage, Present
    <3>2. LogOrder' = LogOrder
      BY <3>1 DEF LogOrder, MaxSeq
    <3> QED
      BY <2>1, <3>2, <1>5
  <2>2. CASE id \notin Present
    <3>1. seq' = [seq EXCEPT ![id] = n + 1]
      BY <2>2, <1>3 DEF AppendMessage, Present
    <3>2. n1 = n + 1
      <4>1. seq'[id] = n + 1
        BY <3>1 DEF IInv, TypeOK
      <4>2. n1 >= n + 1
        BY <4>1, <1>2 DEF Numbered
      <4>3. \A i \in Id : seq'[i] <= n + 1
        BY <3>1, <1>1 DEF Numbered, IInv, TypeOK
      <4>4. PICK i \in Id : seq'[i] = n1
        BY <4>2, <1>2 DEF Numbered
      <4> QED
        BY <4>2, <4>3, <4>4
    <3>3. \A i, j \in Id : seq'[i] # 0 /\ seq'[i] = seq'[j] => i = j
      BY <1>2 DEF Numbered, Present
    <3>4. \A k \in 1..n : LogOrder'[k] = LogOrder[k]
      <4> SUFFICES ASSUME NEW k \in 1..n PROVE LogOrder'[k] = LogOrder[k]
        OBVIOUS
      <4>1. seq[LogOrder[k]] = k /\ LogOrder[k] \in Id
        BY <1>3
      <4>2. seq'[LogOrder[k]] = k
        BY <4>1, <3>1, <2>2 DEF Present, IInv, TypeOK
      <4>3. seq'[LogOrder'[k]] = k /\ LogOrder'[k] \in Id
        BY <1>4, <3>2
      <4> QED
        BY <4>1, <4>2, <4>3, <3>3
    <3>5. LogOrder'[n + 1] = id
      <4>1. seq'[LogOrder'[n + 1]] = n + 1 /\ LogOrder'[n + 1] \in Id
        BY <1>4, <3>2
      <4>2. seq'[id] = n + 1
        BY <3>1 DEF IInv, TypeOK
      <4> QED
        BY <4>1, <4>2, <3>3
    <3>6. LogOrder' = Append(LogOrder, id)
      <4> DEFINE longer == Append(LogOrder, id)
      <4>1. /\ longer \in Seq(Id) /\ Len(longer) = n + 1
            /\ \A k \in 1..n : longer[k] = LogOrder[k]
            /\ longer[n + 1] = id
        BY <1>3, AppendProperties
      <4> HIDE DEF longer
      <4>2. \A k \in 1..n+1 : LogOrder'[k] = longer[k]
        <5> SUFFICES ASSUME NEW k \in 1..n+1 PROVE LogOrder'[k] = longer[k]
          OBVIOUS
        <5>1. CASE k = n + 1
          BY <5>1, <3>5, <4>1
        <5>2. CASE k \in 1..n
          BY <5>2, <3>4, <4>1
        <5> QED
          BY <5>1, <5>2
      <4>3. LogOrder' = longer
        BY <4>1, <4>2, <1>4, <3>2, SeqEqual
      <4> QED
        BY <4>3 DEF longer
    <3> QED
      BY <3>6, <2>2, <1>5
  <2> QED
    BY <2>1, <2>2
<1> QED
  BY <1>7, <1>8 DEF Log!AppendMessage

(* The SQLite store implements the port: every statement of it is an       *)
(* append of the abstract log, or changes nothing (message_log.rs trait    *)
(* MessageStore, sqlite_message_store.rs impl).                            *)
THEOREM StoreImplementsLog == Spec => ImplementsLog
<1>1. IInv => OrderFact
  BY LogOrderIsSeq, MaxSeqIsLength DEF OrderFact, IInv, TypeOK
<1>2. IInv /\ IInv' /\ OrderFact /\ OrderFact' /\ [Next]_vars => [Log!Next]_(Log!vars)
  <2> SUFFICES ASSUME IInv, IInv', OrderFact, OrderFact', [Next]_vars
               PROVE  [Log!Next]_(Log!vars)
    OBVIOUS
  <2>1. CASE Next
    <3>1. PICK id \in Id, e \in Envelope : AppendMessage(id, e)
      BY <2>1 DEF Next
    <3>2. Log!AppendMessage(id, e)
      BY <3>1, AppendRefines
    <3> QED
      BY <3>2 DEF Log!Next, Log!Envelope, Envelope
  <2>2. CASE UNCHANGED vars
    BY <2>2 DEF vars, Log!vars, LogOrder, LogById, MaxSeq, Present
  <2> QED
    BY <2>1, <2>2
<1> QED
  BY <1>1, <1>2, InitRefines, Invariance, PTL DEF Spec, ImplementsLog, Log!Spec

(* What the port promises of its log holds of the durable one: each row is *)
(* listed once, and a listing is a prefix of every later one.              *)
THEOREM DurableLogKeepsPromises == Spec => []Log!ExactlyOnce /\ Log!AppendOnly
<1>1. IInv => OrderFact
  BY LogOrderIsSeq, MaxSeqIsLength DEF OrderFact, IInv, TypeOK
<1>2. IInv => Log!ExactlyOnce
  <2> SUFFICES ASSUME IInv PROVE Log!ExactlyOnce
    OBVIOUS
  <2>1. PICK n \in Nat : Numbered(n)
    BY DEF IInv
  <2>2. /\ LogOrder \in Seq(Id) /\ Len(LogOrder) = n
        /\ \A k \in 1..n : LogOrder[k] \in Id /\ seq[LogOrder[k]] = k
    BY <2>1, LogOrderIsSeq DEF IInv
  <2>3. \A k \in 1..n : LogOrder[k] \in Present
    BY <2>2 DEF Present
  <2>4. \A i \in Present : seq[i] \in 1..n /\ LogOrder[seq[i]] = i
    BY <2>1, <2>2, <2>3 DEF Numbered, Present
  <2>5. DOMAIN LogById = Present
    BY DEF LogById
  <2>6. \A j, k \in 1..n : LogOrder[j] = LogOrder[k] => j = k
    BY <2>2
  <2>7. {LogOrder[k] : k \in 1..n} = Present
    BY <2>3, <2>4
  <2> QED
    BY <2>2, <2>5, <2>6, <2>7 DEF Log!ExactlyOnce
<1>3. IInv /\ IInv' /\ OrderFact /\ OrderFact' /\ [Next]_vars
        => [/\ Len(LogOrder) <= Len(LogOrder')
            /\ SubSeq(LogOrder', 1, Len(LogOrder)) = LogOrder]_(Log!vars)
  <2> DEFINE Grows == /\ Len(LogOrder) <= Len(LogOrder')
                      /\ SubSeq(LogOrder', 1, Len(LogOrder)) = LogOrder
  <2> SUFFICES ASSUME IInv, IInv', OrderFact, OrderFact', [Next]_vars
               PROVE  Grows \/ UNCHANGED Log!vars
    OBVIOUS
  <2>6. CASE UNCHANGED vars
    BY <2>6 DEF vars, Log!vars, LogOrder, LogById, MaxSeq, Present
  <2> SUFFICES ASSUME Next PROVE Grows
    BY <2>6
  <2>1. PICK id \in Id, e \in Envelope : AppendMessage(id, e)
    BY DEF Next
  <2>2. LogOrder' = LogOrder \/ LogOrder' = Append(LogOrder, id)
    BY <2>1, AppendRefines DEF Log!AppendMessage
  <2>3. LogOrder \in Seq(Id)
    BY DEF IInv, OrderFact
  <2>4. CASE LogOrder' = LogOrder
    BY <2>3, <2>4
  <2>5. CASE LogOrder' = Append(LogOrder, id)
    BY <2>3, <2>5
  <2> QED
    BY <2>2, <2>4, <2>5
<1>4. Spec => []Log!ExactlyOnce
  BY <1>2, Invariance, PTL
<1>5. Spec => Log!AppendOnly
  BY <1>1, <1>3, Invariance, PTL DEF Spec, Log!AppendOnly
<1> QED
  BY <1>4, <1>5

-----------------------------------------------------------------------------
(* The reads of the store.                                                 *)

\* Walking along a log and keeping the ids of one conversation.
Kept(ids, envelopes, c) ==
  FoldLeft(LAMBDA kept, i : IF envelopes[i].conversation = c THEN Append(kept, i) ELSE kept,
           << >>, ids)

LEMMA KeptIsCollected ==
  ASSUME NEW n \in Nat, NEW ids, DOMAIN ids = 1..n, NEW envelopes, NEW c
  PROVE  Kept(ids, envelopes, c)
           = Collected({k \in 1..n : envelopes[ids[k]].conversation = c}, ids)
<1> DEFINE K(s) == {k \in s : envelopes[ids[k]].conversation = c}
           Step(kept, x) == IF envelopes[ids[x]].conversation = c THEN Append(kept, ids[x]) ELSE kept
           Solves(g) == g = [s \in SUBSET (1..n) |->
                               IF s = {} THEN << >> ELSE Step(g[s \ {Max(s)}], Max(s))]
           h == [s \in SUBSET (1..n) |-> Collected(K(s), ids)]
           iter == CHOOSE g : Solves(g)
<1>1. Kept(ids, envelopes, c) = iter[1..n]
  BY DEF Kept, FoldLeft, MapThenFoldSet
<1>2. Collected(K({}), ids) = << >>
  <2>1. K({}) = {}
    OBVIOUS
  <2> QED
    BY <2>1, CollectedEmpty
<1>3. ASSUME NEW s \in SUBSET (1..n), s # {}
      PROVE  /\ s \ {Max(s)} \in SUBSET (1..n)
             /\ Collected(K(s), ids) = Step(Collected(K(s \ {Max(s)}), ids), Max(s))
  <2>1. Max(s) \in s /\ \A x \in s : x <= Max(s)
    <3>1. s \in SUBSET Nat /\ \A x \in s : x <= n
      OBVIOUS
    <3> QED
      BY <1>3, <3>1, MaxIsGreatest
  <2>2. PICK m \in 1..n : m = Max(s)
    BY <2>1
  <2>3. K(s \ {m}) \in SUBSET (1..n) /\ \A k \in K(s \ {m}) : k < m
    <3>1. \A k \in s \ {m} : k \in 1..n /\ k <= m /\ k # m
      BY <2>1, <2>2
    <3>2. \A k \in s \ {m} : k < m
      BY <3>1
    <3> QED
      BY <3>1, <3>2
  <2>4. Collected(K(s), ids) = Step(Collected(K(s \ {m}), ids), m)
    <3>1. CASE envelopes[ids[m]].conversation = c
      <4>1. K(s) = K(s \ {m}) \cup {m}
        BY <2>1, <2>2, <3>1
      <4> HIDE DEF K
      <4>2. m \in Nat
        BY <2>2
      <4>3. Collected(K(s \ {m}) \cup {m}, ids) = Append(Collected(K(s \ {m}), ids), ids[m])
        BY <2>3, <4>2, CollectedGrows
      <4> QED
        BY <3>1, <4>1, <4>3
    <3>2. CASE envelopes[ids[m]].conversation # c
      <4>1. K(s) = K(s \ {m})
        BY <2>2, <3>2
      <4> HIDE DEF K
      <4> QED
        BY <3>2, <4>1
    <3> QED
      BY <3>1, <3>2
  <2> HIDE DEF K, Step
  <2> QED
    BY <2>2, <2>4
<1>4. Solves(h)
  <2> HIDE DEF K, Step
  <2>1. \A s \in SUBSET (1..n) :
          h[s] = IF s = {} THEN << >> ELSE Step(h[s \ {Max(s)}], Max(s))
    BY <1>2, <1>3
  <2> QED
    BY <2>1
<1>5. Solves(iter)
  <2> HIDE DEF h, Solves
  <2> QED
    BY <1>4
<1>6. \A s \in SUBSET (1..n) : iter[s] = h[s]
  <2> HIDE DEF K, Step, iter, h
  <2>1. iter[{}] = h[{}]
    BY <1>4, <1>5
  <2>2. \A s \in SUBSET (1..n) :
          s # {} /\ iter[s \ {Max(s)}] = h[s \ {Max(s)}] => iter[s] = h[s]
    BY <1>4, <1>5
  <2>3. SameSteps(iter, h, n)
    BY <2>1, <2>2 DEF SameSteps
  <2> QED
    BY <2>3, SameFold
<1> QED
  BY <1>1, <1>6

\* Walking along a log and noting each conversation the first time it is seen.
Seen(ids, envelopes) ==
  FoldLeft(LAMBDA seen, i : IF Contains(seen, envelopes[i].conversation) THEN seen
                            ELSE Append(seen, envelopes[i].conversation),
           << >>, ids)

LEMMA SeenIsCollected ==
  ASSUME NEW n \in Nat, NEW ids, DOMAIN ids = 1..n, NEW envelopes
  PROVE  Seen(ids, envelopes)
           = Collected({k \in 1..n : \A j \in 1..n :
                          envelopes[ids[j]].conversation = envelopes[ids[k]].conversation => k <= j},
                       [k \in 1..n |-> envelopes[ids[k]].conversation])
<1> DEFINE conv == [k \in 1..n |-> envelopes[ids[k]].conversation]
           K(s) == {k \in s : \A j \in s : conv[j] = conv[k] => k <= j}
           h == [s \in SUBSET (1..n) |-> Collected(K(s), conv)]
           Given(seen, x) == IF Contains(seen, envelopes[ids[x]].conversation) THEN seen
                             ELSE Append(seen, envelopes[ids[x]].conversation)
           Solved(g) == g = [s \in SUBSET (1..n) |->
                               IF s = {} THEN << >> ELSE Given(g[s \ {Max(s)}], Max(s))]
<1>0. \A s \in SUBSET (1..n) : s # {} => Max(s) \in s /\ \A x \in s : x <= Max(s)
  <2> SUFFICES ASSUME NEW s \in SUBSET (1..n), s # {}
               PROVE  Max(s) \in s /\ \A x \in s : x <= Max(s)
    OBVIOUS
  <2>1. s \in SUBSET Nat /\ \A x \in s : x <= n
    OBVIOUS
  <2> QED
    BY <2>1, MaxIsGreatest
<1>1. Seen(ids, envelopes) = (CHOOSE g : Solved(g))[1..n]
  BY DEF Seen, FoldLeft, MapThenFoldSet
<1>2. Collected(K({}), conv) = << >>
  <2>1. K({}) = {}
    OBVIOUS
  <2> QED
    BY <2>1, CollectedEmpty
<1>3. ASSUME NEW s \in SUBSET (1..n), s # {}
      PROVE  /\ s \ {Max(s)} \in SUBSET (1..n)
             /\ Collected(K(s), conv) = Given(Collected(K(s \ {Max(s)}), conv), Max(s))
  <2>1. PICK m \in 1..n : m = Max(s) /\ m \in s /\ \A x \in s : x <= m
    BY <1>0, <1>3
  <2>2. K(s \ {m}) \in SUBSET (1..n) /\ \A k \in K(s \ {m}) : k < m
    <3>1. \A k \in s \ {m} : k \in 1..n /\ k <= m /\ k # m
      BY <2>1
    <3>2. \A k \in s \ {m} : k < m
      BY <3>1
    <3> QED
      BY <3>1, <3>2
  <2>3. Contains(Collected(K(s \ {m}), conv), conv[m]) <=> \E k \in s \ {m} : conv[k] = conv[m]
    <3>1. Contains(Collected(K(s \ {m}), conv), conv[m])
            <=> \E k \in K(s \ {m}) : conv[k] = conv[m]
      <4> DEFINE kept == K(s \ {m})
      <4>1. kept \in SUBSET (1..n)
        BY <2>2
      <4> HIDE DEF kept, conv
      <4>2. Names(Collected(kept, conv), kept, conv)
        BY <4>1, CollectedMembers
      <4> QED
        BY <4>2 DEF kept, Names
    <3>2. ASSUME NEW k \in s \ {m}, conv[k] = conv[m]
          PROVE  \E f \in K(s \ {m}) : conv[f] = conv[m]
      <4> DEFINE Same == {j \in s \ {m} : conv[j] = conv[m]}
      <4>1. Same \in SUBSET Nat /\ Same # {}
        <5> HIDE DEF conv
        <5>1. k \in Same
          BY <3>2
        <5>2. \A x \in s : x \in Nat
          BY <1>3
        <5> QED
          BY <5>1, <5>2
      <4>2. Min(Same) \in Same /\ \A x \in Same : Min(Same) <= x
        <5> HIDE DEF Same
        <5> QED
          BY <4>1, MinIsLeast
      <4>3. Min(Same) \in K(s \ {m}) /\ conv[Min(Same)] = conv[m]
        <5> HIDE DEF conv
        <5> QED
          BY <4>2
      <4> QED
        BY <4>3
    <3> HIDE DEF conv
    <3> QED
      BY <3>1, <3>2
  <2>4. Collected(K(s), conv) = Given(Collected(K(s \ {m}), conv), m)
    <3>0. conv[m] = envelopes[ids[m]].conversation
      BY <2>1
    <3>1. CASE \E k \in s \ {m} : conv[k] = conv[m]
      <4>1. K(s) = K(s \ {m})
        <5> HIDE DEF conv
        <5>1. PICK k \in s \ {m} : conv[k] = conv[m]
          BY <3>1
        <5>2. k < m /\ \A x \in s : x \in Nat /\ x <= m
          BY <2>1, <5>1
        <5>3. m \notin K(s)
          BY <2>1, <5>1, <5>2
        <5>4. \A x \in s \ {m} : x \in K(s) <=> x \in K(s \ {m})
          BY <2>1, <5>2
        <5> QED
          BY <5>3, <5>4
      <4> HIDE DEF K, conv
      <4> QED
        BY <2>3, <3>0, <3>1, <4>1
    <3>2. CASE ~ \E k \in s \ {m} : conv[k] = conv[m]
      <4>1. K(s) = K(s \ {m}) \cup {m}
        <5> HIDE DEF conv
        <5> QED
          BY <2>1, <3>2
      <4> HIDE DEF K, conv
      <4>2. m \in Nat
        BY <2>1
      <4>3. Collected(K(s \ {m}) \cup {m}, conv) = Append(Collected(K(s \ {m}), conv), conv[m])
        BY <2>2, <4>2, CollectedGrows
      <4> QED
        BY <2>3, <3>0, <3>2, <4>1, <4>3
    <3> QED
      BY <3>1, <3>2
  <2> HIDE DEF K, Given, conv
  <2> QED
    BY <2>1, <2>4
<1>4. Solved(h)
  <2> HIDE DEF K, Given, conv
  <2>1. \A s \in SUBSET (1..n) :
          h[s] = IF s = {} THEN << >> ELSE Given(h[s \ {Max(s)}], Max(s))
    BY <1>2, <1>3
  <2> QED
    BY <2>1
<1> DEFINE solution == CHOOSE g : Solved(g)
<1>5. Solved(solution)
  <2> HIDE DEF h, Solved
  <2> QED
    BY <1>4
<1>6. \A s \in SUBSET (1..n) : solution[s] = h[s]
  <2> HIDE DEF K, Given, solution, h, conv
  <2>1. solution[{}] = h[{}]
    BY <1>4, <1>5
  <2>2. \A s \in SUBSET (1..n) :
          s # {} /\ solution[s \ {Max(s)}] = h[s \ {Max(s)}] => solution[s] = h[s]
    BY <1>4, <1>5
  <2>3. SameSteps(solution, h, n)
    BY <2>1, <2>2 DEF SameSteps
  <2> QED
    BY <2>3, SameFold
<1>7. K(1..n) = {k \in 1..n : \A j \in 1..n :
                   envelopes[ids[j]].conversation = envelopes[ids[k]].conversation => k <= j}
  OBVIOUS
<1> HIDE DEF Solved, conv
<1> QED
  BY <1>1, <1>6, <1>7 DEF conv

\* w names the rows of S in the order of their numbers.
BySeq(w, S, n) ==
  /\ w \in [1..n -> S]
  /\ \A x \in S : \E i \in 1..n : w[i] = x
  /\ \A i, j \in 1..n : i < j => seq[w[i]] < seq[w[j]]

\* ORDER BY seq yields it.
LEMMA OrderBySeqIs ==
  ASSUME TypeOK, NEW S \in SUBSET Id, NEW n \in Nat, NEW w, BySeq(w, S, n)
  PROVE  OrderBySeq(S) = w
<1> DEFINE R == {p \in Id \X Id : seq[p[1]] < seq[p[2]]}
           Good(s) == s \in SetToSeqs(S) /\ \A i, j \in DOMAIN s : i < j => ~(seq[s[j]] < seq[s[i]])
<1>0. w \in [1..n -> S] /\ \A i \in 1..n : w[i] \in Id /\ seq[w[i]] \in Nat
  BY DEF BySeq, TypeOK
<1>1. InOrder(w, S, R, n)
  BY <1>0 DEF BySeq, InOrder
<1>2. ASSUME NEW s PROVE Good(s) <=> Sorts(s, S, R)
  <2>1. s \in SetToSeqs(S) => \A i \in DOMAIN s : s[i] \in Id
    BY DEF SetToSeqs
  <2> QED
    BY <2>1 DEF Sorts
<1>3. Good(w) /\ \A s : Good(s) => s = w
  <2> HIDE DEF R, Good
  <2> QED
    BY <1>1, <1>2, OrderIsUnique
<1>4. OrderBySeq(S) = CHOOSE s : Good(s)
  BY DEF OrderBySeq, Sorted
<1> HIDE DEF Good
<1> QED
  BY <1>3, <1>4

\* The rows are the ids of the log, each where its number says.
LEMMA PlacesOfTheLog ==
  ASSUME TypeOK, NEW n \in Nat, Numbered(n)
  PROVE  /\ DOMAIN LogOrder = 1..n
         /\ \A k \in 1..n : /\ LogOrder[k] \in Present /\ seq[LogOrder[k]] = k
                           /\ LogById[LogOrder[k]] = payload[LogOrder[k]]
         /\ \A i \in Present : seq[i] \in 1..n /\ LogOrder[seq[i]] = i
<1>1. /\ LogOrder \in Seq(Id) /\ Len(LogOrder) = n
      /\ \A k \in 1..n : LogOrder[k] \in Id /\ seq[LogOrder[k]] = k
  BY LogOrderIsSeq
<1>2. \A k \in 1..n : LogOrder[k] \in Present
  BY <1>1 DEF Present
<1>3. \A i \in Present : seq[i] \in 1..n
  BY DEF Present, Numbered
<1>4. \A i \in Present : LogOrder[seq[i]] = i
  BY <1>1, <1>2, <1>3 DEF Numbered
<1> QED
  BY <1>1, <1>2, <1>3, <1>4 DEF LogById

LEMMA AllAgrees ==
  ASSUME TypeOK, NEW n \in Nat, Numbered(n)
  PROVE  All = LogOrder
<1>1. BySeq(LogOrder, Present, n)
  <2>1. LogOrder \in [1..n -> Present]
    <3>1. LogOrder \in Seq(Id) /\ Len(LogOrder) = n
      BY LogOrderIsSeq
    <3> QED
      BY <3>1, PlacesOfTheLog
  <2> QED
    BY <2>1, PlacesOfTheLog DEF BySeq
<1>2. Present \in SUBSET Id
  BY DEF Present
<1> QED
  BY <1>1, <1>2, OrderBySeqIs DEF All

LEMMA MessagesForAgrees ==
  ASSUME TypeOK, NEW n \in Nat, Numbered(n), NEW c
  PROVE  MessagesFor(c) = Log!MessagesFor(c)
<1> DEFINE K == {k \in 1..n : LogById[LogOrder[k]].conversation = c}
           Rows == {i \in Present : payload[i].conversation = c}
<1>1. Log!MessagesFor(c) = Collected(K, LogOrder)
  <2>1. DOMAIN LogOrder = 1..n
    BY PlacesOfTheLog
  <2>2. Log!MessagesFor(c) = Kept(LogOrder, LogById, c)
    BY DEF Kept, Log!MessagesFor, Log!All, Log!FoldLeft, FoldLeft, Log!MapThenFoldSet, MapThenFoldSet,
           Log!Max, Max
  <2> QED
    BY <2>1, <2>2, KeptIsCollected
<1>2. PICK m \in Nat : \E w : Increasing(w, K, m)
  <2>1. K \in SUBSET (1..n)
    OBVIOUS
  <2> HIDE DEF K
  <2> QED
    BY <2>1, IncreasingExists
<1>3. PICK w : Increasing(w, K, m)
  BY <1>2
<1> DEFINE v == [i \in 1..m |-> LogOrder[w[i]]]
<1>4. Collected(K, LogOrder) = v
  <2>1. K \in SUBSET Nat
    OBVIOUS
  <2> HIDE DEF K
  <2>2. Along(K) = w /\ w \in [1..m -> K]
    BY <1>3, <2>1, AlongIs DEF Increasing
  <2> QED
    BY <2>2 DEF Collected
<1>5. BySeq(v, Rows, m)
  <2>0. /\ w \in [1..m -> 1..n]
        /\ \A i \in 1..m : LogById[LogOrder[w[i]]].conversation = c
        /\ \A k \in K : \E i \in 1..m : w[i] = k
        /\ \A i, j \in 1..m : i < j => w[i] < w[j]
    BY <1>3 DEF Increasing
  <2>1. \A i \in 1..m : v[i] \in Rows /\ seq[v[i]] = w[i]
    BY <2>0, PlacesOfTheLog
  <2>2. ASSUME NEW x \in Rows PROVE \E i \in 1..m : v[i] = x
    <3>1. seq[x] \in K /\ LogOrder[seq[x]] = x
      BY <2>2, PlacesOfTheLog
    <3>2. PICK i \in 1..m : w[i] = seq[x]
      BY <2>0, <3>1
    <3> QED
      BY <3>1, <3>2
  <2>3. \A i, j \in 1..m : i < j => seq[v[i]] < seq[v[j]]
    BY <2>0, <2>1
  <2>4. v \in [1..m -> Rows]
    BY <2>1
  <2> HIDE DEF v, Rows
  <2> QED
    BY <2>2, <2>3, <2>4 DEF BySeq
<1>6. Rows \in SUBSET Id
  BY DEF Present
<1>7. MessagesFor(c) = v
  <2> HIDE DEF v, Rows
  <2>1. OrderBySeq(Rows) = v
    BY <1>5, <1>6, OrderBySeqIs
  <2> QED
    BY <2>1 DEF MessagesFor, Rows
<1> QED
  BY <1>1, <1>4, <1>7

\* GROUP BY conversation ORDER BY MIN(seq): the place of a conversation is that of its first
\* message.
LEMMA ConversationIdsAgree ==
  ASSUME TypeOK, NEW n \in Nat, Numbered(n)
  PROVE  ConversationIds = Log!ConversationIds
<1> DEFINE conv == [k \in 1..n |-> LogById[LogOrder[k]].conversation]
           K == {k \in 1..n : \A j \in 1..n : conv[j] = conv[k] => k <= j}
           Group(c) == {i \in Present : payload[i].conversation = c}
           Live == {c \in Conversation : Group(c) # {}}
           MinSeq(c) == Min({seq[i] : i \in Group(c)})
           R == {p \in Conversation \X Conversation : MinSeq(p[1]) < MinSeq(p[2])}
           Good(s) == s \in SetToSeqs(Live)
                      /\ \A i, j \in DOMAIN s : i < j => ~(MinSeq(s[j]) < MinSeq(s[i]))
<1>1. Log!ConversationIds = Collected(K, conv)
  <2>1. DOMAIN LogOrder = 1..n
    BY PlacesOfTheLog
  <2>2. Log!ConversationIds = Seen(LogOrder, LogById)
    BY DEF Seen, Log!ConversationIds, Log!All, Log!FoldLeft, FoldLeft, Log!MapThenFoldSet,
           MapThenFoldSet, Log!Max, Max, Log!Contains, Contains
  <2>3. K = {k \in 1..n : \A j \in 1..n :
               LogById[LogOrder[j]].conversation = LogById[LogOrder[k]].conversation => k <= j}
    OBVIOUS
  <2> QED
    BY <2>1, <2>2, <2>3, SeenIsCollected
<1>2. PICK m \in Nat : \E w : Increasing(w, K, m)
  <2>1. K \in SUBSET (1..n)
    OBVIOUS
  <2> HIDE DEF K
  <2> QED
    BY <2>1, IncreasingExists
<1>3. PICK w : Increasing(w, K, m)
  BY <1>2
<1> DEFINE v == [i \in 1..m |-> conv[w[i]]]
<1>4. Collected(K, conv) = v
  <2>1. K \in SUBSET Nat
    OBVIOUS
  <2> HIDE DEF K, conv
  <2>2. Along(K) = w /\ w \in [1..m -> K]
    BY <1>3, <2>1, AlongIs DEF Increasing
  <2> QED
    BY <2>2 DEF Collected
<1>5. \A k \in 1..n : conv[k] = payload[LogOrder[k]].conversation /\ conv[k] \in Live
  <2> SUFFICES ASSUME NEW k \in 1..n
               PROVE  conv[k] = payload[LogOrder[k]].conversation /\ conv[k] \in Live
    OBVIOUS
  <2>1. /\ LogOrder[k] \in Present
        /\ conv[k] = payload[LogOrder[k]].conversation
    BY PlacesOfTheLog
  <2>2. payload[LogOrder[k]] \in Envelope
    BY <2>1 DEF Present, TypeOK
  <2>3. conv[k] \in Conversation /\ LogOrder[k] \in Group(conv[k])
    BY <2>1, <2>2 DEF Envelope
  <2> QED
    BY <2>1, <2>3
<1>6. \A k \in K : MinSeq(conv[k]) = k
  <2> SUFFICES ASSUME NEW k \in K PROVE MinSeq(conv[k]) = k
    OBVIOUS
  <2> DEFINE Places == {seq[i] : i \in Group(conv[k])}
  <2>1. ASSUME NEW i \in Group(conv[k]) PROVE seq[i] \in 1..n /\ k <= seq[i]
    <3>1. i \in Present /\ payload[i].conversation = conv[k]
      BY <2>1
    <3>2. seq[i] \in 1..n /\ LogOrder[seq[i]] = i
      BY <3>1, PlacesOfTheLog
    <3>3. conv[seq[i]] = conv[k]
      BY <1>5, <3>1, <3>2
    <3> QED
      BY <3>2, <3>3
  <2>2. k \in Places
    <3>1. /\ LogOrder[k] \in Present /\ seq[LogOrder[k]] = k
          /\ payload[LogOrder[k]].conversation = conv[k]
      BY <1>5, PlacesOfTheLog
    <3> QED
      BY <3>1
  <2>3. Places \in SUBSET Nat /\ Places # {} /\ \A x \in Places : k <= x
    BY <2>1, <2>2
  <2>4. Min(Places) \in Places /\ \A x \in Places : Min(Places) <= x
    <3> HIDE DEF Places
    <3> QED
      BY <2>3, MinIsLeast
  <2>5. Min(Places) = k
    <3> HIDE DEF Places
    <3>1. Min(Places) \in Nat /\ k \in Nat /\ k <= Min(Places) /\ Min(Places) <= k
      BY <2>2, <2>3, <2>4
    <3> QED
      BY <3>1
  <2> QED
    BY <2>5
<1>7. InOrder(v, Live, R, m)
  <2>0. /\ w \in [1..m -> K] /\ \A k \in K : \E i \in 1..m : w[i] = k
        /\ \A i, j \in 1..m : i < j => w[i] < w[j]
    BY <1>3 DEF Increasing
  <2>1. \A i \in 1..m : w[i] \in 1..n /\ v[i] \in Live /\ MinSeq(v[i]) = w[i]
    <3>1. \A i \in 1..m : w[i] \in K /\ w[i] \in 1..n /\ v[i] = conv[w[i]]
      BY <2>0
    <3> HIDE DEF v, K, conv, Live, MinSeq
    <3> QED
      BY <1>5, <1>6, <3>1
  <2>2. ASSUME NEW c \in Live PROVE \E i \in 1..m : v[i] = c
    <3>1. PICK r \in Group(c) : TRUE
      BY <2>2
    <3>2. seq[r] \in 1..n /\ LogOrder[seq[r]] = r
      BY <3>1, PlacesOfTheLog
    <3>3. conv[seq[r]] = c
      BY <1>5, <3>1, <3>2
    <3> DEFINE Same == {j \in 1..n : conv[j] = c}
    <3>4. Same \in SUBSET Nat /\ seq[r] \in Same
      BY <3>2, <3>3
    <3>5. Min(Same) \in Same /\ \A x \in Same : Min(Same) <= x
      <4> HIDE DEF Same
      <4> QED
        BY <3>4, MinIsLeast
    <3>6. Min(Same) \in K /\ conv[Min(Same)] = c
      <4> HIDE DEF conv
      <4> QED
        BY <3>5
    <3>7. PICK i \in 1..m : w[i] = Min(Same)
      BY <2>0, <3>6
    <3> QED
      BY <3>6, <3>7
  <2>3. \A i, j \in 1..m : i < j => /\ MinSeq(v[i]) < MinSeq(v[j])
                                  /\ ~(MinSeq(v[j]) < MinSeq(v[i]))
    <3> HIDE DEF v, MinSeq
    <3> QED
      BY <2>0, <2>1
  <2>4. v \in [1..m -> Live] /\ \A i \in 1..m : v[i] \in Conversation
    <3>1. \A i \in 1..m : v[i] \in Live /\ v[i] \in Conversation
      BY <2>1
    <3> HIDE DEF Live
    <3> QED
      BY <3>1
  <2> HIDE DEF v, Live, MinSeq
  <2> QED
    BY <2>2, <2>3, <2>4 DEF InOrder
<1>8. ASSUME NEW s PROVE Good(s) <=> Sorts(s, Live, R)
  <2>1. s \in SetToSeqs(Live) => \A i \in DOMAIN s : s[i] \in Conversation
    BY DEF SetToSeqs
  <2> HIDE DEF Live, MinSeq
  <2> QED
    BY <2>1 DEF Sorts
<1>9. Good(v) /\ \A s : Good(s) => s = v
  <2> HIDE DEF R, Good, v, Live
  <2> QED
    BY <1>7, <1>8, OrderIsUnique
<1>10. ConversationIds = CHOOSE s : Good(s)
  BY DEF ConversationIds, Sorted
<1>11. ConversationIds = v
  <2> HIDE DEF Good, v
  <2> QED
    BY <1>9, <1>10
<1> QED
  BY <1>1, <1>4, <1>11

LEMMA GetAgrees ==
  ASSUME TypeOK, NEW i \in Id
  PROVE  Get(i) = Log!Get(i, NoPayload)
<1>1. i \in Present <=> payload[i] # NoPayload
  BY DEF TypeOK, Present
<1> QED
  BY <1>1 DEF Get, Log!Get, LogById

(* The specialised SQL reads answer what the port's default reads over     *)
(* all() answer, whatever was appended again or moved to another           *)
(* conversation (message_log.rs messages_for and conversation_ids;         *)
(* sqlite_message_store.rs): the WHERE of the one keeps the order of the   *)
(* log, and MIN(seq) of a group is the place it was first seen at.         *)
THEOREM ReadsAreTheLogs == Spec => []ReadsAgree
<1>1. IInv => ReadsAgree
  <2> SUFFICES ASSUME IInv PROVE ReadsAgree
    OBVIOUS
  <2>1. PICK n \in Nat : Numbered(n)
    BY DEF IInv
  <2>2. TypeOK
    BY DEF IInv
  <2>3. All = Log!All
    BY <2>1, <2>2, AllAgrees DEF Log!All
  <2>4. ConversationIds = Log!ConversationIds
    BY <2>1, <2>2, ConversationIdsAgree
  <2>5. \A c \in Conversation : MessagesFor(c) = Log!MessagesFor(c)
    BY <2>1, <2>2, MessagesForAgrees
  <2>6. \A i \in Id : Get(i) = Log!Get(i, NoPayload)
    BY <2>2, GetAgrees
  <2> QED
    BY <2>3, <2>4, <2>5, <2>6 DEF ReadsAgree
<1> QED
  BY <1>1, Invariance, PTL

-----------------------------------------------------------------------------
(* The pages a process fetches.                                            *)

\* A listing of a finite set of numbers is a sequence of its members.
LEMMA ListingsAreSequences ==
  ASSUME NEW S, IsFiniteSet(S)
  PROVE  \A s \in Descending(S) \cup Ascending(S) : \E n \in Nat : s \in [1..n -> S]
<1>1. Cardinality(S) \in Nat
  BY FS_CardinalityType
<1> QED
  BY <1>1 DEF Descending, Ascending

\* A page of issues or of comments holds well-formed items.
LEMMA PagesAreItems ==
  ASSUME IngestTypeOK
  PROVE  IssuePages \subseteq Seq(Item) /\ CommentPages \subseteq Seq(Item)
<1>1. IsFiniteSet(Newest) /\ IsFiniteSet(Oldest)
  <2>1. Newest \subseteq Number /\ Oldest \subseteq CommentId
    BY DEF IngestTypeOK, Newest, Oldest
  <2> QED
    BY <2>1, IngestAssumption, FS_Subset
<1>2. ASSUME NEW page \in IssuePages PROVE page \in Seq(Item)
  <2>1. PICK s \in Descending(Newest) : page = [k \in DOMAIN s |-> IssueItem(s[k], issues[s[k]])]
    BY <1>2 DEF IssuePages
  <2>2. PICK n \in Nat : s \in [1..n -> Newest]
    BY <1>1, ListingsAreSequences
  <2>3. \A k \in 1..n : s[k] \in Number /\ issues[s[k]] \in Post
    BY <2>2 DEF Newest, IngestTypeOK
  <2>4. \A k \in 1..n : IssueItem(s[k], issues[s[k]]) \in Item
    BY <2>3 DEF Item
  <2>5. page \in [1..n -> Item]
    BY <2>1, <2>2, <2>4
  <2> QED
    BY <2>5
<1>3. ASSUME NEW page \in CommentPages PROVE page \in Seq(Item)
  <2>1. PICK s \in Ascending(Oldest) : page = [k \in DOMAIN s |-> CommentItem(s[k], comments[s[k]])]
    BY <1>3 DEF CommentPages
  <2>2. PICK n \in Nat : s \in [1..n -> Oldest]
    BY <1>1, ListingsAreSequences
  <2>3. \A k \in 1..n : s[k] \in CommentId /\ comments[s[k]] \in Text
    BY <2>2 DEF Oldest, IngestTypeOK
  <2>4. \A k \in 1..n : CommentItem(s[k], comments[s[k]]) \in Item
    BY <2>3 DEF Item
  <2>5. page \in [1..n -> Item]
    BY <2>1, <2>2, <2>4
  <2> QED
    BY <2>5
<1> QED
  BY <1>2, <1>3

-----------------------------------------------------------------------------
(* The repository's own steps keep it well formed.                         *)

LEMMA DisturbedIsTyped ==
  ASSUME IngestTypeOK, NEW S
  PROVE  Disturbed(S) \in [Proc -> ProcType]
BY DEF IngestTypeOK, Disturbed, ProcType

LEMMA RepoStepKeepsTypes ==
  ASSUME IngestTypeOK, RepoStep
  PROVE  IngestTypeOK'
<1>1. proc' \in [Proc -> ProcType]
  BY DisturbedIsTyped DEF RepoStep, Open, Comment, Edit, Delete, RepoChanges
<1>2. CASE \E n \in Number, post \in Post : Open(n, post)
  BY <1>1, <1>2 DEF IngestTypeOK, Open
<1>3. CASE \E c \in CommentId, text \in Text : Comment(c, text)
  BY <1>1, <1>3 DEF IngestTypeOK, Comment
<1>4. CASE Edit
  BY <1>1, <1>4 DEF IngestTypeOK, Edit
<1>5. CASE Delete
  BY <1>1, <1>5 DEF IngestTypeOK, Delete, Restrict
<1> QED
  BY <1>2, <1>3, <1>4, <1>5 DEF RepoStep

-----------------------------------------------------------------------------
(* The steps of a process.                                                 *)

\* A process that only moves on keeps the types when its new record is typed.
LEMMA MoveKeepsTypes ==
  ASSUME IngestTypeOK, NEW p \in Proc, NEW r \in ProcType,
         proc' = [proc EXCEPT ![p] = r], UNCHANGED repoVars
  PROVE  IngestTypeOK'
BY DEF IngestTypeOK, repoVars

LEMMA ProcStepKeepsTypes ==
  ASSUME IngestTypeOK, NEW p \in Proc,
         \/ Start(p) \/ FetchIssues(p) \/ FetchComments(p) \/ FetchFails(p)
         \/ AppendItem(p) \/ Exit(p)
  PROVE  IngestTypeOK'
<1> DEFINE r == proc[p]
<1>0. r \in ProcType /\ Idle \in ProcType /\ << >> \in Seq(Item)
  BY DEF IngestTypeOK, ProcType, Idle
<1>1. CASE Start(p)
  <2>1. [Idle EXCEPT !.pc = "issues"] \in ProcType
    BY <1>0 DEF ProcType
  <2> QED
    BY <1>1, <2>1, MoveKeepsTypes DEF Start, Quietly
<1>2. CASE FetchIssues(p)
  <2>1. PICK page \in IssuePages : proc' = [proc EXCEPT ![p].pc = "comments", ![p].items = page]
    BY <1>2 DEF FetchIssues
  <2>2. page \in Seq(Item)
    BY PagesAreItems
  <2>3. proc' = [proc EXCEPT ![p] = [r EXCEPT !.pc = "comments", !.items = page]]
    BY <2>1 DEF IngestTypeOK
  <2>4. [r EXCEPT !.pc = "comments", !.items = page] \in ProcType
    BY <1>0, <2>2 DEF ProcType
  <2> QED
    BY <1>2, <2>3, <2>4, MoveKeepsTypes DEF FetchIssues, Quietly
<1>3. CASE FetchComments(p)
  <2>1. PICK page \in CommentPages : proc' = [proc EXCEPT ![p].pc = "append", ![p].items = @ \o page]
    BY <1>3 DEF FetchComments
  <2>2. page \in Seq(Item) /\ r.items \in Seq(Item)
    BY <1>0, PagesAreItems DEF ProcType
  <2>3. proc' = [proc EXCEPT ![p] = [r EXCEPT !.pc = "append", !.items = r.items \o page]]
    BY <2>1 DEF IngestTypeOK
  <2>4. r.items \o page \in Seq(Item)
    BY <2>2
  <2>5. [r EXCEPT !.pc = "append", !.items = r.items \o page] \in ProcType
    BY <1>0, <2>4 DEF ProcType
  <2> QED
    BY <1>3, <2>3, <2>5, MoveKeepsTypes DEF FetchComments, Quietly
<1>4. CASE FetchFails(p) \/ Exit(p)
  BY <1>0, <1>4, MoveKeepsTypes DEF FetchFails, Exit, Quietly
<1>5. CASE AppendItem(p)
  <2> DEFINE d == Disturbed(Proc \ {p})
  <2>1. d \in [Proc -> ProcType] /\ d[p] = r
    BY DisturbedIsTyped DEF Disturbed
  <2>2. Tail(r.items) \in Seq(Item)
    BY <1>0, <1>5 DEF AppendItem, ProcType
  <2>3. proc' = [d EXCEPT ![p] = [r EXCEPT !.items = Tail(r.items)]]
    BY <1>5, <2>1 DEF AppendItem
  <2>4. [r EXCEPT !.items = Tail(r.items)] \in ProcType
    BY <1>0, <2>2 DEF ProcType
  <2>5. proc' \in [Proc -> ProcType]
    BY <2>1, <2>3, <2>4
  <2> QED
    BY <1>5, <2>5 DEF AppendItem, IngestTypeOK, repoVars
<1> QED
  BY <1>1, <1>2, <1>3, <1>4, <1>5

(* The items a process holds are well formed, whatever the repository was  *)
(* when the two requests were answered (rest.rs try_fetch).                *)
THEOREM IngestTypeCorrect == IngestSpec => []IngestTypeOK
<1>1. IngestInit => IngestTypeOK
  BY DEF IngestInit, IngestTypeOK, Idle, ProcType
<1>2. IngestTypeOK /\ [IngestNext]_ingestVars => IngestTypeOK'
  <2> SUFFICES ASSUME IngestTypeOK, [IngestNext]_ingestVars PROVE IngestTypeOK'
    OBVIOUS
  <2>1. CASE RepoStep
    BY <2>1, RepoStepKeepsTypes
  <2>2. CASE \E p \in Proc : \/ Start(p) \/ FetchIssues(p) \/ FetchComments(p) \/ FetchFails(p)
                             \/ AppendItem(p) \/ Exit(p)
    BY <2>2, ProcStepKeepsTypes
  <2>3. CASE \E id \in Id, e \in Pasted : Ingest(id, e)
    BY <2>3, DisturbedIsTyped DEF Ingest, IngestTypeOK, repoVars
  <2>4. CASE UNCHANGED ingestVars
    BY <2>4 DEF ingestVars, repoVars, IngestTypeOK
  <2> QED
    BY <2>1, <2>2, <2>3, <2>4 DEF IngestNext
<1> QED
  BY <1>1, <1>2, PTL DEF IngestSpec

-----------------------------------------------------------------------------
(* The composition implements the store.                                   *)

LEMMA IngestStepsAreStoreSteps ==
  ASSUME IngestTypeOK, [IngestNext]_ingestVars
  PROVE  [Next]_vars
<1>1. CASE RepoStep
  BY <1>1 DEF RepoStep, Open, Comment, Edit, Delete, RepoChanges
<1>2. ASSUME NEW p \in Proc, AppendItem(p) PROVE Next
  <2>1. Head(proc[p].items) \in Item
    BY <1>2 DEF AppendItem, IngestTypeOK, ProcType
  <2> QED
    BY <1>2, <2>1, IngestAssumption DEF AppendItem, Next
<1>3. ASSUME NEW p \in Proc,
             Start(p) \/ FetchIssues(p) \/ FetchComments(p) \/ FetchFails(p) \/ Exit(p)
      PROVE  UNCHANGED vars
  BY <1>3 DEF Start, FetchIssues, FetchComments, FetchFails, Exit, Quietly
<1>4. CASE \E id \in Id, e \in Pasted : Ingest(id, e)
  BY <1>4, IngestAssumption DEF Ingest, Next
<1>5. CASE UNCHANGED ingestVars
  BY <1>5 DEF ingestVars, vars
<1> QED
  BY <1>1, <1>2, <1>3, <1>4, <1>5 DEF IngestNext

LEMMA IngestsUseTheStore == IngestSpec => Spec
<1>1. IngestInit => Init
  BY DEF IngestInit
<1>2. IngestTypeOK /\ [IngestNext]_ingestVars => [Next]_vars
  BY IngestStepsAreStoreSteps
<1> QED
  BY <1>1, <1>2, IngestTypeCorrect, PTL DEF IngestSpec, Spec

(* `github` and `ingest`, by any number of processes, killed at any        *)
(* statement, keep the promises of the store: the log they write is the    *)
(* append-only log of the port (source.rs ingest_items, message_log.rs).   *)
THEOREM IngestKeepsTheLog == IngestSpec => ImplementsLog
BY IngestsUseTheStore, StoreImplementsLog

(* Whatever is ingested, the table stays typed and densely numbered, and   *)
(* its SQL reads answer what the log's do (sqlite_message_store.rs).       *)
THEOREM IngestKeepsTheTable == IngestSpec => [](TypeOK /\ DenseSeq /\ ReadsAgree)
BY IngestsUseTheStore, TypeCorrect, SeqStaysDense, ReadsAreTheLogs, PTL

-----------------------------------------------------------------------------
(* What a process has still to append.                                     *)

\* The items of the two first pages, as the repository is now.
CurrentIssues == {IssueItem(n, issues[n]) : n \in Newest}
CurrentComments == {CommentItem(c, comments[c]) : c \in Oldest}

(* A process that nothing disturbed holds exactly the current issues, and  *)
(* later, of what is current, all that is not in the log already.          *)
CurrentInv(p) == proc[p].quiet =>
  /\ At(p, "comments") => ToSet(proc[p].items) = CurrentIssues
  /\ At(p, "append") =>
       /\ ToSet(proc[p].items) \subseteq CurrentIssues \cup CurrentComments
       /\ \A item \in CurrentIssues \cup CurrentComments :
            item \in ToSet(proc[p].items) \/ payload[MessageId(item)] = ToMessage(item)

\* A comment belongs to an issue that exists, and only straddled issues are off the page.
RepoInv ==
  /\ \A c \in DOMAIN comments : IssueUrl[c] \in DOMAIN issues \cup {NoNumber}
  /\ OffPage \subseteq straddled

Opening == {"issue", "pull-request"}
Opens(item, n) == item.kind \in Opening /\ item.id = n

\* The comment c is one whose opening message is promised to be there first.
Promised(c) == IssueUrl[c] # NoNumber /\ IssueUrl[c] \notin straddled

OpeningLogged(n) ==
  \E kind \in Opening : <<Hosted, kind, n>> \in Id /\ seq[<<Hosted, kind, n>>] # 0

(* A process holds the openings of the issues there are; the opening of a  *)
(* comment it has to append is in the log or goes before it.               *)
OrderInv(p) ==
  LET items == proc[p].items
  IN  /\ At(p, "comments") =>
           /\ \A i \in DOMAIN items : items[i].kind \in Opening
           /\ \A n \in DOMAIN issues \ straddled : \E i \in DOMAIN items : Opens(items[i], n)
      /\ At(p, "append") =>
           \A j \in DOMAIN items : items[j].kind = "comment" /\ Promised(items[j].id) =>
             \/ OpeningLogged(IssueUrl[items[j].id])
             \/ \E i \in 1..j-1 : Opens(items[i], IssueUrl[items[j].id])

AppendInv ==
  /\ RepoInv
  /\ \A p \in Proc : CurrentInv(p) /\ OrderInv(p)
  /\ IssueBeforeComments

-----------------------------------------------------------------------------
(* The pages hold exactly the current items.                               *)

\* A listing of a finite set of numbers names every member.
LEMMA ListingsAreOnto ==
  ASSUME NEW S, IsFiniteSet(S), S \subseteq Nat, NEW s \in Descending(S) \cup Ascending(S)
  PROVE  /\ s \in [DOMAIN s -> S]
         /\ \A x \in S : \E k \in DOMAIN s : s[k] = x
<1> DEFINE n == Cardinality(S)
<1>1. n \in Nat
  BY FS_CardinalityType
<1>2. s \in [1..n -> S] /\ DOMAIN s = 1..n
  BY DEF Descending, Ascending
<1>3. \A j, k \in 1..n : j < k => s[j] # s[k]
  <2>1. \A j, k \in 1..n : j < k => s[j] > s[k] \/ s[j] < s[k]
    BY <1>2 DEF Descending, Ascending
  <2>2. \A j \in 1..n : s[j] \in Nat
    BY <1>2
  <2> HIDE DEF n
  <2> QED
    BY <2>1, <2>2
<1>4. s \in Injection(1..n, S)
  <2> HIDE DEF n
  <2>1. \A j, k \in 1..n : s[j] = s[k] => j = k
    BY <1>1, <1>3
  <2> QED
    BY <1>2, <2>1 DEF Injection, IsInjective
<1>5. 1 \in Int /\ n \in Int
  BY <1>1
<1>6. IsFiniteSet(1..n) /\ Cardinality(1..n) = IF 1 > n THEN 0 ELSE n - 1 + 1
  <2> HIDE DEF n
  <2> QED
    BY <1>5, FS_Interval, Zenon
<1>7. Cardinality(1..n) = n
  <2> HIDE DEF n
  <2> QED
    BY <1>1, <1>6
<1>8. s \in Surjection(1..n, S)
  BY <1>4, <1>7, FS_Injection
<1> HIDE DEF n
<1> QED
  BY <1>2, <1>8 DEF Surjection

LEMMA PageContents ==
  ASSUME IngestTypeOK
  PROVE  /\ \A page \in IssuePages : ToSet(page) = CurrentIssues
         /\ \A page \in CommentPages : ToSet(page) = CurrentComments
<1>1. /\ IsFiniteSet(Newest) /\ IsFiniteSet(Oldest)
      /\ Newest \subseteq Nat /\ Oldest \subseteq Nat
  <2>1. Newest \subseteq Number /\ Oldest \subseteq CommentId
    BY DEF IngestTypeOK, Newest, Oldest
  <2> QED
    BY <2>1, IngestAssumption, FS_Subset
<1>2. ASSUME NEW page \in IssuePages PROVE ToSet(page) = CurrentIssues
  <2>1. PICK s \in Descending(Newest) : page = [k \in DOMAIN s |-> IssueItem(s[k], issues[s[k]])]
    BY <1>2 DEF IssuePages
  <2>2. s \in [DOMAIN s -> Newest] /\ \A x \in Newest : \E k \in DOMAIN s : s[k] = x
    BY <1>1, ListingsAreOnto
  <2>3. ToSet(page) = {IssueItem(s[k], issues[s[k]]) : k \in DOMAIN s}
    BY <2>1 DEF ToSet
  <2> QED
    BY <2>2, <2>3 DEF CurrentIssues
<1>3. ASSUME NEW page \in CommentPages PROVE ToSet(page) = CurrentComments
  <2>1. PICK s \in Ascending(Oldest) : page = [k \in DOMAIN s |-> CommentItem(s[k], comments[s[k]])]
    BY <1>3 DEF CommentPages
  <2>2. s \in [DOMAIN s -> Oldest] /\ \A x \in Oldest : \E k \in DOMAIN s : s[k] = x
    BY <1>1, ListingsAreOnto
  <2>3. ToSet(page) = {CommentItem(s[k], comments[s[k]]) : k \in DOMAIN s}
    BY <2>1 DEF ToSet
  <2> QED
    BY <2>2, <2>3 DEF CurrentComments
<1> QED
  BY <1>2, <1>3

\* The kind and the id of a current item are those of no other.
LEMMA CurrentIdsAreDistinct ==
  ASSUME NEW x \in CurrentIssues \cup CurrentComments, NEW y \in CurrentIssues \cup CurrentComments,
         MessageId(x) = MessageId(y)
  PROVE  x = y
<1>1. x.kind = y.kind /\ x.id = y.id
  BY DEF MessageId
<1>2. \A z \in CurrentIssues : z.kind # "comment" /\ z = IssueItem(z.id, issues[z.id])
  BY DEF CurrentIssues, IssueItem
<1>3. \A z \in CurrentComments : z.kind = "comment" /\ z = CommentItem(z.id, comments[z.id])
  BY DEF CurrentComments, CommentItem
<1> QED
  BY <1>1, <1>2, <1>3

\* What is current is well formed.
LEMMA CurrentItems ==
  ASSUME IngestTypeOK
  PROVE  CurrentIssues \cup CurrentComments \subseteq Item
<1>1. \A n \in Newest : n \in Number /\ issues[n] \in Post
  BY DEF IngestTypeOK, Newest
<1>2. \A c \in Oldest : c \in CommentId /\ comments[c] \in Text
  BY DEF IngestTypeOK, Oldest
<1>3. \A n \in Newest : IssueItem(n, issues[n]) \in Item
  BY <1>1 DEF Item
<1>4. \A c \in Oldest : CommentItem(c, comments[c]) \in Item
  BY <1>2 DEF Item
<1> QED
  BY <1>3, <1>4 DEF CurrentIssues, CurrentComments

\* The kinds of an item.
LEMMA ItemFacts ==
  ASSUME NEW item \in Item
  PROVE  /\ item.kind \in Opening \cup {"comment"}
         /\ item.kind \in Opening => item.id \in Number
         /\ item.kind = "comment" => item.id \in CommentId
         /\ MessageId(item) \in Id /\ ToMessage(item) \in Envelope
BY IngestAssumption DEF Item, IssueItem, CommentItem, Opening

-----------------------------------------------------------------------------
(* The repository's steps.                                                 *)

LEMMA RepoStepKeepsRepoInv ==
  ASSUME IngestTypeOK, RepoInv, RepoStep
  PROVE  RepoInv' /\ straddled \subseteq straddled'
<1> USE DEF RepoInv, IngestTypeOK
<1>1. CASE \E n \in Number, post \in Post : Open(n, post)
  <2>1. PICK n \in Number, post \in Post : Open(n, post)
    BY <1>1
  <2>2. /\ DOMAIN issues' = DOMAIN issues \cup {n} /\ comments' = comments
        /\ straddled \cup OffPage' \subseteq straddled'
    BY <2>1 DEF Open
  <2> QED
    BY <2>2
<1>2. CASE \E c \in CommentId, text \in Text : Comment(c, text)
  <2>1. PICK c \in CommentId, text \in Text : Comment(c, text)
    BY <1>2
  <2>2. /\ DOMAIN comments' = DOMAIN comments \cup {c} /\ UNCHANGED <<issues, straddled>>
        /\ IssueUrl[c] \in DOMAIN issues \cup {NoNumber}
    BY <2>1 DEF Comment
  <2>3. OffPage' = OffPage
    BY <2>2 DEF OffPage, Newest
  <2> QED
    BY <2>2, <2>3
<1>3. CASE Edit
  <2>1. DOMAIN issues' = DOMAIN issues /\ DOMAIN comments' = DOMAIN comments
        /\ straddled' = straddled
    BY <1>3 DEF Edit
  <2>2. OffPage' = OffPage
    BY <2>1 DEF OffPage, Newest
  <2> QED
    BY <2>1, <2>2
<1>4. CASE Delete
  <2>1. straddled' = straddled
    BY <1>4 DEF Delete
  <2>2. CASE \E c \in DOMAIN comments :
               comments' = Restrict(comments, DOMAIN comments \ {c}) /\ UNCHANGED issues
    <3>1. OffPage' = OffPage
      BY <2>2 DEF OffPage, Newest
    <3> QED
      BY <2>1, <2>2, <3>1 DEF Restrict
  <2>3. CASE \E n \in DOMAIN issues :
               /\ issues' = Restrict(issues, DOMAIN issues \ {n})
               /\ comments' = Restrict(comments, {c \in DOMAIN comments : IssueUrl[c] # n})
    <3>1. PICK n \in DOMAIN issues :
               /\ issues' = Restrict(issues, DOMAIN issues \ {n})
               /\ comments' = Restrict(comments, {c \in DOMAIN comments : IssueUrl[c] # n})
      BY <2>3
    <3>2. DOMAIN issues' = DOMAIN issues \ {n}
      BY <3>1 DEF Restrict
    <3>3. ASSUME NEW m \in OffPage' PROVE m \in OffPage
      <4> DEFINE newer == {k \in DOMAIN issues : k > m}
                 left  == {k \in DOMAIN issues' : k > m}
      <4>1. m \in DOMAIN issues' /\ ~(Cardinality(left) < PageSize)
        BY <3>3 DEF OffPage, Newest
      <4>2. IsFiniteSet(newer) /\ left \in SUBSET newer
        <5>1. newer \subseteq Number
          OBVIOUS
        <5> QED
          BY <3>2, <5>1, IngestAssumption, FS_Subset
      <4>3. /\ Cardinality(left) \in Nat /\ Cardinality(newer) \in Nat
            /\ Cardinality(left) <= Cardinality(newer)
        <5> HIDE DEF newer, left
        <5> QED
          BY <4>2, FS_Subset, FS_CardinalityType
      <4>4. ~(Cardinality(newer) < PageSize)
        <5> HIDE DEF newer, left
        <5> QED
          BY <4>1, <4>3, IngestAssumption
      <4> QED
        BY <3>2, <4>1, <4>4 DEF OffPage, Newest
    <3>4. \A c \in DOMAIN comments' : c \in DOMAIN comments /\ IssueUrl[c] # n
      BY <3>1 DEF Restrict
    <3> QED
      BY <2>1, <3>2, <3>3, <3>4
  <2> QED
    BY <1>4, <2>2, <2>3 DEF Delete
<1> QED
  BY <1>1, <1>2, <1>3, <1>4 DEF RepoStep

\* What is in the log stays there, and less is promised of it.
LEMMA StillBefore ==
  ASSUME IssueBeforeComments, seq' = seq, straddled \subseteq straddled'
  PROVE  IssueBeforeComments'
BY DEF IssueBeforeComments

\* What a process has still to append keeps its order under a step of someone else.
LEMMA OrderStays ==
  ASSUME NEW p \in Proc, OrderInv(p),
         proc'[p].pc = proc[p].pc, proc'[p].items = proc[p].items,
         straddled \subseteq straddled',
         At(p, "comments") => DOMAIN issues' \ straddled' \subseteq DOMAIN issues \ straddled,
         \A n : OpeningLogged(n) => OpeningLogged(n)'
  PROVE  OrderInv(p)'
<1> DEFINE items == proc[p].items
<1>1. ASSUME At(p, "comments")'
      PROVE  /\ \A i \in DOMAIN items : items[i].kind \in Opening
             /\ \A n \in DOMAIN issues' \ straddled' : \E i \in DOMAIN items : Opens(items[i], n)
  <2>1. At(p, "comments")
    BY <1>1 DEF At
  <2> QED
    BY <2>1 DEF OrderInv
<1>2. ASSUME At(p, "append")', NEW j \in DOMAIN items, items[j].kind = "comment",
             NEW n, n = IssueUrl[items[j].id], n # NoNumber, n \notin straddled'
      PROVE  OpeningLogged(n)' \/ \E i \in 1..j-1 : Opens(items[i], n)
  <2>1. At(p, "append")
    BY <1>2 DEF At
  <2>2. OpeningLogged(n) \/ \E i \in 1..j-1 : Opens(items[i], n)
    BY <1>2, <2>1 DEF OrderInv, Promised
  <2> QED
    BY <2>2
<1>3. ASSUME At(p, "append")', NEW j \in DOMAIN items, items[j].kind = "comment",
             IssueUrl[items[j].id] # NoNumber, IssueUrl[items[j].id] \notin straddled'
      PROVE  \/ \E kind \in Opening : /\ <<Hosted, kind, IssueUrl[items[j].id]>> \in Id
                                     /\ seq'[<<Hosted, kind, IssueUrl[items[j].id]>>] # 0
             \/ \E i \in 1..j-1 : Opens(items[i], IssueUrl[items[j].id])
  <2>1. PICK n : n = IssueUrl[items[j].id]
    OBVIOUS
  <2>2. OpeningLogged(n)' \/ \E i \in 1..j-1 : Opens(items[i], n)
    BY <1>2, <1>3, <2>1
  <2> QED
    BY <2>1, <2>2 DEF OpeningLogged
<1> HIDE DEF items
<1>4. items = proc'[p].items
  BY DEF items
<1>5. At(p, "comments")' =>
        /\ \A i \in DOMAIN proc'[p].items : proc'[p].items[i].kind \in Opening
        /\ \A n \in DOMAIN issues' \ straddled' :
             \E i \in DOMAIN proc'[p].items : Opens(proc'[p].items[i], n)
  BY <1>1, <1>4
<1>6. At(p, "append")' =>
        \A j \in DOMAIN proc'[p].items :
          (/\ proc'[p].items[j].kind = "comment"
           /\ IssueUrl[proc'[p].items[j].id] # NoNumber
           /\ IssueUrl[proc'[p].items[j].id] \notin straddled')
          => \/ \E kind \in Opening :
                  /\ <<Hosted, kind, IssueUrl[proc'[p].items[j].id]>> \in Id
                  /\ seq'[<<Hosted, kind, IssueUrl[proc'[p].items[j].id]>>] # 0
             \/ \E i \in 1..j-1 : Opens(proc'[p].items[i], IssueUrl[proc'[p].items[j].id])
  BY <1>3, <1>4
<1> QED
  BY <1>5, <1>6 DEF OrderInv, Promised, OpeningLogged, Opens

LEMMA RepoStepKeeps ==
  ASSUME IngestTypeOK, AppendInv, RepoStep
  PROVE  AppendInv'
<1>1. RepoInv' /\ straddled \subseteq straddled'
  BY RepoStepKeepsRepoInv DEF AppendInv
<1>2. proc' = Disturbed(Proc) /\ UNCHANGED vars
  BY DEF RepoStep, Open, Comment, Edit, Delete, RepoChanges
<1>3. \A p \in Proc : /\ ~proc'[p].quiet
                      /\ proc'[p].pc = proc[p].pc /\ proc'[p].items = proc[p].items
  BY <1>2 DEF Disturbed, IngestTypeOK, ProcType
<1>4. ASSUME NEW p \in Proc, At(p, "comments")
      PROVE  DOMAIN issues' \ straddled' \subseteq DOMAIN issues \ straddled
  <2>1. CASE \E n \in Number, post \in Post : Open(n, post)
    <3>1. PICK n \in Number, post \in Post : Open(n, post)
      BY <2>1
    <3>2. DOMAIN issues' = DOMAIN issues \cup {n} /\ n \in straddled'
      BY <1>4, <3>1 DEF Open, At
    <3> QED
      BY <1>1, <3>2
  <2>2. CASE (\E c \in CommentId, text \in Text : Comment(c, text)) \/ Edit \/ Delete
    <3>1. DOMAIN issues' \subseteq DOMAIN issues
      BY <2>2 DEF Comment, Edit, Delete, Restrict
    <3> QED
      BY <1>1, <3>1
  <2> QED
    BY <2>1, <2>2 DEF RepoStep
<1>5. ASSUME NEW p \in Proc PROVE CurrentInv(p)' /\ OrderInv(p)'
  <2>1. CurrentInv(p)'
    BY <1>3 DEF CurrentInv
  <2>2. OrderInv(p)
    BY DEF AppendInv
  <2>3. \A n : OpeningLogged(n) => OpeningLogged(n)'
    BY <1>2 DEF vars, OpeningLogged
  <2>4. OrderInv(p)'
    BY <1>1, <1>3, <1>4, <2>2, <2>3, OrderStays
  <2> QED
    BY <2>1, <2>4
<1>6. IssueBeforeComments'
  BY <1>1, <1>2, StillBefore DEF AppendInv, vars
<1> QED
  BY <1>1, <1>5, <1>6 DEF AppendInv

-----------------------------------------------------------------------------
(* The requests.                                                           *)

LEMMA ConcatSet ==
  ASSUME NEW S, NEW a \in Seq(S), NEW b \in Seq(S)
  PROVE  ToSet(a \o b) = ToSet(a) \cup ToSet(b)
<1> DEFINE c == a \o b
<1>1. /\ Len(c) = Len(a) + Len(b) /\ DOMAIN c = 1..Len(c)
      /\ DOMAIN a = 1..Len(a) /\ DOMAIN b = 1..Len(b)
      /\ Len(a) \in Nat /\ Len(b) \in Nat
      /\ \A i \in 1..Len(a) : c[i] = a[i]
      /\ \A i \in 1..Len(b) : c[Len(a) + i] = b[i]
  OBVIOUS
<1> HIDE DEF c
<1>2. \A i \in DOMAIN c : c[i] \in ToSet(a) \cup ToSet(b)
  <2> SUFFICES ASSUME NEW i \in DOMAIN c PROVE c[i] \in ToSet(a) \cup ToSet(b)
    OBVIOUS
  <2>1. CASE i <= Len(a)
    BY <1>1, <2>1 DEF ToSet
  <2>2. CASE i > Len(a)
    <3>1. i - Len(a) \in 1..Len(b) /\ i = Len(a) + (i - Len(a))
      BY <1>1, <2>2
    <3> QED
      BY <1>1, <3>1 DEF ToSet
  <2> QED
    BY <1>1, <2>1, <2>2
<1>3. \A i \in DOMAIN a : a[i] \in ToSet(c)
  BY <1>1 DEF ToSet
<1>4. \A i \in DOMAIN b : b[i] \in ToSet(c)
  <2> SUFFICES ASSUME NEW i \in DOMAIN b PROVE b[i] \in ToSet(c)
    OBVIOUS
  <2>1. Len(a) + i \in DOMAIN c /\ c[Len(a) + i] = b[i]
    BY <1>1
  <2> QED
    BY <2>1 DEF ToSet
<1>5. ToSet(c) = ToSet(a) \cup ToSet(b)
  BY <1>2, <1>3, <1>4 DEF ToSet
<1> QED
  BY <1>5 DEF c

\* A step of another process that writes nothing leaves what is known of this one.
LEMMA OtherProcess ==
  ASSUME NEW q \in Proc, CurrentInv(q), OrderInv(q), proc'[q] = proc[q],
         UNCHANGED <<vars, repoVars, straddled>>
  PROVE  CurrentInv(q)' /\ OrderInv(q)'
<1>1. CurrentInv(q)'
  BY DEF CurrentInv, At, CurrentIssues, CurrentComments, Newest, Oldest, repoVars, vars
<1>2. OrderInv(q)'
  <2>1. straddled' = straddled /\ issues' = issues /\ seq' = seq
    BY DEF repoVars, vars
  <2>2. \A n : OpeningLogged(n) => OpeningLogged(n)'
    BY <2>1 DEF OpeningLogged
  <2> QED
    BY <2>1, <2>2, OrderStays
<1> QED
  BY <1>1, <1>2

LEMMA QuietStepKeeps ==
  ASSUME IngestTypeOK, AppendInv, NEW p \in Proc, NEW r, proc' = [proc EXCEPT ![p] = r],
         Quietly, CurrentInv(p)', OrderInv(p)'
  PROVE  AppendInv'
<1>1. \A q \in Proc : q # p => proc'[q] = proc[q]
  BY DEF IngestTypeOK
<1>2. RepoInv'
  BY DEF AppendInv, RepoInv, OffPage, Newest, Quietly, repoVars
<1>3. \A q \in Proc : CurrentInv(q)' /\ OrderInv(q)'
  BY <1>1, OtherProcess DEF AppendInv, Quietly
<1>4. IssueBeforeComments'
  BY StillBefore DEF AppendInv, Quietly, vars
<1> QED
  BY <1>2, <1>3, <1>4 DEF AppendInv

LEMMA IdleKeeps ==
  ASSUME IngestTypeOK, AppendInv, NEW p \in Proc, Start(p) \/ FetchFails(p) \/ Exit(p)
  PROVE  AppendInv'
<1>1. PICK r : proc' = [proc EXCEPT ![p] = r] /\ r.pc \in {"idle", "issues"}
  <2>1. Idle.pc = "idle" /\ [Idle EXCEPT !.pc = "issues"].pc = "issues"
    BY DEF Idle
  <2> QED
    BY <2>1 DEF Start, FetchFails, Exit
<1>2. proc'[p] = r
  BY <1>1 DEF IngestTypeOK
<1>3. CurrentInv(p)' /\ OrderInv(p)'
  BY <1>1, <1>2 DEF CurrentInv, OrderInv, At
<1>4. Quietly
  BY DEF Start, FetchFails, Exit
<1> QED
  BY <1>1, <1>3, <1>4, QuietStepKeeps

LEMMA FetchIssuesKeeps ==
  ASSUME IngestTypeOK, AppendInv, NEW p \in Proc, FetchIssues(p)
  PROVE  AppendInv'
<1>1. PICK page \in IssuePages : proc' = [proc EXCEPT ![p].pc = "comments", ![p].items = page]
  BY DEF FetchIssues
<1> DEFINE r == [proc[p] EXCEPT !.pc = "comments", !.items = page]
<1>2. proc' = [proc EXCEPT ![p] = r]
  BY <1>1 DEF IngestTypeOK
<1>3. proc'[p].pc = "comments" /\ proc'[p].items = page
  BY <1>2 DEF IngestTypeOK, ProcType
<1>4. ToSet(page) = CurrentIssues
  BY PageContents
<1>5. UNCHANGED <<vars, repoVars, straddled>>
  BY DEF FetchIssues, Quietly
<1>6. CurrentIssues' = CurrentIssues
  BY <1>5 DEF CurrentIssues, Newest, repoVars
<1>7. CurrentInv(p)'
  BY <1>3, <1>4, <1>6 DEF CurrentInv, At
<1>8. \A n \in DOMAIN issues \ straddled : \E i \in DOMAIN page : Opens(page[i], n)
  <2> SUFFICES ASSUME NEW n \in DOMAIN issues \ straddled
               PROVE  \E i \in DOMAIN page : Opens(page[i], n)
    OBVIOUS
  <2>1. n \in Newest
    BY DEF AppendInv, RepoInv, OffPage
  <2>2. IssueItem(n, issues[n]) \in ToSet(page)
    BY <1>4, <2>1 DEF CurrentIssues
  <2>3. Opens(IssueItem(n, issues[n]), n)
    BY DEF Opens, Opening, IssueItem
  <2> QED
    BY <2>2, <2>3 DEF ToSet
<1>9. \A i \in DOMAIN page : page[i].kind \in Opening
  <2>1. \A i \in DOMAIN page : page[i] \in CurrentIssues
    BY <1>4 DEF ToSet
  <2> QED
    BY <2>1 DEF CurrentIssues, IssueItem, Opening
<1>10. OrderInv(p)'
  BY <1>3, <1>5, <1>8, <1>9 DEF OrderInv, At, Opens, repoVars
<1> QED
  BY <1>2, <1>7, <1>10, QuietStepKeeps DEF FetchIssues

LEMMA FetchCommentsKeeps ==
  ASSUME IngestTypeOK, AppendInv, NEW p \in Proc, FetchComments(p)
  PROVE  AppendInv'
<1>1. PICK page \in CommentPages :
        proc' = [proc EXCEPT ![p].pc = "append", ![p].items = @ \o page]
  BY DEF FetchComments
<1> DEFINE held == proc[p].items
           items == held \o page
           r == [proc[p] EXCEPT !.pc = "append", !.items = items]
<1>2. proc' = [proc EXCEPT ![p] = r]
  BY <1>1 DEF IngestTypeOK
<1>3. proc'[p].pc = "append" /\ proc'[p].items = items /\ proc'[p].quiet = proc[p].quiet
  BY <1>2 DEF IngestTypeOK, ProcType
<1>4. held \in Seq(Item) /\ page \in Seq(Item)
  BY PagesAreItems DEF IngestTypeOK, ProcType
<1>5. ToSet(items) = ToSet(held) \cup CurrentComments
  BY <1>4, ConcatSet, PageContents
<1>6. UNCHANGED <<vars, repoVars, straddled>> /\ At(p, "comments")
  BY DEF FetchComments, Quietly
<1>7. CurrentIssues' = CurrentIssues /\ CurrentComments' = CurrentComments
  BY <1>6 DEF CurrentIssues, CurrentComments, Newest, Oldest, repoVars
<1>8. CurrentInv(p)'
  <2>1. proc[p].quiet => ToSet(held) = CurrentIssues
    BY <1>6 DEF AppendInv, CurrentInv
  <2> HIDE DEF held, items
  <2> QED
    BY <1>3, <1>5, <1>7, <2>1 DEF CurrentInv, At
<1>9. ASSUME NEW j \in DOMAIN items, items[j].kind = "comment", Promised(items[j].id)
      PROVE  \E i \in 1..j-1 : Opens(items[i], IssueUrl[items[j].id])
  <2>1. /\ \A i \in DOMAIN held : held[i].kind # "comment"
        /\ \A n \in DOMAIN issues \ straddled : \E i \in DOMAIN held : Opens(held[i], n)
    BY <1>6 DEF AppendInv, OrderInv, Opening
  <2>2. /\ DOMAIN items = 1..Len(held) + Len(page)
        /\ DOMAIN held = 1..Len(held) /\ DOMAIN page = 1..Len(page)
        /\ Len(held) \in Nat /\ Len(page) \in Nat
        /\ \A i \in 1..Len(held) : items[i] = held[i]
        /\ \A i \in 1..Len(page) : items[Len(held) + i] = page[i]
    BY <1>4
  <2> HIDE DEF held, items
  <2>3. j > Len(held)
    BY <1>9, <2>1, <2>2
  <2>4. j - Len(held) \in DOMAIN page /\ items[j] = page[j - Len(held)]
    <3>1. j - Len(held) \in 1..Len(page) /\ Len(held) + (j - Len(held)) = j
      BY <2>2, <2>3
    <3> QED
      BY <2>2, <3>1
  <2>5. items[j] \in CurrentComments
    BY <2>4, PageContents DEF ToSet
  <2>6. items[j].id \in DOMAIN comments
    <3>1. PICK c \in Oldest : items[j] = CommentItem(c, comments[c])
      BY <2>5 DEF CurrentComments
    <3>2. items[j].id = c
      BY <3>1 DEF CommentItem
    <3> QED
      BY <3>2 DEF Oldest
  <2>7. IssueUrl[items[j].id] \in DOMAIN issues \ straddled
    BY <1>9, <2>6 DEF AppendInv, RepoInv, Promised
  <2>8. PICK i \in DOMAIN held : Opens(held[i], IssueUrl[items[j].id])
    BY <2>1, <2>7
  <2>9. i \in 1..j-1 /\ items[i] = held[i]
    BY <2>2, <2>3, <2>8
  <2> QED
    BY <2>8, <2>9
<1>10. OrderInv(p)'
  <2> HIDE DEF items
  <2> QED
    BY <1>3, <1>6, <1>9 DEF OrderInv, At, Promised, Opens
<1> QED
  BY <1>2, <1>8, <1>10, QuietStepKeeps DEF FetchComments

-----------------------------------------------------------------------------
(* The appends.                                                            *)

\* An append numbers a new id after all there are, and no row is renumbered.
LEMMA AppendNumbers ==
  ASSUME IInv, NEW id \in Id, NEW e \in Envelope, AppendMessage(id, e)
  PROVE  /\ seq \in [Id -> Nat] /\ seq' \in [Id -> Nat]
         /\ \A i \in Id : i # id => seq'[i] = seq[i] /\ payload'[i] = payload[i]
         /\ seq[id] # 0 => seq'[id] = seq[id]
         /\ seq[id] = 0 => \A i \in Id : seq[i] < seq'[id]
         /\ seq'[id] # 0
         /\ payload'[id] = e
<1>1. PICK n \in Nat : Numbered(n)
  BY DEF IInv
<1>2. MaxSeq = n
  BY <1>1, MaxSeqIsLength DEF IInv, TypeOK
<1>3. seq \in [Id -> Nat] /\ payload' = [payload EXCEPT ![id] = e] /\ DOMAIN payload = Id
  BY DEF IInv, TypeOK, AppendMessage
<1>4. seq' = IF seq[id] # 0 THEN seq ELSE [seq EXCEPT ![id] = n + 1]
  BY <1>2 DEF AppendMessage
<1>5. \A i \in Id : seq[i] <= n
  BY <1>1 DEF Numbered
<1> QED
  BY <1>3, <1>4, <1>5

\* An append of another message than a promised comment leaves comments after their
\* openings.
LEMMA OtherAppendKeepsOrder ==
  ASSUME IInv, IssueBeforeComments, NEW id \in Id, NEW e \in Envelope, AppendMessage(id, e),
         straddled \subseteq straddled',
         \A c \in CommentId :
           id = <<Hosted, "comment", c>> /\ seq[id] = 0
             => \/ OpeningLogged(IssueUrl[c]) \/ IssueUrl[c] = NoNumber
                \/ IssueUrl[c] \in straddled'
  PROVE  IssueBeforeComments'
<1>1. /\ seq \in [Id -> Nat] /\ seq' \in [Id -> Nat]
      /\ \A i \in Id : i # id => seq'[i] = seq[i]
      /\ seq[id] # 0 => seq'[id] = seq[id]
      /\ seq[id] = 0 => \A i \in Id : seq[i] < seq'[id]
  BY AppendNumbers
<1>2. \A i \in Id : seq[i] # 0 => seq'[i] = seq[i]
  BY <1>1
<1> SUFFICES ASSUME NEW c \in CommentId, seq'[<<Hosted, "comment", c>>] # 0,
                    IssueUrl[c] # NoNumber, IssueUrl[c] \notin straddled'
             PROVE  \E kind \in Opening :
                      /\ <<Hosted, kind, IssueUrl[c]>> \in Id
                      /\ seq'[<<Hosted, kind, IssueUrl[c]>>] \in 1..seq'[<<Hosted, "comment", c>>]
  BY DEF IssueBeforeComments, Promised, Opening
<1> DEFINE cid == <<Hosted, "comment", c>>
           n == IssueUrl[c]
<1>3. cid \in Id
  <2>1. PICK text \in Text : TRUE
    BY IngestAssumption
  <2>2. CommentItem(c, text) \in Item
    BY DEF Item
  <2>3. MessageId(CommentItem(c, text)) = cid
    BY DEF MessageId, CommentItem
  <2> QED
    BY <2>2, <2>3, IngestAssumption
<1>4. \A kind \in Opening : <<Hosted, kind, n>> # cid
  BY DEF Opening
<1>5. CASE seq[cid] # 0
  <2>1. PICK kind \in Opening :
          <<Hosted, kind, n>> \in Id /\ seq[<<Hosted, kind, n>>] \in 1..seq[cid]
    BY <1>5 DEF IssueBeforeComments, Promised, Opening
  <2>2. seq[<<Hosted, kind, n>>] # 0
    BY <1>1, <1>3, <2>1
  <2>3. seq'[<<Hosted, kind, n>>] = seq[<<Hosted, kind, n>>] /\ seq'[cid] = seq[cid]
    BY <1>2, <1>3, <1>5, <2>1, <2>2
  <2> QED
    BY <2>1, <2>3
<1>6. CASE seq[cid] = 0
  <2>1. id = cid
    BY <1>1, <1>3, <1>6
  <2>2. OpeningLogged(n)
    BY <1>6, <2>1
  <2>3. PICK kind \in Opening : <<Hosted, kind, n>> \in Id /\ seq[<<Hosted, kind, n>>] # 0
    BY <2>2 DEF OpeningLogged
  <2>4. seq'[<<Hosted, kind, n>>] = seq[<<Hosted, kind, n>>]
    BY <1>2, <2>3
  <2>5. seq[<<Hosted, kind, n>>] < seq'[cid]
    BY <1>1, <1>6, <2>1, <2>3
  <2>6. seq[<<Hosted, kind, n>>] \in Nat /\ seq'[cid] \in Nat
    BY <1>1, <1>3, <2>3
  <2>7. seq'[<<Hosted, kind, n>>] \in 1..seq'[cid]
    BY <2>3, <2>4, <2>5, <2>6
  <2> QED
    BY <2>3, <2>7
<1> QED
  BY <1>5, <1>6

\* What is in the log stays in the log.
LEMMA OpeningsStay ==
  ASSUME IInv, NEW id \in Id, NEW e \in Envelope, AppendMessage(id, e)
  PROVE  \A n : OpeningLogged(n) => OpeningLogged(n)'
<1>1. \A i \in Id : seq[i] # 0 => seq'[i] # 0
  BY AppendNumbers
<1> QED
  BY <1>1 DEF OpeningLogged

LEMMA AppendItemKeeps ==
  ASSUME IInv, IngestTypeOK, AppendInv, NEW p \in Proc, AppendItem(p)
  PROVE  AppendInv'
<1> DEFINE items == proc[p].items
           item == Head(items)
           id == MessageId(item)
<1>1. /\ At(p, "append") /\ items # << >> /\ items \in Seq(Item)
      /\ AppendMessage(id, ToMessage(item))
      /\ UNCHANGED <<issues, comments, straddled>>
  BY DEF AppendItem, IngestTypeOK, ProcType, repoVars
<1>2. /\ item \in Item /\ id \in Id /\ ToMessage(item) \in Envelope
      /\ item = items[1] /\ 1 \in DOMAIN items
  BY <1>1, ItemFacts
<1>3. /\ Len(Tail(items)) = Len(items) - 1 /\ Len(items) \in Nat /\ Tail(items) \in Seq(Item)
      /\ DOMAIN Tail(items) = 1..Len(items)-1 /\ DOMAIN items = 1..Len(items)
      /\ \A j \in 1..Len(items)-1 : Tail(items)[j] = items[j + 1]
  BY <1>1
<1>4. /\ \A q \in Proc : q # p => /\ ~proc'[q].quiet
                                  /\ proc'[q].pc = proc[q].pc /\ proc'[q].items = proc[q].items
      /\ proc'[p].pc = "append" /\ proc'[p].quiet = proc[p].quiet
      /\ proc'[p].items = Tail(items)
  <2> DEFINE d == Disturbed(Proc \ {p})
  <2>1. /\ d \in [Proc -> ProcType] /\ d[p] = proc[p]
        /\ \A q \in Proc : q # p => ~d[q].quiet /\ d[q].pc = proc[q].pc /\ d[q].items = proc[q].items
    BY DisturbedIsTyped DEF Disturbed, IngestTypeOK, ProcType
  <2>2. proc' = [d EXCEPT ![p].items = Tail(items)]
    BY <2>1 DEF AppendItem
  <2> HIDE DEF d
  <2> QED
    BY <1>1, <2>1, <2>2 DEF ProcType, At
<1>5. /\ \A i \in Id : i # id => payload'[i] = payload[i]
      /\ payload'[id] = ToMessage(item) /\ seq'[id] # 0
  BY <1>1, <1>2, AppendNumbers
<1>6. RepoInv'
  BY <1>1 DEF AppendInv, RepoInv, OffPage, Newest
<1>7. CurrentIssues' = CurrentIssues /\ CurrentComments' = CurrentComments
  BY <1>1 DEF CurrentIssues, CurrentComments, Newest, Oldest
<1>8. ASSUME proc[p].quiet PROVE CurrentInv(p)'
  <2> DEFINE Current == CurrentIssues \cup CurrentComments
             rest == Tail(items)
  <2>1. /\ ToSet(items) \subseteq Current
        /\ \A x \in Current : x \in ToSet(items) \/ payload[MessageId(x)] = ToMessage(x)
    BY <1>1, <1>8 DEF AppendInv, CurrentInv
  <2>2. ToSet(rest) \subseteq ToSet(items) /\ ToSet(items) \subseteq ToSet(rest) \cup {item}
    <3> HIDE DEF items, item
    <3>1. \A j \in DOMAIN rest : rest[j] \in ToSet(items)
      BY <1>3 DEF ToSet
    <3>2. \A j \in DOMAIN items : items[j] \in ToSet(rest) \cup {item}
      <4> SUFFICES ASSUME NEW j \in DOMAIN items PROVE items[j] \in ToSet(rest) \cup {item}
        OBVIOUS
      <4>1. CASE j = 1
        BY <1>2, <4>1
      <4>2. CASE j # 1
        <5>1. j - 1 \in 1..Len(items)-1 /\ (j - 1) + 1 = j
          BY <1>3, <4>2
        <5> QED
          BY <1>3, <5>1 DEF ToSet
      <4> QED
        BY <4>1, <4>2
    <3> QED
      BY <3>1, <3>2 DEF ToSet
  <2>3. item \in Current
    BY <1>2, <2>1 DEF ToSet
  <2>4. \A x \in Current : MessageId(x) \in Id
    <3>1. Current \subseteq Item
      BY CurrentItems
    <3> QED
      BY <3>1, ItemFacts
  <2>5. \A x \in Current : x \in ToSet(rest) \/ payload'[MessageId(x)] = ToMessage(x)
    <3> SUFFICES ASSUME NEW x \in Current, x \notin ToSet(rest)
                 PROVE  payload'[MessageId(x)] = ToMessage(x)
      OBVIOUS
    <3>1. CASE MessageId(x) = id
      <4>1. x = item
        <5> HIDE DEF item
        <5> QED
          BY <2>3, <3>1, CurrentIdsAreDistinct
      <4> QED
        BY <1>5, <4>1
    <3>2. CASE MessageId(x) # id
      <4>1. x # item
        BY <3>2
      <4> HIDE DEF items, item, rest
      <4> QED
        BY <1>5, <2>1, <2>2, <2>4, <3>2, <4>1
    <3> QED
      BY <3>1, <3>2
  <2> QED
    BY <1>4, <1>7, <2>1, <2>2, <2>5 DEF CurrentInv, At
<1>9. ASSUME NEW q \in Proc PROVE CurrentInv(q)'
  BY <1>4, <1>8 DEF CurrentInv
<1>10. \A n : OpeningLogged(n) => OpeningLogged(n)'
  BY <1>1, <1>2, OpeningsStay
<1>11. ASSUME NEW q \in Proc, q # p PROVE OrderInv(q)'
  <2>1. OrderInv(q) /\ proc'[q].pc = proc[q].pc /\ proc'[q].items = proc[q].items
    BY <1>4, <1>11 DEF AppendInv
  <2>2. \A n : (\E kind \in Opening : <<Hosted, kind, n>> \in Id /\ seq[<<Hosted, kind, n>>] # 0)
                 => \E kind \in Opening : <<Hosted, kind, n>> \in Id /\ seq'[<<Hosted, kind, n>>] # 0
    BY <1>10 DEF OpeningLogged
  <2>3. CASE At(q, "append")
    <3> DEFINE its == proc[q].items
               n(j) == IssueUrl[its[j].id]
    <3>1. \A j \in DOMAIN its : its[j].kind = "comment" /\ n(j) # NoNumber /\ n(j) \notin straddled =>
             \/ \E kind \in Opening : <<Hosted, kind, n(j)>> \in Id /\ seq[<<Hosted, kind, n(j)>>] # 0
             \/ \E i \in 1..j-1 : Opens(its[i], n(j))
      BY <2>1, <2>3 DEF OrderInv, Promised, OpeningLogged
    <3>2. \A j \in DOMAIN its : its[j].kind = "comment" /\ n(j) # NoNumber /\ n(j) \notin straddled =>
             \/ \E kind \in Opening : <<Hosted, kind, n(j)>> \in Id /\ seq'[<<Hosted, kind, n(j)>>] # 0
             \/ \E i \in 1..j-1 : Opens(its[i], n(j))
      BY <2>2, <3>1
    <3>3. proc'[q].pc = "append" /\ proc'[q].items = its /\ straddled' = straddled
      BY <1>1, <2>1, <2>3 DEF At
    <3> HIDE DEF its
    <3> QED
      BY <3>2, <3>3 DEF OrderInv, At, Promised, OpeningLogged, Opens
  <2>4. CASE ~At(q, "append")
    BY <1>1, <2>1, <2>4 DEF OrderInv, At, Opens
  <2> QED
    BY <2>3, <2>4
<1>12. OrderInv(p)'
  <2> DEFINE rest == Tail(items)
  <2>1. ASSUME NEW j \in DOMAIN rest, rest[j].kind = "comment", Promised(rest[j].id)
        PROVE  \/ (OpeningLogged(IssueUrl[rest[j].id]))
               \/ seq'[id] # 0 /\ id \in Id /\ \E kind \in Opening : id = <<Hosted, kind, IssueUrl[rest[j].id]>>
               \/ \E i \in 1..j-1 : Opens(rest[i], IssueUrl[rest[j].id])
    <3>1. j \in 1..Len(items)-1 /\ j + 1 \in DOMAIN items /\ rest[j] = items[j + 1]
      BY <1>3
    <3> DEFINE n == IssueUrl[rest[j].id]
    <3>2. OpeningLogged(n) \/ \E i \in 1..(j+1)-1 : Opens(items[i], n)
      BY <1>1, <2>1, <3>1 DEF AppendInv, OrderInv
    <3>3. ASSUME NEW i \in 1..(j+1)-1, Opens(items[i], n)
          PROVE  (\E kind \in Opening : id = <<Hosted, kind, n>>) \/ \E k \in 1..j-1 : Opens(rest[k], n)
      <4>1. CASE i = 1
        BY <1>2, <3>3, <4>1 DEF Opens, MessageId
      <4>2. CASE i # 1
        <5>1. i - 1 \in 1..j-1 /\ i - 1 \in 1..Len(items)-1 /\ (i - 1) + 1 = i
          BY <1>3, <3>1, <4>2
        <5>2. rest[i - 1] = items[i]
          BY <1>3, <5>1
        <5> QED
          BY <3>3, <5>1, <5>2
      <4> QED
        BY <4>1, <4>2
    <3> QED
      BY <1>2, <1>5, <3>2, <3>3
  <2>2. \A n : (\E kind \in Opening : <<Hosted, kind, n>> \in Id /\ seq[<<Hosted, kind, n>>] # 0)
                 => \E kind \in Opening : <<Hosted, kind, n>> \in Id /\ seq'[<<Hosted, kind, n>>] # 0
    BY <1>10 DEF OpeningLogged
  <2>3. proc'[p].pc = "append" /\ proc'[p].items = rest /\ straddled' = straddled
    BY <1>1, <1>4
  <2> HIDE DEF rest, id
  <2> QED
    BY <2>1, <2>2, <2>3 DEF OrderInv, At, Promised, OpeningLogged, Opens
<1>13. IssueBeforeComments'
  <2>1. ASSUME NEW c \in CommentId, id = <<Hosted, "comment", c>>, Promised(c)
        PROVE  OpeningLogged(IssueUrl[c])
    <3>1. item.kind = "comment" /\ item.id = c
      BY <2>1 DEF MessageId
    <3>2. OrderInv(p)
      BY DEF AppendInv
    <3>3. OpeningLogged(IssueUrl[c]) \/ \E i \in 1..1-1 : Opens(items[i], IssueUrl[c])
      BY <1>1, <1>2, <2>1, <3>1, <3>2 DEF OrderInv
    <3> QED
      BY <3>3
  <2> HIDE DEF id, item
  <2>2. \A c \in CommentId :
          id = <<Hosted, "comment", c>> /\ seq[id] = 0
            => \/ OpeningLogged(IssueUrl[c]) \/ IssueUrl[c] = NoNumber
               \/ IssueUrl[c] \in straddled'
    BY <1>1, <2>1 DEF Promised
  <2> QED
    BY <1>1, <1>2, <2>2, OtherAppendKeepsOrder DEF AppendInv
<1> QED
  BY <1>6, <1>9, <1>11, <1>12, <1>13 DEF AppendInv

\* An ingest by hand writes no item, or it disturbs everybody; and it makes no promise
\* of a comment.
LEMMA IngestByHandKeeps ==
  ASSUME IInv, IngestTypeOK, AppendInv, NEW id \in Id, NEW e \in Pasted, Ingest(id, e)
  PROVE  AppendInv'
<1>1. /\ AppendMessage(id, e) /\ e \in Envelope
      /\ UNCHANGED <<issues, comments>> /\ straddled \subseteq straddled'
  BY IngestAssumption DEF Ingest, repoVars
<1>2. \A i \in Id : i # id => payload'[i] = payload[i]
  BY <1>1, AppendNumbers
<1>3. RepoInv'
  BY <1>1 DEF AppendInv, RepoInv, OffPage, Newest
<1>4. /\ CurrentIssues' = CurrentIssues /\ CurrentComments' = CurrentComments
      /\ CurrentIssues \cup CurrentComments \subseteq Item
  BY <1>1, CurrentItems DEF CurrentIssues, CurrentComments, Newest, Oldest
<1>5. \A q \in Proc : /\ proc'[q].pc = proc[q].pc /\ proc'[q].items = proc[q].items
                      /\ id \in {MessageId(item) : item \in Item} => ~proc'[q].quiet
                      /\ id \notin {MessageId(item) : item \in Item} => proc'[q] = proc[q]
  BY DEF Ingest, Disturbed, IngestTypeOK, ProcType
<1>6. ASSUME NEW q \in Proc PROVE CurrentInv(q)'
  <2>1. CASE id \in {MessageId(item) : item \in Item}
    BY <1>5, <2>1 DEF CurrentInv
  <2>2. CASE id \notin {MessageId(item) : item \in Item}
    <3>1. \A x \in Item : MessageId(x) \in Id /\ MessageId(x) # id
      BY <2>2, IngestAssumption
    <3>2. \A x \in CurrentIssues \cup CurrentComments :
            payload'[MessageId(x)] = payload[MessageId(x)]
      BY <1>2, <1>4, <3>1
    <3>3. CurrentInv(q) /\ proc'[q] = proc[q]
      BY <1>5, <2>2 DEF AppendInv
    <3> QED
      BY <1>4, <3>2, <3>3 DEF CurrentInv, At
  <2> QED
    BY <2>1, <2>2
<1>7. ASSUME NEW q \in Proc PROVE OrderInv(q)'
  <2>1. OrderInv(q)
    BY DEF AppendInv
  <2>2. \A n : OpeningLogged(n) => OpeningLogged(n)'
    BY <1>1, OpeningsStay
  <2> QED
    BY <1>1, <1>5, <2>1, <2>2, OrderStays
<1>8. IssueBeforeComments'
  <2>1. \A c \in CommentId :
          id = <<Hosted, "comment", c>> /\ seq[id] = 0 => IssueUrl[c] \in straddled'
    BY DEF Ingest
  <2> QED
    BY <1>1, <2>1, OtherAppendKeepsOrder DEF AppendInv
<1> QED
  BY <1>3, <1>6, <1>7, <1>8 DEF AppendInv

-----------------------------------------------------------------------------
(* The two promises of an ingest.                                          *)

LEMMA IngestInvariance == IngestSpec => []AppendInv
<1>1. IngestInit => AppendInv
  <2> SUFFICES ASSUME IngestInit PROVE AppendInv
    OBVIOUS
  <2>1. \A p \in Proc : CurrentInv(p) /\ OrderInv(p)
    BY DEF IngestInit, CurrentInv, OrderInv, At, Idle
  <2>2. RepoInv
    BY DEF IngestInit, RepoInv, OffPage, Newest
  <2>3. IssueBeforeComments
    <3>1. \A c \in CommentId : <<Hosted, "comment", c>> \in Id
      <4> SUFFICES ASSUME NEW c \in CommentId PROVE <<Hosted, "comment", c>> \in Id
        OBVIOUS
      <4>1. PICK text \in Text : TRUE
        BY IngestAssumption
      <4>2. CommentItem(c, text) \in Item
        BY DEF Item
      <4>3. MessageId(CommentItem(c, text)) = <<Hosted, "comment", c>>
        BY DEF MessageId, CommentItem
      <4> QED
        BY <4>2, <4>3, IngestAssumption
    <3> QED
      BY <3>1 DEF IngestInit, Init, IssueBeforeComments
  <2> QED
    BY <2>1, <2>2, <2>3 DEF AppendInv
<1>2. IInv /\ IngestTypeOK /\ AppendInv /\ [IngestNext]_ingestVars => AppendInv'
  <2> SUFFICES ASSUME IInv, IngestTypeOK, AppendInv, [IngestNext]_ingestVars PROVE AppendInv'
    OBVIOUS
  <2>1. CASE RepoStep
    BY <2>1, RepoStepKeeps
  <2>2. ASSUME NEW p \in Proc,
               \/ Start(p) \/ FetchIssues(p) \/ FetchComments(p) \/ FetchFails(p)
               \/ AppendItem(p) \/ Exit(p)
        PROVE  AppendInv'
    BY <2>2, IdleKeeps, FetchIssuesKeeps, FetchCommentsKeeps, AppendItemKeeps
  <2>3. CASE \E id \in Id, e \in Pasted : Ingest(id, e)
    BY <2>3, IngestByHandKeeps
  <2>4. CASE UNCHANGED ingestVars
    <3>1. UNCHANGED <<vars, repoVars, straddled, proc>>
      BY <2>4 DEF ingestVars, vars
    <3>2. \A q \in Proc : CurrentInv(q)' /\ OrderInv(q)'
      BY <3>1, OtherProcess DEF AppendInv
    <3>3. RepoInv'
      BY <3>1 DEF AppendInv, RepoInv, OffPage, Newest, repoVars
    <3>4. IssueBeforeComments'
      BY <3>1, StillBefore DEF AppendInv, vars
    <3> QED
      BY <3>2, <3>3, <3>4 DEF AppendInv
  <2> QED
    BY <2>1, <2>2, <2>3, <2>4 DEF IngestNext
<1>3. IngestInit => Init
  BY DEF IngestInit
<1>4. IngestTypeOK /\ [IngestNext]_ingestVars => [Next]_vars
  BY IngestStepsAreStoreSteps
<1>5. IngestSpec => Spec
  BY <1>3, <1>4, IngestTypeCorrect, PTL DEF IngestSpec, Spec
<1> QED
  BY <1>1, <1>2, <1>5, IngestTypeCorrect, Invariance, PTL DEF IngestSpec

(* A comment is in the log only after its issue or pull request, whatever  *)
(* fails, is killed, overlaps or changes on the server - unless the issue  *)
(* was opened between the two requests of an ingest, or was pushed off the *)
(* one page of issues that is fetched (rest.rs:144 and 168), or a comment  *)
(* of it was first ingested by hand.                                       *)
THEOREM OpeningsGoFirst == IngestSpec => []IssueBeforeComments
<1>1. AppendInv => IssueBeforeComments
  BY DEF AppendInv
<1> QED
  BY <1>1, IngestInvariance, PTL

(* An ingest that completed undisturbed leaves every item of the two first *)
(* pages in the log with its current text, whatever earlier, killed or     *)
(* overlapping ingests left there (source.rs:41-44).                       *)
THEOREM IngestsConverge == IngestSpec => []CompletedIngestIsCurrent
<1>1. IngestTypeOK /\ AppendInv => CompletedIngestIsCurrent
  <2> SUFFICES ASSUME IngestTypeOK, AppendInv, NEW p \in Proc,
                      At(p, "append"), proc[p].items = << >>, proc[p].quiet,
                      NEW page \in IssuePages \cup CommentPages, NEW k \in DOMAIN page
               PROVE  payload[MessageId(page[k])] = ToMessage(page[k])
    BY DEF CompletedIngestIsCurrent
  <2>1. page[k] \in CurrentIssues \cup CurrentComments
    BY PageContents DEF ToSet
  <2>2. ToSet(proc[p].items) = {}
    BY DEF ToSet
  <2> QED
    BY <2>1, <2>2 DEF AppendInv, CurrentInv
<1> QED
  BY <1>1, IngestInvariance, IngestTypeCorrect, PTL

=============================================================================
