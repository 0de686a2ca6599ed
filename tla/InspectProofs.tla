---------------------------- MODULE InspectProofs ----------------------------
(***************************************************************************)
(* Theorems of Inspect and of the two stores it composes, ProjectionCache  *)
(* and TraceStore, for any number of processes, projector versions,        *)
(* messages and answers.                                                   *)
(***************************************************************************)
EXTENDS Inspect, FiniteSetTheorems, SequenceTheorems, TLAPS

-----------------------------------------------------------------------------
(* ProjectionCache.                                                        *)

\* An answer that waits to be written is one the model gave for that row.
Asked ==
  \A p \in Process : pc[p] = "putting" => <<version[p], key[p], out[p]>> \in answers

IInv == TypeOK /\ RowsAreAnswers /\ Asked /\ WritesOnce

LEMMA InitIInv == Init => IInv
  BY NoneAssumption DEF NoneAssumption, Init, IInv, TypeOK, PC, RowsAreAnswers, Asked, WritesOnce

LEMMA OpenKeepsIInv ==
  ASSUME IInv, NEW p \in Process, NEW v \in Version, Open(p, v)
  PROVE  IInv'
<1> USE NoneAssumption DEF NoneAssumption, IInv
<1>1. CASE UNCHANGED <<rows, wrote>>
  <2>1. TypeOK'
    BY <1>1 DEF Open, TypeOK, PC
  <2>2. RowsAreAnswers' /\ Asked' /\ WritesOnce'
    BY <1>1 DEF Open, TypeOK, RowsAreAnswers, Asked, WritesOnce
  <2> QED
    BY <2>1, <2>2
<1>2. CASE PruneSuperseded(v)
  <2>1. TypeOK'
    <3>1. /\ rows' \in [Version -> [Key -> Projection \cup {None}]]
          /\ wrote' \subseteq Process \X Version \X Key
      BY <1>2 DEF PruneSuperseded, TypeOK
    <3> QED
      BY <3>1 DEF Open, TypeOK, PC
  <2>2. RowsAreAnswers'
    BY <1>2 DEF Open, PruneSuperseded, TypeOK, RowsAreAnswers
  <2>3. Asked'
    BY DEF Open, TypeOK, Asked
  <2>4. WritesOnce'
    BY <1>2 DEF Open, PruneSuperseded, TypeOK, WritesOnce
  <2> QED
    BY <2>1, <2>2, <2>3, <2>4
<1> QED
  BY <1>1, <1>2 DEF Open

LEMMA MissKeepsIInv ==
  ASSUME IInv, NEW p \in Process, NEW k \in Key, Miss(p, k)
  PROVE  IInv'
<1> USE NoneAssumption DEF NoneAssumption, IInv
<1>1. TypeOK'
  BY DEF Miss, TypeOK, PC
<1>2. RowsAreAnswers' /\ Asked'
  BY DEF Miss, TypeOK, RowsAreAnswers, Asked
<1>3. WritesOnce'
  <2>1. version[p] \in Version
    BY DEF Miss, TypeOK
  <2>2. <<p, version[p], k>> \notin wrote
    BY <2>1 DEF Miss, WritesOnce
  <2> QED
    BY <2>2 DEF Miss, TypeOK, WritesOnce
<1> QED
  BY <1>1, <1>2, <1>3

LEMMA InnerKeepsIInv ==
  ASSUME IInv, NEW p \in Process,
         InnerPanics(p) \/ \E x \in Projection : InnerReturns(p, x)
  PROVE  IInv'
<1> USE NoneAssumption DEF NoneAssumption, IInv
<1>1. CASE InnerPanics(p)
  <2>1. TypeOK'
    BY <1>1 DEF InnerPanics, TypeOK, PC
  <2> QED
    BY <1>1, <2>1 DEF InnerPanics, TypeOK, RowsAreAnswers, Asked, WritesOnce
<1>2. ASSUME NEW x \in Projection, InnerReturns(p, x) PROVE IInv'
  <2>1. version[p] \in Version /\ key[p] \in Key
    BY <1>2 DEF InnerReturns, TypeOK
  <2>2. TypeOK'
    BY <1>2, <2>1 DEF InnerReturns, TypeOK, PC
  <2>3. RowsAreAnswers'
    BY <1>2 DEF InnerReturns, RowsAreAnswers
  <2>4. Asked'
    BY <1>2 DEF InnerReturns, TypeOK, Asked
  <2>5. WritesOnce'
    BY <1>2 DEF InnerReturns, WritesOnce
  <2> QED
    BY <2>2, <2>3, <2>4, <2>5
<1> QED
  BY <1>1, <1>2

LEMMA PutKeepsIInv ==
  ASSUME IInv, NEW p \in Process, Put(p)
  PROVE  IInv'
<1> USE NoneAssumption DEF NoneAssumption, IInv
<1>1. version[p] \in Version /\ key[p] \in Key /\ out[p] \in Projection
  BY DEF Put, TypeOK
<1>2. TypeOK'
  BY <1>1 DEF Put, TypeOK, PC
<1>3. RowsAreAnswers'
  BY <1>1 DEF Put, TypeOK, RowsAreAnswers, Asked
<1>4. Asked'
  BY DEF Put, TypeOK, Asked
<1>5. WritesOnce'
  <2>1. ASSUME NEW q \in Process, NEW v \in Version, NEW k \in Key, <<q, v, k>> \in wrote'
        PROVE  rows'[v][k] # None
    BY <1>1, <2>1 DEF Put, TypeOK, WritesOnce
  <2>2. ASSUME NEW q \in Process, key'[q] # None
        PROVE  <<q, version'[q], key'[q]>> \notin wrote'
    BY <1>1, <2>2 DEF Put, TypeOK, WritesOnce
  <2> QED
    BY <2>1, <2>2 DEF WritesOnce
<1> QED
  BY <1>2, <1>3, <1>4, <1>5

LEMMA ExitKeepsIInv ==
  ASSUME IInv, NEW p \in Process, Exit(p)
  PROVE  IInv'
<1> USE NoneAssumption DEF NoneAssumption, IInv
<1>1. TypeOK'
  BY DEF Exit, TypeOK, PC
<1> QED
  BY <1>1 DEF Exit, TypeOK, RowsAreAnswers, Asked, WritesOnce

LEMMA NextKeepsIInv == IInv /\ [Next]_vars => IInv'
<1> SUFFICES ASSUME IInv, [Next]_vars PROVE IInv'
  OBVIOUS
<1>1. ASSUME NEW p \in Process, NEW k \in Key, Hit(p, k) PROVE IInv'
  BY <1>1 DEF Hit, vars, IInv, TypeOK, RowsAreAnswers, Asked, WritesOnce
<1>2. CASE UNCHANGED vars
  BY <1>2 DEF vars, IInv, TypeOK, RowsAreAnswers, Asked, WritesOnce
<1> QED
  BY <1>1, <1>2, OpenKeepsIInv, MissKeepsIInv, InnerKeepsIInv, PutKeepsIInv, ExitKeepsIInv
  DEF Next

LEMMA Invariance == Spec => []IInv
BY InitIInv, NextKeepsIInv, PTL DEF Spec

(* Every variable keeps its type: a process has a key exactly while it     *)
(* projects, and an answer exactly between the model's return and the put  *)
(* (cache.rs Cached::run).                                                 *)
THEOREM TypeCorrect == Spec => []TypeOK
<1>1. IInv => TypeOK
  BY DEF IInv
<1> QED
  BY <1>1, Invariance, PTL

(* Nothing is cached but the model's own answer for that key under that    *)
(* version (cache.rs:93-97, sqlite_projection_cache.rs put).               *)
THEOREM CachedRowsAreAnswers == Spec => []RowsAreAnswers
<1>1. IInv => RowsAreAnswers
  BY DEF IInv
<1> QED
  BY <1>1, Invariance, PTL

(* A process never asks the model again for a row it wrote that stands     *)
(* (cache.rs:93), however many processes share the table.                  *)
THEOREM ProcessWritesOnce == Spec => []WritesOnce
<1>1. IInv => WritesOnce
  BY DEF IInv
<1> QED
  BY <1>1, Invariance, PTL

(* A frozen projection is replaced only by a process that missed the row   *)
(* before it was written (cache.rs Cached::run).                           *)
THEOREM RowsAreFrozen == Spec => FrozenUnlessRaced
<1>1. IInv /\ [Next]_vars =>
        [ \A v \in Version, k \in Key :
            (rows[v][k] # None /\ rows'[v][k] \notin {None, rows[v][k]})
              => \E p \in Process :
                   /\ pc[p] = "putting" /\ version[p] = v /\ key[p] = k
                   /\ rows'[v][k] = out[p]
                   /\ <<p, v, k>> \notin wrote ]_vars
  <2> SUFFICES ASSUME IInv, Next, NEW v \in Version, NEW k \in Key,
                      rows[v][k] # None, rows'[v][k] \notin {None, rows[v][k]}
               PROVE  \E p \in Process :
                        /\ pc[p] = "putting" /\ version[p] = v /\ key[p] = k
                        /\ rows'[v][k] = out[p]
                        /\ <<p, v, k>> \notin wrote
    OBVIOUS
  <2>1. PICK p \in Process : Put(p)
    <3>1. rows' # rows
      OBVIOUS
    <3>2. ASSUME NEW p \in Process, NEW w \in Version, Open(p, w) PROVE FALSE
      BY <3>1, <3>2 DEF Open, PruneSuperseded, IInv, TypeOK
    <3> QED
      BY <3>1, <3>2 DEF Next, Hit, Miss, InnerReturns, InnerPanics, Exit, vars
  <2>2. version[p] = v /\ key[p] = k /\ rows'[v][k] = out[p]
    BY <2>1 DEF Put, IInv, TypeOK
  <2>3. <<p, v, k>> \notin wrote
    BY <2>1, <2>2, NoneAssumption DEF NoneAssumption, Put, IInv, TypeOK, WritesOnce
  <2> QED
    BY <2>1, <2>2, <2>3 DEF Put
<1> QED
  BY <1>1, Invariance, PTL DEF Spec, FrozenUnlessRaced

-----------------------------------------------------------------------------
(* TraceStore.  Rowids are given in the order of insertion, so that what    *)
(* is above a row in the table was inserted after it.                       *)

Table ==
  /\ rowid \in [Message -> Nat]
  /\ IsFiniteSet(Stored)
  /\ \E b \in Nat : \A m \in Message : rowid[m] <= b
  /\ \A m, k \in Stored : rowid[m] = rowid[k] => m = k

TraceTypeOK ==
  /\ Table
  /\ cap \in [Writer -> Caps]
  /\ pending \in [Writer -> Message \cup {NoMessage}]
  /\ inserted \in Seq(Message)
  /\ returned \subseteq Message
  /\ unpruned \in Nat
  /\ sole \in Writer \cup {NoMessage}

\* A row with a higher rowid than m's was inserted after every insertion of m.
Ordered ==
  \A m, k \in Stored : rowid[m] < rowid[k] =>
    \A i \in 1 .. Len(inserted) : inserted[i] = m =>
      \E j \in i + 1 .. Len(inserted) : inserted[j] = k

TraceInv == TraceTypeOK /\ Ordered /\ GrowthBounded

\* A set of natural numbers that is bounded has a maximum, or is empty.
LEMMA MaximumExists ==
  ASSUME NEW S \in SUBSET Nat, NEW b \in Nat, \A s \in S : s <= b
  PROVE  \E x \in S \cup {0} : \A s \in S : s <= x
<1> DEFINE B == {c \in Nat : \A s \in S : s <= c}
<1>1. B # {} /\ B \subseteq Nat
  OBVIOUS
<1>2. PICK c \in B : \A d \in B : ~ (<<d, c>> \in OpToRel(<, Nat))
  BY <1>1, NatLessThanWellFounded, WFMin
<1>3. \A x, y \in Nat : x < y => <<x, y>> \in OpToRel(<, Nat)
  BY Zenon DEF OpToRel
<1>4. \A d \in B : ~ (d < c)
  BY <1>2, <1>3, Zenon DEF B
<1>5. c \in S \cup {0}
  <2> SUFFICES ASSUME c \notin S, c # 0 PROVE FALSE
    OBVIOUS
  <2>1. c - 1 \in Nat /\ \A s \in S : s <= c - 1
    OBVIOUS
  <2> QED
    BY <1>4, <2>1
<1> QED
  BY <1>5

\* A non-empty set of natural numbers has a minimum.
LEMMA MinimumExists ==
  ASSUME NEW S \in SUBSET Nat, S # {}
  PROVE  \E x \in S : \A s \in S : x <= s
<1>1. PICK x \in S : \A y \in S : ~ (<<y, x>> \in OpToRel(<, Nat))
  BY NatLessThanWellFounded, WFMin
<1>2. \A x1, y \in Nat : x1 < y => <<x1, y>> \in OpToRel(<, Nat)
  BY Zenon DEF OpToRel
<1>3. \A y \in S : ~ (y < x)
  BY <1>1, <1>2, Zenon
<1> QED
  BY <1>3

\* A new row goes above all others.
LEMMA NextRowidIsAbove ==
  ASSUME Table
  PROVE  NextRowid \in Nat \ {0} /\ \A m \in Message : rowid[m] < NextRowid
<1> DEFINE S == {rowid[m] : m \in Message}
<1>1. S \subseteq Nat /\ \E b \in Nat : \A s \in S : s <= b
  BY DEF Table
<1>2. \E x \in S \cup {0} : \A s \in S : s <= x
  BY <1>1, MaximumExists
<1>3. \E x \in S \cup {0} : \A m \in Message : rowid[m] <= x
  BY <1>2
<1> DEFINE x == CHOOSE n \in S \cup {0} : \A m \in Message : rowid[m] <= n
<1>4. x \in S \cup {0} /\ \A m \in Message : rowid[m] <= x
  BY <1>3, Zenon
<1>5. NextRowid = 1 + x
  BY DEF NextRowid
<1>6. x \in Nat
  BY <1>1, <1>4
<1> HIDE DEF x, S
<1> QED
  BY <1>4, <1>5, <1>6 DEF Table

\* The DELETE leaves no more rows than the cap.
LEMMA NewestIsBounded ==
  ASSUME Table, NEW n \in Nat
  PROVE  IsFiniteSet(Newest(n)) /\ Cardinality(Newest(n)) <= n
<1> DEFINE N == Newest(n)
<1>1. N \subseteq Stored /\ Stored \subseteq Message
  BY DEF Newest, Stored
<1>2. IsFiniteSet(N)
  BY <1>1, FS_Subset DEF Table
<1>3. CASE N = {}
  BY <1>3, FS_EmptySet
<1>4. CASE N # {}
  <2>1. {rowid[m] : m \in N} \in SUBSET Nat /\ {rowid[m] : m \in N} # {}
    BY <1>1, <1>4 DEF Table
  <2>2. PICK m \in N : \A k \in N : rowid[m] <= rowid[k]
    <3> HIDE DEF N
    <3>1. PICK x \in {rowid[m] : m \in N} : \A s \in {rowid[m] : m \in N} : x <= s
      BY <2>1, MinimumExists
    <3> QED
      BY <3>1
  <2> DEFINE A == {k \in Stored : rowid[k] > rowid[m]}
  <2>3. N \ {m} \subseteq A
    BY <1>1, <2>2 DEF Table
  <2>4. IsFiniteSet(A) /\ Cardinality(A) < n /\ Cardinality(A) \in Nat
    <3>1. IsFiniteSet(A)
      BY FS_Subset DEF Table
    <3>2. Cardinality(A) < n
      BY DEF Newest
    <3> QED
      BY <3>1, <3>2, FS_CardinalityType
  <2>5. Cardinality(N \ {m}) <= Cardinality(A)
    BY <2>3, <2>4, FS_Subset
  <2>6. Cardinality(N \ {m}) = Cardinality(N) - 1 /\ Cardinality(N) \in Nat
    BY <1>2, FS_RemoveElement, FS_CardinalityType
  <2> HIDE DEF N, A
  <2> QED
    BY <1>2, <2>4, <2>5, <2>6 DEF N
<1> QED
  BY <1>2, <1>3, <1>4

LEMMA TraceInitInv == TraceInit => TraceInv
<1> SUFFICES ASSUME TraceInit PROVE TraceInv
  OBVIOUS
<1>1. Stored = {}
  BY DEF TraceInit, Stored
<1>2. TraceTypeOK
  BY <1>1, FS_EmptySet DEF TraceInit, TraceTypeOK, Table
<1>3. GrowthBounded
  <2>1. PICK n \in Caps : n \in Nat
    BY TraceStoreAssumption
  <2>2. Cardinality(Stored) <= n + unpruned
    BY <1>1, <2>1, FS_EmptySet DEF TraceInit
  <2> QED
    BY <2>2 DEF GrowthBounded
<1> QED
  BY <1>1, <1>2, <1>3 DEF TraceInv, Ordered

\* The first statement of an upsert: the row is there, above all others when it is new.
LEMMA InsertEffect ==
  ASSUME TraceInv, NEW p \in Writer, NEW m \in Message, Insert(p, m)
  PROVE  /\ TraceTypeOK'
         /\ Stored' = Stored \cup {m}
         /\ \/ m \in Stored /\ rowid' = rowid /\ inserted' = inserted
            \/ /\ m \notin Stored /\ inserted' = Append(inserted, m)
               /\ \A k \in Message \ {m} : rowid'[k] = rowid[k] /\ rowid'[k] < rowid'[m]
<1>0. Table /\ inserted \in Seq(Message)
  BY DEF TraceInv, TraceTypeOK
<1>1. CASE m \in Stored
  <2>1. rowid' = rowid /\ inserted' = inserted
    BY <1>1 DEF Insert
  <2>2. Table' /\ Stored' = Stored
    BY <1>0, <2>1 DEF Table, Stored
  <2> QED
    BY <1>1, <2>1, <2>2 DEF Insert, TraceInv, TraceTypeOK
<1>2. CASE m \notin Stored
  <2>1. /\ rowid' = [rowid EXCEPT ![m] = NextRowid] /\ inserted' = Append(inserted, m)
        /\ NextRowid \in Nat \ {0} /\ \A k \in Message : rowid[k] < NextRowid
    BY <1>0, <1>2, NextRowidIsAbove DEF Insert
  <2>2. /\ rowid' \in [Message -> Nat] /\ rowid'[m] = NextRowid
        /\ \A k \in Message \ {m} : rowid'[k] = rowid[k] /\ rowid'[k] < rowid'[m]
    BY <1>0, <2>1 DEF Table
  <2>3. Stored' = Stored \cup {m}
    BY <2>1, <2>2 DEF Stored
  <2>4. Table'
    <3>1. IsFiniteSet(Stored)'
      BY <1>0, <2>3, FS_AddElement DEF Table
    <3>2. \A k \in Message : rowid'[k] <= NextRowid
      BY <1>0, <2>1, <2>2 DEF Table
    <3>3. ASSUME NEW j \in Stored', NEW k \in Stored', rowid'[j] = rowid'[k]
          PROVE  j = k
      <4>1. j \in Message /\ k \in Message
        BY DEF Stored
      <4>2. \A i \in Message \ {m} : rowid'[i] # rowid'[m]
        BY <2>2
      <4>3. CASE j = m \/ k = m
        BY <3>3, <4>1, <4>2, <4>3
      <4>4. CASE j # m /\ k # m
        <5>1. j \in Stored /\ k \in Stored /\ rowid[j] = rowid[k]
          BY <2>2, <2>3, <3>3, <4>1, <4>4
        <5> QED
          BY <1>0, <5>1 DEF Table
      <4> QED
        BY <4>3, <4>4
    <3>4. \E b \in Nat : \A k \in Message : rowid'[k] <= b
      BY <2>1, <3>2
    <3> QED
      BY <2>2, <3>1, <3>3, <3>4 DEF Table
  <2>5. inserted' \in Seq(Message)
    BY <1>0, <2>1
  <2> QED
    BY <1>2, <2>1, <2>2, <2>3, <2>4, <2>5 DEF Insert, TraceInv, TraceTypeOK
<1> QED
  BY <1>1, <1>2

LEMMA InsertKeepsInv ==
  ASSUME TraceInv, NEW p \in Writer, NEW m \in Message, Insert(p, m)
  PROVE  TraceInv'
<1>0. inserted \in Seq(Message) /\ Len(inserted) \in Nat /\ IsFiniteSet(Stored)
  BY DEF TraceInv, TraceTypeOK, Table
<1>1. Ordered'
  <2>1. CASE m \in Stored /\ rowid' = rowid /\ inserted' = inserted
    BY <2>1 DEF TraceInv, Ordered, Stored
  <2>2. CASE /\ m \notin Stored /\ inserted' = Append(inserted, m) /\ Stored' = Stored \cup {m}
             /\ \A k \in Message \ {m} : rowid'[k] = rowid[k] /\ rowid'[k] < rowid'[m]
    <3> SUFFICES ASSUME NEW k \in Stored', NEW l \in Stored', rowid'[k] < rowid'[l],
                        NEW i \in 1 .. Len(inserted'), inserted'[i] = k
                 PROVE  \E j \in i + 1 .. Len(inserted') : inserted'[j] = l
      BY DEF Ordered
    <3>1. /\ Len(inserted') = Len(inserted) + 1 /\ inserted'[Len(inserted) + 1] = m
          /\ \A j \in 1 .. Len(inserted) : inserted'[j] = inserted[j]
      BY <1>0, <2>2
    <3>2. k # m
      <4>1. rowid' \in [Message -> Nat] /\ k \in Message /\ l \in Message
        BY InsertEffect DEF Stored, TraceTypeOK, Table
      <4>2. l # m => rowid'[l] < rowid'[m]
        BY <2>2, <4>1
      <4> QED
        BY <4>1, <4>2
    <3>3. i \in 1 .. Len(inserted)
      BY <1>0, <2>2, <3>1, <3>2
    <3>4. CASE l = m
      BY <1>0, <3>1, <3>3, <3>4
    <3>5. CASE l # m
      <4>1. k \in Stored /\ l \in Stored /\ rowid[k] < rowid[l]
        BY <2>2, <3>2, <3>5 DEF Stored
      <4>2. PICK j \in i + 1 .. Len(inserted) : inserted[j] = l
        BY <3>1, <3>3, <4>1 DEF TraceInv, Ordered
      <4> QED
        BY <1>0, <3>1, <3>3, <4>2
    <3> QED
      BY <3>4, <3>5
  <2> QED
    BY <2>1, <2>2, InsertEffect
<1>2. GrowthBounded'
  <2>1. Cardinality(Stored') <= Cardinality(Stored) + 1 /\ Cardinality(Stored) \in Nat
        /\ Cardinality(Stored') \in Nat
    <3>1. Stored' = Stored \/ Stored' = Stored \cup {m}
      BY InsertEffect
    <3>2. IsFiniteSet(Stored \cup {m}) /\ Cardinality(Stored \cup {m}) <= Cardinality(Stored) + 1
          /\ Cardinality(Stored) \in Nat
      <4>1. Cardinality(Stored) \in Nat
        BY <1>0, FS_CardinalityType
      <4>2. IsFiniteSet(Stored \cup {m})
            /\ Cardinality(Stored \cup {m}) = IF m \in Stored THEN Cardinality(Stored)
                                             ELSE Cardinality(Stored) + 1
        BY <1>0, FS_AddElement
      <4> QED
        BY <4>1, <4>2
    <3>3. Cardinality(Stored \cup {m}) \in Nat
      BY <3>2, FS_CardinalityType
    <3>4. CASE Stored' = Stored
      BY <3>2, <3>4
    <3>5. CASE Stored' = Stored \cup {m}
      BY <3>2, <3>3, <3>5
    <3> QED
      BY <3>1, <3>4, <3>5
  <2>2. PICK n \in Caps : Cardinality(Stored) <= n + unpruned
    BY DEF TraceInv, GrowthBounded
  <2>3. unpruned' = unpruned + 1 /\ unpruned \in Nat /\ n \in Nat
    BY TraceStoreAssumption DEF Insert, TraceInv, TraceTypeOK
  <2>4. Cardinality(Stored') <= n + unpruned'
    BY <2>1, <2>2, <2>3
  <2> QED
    BY <2>4 DEF GrowthBounded
<1> QED
  BY <1>1, <1>2, InsertEffect DEF TraceInv

\* The second statement: the newest rows stay as they are.
LEMMA PruneEffect ==
  ASSUME TraceInv, NEW p \in Writer, Prune(p)
  PROVE  /\ cap[p] \in Nat /\ Stored' = Newest(cap[p])
         /\ \A m \in Stored' : m \in Stored /\ rowid'[m] = rowid[m]
         /\ inserted' = inserted
<1>1. rowid' = [m \in Message |-> IF m \in Newest(cap[p]) THEN rowid[m] ELSE 0]
  BY DEF Prune
<1>2. Newest(cap[p]) \subseteq Stored
  BY DEF Newest
<1> QED
  BY <1>1, <1>2, TraceStoreAssumption DEF Prune, Stored, TraceInv, TraceTypeOK

LEMMA PruneKeepsInv ==
  ASSUME TraceInv, NEW p \in Writer, Prune(p)
  PROVE  TraceInv'
<1>1. Table'
  <2>1. rowid' \in [Message -> Nat] /\ \A m \in Message : rowid'[m] <= rowid[m]
    BY DEF Prune, TraceInv, TraceTypeOK, Table
  <2>2. PICK b \in Nat : \A m \in Message : rowid[m] <= b
    BY DEF TraceInv, TraceTypeOK, Table
  <2>3. \A m \in Message : rowid'[m] <= b
    BY <2>1, <2>2 DEF TraceInv, TraceTypeOK, Table
  <2>4. IsFiniteSet(Stored')
    BY PruneEffect, NewestIsBounded DEF TraceInv, TraceTypeOK
  <2> QED
    BY <2>1, <2>3, <2>4, PruneEffect DEF TraceInv, TraceTypeOK, Table
<1>2. TraceTypeOK'
  <2>1. returned' \subseteq Message
    BY DEF Prune, TraceInv, TraceTypeOK
  <2> QED
    BY <1>1, <2>1 DEF Prune, TraceInv, TraceTypeOK
<1>3. Ordered'
  BY PruneEffect DEF TraceInv, Ordered
<1>4. GrowthBounded'
  <2>1. Cardinality(Stored') <= cap[p] /\ cap[p] \in Caps /\ unpruned' = 0
    BY PruneEffect, NewestIsBounded DEF TraceInv, TraceTypeOK, Prune
  <2> QED
    BY <2>1, PruneEffect DEF GrowthBounded
<1> QED
  BY <1>2, <1>3, <1>4 DEF TraceInv

LEMMA ReopenKeepsInv ==
  ASSUME TraceInv, NEW p \in Writer, NEW n \in Caps, Reopen(p, n)
  PROVE  TraceInv'
<1>1. UNCHANGED <<rowid, inserted, unpruned, sole>> /\ Stored' = Stored
  BY DEF Reopen, Stored
<1>2. TraceTypeOK'
  BY <1>1 DEF Reopen, TraceInv, TraceTypeOK, Table
<1> QED
  BY <1>1, <1>2 DEF TraceInv, Ordered, GrowthBounded

LEMMA TraceNextKeepsInv == TraceInv /\ [TraceNext]_traceVars => TraceInv'
<1>1. ASSUME TraceInv, UNCHANGED traceVars
      PROVE  TraceInv'
  <2>1. UNCHANGED <<rowid, cap, pending, inserted, returned, unpruned, sole>> /\ Stored' = Stored
    BY <1>1 DEF traceVars, Stored
  <2>2. TraceTypeOK'
    BY <1>1, <2>1 DEF TraceInv, TraceTypeOK, Table
  <2> QED
    BY <1>1, <2>1, <2>2 DEF TraceInv, Ordered, GrowthBounded
<1> QED
  BY <1>1, InsertKeepsInv, PruneKeepsInv, ReopenKeepsInv DEF TraceNext

LEMMA TraceInvariance == TraceSpec => []TraceInv
BY TraceInitInv, TraceNextKeepsInv, PTL DEF TraceSpec

\* The trace table is well typed, and its rowids are distinct and follow the order of
\* insertion, over all processes.
THEOREM TraceTableIsOrdered == TraceSpec => [](TraceTypeOK /\ Ordered)
<1>1. TraceInv => TraceTypeOK /\ Ordered
  BY DEF TraceInv
<1> QED
  BY <1>1, TraceInvariance, PTL

\* The write-driven prune: the store outgrows some process's cap by no more than the
\* upserts since the last DELETE, with any number of processes and caps.
THEOREM GrowthIsBounded == TraceSpec => []GrowthBounded
<1>1. TraceInv => GrowthBounded
  BY DEF TraceInv
<1> QED
  BY <1>1, TraceInvariance, PTL

-----------------------------------------------------------------------------
(* One cap, shared by all processes.                                       *)

OneCap == \A m, n \in Caps : m = n

\* What is above a row in the table was inserted after it: it is not more than that.
LEMMA LaterRows ==
  ASSUME TraceInv, NEW i \in 1 .. Len(inserted), inserted[i] \in Stored
  PROVE  LET A == {k \in Stored : rowid[k] > rowid[inserted[i]]}
         IN  Cardinality(A) \in Nat /\ Cardinality(A) <= Len(inserted) - i
<1> DEFINE A == {k \in Stored : rowid[k] > rowid[inserted[i]]}
           d == Len(inserted) - i
           f == [j \in 1 .. d |-> inserted[i + j]]
           T == {f[j] : j \in 1 .. d}
<1>1. d \in Nat /\ Len(inserted) \in Nat /\ inserted \in Seq(Message)
  BY DEF TraceInv, TraceTypeOK
<1>2. f \in Surjection(1 .. d, T)
  BY DEF Surjection
<1>3. IsFiniteSet(1 .. d) /\ Cardinality(1 .. d) = d
  <2> HIDE DEF d
  <2>1. IsFiniteSet(1 .. d) /\ Cardinality(1 .. d) = IF 1 > d THEN 0 ELSE d - 1 + 1
    <3>1. d \in Int /\ 1 \in Int
      BY <1>1
    <3> QED
      BY <3>1, FS_Interval, Zenon
  <2> QED
    BY <1>1, <2>1
<1>4. IsFiniteSet(T) /\ Cardinality(T) <= d
  <2> HIDE DEF f, T, d
  <2> QED
    BY <1>2, <1>3, FS_Surjection
<1>5. A \subseteq T
  <2> SUFFICES ASSUME NEW k \in A PROVE k \in T
    OBVIOUS
  <2>1. rowid[inserted[i]] < rowid[k]
    BY DEF TraceInv, TraceTypeOK, Table, Stored
  <2>2. PICK j \in i + 1 .. Len(inserted) : inserted[j] = k
    BY <2>1 DEF TraceInv, Ordered
  <2>3. j - i \in 1 .. d /\ i + (j - i) = j
    BY <1>1, <2>2
  <2>4. f[j - i] = inserted[j]
    BY <2>3
  <2> QED
    BY <2>2, <2>3, <2>4
<1>6. IsFiniteSet(A) /\ Cardinality(A) <= Cardinality(T)
  <2> HIDE DEF A, T
  <2> QED
    BY <1>4, <1>5, FS_Subset
<1>7. Cardinality(A) \in Nat /\ Cardinality(T) \in Nat
  <2> HIDE DEF A, T
  <2> QED
    BY <1>4, <1>6, FS_CardinalityType
<1> HIDE DEF T, A
<1>8. Cardinality(A) \in Nat /\ Cardinality(A) <= d
  BY <1>1, <1>4, <1>6, <1>7
<1> QED
  BY <1>8 DEF A

LEMMA LatestInsertionsStay ==
  ASSUME OneCap, TraceInv, LatestInsertionsKept, [TraceNext]_traceVars
  PROVE  LatestInsertionsKept'
<1> SUFFICES ASSUME NEW n \in Caps, NEW i \in 1 .. Len(inserted'), i > Len(inserted') - n
             PROVE  inserted'[i] \in Stored'
  BY DEF LatestInsertionsKept
<1>0. n \in Nat /\ inserted \in Seq(Message) /\ Len(inserted) \in Nat
  BY TraceStoreAssumption DEF TraceInv, TraceTypeOK
<1>1. ASSUME NEW p \in Writer, NEW m \in Message, Insert(p, m)
      PROVE  inserted'[i] \in Stored'
  <2>1. CASE inserted' = inserted
    BY <1>1, <2>1, InsertEffect DEF LatestInsertionsKept
  <2>2. CASE inserted' = Append(inserted, m)
    <3>1. i = Len(inserted) + 1 => inserted'[i] = m
      BY <1>0, <2>2
    <3>2. i # Len(inserted) + 1 =>
            i \in 1 .. Len(inserted) /\ i > Len(inserted) - n /\ inserted'[i] = inserted[i]
      BY <1>0, <2>2
    <3> QED
      BY <1>1, <3>1, <3>2, InsertEffect DEF LatestInsertionsKept
  <2> QED
    BY <1>1, <2>1, <2>2, InsertEffect
<1>2. ASSUME NEW p \in Writer, Prune(p)
      PROVE  inserted'[i] \in Stored'
  <2>1. inserted' = inserted /\ cap[p] = n /\ Stored' = Newest(n)
    BY <1>2, PruneEffect DEF OneCap, TraceInv, TraceTypeOK
  <2>2. i \in 1 .. Len(inserted) /\ inserted[i] \in Stored
    BY <2>1 DEF LatestInsertionsKept
  <2> DEFINE A == {k \in Stored : rowid[k] > rowid[inserted[i]]}
  <2>3. Cardinality(A) \in Nat /\ Cardinality(A) <= Len(inserted) - i
    BY <2>2, LaterRows
  <2> HIDE DEF A
  <2>4. Cardinality(A) < n
    BY <1>0, <2>1, <2>2, <2>3
  <2> QED
    BY <2>1, <2>2, <2>4 DEF A, Newest
<1>3. CASE inserted' = inserted /\ Stored' = Stored
  BY <1>3 DEF LatestInsertionsKept
<1> QED
  BY <1>1, <1>2, <1>3 DEF TraceNext, Reopen, traceVars, Stored

\* An upsert that nobody's DELETE or INSERT came between: its row is there, and safe from
\* its own DELETE, because nothing is in excess or because it is the newest.
Safe(m, n) ==
  /\ m \in Stored
  /\ Cardinality(Stored) <= n \/ \A k \in Stored : rowid[k] <= rowid[m]

Alone ==
  \A p \in Writer : sole = p =>
    unpruned = 1 /\ (pending[p] # NoMessage => \A n \in Caps : Safe(pending[p], n))

LEMMA SafeIsNewest ==
  ASSUME Table, NEW n \in Nat \ {0}, NEW m \in Message, Safe(m, n)
  PROVE  m \in Newest(n)
<1> DEFINE A == {k \in Stored : rowid[k] > rowid[m]}
<1>1. m \in Stored /\ IsFiniteSet(Stored) /\ A \subseteq Stored \ {m}
  BY DEF Safe, Table, Stored
<1>2. CASE Cardinality(Stored) <= n
  <2>1. IsFiniteSet(Stored \ {m}) /\ Cardinality(Stored \ {m}) = Cardinality(Stored) - 1
        /\ Cardinality(Stored) \in Nat
    BY <1>1, FS_RemoveElement, FS_CardinalityType
  <2>2. IsFiniteSet(A) /\ Cardinality(A) <= Cardinality(Stored \ {m})
    <3> HIDE DEF A
    <3> QED
      BY <1>1, <2>1, FS_Subset
  <2>3. Cardinality(A) \in Nat
    <3> HIDE DEF A
    <3> QED
      BY <2>2, FS_CardinalityType
  <2> HIDE DEF A
  <2>4. Cardinality(A) < n
    BY <1>2, <2>1, <2>2, <2>3
  <2> QED
    BY <1>1, <2>4 DEF A, Newest
<1>3. CASE \A k \in Stored : rowid[k] <= rowid[m]
  <2>1. A = {}
    BY <1>1, <1>3 DEF Table, Stored
  <2>2. Cardinality(A) = 0
    BY <2>1, FS_EmptySet
  <2> HIDE DEF A
  <2> QED
    BY <1>1, <2>2 DEF A, Newest
<1> QED
  BY <1>2, <1>3 DEF Safe

LEMMA AloneStays ==
  ASSUME OneCap, 0 \notin Caps, TraceInv, Alone, JustWrittenKept, [TraceNext]_traceVars
  PROVE  Alone' /\ JustWrittenKept'
<1>0. NoMessage \notin Writer /\ NoMessage \notin Message /\ Table /\ unpruned \in Nat
      /\ sole \in Writer \cup {NoMessage}
  BY TraceStoreAssumption DEF TraceInv, TraceTypeOK
<1>1. ASSUME NEW p \in Writer, NEW m \in Message, Insert(p, m)
      PROVE  Alone' /\ JustWrittenKept'
  <2>1. JustWrittenKept'
    BY <1>1 DEF Insert, JustWrittenKept
  <2>2. CASE unpruned = 0
    <3>1. sole' = p /\ unpruned' = 1 /\ pending'[p] = m
      BY <1>1, <2>2 DEF Insert, TraceInv, TraceTypeOK
    <3>2. ASSUME NEW n \in Caps PROVE Safe(m, n)'
      <4>1. CASE m \in Stored /\ rowid' = rowid
        <5>1. Cardinality(Stored) <= n
          <6>1. PICK c \in Caps : Cardinality(Stored) <= c + unpruned
            BY DEF TraceInv, GrowthBounded
          <6>2. c = n /\ c \in Nat
            BY TraceStoreAssumption DEF OneCap
          <6> QED
            BY <2>2, <6>1, <6>2
        <5>2. Stored' = Stored
          BY <4>1 DEF Stored
        <5> QED
          BY <4>1, <5>1, <5>2 DEF Safe
      <4>2. CASE \A k \in Message \ {m} : rowid'[k] = rowid[k] /\ rowid'[k] < rowid'[m]
        <5>1. rowid' \in [Message -> Nat] /\ m \in Stored'
          BY <1>1, InsertEffect DEF TraceTypeOK, Table
        <5>2. \A k \in Message : rowid'[k] <= rowid'[m]
          BY <4>2, <5>1
        <5> QED
          BY <5>1, <5>2 DEF Safe, Stored
      <4> QED
        BY <1>1, <4>1, <4>2, InsertEffect
    <3>3. Alone'
      BY <3>1, <3>2 DEF Alone
    <3> QED
      BY <2>1, <3>3
  <2>3. CASE unpruned # 0
    BY <1>0, <1>1, <2>1, <2>3 DEF Insert, Alone
  <2> QED
    BY <2>2, <2>3
<1>2. ASSUME NEW p \in Writer, Prune(p)
      PROVE  Alone' /\ JustWrittenKept'
  <2>1. Alone'
    BY <1>0, <1>2 DEF Prune, Alone
  <2>2. CASE sole = p
    <3>1. pending[p] \in Message /\ cap[p] \in Caps /\ cap[p] \in Nat \ {0}
      BY <1>0, <1>2, TraceStoreAssumption DEF Prune, TraceInv, TraceTypeOK
    <3>2. Safe(pending[p], cap[p])
      BY <1>2, <2>2, <3>1 DEF Prune, Alone
    <3>3. pending[p] \in Stored'
      BY <1>0, <1>2, <3>1, <3>2, SafeIsNewest, PruneEffect
    <3> QED
      BY <1>2, <2>1, <2>2, <3>3 DEF Prune, JustWrittenKept
  <2>3. CASE sole # p
    BY <1>2, <2>1, <2>3 DEF Prune, JustWrittenKept
  <2> QED
    BY <2>2, <2>3
<1>3. ASSUME NEW p \in Writer, NEW n \in Caps, Reopen(p, n)
      PROVE  Alone' /\ JustWrittenKept'
  BY <1>3 DEF Reopen, TraceInv, TraceTypeOK, Alone, Safe, JustWrittenKept, Stored
<1>4. CASE UNCHANGED traceVars
  BY <1>4 DEF traceVars, Alone, Safe, JustWrittenKept, Stored
<1> QED
  BY <1>1, <1>2, <1>3, <1>4 DEF TraceNext

\* "The most-recent N (by insertion order)": with one cap, the traces of the last N
\* first-time insertions are there, however upserts and prunes of several processes
\* interleave and wherever one dies.
THEOREM LatestInsertionsAreKept ==
  ASSUME OneCap
  PROVE  TraceSpec => []LatestInsertionsKept
<1>1. TraceInit => LatestInsertionsKept
  BY DEF TraceInit, LatestInsertionsKept
<1> QED
  BY <1>1, LatestInsertionsStay, TraceInvariance, PTL DEF TraceSpec

\* The row an upsert wrote outlives its own DELETE, if no other INSERT came since the
\* DELETE before it and the one cap is not 0.
THEOREM JustWrittenIsKept ==
  ASSUME OneCap, 0 \notin Caps
  PROVE  TraceSpec => []JustWrittenKept
<1>1. TraceInit => Alone /\ JustWrittenKept
  BY TraceStoreAssumption DEF TraceInit, Alone, JustWrittenKept
<1> QED
  BY <1>1, AloneStays, TraceInvariance, PTL DEF TraceSpec

-----------------------------------------------------------------------------
(* Inspect.  What ties a trace to a decision is the cached row: while it    *)
(* stands, the projection that was routed and the one that is inspected are *)
(* both the row's.                                                         *)

TaskType ==
  [command : {"none", "route", "inspect", "routed"}, message : Key \cup {None},
   projection : Projection \cup {None}, stands : BOOLEAN, shown : Projection \cup {None}]

\* A command that projects has the cache open; what it projects is its message; and the
\* projection that it has is the row's, while the row stands.
Tasked(p) ==
  /\ task[p].command \in {"route", "inspect"} => task[p].message \in Key /\ version[p] \in Version
  /\ task[p].command \notin {"route", "inspect"} => task[p].projection = None
  /\ key[p] # None => /\ task[p].command \in {"route", "inspect"}
                      /\ key[p] = task[p].message /\ task[p].projection = None
  /\ task[p].projection # None /\ task[p].stands =>
       rows[version[p]][task[p].message] = task[p].projection
  /\ task[p].shown # None => task[p].projection # None
  /\ task[p].shown # None /\ task[p].stands => task[p].shown = task[p].projection

\* A stored trace was recorded from the row under which its message was last routed,
\* while that row stands.
Recorded(m) ==
  routed[m][2] /\ trace[m] # None =>
    m \in Key /\ routed[m][1] \in Version /\ rows[routed[m][1]][m] = trace[m]

InspectInv ==
  /\ task \in [Process -> TaskType]
  /\ trace \in [Message -> Projection \cup {None}]
  /\ routed \in [Message -> (Version \cup {None}) \X BOOLEAN]
  /\ \A p \in Process : Tasked(p)
  /\ \A m \in Message : Recorded(m)

LEMMA NoTaskIsTyped == NoTask \in TaskType
BY DEF NoTask, TaskType

\* Every step is a step of the cache and a step of the trace table.
LEMMA InspectStepsTheStores ==
  ASSUME TypeOK, InspectInv, [InspectNext]_inspectVars
  PROVE  [Next]_vars /\ [TraceNext]_traceVars
<1>1. CASE UNCHANGED inspectVars
  BY <1>1 DEF inspectVars
<1>2. ASSUME NEW p \in Process, NEW command, NEW v \in Version, NEW k \in Key,
             Begin(p, command, v, k)
      PROVE  [Next]_vars /\ [TraceNext]_traceVars
  BY <1>2 DEF Begin, Next
<1>3. ASSUME NEW p \in Process, Project(p)
      PROVE  [Next]_vars /\ [TraceNext]_traceVars
  <2>1. task[p].message \in Key /\ UNCHANGED traceVars
    BY <1>3 DEF Project, InspectInv, Tasked
  <2> QED
    BY <1>3, <2>1 DEF Project, Next
<1>4. ASSUME NEW p \in Process, RouteInsert(p)
      PROVE  [Next]_vars /\ [TraceNext]_traceVars
  <2>1. task[p].message \in Message /\ p \in Writer
    BY <1>4, InspectAssumption DEF RouteInsert, InspectInv, Tasked
  <2> QED
    BY <1>4, <2>1 DEF RouteInsert, TraceNext
<1>5. ASSUME NEW p \in Process, NEW m \in Message, OtherInsert(p, m)
      PROVE  [Next]_vars /\ [TraceNext]_traceVars
  BY <1>5, InspectAssumption DEF OtherInsert, TraceNext
<1>6. ASSUME NEW p \in Process, UpsertPrune(p)
      PROVE  [Next]_vars /\ [TraceNext]_traceVars
  BY <1>6, InspectAssumption DEF UpsertPrune, TraceNext
<1>7. ASSUME NEW p \in Process, InspectShows(p)
      PROVE  [Next]_vars /\ [TraceNext]_traceVars
  BY <1>7 DEF InspectShows
<1>8. ASSUME NEW p \in Process, End(p)
      PROVE  [Next]_vars /\ [TraceNext]_traceVars
  BY <1>8, InspectAssumption DEF End, Next, TraceNext
<1>9. ASSUME NEW p \in Process, Replace(p)
      PROVE  [Next]_vars /\ [TraceNext]_traceVars
  BY <1>9, InspectAssumption DEF Replace, TraceNext
<1> QED
  BY <1>1, <1>2, <1>3, <1>4, <1>5, <1>6, <1>7, <1>8, <1>9 DEF InspectNext

\* A row that is not lost stays what it is.
LEMMA RowStands ==
  ASSUME TypeOK, NEW v \in Version, NEW k \in Key, rows[v][k] # None, ~ Lost(v, k)
  PROVE  rows'[v][k] = rows[v][k]
BY NoneAssumption DEF NoneAssumption, Lost

\* What a step of p on the cache leaves the others, and the stored traces.
LEMMA RowsMoved ==
  ASSUME TypeOK, InspectInv, NEW p \in Process, NEW new \in TaskType, Task(p, new), RowsMove(p),
         UNCHANGED trace, \A q \in Process \ {p} : version'[q] = version[q] /\ key'[q] = key[q],
         Tasked(p)'
  PROVE  InspectInv'
<1>1. ASSUME NEW q \in Process, q # p
      PROVE  /\ task'[q] \in TaskType
             /\ Tasked(q)'
  <2>1. task'[q] = [task[q] EXCEPT !.stands = task[q].stands /\ ~ Lost(version[q], task[q].message)]
    BY <1>1 DEF Task
  <2> DEFINE b == task[q].stands /\ ~ Lost(version[q], task[q].message)
  <2>2. task[q] \in TaskType /\ b \in BOOLEAN
    BY DEF InspectInv, TaskType
  <2>3. /\ task'[q] \in TaskType /\ (task'[q].stands <=> b)
        /\ task'[q].command = task[q].command /\ task'[q].message = task[q].message
        /\ task'[q].projection = task[q].projection /\ task'[q].shown = task[q].shown
    <3>1. task'[q] = [task[q] EXCEPT !.stands = b]
      BY <2>1
    <3> HIDE DEF b
    <3> QED
      BY <2>2, <3>1 DEF TaskType
  <2>4. version'[q] = version[q] /\ key'[q] = key[q]
    BY <1>1
  <2>5. ASSUME task[q].projection # None, b
        PROVE  rows'[version[q]][task[q].message] = task[q].projection
    <3>1. task[q].message \in Key /\ version[q] \in Version
          /\ rows[version[q]][task[q].message] = task[q].projection
      BY <2>5 DEF InspectInv, Tasked
    <3> QED
      BY <2>5, <3>1, RowStands
  <2> HIDE DEF b
  <2>6. b => task[q].stands
    BY DEF b
  <2> QED
    BY <2>3, <2>4, <2>5, <2>6 DEF InspectInv, Tasked
<1>2. task'[p] = new /\ task' = [q \in Process |-> task'[q]]
  BY DEF Task
<1>3. routed' \in [Message -> (Version \cup {None}) \X BOOLEAN]
  <2>1. \A m \in Message : routed[m] \in (Version \cup {None}) \X BOOLEAN
    BY DEF InspectInv
  <2>2. \A m \in Message : (routed[m][2] /\ ~(m \in Key /\ Lost(routed[m][1], m))) \in BOOLEAN
    OBVIOUS
  <2> QED
    BY <2>1, <2>2 DEF RowsMove
<1>4. ASSUME NEW m \in Message PROVE Recorded(m)'
  <2>1. /\ routed'[m][1] = routed[m][1]
        /\ routed'[m][2] <=> routed[m][2] /\ ~(m \in Key /\ Lost(routed[m][1], m))
    BY DEF RowsMove, InspectInv
  <2> SUFFICES ASSUME routed'[m][2], trace[m] # None
               PROVE  m \in Key /\ routed[m][1] \in Version /\ rows'[routed[m][1]][m] = trace[m]
    BY <2>1 DEF Recorded
  <2>2. m \in Key /\ routed[m][1] \in Version /\ rows[routed[m][1]][m] = trace[m]
        /\ ~ Lost(routed[m][1], m)
    BY <2>1 DEF InspectInv, Recorded
  <2> QED
    BY <2>2, RowStands
<1> QED
  BY <1>1, <1>2, <1>3, <1>4 DEF InspectInv

LEMMA BeginKeepsInspectInv ==
  ASSUME TypeOK, TypeOK', InspectInv, NEW p \in Process, NEW command \in {"route", "inspect"},
         NEW v \in Version, NEW k \in Key, Begin(p, command, v, k)
  PROVE  InspectInv'
<1> DEFINE new == [NoTask EXCEPT !.command = command, !.message = k]
<1>1. new \in TaskType /\ new.command = command /\ new.message = k /\ new.projection = None
      /\ new.shown = None
  BY DEF NoTask, TaskType
<1>2. /\ Task(p, new) /\ RowsMove(p) /\ Open(p, v) /\ UNCHANGED trace
  BY DEF Begin
<1> HIDE DEF new
<1>3. task'[p] = new
  BY <1>2 DEF Task
<1>4. version'[p] = v /\ key'[p] = None
      /\ \A q \in Process \ {p} : version'[q] = version[q] /\ key'[q] = key[q]
  BY <1>2 DEF Open, TypeOK
<1>5. Tasked(p)'
  BY <1>1, <1>3, <1>4 DEF Tasked
<1> QED
  BY <1>1, <1>2, <1>4, <1>5, RowsMoved

LEMMA ProjectKeepsInspectInv ==
  ASSUME TypeOK, TypeOK', InspectInv, NEW p \in Process, Project(p)
  PROVE  InspectInv'
<1> DEFINE k == task[p].message
<1>0. /\ task[p] \in TaskType /\ task[p].command \in {"route", "inspect"} /\ task[p].projection = None
      /\ task[p].shown = None /\ k \in Key /\ version[p] \in Version /\ RowsMove(p) /\ UNCHANGED trace
  BY DEF Project, InspectInv, Tasked
<1>1. ASSUME NEW x \in Projection, Task(p, [task[p] EXCEPT !.projection = x]),
             UNCHANGED version, key'[p] = None, rows'[version[p]][k] = x,
             \A q \in Process \ {p} : key'[q] = key[q]
      PROVE  InspectInv'
  <2> DEFINE new == [task[p] EXCEPT !.projection = x]
  <2>1. new \in TaskType /\ new.command = task[p].command /\ new.message = k
        /\ new.projection = x /\ new.shown = None
    BY <1>0 DEF TaskType
  <2>2. Task(p, new)
    BY <1>1
  <2> HIDE DEF new
  <2>3. task'[p] = new
    BY <2>2 DEF Task
  <2>4. Tasked(p)'
    BY <1>0, <1>1, <2>1, <2>3 DEF Tasked
  <2> QED
    BY <1>0, <1>1, <2>1, <2>2, <2>4, RowsMoved
<1>2. CASE Hit(p, k) /\ Task(p, [task[p] EXCEPT !.projection = rows[version[p]][k]])
  <2>1. rows[version[p]][k] \in Projection /\ key[p] = None /\ UNCHANGED <<rows, version, key>>
    BY <1>0, <1>2 DEF Hit, TypeOK, vars
  <2> QED
    BY <1>0, <1>1, <1>2, <2>1
<1>3. CASE Put(p) /\ Task(p, [task[p] EXCEPT !.projection = out[p]])
  <2>1. key[p] = k /\ out[p] \in Projection
    BY <1>3 DEF Put, TypeOK, InspectInv, Tasked
  <2>2. /\ rows'[version[p]][k] = out[p] /\ UNCHANGED version /\ key'[p] = None
        /\ \A q \in Process \ {p} : key'[q] = key[q]
    BY <1>0, <1>3, <2>1 DEF Put, TypeOK
  <2> QED
    BY <1>1, <1>3, <2>1, <2>2
<1>4. ASSUME UNCHANGED <<rows, version, task>>, key' = [key EXCEPT ![p] = k] \/ key' = key
                                                \/ key' = [key EXCEPT ![p] = None]
      PROVE  InspectInv'
  <2>1. \A l : \A v \in Version \cup {None} : ~ Lost(v, l)
    BY <1>4 DEF Lost
  <2>2. \A m \in Message : routed'[m] = routed[m]
    BY <2>1, <1>0 DEF RowsMove, InspectInv
  <2>3. routed' = routed
    BY <2>2, <1>0 DEF RowsMove, InspectInv
  <2>4. key'[p] \in {k, None} \/ key'[p] = key[p]
    BY <1>4 DEF TypeOK
  <2>5. \A q \in Process \ {p} : key'[q] = key[q]
    BY <1>4 DEF TypeOK
  <2>6. \A q \in Process : Tasked(q)'
    BY <1>0, <1>4, <2>4, <2>5 DEF InspectInv, Tasked
  <2> QED
    BY <1>0, <1>4, <2>3, <2>6 DEF InspectInv, Recorded
<1>5. CASE Miss(p, k) /\ UNCHANGED task
  BY <1>4, <1>5 DEF Miss
<1>6. CASE (\E x \in Projection : InnerReturns(p, x)) /\ UNCHANGED task
  BY <1>4, <1>6 DEF InnerReturns
<1>7. CASE InnerPanics(p) /\ UNCHANGED task
  BY <1>4, <1>7 DEF InnerPanics
<1> QED
  BY <1>2, <1>3, <1>5, <1>6, <1>7 DEF Project

\* The trace that is recorded is that of the row, if the row still stands.
LEMMA RouteInsertKeepsInspectInv ==
  ASSUME TypeOK, InspectInv, NEW p \in Process, RouteInsert(p)
  PROVE  InspectInv'
<1> DEFINE m == task[p].message
<1>0. /\ task[p] \in TaskType /\ task[p].projection \in Projection /\ m \in Key /\ m \in Message
      /\ version[p] \in Version
      /\ trace' = [trace EXCEPT ![m] = task[p].projection]
      /\ routed' = [routed EXCEPT ![m] = <<version[p], task[p].stands>>]
      /\ task' = [task EXCEPT ![p] = [NoTask EXCEPT !.command = "routed"]]
      /\ UNCHANGED <<rows, version, key>>
  BY InspectAssumption DEF RouteInsert, InspectInv, Tasked, TaskType, vars
<1>1. [NoTask EXCEPT !.command = "routed"] \in TaskType
  BY DEF NoTask, TaskType
<1>2. /\ task' \in [Process -> TaskType]
      /\ trace' \in [Message -> Projection \cup {None}]
      /\ routed' \in [Message -> (Version \cup {None}) \X BOOLEAN]
  BY <1>0, <1>1 DEF InspectInv, TaskType
<1>3. ASSUME NEW q \in Process PROVE Tasked(q)'
  <2>1. CASE q = p
    <3>1. task'[p] = [NoTask EXCEPT !.command = "routed"]
      BY <1>0 DEF InspectInv
    <3>2. key[p] = None
      BY <1>0, NoneAssumption DEF NoneAssumption, InspectInv, Tasked
    <3> QED
      BY <1>0, <2>1, <3>1, <3>2 DEF Tasked, NoTask
  <2>2. CASE q # p
    BY <1>0, <2>2 DEF InspectInv, Tasked
  <2> QED
    BY <2>1, <2>2
<1>4. ASSUME NEW n \in Message PROVE Recorded(n)'
  <2>1. CASE n = m
    <3>1. trace'[m] = task[p].projection /\ routed'[m][1] = version[p]
          /\ routed'[m][2] = task[p].stands
      BY <1>0 DEF InspectInv
    <3>2. task[p].stands => rows[version[p]][m] = task[p].projection
      BY <1>0, NoneAssumption DEF NoneAssumption, InspectInv, Tasked
    <3> QED
      BY <1>0, <2>1, <3>1, <3>2 DEF Recorded
  <2>2. CASE n # m
    BY <1>0, <2>2 DEF InspectInv, Recorded
  <2> QED
    BY <2>1, <2>2
<1> QED
  BY <1>2, <1>3, <1>4 DEF InspectInv

LEMMA UpsertPruneKeepsInspectInv ==
  ASSUME InspectInv, NEW p \in Process, UpsertPrune(p)
  PROVE  InspectInv'
<1>1. /\ trace' = [m \in Message |-> IF rowid'[m] # 0 THEN trace[m] ELSE None]
      /\ UNCHANGED <<rows, version, key, task, routed>>
  BY DEF UpsertPrune, vars
<1>2. trace' \in [Message -> Projection \cup {None}]
  BY <1>1 DEF InspectInv
<1>3. \A m \in Message : Recorded(m)'
  BY <1>1 DEF InspectInv, Recorded
<1> QED
  BY <1>1, <1>2, <1>3 DEF InspectInv, Tasked

LEMMA InspectShowsKeepsInspectInv ==
  ASSUME InspectInv, NEW p \in Process, InspectShows(p)
  PROVE  InspectInv'
<1> DEFINE m == task[p].message
           b == task[p].stands /\ routed[m] = <<version[p], TRUE>>
<1>0. /\ task[p] \in TaskType /\ task[p].command = "inspect" /\ m \in Key /\ m \in Message
      /\ version[p] \in Version
      /\ task[p].projection # None /\ trace[m] # None /\ trace[m] \in Projection
      /\ UNCHANGED <<rows, version, key, trace, routed>>
  BY InspectAssumption DEF InspectShows, InspectInv, Tasked, vars
<1>1. task' = [task EXCEPT ![p].shown = trace[m], ![p].stands = b]
  BY DEF InspectShows
<1>2. b \in BOOLEAN /\ (b => task[p].stands /\ trace[m] = task[p].projection)
  <2> SUFFICES ASSUME b PROVE trace[m] = task[p].projection
    OBVIOUS
  <2>1. rows[version[p]][m] = trace[m]
    <3>1. routed[m] = <<version[p], TRUE>>
      OBVIOUS
    <3>2. routed[m][1] = version[p] /\ routed[m][2]
      BY <3>1
    <3>3. Recorded(m)
      BY <1>0 DEF InspectInv
    <3> QED
      BY <1>0, <3>2, <3>3 DEF Recorded
  <2>2. rows[version[p]][m] = task[p].projection
    BY <1>0 DEF InspectInv, Tasked
  <2> QED
    BY <2>1, <2>2
<1> HIDE DEF b
<1>3. task'[p] = [task[p] EXCEPT !.shown = trace[m], !.stands = b]
      /\ \A q \in Process \ {p} : task'[q] = task[q]
  BY <1>1 DEF InspectInv
<1>4. task'[p] \in TaskType /\ task'[p].command = "inspect" /\ task'[p].message = m
      /\ task'[p].projection = task[p].projection /\ task'[p].shown = trace[m]
      /\ task'[p].stands = b
  BY <1>0, <1>2, <1>3 DEF TaskType
<1>5. task' \in [Process -> TaskType]
  BY <1>1, <1>3, <1>4 DEF InspectInv
<1>6. ASSUME NEW q \in Process PROVE Tasked(q)'
  <2>1. Tasked(q)
    BY DEF InspectInv
  <2>2. CASE q = p
    BY <1>0, <1>2, <1>4, <2>1, <2>2 DEF Tasked
  <2>3. CASE q # p
    BY <1>0, <1>3, <2>1, <2>3 DEF Tasked
  <2> QED
    BY <2>2, <2>3
<1> QED
  BY <1>0, <1>5, <1>6 DEF InspectInv, Recorded

LEMMA EndKeepsInspectInv ==
  ASSUME TypeOK, InspectInv, NEW p \in Process, End(p)
  PROVE  InspectInv'
<1>1. /\ task' = [task EXCEPT ![p] = NoTask] /\ UNCHANGED <<rows, trace, routed>>
      /\ version' = [version EXCEPT ![p] = None] /\ key' = [key EXCEPT ![p] = None]
  BY DEF End, Exit
<1>2. task' \in [Process -> TaskType]
  BY <1>1, NoTaskIsTyped DEF InspectInv
<1>3. ASSUME NEW q \in Process PROVE Tasked(q)'
  <2>1. CASE q = p
    BY <1>1, <2>1 DEF InspectInv, TypeOK, Tasked, NoTask
  <2>2. CASE q # p
    BY <1>1, <2>2 DEF InspectInv, TypeOK, Tasked
  <2> QED
    BY <2>1, <2>2
<1> QED
  BY <1>1, <1>2, <1>3 DEF InspectInv, Recorded

LEMMA InspectNextKeepsInspectInv ==
  ASSUME TypeOK, TypeOK', InspectInv, [InspectNext]_inspectVars
  PROVE  InspectInv'
<1>1. CASE UNCHANGED <<vars, task, trace, routed>>
  BY <1>1 DEF vars, InspectInv, Tasked, Recorded
<1>2. ASSUME NEW p \in Process, Replace(p)
      PROVE  UNCHANGED <<vars, task, trace, routed>>
  BY <1>2 DEF Replace
<1>3. ASSUME NEW p \in Process, NEW m, OtherInsert(p, m)
      PROVE  UNCHANGED <<vars, task, trace, routed>>
  BY <1>3 DEF OtherInsert
<1> QED
  BY <1>1, <1>2, <1>3, BeginKeepsInspectInv, ProjectKeepsInspectInv, RouteInsertKeepsInspectInv,
     UpsertPruneKeepsInspectInv, InspectShowsKeepsInspectInv, EndKeepsInspectInv
  DEF InspectNext, inspectVars

LEMMA InspectInitInv == InspectInit => TypeOK /\ InspectInv
<1> SUFFICES ASSUME InspectInit PROVE InspectInv
  BY InitIInv DEF InspectInit, IInv
<1>1. task \in [Process -> TaskType]
  BY NoTaskIsTyped DEF InspectInit
<1>2. \A p \in Process : Tasked(p)
  BY DEF InspectInit, Init, Tasked, NoTask
<1> QED
  BY <1>1, <1>2 DEF InspectInit, InspectInv, Recorded

LEMMA InspectInvariance == InspectSpec => [](IInv /\ InspectInv)
<1>1. InspectInit => IInv /\ InspectInv
  BY InitIInv, InspectInitInv DEF InspectInit
<1>2. IInv /\ InspectInv /\ [InspectNext]_inspectVars => (IInv /\ InspectInv)'
  <2> SUFFICES ASSUME IInv, InspectInv, [InspectNext]_inspectVars PROVE IInv' /\ InspectInv'
    OBVIOUS
  <2>1. IInv'
    BY InspectStepsTheStores, NextKeepsIInv DEF IInv
  <2> QED
    BY <2>1, InspectNextKeepsInspectInv DEF IInv
<1> QED
  BY <1>1, <1>2, PTL DEF InspectSpec

\* `inspect` and the hosts that route use the two stores as their modules say: every
\* theorem about the cache or the trace table holds of them together.
THEOREM InspectUsesTheStores == InspectSpec => Spec /\ TraceSpec
<1>1. InspectInit => Init /\ TraceInit
  BY DEF InspectInit
<1>2. IInv /\ InspectInv /\ [InspectNext]_inspectVars => [Next]_vars /\ [TraceNext]_traceVars
  BY InspectStepsTheStores DEF IInv
<1> QED
  BY <1>1, <1>2, InspectInvariance, PTL DEF InspectSpec, Spec, TraceSpec

\* The trace that `inspect` prints was recorded from the projection whose decision it
\* prints, if the row of that projection stood from the routing to the reading.
THEOREM InspectionsAreExplained == InspectSpec => []TraceExplainsInspection
<1>1. InspectInv => TraceExplainsInspection
  BY DEF InspectInv, Tasked, TraceExplainsInspection
<1> QED
  BY <1>1, InspectInvariance, PTL

=============================================================================
