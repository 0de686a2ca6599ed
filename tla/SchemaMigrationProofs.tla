------------------------ MODULE SchemaMigrationProofs ------------------------
(***************************************************************************)
(* Theorems of SchemaMigration, for any number of processes, stores and    *)
(* messages.                                                               *)
(***************************************************************************)
EXTENDS SchemaMigration, FiniteSetTheorems, TLAPS

(* The initial states are well typed: the sequence numbers that            *)
(* pre-version code left are natural numbers.                              *)
LEMMA InitTypeOK == Init => TypeOK
<1> SUFFICES ASSUME Init PROVE TypeOK
  OBVIOUS
<1>1. {0} \cup LegacySeq \subseteq Nat
  BY SchemaMigrationAssumption DEF SchemaMigrationAssumption
<1>2. seq \in [Id -> Nat]
  BY <1>1 DEF Init
<1> QED
  BY <1>2, SchemaMigrationAssumption DEF SchemaMigrationAssumption, Init, TypeOK

(* Every variable keeps its type, whatever the processes interleave        *)
(* (sqlite_common.rs migrate): no version or step number passes the length *)
(* of the longest step list.                                               *)
THEOREM TypeCorrect == Spec => []TypeOK
<1>1. Init => TypeOK
  BY InitTypeOK
<1>2. TypeOK /\ [Next]_vars => TypeOK'
  <2> SUFFICES ASSUME TypeOK, [Next]_vars PROVE TypeOK'
    OBVIOUS
  <2> USE SchemaMigrationAssumption DEF SchemaMigrationAssumption
  <2>1. ASSUME NEW p \in Process, NEW s \in Store, Open(p, s) PROVE TypeOK'
    BY <2>1 DEF Open, TypeOK
  <2>2. ASSUME NEW p \in Process, RunStep(p) PROVE TypeOK'
    <3>1. /\ opening[p] \in Store
          /\ step[p] \in 0..1
      BY <2>2 DEF RunStep, TypeOK, StepCount
    <3>2. /\ tables' \subseteq Store
          /\ seq' \in [Id -> Nat]
      <4>1. CASE CreateTable(opening[p])
        BY <4>1, <3>1 DEF CreateTable, TypeOK
      <4>2. CASE RebuildMessages
        <5>1. PICK new \in [Id -> 0..Cardinality(Present)] : Renumbers(new) /\ seq' = new
          BY <4>2 DEF RebuildMessages
        <5>2. \A k \in 0..Cardinality(Present) : k \in Nat
          OBVIOUS
        <5> QED
          BY <4>2, <5>1, <5>2 DEF RebuildMessages, TypeOK
      <4> QED
        BY <2>2, <4>1, <4>2 DEF RunStep
    <3> QED
      BY <2>2, <3>1, <3>2 DEF RunStep, TypeOK
  <2>3. ASSUME NEW p \in Process, Opened(p) PROVE TypeOK'
    BY <2>3 DEF Opened, TypeOK
  <2>4. ASSUME NEW p \in Process, NEW i \in Id, AppendNew(p, i) PROVE TypeOK'
    BY <2>4 DEF AppendNew, TypeOK
  <2>5. ASSUME NEW p \in Process, Exit(p) PROVE TypeOK'
    BY <2>5 DEF Exit, TypeOK
  <2>6. CASE UNCHANGED vars
    BY <2>6 DEF vars, TypeOK
  <2> QED
    BY <2>1, <2>2, <2>3, <2>4, <2>5, <2>6 DEF Next
<1> QED
  BY <1>1, <1>2, PTL DEF Spec

(***************************************************************************)
(* Stores that do not share a file.  user_version then counts the steps of *)
(* one store only, and the strengthening needed is that it never claims a  *)
(* table that does not exist, nor does a process in the middle of a        *)
(* migration: it claims the version it read, or the steps it ran.          *)
(***************************************************************************)
OneStorePerFile == \A s, t \in Store : File[s] = File[t] => s = t

TableInv ==
  /\ TypeOK
  /\ \A s \in Store : user_version[File[s]] >= 1 => s \in tables
  /\ \A p \in Process : opening[p] # None /\ step[p] >= 1 => opening[p] \in tables
  /\ OpenedStoreHasTable

LEMMA TableInvariance ==
  ASSUME OneStorePerFile
  PROVE  Spec => []TableInv
<1>1. Init => TableInv
  <2> SUFFICES ASSUME Init PROVE TableInv
    OBVIOUS
  <2>1. TypeOK
    BY InitTypeOK
  <2> QED
    BY <2>1, SchemaMigrationAssumption DEF SchemaMigrationAssumption, Init, TableInv, OpenedStoreHasTable
<1>2. TypeOK /\ TypeOK' /\ TableInv /\ [Next]_vars => TableInv'
  <2> SUFFICES ASSUME TypeOK, TypeOK', TableInv, [Next]_vars PROVE TableInv'
    OBVIOUS
  <2> USE SchemaMigrationAssumption DEF SchemaMigrationAssumption
  <2>1. ASSUME NEW p \in Process, NEW s \in Store, Open(p, s) PROVE TableInv'
    BY <2>1 DEF Open, TableInv, TypeOK, OpenedStoreHasTable
  <2>2. ASSUME NEW p \in Process, RunStep(p) PROVE TableInv'
    <3>1. /\ opening[p] \in Store
          /\ step[p] \in 0..1
      BY <2>2 DEF RunStep, TypeOK, StepCount
    <3>2. /\ tables \subseteq tables'
          /\ opening[p] \in tables'
      <4>1. CASE step[p] = 0
        BY <2>2, <4>1 DEF RunStep, CreateTable
      <4>2. CASE step[p] = 1
        BY <2>2, <4>2, <3>1 DEF RunStep, RebuildMessages, TableInv
      <4> QED
        BY <3>1, <4>1, <4>2
    <3>3. \A s \in Store : user_version'[File[s]] >= 1 => s \in tables'
      <4> SUFFICES ASSUME NEW s \in Store, user_version'[File[s]] >= 1 PROVE s \in tables'
        OBVIOUS
      <4>1. CASE File[s] = File[opening[p]]
        BY <4>1, <3>1, <3>2 DEF OneStorePerFile
      <4>2. CASE File[s] # File[opening[p]]
        <5>1. user_version'[File[s]] = user_version[File[s]]
          BY <2>2, <4>2, <3>1 DEF RunStep, TypeOK
        <5> QED
          BY <5>1, <3>2 DEF TableInv
      <4> QED
        BY <4>1, <4>2
    <3>4. \A q \in Process : opening'[q] # None /\ step'[q] >= 1 => opening'[q] \in tables'
      <4> SUFFICES ASSUME NEW q \in Process, opening'[q] # None, step'[q] >= 1
                   PROVE  opening'[q] \in tables'
        OBVIOUS
      <4>1. CASE q = p
        BY <4>1, <2>2, <3>2 DEF RunStep
      <4>2. CASE q # p
        BY <4>2, <2>2, <3>2 DEF RunStep, TypeOK, TableInv
      <4> QED
        BY <4>1, <4>2
    <3> QED
      BY <2>2, <3>2, <3>3, <3>4 DEF RunStep, TableInv, OpenedStoreHasTable
  <2>3. ASSUME NEW p \in Process, Opened(p) PROVE TableInv'
    <3>1. opening[p] \in tables
      BY <2>3 DEF Opened, TableInv, TypeOK, StepCount
    <3> QED
      BY <2>3, <3>1 DEF Opened, TableInv, TypeOK, OpenedStoreHasTable
  <2>4. ASSUME NEW p \in Process, NEW i \in Id, AppendNew(p, i) PROVE TableInv'
    BY <2>4 DEF AppendNew, TableInv, TypeOK, OpenedStoreHasTable
  <2>5. ASSUME NEW p \in Process, Exit(p) PROVE TableInv'
    BY <2>5 DEF Exit, TableInv, TypeOK, OpenedStoreHasTable
  <2>6. CASE UNCHANGED vars
    BY <2>6 DEF vars, TableInv, TypeOK, OpenedStoreHasTable
  <2> QED
    BY <2>1, <2>2, <2>3, <2>4, <2>5, <2>6 DEF Next
<1> QED
  BY <1>1, <1>2, TypeCorrect, PTL DEF Spec

(* A store that was opened has its table (sqlite_common.rs:26-30), when no *)
(* two stores share a file.  With the file that --db gives to all of them, *)
(* the run SchemaMigrationSharedFile refutes it.                           *)
THEOREM OpenedStoresHaveTables ==
  ASSUME OneStorePerFile
  PROVE  Spec => []OpenedStoreHasTable
<1>1. TableInv => OpenedStoreHasTable
  BY DEF TableInv
<1> QED
  BY <1>1, TableInvariance, PTL

-----------------------------------------------------------------------------

(* Migrating, also over again by an opener that read an old version, loses *)
(* no message and keeps the order of the log (sqlite_message_store.rs, the *)
(* second step): whichever stores share the file.                          *)
THEOREM MigrationKeepsTheLog == Spec => LogSurvives
<1> DEFINE Kept == \A i, j \in Present :
                   /\ seq'[i] # 0
                   /\ seq[i] < seq[j] => seq'[i] < seq'[j]
<1>1. TypeOK /\ [Next]_vars => [Kept]_vars
  <2> SUFFICES ASSUME TypeOK, Next PROVE Kept
    OBVIOUS
  <2>1. ASSUME NEW p \in Process, NEW s \in Store, Open(p, s) PROVE Kept
    BY <2>1 DEF Open, Present
  <2>2. ASSUME NEW p \in Process, RunStep(p) PROVE Kept
    <3>1. CASE CreateTable(opening[p])
      BY <3>1 DEF CreateTable, Present
    <3>2. CASE RebuildMessages
      BY <3>2 DEF RebuildMessages, Renumbers, Present
    <3> QED
      BY <2>2, <3>1, <3>2 DEF RunStep
  <2>3. ASSUME NEW p \in Process, Opened(p) PROVE Kept
    BY <2>3 DEF Opened, Present
  <2>4. ASSUME NEW p \in Process, NEW i \in Id, AppendNew(p, i) PROVE Kept
    <3>1. \A j \in Present : seq'[j] = seq[j]
      BY <2>4 DEF AppendNew, Present, TypeOK
    <3> QED
      BY <3>1 DEF Present
  <2>5. ASSUME NEW p \in Process, Exit(p) PROVE Kept
    BY <2>5 DEF Exit, Present
  <2> QED
    BY <2>1, <2>2, <2>3, <2>4, <2>5 DEF Next
<1> QED
  BY <1>1, TypeCorrect, PTL DEF Spec, LogSurvives, Kept

-----------------------------------------------------------------------------
(* The numbers of the message log.  Once the table was rebuilt its numbers *)
(* are 1..n, and no later step, not even that of an opener that rebuilds   *)
(* it over again, changes that.                                            *)

Dense ==
  /\ {seq[i] : i \in Present} = 1..Cardinality(Present)
  /\ \A i, j \in Present : seq[i] = seq[j] => i = j

DenseInv ==
  /\ IsFiniteSet(Present)
  /\ user_version[File[Messages]] >= 2 => Dense
  /\ \A p \in Process :
       /\ opening[p] = Messages /\ step[p] >= 2 => Dense
       /\ Messages \in opened[p] => Dense

(* ROW_NUMBER() over n rows uses all of 1..n. *)
LEMMA RebuildIsDense ==
  ASSUME TypeOK, IsFiniteSet(Present), RebuildMessages
  PROVE  Present' = Present /\ Dense'
<1> DEFINE n == Cardinality(Present)
<1>0. n \in Nat
  BY FS_CardinalityType
<1>1. PICK new \in [Id -> 0..n] : Renumbers(new) /\ seq' = new
  BY DEF RebuildMessages
<1>2. Present' = Present
  BY <1>1 DEF Renumbers, Present
<1> DEFINE f == [i \in Present |-> new[i]]
<1>3. f \in [Present -> 1..n] /\ \A i, j \in Present : f[i] = f[j] => i = j
  <2>1. \A i \in Present : new[i] \in 0..n /\ new[i] # 0
    BY <1>1 DEF Renumbers, Present
  <2> QED
    BY <1>0, <1>1, <2>1 DEF Renumbers
<1>4. f \in Injection(Present, 1..n)
  <2> HIDE DEF f, n
  <2> QED
    BY <1>3 DEF Injection, IsInjective
<1>5. IsFiniteSet(1..n) /\ Cardinality(1..n) = n
  <2> HIDE DEF n
  <2>1. IsFiniteSet(1..n) /\ Cardinality(1..n) = IF 1 > n THEN 0 ELSE n - 1 + 1
    <3>1. 1 \in Int /\ n \in Int
      BY <1>0
    <3> QED
      BY <3>1, FS_Interval, Zenon
  <2> QED
    BY <1>0, <2>1
<1>6. f \in Surjection(Present, 1..n)
  <2> HIDE DEF f
  <2> QED
    BY <1>4, <1>5, FS_Injection
<1>7. {new[i] : i \in Present} = 1..n
  <2>1. \A k \in 1..n : \E i \in Present : f[i] = k
    <3> HIDE DEF f, n
    <3> QED
      BY <1>6 DEF Surjection
  <2> QED
    BY <1>3, <2>1
<1>8. \A i, j \in Present : new[i] = new[j] => i = j
  BY <1>3
<1> QED
  BY <1>1, <1>2, <1>7, <1>8 DEF Dense

(* MAX(seq) + 1 after 1..n is n + 1. *)
LEMMA AppendKeepsDense ==
  ASSUME TypeOK, IsFiniteSet(Present), NEW p \in Process, NEW i \in Id, AppendNew(p, i)
  PROVE  IsFiniteSet(Present') /\ (Dense => Dense')
<1> DEFINE n == Cardinality(Present)
<1>0. n \in Nat
  BY FS_CardinalityType
<1>1. PICK top \in {0} \cup {seq[j] : j \in Id} :
        /\ \A j \in Id : seq[j] <= top
        /\ seq' = [seq EXCEPT ![i] = top + 1]
  BY DEF AppendNew
<1>2. top \in Nat /\ i \notin Present
  BY <1>1 DEF TypeOK, AppendNew
<1>3. Present' = Present \cup {i} /\ seq'[i] = top + 1 /\ \A j \in Present : seq'[j] = seq[j]
  BY <1>1, <1>2 DEF Present, TypeOK
<1>4. IsFiniteSet(Present') /\ Cardinality(Present') = n + 1
  <2>1. IsFiniteSet(Present \cup {i})
        /\ Cardinality(Present \cup {i}) = IF i \in Present THEN n ELSE n + 1
    BY FS_AddElement
  <2> QED
    BY <1>2, <1>3, <2>1
<1>5. ASSUME Dense PROVE Dense'
  <2>1. top = n
    <3>1. CASE n = 0
      <4>1. Present = {}
        BY <3>1, FS_EmptySet
      <4> QED
        BY <1>1, <3>1, <4>1 DEF Present
    <3>2. CASE n > 0
      <4>1. \A k \in 1..n : \E j \in Present : seq[j] = k
        BY <1>5 DEF Dense
      <4>2. \A j \in Present : seq[j] \in 1..n
        BY <1>5 DEF Dense
      <4>3. PICK j \in Present : seq[j] = n
        BY <1>0, <3>2, <4>1
      <4>4. n <= top
        BY <1>1, <4>3 DEF Present
      <4>5. top <= n
        BY <1>0, <1>1, <3>2, <4>2 DEF Present
      <4> QED
        BY <1>0, <1>2, <4>4, <4>5
    <3> QED
      BY <1>0, <3>1, <3>2
  <2>2. {seq'[j] : j \in Present'} = {seq[j] : j \in Present} \cup {n + 1}
    BY <1>3, <2>1
  <2>3. {seq[j] : j \in Present} = 1..n /\ 1..(n + 1) = 1..n \cup {n + 1}
    BY <1>0, <1>5 DEF Dense
  <2>4. \A j \in Present : seq[j] # n + 1
    <3>1. \A j \in Present : seq[j] \in 1..n
      BY <2>3
    <3> QED
      BY <1>0, <3>1
  <2>5. \A j, k \in Present' : seq'[j] = seq'[k] => j = k
    BY <1>3, <1>5, <2>1, <2>4 DEF Dense
  <2> HIDE DEF n
  <2> QED
    BY <1>4, <2>2, <2>3, <2>5 DEF Dense
<1> QED
  BY <1>4, <1>5

LEMMA DenseInvariance == Spec => []DenseInv
<1>1. Init => DenseInv
  BY SchemaMigrationAssumption DEF Init, DenseInv
<1>2. TypeOK /\ DenseInv /\ [Next]_vars => DenseInv'
  <2> SUFFICES ASSUME TypeOK, DenseInv, [Next]_vars PROVE DenseInv'
    OBVIOUS
  <2> USE SchemaMigrationAssumption DEF SchemaMigrationAssumption
  <2>1. ASSUME UNCHANGED seq PROVE Present' = Present /\ (Dense' <=> Dense)
    BY <2>1 DEF Dense, Present
  <2>2. ASSUME NEW p \in Process, NEW s \in Store, Open(p, s) PROVE DenseInv'
    BY <2>1, <2>2 DEF Open, TypeOK, DenseInv
  <2>3. ASSUME NEW p \in Process, RunStep(p) PROVE DenseInv'
    <3>1. opening[p] \in Store /\ step[p] \in 0..1 /\ UNCHANGED <<opening, opened>>
          /\ user_version' = [user_version EXCEPT ![File[opening[p]]] = step[p] + 1]
          /\ step' = [step EXCEPT ![p] = step[p] + 1]
      BY <2>3 DEF RunStep, TypeOK, StepCount
    <3>2. CASE step[p] = 0
      BY <2>1, <2>3, <3>1, <3>2 DEF RunStep, CreateTable, TypeOK, DenseInv
    <3>3. CASE step[p] = 1
      <4>1. Present' = Present /\ Dense'
        BY <2>3, <3>3, RebuildIsDense DEF RunStep, DenseInv
      <4> QED
        BY <4>1 DEF DenseInv
    <3> QED
      BY <3>1, <3>2, <3>3
  <2>4. ASSUME NEW p \in Process, Opened(p) PROVE DenseInv'
    BY <2>1, <2>4 DEF Opened, StepCount, TypeOK, DenseInv
  <2>5. ASSUME NEW p \in Process, NEW i \in Id, AppendNew(p, i) PROVE DenseInv'
    <3>1. IsFiniteSet(Present') /\ (Dense => Dense')
      BY <2>5, AppendKeepsDense DEF DenseInv
    <3> QED
      BY <2>5, <3>1 DEF AppendNew, DenseInv
  <2>6. ASSUME NEW p \in Process, Exit(p) PROVE DenseInv'
    BY <2>1, <2>6 DEF Exit, TypeOK, DenseInv
  <2>7. CASE UNCHANGED vars
    BY <2>1, <2>7 DEF vars, DenseInv
  <2> QED
    BY <2>2, <2>3, <2>4, <2>5, <2>6, <2>7 DEF Next
<1> QED
  BY <1>1, <1>2, TypeCorrect, PTL DEF Spec

(* Once a process has the message store open, its sequence numbers are     *)
(* exactly 1..n, each used once (sqlite_message_store.rs, the second step  *)
(* and append), whatever was there before, whoever migrates meanwhile, and *)
(* whichever stores share the file.                                        *)
THEOREM OpenedLogsAreDense == Spec => []OpenedLogIsDense
<1>1. DenseInv => OpenedLogIsDense
  BY DEF DenseInv, Dense, OpenedLogIsDense
<1> QED
  BY <1>1, DenseInvariance, PTL

(* The version of a file that holds one store never claims a step that was *)
(* not done (sqlite_common.rs migrate: the step and its version commit     *)
(* together).                                                              *)
THEOREM VersionsAreHonest ==
  ASSUME OneStorePerFile
  PROVE  Spec => []VersionIsHonest
<1>1. TableInv /\ DenseInv => VersionIsHonest
  BY DEF TableInv, DenseInv, Dense, VersionIsHonest
<1> QED
  BY <1>1, TableInvariance, DenseInvariance, PTL

=============================================================================
