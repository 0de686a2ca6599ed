--------------------------- MODULE SchemaMigration ---------------------------
(***************************************************************************)
(* Opening the SQLite stores (mirrorlane-storage, sqlite_common.rs migrate *)
(* and each store's init): ordered migration steps gated on the file's     *)
(* PRAGMA user_version.                                                    *)
(*                                                                         *)
(* Several processes open stores at once.  Reading user_version is one     *)
(* step and each migration transaction is another, so a process acts on a  *)
(* version that another has moved on; a transaction that fails, or whose   *)
(* process is killed, leaves no trace.                                     *)
(*                                                                         *)
(* user_version belongs to the file, the step list to the store: which     *)
(* stores share a file is the constant File.                               *)
(***************************************************************************)
EXTENDS Naturals, FiniteSets

CONSTANTS
  Process,    \* mirrorlane processes
  Store,      \* the SQLite stores; a store's only table has its name
  Messages,   \* the message store
  FileName,   \* database files
  File,       \* File[s] is the file store s is opened on
  Id,         \* message ids
  LegacySeq,  \* the sequence numbers that pre-version code may have left
  None        \* no store

ASSUME SchemaMigrationAssumption ==
  /\ Messages \in Store
  /\ File \in [Store -> FileName]
  /\ LegacySeq \subseteq Nat \ {0}
  /\ None \notin Store

VARIABLES
  user_version,  \* PRAGMA user_version of each file
  tables,        \* the stores whose table exists
  seq,           \* the messages table: each id's sequence number, 0 for no row
  opening,       \* the store each process is opening
  step,          \* the migration step it runs next
  opened         \* the stores it has opened

vars == <<user_version, tables, seq, opening, step, opened>>

\* steps.len(): the message store has a second step, the others have one.
StepCount(s) == IF s = Messages THEN 2 ELSE 1

Present == {i \in Id : seq[i] # 0}

TypeOK ==
  /\ user_version \in [FileName -> 0..2]
  /\ tables \subseteq Store
  /\ seq \in [Id -> Nat]
  /\ opening \in [Process -> Store \cup {None}]
  /\ step \in [Process -> 0..2]
  /\ opened \in [Process -> SUBSET Store]

\* Files that are fresh or were left by pre-version code: version 0, with or
\* without each table, and messages that may share a sequence number.
Init ==
  /\ user_version = [f \in FileName |-> 0]
  /\ tables \in SUBSET Store
  /\ seq \in [Id -> {0} \cup LegacySeq]
  /\ IsFiniteSet(Present) /\ (Messages \notin tables => Present = {})
  /\ opening = [p \in Process |-> None]
  /\ step = [p \in Process |-> 0]
  /\ opened = [p \in Process |-> {}]

-----------------------------------------------------------------------------

\* open: read user_version; the steps below it are skipped.
Open(p, s) ==
  /\ opening[p] = None
  /\ s \notin opened[p]
  /\ opening' = [opening EXCEPT ![p] = s]
  /\ step' = [step EXCEPT ![p] = user_version[File[s]]]
  /\ UNCHANGED <<user_version, tables, seq, opened>>

\* Mutant: ROW_NUMBER() OVER (ORDER BY seq DESC).
RenumbersBackwards(new) ==
  /\ \A i \in Id : new[i] = 0 <=> seq[i] = 0
  /\ \A i, j \in Present : (i # j => new[i] # new[j]) /\ (seq[i] < seq[j] => new[i] > new[j])

\* Mutant: the old numbers are copied.
RenumbersNothing(new) == new = seq

\* ROW_NUMBER() OVER (ORDER BY seq): 1..n in the old order, ties in any order.
Renumbers(new) ==
  /\ \A i \in Id : new[i] = 0 <=> seq[i] = 0
  /\ \A i, j \in Present : (i # j => new[i] # new[j]) /\ (seq[i] < seq[j] => new[i] < new[j])

\* Step 1 of a store: CREATE TABLE IF NOT EXISTS.
CreateTable(s) ==
  /\ tables' = tables \cup {s}
  /\ UNCHANGED seq

\* Step 2 of the message store: copy into a table with UNIQUE seq, and rename.
\* It fails when the table to copy is not there.
RebuildMessages ==
  /\ Messages \in tables
  /\ \E new \in [Id -> 0..Cardinality(Present)] : Renumbers(new) /\ seq' = new
  /\ UNCHANGED tables

\* Mutant: the version is stamped in a transaction before the step's.
RunStepStampsFirst(p) ==
  /\ opening[p] # None
  /\ step[p] < StepCount(opening[p])
  /\ IF user_version[File[opening[p]]] = step[p]
     THEN /\ user_version' = [user_version EXCEPT ![File[opening[p]]] = step[p] + 1]
          /\ UNCHANGED <<tables, seq, step>>
     ELSE /\ IF step[p] = 0 THEN CreateTable(opening[p]) ELSE RebuildMessages
          /\ step' = [step EXCEPT ![p] = @ + 1]
          /\ UNCHANGED user_version
  /\ UNCHANGED <<opening, opened>>

\* Mutant: off by one, a step too many is run.
RunStepTooMany(p) ==
  /\ opening[p] # None
  /\ step[p] <= StepCount(opening[p])
  /\ IF step[p] = 0 THEN CreateTable(opening[p]) ELSE RebuildMessages
  /\ user_version' = [user_version EXCEPT ![File[opening[p]]] = step[p] + 1]
  /\ step' = [step EXCEPT ![p] = @ + 1]
  /\ UNCHANGED <<opening, opened>>

\* One migration step and its user_version bump, in one transaction.
RunStep(p) ==
  /\ opening[p] # None
  /\ step[p] < StepCount(opening[p])
  /\ IF step[p] = 0 THEN CreateTable(opening[p]) ELSE RebuildMessages
  /\ user_version' = [user_version EXCEPT ![File[opening[p]]] = step[p] + 1]
  /\ step' = [step EXCEPT ![p] = @ + 1]
  /\ UNCHANGED <<opening, opened>>

\* Mutant: a step list is done after its first step.
OpenedEarly(p) ==
  /\ opening[p] # None
  /\ step[p] >= 1
  /\ opened' = [opened EXCEPT ![p] = @ \cup {opening[p]}]
  /\ opening' = [opening EXCEPT ![p] = None]
  /\ step' = [step EXCEPT ![p] = 0]
  /\ UNCHANGED <<user_version, tables, seq>>

\* Every step is done or skipped: the store is open.
Opened(p) ==
  /\ opening[p] # None
  /\ step[p] >= StepCount(opening[p])
  /\ opened' = [opened EXCEPT ![p] = @ \cup {opening[p]}]
  /\ opening' = [opening EXCEPT ![p] = None]
  /\ step' = [step EXCEPT ![p] = 0]
  /\ UNCHANGED <<user_version, tables, seq>>

\* append of a new message, by a process that has the store open: MAX(seq) + 1.
AppendNew(p, i) ==
  /\ Messages \in opened[p] \cap tables
  /\ i \notin Present
  /\ \E top \in {0} \cup {seq[j] : j \in Id} :
       /\ \A j \in Id : seq[j] <= top
       /\ seq' = [seq EXCEPT ![i] = top + 1]
  /\ UNCHANGED <<user_version, tables, opening, step, opened>>

\* A step fails and open() returns the error, or the process ends or is killed.
Exit(p) ==
  /\ opening[p] # None \/ opened[p] # {}
  /\ opening' = [opening EXCEPT ![p] = None]
  /\ step' = [step EXCEPT ![p] = 0]
  /\ opened' = [opened EXCEPT ![p] = {}]
  /\ UNCHANGED <<user_version, tables, seq>>

Next ==
  \E p \in Process :
    \/ \E s \in Store : Open(p, s)
    \/ RunStep(p)
    \/ Opened(p)
    \/ \E i \in Id : AppendNew(p, i)
    \/ Exit(p)

Spec == Init /\ [][Next]_vars

-----------------------------------------------------------------------------
(* Properties.                                                             *)

(* A database is migrated forward when a store opens it (spec.md "SQLite   *)
(* schema is versioned and migrated"; sqlite_common.rs:26-30): a store     *)
(* that was opened has its table, so no read or write of it panics on a    *)
(* missing table.                                                          *)
OpenedStoreHasTable ==
  \A p \in Process : opened[p] \subseteq tables

(* Once the message store is open, every message has a sequence number of  *)
(* its own and the numbers are exactly 1..n, whatever pre-version code     *)
(* left, and whoever else is still migrating.                              *)
OpenedLogIsDense ==
  (\E p \in Process : Messages \in opened[p]) =>
    /\ {seq[i] : i \in Present} = 1..Cardinality(Present)
    /\ \A i, j \in Present : seq[i] = seq[j] => i = j

(* A migration, run once or again by a second opener, loses no message and *)
(* never moves one before another it came after.                           *)
LogSurvives ==
  [][ \A i, j \in Present :
        /\ seq'[i] # 0
        /\ seq[i] < seq[j] => seq'[i] < seq'[j] ]_vars

(* user_version is never ahead of the schema, so that an open that skips a *)
(* step loses nothing by it; it may be behind, when a second opener that   *)
(* read an old version stamps its own steps again.                         *)
VersionIsHonest ==
  \A s \in Store :
    /\ user_version[File[s]] >= 1 => s \in tables
    /\ (s = Messages /\ user_version[File[s]] >= 2)
         => \A i, j \in Present : seq[i] = seq[j] => i = j

=============================================================================
