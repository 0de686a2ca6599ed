------------------------- MODULE DerivedOutputProofs -------------------------
(***************************************************************************)
(* Theorems of DerivedOutput, for any number of processes, versions,       *)
(* conversations and messages, and every interleaving of the commands with *)
(* ingests, failures and kills; the last part takes the log to be quiet    *)
(* while a command runs.                                                   *)
(***************************************************************************)
EXTENDS DerivedOutput, FiniteSetTheorems, TLAPS

-----------------------------------------------------------------------------
(* The operators.                                                          *)

LEMMA EnvelopeType ==
  ASSUME NEW l \in Logs, NEW m \in Logged(l)
  PROVE  /\ l[m].conversation \in Conversation /\ l[m].author \in Author
         /\ l[m].body \in Body /\ l[m].body # None
  BY DerivedOutputAssumption DEF DerivedOutputAssumption, Logs, Logged, Envelope

LEMMA ContentType ==
  ASSUME NEW l \in Logs, NEW c
  PROVE  Content(l, c) \in Bodies
  BY EnvelopeType DEF Content, Bodies, In

LEMMA DerivedType ==
  ASSUME NEW l \in Logs, NEW failed
  PROVE  Derived(l, failed) \in StoresType
<1>1. [m \in Message |-> IF l[m] = None \/ m \in failed THEN None ELSE l[m].body] \in Bodies
  BY EnvelopeType DEF Bodies, Logged
<1> QED
  BY <1>1 DEF Derived, StoresType

LEMMA NothingType == Nothing \in Logs /\ Nothing \in Bodies /\ NoStores \in StoresType
  BY DEF Nothing, NoStores, Logs, Bodies, StoresType

\* Only what the strategy run saw has a projection.
Projects(s) == Logged(s.projected) \subseteq Logged(s.logged)

LEMMA OwnershipType ==
  ASSUME NEW s \in StoresType, Projects(s), NEW g, NEW c
  PROVE  Ownership(s, g, c) \in SUBSET (Topic \X (Message \X Author \X Body))
<1>1. s.projected \in Bodies /\ s.logged \in Logs
  BY DEF StoresType
<1>2. ASSUME NEW t PROVE Owners(s, t) \subseteq Message \X Author \X Body
  BY <1>1, EnvelopeType DEF Owners, Projects, Logged, Bodies
<1>3. ASSUME NEW m \in Logged(s.projected) PROVE Topics[s.projected[m]] \subseteq Topic
  BY <1>1, DerivedOutputAssumption DEF DerivedOutputAssumption, Logged, Bodies
<1> QED
  BY <1>2, <1>3 DEF Ownership

LEMMA DerivationType ==
  ASSUME NEW s \in StoresType, Projects(s), NEW g, NEW c
  PROVE  Derivation(s, g, c) \in ValueType
<1>1. s.projected \in Bodies /\ s.logged \in Logs
  BY DEF StoresType
<1>2. [m \in Message |-> IF m \in In(g, c) THEN s.projected[m] ELSE None] \in Bodies
  BY <1>1 DEF Bodies
<1>3. Warmup(s, c) \in Bodies
  BY <1>1 DEF Warmup, Bodies
<1>4. Participants(s, c) \in SUBSET Author
  BY <1>1, EnvelopeType DEF Participants, In
<1> QED
  BY <1>2, <1>3, <1>4, OwnershipType DEF Derivation, ValueType

-----------------------------------------------------------------------------
(* Types and control.                                                      *)

\* What the program counter says about the command at hand.
Control ==
  \A p \in Process :
    /\ pc[p] # "idle" => version[p] \in Version /\ command[p] \in Command
    /\ pc[p] = "idle" => command[p] = None
    /\ pc[p] # "idle" /\ command[p] = "warmup" => target[p] \in Conversation
    /\ pc[p] \in {"hash", "get", "hit", "assemble"} => command[p] = "warmup"
    /\ pc[p] \in {"write", "reclaim"} => command[p] # "verify"
    /\ pc[p] = "report" => command[p] \in {"replay", "warmup"}
    /\ pc[p] \in {"check", "compare"} => command[p] = "verify"
    /\ pc[p] \in {"reclaim", "compare"} => current[p] \in todo[p]
    /\ Projects(stores[p])

TInv == TypeOK /\ Control

LEMMA InitTInv == Init => TInv
  BY NothingType
  DEF Init, TInv, TypeOK, Control, PC, Outcome, Projects, NoStores

LEMMA IngestTInv ==
  ASSUME TInv, NEW m \in Message, NEW e \in Envelope, Ingest(m, e)
  PROVE  TInv'
<1>1. log' \in Logs
  BY DEF Ingest, TInv, TypeOK, Logs
<1>2. moved' \in [Process -> SUBSET Message]
  BY DEF Ingest, TInv, TypeOK
<1> QED
  BY <1>1, <1>2 DEF Ingest, TInv, TypeOK, Control, procVars, results

LEMMA BeginTInv ==
  ASSUME TInv, NEW p \in Process, NEW v \in Version,
         \/ \E cmd \in Command : Begin(p, cmd, v)
         \/ \E c \in Conversation : BeginWarmup(p, v, c)
  PROVE  TInv'
<1>1. CASE \E cmd \in Command : Begin(p, cmd, v)
  BY <1>1, DerivedOutputAssumption
  DEF DerivedOutputAssumption, Begin, Goto, TInv, TypeOK, Control, PC, results
<1>2. CASE \E c \in Conversation : BeginWarmup(p, v, c)
  BY <1>2, DerivedOutputAssumption
  DEF DerivedOutputAssumption, BeginWarmup, Goto, TInv, TypeOK, Control, PC, results
<1> QED
  BY <1>1, <1>2

LEMMA WarmupTInv ==
  ASSUME TInv, NEW p \in Process,
         WarmupHash(p) \/ WarmupHit(p) \/ ReportHit(p) \/ WarmupMiss(p)
  PROVE  TInv'
<1>1. CASE WarmupHash(p)
  <2>1. Content(log, target[p]) \in Bodies
    BY ContentType DEF TInv, TypeOK
  <2> QED
    BY <1>1, <2>1 DEF WarmupHash, Goto, TInv, TypeOK, Control, PC, results
<1>2. CASE WarmupHit(p)
  <2>1. PICK r \in Lookup(version[p], target[p], content[p]) :
          served' = [served EXCEPT ![p] =
            {[conversation |-> target[p], value |-> r.value, from |-> r.from, hit |-> TRUE]}]
    BY <1>2 DEF WarmupHit
  <2>2. target[p] \in Conversation /\ r.value \in ValueType /\ r.from \in StoresType
    BY <1>2, <2>1 DEF WarmupHit, Goto, Lookup, TInv, TypeOK, Control, RowType
  <2>3. [conversation |-> target[p], value |-> r.value, from |-> r.from, hit |-> TRUE]
          \in ServedType
    BY <2>2 DEF ServedType
  <2>4. served' \in [Process -> SUBSET ServedType]
    BY <2>1, <2>3 DEF TInv, TypeOK
  <2> QED
    BY <1>2, <2>4 DEF WarmupHit, Goto, TInv, TypeOK, Control, PC
<1>3. CASE ReportHit(p)
  <2>1. unprojected' \in [Process -> SUBSET Message]
    BY <1>3 DEF ReportHit, TInv, TypeOK, In, Logged
  <2> QED
    BY <1>3, <2>1 DEF ReportHit, Goto, TInv, TypeOK, Control, PC
<1>4. CASE WarmupMiss(p)
  BY <1>4 DEF WarmupMiss, Goto, TInv, TypeOK, Control, PC, results
<1> QED
  BY <1>1, <1>2, <1>3, <1>4

LEMMA RunTInv ==
  ASSUME TInv, NEW p \in Process, NEW failed, RunStrategy(p, failed) \/ Regroup(p)
  PROVE  TInv'
<1>1. CASE RunStrategy(p, failed)
  <2>1. stores' \in [Process -> StoresType]
    BY <1>1, DerivedType, NothingType DEF RunStrategy, TInv, TypeOK
  <2>2. Projects(NoStores) /\ Projects(Derived(log, failed))
    BY DEF Projects, NoStores, Derived, Logged
  <2>3. Projects(stores'[p]) /\ \A q \in Process \ {p} : stores'[q] = stores[q]
    BY <1>1, <2>2 DEF RunStrategy, TInv, TypeOK
  <2> QED
    BY <1>1, <2>1, <2>3 DEF RunStrategy, Goto, TInv, TypeOK, Control, PC, results
<1>2. CASE Regroup(p)
  <2>1. todo' \in [Process -> SUBSET Conversation]
    BY <1>2, EnvelopeType DEF Regroup, TInv, TypeOK, Conversations
  <2> QED
    BY <1>2, <2>1 DEF Regroup, Goto, TInv, TypeOK, Control, PC, results
<1> QED
  BY <1>1, <1>2

LEMMA PutTInv ==
  ASSUME TInv, NEW p \in Process, NEW c \in Conversation, Put(p, c)
  PROVE  TInv'
<1> DEFINE value == Derivation(stores[p], groups[p], c)
<1>1. /\ version[p] \in Version /\ Content(groups[p], c) \in Bodies /\ value \in ValueType
      /\ stores[p] \in StoresType
  BY ContentType, DerivationType DEF Put, Goto, TInv, TypeOK, Control
<1> HIDE DEF value
<1>2. rows' \subseteq RowType
  <2>1. Row(version[p], c, Content(groups[p], c), stores[p], value) \in RowType
    BY <1>1 DEF RowType, Row
  <2> QED
    BY <2>1 DEF Put, Upsert, TInv, TypeOK, value
<1>3. served' \in [Process -> SUBSET ServedType]
  <2>1. [conversation |-> c, value |-> value, from |-> stores[p], hit |-> FALSE] \in ServedType
    BY <1>1 DEF ServedType
  <2>2. CASE command[p] = "replay"
    BY <2>1, <2>2 DEF Put, TInv, TypeOK, value
  <2>3. CASE command[p] # "replay"
    BY <2>3 DEF Put, TInv, TypeOK
  <2> QED
    BY <2>2, <2>3
<1> QED
  BY <1>2, <1>3 DEF Put, Goto, TInv, TypeOK, Control, PC

LEMMA ReclaimTInv ==
  ASSUME TInv, NEW p \in Process, Reclaim(p)
  PROVE  TInv'
<1>1. current[p] \in Conversation
  BY DEF Reclaim, Goto, TInv, TypeOK, Control
<1>2. rows' \subseteq RowType
  BY DEF Reclaim, DeleteSuperseded, TInv, TypeOK
<1>3. leaked' \in [Conversation -> BOOLEAN]
  BY DEF Reclaim, TInv, TypeOK
<1> QED
  BY <1>1, <1>2, <1>3 DEF Reclaim, Goto, TInv, TypeOK, Control, PC, results

LEMMA DeliverTInv ==
  ASSUME TInv, NEW p \in Process, EndPopulate(p) \/ WarmupAssemble(p) \/ Report(p)
  PROVE  TInv'
<1>1. CASE EndPopulate(p)
  BY <1>1 DEF EndPopulate, Goto, TInv, TypeOK, Control, PC, results
<1>2. CASE WarmupAssemble(p)
  <2>1. target[p] \in Conversation
    BY <1>2 DEF WarmupAssemble, Goto, TInv, Control
  <2>2. Derivation(stores[p], log, target[p]) \in ValueType
    BY DerivationType DEF TInv, TypeOK, Control
  <2>3. [conversation |-> target[p], hit |-> FALSE, from |-> stores[p],
         value |-> Derivation(stores[p], log, target[p])] \in ServedType
    BY <2>1, <2>2 DEF ServedType, TInv, TypeOK
  <2>4. served' \in [Process -> SUBSET ServedType]
    BY <1>2, <2>3 DEF WarmupAssemble, TInv, TypeOK
  <2> QED
    BY <1>2, <2>4 DEF WarmupAssemble, Goto, TInv, TypeOK, Control, PC
<1>3. CASE Report(p)
  <2>1. unprojected' \in [Process -> SUBSET Message]
    BY <1>3 DEF Report, TInv, TypeOK, In, Logged
  <2> QED
    BY <1>3, <2>1 DEF Report, Goto, TInv, TypeOK, Control, PC
<1> QED
  BY <1>1, <1>2, <1>3

LEMMA VerifyTInv ==
  ASSUME TInv, NEW p \in Process,
         (\E c \in Conversation : VerifyHash(p, c)) \/ VerifyCompare(p) \/ VerifyEnd(p)
  PROVE  TInv'
<1>1. ASSUME NEW c \in Conversation, VerifyHash(p, c) PROVE TInv'
  <2>1. Content(log, c) \in Bodies
    BY ContentType DEF TInv, TypeOK
  <2> QED
    BY <1>1, <2>1 DEF VerifyHash, Goto, TInv, TypeOK, Control, PC, results
<1>2. CASE VerifyCompare(p)
  <2>1. current[p] \in Conversation
    BY <1>2 DEF VerifyCompare, Goto, TInv, TypeOK, Control
  <2>2. PICK o \in Outcome : verdict' = [verdict EXCEPT ![p][current[p]] = o]
    <3> DEFINE stored == Lookup(version[p], current[p], content[p])
               fresh  == Derivation(stores[p], groups[p], current[p])
               o == CASE stored = {} -> "not_cached"
                      [] \E r \in stored : r.value = fresh -> "verified"
                      [] OTHER -> "diverged"
    <3>1. o \in Outcome
      BY DEF Outcome
    <3>2. verdict' = [verdict EXCEPT ![p][current[p]] = o]
      BY <1>2 DEF VerifyCompare
    <3> QED
      BY <3>1, <3>2
  <2>3. verdict' \in [Process -> [Conversation -> Outcome]]
    BY <2>1, <2>2 DEF TInv, TypeOK
  <2> QED
    BY <1>2, <2>3 DEF VerifyCompare, Goto, TInv, TypeOK, Control, PC
<1>3. CASE VerifyEnd(p)
  BY <1>3 DEF VerifyEnd, Goto, TInv, TypeOK, Control, PC, results
<1> QED
  BY <1>1, <1>2, <1>3

LEMMA ExitTInv ==
  ASSUME TInv, NEW p \in Process, Exit(p)
  PROVE  TInv'
<1>1. leaked' \in [Conversation -> BOOLEAN]
  BY DEF Exit, TInv, TypeOK
<1> QED
  BY <1>1, NothingType DEF Exit, TInv, TypeOK, Control, PC, Outcome, Projects, NoStores

LEMMA StepTInv == TInv /\ [Next]_vars => TInv'
<1> SUFFICES ASSUME TInv, [Next]_vars PROVE TInv'
  OBVIOUS
<1>1. CASE UNCHANGED vars
  BY <1>1 DEF vars, procVars, results, TInv, TypeOK, Control
<1>2. CASE \E i \in Inputs : Ingest(i[1], i[2])
  BY <1>2, IngestTInv, DerivedOutputAssumption DEF DerivedOutputAssumption
<1> QED
  BY <1>1, <1>2, BeginTInv, WarmupTInv, RunTInv, PutTInv, ReclaimTInv, DeliverTInv,
     VerifyTInv, ExitTInv
  DEF Next

LEMMA TypeInvariance == Spec => []TInv
  BY InitTInv, StepTInv, PTL DEF Spec

(* Every variable keeps its type, whatever commands, ingests, failures and *)
(* kills interleave (commands.rs, derived.rs populate_cache).              *)
THEOREM TypeCorrect == Spec => []TypeOK
<1>1. TInv => TypeOK
  BY DEF TInv
<1> QED
  BY <1>1, TypeInvariance, PTL

-----------------------------------------------------------------------------
(* The rows of the cache.                                                  *)

\* Everything but Put and Reclaim leaves the rows alone, and who is reclaiming.
LEMMA OtherStepsKeepRows ==
  ASSUME TInv, Next,
         ~ \E p \in Process, c \in Conversation : Put(p, c),
         ~ \E p \in Process : Reclaim(p)
  PROVE  /\ rows' = rows
         /\ \A c \in Conversation :
              \/ Writers(c)' = Writers(c) /\ leaked'[c] = leaked[c]
              \/ leaked'[c]
<1>1. ASSUME NEW p \in Process, Exit(p)
      PROVE  \A c \in Conversation :
               \/ Writers(c)' = Writers(c) /\ leaked'[c] = leaked[c]
               \/ leaked'[c]
  <2> SUFFICES ASSUME NEW c \in Conversation, ~leaked'[c]
               PROVE  Writers(c)' = Writers(c) /\ leaked'[c] = leaked[c]
    BY ExitTInv, <1>1 DEF TInv, TypeOK
  <2>1. p \notin Writers(c)
    BY <1>1 DEF Writers, Exit, TInv, TypeOK
  <2>2. Writers(c)' = Writers(c)
    BY <1>1, <2>1 DEF Writers, Exit, TInv, TypeOK
  <2>3. leaked'[c] = leaked[c]
    BY <1>1 DEF Exit, TInv, TypeOK
  <2> QED
    BY <2>2, <2>3
<1>2. ASSUME NEW p \in Process, Exit(p) PROVE rows' = rows
  BY <1>2 DEF Exit
<1>3. CASE \E i \in Inputs : Ingest(i[1], i[2])
  BY <1>3 DEF Ingest, procVars, Writers
<1>4. ASSUME NEW p \in Process,
             \/ \E cmd \in Command, v \in Version : Begin(p, cmd, v)
             \/ \E v \in Version, c \in Conversation : BeginWarmup(p, v, c)
             \/ WarmupHash(p) \/ WarmupHit(p) \/ ReportHit(p) \/ WarmupMiss(p)
             \/ \E failed \in SUBSET (MayFail \cap Logged(log)) : RunStrategy(p, failed)
             \/ Regroup(p)
             \/ \E c \in Conversation : VerifyHash(p, c)
             \/ EndPopulate(p)
             \/ WarmupAssemble(p) \/ Report(p)
             \/ VerifyCompare(p) \/ VerifyEnd(p)
      PROVE  rows' = rows /\ leaked' = leaked /\ \A c \in Conversation : Writers(c)' = Writers(c)
  <2>1. rows' = rows /\ leaked' = leaked
    BY <1>4 DEF Begin, BeginWarmup, WarmupHash, WarmupHit, ReportHit, WarmupMiss, RunStrategy,
                Regroup, VerifyHash, EndPopulate, WarmupAssemble, Report, VerifyCompare, VerifyEnd
  <2>2. /\ pc[p] # "reclaim" /\ pc'[p] # "reclaim"
        /\ \A q \in Process \ {p} : pc'[q] = pc[q] /\ current'[q] = current[q]
    BY <1>4 DEF Begin, BeginWarmup, WarmupHash, WarmupHit, ReportHit, WarmupMiss, RunStrategy,
                Regroup, VerifyHash, EndPopulate, WarmupAssemble, Report, VerifyCompare, VerifyEnd,
                Goto, TInv, TypeOK
  <2> QED
    BY <2>1, <2>2 DEF Writers
<1> QED
  BY <1>1, <1>2, <1>3, <1>4 DEF Next

LEMMA PutKeepsKeys ==
  ASSUME TInv, RowsWellKeyed, NEW p \in Process, NEW c \in Conversation, Put(p, c)
  PROVE  RowsWellKeyed'
<1> DEFINE h == Content(groups[p], c)
           value == Derivation(stores[p], groups[p], c)
           new == Row(version[p], c, h, stores[p], value)
<1>1. rows' = (rows \ Lookup(version[p], c, h)) \cup {new}
  BY DEF Put, Upsert
<1>2. Logged(value.projections) \subseteq Logged(h)
  BY EnvelopeType DEF TInv, TypeOK, Logged, In, Content, Derivation
<1>3. new.version = version[p] /\ new.conversation = c /\ new.content = h /\ new.value = value
  BY DEF Row
<1> HIDE DEF h, value, new
<1>4. \A r \in rows \ Lookup(version[p], c, h) :
        ~(r.version = version[p] /\ r.conversation = c /\ r.content = h)
  BY DEF Lookup
<1>5. \A r, s \in rows' :
        (r.version = s.version /\ r.conversation = s.conversation /\ r.content = s.content)
          => r = s
  BY <1>1, <1>3, <1>4 DEF RowsWellKeyed
<1>6. \A r \in rows' : Logged(r.value.projections) \subseteq Logged(r.content)
  BY <1>1, <1>2, <1>3 DEF RowsWellKeyed
<1> QED
  BY <1>5, <1>6 DEF RowsWellKeyed

LEMMA ReclaimKeepsKeys ==
  ASSUME RowsWellKeyed, NEW p \in Process, Reclaim(p)
  PROVE  RowsWellKeyed'
<1>1. rows' \subseteq rows
  BY DEF Reclaim, DeleteSuperseded
<1> QED
  BY <1>1 DEF RowsWellKeyed

LEMMA KeysInvariance == Spec => [](TInv /\ RowsWellKeyed)
<1>1. Init => RowsWellKeyed
  BY DEF Init, RowsWellKeyed
<1>2. TInv /\ RowsWellKeyed /\ [Next]_vars => RowsWellKeyed'
  <2> SUFFICES ASSUME TInv, RowsWellKeyed, [Next]_vars PROVE RowsWellKeyed'
    OBVIOUS
  <2>1. CASE UNCHANGED vars
    BY <2>1 DEF vars, RowsWellKeyed
  <2>2. CASE rows' = rows
    BY <2>2 DEF RowsWellKeyed
  <2> QED
    BY <2>1, <2>2, PutKeepsKeys, ReclaimKeepsKeys, OtherStepsKeepRows
<1> QED
  BY <1>1, <1>2, InitTInv, StepTInv, PTL DEF Spec

(* The table holds one row per key, and serves projections of the          *)
(* messages of the row's content only (sqlite_derived_output_cache.rs put, *)
(* derived.rs populate_cache).                                             *)
THEOREM RowsStayWellKeyed == Spec => []RowsWellKeyed
  BY KeysInvariance, PTL

-----------------------------------------------------------------------------
(* The size of the cache.                                                  *)

BInv == IsFiniteSet(rows) /\ RowBound

LEMMA FiniteParts ==
  ASSUME IsFiniteSet(Process), IsFiniteSet(rows), NEW c
  PROVE  /\ IsFiniteSet(RowsOf(c)) /\ Cardinality(RowsOf(c)) \in Nat
         /\ IsFiniteSet(Writers(c)) /\ Cardinality(Writers(c)) \in Nat
<1>1. RowsOf(c) \in SUBSET rows /\ Writers(c) \in SUBSET Process
  BY DEF RowsOf, Writers
<1> QED
  BY <1>1, FS_Subset, FS_CardinalityType

\* A put adds at most one row of its conversation, and one writer.
LEMMA PutKeepsBound ==
  ASSUME IsFiniteSet(Process), TInv, BInv, NEW p \in Process, NEW c \in Conversation, Put(p, c)
  PROVE  BInv'
<1> DEFINE h == Content(groups[p], c)
           new == Row(version[p], c, h, stores[p], Derivation(stores[p], groups[p], c))
<1>1. rows' = (rows \ Lookup(version[p], c, h)) \cup {new} /\ new.conversation = c
  BY DEF Put, Upsert, Row
<1>2. /\ leaked' = leaked /\ pc[p] = "write" /\ pc'[p] = "reclaim" /\ current'[p] = c
      /\ \A q \in Process \ {p} : pc'[q] = pc[q] /\ current'[q] = current[q]
  BY DEF Put, Goto, TInv, TypeOK
<1> HIDE DEF h, new
<1>3. IsFiniteSet(rows')
  <2>1. IsFiniteSet(rows \ Lookup(version[p], c, h))
    BY FS_Subset DEF BInv
  <2> QED
    BY <1>1, <2>1, FS_AddElement
<1>4. ASSUME NEW d \in Conversation, ~leaked'[d]
      PROVE  Cardinality(RowsOf(d)') <= 1 + Cardinality(Writers(d)')
  <2>1. Cardinality(RowsOf(d)) <= 1 + Cardinality(Writers(d))
    BY <1>2, <1>4 DEF BInv, RowBound
  <2>2. CASE d # c
    <3>1. RowsOf(d)' = RowsOf(d)
      BY <1>1, <2>2 DEF RowsOf, Lookup
    <3>2. Writers(d)' = Writers(d)
      BY <1>2, <2>2 DEF Writers
    <3> QED
      BY <2>1, <3>1, <3>2
  <2>3. CASE d = c
    <3>1. RowsOf(c)' \in SUBSET (RowsOf(c) \cup {new})
      BY <1>1 DEF RowsOf
    <3>2. Writers(c)' = Writers(c) \cup {p} /\ p \notin Writers(c)
      BY <1>2 DEF Writers
    <3>3. /\ IsFiniteSet(RowsOf(c)) /\ Cardinality(RowsOf(c)) \in Nat
          /\ IsFiniteSet(Writers(c)) /\ Cardinality(Writers(c)) \in Nat
      BY FiniteParts DEF BInv
    <3>4. /\ IsFiniteSet(RowsOf(c) \cup {new})
          /\ Cardinality(RowsOf(c) \cup {new}) <= Cardinality(RowsOf(c)) + 1
      <4>1. /\ IsFiniteSet(RowsOf(c) \cup {new})
            /\ Cardinality(RowsOf(c) \cup {new}) =
                 IF new \in RowsOf(c) THEN Cardinality(RowsOf(c)) ELSE Cardinality(RowsOf(c)) + 1
        BY <3>3, FS_AddElement
      <4> QED
        BY <4>1, <3>3
    <3>5. Cardinality(RowsOf(c)') <= Cardinality(RowsOf(c) \cup {new})
      BY <3>1, <3>4, FS_Subset
    <3>6. Cardinality(Writers(c)') = Cardinality(Writers(c)) + 1
      BY <3>2, <3>3, FS_AddElement
    <3>7. /\ Cardinality(RowsOf(c)') \in Nat
          /\ Cardinality(RowsOf(c) \cup {new}) \in Nat
      BY <3>1, <3>4, FS_Subset, FS_CardinalityType
    <3> QED
      BY <2>1, <2>3, <3>3, <3>4, <3>5, <3>6, <3>7
  <2> QED
    BY <2>2, <2>3
<1> QED
  BY <1>3, <1>4 DEF BInv, RowBound

\* A reclaim that succeeds leaves one row of its conversation at most; one
\* that fails is remembered.
LEMMA ReclaimKeepsBound ==
  ASSUME IsFiniteSet(Process), TInv, RowsWellKeyed, BInv, NEW p \in Process, Reclaim(p)
  PROVE  BInv'
<1> DEFINE h == Content(groups[p], current[p])
<1>0. PICK c \in Conversation : c = current[p]
  BY DEF Reclaim, Goto, TInv, TypeOK, Control
<1>1. /\ pc[p] = "reclaim" /\ pc'[p] = "write" /\ rows' \subseteq rows
      /\ \A q \in Process \ {p} : pc'[q] = pc[q] /\ current'[q] = current[q]
      /\ \A d \in Conversation : d # c => leaked'[d] = leaked[d]
  BY <1>0 DEF Reclaim, DeleteSuperseded, Goto, TInv, TypeOK
<1>2. IsFiniteSet(rows')
  BY <1>1, FS_Subset DEF BInv
<1>3. ~leaked'[c] => rows' = {r \in rows : r.conversation = c => (r.version = version[p] /\ r.content = h)}
  BY <1>0 DEF Reclaim, DeleteSuperseded, TInv, TypeOK
<1> HIDE DEF h
<1>4. ASSUME NEW d \in Conversation, ~leaked'[d]
      PROVE  Cardinality(RowsOf(d)') <= 1 + Cardinality(Writers(d)')
  <2>1. CASE d # c
    <3>1. Cardinality(RowsOf(d)) <= 1 + Cardinality(Writers(d))
      BY <1>1, <1>4, <2>1 DEF BInv, RowBound
    <3>2. Writers(d)' = Writers(d)
      BY <1>0, <1>1, <2>1 DEF Writers
    <3>3. RowsOf(d)' \in SUBSET RowsOf(d)
      BY <1>1 DEF RowsOf
    <3>4. /\ Cardinality(RowsOf(d)') <= Cardinality(RowsOf(d))
          /\ Cardinality(RowsOf(d)) \in Nat /\ Cardinality(RowsOf(d)') \in Nat
          /\ Cardinality(Writers(d)) \in Nat
      BY <3>3, FiniteParts, FS_Subset, FS_CardinalityType DEF BInv
    <3> QED
      BY <3>1, <3>2, <3>4
  <2>2. CASE d = c
    <3>1. \A r, s \in RowsOf(c)' : r = s
      BY <1>1, <1>3, <1>4, <2>2 DEF RowsOf, RowsWellKeyed
    <3>2. RowsOf(c)' = {} \/ \E r : RowsOf(c)' = {r}
      BY <3>1
    <3>3. Cardinality(RowsOf(c)') \in 0..1
      <4>1. CASE RowsOf(c)' = {}
        <5>1. Cardinality({}) = 0
          BY FS_EmptySet
        <5> QED
          BY <4>1, <5>1
      <4>2. ASSUME NEW r, RowsOf(c)' = {r} PROVE Cardinality(RowsOf(c)') = 1
        BY <4>2, FS_Singleton
      <4> QED
        BY <3>2, <4>1, <4>2
    <3>4. Writers(c)' \in SUBSET Process
      BY DEF Writers
    <3>5. Cardinality(Writers(c)') \in Nat
      BY <3>4, FS_Subset, FS_CardinalityType
    <3> QED
      BY <2>2, <3>3, <3>5
  <2> QED
    BY <2>1, <2>2
<1> QED
  BY <1>2, <1>4 DEF BInv, RowBound

LEMMA StepKeepsBound ==
  ASSUME IsFiniteSet(Process)
  PROVE  TInv /\ RowsWellKeyed /\ BInv /\ [Next]_vars => BInv'
<1> SUFFICES ASSUME TInv, RowsWellKeyed, BInv, [Next]_vars PROVE BInv'
  OBVIOUS
<1>1. CASE UNCHANGED vars
  BY <1>1 DEF vars, procVars, BInv, RowBound, RowsOf, Writers
<1>2. CASE /\ rows' = rows
           /\ \A c \in Conversation :
                \/ Writers(c)' = Writers(c) /\ leaked'[c] = leaked[c]
                \/ leaked'[c]
  BY <1>2 DEF BInv, RowBound, RowsOf
<1> QED
  BY <1>1, <1>2, PutKeepsBound, ReclaimKeepsBound, OtherStepsKeepRows

(* The cache is bounded (architecture.md "Derived-output cache"): unless a *)
(* reclaim was lost, a conversation has one row, and one more per process  *)
(* between its put and its reclaim.                                        *)
THEOREM CacheIsBounded ==
  ASSUME IsFiniteSet(Process)
  PROVE  Spec => []RowBound
<1>1. Init => BInv
  <2> SUFFICES ASSUME Init PROVE BInv
    OBVIOUS
  <2>1. rows = {} /\ \A c : RowsOf(c) = {} /\ Writers(c) = {}
    BY DEF Init, RowsOf, Writers
  <2> QED
    BY <2>1, FS_EmptySet DEF BInv, RowBound
<1>2. TInv /\ RowsWellKeyed /\ BInv /\ [Next]_vars => BInv'
  BY StepKeepsBound
<1>3. BInv => RowBound
  BY DEF BInv
<1> QED
  BY <1>1, <1>2, <1>3, KeysInvariance, PTL DEF Spec

-----------------------------------------------------------------------------
(* No projection failure goes unreported: the proof of NoSilentGap.        *)
(*                                                                         *)
(* replay and warmup read the log three times: the strategy's snapshot,    *)
(* populate_cache's re-read and the report's.  The argument is that the    *)
(* log only grows, so each read sees at least the messages of the one      *)
(* before, that they all place a message that did not move in the same     *)
(* conversation, and that a derivation shows exactly the projections of    *)
(* its run.                                                                *)

\* The messages a finished command must account for.
Covered(p) ==
  CASE command[p] = "replay" -> Logged(groups[p])
    [] command[p] = "warmup" -> In(groups[p], target[p]) \cup Logged(content[p])
    [] OTHER -> {}

\* What p has of message m is what its strategy run projected.
ShowsRun(p) == \A m \in Covered(p) \ moved[p] : Shown(p, m) <=> stores[p].projected[m] # None

\* Each read of the log saw at least what the one before it saw ...
Reads(p) ==
  /\ Logged(groups[p]) \subseteq Logged(log)
  /\ Logged(content[p]) \subseteq Logged(log)
  /\ Logged(stores[p].logged) \subseteq Logged(log)
  /\ pc[p] # "populate" => Logged(stores[p].logged) \subseteq Logged(groups[p])

\* ... and every message that did not move in the conversation it is in.
Places(p) ==
  /\ pc[p] = "idle" =>
       Logged(groups[p]) = {} /\ Logged(content[p]) = {} /\ Logged(stores[p].logged) = {}
  /\ \A m \in Message \ moved[p] :
       /\ m \in Logged(groups[p]) => groups[p][m].conversation = log[m].conversation
       /\ m \in Logged(stores[p].logged) =>
            stores[p].logged[m].conversation = log[m].conversation
       /\ command[p] = "warmup" /\ m \in Logged(content[p]) =>
            log[m].conversation = target[p]

\* A replay delivers conversation after conversation, with the run's projections.
Delivers(p) ==
  /\ pc[p] \in {"idle", "hash", "get", "run", "populate"} => served[p] = {}
  /\ (command[p] = "replay" /\ pc[p] \in {"write", "reclaim", "report"}) =>
       /\ \A s \in served[p], m \in Message :
            s.value.projections[m] # None => stores[p].projected[m] # None
       /\ \A m \in Logged(groups[p]) :
            \/ ~HasWarmup(stores[p], groups[p][m].conversation)
            \/ /\ pc[p] # "report" /\ groups[p][m].conversation \in todo[p]
               /\ ~(pc[p] = "reclaim" /\ groups[p][m].conversation = current[p])
            \/ \E s \in served[p] : s.value.projections[m] = stores[p].projected[m]
  /\ (command[p] = "warmup" /\ pc[p] = "report") => ShowsRun(p)

\* NoSilentGap, of one process.
Accounts(p) ==
  pc[p] = "done" => \A m \in Covered(p) \ moved[p] : Shown(p, m) <=> m \notin unprojected[p]

G(p) == Reads(p) /\ Places(p) /\ Delivers(p) /\ Accounts(p)

LEMMA InitG == Init => \A p \in Process : G(p)
  BY DEF Init, G, Reads, Places, Delivers, Accounts, Logged, Nothing, NoStores

\* The log grows, and p has been told which messages move.
Growth(p) ==
  /\ Logged(log) \subseteq Logged(log')
  /\ moved[p] \subseteq moved'[p]
  /\ \A m \in Logged(log) \ moved'[p] :
       pc[p] # "idle" => log'[m].conversation = log[m].conversation

\* A step that leaves p's memory alone.
LEMMA FrameG ==
  ASSUME NEW p \in Process, G(p), Growth(p),
         pc'[p] = pc[p], command'[p] = command[p], target'[p] = target[p],
         content'[p] = content[p], stores'[p] = stores[p], groups'[p] = groups[p],
         todo'[p] = todo[p], current'[p] = current[p], served'[p] = served[p],
         unprojected'[p] = unprojected[p]
  PROVE  G(p)'
<1>1. Reads(p)'
  BY DEF G, Reads, Logged, Growth
<1>2. Covered(p)' = Covered(p)
  BY DEF Covered, Logged, In
<1>3. \A m : Shown(p, m)' <=> Shown(p, m)
  BY DEF Shown
<1>4. moved[p] \subseteq moved'[p]
  BY DEF Growth
<1>5. Accounts(p)'
  BY <1>2, <1>3, <1>4 DEF G, Accounts
<1>6. ShowsRun(p) => ShowsRun(p)'
  BY <1>2, <1>3, <1>4 DEF ShowsRun
<1>7. Delivers(p)'
  BY <1>6 DEF G, Delivers, Logged, HasWarmup, In
<1>8. Places(p)'
  <2>1. CASE pc[p] = "idle"
    BY <2>1 DEF G, Places, Logged
  <2>2. CASE pc[p] # "idle"
    <3>1. \A m \in Logged(log) \ moved'[p] : log'[m].conversation = log[m].conversation
      BY <2>2 DEF Growth
    <3> QED
      BY <1>4, <2>2, <3>1 DEF G, Places, Reads, Logged
  <2> QED
    BY <2>1, <2>2
<1> QED
  BY <1>1, <1>5, <1>7, <1>8 DEF G

\* Only an ingest writes the log: it adds a message or replaces its envelope.
LEMMA LogGrows ==
  ASSUME TInv, [Next]_vars, NEW p \in Process, ~Exit(p)
  PROVE  Growth(p)
<1>1. ASSUME NEW m \in Message, NEW e \in Envelope, Ingest(m, e)
      PROVE  Growth(p)
  <2>1. e # None
    BY DerivedOutputAssumption DEF DerivedOutputAssumption
  <2>2. log' = [log EXCEPT ![m] = e] /\ log \in [Message -> Envelope \cup {None}]
    BY <1>1 DEF Ingest, TInv, TypeOK, Logs
  <2>3. Logged(log) \subseteq Logged(log') /\ moved[p] \subseteq moved'[p]
    BY <1>1, <2>1, <2>2 DEF Ingest, Logged, TInv, TypeOK
  <2>4. ASSUME NEW n \in Logged(log), n \notin moved'[p], pc[p] # "idle"
        PROVE  log'[n].conversation = log[n].conversation
    <3>1. CASE n # m
      BY <2>2, <3>1
    <3>2. CASE n = m
      BY <1>1, <2>2, <2>4, <3>2 DEF Ingest, Logged
    <3> QED
      BY <3>1, <3>2
  <2> QED
    BY <2>3, <2>4 DEF Growth
<1>2. ASSUME NEW q \in Process, Exit(q), q # p
      PROVE  log' = log /\ moved'[p] = moved[p]
  BY <1>2 DEF Exit, TInv, TypeOK
<1>3. CASE log' = log /\ moved'[p] = moved[p]
  BY <1>3 DEF Growth, Logged
<1>4. CASE \E i \in Inputs : Ingest(i[1], i[2])
  BY <1>1, <1>4, DerivedOutputAssumption DEF DerivedOutputAssumption
<1> QED
  BY <1>2, <1>3, <1>4
  DEF Next, vars, Begin, BeginWarmup, WarmupHash, WarmupHit, ReportHit, WarmupMiss, RunStrategy,
      Regroup, Put, Reclaim, VerifyHash, EndPopulate, WarmupAssemble, Report, VerifyCompare,
      VerifyEnd

-----------------------------------------------------------------------------
(* The steps of p.                                                         *)

LEMMA BeginG ==
  ASSUME TInv, NEW p \in Process, G(p), NEW v,
         \/ \E cmd \in Command : Begin(p, cmd, v)
         \/ \E c \in Conversation : BeginWarmup(p, v, c)
  PROVE  G(p)'
<1>1. /\ log' = log /\ moved' = moved
      /\ content' = content /\ stores' = stores /\ groups' = groups
      /\ served' = served /\ pc[p] = "idle" /\ pc'[p] \in {"run", "hash"}
  BY DEF Begin, BeginWarmup, Goto, results, TInv, TypeOK
<1>2. Reads(p)' /\ Places(p)'
  BY <1>1 DEF G, Reads, Places, Logged
<1>3. Delivers(p)' /\ Accounts(p)'
  BY <1>1 DEF G, Delivers, Accounts
<1> QED
  BY <1>2, <1>3 DEF G

LEMMA WarmupG ==
  ASSUME TInv, NEW p \in Process, G(p), WarmupHash(p) \/ WarmupHit(p) \/ WarmupMiss(p)
  PROVE  G(p)'
<1>1. CASE WarmupHash(p)
  <2>1. /\ log' = log /\ moved' = moved /\ stores' = stores /\ groups' = groups
        /\ served' = served /\ target' = target /\ content'[p] = Content(log, target[p])
        /\ pc[p] = "hash" /\ pc'[p] = "get"
    BY <1>1 DEF WarmupHash, Goto, results, TInv, TypeOK
  <2>2. Logged(content'[p]) \subseteq In(log, target[p])
    BY <2>1 DEF Content, Logged
  <2>3. Reads(p)' /\ Places(p)'
    BY <2>1, <2>2 DEF G, Reads, Places, Logged, In
  <2> QED
    BY <2>1, <2>3 DEF G, Delivers, Accounts
<1>2. CASE WarmupHit(p) \/ WarmupMiss(p)
  <2>1. /\ log' = log /\ moved' = moved
        /\ stores' = stores /\ groups' = groups /\ content' = content
        /\ command' = command /\ target' = target
        /\ pc[p] = "get" /\ pc'[p] \in {"hit", "run"}
        /\ pc'[p] = "run" => served' = served
    BY <1>2 DEF WarmupHit, WarmupMiss, Goto, results, TInv, TypeOK
  <2>2. Reads(p)' /\ Places(p)'
    BY <2>1 DEF G, Reads, Places, Logged
  <2> QED
    BY <2>1, <2>2 DEF G, Delivers, Accounts
<1> QED
  BY <1>1, <1>2

LEMMA ReportHitG ==
  ASSUME TInv, NEW p \in Process, G(p), ReportHit(p)
  PROVE  G(p)'
<1>1. /\ log' = log /\ moved' = moved
      /\ stores' = stores /\ groups' = groups /\ content' = content
      /\ command' = command /\ target' = target /\ served' = served
      /\ pc[p] = "hit" /\ pc'[p] = "done" /\ command[p] = "warmup"
      /\ unprojected'[p] = {m \in In(log, target[p]) : \A s \in served[p] : s.value.projections[m] = None}
  BY DEF ReportHit, Goto, results, TInv, TypeOK, Control
<1>2. Reads(p)' /\ Places(p)'
  BY <1>1 DEF G, Reads, Places, Logged
<1>3. Covered(p)' \ moved[p] \subseteq In(log, target[p])
  BY <1>1 DEF Covered, G, Reads, Places, In, Logged
<1>4. \A m \in Covered(p)' \ moved[p] : Shown(p, m)' <=> m \notin unprojected'[p]
  BY <1>1, <1>3 DEF Shown
<1>5. Delivers(p)' /\ Accounts(p)'
  BY <1>1, <1>4 DEF Delivers, Accounts
<1> QED
  BY <1>2, <1>5 DEF G

LEMMA RunG ==
  ASSUME TInv, NEW p \in Process, G(p), NEW failed, RunStrategy(p, failed)
  PROVE  G(p)'
<1>1. /\ log' = log /\ moved' = moved /\ groups' = groups /\ content' = content
      /\ served' = served /\ command' = command /\ target' = target
      /\ pc[p] = "run" /\ pc'[p] = "populate"
      /\ stores'[p] \in {NoStores, Derived(log, failed)}
  BY DEF RunStrategy, Goto, results, TInv, TypeOK
<1>2. Logged(stores'[p].logged) = {} \/ stores'[p].logged = log
  BY <1>1 DEF NoStores, Nothing, Derived, Logged
<1>3. Reads(p)' /\ Places(p)'
  BY <1>1, <1>2 DEF G, Reads, Places, Logged
<1> QED
  BY <1>1, <1>3 DEF G, Delivers, Accounts

LEMMA RegroupG ==
  ASSUME TInv, NEW p \in Process, G(p), Regroup(p)
  PROVE  G(p)'
<1>1. /\ log' = log /\ moved' = moved /\ stores' = stores /\ content' = content
      /\ served' = served /\ command' = command /\ target' = target
      /\ groups'[p] = log /\ served[p] = {}
      /\ pc[p] = "populate" /\ pc'[p] \in {"check", "write"}
      /\ todo'[p] = {c \in Conversations(log) : HasWarmup(stores[p], c)}
  BY DEF Regroup, Goto, results, TInv, TypeOK, G, Delivers
<1>2. Reads(p)' /\ Places(p)'
  BY <1>1 DEF G, Reads, Places, Logged
<1>3. \A m \in Logged(log) :
        HasWarmup(stores[p], log[m].conversation) => log[m].conversation \in todo'[p]
  BY <1>1 DEF Conversations
<1>4. Delivers(p)'
  BY <1>1, <1>3 DEF Delivers, HasWarmup, In, Logged
<1>5. Accounts(p)'
  BY <1>1 DEF Accounts
<1> QED
  BY <1>2, <1>4, <1>5 DEF G

LEMMA PutG ==
  ASSUME TInv, NEW p \in Process, G(p), NEW c \in Conversation, Put(p, c)
  PROVE  G(p)'
<1>1. PICK value : value = Derivation(stores[p], groups[p], c)
  OBVIOUS
<1>2. /\ log' = log /\ moved' = moved
      /\ stores' = stores /\ content' = content /\ groups' = groups
      /\ command' = command /\ target' = target /\ todo' = todo /\ current'[p] = c
      /\ pc[p] = "write" /\ pc'[p] = "reclaim"
  BY DEF Put, Goto, TInv, TypeOK
<1>3. command[p] = "replay" =>
        served'[p] = served[p] \cup
          {[conversation |-> c, value |-> value, from |-> stores[p], hit |-> FALSE]}
  BY <1>1 DEF Put, TInv, TypeOK
<1>4. \A m \in Message :
        value.projections[m] = IF m \in In(groups[p], c) THEN stores[p].projected[m] ELSE None
  BY <1>1 DEF Derivation
<1>5. Reads(p)' /\ Places(p)'
  BY <1>2 DEF G, Reads, Places, Logged
<1>6. ASSUME command[p] = "replay", NEW m \in Logged(groups[p])
      PROVE  \/ ~HasWarmup(stores[p], groups[p][m].conversation)
             \/ groups[p][m].conversation \in todo[p] /\ groups[p][m].conversation # c
             \/ \E s \in served'[p] : s.value.projections[m] = stores[p].projected[m]
  <2>1. CASE groups[p][m].conversation = c
    <3>1. m \in Message /\ m \in In(groups[p], c)
      BY <1>6, <2>1 DEF In, Logged
    <3>2. value.projections[m] = stores[p].projected[m]
      BY <1>4, <3>1
    <3>3. PICK s : s = [conversation |-> c, value |-> value, from |-> stores[p], hit |-> FALSE]
      OBVIOUS
    <3>4. s \in served'[p] /\ s.value = value
      BY <1>3, <1>6, <3>3
    <3> QED
      BY <3>2, <3>4
  <2>2. CASE groups[p][m].conversation # c
    BY <1>2, <1>3, <1>6, <2>2 DEF G, Delivers
  <2> QED
    BY <2>1, <2>2
<1>7. ASSUME command[p] = "replay", NEW s \in served'[p], NEW m \in Message,
             s.value.projections[m] # None
      PROVE  stores[p].projected[m] # None
  BY <1>2, <1>3, <1>4, <1>7 DEF G, Delivers
<1>8. Delivers(p)'
  BY <1>2, <1>6, <1>7 DEF Delivers, HasWarmup, In, Logged
<1>9. Accounts(p)'
  BY <1>2 DEF Accounts
<1> QED
  BY <1>5, <1>8, <1>9 DEF G

LEMMA ReclaimG ==
  ASSUME TInv, NEW p \in Process, G(p), Reclaim(p)
  PROVE  G(p)'
<1>1. /\ log' = log /\ moved' = moved
      /\ stores' = stores /\ content' = content /\ groups' = groups
      /\ command' = command /\ target' = target
      /\ served' = served /\ todo'[p] = todo[p] \ {current[p]}
      /\ pc[p] = "reclaim" /\ pc'[p] = "write"
  BY DEF Reclaim, Goto, results, TInv, TypeOK
<1>2. Reads(p)' /\ Places(p)'
  BY <1>1 DEF G, Reads, Places, Logged
<1>3. Delivers(p)'
  BY <1>1 DEF G, Delivers, HasWarmup, In, Logged
<1>4. Accounts(p)'
  BY <1>1 DEF Accounts
<1> QED
  BY <1>2, <1>3, <1>4 DEF G

LEMMA EndPopulateG ==
  ASSUME TInv, NEW p \in Process, G(p), EndPopulate(p)
  PROVE  G(p)'
<1>1. /\ log' = log /\ moved' = moved
      /\ stores' = stores /\ content' = content /\ groups' = groups
      /\ command' = command /\ target' = target
      /\ served' = served /\ todo' = todo /\ todo[p] = {}
      /\ pc[p] = "write" /\ pc'[p] \in {"report", "assemble", "done"}
      /\ pc'[p] = "report" => command[p] = "replay"
      /\ pc'[p] = "done" => command[p] \notin {"replay", "warmup"}
  BY DEF EndPopulate, Goto, results, TInv, TypeOK
<1>2. Reads(p)' /\ Places(p)'
  BY <1>1 DEF G, Reads, Places, Logged
<1>3. Delivers(p)'
  BY <1>1 DEF G, Delivers, HasWarmup, In, Logged
<1>4. pc'[p] = "done" => Covered(p)' = {}
  BY <1>1 DEF Covered
<1>5. Accounts(p)'
  BY <1>4 DEF Accounts
<1> QED
  BY <1>2, <1>3, <1>5 DEF G

LEMMA AssembleG ==
  ASSUME TInv, NEW p \in Process, G(p), WarmupAssemble(p)
  PROVE  G(p)'
<1>1. /\ log' = log /\ moved' = moved
      /\ stores' = stores /\ content' = content /\ groups' = groups
      /\ command' = command /\ target' = target
      /\ command[p] = "warmup" /\ pc[p] = "assemble" /\ pc'[p] = "report"
  BY DEF WarmupAssemble, Goto, results, TInv, TypeOK, Control
<1>2. Reads(p)' /\ Places(p)'
  BY <1>1 DEF G, Reads, Places, Logged
<1>3. Covered(p)' \ moved[p] \subseteq In(log, target[p])
  BY <1>1 DEF Covered, G, Reads, Places, In, Logged
<1>4. ASSUME NEW m \in In(log, target[p]), m \notin moved[p]
      PROVE  Shown(p, m)' <=> stores[p].projected[m] # None
  <2>1. CASE HasWarmup(stores[p], target[p])
    <3>1. PICK value : value = Derivation(stores[p], log, target[p])
      OBVIOUS
    <3>2. served'[p] = {[conversation |-> target[p], hit |-> FALSE, from |-> stores[p],
                      value |-> value]}
      BY <2>1, <3>1 DEF WarmupAssemble, TInv, TypeOK
    <3>3. value.projections[m] = stores[p].projected[m]
      BY <1>4, <3>1 DEF Derivation, In, Logged
    <3> QED
      BY <3>2, <3>3 DEF Shown
  <2>2. CASE ~HasWarmup(stores[p], target[p])
    <3>1. served'[p] = {}
      BY <2>2 DEF WarmupAssemble, TInv, TypeOK
    <3>2. stores[p].projected[m] = None
      BY <1>4, <2>2 DEF HasWarmup, In, Logged, G, Places, TInv, Control, Projects
    <3> QED
      BY <3>1, <3>2 DEF Shown
  <2> QED
    BY <2>1, <2>2
<1>5. ShowsRun(p)'
  BY <1>1, <1>3, <1>4 DEF ShowsRun
<1>6. Delivers(p)' /\ Accounts(p)'
  BY <1>1, <1>5 DEF Delivers, Accounts
<1> QED
  BY <1>2, <1>6 DEF G

LEMMA ReportG ==
  ASSUME TInv, NEW p \in Process, G(p), Report(p)
  PROVE  G(p)'
<1>1. /\ log' = log /\ moved' = moved
      /\ stores' = stores /\ content' = content /\ groups' = groups
      /\ command' = command /\ target' = target /\ served' = served
      /\ pc[p] = "report" /\ pc'[p] = "done" /\ command[p] \in {"replay", "warmup"}
  BY DEF Report, Goto, results, TInv, TypeOK, Control
<1>2. Reads(p)' /\ Places(p)'
  BY <1>1 DEF G, Reads, Places, Logged
<1>3. Covered(p)' = Covered(p)
  BY <1>1 DEF Covered
<1>4. \A m \in Covered(p) \ moved[p] : m \notin unprojected'[p] <=> stores[p].projected[m] # None
  <2>1. CASE command[p] = "warmup"
    <3>1. unprojected'[p] = {m \in In(log, target[p]) : stores[p].projected[m] = None}
      BY <2>1 DEF Report, TInv, TypeOK
    <3>2. Covered(p) \ moved[p] \subseteq In(log, target[p])
      BY <2>1 DEF Covered, G, Reads, Places, In, Logged
    <3> QED
      BY <3>1, <3>2
  <2>2. CASE command[p] = "replay"
    <3>1. unprojected'[p] = {m \in Logged(log) : stores[p].projected[m] = None}
      BY <2>2 DEF Report, TInv, TypeOK
    <3>2. Covered(p) \subseteq Logged(log)
      BY <2>2 DEF Covered, G, Reads
    <3> QED
      BY <3>1, <3>2
  <2> QED
    BY <1>1, <2>1, <2>2
<1>5. ShowsRun(p)
  <2>1. CASE command[p] = "warmup"
    BY <1>1, <2>1 DEF G, Delivers
  <2>2. CASE command[p] = "replay"
    <3> SUFFICES ASSUME NEW m \in Logged(groups[p]), m \notin moved[p]
                 PROVE  Shown(p, m) <=> stores[p].projected[m] # None
      BY <2>2 DEF ShowsRun, Covered
    <3>1. m \in Message
      BY DEF Logged
    <3>2. Shown(p, m) => stores[p].projected[m] # None
      BY <1>1, <2>2, <3>1 DEF Shown, G, Delivers
    <3>3. stores[p].projected[m] # None => HasWarmup(stores[p], groups[p][m].conversation)
      BY <3>1 DEF HasWarmup, In, G, Places, Logged, TInv, Control, Projects
    <3>4. \/ ~HasWarmup(stores[p], groups[p][m].conversation)
          \/ \E s \in served[p] : s.value.projections[m] = stores[p].projected[m]
      BY <1>1, <2>2 DEF G, Delivers
    <3>5. stores[p].projected[m] # None => Shown(p, m)
      BY <3>3, <3>4 DEF Shown
    <3> QED
      BY <3>2, <3>5
  <2> QED
    BY <1>1, <2>1, <2>2
<1>6. Accounts(p)'
  BY <1>1, <1>3, <1>4, <1>5 DEF Accounts, ShowsRun, Shown
<1> QED
  BY <1>1, <1>2, <1>6 DEF G, Delivers

\* verify delivers nothing of its own.
LEMMA VerifyG ==
  ASSUME TInv, NEW p \in Process, G(p),
         (\E c \in Conversation : VerifyHash(p, c)) \/ VerifyCompare(p) \/ VerifyEnd(p)
  PROVE  G(p)'
<1>1. /\ log' = log /\ moved' = moved
      /\ stores' = stores /\ groups' = groups /\ command' = command
      /\ served' = served /\ command[p] = "verify"
      /\ pc[p] \in {"check", "compare"} /\ pc'[p] \in {"check", "compare", "done"}
  BY DEF VerifyHash, VerifyCompare, VerifyEnd, Goto, results, TInv, TypeOK, Control
<1>2. Logged(content'[p]) \subseteq Logged(log)
  <2>1. ASSUME NEW c \in Conversation, VerifyHash(p, c)
        PROVE  content'[p] = Content(log, c)
    BY <2>1 DEF VerifyHash, TInv, TypeOK
  <2>2. \A c : Logged(Content(log, c)) \subseteq Logged(log)
    BY DEF Logged, Content, In
  <2>3. VerifyCompare(p) \/ VerifyEnd(p) => content' = content
    BY DEF VerifyCompare, VerifyEnd
  <2> QED
    BY <2>1, <2>2, <2>3 DEF G, Reads
<1>3. Reads(p)' /\ Places(p)'
  BY <1>1, <1>2 DEF G, Reads, Places, Logged
<1>4. Covered(p)' = {}
  BY <1>1 DEF Covered
<1> QED
  BY <1>1, <1>3, <1>4 DEF G, Delivers, Accounts

LEMMA ExitG ==
  ASSUME TInv, NEW p \in Process, Exit(p)
  PROVE  G(p)'
<1>1. /\ stores'[p] = NoStores /\ groups'[p] = Nothing /\ content'[p] = Nothing
      /\ served'[p] = {} /\ pc'[p] = "idle"
  BY DEF Exit, TInv, TypeOK
<1> QED
  BY <1>1 DEF G, Reads, Places, Delivers, Accounts, NoStores, Nothing, Logged

-----------------------------------------------------------------------------

\* What one process may do.
Step(q) ==
  \/ \E cmd \in Command, v \in Version : Begin(q, cmd, v)
  \/ \E v \in Version, c \in Conversation : BeginWarmup(q, v, c)
  \/ WarmupHash(q) \/ WarmupHit(q) \/ ReportHit(q) \/ WarmupMiss(q)
  \/ \E failed \in SUBSET (MayFail \cap Logged(log)) : RunStrategy(q, failed)
  \/ Regroup(q)
  \/ \E c \in Conversation : Put(q, c) \/ VerifyHash(q, c)
  \/ Reclaim(q) \/ EndPopulate(q)
  \/ WarmupAssemble(q) \/ Report(q)
  \/ VerifyCompare(q) \/ VerifyEnd(q)
  \/ Exit(q)

LEMMA OwnStepG ==
  ASSUME TInv, NEW p \in Process, G(p), Step(p)
  PROVE  G(p)'
  BY BeginG, WarmupG, ReportHitG, RunG, RegroupG, PutG, ReclaimG, EndPopulateG, AssembleG,
     ReportG, VerifyG, ExitG
  DEF Step

\* A step of another process touches nothing of p's.
LEMMA OtherStepG ==
  ASSUME TInv, NEW p \in Process, NEW q \in Process, p # q, Step(q)
  PROVE  /\ pc'[p] = pc[p] /\ command'[p] = command[p] /\ version'[p] = version[p]
         /\ target'[p] = target[p]
         /\ content'[p] = content[p] /\ stores'[p] = stores[p] /\ groups'[p] = groups[p]
         /\ todo'[p] = todo[p] /\ current'[p] = current[p] /\ served'[p] = served[p]
         /\ unprojected'[p] = unprojected[p]
<1>1. CASE \/ \E cmd \in Command, v \in Version : Begin(q, cmd, v)
           \/ \E v \in Version, c \in Conversation : BeginWarmup(q, v, c)
           \/ WarmupHash(q) \/ WarmupHit(q) \/ ReportHit(q) \/ WarmupMiss(q)
  BY <1>1 DEF Begin, BeginWarmup, WarmupHash, WarmupHit, ReportHit, WarmupMiss, Goto, results,
              TInv, TypeOK
<1>2. CASE \/ \E failed \in SUBSET (MayFail \cap Logged(log)) : RunStrategy(q, failed)
           \/ Regroup(q)
           \/ Reclaim(q) \/ EndPopulate(q) \/ WarmupAssemble(q) \/ Report(q)
  BY <1>2 DEF RunStrategy, Regroup, Reclaim, EndPopulate, WarmupAssemble, Report, Goto, results,
              TInv, TypeOK
<1>3. CASE \E c \in Conversation : Put(q, c)
  BY <1>3 DEF Put, Goto, TInv, TypeOK
<1>4. CASE (\E c \in Conversation : VerifyHash(q, c)) \/ VerifyCompare(q) \/ VerifyEnd(q) \/ Exit(q)
  BY <1>4 DEF VerifyHash, VerifyCompare, VerifyEnd, Exit, Goto, results, TInv, TypeOK
<1> QED
  BY <1>1, <1>2, <1>3, <1>4 DEF Step

LEMMA StepG ==
  TInv /\ (\A p \in Process : G(p)) /\ [Next]_vars => (\A p \in Process : G(p))'
<1> SUFFICES ASSUME TInv, \A p \in Process : G(p), [Next]_vars, NEW p \in Process
             PROVE  G(p)'
  OBVIOUS
<1>1. CASE UNCHANGED vars
  <2>1. Growth(p)
    BY <1>1 DEF Growth, vars
  <2> QED
    BY <1>1, <2>1, FrameG DEF vars, procVars, results
<1>2. ASSUME NEW i \in Inputs, Ingest(i[1], i[2])
      PROVE  G(p)'
  <2>1. Growth(p)
    <3>1. ~Exit(p)
      BY <1>2 DEF Ingest, Exit, procVars, TInv, TypeOK
    <3> QED
      BY <3>1, LogGrows
  <2> QED
    BY <1>2, <2>1, FrameG DEF Ingest, procVars, results
<1>3. ASSUME NEW q \in Process, Step(q)
      PROVE  G(p)'
  <2>1. CASE q = p
    BY <1>3, <2>1, OwnStepG
  <2>2. CASE q # p
    <3>1. pc'[p] = pc[p]
      BY <1>3, <2>2, OtherStepG
    <3>2. ~Exit(p)
      BY <3>1 DEF Exit, TInv, TypeOK
    <3>3. Growth(p)
      BY <3>2, LogGrows
    <3> QED
      BY <1>3, <2>2, <3>3, OtherStepG, FrameG
  <2> QED
    BY <2>1, <2>2
<1> QED
  BY <1>1, <1>2, <1>3 DEF Next, Step

(* Whatever ingests, failures, kills and other commands interleave with a  *)
(* replay or a warmup, it shows or reports every message it covers, but    *)
(* for those that changed their conversation meanwhile (commands.rs        *)
(* replay, warmup, unprojected).                                           *)
THEOREM NoGapIsSilent == Spec => []NoSilentGap
<1>1. (\A p \in Process : G(p)) => NoSilentGap
  BY DEF G, Accounts, Covered, NoSilentGap
<1> QED
  BY <1>1, InitG, StepG, TypeInvariance, PTL DEF Spec

-----------------------------------------------------------------------------
(* A log that is quiet while a command runs.                               *)
(*                                                                         *)
(* Every read of the log by one command then sees the same log, so a row   *)
(* holds what one strategy run derives, under the content that run saw.    *)
(* Two runs that saw the same content of a conversation derive the same    *)
(* for it, but for what the content leaves out: the authors, and what      *)
(* other conversations contribute.                                         *)

\* s is what a replay of some log produces.
IsRun(s) == s \in StoresType /\ s = Derived(s.logged, Failed(s))

\* value is what the run `from` derives for c, and it saw the content h.
Faithful(value, from, h, c) ==
  IsRun(from) /\ h = Content(from.logged, c) /\ value = Derivation(from, from.logged, c)

RowsFaithful ==
  \A r \in rows :
    r.version \notin EmptyVersion /\ Faithful(r.value, r.from, r.content, r.conversation)

\* The strategy run of p, if it is over, was over the log as it is.
RanNow(p) ==
  /\ \/ stores[p] = NoStores
     \/ version[p] \notin EmptyVersion /\ \E failed \in SUBSET MayFail : stores[p] = Derived(log, failed)
  /\ pc[p] \in {"idle", "hash", "get", "hit", "run"} => stores[p] = NoStores

\* The other reads of p saw the log as it is.
ReadNow(p) ==
  /\ pc[p] = "get" => content[p] = Content(log, target[p])
  /\ pc[p] = "compare" => content[p] = Content(log, current[p])
  /\ pc[p] \in {"write", "reclaim", "check", "compare"} =>
       groups[p] = log /\ \A c \in todo[p] : HasWarmup(stores[p], c)

\* What p serves from the cache has the content of its conversation as it is.
HitsNow(p) ==
  /\ pc[p] = "idle" => served[p] = {}
  /\ \A s \in served[p] : s.hit => Faithful(s.value, s.from, Content(log, s.conversation), s.conversation)

QuietInv == RowsFaithful /\ \A p \in Process : RanNow(p) /\ ReadNow(p) /\ HitsNow(p)

LEMMA InitQuiet == Init => QuietInv
  BY DEF Init, QuietInv, RowsFaithful, RanNow, ReadNow, HitsNow

LEMMA ReplaysAreRuns ==
  ASSUME NEW l \in Logs, NEW failed
  PROVE  /\ IsRun(Derived(l, failed)) /\ Derived(l, failed).logged = l
         /\ Failed(Derived(l, failed)) = Logged(l) \cap failed
<1>1. Derived(l, failed).logged = l /\ Derived(l, failed) \in StoresType
  BY DerivedType DEF Derived
<1>2. Failed(Derived(l, failed)) = Logged(l) \cap failed
  BY EnvelopeType DEF Failed, Derived, Logged
<1>3. Derived(l, Logged(l) \cap failed) = Derived(l, failed)
  BY DEF Derived, Logged
<1> QED
  BY <1>1, <1>2, <1>3 DEF IsRun

LEMMA RunProjects ==
  ASSUME NEW s, IsRun(s), NEW m \in Message
  PROVE  s.projected[m] = IF s.logged[m] = None \/ m \in Failed(s) THEN None ELSE s.logged[m].body
<1>1. s.projected = [n \in Message |->
                       IF s.logged[n] = None \/ n \in Failed(s) THEN None ELSE s.logged[n].body]
  BY DEF IsRun, Derived
<1> QED
  BY <1>1

\* Two runs that saw the same content of c, and fail for the same messages of it.
Alike(s, u, c) ==
  /\ IsRun(s) /\ IsRun(u)
  /\ Content(s.logged, c) = Content(u.logged, c)
  /\ Failed(s) \cap In(s.logged, c) = Failed(u) \cap In(s.logged, c)

LEMMA AlikeMessages ==
  ASSUME NEW s, NEW u, NEW c, Alike(s, u, c)
  PROVE  /\ In(s.logged, c) = In(u.logged, c)
         /\ \A m \in In(s.logged, c) : s.projected[m] = u.projected[m]
         /\ Alike(u, s, c)
<1>1. s.logged \in Logs /\ u.logged \in Logs
  BY DEF Alike, IsRun, StoresType
<1>2. \A m \in Message : Content(s.logged, c)[m] = Content(u.logged, c)[m]
  BY DEF Alike
<1>3. \A m \in Message :
        (m \in In(s.logged, c) <=> m \in In(u.logged, c))
          /\ (m \in In(s.logged, c) => s.logged[m].body = u.logged[m].body)
  <2> TAKE m \in Message
  <2>1. m \in In(s.logged, c) => s.logged[m].body # None
    BY <1>1, EnvelopeType DEF In
  <2>2. m \in In(u.logged, c) => u.logged[m].body # None
    BY <1>1, EnvelopeType DEF In
  <2> QED
    BY <1>2, <2>1, <2>2 DEF Content
<1>4. In(s.logged, c) = In(u.logged, c)
  BY <1>3 DEF In, Logged
<1>5. ASSUME NEW m \in In(s.logged, c) PROVE s.projected[m] = u.projected[m]
  <2>1. /\ m \in Message /\ s.logged[m] # None /\ u.logged[m] # None
        /\ s.logged[m].body = u.logged[m].body
    BY <1>3, <1>4 DEF In, Logged
  <2>2. m \in Failed(s) <=> m \in Failed(u)
    BY <1>5 DEF Alike
  <2>3. s.projected[m] = IF m \in Failed(s) THEN None ELSE s.logged[m].body
    BY <2>1, RunProjects DEF Alike
  <2>4. u.projected[m] = IF m \in Failed(u) THEN None ELSE u.logged[m].body
    BY <2>1, RunProjects DEF Alike
  <2> QED
    BY <2>1, <2>2, <2>3, <2>4
<1> QED
  BY <1>4, <1>5 DEF Alike

\* What owns the topics of c in one of them does so in the other.
LEMMA AlikeOwnership ==
  ASSUME NEW s, NEW u, NEW c, Alike(s, u, c), Unkeyed(s, c) = Unkeyed(u, c),
         NEW w \in Ownership(s, s.logged, c)
  PROVE  w \in Ownership(u, u.logged, c)
<1>0. PICK n \in In(s.logged, c) :
        n \in Logged(s.projected) /\ \E t \in Topics[s.projected[n]] : w \in {t} \X Owners(s, t)
  BY DEF Ownership
<1>1. /\ In(s.logged, c) = In(u.logged, c)
      /\ \A m \in In(s.logged, c) : s.projected[m] = u.projected[m]
  BY AlikeMessages
<1>2. PICK t : /\ n \in Logged(s.projected) /\ t \in Topics[s.projected[n]]
               /\ w \in {t} \X Owners(s, t)
  BY <1>0
<1>3. n \in Logged(u.projected) /\ t \in Topics[u.projected[n]] /\ n \in In(u.logged, c)
  BY <1>1, <1>2 DEF Logged
<1>4. PICK m \in Logged(s.projected) :
        t \in Topics[s.projected[m]] /\ w = <<t, <<m, s.logged[m].author, s.projected[m]>>>>
  BY <1>2 DEF Owners
<1>5. CASE s.logged[m].conversation = c
  <2>1. m \in In(s.logged, c)
    <3>1. m \in Message /\ s.projected[m] # None
      BY <1>4 DEF Logged
    <3>2. s.logged[m] # None
      BY <3>1, RunProjects DEF Alike
    <3> QED
      BY <1>5, <3>1, <3>2 DEF In, Logged
  <2>2. s.logged[m].author = u.logged[m].author
    <3>1. Authors(s, c) = Authors(u, c)
      BY DEF Unkeyed
    <3>2. Authors(s, c)[m] = s.logged[m].author /\ Authors(u, c)[m] = u.logged[m].author
      BY <1>1, <2>1 DEF Authors
    <3> QED
      BY <3>1, <3>2
  <2>3. s.projected[m] = u.projected[m]
    BY <1>1, <2>1
  <2>4. <<m, u.logged[m].author, u.projected[m]>> \in Owners(u, t)
    BY <1>4, <2>3 DEF Owners, Logged
  <2>5. w \in {t} \X Owners(u, t)
    BY <1>4, <2>2, <2>3, <2>4
  <2> QED
    BY <1>3, <2>5 DEF Ownership
<1>6. CASE s.logged[m].conversation # c
  <2>1. w \in Outside(s, c)
    BY <1>4, <1>6 DEF Outside
  <2>2. Outside(s, c) = Outside(u, c)
    BY DEF Unkeyed
  <2> QED
    BY <2>1, <2>2 DEF Outside
<1> QED
  BY <1>5, <1>6

\* What the content decides of a derivation, and what decides the rest.
LEMMA AlikeDerivation ==
  ASSUME NEW s, NEW u, NEW c, Alike(s, u, c)
  PROVE  /\ Derivation(s, s.logged, c).projections = Derivation(u, u.logged, c).projections
         /\ Derivation(s, s.logged, c).warmup = Derivation(u, u.logged, c).warmup
         /\ Unkeyed(s, c) = Unkeyed(u, c) =>
              Derivation(s, s.logged, c) = Derivation(u, u.logged, c)
<1>1. /\ In(s.logged, c) = In(u.logged, c)
      /\ \A m \in In(s.logged, c) : s.projected[m] = u.projected[m]
      /\ Alike(u, s, c)
  BY AlikeMessages
<1>2. Derivation(s, s.logged, c).projections = Derivation(u, u.logged, c).projections
  BY <1>1 DEF Derivation
<1>3. Warmup(s, c) = Warmup(u, c)
  BY <1>1 DEF Warmup
<1>4. ASSUME Unkeyed(s, c) = Unkeyed(u, c) PROVE Participants(s, c) = Participants(u, c)
  <2>1. Authors(s, c) = Authors(u, c)
    BY <1>4 DEF Unkeyed
  <2>2. \A m \in In(s.logged, c) : Authors(s, c)[m] = s.logged[m].author
    BY DEF Authors
  <2>3. \A m \in In(s.logged, c) : Authors(u, c)[m] = u.logged[m].author
    BY <1>1 DEF Authors
  <2>4. \A m \in In(s.logged, c) : s.logged[m].author = u.logged[m].author
    BY <2>1, <2>2, <2>3
  <2> QED
    BY <1>1, <2>4 DEF Participants
<1>5. ASSUME Unkeyed(s, c) = Unkeyed(u, c)
      PROVE  Ownership(s, s.logged, c) = Ownership(u, u.logged, c)
  <2>1. \A w \in Ownership(s, s.logged, c) : w \in Ownership(u, u.logged, c)
    BY <1>5, AlikeOwnership
  <2>2. \A w \in Ownership(u, u.logged, c) : w \in Ownership(s, s.logged, c)
    BY <1>1, <1>5, AlikeOwnership
  <2> QED
    BY <2>1, <2>2
<1> QED
  BY <1>2, <1>3, <1>4, <1>5 DEF Derivation

Q(p) == RanNow(p) /\ ReadNow(p) /\ HitsNow(p)

\* A step that leaves the log and p's memory alone.
LEMMA FrameQ ==
  ASSUME NEW p \in Process, Q(p), log' = log,
         pc'[p] = pc[p], version'[p] = version[p], target'[p] = target[p],
         content'[p] = content[p], stores'[p] = stores[p], groups'[p] = groups[p],
         todo'[p] = todo[p], current'[p] = current[p], served'[p] = served[p]
  PROVE  Q(p)'
<1>1. RanNow(p)'
  BY DEF Q, RanNow, Derived
<1>2. ReadNow(p)'
  BY DEF Q, ReadNow, Content, HasWarmup, In, Logged
<1>3. HitsNow(p)'
  BY DEF Q, HitsNow, Faithful, Content
<1> QED
  BY <1>1, <1>2, <1>3 DEF Q

\* An ingest finds every process idle.
LEMMA IngestQ ==
  ASSUME QuietIngest, TInv, NEW i \in Inputs, Ingest(i[1], i[2]), NEW p \in Process, Q(p)
  PROVE  Q(p)'
<1>1. pc[p] = "idle" /\ stores[p] = NoStores /\ served[p] = {}
  BY DEF Ingest, Q, RanNow, HitsNow
<1>2. pc'[p] = "idle" /\ stores'[p] = NoStores /\ served'[p] = {}
  BY <1>1 DEF Ingest, procVars, results
<1> QED
  BY <1>2 DEF Q, RanNow, ReadNow, HitsNow

LEMMA WarmupQ ==
  ASSUME TInv, RowsFaithful, NEW p \in Process, Q(p),
         \/ \E cmd \in Command, v \in Version : Begin(p, cmd, v)
         \/ \E v \in Version, c \in Conversation : BeginWarmup(p, v, c)
         \/ WarmupHash(p) \/ WarmupHit(p) \/ ReportHit(p) \/ WarmupMiss(p)
  PROVE  Q(p)'
<1>1. CASE \/ \E cmd \in Command, v \in Version : Begin(p, cmd, v)
           \/ \E v \in Version, c \in Conversation : BeginWarmup(p, v, c)
  <2>1. /\ log' = log /\ stores'[p] = stores[p] /\ served'[p] = served[p]
        /\ pc[p] = "idle" /\ pc'[p] \in {"run", "hash"}
    BY <1>1 DEF Begin, BeginWarmup, Goto, results, TInv, TypeOK
  <2>2. stores'[p] = NoStores /\ served'[p] = {}
    BY <2>1 DEF Q, RanNow, HitsNow
  <2> QED
    BY <2>1, <2>2 DEF Q, RanNow, ReadNow, HitsNow
<1>2. CASE WarmupHash(p)
  <2>1. /\ log' = log /\ stores' = stores /\ served' = served /\ target' = target
        /\ pc[p] = "hash" /\ pc'[p] = "get" /\ content'[p] = Content(log, target[p])
        /\ version' = version
    BY <1>2 DEF WarmupHash, Goto, results, TInv, TypeOK
  <2>2. ReadNow(p)'
    BY <2>1 DEF ReadNow, Content
  <2>3. HitsNow(p)'
    BY <2>1 DEF Q, HitsNow, Faithful, Content
  <2> QED
    BY <2>1, <2>2, <2>3 DEF Q, RanNow
<1>3. CASE WarmupHit(p)
  <2>1. /\ log' = log /\ stores' = stores /\ pc[p] = "get" /\ pc'[p] = "hit"
        /\ content[p] = Content(log, target[p])
    BY <1>3 DEF WarmupHit, Goto, TInv, TypeOK, Q, ReadNow
  <2>2. PICK r \in Lookup(version[p], target[p], content[p]) :
          served'[p] = {[conversation |-> target[p], value |-> r.value, from |-> r.from,
                         hit |-> TRUE]}
    BY <1>3 DEF WarmupHit, TInv, TypeOK
  <2>3. Faithful(r.value, r.from, Content(log, target[p]), target[p])
    BY <2>1, <2>2 DEF Lookup, RowsFaithful
  <2>4. \A s \in served'[p] : Faithful(s.value, s.from, Content(log, s.conversation), s.conversation)
    BY <2>2, <2>3
  <2>5. HitsNow(p)'
    BY <2>1, <2>4 DEF HitsNow, Faithful, Content
  <2> QED
    BY <2>1, <2>5 DEF Q, RanNow, ReadNow
<1>4. CASE ReportHit(p) \/ WarmupMiss(p)
  <2>1. /\ log' = log /\ stores' = stores /\ served' = served /\ version' = version
        /\ pc[p] \in {"hit", "get"} /\ pc'[p] \in {"done", "run"}
    BY <1>4 DEF ReportHit, WarmupMiss, Goto, results, TInv, TypeOK
  <2>2. HitsNow(p)'
    BY <2>1 DEF Q, HitsNow, Faithful, Content
  <2> QED
    BY <2>1, <2>2 DEF Q, RanNow, ReadNow
<1> QED
  BY <1>1, <1>2, <1>3, <1>4

LEMMA RunQ ==
  ASSUME TInv, NEW p \in Process, Q(p),
         \/ \E failed \in SUBSET (MayFail \cap Logged(log)) : RunStrategy(p, failed)
         \/ Regroup(p)
  PROVE  Q(p)'
<1>1. ASSUME NEW failed \in SUBSET (MayFail \cap Logged(log)), RunStrategy(p, failed)
      PROVE  Q(p)'
  <2>1. /\ log' = log /\ served' = served /\ version' = version
        /\ pc[p] = "run" /\ pc'[p] = "populate"
        /\ stores'[p] = IF version[p] \in EmptyVersion THEN NoStores ELSE Derived(log, failed)
    BY <1>1 DEF RunStrategy, Goto, results, TInv, TypeOK
  <2>2. RanNow(p)'
    BY <2>1 DEF RanNow, Derived
  <2>3. HitsNow(p)'
    BY <2>1 DEF Q, HitsNow, Faithful, Content
  <2> QED
    BY <2>1, <2>2, <2>3 DEF Q, ReadNow
<1>2. CASE Regroup(p)
  <2>1. /\ log' = log /\ served' = served /\ version' = version /\ stores' = stores
        /\ pc[p] = "populate" /\ pc'[p] \in {"check", "write"} /\ groups'[p] = log
        /\ \A c \in todo'[p] : HasWarmup(stores[p], c)
    BY <1>2 DEF Regroup, Goto, results, TInv, TypeOK
  <2>2. RanNow(p)'
    BY <2>1 DEF Q, RanNow, Derived
  <2>3. HitsNow(p)'
    BY <2>1 DEF Q, HitsNow, Faithful, Content
  <2>4. ReadNow(p)'
    BY <2>1 DEF ReadNow, HasWarmup, In, Logged
  <2> QED
    BY <2>2, <2>3, <2>4 DEF Q
<1> QED
  BY <1>1, <1>2

LEMMA PopulateQ ==
  ASSUME TInv, NEW p \in Process, Q(p),
         \/ \E c \in Conversation : Put(p, c) \/ VerifyHash(p, c)
         \/ Reclaim(p) \/ EndPopulate(p) \/ VerifyCompare(p) \/ VerifyEnd(p)
  PROVE  Q(p)'
<1>1. /\ log' = log /\ stores' = stores /\ version' = version /\ groups' = groups
      /\ pc[p] \in {"write", "reclaim", "check", "compare"}
      /\ pc'[p] \in {"write", "reclaim", "check", "compare", "assemble", "report", "done"}
      /\ todo'[p] \subseteq todo[p]
  BY DEF Put, VerifyHash, Reclaim, EndPopulate, VerifyCompare, VerifyEnd, Goto, results, TInv, TypeOK
<1>2. \A s \in served'[p] : s.hit => s \in served[p]
  <2>1. CASE \E c \in Conversation : Put(p, c)
    <3>1. PICK c \in Conversation : Put(p, c)
      BY <2>1
    <3>2. PICK value : value = Derivation(stores[p], groups[p], c)
      OBVIOUS
    <3>3. served'[p] \subseteq served[p] \cup
            {[conversation |-> c, value |-> value, from |-> stores[p], hit |-> FALSE]}
      BY <3>1, <3>2 DEF Put, TInv, TypeOK
    <3> QED
      BY <3>3
  <2>2. CASE served' = served
    BY <2>2
  <2> QED
    BY <2>1, <2>2 DEF VerifyHash, Reclaim, EndPopulate, VerifyCompare, VerifyEnd, results
<1>3. pc'[p] = "compare" => content'[p] = Content(log, current'[p])
  BY DEF Put, VerifyHash, Reclaim, EndPopulate, VerifyCompare, VerifyEnd, Goto, TInv, TypeOK
<1>4. RanNow(p)'
  BY <1>1 DEF Q, RanNow, Derived
<1>5. HitsNow(p)'
  BY <1>1, <1>2 DEF Q, HitsNow, Faithful, Content
<1>6. ReadNow(p)'
  BY <1>1, <1>3 DEF Q, ReadNow, Content, HasWarmup, In, Logged
<1> QED
  BY <1>4, <1>5, <1>6 DEF Q

LEMMA EndQ ==
  ASSUME TInv, NEW p \in Process, Q(p), WarmupAssemble(p) \/ Report(p) \/ Exit(p)
  PROVE  Q(p)'
<1>1. CASE WarmupAssemble(p) \/ Report(p)
  <2>1. /\ log' = log /\ stores' = stores /\ version' = version
        /\ pc[p] \in {"assemble", "report"} /\ pc'[p] \in {"report", "done"}
    BY <1>1 DEF WarmupAssemble, Report, Goto, TInv, TypeOK
  <2>2. \A s \in served'[p] : s.hit => s \in served[p]
    BY <1>1 DEF WarmupAssemble, Report, TInv, TypeOK
  <2>3. RanNow(p)'
    BY <2>1 DEF Q, RanNow, Derived
  <2>4. HitsNow(p)'
    BY <2>1, <2>2 DEF Q, HitsNow, Faithful, Content
  <2> QED
    BY <2>1, <2>3, <2>4 DEF Q, ReadNow
<1>2. CASE Exit(p)
  <2>1. pc'[p] = "idle" /\ stores'[p] = NoStores /\ served'[p] = {}
    BY <1>2 DEF Exit, TInv, TypeOK
  <2> QED
    BY <2>1 DEF Q, RanNow, ReadNow, HitsNow
<1> QED
  BY <1>1, <1>2

\* A row that is written is what the run derived, for the content as it is.
LEMMA PutWrites ==
  ASSUME TInv, NEW p \in Process, Q(p), NEW c \in Conversation, Put(p, c)
  PROVE  /\ version[p] \notin EmptyVersion /\ groups[p] = log
         /\ \E failed \in SUBSET MayFail : stores[p] = Derived(log, failed)
         /\ Faithful(Derivation(stores[p], groups[p], c), stores[p], Content(log, c), c)
         /\ rows' = (rows \ Lookup(version[p], c, Content(log, c)))
                      \cup {Row(version[p], c, Content(log, c), stores[p],
                                Derivation(stores[p], groups[p], c))}
<1>1. HasWarmup(stores[p], c) /\ groups[p] = log
  BY DEF Put, Goto, Q, ReadNow
<1>2. stores[p] # NoStores
  BY <1>1 DEF HasWarmup, In, Logged, NoStores, Nothing
<1>3. PICK failed \in SUBSET MayFail : version[p] \notin EmptyVersion /\ stores[p] = Derived(log, failed)
  BY <1>2 DEF Q, RanNow
<1>4. log \in Logs
  BY DEF TInv, TypeOK
<1>5. Faithful(Derivation(stores[p], groups[p], c), stores[p], Content(log, c), c)
  BY <1>1, <1>3, <1>4, ReplaysAreRuns DEF Faithful
<1> QED
  BY <1>1, <1>3, <1>5 DEF Put, Upsert

LEMMA RowsStayFaithful ==
  ASSUME TInv, QuietInv, [Next]_vars
  PROVE  RowsFaithful'
<1>1. ASSUME NEW p \in Process, NEW c \in Conversation, Put(p, c)
      PROVE  RowsFaithful'
  <2> DEFINE value == Derivation(stores[p], groups[p], c)
             h == Content(log, c)
  <2>1. Q(p)
    BY DEF QuietInv, Q
  <2>2. /\ version[p] \notin EmptyVersion /\ Faithful(value, stores[p], h, c)
        /\ rows' = (rows \ Lookup(version[p], c, h)) \cup {Row(version[p], c, h, stores[p], value)}
    BY <1>1, <2>1, PutWrites
  <2> HIDE DEF value, h
  <2>3. Row(version[p], c, h, stores[p], value) =
          [version |-> version[p], conversation |-> c, content |-> h, value |-> value,
           from |-> stores[p]]
    BY DEF Row
  <2> QED
    BY <2>2, <2>3 DEF QuietInv, RowsFaithful
<1>2. CASE rows' \subseteq rows
  BY <1>2 DEF QuietInv, RowsFaithful
<1>3. ASSUME NEW p \in Process, Reclaim(p)
      PROVE  rows' \subseteq rows
  BY <1>3 DEF Reclaim, DeleteSuperseded
<1>4. UNCHANGED vars => rows' \subseteq rows
  BY DEF vars
<1> QED
  BY <1>1, <1>2, <1>3, <1>4, OtherStepsKeepRows

\* Under QuietIngest every command sees one log from its start to its end.
LEMMA StepQuiet ==
  ASSUME QuietIngest
  PROVE  TInv /\ QuietInv /\ [Next]_vars => QuietInv'
<1> SUFFICES ASSUME TInv, QuietInv, [Next]_vars, NEW p \in Process PROVE Q(p)'
  BY RowsStayFaithful DEF QuietInv, Q
<1>0. Q(p) /\ RowsFaithful
  BY DEF QuietInv, Q
<1>1. CASE UNCHANGED vars
  BY <1>0, <1>1, FrameQ DEF vars, procVars, results
<1>2. ASSUME NEW i \in Inputs, Ingest(i[1], i[2])
      PROVE  Q(p)'
  BY <1>0, <1>2, IngestQ
<1>3. ASSUME NEW q \in Process, Step(q)
      PROVE  Q(p)'
  <2>1. CASE q = p
    BY <1>0, <1>3, <2>1, WarmupQ, RunQ, PopulateQ, EndQ DEF Step
  <2>2. CASE q # p
    <3>1. log' = log
      BY <1>3
      DEF Step, Begin, BeginWarmup, WarmupHash, WarmupHit, ReportHit, WarmupMiss, RunStrategy,
          Regroup, Put, Reclaim, VerifyHash, EndPopulate, WarmupAssemble, Report, VerifyCompare,
          VerifyEnd, Exit
    <3> QED
      BY <1>0, <1>3, <2>2, <3>1, OtherStepG, FrameQ
  <2> QED
    BY <2>1, <2>2
<1> QED
  BY <1>1, <1>2, <1>3 DEF Next, Step

LEMMA QuietInvariance ==
  ASSUME QuietIngest
  PROVE  Spec => [](TInv /\ QuietInv)
<1>1. TInv /\ QuietInv /\ [Next]_vars => QuietInv'
  BY StepQuiet
<1> QED
  BY <1>1, InitTInv, InitQuiet, StepTInv, PTL DEF Spec

(* A hit serves the projections and the warm-up that a replay would now    *)
(* produce, and all of its derivation unless an author of the conversation *)
(* or the contributions of other conversations changed since the row was   *)
(* made: content_hash_of covers ids and bodies of one conversation and     *)
(* nothing else that a run reads, when the log is written between commands *)
(* only (commands.rs warmup, derived.rs content_hash_of).                  *)
THEOREM HitsAgeByExpertise ==
  ASSUME QuietIngest
  PROVE  Spec => []HitsStaleOnlyInExpertise
<1>1. TInv /\ QuietInv => HitsStaleOnlyInExpertise
  <2> SUFFICES ASSUME TInv, QuietInv, NEW p \in Process, NEW s \in served[p], s.hit
               PROVE  LET c   == s.conversation
                          now == Replayed(log, Failed(s.from), c)
                      IN  /\ s.value.projections = now.projections
                          /\ s.value.warmup = now.warmup
                          /\ Unkeyed(s.from, c) = Unkeyed(Derived(log, Failed(s.from)), c)
                               => s.value = now
    BY DEF HitsStaleOnlyInExpertise
  <2>1. PICK c : c = s.conversation
    OBVIOUS
  <2>2. PICK u : u = Derived(log, Failed(s.from))
    OBVIOUS
  <2>3. Faithful(s.value, s.from, Content(log, c), c)
    BY <2>1 DEF QuietInv, HitsNow
  <2>4. IsRun(u) /\ u.logged = log /\ Failed(u) = Logged(log) \cap Failed(s.from)
    BY <2>2, ReplaysAreRuns DEF TInv, TypeOK
  <2>5. Alike(u, s.from, c)
    BY <2>3, <2>4 DEF Alike, Faithful, In
  <2>6. Derivation(u, u.logged, c) = Replayed(log, Failed(s.from), c)
    BY <2>2, <2>4 DEF Replayed
  <2> QED
    BY <2>1, <2>2, <2>3, <2>5, <2>6, AlikeDerivation DEF Faithful
<1> QED
  BY <1>1, QuietInvariance, PTL

(* A divergence that verify reports has a cause other than the messages    *)
(* of the conversation: their authors, the contributions of other          *)
(* conversations, or a projection that failed in one run only (commands.rs *)
(* verify compares the row under the key of the content).                  *)
THEOREM DivergencesHaveCauses ==
  ASSUME QuietIngest
  PROVE  Spec => DivergenceHasCause
<1> DEFINE Diverges(p, c) == verdict'[p][c] = "diverged" /\ verdict[p][c] # "diverged"
           Explained(p, c) ==
             \E r \in rows :
               /\ r.version = version[p] /\ r.conversation = c /\ r.content = Content(log, c)
               /\ \/ Unkeyed(r.from, c) # Unkeyed(stores[p], c)
                  \/ Failed(r.from) \cap In(log, c) # Failed(stores[p]) \cap In(log, c)
<1>1. ASSUME TInv, QuietInv, [Next]_vars, NEW p \in Process, NEW c \in Conversation, Diverges(p, c)
      PROVE  Explained(p, c)
  <2>1. VerifyCompare(p) /\ current[p] = c
    <3>1. verdict' # verdict
      BY <1>1
    <3>2. PICK q \in Process : VerifyCompare(q) \/ Exit(q)
      BY <1>1, <3>1
      DEF Next, vars, procVars, results, Ingest, Begin, BeginWarmup, WarmupHash, WarmupHit, ReportHit,
          WarmupMiss, RunStrategy, Regroup, Put, Reclaim, VerifyHash, EndPopulate, WarmupAssemble,
          Report, VerifyEnd
    <3>3. ~Exit(q)
      <4> SUFFICES ASSUME Exit(q) PROVE FALSE
        OBVIOUS
      <4>1. verdict' = [verdict EXCEPT ![q] = [d \in Conversation |-> "none"]]
        BY DEF Exit
      <4>2. verdict'[p][c] = "none" \/ verdict'[p][c] = verdict[p][c]
        BY <1>1, <4>1 DEF TInv, TypeOK
      <4> QED
        BY <1>1, <4>2
    <3>4. PICK o : verdict' = [verdict EXCEPT ![q][current[q]] = o]
      BY <3>2, <3>3 DEF VerifyCompare
    <3>5. p = q /\ c = current[q]
      BY <1>1, <3>4 DEF TInv, TypeOK
    <3> QED
      BY <3>2, <3>3, <3>5
  <2>2. /\ content[p] = Content(log, c) /\ groups[p] = log /\ HasWarmup(stores[p], c)
        /\ log \in Logs
    BY <1>1, <2>1 DEF VerifyCompare, Goto, QuietInv, ReadNow, TInv, TypeOK, Control
  <2>3. IsRun(stores[p]) /\ stores[p].logged = log
    <3>1. stores[p] # NoStores
      BY <2>2 DEF HasWarmup, In, Logged, NoStores, Nothing
    <3>2. PICK failed \in SUBSET MayFail : stores[p] = Derived(log, failed)
      BY <1>1, <3>1 DEF QuietInv, RanNow
    <3> QED
      BY <2>2, <3>2, ReplaysAreRuns
  <2>4. PICK fresh : fresh = Derivation(stores[p], groups[p], c)
    OBVIOUS
  <2>5. fresh = Derivation(stores[p], stores[p].logged, c)
    BY <2>2, <2>3, <2>4
  <2>6. PICK r \in Lookup(version[p], c, content[p]) : r.value # fresh
    <3> DEFINE stored == Lookup(version[p], c, content[p])
               outcome == CASE stored = {} -> "not_cached"
                            [] \E r \in stored : r.value = fresh -> "verified"
                            [] OTHER -> "diverged"
    <3>1. verdict' = [verdict EXCEPT ![p][c] = outcome]
      BY <2>1, <2>4 DEF VerifyCompare
    <3> HIDE DEF outcome
    <3>2. verdict'[p][c] = outcome
      BY <1>1, <3>1 DEF TInv, TypeOK
    <3>3. outcome = "diverged"
      BY <1>1, <3>2
    <3> USE DEF outcome
    <3>4. stored # {} /\ ~ \E r \in stored : r.value = fresh
      BY <3>3
    <3> QED
      BY <3>4
  <2>7. /\ Faithful(r.value, r.from, Content(log, c), c)
        /\ r \in rows /\ r.version = version[p] /\ r.conversation = c /\ r.content = Content(log, c)
    BY <1>1, <2>2, <2>6 DEF QuietInv, RowsFaithful, Lookup
  <2>8. CASE Failed(r.from) \cap In(log, c) = Failed(stores[p]) \cap In(log, c)
    <3>1. Alike(stores[p], r.from, c)
      BY <2>3, <2>7, <2>8 DEF Alike, Faithful
    <3>2. Unkeyed(r.from, c) # Unkeyed(stores[p], c)
      BY <2>5, <2>6, <2>7, <3>1, AlikeDerivation DEF Faithful
    <3> QED
      BY <2>7, <3>2
  <2> QED
    BY <2>7, <2>8
<1>2. TInv /\ QuietInv /\ [Next]_vars
        => [ \A p \in Process, c \in Conversation : Diverges(p, c) => Explained(p, c) ]_vars
  BY <1>1
<1> QED
  BY <1>2, QuietInvariance, PTL DEF Spec, DivergenceHasCause

\* One version at most is written: every other derives nothing.
OneWriter == \A v, w \in Version \ EmptyVersion : v = w

\* What a reclaim removes is not under the current content of its conversation.
LEMMA ReclaimSpares ==
  ASSUME OneWriter, TInv, QuietInv, NEW p \in Process, Reclaim(p),
         NEW r \in rows, r.content = Content(log, r.conversation)
  PROVE  r \in rows'
<1>1. pc[p] = "reclaim" /\ current[p] \in todo[p] /\ version[p] \in Version
  BY DEF Reclaim, Goto, TInv, Control
<1>2. groups[p] = log /\ HasWarmup(stores[p], current[p])
  BY <1>1 DEF QuietInv, ReadNow
<1>3. stores[p] # NoStores
  BY <1>2 DEF HasWarmup, In, Logged, NoStores, Nothing
<1>4. version[p] \notin EmptyVersion /\ r.version \notin EmptyVersion
  BY <1>3 DEF QuietInv, RanNow, RowsFaithful
<1>5. r.version = version[p]
  BY <1>1, <1>4 DEF OneWriter, TInv, TypeOK, RowType
<1> QED
  BY <1>2, <1>5 DEF Reclaim, DeleteSuperseded

(* Pruning removes no row a later read could hit, when the log is written  *)
(* between commands only and one version writes (derivation.rs and         *)
(* sqlite_derived_output_cache.rs prune_superseded).                       *)
THEOREM PrunedRowsAreDead ==
  ASSUME QuietIngest, OneWriter
  PROVE  Spec => PruneOnlyDead
<1> DEFINE Kept(r) == \E s \in rows' : s.version = r.version /\ s.conversation = r.conversation
                                       /\ s.content = r.content
<1>1. ASSUME TInv, QuietInv, [Next]_vars, NEW r \in rows, r.content = Content(log, r.conversation)
      PROVE  Kept(r)
  <2>1. CASE r \in rows'
    BY <2>1
  <2>2. ASSUME NEW p \in Process, NEW c \in Conversation, Put(p, c)
        PROVE  Kept(r)
    <3> DEFINE h == Content(groups[p], c)
               new == Row(version[p], c, h, stores[p], Derivation(stores[p], groups[p], c))
    <3>1. /\ rows' = (rows \ Lookup(version[p], c, h)) \cup {new}
          /\ new.version = version[p] /\ new.conversation = c /\ new.content = h
      BY <2>2 DEF Put, Upsert, Row
    <3> HIDE DEF h, new
    <3> QED
      BY <3>1 DEF Lookup
  <2>3. UNCHANGED vars => rows' = rows
    BY DEF vars
  <2> QED
    BY <1>1, <2>1, <2>2, <2>3, ReclaimSpares, OtherStepsKeepRows
<1>2. TInv /\ QuietInv /\ [Next]_vars
        => [ \A r \in rows : r.content = Content(log, r.conversation) => Kept(r) ]_vars
  BY <1>1
<1> QED
  BY <1>2, QuietInvariance, PTL DEF Spec, PruneOnlyDead

\* c is in the cache under its current content, as a replay now derives it.
Refreshed(v, c) ==
  \E r \in rows : /\ r.version = v /\ r.conversation = c
                  /\ r.content = Content(log, c) /\ r.value = CurrentDerivation(c)

\* Of the log's conversations, p has refreshed all but those it has still to do.
Refreshes(p) ==
  (/\ stores[p] = Derived(log, {}) /\ command[p] # "verify"
   /\ pc[p] \in {"write", "reclaim", "assemble", "report", "done"}) =>
     \A c \in Conversations(log) :
       \/ pc[p] \in {"write", "reclaim"} /\ c \in todo[p] /\ ~(pc[p] = "reclaim" /\ current[p] = c)
       \/ Refreshed(version[p], c)

\* A put leaves what was refreshed, and a reclaim spares it.
LEMMA RefreshedStays ==
  ASSUME MayFail = {}, OneWriter, TInv, QuietInv, [Next]_vars, log' = log, NEW v, NEW c, Refreshed(v, c)
  PROVE  Refreshed(v, c)'
<1>1. PICK r \in rows : /\ r.version = v /\ r.conversation = c
                        /\ r.content = Content(log, c) /\ r.value = CurrentDerivation(c)
  BY DEF Refreshed
<1>0. CurrentDerivation(c)' = CurrentDerivation(c) /\ Content(log, c)' = Content(log, c)
  BY DEF CurrentDerivation, Replayed, Derivation, Derived, Content, Warmup, Participants, In,
         Logged, Ownership, Owners
<1>2. CASE r \in rows'
  BY <1>0, <1>1, <1>2 DEF Refreshed
<1>3. ASSUME NEW p \in Process, NEW d \in Conversation, Put(p, d), r \notin rows'
      PROVE  Refreshed(v, c)'
  <2> DEFINE h == Content(log, d)
             value == Derivation(stores[p], groups[p], d)
             new == Row(version[p], d, h, stores[p], value)
  <2>1. Q(p)
    BY DEF QuietInv, Q
  <2>2. /\ groups[p] = log /\ stores[p] = Derived(log, {})
        /\ rows' = (rows \ Lookup(version[p], d, h)) \cup {new}
    BY <1>3, <2>1, PutWrites
  <2>3. r \in Lookup(version[p], d, h)
    BY <1>3, <2>2
  <2>4. r.version = version[p] /\ c = d
    BY <1>1, <2>3 DEF Lookup
  <2>5. value = CurrentDerivation(c)
    BY <2>2, <2>4 DEF CurrentDerivation, Replayed
  <2>6. /\ new.version = version[p] /\ new.conversation = d /\ new.content = h
        /\ new.value = value
    BY DEF Row
  <2> HIDE DEF new, h, value
  <2>7. new \in rows' /\ new.version = v /\ new.conversation = c /\ new.value = CurrentDerivation(c)
    BY <1>1, <2>2, <2>4, <2>5, <2>6
  <2>8. new.content = Content(log, c)
    BY <2>4, <2>6 DEF h
  <2> QED
    BY <1>0, <2>7, <2>8 DEF Refreshed
<1>4. ASSUME NEW p \in Process, Reclaim(p)
      PROVE  r \in rows'
  BY <1>1, <1>4, ReclaimSpares
<1>5. UNCHANGED vars => rows' = rows
  BY DEF vars
<1> QED
  BY <1>2, <1>3, <1>4, <1>5, OtherStepsKeepRows

LEMMA PutRefreshes ==
  ASSUME MayFail = {}, TInv, QuietInv, NEW p \in Process, NEW c \in Conversation, Put(p, c)
  PROVE  Refreshed(version[p], c)'
<1> DEFINE new == Row(version[p], c, Content(log, c), stores[p],
                      Derivation(stores[p], groups[p], c))
<1>1. Q(p)
  BY DEF QuietInv, Q
<1>2. groups[p] = log /\ stores[p] = Derived(log, {}) /\ new \in rows' /\ log' = log /\ version' = version
  BY <1>1, PutWrites DEF Put
<1>3. /\ new.value = CurrentDerivation(c) /\ new.version = version[p]
      /\ new.conversation = c /\ new.content = Content(log, c)
  BY <1>2 DEF CurrentDerivation, Replayed, Row
<1>4. CurrentDerivation(c)' = CurrentDerivation(c) /\ Content(log', c) = Content(log, c)
  BY <1>2 DEF CurrentDerivation, Replayed, Derivation, Derived, Content, Warmup, Participants,
              In, Logged, Ownership, Owners
<1> QED
  BY <1>2, <1>3, <1>4 DEF Refreshed, Row

\* A log whose replay derives nothing has no conversation.
LEMMA NothingDerived ==
  ASSUME NEW l \in Logs, NoStores = Derived(l, {})
  PROVE  Conversations(l) = {}
<1>1. Derived(l, {}).logged = l
  BY DEF Derived
<1>2. l = Nothing
  BY <1>1 DEF NoStores
<1> QED
  BY <1>2 DEF Nothing, Conversations, Logged

LEMMA FrameRefreshes ==
  ASSUME NEW p \in Process, Refreshes(p), log' = log,
         \A v, c : Refreshed(v, c) => Refreshed(v, c)',
         pc'[p] = pc[p], command'[p] = command[p], version'[p] = version[p],
         stores'[p] = stores[p], todo'[p] = todo[p], current'[p] = current[p]
  PROVE  Refreshes(p)'
<1>1. Derived(log, {})' = Derived(log, {}) /\ Conversations(log)' = Conversations(log)
  BY DEF Derived, Conversations, Logged
<1> SUFFICES ASSUME stores'[p] = Derived(log, {})', command'[p] # "verify",
                    pc'[p] \in {"write", "reclaim", "assemble", "report", "done"},
                    NEW c \in Conversations(log)
             PROVE  \/ /\ pc'[p] \in {"write", "reclaim"} /\ c \in todo'[p]
                       /\ ~(pc'[p] = "reclaim" /\ current'[p] = c)
                    \/ Refreshed(version[p], c)'
  BY <1>1 DEF Refreshes
<1>2. PICK v : v = version[p]
  OBVIOUS
<1>3. \/ pc[p] \in {"write", "reclaim"} /\ c \in todo[p] /\ ~(pc[p] = "reclaim" /\ current[p] = c)
      \/ Refreshed(v, c)
  BY <1>1, <1>2 DEF Refreshes
<1>4. CASE Refreshed(v, c)
  <2>1. Refreshed(v, c)' /\ v = version'[p]
    BY <1>2, <1>4
  <2> QED
    BY <2>1 DEF Refreshed
<1> QED
  BY <1>3, <1>4

LEMMA OwnRefreshes ==
  ASSUME MayFail = {}, OneWriter, TInv, QuietInv, NEW p \in Process, Refreshes(p), Step(p)
  PROVE  Refreshes(p)'
<1>0. [Next]_vars
  BY DEF Next, Step
<1>1. CASE pc'[p] \notin {"write", "reclaim", "assemble", "report", "done"}
  BY <1>1 DEF Refreshes
<1>2. CASE VerifyEnd(p)
  <2>1. command'[p] = "verify"
    BY <1>2 DEF VerifyEnd, Goto, TInv, Control
  <2> QED
    BY <2>1 DEF Refreshes
<1>3. CASE ReportHit(p)
  <2>1. stores'[p] = NoStores /\ log' = log /\ log \in Logs
    BY <1>3 DEF ReportHit, Goto, QuietInv, RanNow, TInv, TypeOK
  <2>2. stores'[p] = Derived(log', {}) => Conversations(log') = {}
    BY <2>1, NothingDerived
  <2> QED
    BY <2>2 DEF Refreshes, Derived, Conversations, Logged
<1>4. CASE Regroup(p)
  <2>1. /\ log' = log /\ stores' = stores /\ log \in Logs
        /\ todo'[p] = {c \in Conversations(log) : HasWarmup(stores[p], c)}
        /\ pc'[p] \in {"write", "check"}
    BY <1>4 DEF Regroup, Goto, TInv, TypeOK
  <2>2. ASSUME stores[p] = Derived(log, {}), NEW c \in Conversations(log)
        PROVE  c \in todo'[p]
    <3>1. stores[p].logged = log
      BY <2>2 DEF Derived
    <3>2. HasWarmup(stores[p], c)
      BY <2>2, <3>1 DEF HasWarmup, In, Conversations, Logged
    <3> QED
      BY <2>1, <2>2, <3>2
  <2>3. Derived(log, {})' = Derived(log, {}) /\ Conversations(log)' = Conversations(log)
    BY <2>1 DEF Derived, Conversations, Logged
  <2> QED
    BY <2>1, <2>2, <2>3 DEF Refreshes
<1>5. CASE \/ \E d \in Conversation : Put(p, d)
           \/ Reclaim(p) \/ EndPopulate(p) \/ WarmupAssemble(p) \/ Report(p)
  <2>1. /\ log' = log /\ stores' = stores /\ command' = command /\ version' = version
        /\ pc[p] \in {"write", "reclaim", "assemble", "report"}
    BY <1>5 DEF Put, Reclaim, EndPopulate, WarmupAssemble, Report, Goto, results
  <2>2. Derived(log, {})' = Derived(log, {}) /\ Conversations(log)' = Conversations(log)
    BY <2>1 DEF Derived, Conversations, Logged
  <2>3. PICK v : v = version[p]
    OBVIOUS
  <2> SUFFICES ASSUME stores[p] = Derived(log, {}), command[p] # "verify", NEW c \in Conversations(log)
               PROVE  \/ /\ pc'[p] \in {"write", "reclaim"} /\ c \in todo'[p]
                         /\ ~(pc'[p] = "reclaim" /\ current'[p] = c)
                      \/ Refreshed(v, c)'
    <3>1. (\A c : Refreshed(v, c)' => Refreshed(version[p], c)')
      BY <2>1, <2>3 DEF Refreshed
    <3> QED
      BY <2>1, <2>2, <3>1 DEF Refreshes
  <2>4. \/ pc[p] \in {"write", "reclaim"} /\ c \in todo[p] /\ ~(pc[p] = "reclaim" /\ current[p] = c)
        \/ Refreshed(v, c)
    BY <2>1, <2>3 DEF Refreshes
  <2>5. CASE Refreshed(v, c)
    BY <1>0, <2>1, <2>5, RefreshedStays
  <2>6. CASE pc[p] \in {"write", "reclaim"} /\ c \in todo[p] /\ ~(pc[p] = "reclaim" /\ current[p] = c)
    <3>1. ASSUME NEW d \in Conversation, Put(p, d)
          PROVE  \/ pc'[p] = "reclaim" /\ c \in todo'[p] /\ current'[p] # c
                 \/ Refreshed(v, c)'
      <4>1. pc'[p] = "reclaim" /\ todo' = todo /\ current'[p] = d
        BY <3>1 DEF Put, Goto, TInv, TypeOK
      <4>2. CASE c = d
        <5>1. Refreshed(version[p], d)'
          BY <3>1, PutRefreshes
        <5> QED
          BY <2>1, <2>3, <4>2, <5>1 DEF Refreshed
      <4> QED
        BY <2>6, <4>1, <4>2
    <3>2. CASE Reclaim(p)
      BY <2>6, <3>2 DEF Reclaim, Goto, TInv, TypeOK
    <3>3. ~EndPopulate(p) /\ ~WarmupAssemble(p) /\ ~Report(p)
      BY <2>6 DEF EndPopulate, WarmupAssemble, Report, Goto
    <3> QED
      BY <1>5, <3>1, <3>2, <3>3
  <2> QED
    BY <2>4, <2>5, <2>6
<1>6. CASE \/ \E cmd \in Command, v \in Version : Begin(p, cmd, v)
           \/ \E v \in Version, c \in Conversation : BeginWarmup(p, v, c)
           \/ WarmupHash(p) \/ WarmupHit(p) \/ WarmupMiss(p)
           \/ \E failed \in SUBSET (MayFail \cap Logged(log)) : RunStrategy(p, failed)
           \/ \E c \in Conversation : VerifyHash(p, c)
           \/ VerifyCompare(p) \/ Exit(p)
  <2>1. pc'[p] \notin {"write", "reclaim", "assemble", "report", "done"}
    BY <1>6 DEF Begin, BeginWarmup, WarmupHash, WarmupHit, WarmupMiss, RunStrategy, VerifyHash,
                VerifyCompare, Exit, Goto, TInv, TypeOK
  <2> QED
    BY <1>1, <2>1
<1> QED
  BY <1>2, <1>3, <1>4, <1>5, <1>6 DEF Step

LEMMA StepRefreshes ==
  ASSUME QuietIngest, MayFail = {}, OneWriter
  PROVE  TInv /\ QuietInv /\ (\A p \in Process : Refreshes(p)) /\ [Next]_vars
           => (\A p \in Process : Refreshes(p))'
<1> SUFFICES ASSUME TInv, QuietInv, \A p \in Process : Refreshes(p), [Next]_vars, NEW p \in Process
             PROVE  Refreshes(p)'
  OBVIOUS
<1>1. log' = log => \A v, c : Refreshed(v, c) => Refreshed(v, c)'
  BY RefreshedStays
<1>2. CASE UNCHANGED vars
  BY <1>1, <1>2, FrameRefreshes DEF vars, procVars, results
<1>3. ASSUME NEW i \in Inputs, Ingest(i[1], i[2])
      PROVE  Refreshes(p)'
  <2>1. pc'[p] = "idle"
    BY <1>3 DEF Ingest, procVars
  <2> QED
    BY <2>1 DEF Refreshes
<1>4. ASSUME NEW q \in Process, Step(q)
      PROVE  Refreshes(p)'
  <2>1. CASE q = p
    BY <1>4, <2>1, OwnRefreshes
  <2>2. CASE q # p
    <3>1. log' = log
      BY <1>4
      DEF Step, Begin, BeginWarmup, WarmupHash, WarmupHit, ReportHit, WarmupMiss, RunStrategy,
          Regroup, Put, Reclaim, VerifyHash, EndPopulate, WarmupAssemble, Report, VerifyCompare,
          VerifyEnd, Exit
    <3> QED
      BY <1>1, <1>4, <2>2, <3>1, OtherStepG, FrameRefreshes
  <2> QED
    BY <2>1, <2>2
<1> QED
  BY <1>2, <1>3, <1>4 DEF Next, Step

(* A replay, a submitted run or a missed warm-up that finished has left    *)
(* the current derivation of every conversation in the cache, whatever     *)
(* other commands did meanwhile, when the log is written between commands  *)
(* only, no projection fails and one version writes (derived.rs            *)
(* populate_cache, reclaim_superseded).                                    *)
THEOREM FinishedRunsRefresh ==
  ASSUME QuietIngest, MayFail = {}, OneWriter
  PROVE  Spec => []RunRefreshes
<1>1. Init => \A p \in Process : Refreshes(p)
  BY DEF Init, Refreshes
<1>2. (\A p \in Process : Refreshes(p)) => RunRefreshes
  BY DEF Refreshes, Refreshed, RunRefreshes, Lookup
<1>3. TInv /\ QuietInv /\ (\A p \in Process : Refreshes(p)) /\ [Next]_vars
        => (\A p \in Process : Refreshes(p))'
  BY StepRefreshes
<1> QED
  BY <1>1, <1>2, <1>3, QuietInvariance, PTL DEF Spec

=============================================================================
