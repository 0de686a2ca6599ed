--------------------------- MODULE ProjectionCache ---------------------------
(***************************************************************************)
(* The semantic cache in front of a model: mirrorlane-runtime's Cached     *)
(* step, as CachingProjector uses it over the durable                      *)
(* SqliteProjectionCache, by several mirrorlane processes that share one   *)
(* database file.                                                          *)
(*                                                                         *)
(* A process opens the cache at its projector version, which prunes the    *)
(* rows of every other version (commands.rs projector_for), and then       *)
(* projects messages one at a time.  Cached::run is a read, a call of the  *)
(* model and a write: three separate steps, between which other processes  *)
(* run.  The model may answer differently each time, and it may panic.     *)
(*                                                                         *)
(* A key stands for a message's cache key: the hash of its id and body     *)
(* (core/cache.rs), so an edited message is another key.                   *)
(***************************************************************************)
EXTENDS Naturals, FiniteSets

CONSTANTS
  Process,      \* mirrorlane processes
  Version,      \* projector versions: provider, model and prompt
  Key,          \* cache keys
  Projection,   \* what a model may answer
  None          \* no row, no version, no key, no projection

ASSUME NoneAssumption ==
  /\ None \notin Version
  /\ None \notin Key
  /\ None \notin Projection

VARIABLES
  rows,      \* the projection_cache table: rows[v][k] is the payload, or None
  pc,        \* what each process is doing
  version,   \* the version it projects under, None when it is not running
  key,       \* the key it is projecting, None between two projections
  out        \* the model's answer, not yet written

(* History variables: what happened, not what the program stores.          *)
VARIABLES
  wrote,     \* <<p, v, k>>: p wrote row (v, k), and the row was not deleted since
  answers    \* <<v, k, x>>: the model answered x for key k under version v

vars == <<rows, pc, version, key, out, wrote, answers>>

PC == {"closed", "ready", "calling", "putting"}

TypeOK ==
  /\ rows \in [Version -> [Key -> Projection \cup {None}]]
  /\ pc \in [Process -> PC]
  /\ version \in [Process -> Version \cup {None}]
  /\ key \in [Process -> Key \cup {None}]
  /\ out \in [Process -> Projection \cup {None}]
  /\ wrote \subseteq Process \X Version \X Key
  /\ answers \subseteq Version \X Key \X Projection
  /\ \A p \in Process :
       /\ pc[p] = "closed" <=> version[p] = None
       /\ pc[p] \in {"calling", "putting"} <=> key[p] # None
       /\ pc[p] = "putting" <=> out[p] # None

Init ==
  /\ rows = [v \in Version |-> [k \in Key |-> None]]
  /\ pc = [p \in Process |-> "closed"]
  /\ version = [p \in Process |-> None]
  /\ key = [p \in Process |-> None]
  /\ out = [p \in Process |-> None]
  /\ wrote = {}
  /\ answers = {}

-----------------------------------------------------------------------------

\* prune_superseded: DELETE ... WHERE version <> keep.
PruneSuperseded(keep) ==
  /\ rows' = [v \in Version |-> IF v = keep THEN rows[v] ELSE [k \in Key |-> None]]
  /\ wrote' = {w \in wrote : w[2] = keep}

\* projector_for: open the cache and prune; a failed prune is ignored.
Open(p, v) ==
  /\ pc[p] = "closed"
  /\ pc' = [pc EXCEPT ![p] = "ready"]
  /\ version' = [version EXCEPT ![p] = v]
  /\ \/ PruneSuperseded(v)
     \/ UNCHANGED <<rows, wrote>>
  /\ UNCHANGED <<key, out, answers>>

\* Cached::run, the read: on a hit the frozen projection is returned ...
Hit(p, k) ==
  /\ pc[p] = "ready"
  /\ rows[version[p]][k] # None
  /\ UNCHANGED vars

\* Mutant: the cache is not read first.
MissUnread(p, k) ==
  /\ pc[p] = "ready"
  /\ pc' = [pc EXCEPT ![p] = "calling"]
  /\ key' = [key EXCEPT ![p] = k]
  /\ UNCHANGED <<rows, version, out, wrote, answers>>

\* ... and on a miss the inner step runs.
Miss(p, k) ==
  /\ pc[p] = "ready"
  /\ rows[version[p]][k] = None
  /\ pc' = [pc EXCEPT ![p] = "calling"]
  /\ key' = [key EXCEPT ![p] = k]
  /\ UNCHANGED <<rows, version, out, wrote, answers>>

\* The inner step returns a projection.
InnerReturns(p, x) ==
  /\ pc[p] = "calling"
  /\ pc' = [pc EXCEPT ![p] = "putting"]
  /\ out' = [out EXCEPT ![p] = x]
  /\ answers' = answers \cup {<<version[p], key[p], x>>}
  /\ UNCHANGED <<rows, version, key, wrote>>

\* The inner step panics: the stage's job fails and nothing is cached.
InnerPanics(p) ==
  /\ pc[p] = "calling"
  /\ pc' = [pc EXCEPT ![p] = "ready"]
  /\ key' = [key EXCEPT ![p] = None]
  /\ UNCHANGED <<rows, version, out, wrote, answers>>

\* Mutant: the version is not part of the primary key.
PutUnversioned(p) ==
  /\ pc[p] = "putting"
  /\ rows' = [v \in Version |-> [rows[v] EXCEPT ![key[p]] = out[p]]]
  /\ wrote' = wrote \cup {<<p, version[p], key[p]>>}
  /\ pc' = [pc EXCEPT ![p] = "ready"]
  /\ key' = [key EXCEPT ![p] = None]
  /\ out' = [out EXCEPT ![p] = None]
  /\ UNCHANGED <<version, answers>>

\* put: INSERT ... ON CONFLICT(version, key) DO UPDATE, and Cached::run returns.
Put(p) ==
  /\ pc[p] = "putting"
  /\ rows' = [rows EXCEPT ![version[p]][key[p]] = out[p]]
  /\ wrote' = wrote \cup {<<p, version[p], key[p]>>}
  /\ pc' = [pc EXCEPT ![p] = "ready"]
  /\ key' = [key EXCEPT ![p] = None]
  /\ out' = [out EXCEPT ![p] = None]
  /\ UNCHANGED <<version, answers>>

\* The command ends, or its process is killed: only the table survives.
Exit(p) ==
  /\ pc[p] # "closed"
  /\ pc' = [pc EXCEPT ![p] = "closed"]
  /\ version' = [version EXCEPT ![p] = None]
  /\ key' = [key EXCEPT ![p] = None]
  /\ out' = [out EXCEPT ![p] = None]
  /\ UNCHANGED <<rows, wrote, answers>>

Next ==
  \E p \in Process :
    \/ \E v \in Version : Open(p, v)
    \/ \E k \in Key : Hit(p, k) \/ Miss(p, k)
    \/ \E x \in Projection : InnerReturns(p, x)
    \/ InnerPanics(p)
    \/ Put(p)
    \/ Exit(p)

Spec == Init /\ [][Next]_vars

-----------------------------------------------------------------------------
(* Properties.                                                             *)

(* A row is only ever the model's own answer for that key under that       *)
(* version (cache.rs:93-97): nothing is cached for a panic, and no version *)
(* is served what another version answered.                                *)
RowsAreAnswers ==
  \A v \in Version, k \in Key :
    rows[v][k] # None => <<v, k, rows[v][k]>> \in answers

(* A process that wrote a row does not call the model for it again while   *)
(* the row stands: what it wrote is present, and no key it is projecting   *)
(* is one it wrote.  This is the part of "at most once per (version, key)" *)
(* (cache.rs:93) that survives concurrent processes and pruning: two that  *)
(* miss together both call it, and so does one whose row another process   *)
(* deleted by opening the cache under its own version.                     *)
WritesOnce ==
  /\ \A p \in Process, v \in Version, k \in Key :
       <<p, v, k>> \in wrote => rows[v][k] # None
  /\ \A p \in Process :
       key[p] # None => <<p, version[p], key[p]>> \notin wrote

(* Writing is the only way a row's value changes, and the writer is not    *)
(* the process that wrote the standing value: a projection is replaced     *)
(* only when two processes missed the same row before either wrote it.     *)
FrozenUnlessRaced ==
  [][ \A v \in Version, k \in Key :
        (rows[v][k] # None /\ rows'[v][k] \notin {None, rows[v][k]})
          => \E p \in Process :
               /\ pc[p] = "putting" /\ version[p] = v /\ key[p] = k
               /\ rows'[v][k] = out[p]
               /\ <<p, v, k>> \notin wrote ]_vars

=============================================================================
