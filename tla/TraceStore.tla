---------------------------- MODULE TraceStore ----------------------------
(***************************************************************************)
(* The durable routing-trace store, SqliteRoutingTraceStore: one table     *)
(* shared by the processes that opened the file, each with the cap its own *)
(* configuration gave it (with_max_traces).  An upsert is two statements   *)
(* that commit separately: the INSERT .. ON CONFLICT, then the DELETE of   *)
(* every row outside the newest `cap` rowids.  Another process may run     *)
(* between them, and a process may die between them.                       *)
(***************************************************************************)
EXTENDS Integers, Sequences, FiniteSets

CONSTANTS
    Message,    \* message ids, the table's TEXT primary key
    Writer,     \* processes with the store open
    Caps,       \* the values trace_max_count takes over the opens
    MaxUpserts, \* bound: upserts made, over all processes
    MaxReopens, \* bound: processes that end and are replaced
    NoMessage   \* no message, no process

ASSUME TraceStoreAssumption ==
    /\ Caps \subseteq Nat /\ Caps # {}
    /\ MaxUpserts \in Nat /\ MaxReopens \in Nat
    /\ NoMessage \notin Message \cup Writer

VARIABLES
    rowid,      \* Message -> its row's implicit rowid; 0 = no row
    cap,        \* Writer -> max_traces of its open store
    pending,    \* Writer -> the message whose upsert awaits its DELETE, or NoMessage
    inserted,   \* history: the messages given a new row, oldest first
    returned,   \* history: the message of the upsert that just returned, if no other
                \* INSERT came since the DELETE before it ({} or one)
    unpruned,   \* history: INSERTs since the last DELETE
    sole,       \* history: the process that made the only INSERT since then, or NoMessage
    upserts,    \* history: upserts made so far (bounded by MaxUpserts)
    reopens     \* history: processes replaced so far (bounded by MaxReopens)

traceVars == <<rowid, cap, pending, inserted, returned, unpruned, sole, upserts, reopens>>

\* The messages that have a row: what get answers Some for.
Stored == {m \in Message : rowid[m] # 0}

TraceInit ==
    /\ rowid = [m \in Message |-> 0]
    /\ cap \in [Writer -> Caps]
    /\ pending = [p \in Writer |-> NoMessage]
    /\ inserted = <<>> /\ returned = {}
    /\ unpruned = 0 /\ sole = NoMessage /\ upserts = 0 /\ reopens = 0

\* A rowid table's next key: one above the largest in use, so a table emptied
\* by its DELETE starts again at 1.
NextRowid ==
    1 + CHOOSE n \in {rowid[m] : m \in Message} \cup {0} :
            \A m \in Message : rowid[m] <= n

\* The first statement.  A row that exists keeps its rowid.
Insert(p, m) ==
    /\ pending[p] = NoMessage
    /\ upserts < MaxUpserts
    /\ IF m \in Stored
         THEN UNCHANGED <<rowid, inserted>>
         ELSE /\ rowid' = [rowid EXCEPT ![m] = NextRowid]
              /\ inserted' = Append(inserted, m)
    /\ pending' = [pending EXCEPT ![p] = m]
    /\ upserts' = upserts + 1
    /\ unpruned' = unpruned + 1
    /\ sole' = IF unpruned = 0 THEN p ELSE NoMessage
    /\ returned' = {}
    /\ UNCHANGED <<cap, reopens>>

\* Mutant of Newest: ORDER BY rowid LIMIT n, without DESC.
NewestAscending(n) ==
    {m \in Stored : Cardinality({k \in Stored : rowid[k] < rowid[m]}) < n}

\* Mutant of Newest: one row too many kept.
NewestOffByOne(n) ==
    {m \in Stored : Cardinality({k \in Stored : rowid[k] > rowid[m]}) <= n}

\* The rows ORDER BY rowid DESC LIMIT n leaves.
Newest(n) ==
    {m \in Stored : Cardinality({k \in Stored : rowid[k] > rowid[m]}) < n}

\* The second statement, and the return of the upsert.
Prune(p) ==
    /\ pending[p] # NoMessage
    /\ rowid' = [m \in Message |-> IF m \in Newest(cap[p]) THEN rowid[m] ELSE 0]
    /\ pending' = [pending EXCEPT ![p] = NoMessage]
    /\ returned' = IF sole = p THEN {pending[p]} ELSE {}
    /\ unpruned' = 0 /\ sole' = NoMessage
    /\ UNCHANGED <<cap, inserted, upserts, reopens>>

\* A process ends, perhaps between its two statements, and another one opens
\* the file in its place with the cap of its own configuration.
Reopen(p, n) ==
    /\ reopens < MaxReopens
    /\ cap' = [cap EXCEPT ![p] = n]
    /\ pending' = [pending EXCEPT ![p] = NoMessage]
    /\ returned' = {}
    /\ reopens' = reopens + 1
    /\ UNCHANGED <<rowid, inserted, unpruned, sole, upserts>>

TraceNext ==
    \E p \in Writer :
        \/ \E m \in Message : Insert(p, m)
        \/ Prune(p)
        \/ \E n \in Caps : Reopen(p, n)

TraceSpec == TraceInit /\ [][TraceNext]_traceVars

-----------------------------------------------------------------------------
(* Properties. *)

\* However upserts of several processes and their prunes interleave, and
\* wherever one dies, the traces of the last `cap` first-time insertions are
\* there: a prune only ever takes older ones ("the most-recent N (by insertion
\* order)", the struct's doc).  Stated for one cap shared by all opens.
LatestInsertionsKept ==
    \A n \in Caps : \A i \in 1 .. Len(inserted) :
        i > Len(inserted) - n => inserted[i] \in Stored

\* The store outgrows its cap by at most the upserts made since the last DELETE,
\* whoever made them: the next DELETE of any process also takes what a process
\* that died between its two statements left (the write-driven prune).
GrowthBounded ==
    \E n \in Caps : Cardinality(Stored) <= n + unpruned

\* The trace an upsert wrote is there when it returns ("The just-written row is
\* the highest rowid, so it is never pruned"), when no other INSERT came since the
\* DELETE before it.  Otherwise it may be gone: a row that is updated keeps its
\* rowid, and the excess rows another process left may all be newer than it.
\* Stated for one cap shared by all opens.
JustWrittenKept == returned \subseteq Stored

=============================================================================
