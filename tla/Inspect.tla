------------------------------ MODULE Inspect ------------------------------
(***************************************************************************)
(* `mirrorlane inspect` (commands.rs inspect) and a host that routes, over *)
(* one database: the projection cache and the routing-trace store composed *)
(* with the commands that use them both.                                   *)
(*                                                                         *)
(* A routing process projects a message through the cache, routes the      *)
(* projection it got, and upserts the trace.  An inspecting process        *)
(* projects the message through the same cache, routes what it got, and    *)
(* shows that decision next to the stored trace.  Nothing compares the     *)
(* two: that the trace explains the decision is left to the cache, which   *)
(* is to give both of them one projection.  Deciding is a function of the  *)
(* projection, so a projection stands for its decision and its trace.      *)
(***************************************************************************)
EXTENDS ProjectionCache, TraceStore

CONSTANT MaxCommands   \* bound: commands that project

ASSUME InspectAssumption == Process = Writer /\ Key \subseteq Message

VARIABLES
  commands,  \* the commands begun so far
  task,      \* process -> what its command is doing
  trace,     \* message -> the projection its stored trace was made from
  routed     \* history: message -> the version it was last routed under, and
             \* whether the row of that projection has stood since

inspectVars == <<vars, traceVars, commands, task, trace, routed>>

NoTask == [command |-> "none", message |-> None, projection |-> None,
           stands |-> TRUE, shown |-> None]

InspectInit ==
  /\ Init /\ TraceInit /\ commands = 0
  /\ task = [p \in Process |-> NoTask]
  /\ trace = [m \in Message |-> None]
  /\ routed = [m \in Message |-> <<None, FALSE>>]

\* Row (v, k) is deleted or replaced by a step of the cache.
Lost(v, k) == v # None /\ k # None /\ rows[v][k] \notin {None, rows'[v][k]}

\* What a step of p on the cache means for the projections used elsewhere.
RowsMove(p) ==
  routed' = [m \in Message |->
               <<routed[m][1], routed[m][2] /\ ~(m \in Key /\ Lost(routed[m][1], m))>>]

Task(p, new) ==
  task' = [q \in Process |->
             IF q = p THEN new
             ELSE [task[q] EXCEPT !.stands = @ /\ ~Lost(version[q], task[q].message)]]

\* A command that projects message k opens the cache at its version.
Begin(p, command, v, k) ==
  /\ task[p] = NoTask /\ pending[p] = NoMessage
  /\ commands < MaxCommands /\ commands' = commands + 1
  /\ Open(p, v)
  /\ Task(p, [NoTask EXCEPT !.command = command, !.message = k])
  /\ RowsMove(p)
  /\ UNCHANGED <<traceVars, trace>>

\* projector.project: Cached::run, read, call and write.
Project(p) ==
  /\ task[p].command \in {"route", "inspect"} /\ task[p].projection = None
  /\ LET k == task[p].message
         Projected(x) == Task(p, [task[p] EXCEPT !.projection = x])
     IN  \/ Hit(p, k) /\ Projected(rows[version[p]][k])
         \/ Miss(p, k) /\ UNCHANGED task
         \/ (\E x \in Projection : InnerReturns(p, x)) /\ UNCHANGED task
         \/ InnerPanics(p) /\ UNCHANGED task
         \/ Put(p) /\ Projected(out[p])
  /\ RowsMove(p)
  /\ UNCHANGED <<traceVars, commands, trace>>

\* Mutant: a message that has a trace keeps it.
RouteInsertOnce(p) ==
  /\ task[p].command = "route" /\ task[p].projection # None
  /\ LET m == task[p].message
     IN  /\ Insert(p, m)
         /\ trace' = IF trace[m] # None THEN trace ELSE [trace EXCEPT ![m] = task[p].projection]
         /\ routed' = [routed EXCEPT ![m] = <<version[p], task[p].stands>>]
  /\ task' = [task EXCEPT ![p] = [NoTask EXCEPT !.command = "routed"]]
  /\ UNCHANGED <<vars, commands>>

\* traces.upsert of the routed message: the first statement.
RouteInsert(p) ==
  /\ task[p].command = "route" /\ task[p].projection # None
  /\ LET m == task[p].message
     IN  /\ Insert(p, m)
         /\ trace' = [trace EXCEPT ![m] = task[p].projection]
         /\ routed' = [routed EXCEPT ![m] = <<version[p], task[p].stands>>]
  /\ task' = [task EXCEPT ![p] = [NoTask EXCEPT !.command = "routed"]]
  /\ UNCHANGED <<vars, commands>>

\* The upsert of a message whose projection no command looks at.
OtherInsert(p, m) ==
  /\ task[p] = NoTask /\ m \notin Key
  /\ Insert(p, m)
  /\ UNCHANGED <<vars, commands, task, trace, routed>>

\* The second statement.
UpsertPrune(p) ==
  /\ Prune(p)
  /\ trace' = [m \in Message |-> IF rowid'[m] # 0 THEN trace[m] ELSE None]
  /\ UNCHANGED <<vars, commands, task, routed>>

\* traces.get: the stored trace, if there is one, is shown.
InspectShows(p) ==
  /\ task[p].command = "inspect" /\ task[p].projection # None /\ task[p].shown = None
  /\ trace[task[p].message] # None
  /\ task' = [task EXCEPT ![p].shown = trace[task[p].message],
                          ![p].stands = @ /\ routed[task[p].message] = <<version[p], TRUE>>]
  /\ UNCHANGED <<vars, traceVars, commands, trace, routed>>

\* The command ends, or the process is killed at any statement.
End(p) ==
  /\ Exit(p)
  /\ task' = [task EXCEPT ![p] = NoTask]
  /\ \/ pending[p] = NoMessage /\ UNCHANGED traceVars
     \/ pending[p] # NoMessage /\ \E n \in Caps : Reopen(p, n)
  /\ UNCHANGED <<commands, trace, routed>>

\* A host that has only the trace store open dies between the two statements.
Replace(p) ==
  /\ task[p] = NoTask /\ pending[p] # NoMessage
  /\ \E n \in Caps : Reopen(p, n)
  /\ UNCHANGED <<vars, commands, task, trace, routed>>

InspectNext ==
  \E p \in Process :
    \/ \E command \in {"route", "inspect"}, v \in Version, k \in Key : Begin(p, command, v, k)
    \/ Project(p) \/ RouteInsert(p) \/ UpsertPrune(p) \/ InspectShows(p)
    \/ \E m \in Message : OtherInsert(p, m)
    \/ End(p) \/ Replace(p)

InspectSpec == InspectInit /\ [][InspectNext]_inspectVars

-----------------------------------------------------------------------------
(* Properties.                                                             *)

(* What `inspect` shows hangs together (commands.rs:451-458): the trace it *)
(* prints was recorded from the projection it prints the decision of, when *)
(* the message was last routed under the same projector version and the    *)
(* row of that projection was neither pruned nor raced for until the trace *)
(* was read.  The only tie between trace and decision is that row, which   *)
(* every process that opens the cache under another version deletes.       *)
TraceExplainsInspection ==
  \A p \in Process : task[p].shown # None /\ task[p].stands => task[p].shown = task[p].projection

=============================================================================
