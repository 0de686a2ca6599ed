----------------------------- MODULE StrategyRun -----------------------------
(***************************************************************************)
(* What a run of a strategy promises (mirrorlane-worker, strategy.rs and   *)
(* replay.rs): it takes one snapshot of the log, and later yields the      *)
(* stores that follow from that snapshot and from the set of messages      *)
(* whose projection failed, whatever is appended meanwhile, in whatever    *)
(* order the jobs ran and however often they were delivered.  What follows *)
(* from them is up to the strategy: Derived, any function of the two.      *)
(***************************************************************************)
CONSTANTS
  Message, Body,
  MayFail,        \* the messages whose projection may fail
  None,           \* no message, no snapshot
  Derived(_, _)   \* Derived(l, failed): the stores that log l yields

VARIABLES
  log,   \* the message log
  snap,  \* the run's snapshot of it, None before the run starts
  out    \* << >>, and once the run has ended <<the stores it yields>>

vars == <<log, snap, out>>

Logged(l) == {m \in Message : l[m] # None}

Init ==
  /\ log = [m \in Message |-> None]
  /\ snap = None
  /\ out = << >>

Ingest(m, b) ==
  /\ log' = [log EXCEPT ![m] = b]
  /\ UNCHANGED <<snap, out>>

\* messages.all()
Begin ==
  /\ snap = None
  /\ snap' = log
  /\ UNCHANGED <<log, out>>

End(failed) ==
  /\ snap # None
  /\ out = << >>
  /\ out' = <<Derived(snap, failed)>>
  /\ UNCHANGED <<log, snap>>

Next ==
  \/ \E m \in Message, b \in Body : Ingest(m, b)
  \/ Begin
  \/ snap # None /\ \E failed \in SUBSET (MayFail \cap Logged(snap)) : End(failed)

Spec == Init /\ [][Next]_vars

=============================================================================
