----------------------------- MODULE MCInspect -----------------------------
(* Two processes, one message that is projected and three more that are    *)
(* only traced, two projector versions, two answers; a cap of two traces.  *)
EXTENDS Inspect, TLC

OneCap == {2}

Symmetry == Permutations(Process) \cup Permutations(Message \ Key)
              \cup Permutations(Projection) \cup Permutations(Version)

=============================================================================
