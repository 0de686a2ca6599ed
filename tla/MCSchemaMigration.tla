-------------------------- MODULE MCSchemaMigration --------------------------
(* Two processes that open two stores: on a file each, or on the one file  *)
(* given by --db.                                                          *)
EXTENDS SchemaMigration, TLC

CONSTANTS messages, derived, f1, f2

OneFileEach == [s \in Store |-> IF s = messages THEN f1 ELSE f2]
OneFile == [s \in Store |-> f1]

Symmetry == Permutations(Process) \cup Permutations(Id)
=============================================================================
