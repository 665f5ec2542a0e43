--------------------------- MODULE MCSnapshotStore ---------------------------
(* SnapshotStore with values for TLC.  Runs are interchangeable, and so are *)
(* the bars that pass the gate.                                             *)
EXTENDS SnapshotStore, TLC

CONSTANTS good, other, bad

RunSymmetry == Permutations(Runs) \cup Permutations({good, other})
=============================================================================
