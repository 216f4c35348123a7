-------------------------- MODULE MCCheckpointStorm --------------------------
(* Small instances of CheckpointStorm: one kind of work per outcome of the *)
(* phase comparison (write over sync, sync over write, balanced with many  *)
(* and with few full-page images).                                         *)
EXTENDS CheckpointStorm

Costs(w, s, f) == [write |-> w, sync |-> s, fpi |-> f]
PhaseWork == {Costs(2, 0, 0), Costs(0, 2, 0), Costs(1, 1, 1), Costs(1, 1, 0)}
=============================================================================
