----------------------------- MODULE MCTempSpill -----------------------------
(* Small instances of TempSpill. *)
EXTENDS TempSpill
=============================================================================
