-------------------------- MODULE MCSpillAttribution --------------------------
(* Small instances of SpillAttribution. *)
EXTENDS SpillAttribution
=============================================================================
