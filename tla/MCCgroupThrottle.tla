--------------------------- MODULE MCCgroupThrottle ---------------------------
(* Small instances of CgroupThrottle. *)
EXTENDS CgroupThrottle
=============================================================================
