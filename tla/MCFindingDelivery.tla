--------------------------- MODULE MCFindingDelivery ---------------------------
(* Small instances of FindingDelivery. *)
EXTENDS FindingDelivery
=============================================================================
