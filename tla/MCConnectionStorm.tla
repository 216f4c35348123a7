-------------------------- MODULE MCConnectionStorm --------------------------
(* Small instances of ConnectionStorm. *)
EXTENDS ConnectionStorm
=============================================================================
