----------------------------- MODULE MCWalLatency -----------------------------
(* Small instances of WalLatency: interchangeable requests, plain writes,  *)
(* write+flush and read-ahead, which has an A in its rwbs; and a threshold *)
(* of one clock tick.                                                      *)
EXTENDS WalLatency, TLC

Io(c, letters) == [first |-> c, rest |-> letters]
Kinds == {Io("W", {"F", "S"}), Io("R", {"A"}), Io("W", {"S"})}

Symmetry == Permutations(Request)
=============================================================================
