----------------------------- MODULE MCStmtDeltas -----------------------------
(* Small instances of StmtDeltas: queries with one row each, and one query *)
(* that two users run.                                                     *)
EXTENDS StmtDeltas

OwnQuery    == [r \in Row |-> r]
SharedQuery == [r \in Row |-> CHOOSE q \in QueryId : TRUE]
=============================================================================
