------------------------------ MODULE StmtDeltas ------------------------------
(***************************************************************************)
(* The pg_stat_statements collector: the loop and emit_deltas of           *)
(* pgsleuth-cli/src/collect_pg_stmt.rs over the poll of                    *)
(* pgsleuth-postgres/src/stat_statements.rs.                               *)
(*                                                                         *)
(* The view has one row per (user, database, query) and counts             *)
(* cumulatively; Postgres may evict rows or reset the view at any time.    *)
(* The collector keeps one previous value per queryid and adds the         *)
(* difference to a metric labelled with queryid, database and user.  The   *)
(* five counters are treated alike; calls stands for all of them.  A poll  *)
(* that fails changes nothing: it is a stuttering step.                    *)
(***************************************************************************)
EXTENDS Naturals, Functions

CONSTANTS
  Row,         \* the (user, database, query) combinations
  QueryId,
  QueryOf,     \* the queryid of each row
  MaxCalls     \* bound: executions of the statement of one row

ASSUME StmtAssumption ==
  /\ QueryOf \in [Row -> QueryId]
  /\ MaxCalls \in Nat

VARIABLES
  view,        \* pg_stat_statements: the rows present, with their calls
  samples,     \* what the last poll returned and emit_deltas has yet to visit
  prev,        \* the queryids seen, with the calls last inserted for them
  reported,    \* reported[r]: the increments made to the metric of r
  \* history, for the properties only
  executed,    \* executed[r]: the executions of r
  forgotten    \* the rows that Postgres has dropped at least once

vars == <<view, samples, prev, reported, executed, forgotten>>

ValueOr0(f, x) == IF x \in DOMAIN f THEN f[x] ELSE 0
Put(f, x, v)   == [y \in DOMAIN f \cup {x} |-> IF y = x THEN v ELSE f[y]]

(* Mutant: the distance between the two counts. *)
AbsDelta(cur, before) == IF cur >= before THEN cur - before ELSE before - cur

(* delta: a count that went down was reset, and adds nothing.              *)
Delta(cur, before) == IF cur >= before THEN cur - before ELSE 0

Init ==
  /\ view = [r \in {} |-> 0] /\ samples = [r \in {} |-> 0]
  /\ prev = [q \in {} |-> 0]
  /\ reported = [r \in Row |-> 0] /\ executed = [r \in Row |-> 0]
  /\ forgotten = {}

(* Postgres executes a statement; a row that is not there enters at 1.     *)
Execute(r) ==
  /\ executed[r] < MaxCalls
  /\ view' = Put(view, r, ValueOr0(view, r) + 1)
  /\ executed' = [executed EXCEPT ![r] = @ + 1]
  /\ UNCHANGED <<samples, prev, reported, forgotten>>

(* Postgres deallocates the least used rows, or the view is reset.         *)
Forget(rows) ==
  /\ rows # {}
  /\ view' = Restrict(view, DOMAIN view \ rows)
  /\ forgotten' = forgotten \cup rows
  /\ UNCHANGED <<samples, prev, reported, executed>>

(* A tick polls the view, once the previous tick's rows are all emitted.   *)
Poll ==
  /\ DOMAIN samples = {}
  /\ samples' = view
  /\ UNCHANGED <<view, prev, reported, executed, forgotten>>

(* Mutant: the previous value is seeded once and never moved on. *)
EmitKeepsPrev(r) ==
  LET q == QueryOf[r] IN
  /\ reported' = [reported EXCEPT ![r] = @ + Delta(samples[r], ValueOr0(prev, q))]
  /\ prev' = IF q \in DOMAIN prev THEN prev ELSE Put(prev, q, samples[r])
  /\ samples' = Restrict(samples, DOMAIN samples \ {r})
  /\ UNCHANGED <<view, executed, forgotten>>

(* One iteration of emit_deltas; the view returns its rows in any order.   *)
EmitRow(r) ==
  LET q == QueryOf[r] IN
  /\ reported' = [reported EXCEPT ![r] = @ + Delta(samples[r], ValueOr0(prev, q))]
  /\ prev' = Put(prev, q, samples[r])
  /\ samples' = Restrict(samples, DOMAIN samples \ {r})
  /\ UNCHANGED <<view, executed, forgotten>>

Next ==
  \/ \E r \in Row : Execute(r)
  \/ \E rows \in SUBSET DOMAIN view : Forget(rows)
  \/ Poll
  \/ \E r \in DOMAIN samples : EmitRow(r)

Spec == Init /\ [][Next]_vars

-----------------------------------------------------------------------------
(* metrics.rs:56-58, "collector adds the *delta* since the previous poll": *)
(* the calls reported for a row never exceed its executions, whatever is   *)
(* evicted or reset.  True when each queryid has one row.                  *)
NeverOverstated == \A r \in Row : reported[r] <= executed[r]

(* No call is lost or reported twice unless Postgres itself dropped the    *)
(* row: what is reported and what is still to be reported add up.          *)
ExactUntilForgotten ==
  \A r \in Row \ forgotten :
    reported[r] + Delta(ValueOr0(view, r), ValueOr0(prev, QueryOf[r])) = executed[r]
=============================================================================
