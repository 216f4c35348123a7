----------------------------- MODULE EpisodeAlarm -----------------------------
(***************************************************************************)
(* What a "for N consecutive intervals" rule promises its operator, with   *)
(* no counter in sight.  The rule sees one verdict per interval and raises *)
(* one Finding per episode that lasts N intervals, at its N-th interval,   *)
(* and none otherwise.                                                     *)
(***************************************************************************)
EXTENDS Episodes

VARIABLES
  history,    \* the verdicts so far: history[i] iff interval i breached
  raised      \* the intervals at which a Finding was raised

vars == <<history, raised>>

Init == history = <<>> /\ raised = {}

Interval(breached) ==
  /\ history' = Append(history, breached)
  /\ raised' = FireInstants(history')

Next == \E breached \in BOOLEAN : Interval(breached)

Spec == Init /\ [][Next]_vars
=============================================================================
