------------------------------- MODULE Episodes -------------------------------
(***************************************************************************)
(* Runs of breaching intervals.  A history is a sequence of verdicts, one  *)
(* per evaluated interval; an episode is a maximal run of TRUE in it.      *)
(***************************************************************************)
EXTENDS Naturals, Sequences

CONSTANT N    \* the intervals an episode must last to count, at least 1

(* Interval i is the N-th of an episode in the verdicts h. *)
CompletesRun(h, i) ==
  /\ i >= N
  /\ \A j \in (i - N + 1) .. i : h[j]
  /\ i = N \/ ~h[i - N]

FireInstants(h) == {i \in 1 .. Len(h) : CompletesRun(h, i)}
=============================================================================
