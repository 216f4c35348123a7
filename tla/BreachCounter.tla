---------------------------- MODULE BreachCounter ----------------------------
(***************************************************************************)
(* ConsecutiveBreachCounter of pgsleuth-core/src/window.rs: the counter    *)
(* behind every "for N consecutive intervals" rule.  The fsync-jitter tick *)
(* of the loader, the cgroup-throttle loop and the connection-storm loop   *)
(* each own one and feed it one verdict per evaluated interval.            *)
(*                                                                         *)
(* The counter is a record [streak, fired]; Observe is the state change of *)
(* observe() and Verdict the BreachState it returns.                       *)
(***************************************************************************)
EXTENDS Naturals, Sequences

CONSTANTS
  FireAfter,    \* the rule's fire_after: "for N consecutive intervals"
  CounterMax    \* u32::MAX, where streak saturates

(* Both are u32, so the threshold is never above the saturation point. *)
ASSUME CounterAssumption ==
  /\ FireAfter \in Nat
  /\ CounterMax \in Nat \ {0}
  /\ FireAfter <= CounterMax

Counter == [streak : 0 .. CounterMax, fired : BOOLEAN]

(* ConsecutiveBreachCounter::default(), and what a non-breach leaves. *)
Rearmed == [streak |-> 0, fired |-> FALSE]

(* Mutant: `+= 1` instead of saturating_add. *)
PlainSucc(n) == n + 1

(* u32::saturating_add(1) *)
SaturatingSucc(n) == IF n < CounterMax THEN n + 1 ELSE CounterMax

(* Mutant: a non-breach forgets to clear fired_this_run. *)
ObserveKeepsFired(c, breached) ==
  IF breached
  THEN [streak |-> SaturatingSucc(c.streak),
        fired  |-> c.fired \/ SaturatingSucc(c.streak) >= FireAfter]
  ELSE [Rearmed EXCEPT !.fired = c.fired]

(* The counter after one interval whose value did (breached) or did not    *)
(* violate the rule's threshold.                                           *)
Observe(c, breached) ==
  IF breached
  THEN [streak |-> SaturatingSucc(c.streak),
        fired  |-> c.fired \/ SaturatingSucc(c.streak) >= FireAfter]
  ELSE Rearmed

(* Mutants: fire_after compared with `<=`; the latch not consulted. *)
VerdictOffByOne(c, breached) ==
  CASE ~breached -> "Reset"
    [] breached /\ SaturatingSucc(c.streak) <= FireAfter -> "Building"
    [] breached /\ SaturatingSucc(c.streak) > FireAfter -> IF c.streak > FireAfter THEN "StillFiring" ELSE "JustFired"
VerdictWithoutLatch(c, breached) ==
  CASE ~breached -> "Reset"
    [] breached /\ SaturatingSucc(c.streak) < FireAfter -> "Building"
    [] breached /\ SaturatingSucc(c.streak) >= FireAfter -> "JustFired"

(* The BreachState returned for that interval.  Only JustFired makes a     *)
(* caller build and emit a Finding.                                        *)
Verdict(c, breached) ==
  CASE ~breached                                   -> "Reset"
    [] breached /\ SaturatingSucc(c.streak) < FireAfter -> "Building"
    [] breached /\ SaturatingSucc(c.streak) >= FireAfter /\ c.fired -> "StillFiring"
    [] breached /\ SaturatingSucc(c.streak) >= FireAfter /\ ~c.fired -> "JustFired"

JustFires(c, breached) == Verdict(c, breached) = "JustFired"

(* The length of a run that fires: fire_after = 0 behaves like 1, since a  *)
(* breach has already made the streak 1 when it is compared.               *)
RunLength == IF FireAfter = 0 THEN 1 ELSE FireAfter

(* run is the length of the run of TRUE that ends the history h, or the    *)
(* saturation point when that run is at least as long: what a streak says  *)
(* of the verdicts it was fed.                                             *)
TrailingRun(h, run) ==
  /\ run \in 0 .. CounterMax
  /\ run <= Len(h)
  /\ \A i \in (Len(h) - run + 1) .. Len(h) : h[i]
  /\ run = CounterMax \/ run = Len(h) \/ ~h[Len(h) - run]
=============================================================================
