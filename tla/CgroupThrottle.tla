---------------------------- MODULE CgroupThrottle ----------------------------
(***************************************************************************)
(* The cpu.cgroup.throttle rule: the polling loop and breach_value of      *)
(* pgsleuth-cli/src/cgroup_throttle.rs.                                    *)
(*                                                                         *)
(* The kernel adds to throttled_usec while an interval passes; at its end  *)
(* the loop reads cpu.stat, or fails to and skips the tick.  The cgroup    *)
(* may be recreated, its counters at zero, between any two reads.          *)
(***************************************************************************)
EXTENDS BreachCounter

CONSTANTS
  IntervalMs,      \* interval_ms
  ThresholdPerSec, \* throttled_ms_per_sec_threshold
  Throttling,      \* microseconds a cgroup can be throttled in one interval
  None,            \* no previous snapshot
  MaxIntervals     \* bound: intervals that pass

(* tokio's interval() refuses a period of zero. *)
ASSUME ThrottleAssumption ==
  /\ IntervalMs \in Nat \ {0}
  /\ ThresholdPerSec \in Nat
  /\ Throttling \subseteq Nat
  /\ None \notin Nat
  /\ MaxIntervals \in Nat

VARIABLES
  stat,        \* throttled_usec in cpu.stat
  prev,        \* the last one read, or None
  counter,     \* the rule's ConsecutiveBreachCounter
  findings,    \* the Findings handed to the emitter
  due,         \* a tick is due
  \* history, for the properties only
  intervals,   \* intervals passed
  throttled,   \* all the time the cgroup has been throttled
  since,       \* the part of it since the last good read
  spanned,     \* intervals since the last good read
  history,     \* the verdicts fed to the counter
  raised       \* the ticks at which a Finding was emitted

ruleVars == <<prev, counter, findings>>
gaps     == <<intervals, throttled, since, spanned>>
hist     == <<history, raised>>
vars == <<stat, ruleVars, due, gaps, hist>>

SaturatingSub(a, b) == IF a > b THEN a - b ELSE 0

(* breach_value: microseconds over milliseconds are ms per second.         *)
PerSec == SaturatingSub(stat, prev) \div IntervalMs

(* Mutant: the first snapshot is compared with zero. *)
BreachedFromZero ==
  (IF prev = None THEN stat ELSE SaturatingSub(stat, prev)) \div IntervalMs > ThresholdPerSec

(* The first good read has nothing to compare with and is no breach.       *)
Breached == prev # None /\ PerSec > ThresholdPerSec

(* The evidence of a Finding; for the properties, how many intervals the   *)
(* reading covers and the rate over all of them.                           *)
Finding(streak) ==
  [perSec |-> PerSec, streak |-> streak,
   spans  |-> spanned, trueRate |-> since \div (spanned * IntervalMs)]

Init ==
  /\ stat \in Throttling /\ prev = None
  /\ counter = Rearmed /\ findings = <<>>
  /\ due = FALSE
  /\ intervals = 0 /\ throttled = 0 /\ since = 0 /\ spanned = 0
  /\ history = <<>> /\ raised = {}

(* interval_ms pass, with the cgroup throttled for usec of them.           *)
(* MissedTickBehavior::Skip keeps one tick due, however many intervals a   *)
(* loop that was held up has missed.                                       *)
IntervalPasses(usec) ==
  /\ due' = TRUE
  /\ intervals < MaxIntervals
  /\ intervals' = intervals + 1 /\ spanned' = spanned + 1
  /\ stat' = stat + usec
  /\ throttled' = throttled + usec /\ since' = since + usec
  /\ UNCHANGED <<ruleVars, hist>>

(* The cgroup is removed and created again. *)
Recreated ==
  /\ stat' = 0
  /\ UNCHANGED <<ruleVars, due, gaps, hist>>

(* Mutant: a tick without a reading counts as a quiet one. *)
ReadFailsRearms ==
  /\ due /\ due' = FALSE
  /\ counter' = Rearmed
  /\ UNCHANGED <<stat, prev, findings, gaps, hist>>

(* read_cpu_stat fails: the tick is skipped, prev and the counter stay.    *)
ReadFails ==
  /\ due /\ due' = FALSE
  /\ UNCHANGED <<stat, ruleVars, gaps, hist>>

(* Mutant: prev is left behind when the rule fires. *)
TickKeepsPrev ==
  /\ due /\ due' = FALSE
  /\ counter' = Observe(counter, Breached)
  /\ findings' = IF JustFires(counter, Breached) /\ prev # None
                 THEN Append(findings, Finding(counter'.streak))
                 ELSE findings
  /\ prev' = IF Breached THEN prev ELSE stat
  /\ since' = 0 /\ spanned' = 0
  /\ history' = Append(history, Breached)
  /\ raised' = IF findings' = findings THEN raised ELSE raised \cup {Len(history) + 1}
  /\ UNCHANGED <<stat, intervals, throttled>>

(* The read succeeds: judge the interval, feed the counter, emit when it   *)
(* has just fired; a firing without a breach value would emit nothing.     *)
Tick ==
  /\ due /\ due' = FALSE
  /\ counter' = Observe(counter, Breached)
  /\ findings' = IF JustFires(counter, Breached) /\ prev # None
                 THEN Append(findings, Finding(counter'.streak))
                 ELSE findings
  /\ prev' = stat
  /\ since' = 0 /\ spanned' = 0
  /\ history' = Append(history, Breached)
  /\ raised' = IF findings' = findings THEN raised ELSE raised \cup {Len(history) + 1}
  /\ UNCHANGED <<stat, intervals, throttled>>

Next ==
  \/ \E usec \in Throttling : IntervalPasses(usec)
  \/ Recreated \/ ReadFails \/ Tick

Spec == Init /\ [][Next]_vars

-----------------------------------------------------------------------------
Alarm == INSTANCE EpisodeAlarm WITH N <- RunLength

(* The rule implements the abstract alarm over the ticks whose read        *)
(* succeeded: one Finding per run of fire_after breaching readings, at the *)
(* reading that completes it, however many failed reads lie between them;  *)
(* the first reading, or one after the cgroup was created again, re-arms.  *)
ImplementsEpisodeAlarm == Alarm!Spec

(* Every Finding is backed by RunLength readings whose throttled time      *)
(* exceeds the threshold and is counted once: time throttled before the    *)
(* agent started, or before a counter restarted, never fires the rule      *)
(* again, and skipped reads invent nothing.                                *)
FindingsBacked ==
  Len(findings) * RunLength * (ThresholdPerSec + 1) * IntervalMs <= throttled

(* The rate a Finding reports is not above the truth when its reading      *)
(* covers one interval, the case breach_value is written for.              *)
RateIsTrueWithoutGaps ==
  \A i \in 1 .. Len(findings) :
    findings[i].spans = 1 => findings[i].perSec <= findings[i].trueRate
=============================================================================
