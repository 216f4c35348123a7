---------------------------- MODULE PollRuleProofs ----------------------------
(***************************************************************************)
(* Proofs about the agent's rules that poll: the cgroup-throttle rule, for *)
(* every interval, threshold, fire_after, set of throttled times and       *)
(* number of intervals, with reads failing and the cgroup created again at *)
(* any point; the connection-storm rule, with clients coming and going and *)
(* polls failing at any point; and the temp-spill capacity rule, for any   *)
(* files, with Postgres changing them during the walk.                     *)
(*                                                                         *)
(* The rules share no state; each has a specification of its own.          *)
(***************************************************************************)
EXTENDS CgroupThrottle, ConnectionStorm, TempSpill, RuleLemmas

-----------------------------------------------------------------------------
(* The inductive invariant of the cgroup-throttle rule.                    *)

(* What a Finding can carry. *)
Reading == [perSec : Nat, streak : 0 .. CounterMax, spans : Nat, trueRate : Nat]

TypeInv ==
  /\ stat \in Nat /\ prev \in Nat \cup {None}
  /\ counter \in Counter /\ findings \in Seq(Reading)
  /\ due \in BOOLEAN
  /\ intervals \in Nat /\ throttled \in Nat /\ since \in Nat /\ spanned \in Nat
  /\ due => spanned >= 1

LatchInv == counter.fired <=> counter.streak >= RunLength

(* The difference the next tick computes is time throttled since the last  *)
(* good read: what was counted before is never counted again.              *)
DeltaInv == prev # None => SaturatingSub(stat, prev) <= since

(* Throttled time pays for breaches and breaches pay for Findings: a       *)
(* breach costs Unit, the least throttled time that exceeds the threshold. *)
Unit == (ThresholdPerSec + 1) * IntervalMs
Building == IF counter.fired THEN 0 ELSE counter.streak
Spent == (Len(findings) * RunLength) * Unit
BackingInv == Spent + Building * Unit + since <= throttled

(* The streak is the run of breaches that ends now, and the Findings came  *)
(* out at the readings the alarm names.                                    *)
HistInv ==
  /\ history \in Seq(BOOLEAN)
  /\ TrailingRun(history, counter.streak)
  /\ raised = E!FireInstants(history)

IInv ==
  TypeInv /\ LatchInv /\ DeltaInv /\ BackingInv /\ HistInv /\ RateIsTrueWithoutGaps

-----------------------------------------------------------------------------
(* A reading that breaches has at least Unit of throttled time, and        *)
(* reports no more than it has.                                            *)
LEMMA BreachCosts ==
  ASSUME NEW d \in Nat
  PROVE  d \div IntervalMs \in Nat /\ (d \div IntervalMs > ThresholdPerSec => Unit <= d)
<1> DEFINE q == d \div IntervalMs
<1>1. IntervalMs \in Nat \ {0} /\ ThresholdPerSec \in Nat
  BY ThrottleAssumption
<1>2. q \in Nat /\ q * IntervalMs <= d
  BY <1>1, DivBounds
<1> HIDE DEF q
<1>3. ASSUME q > ThresholdPerSec PROVE Unit <= d
  <2>1. /\ (ThresholdPerSec + 1) * IntervalMs <= q * IntervalMs
        /\ (ThresholdPerSec + 1) * IntervalMs \in Nat /\ q * IntervalMs \in Nat
    BY <1>1, <1>2, <1>3, TimesMonotone
  <2>2. QED
    BY <1>2, <2>1 DEF Unit
<1>4. QED
  BY <1>2, <1>3 DEF q

LEMMA Sizes ==
  ASSUME TypeInv
  PROVE  /\ Unit \in Nat /\ RunLength \in Nat /\ Len(findings) \in Nat
         /\ Len(findings) * RunLength \in Nat /\ Spent \in Nat
         /\ Building \in Nat /\ Building * Unit \in Nat
         /\ counter.streak \in 0 .. CounterMax /\ counter.streak \in Nat
         /\ counter.fired \in BOOLEAN
<1>1. /\ ThresholdPerSec + 1 \in Nat /\ IntervalMs \in Nat /\ RunLength \in Nat
      /\ Len(findings) \in Nat
      /\ counter.streak \in 0 .. CounterMax /\ counter.streak \in Nat
      /\ counter.fired \in BOOLEAN
  BY ThrottleAssumption, CounterAssumption, RunLengthFacts DEF TypeInv, Counter
<1>2. Unit \in Nat /\ Len(findings) * RunLength \in Nat /\ Building \in Nat
  BY <1>1, TimesMonotone DEF Unit, Building
<1>3. QED
  BY <1>1, <1>2, TimesMonotone DEF Spent

LEMMA InitIInv == Init => IInv
<1> SUFFICES ASSUME Init PROVE IInv
  OBVIOUS
<1>1. /\ counter \in Counter /\ counter.streak = 0 /\ counter.fired = FALSE
  BY CounterAssumption DEF Init, Rearmed, Counter
<1>2. TypeInv
  <2>1. findings \in Seq(Reading) /\ stat \in Nat
    BY ThrottleAssumption DEF Init
  <2>2. QED
    BY <1>1, <2>1 DEF Init, TypeInv
<1>3. LatchInv /\ DeltaInv
  BY <1>1, RunLengthFacts DEF Init, LatchInv, DeltaInv
<1>4. BackingInv
  <2>1. Unit \in Nat /\ RunLength \in Nat
    BY <1>2, Sizes
  <2>2. Len(findings) = 0 /\ Building = 0 /\ since = 0 /\ throttled = 0
    BY <1>1 DEF Init, Building
  <2>3. 0 * RunLength = 0 /\ 0 * Unit = 0
    BY <2>1
  <2>4. QED
    BY <2>2, <2>3 DEF BackingInv, Spent
<1>5. HistInv
  <2>1. TrailingRun(<<>>, 0) /\ E!FireInstants(<<>>) = {}
    BY CounterAssumption DEF TrailingRun, E!FireInstants
  <2>2. history \in Seq(BOOLEAN)
    BY DEF Init
  <2>3. QED
    BY <1>1, <2>1, <2>2 DEF Init, HistInv
<1>6. RateIsTrueWithoutGaps
  BY DEF Init, RateIsTrueWithoutGaps
<1>7. QED
  BY <1>2, <1>3, <1>4, <1>5, <1>6 DEF IInv

(* What the rule keeps, unless it runs. *)
LEMMA RuleIdle ==
  ASSUME IInv, UNCHANGED <<prev, counter, findings, history, raised>>
  PROVE  LatchInv' /\ HistInv' /\ RateIsTrueWithoutGaps' /\ Spent' = Spent /\ Building' = Building
BY DEF IInv, LatchInv, HistInv, RateIsTrueWithoutGaps, Spent, Building, Unit

(* Throttled time is added to the counter and to the account alike. *)
LEMMA IntervalIInv ==
  ASSUME IInv, NEW usec \in Throttling, IntervalPasses(usec)
  PROVE  IInv'
<1>1. /\ UNCHANGED <<prev, counter, findings, history, raised>>
      /\ due' = TRUE /\ intervals' = intervals + 1 /\ spanned' = spanned + 1
      /\ stat' = stat + usec /\ throttled' = throttled + usec /\ since' = since + usec
      /\ usec \in Nat
  BY ThrottleAssumption DEF IntervalPasses, ruleVars, hist
<1>2. TypeInv
  BY DEF IInv
<1>3. TypeInv'
  BY <1>1, <1>2 DEF TypeInv
<1>4. DeltaInv'
  BY <1>1, <1>2 DEF IInv, TypeInv, DeltaInv, SaturatingSub
<1>5. BackingInv'
  <2>1. Spent + Building * Unit + since <= throttled
    BY DEF IInv, BackingInv
  <2>2. Spent' = Spent /\ Building' = Building
    BY <1>1, RuleIdle
  <2>3. Spent + Building * Unit + (since + usec) <= throttled + usec
    <3> DEFINE paid == Spent + Building * Unit
    <3>1. paid \in Nat
      BY <1>2, Sizes
    <3>2. since \in Nat /\ throttled \in Nat
      BY <1>2 DEF TypeInv
    <3>3. paid + since <= throttled
      BY <2>1
    <3> HIDE DEF paid
    <3>4. paid + (since + usec) <= throttled + usec
      BY <1>1, <3>1, <3>2, <3>3
    <3>5. QED
      BY <3>4 DEF paid
  <2>4. QED
    BY <1>1, <2>2, <2>3 DEF BackingInv, Unit
<1>6. QED
  BY <1>1, <1>3, <1>4, <1>5, RuleIdle DEF IInv

(* A failed read, and a cgroup that starts again at zero. *)
LEMMA IdleIInv == IInv /\ (Recreated \/ ReadFails \/ UNCHANGED vars) => IInv'
<1> SUFFICES ASSUME IInv, Recreated \/ ReadFails \/ UNCHANGED vars PROVE IInv'
  OBVIOUS
<1>1. /\ UNCHANGED <<prev, counter, findings, history, raised>>
      /\ UNCHANGED <<intervals, throttled, since, spanned>>
      /\ stat' = stat \/ stat' = 0
      /\ due' = due \/ due' = FALSE
  BY DEF Recreated, ReadFails, vars, ruleVars, gaps, hist
<1>2. TypeInv' /\ DeltaInv'
  <2>1. TypeInv'
    <3>1. TypeInv /\ stat' \in Nat
      BY <1>1 DEF IInv, TypeInv
    <3>2. due' \in BOOLEAN /\ (due' => spanned' >= 1)
      <4>1. CASE due' = due
        BY <1>1, <3>1, <4>1 DEF TypeInv
      <4>2. CASE due' = FALSE
        BY <4>2
      <4>3. QED
        BY <1>1, <4>1, <4>2
    <3>3. QED
      BY <1>1, <3>1, <3>2 DEF TypeInv
  <2>2. CASE stat' = stat
    BY <1>1, <2>1, <2>2 DEF IInv, DeltaInv, SaturatingSub
  <2>3. CASE stat' = 0
    <3>1. prev # None => prev \in Nat /\ SaturatingSub(0, prev) = 0
      BY DEF IInv, TypeInv, SaturatingSub
    <3>2. since \in Nat
      BY DEF IInv, TypeInv
    <3>3. QED
      BY <1>1, <2>1, <2>3, <3>1, <3>2 DEF DeltaInv, SaturatingSub
  <2>4. QED
    BY <1>1, <2>2, <2>3
<1>3. BackingInv'
  BY <1>1, RuleIdle DEF IInv, BackingInv, Unit
<1>4. QED
  BY <1>1, <1>2, <1>3, RuleIdle DEF IInv

(* A tick with a reading: a breach has Unit of throttled time of its own   *)
(* to spend, and a Finding spends the RunLength breaches of its run.       *)
LEMMA TickIInv == IInv /\ Tick => IInv' /\ Alarm!Next
<1> SUFFICES ASSUME IInv, Tick PROVE IInv' /\ Alarm!Next
  OBVIOUS
<1>1. PICK b : b = Breached
  OBVIOUS
<1>2. PICK r : r = Finding(counter'.streak)
  OBVIOUS
<1>3. /\ due /\ due' = FALSE
      /\ counter' = Observe(counter, b)
      /\ findings' = IF JustFires(counter, b) /\ prev # None
                     THEN Append(findings, r) ELSE findings
      /\ prev' = stat /\ since' = 0 /\ spanned' = 0
      /\ history' = Append(history, b)
      /\ raised' = IF findings' = findings THEN raised ELSE raised \cup {Len(history) + 1}
      /\ UNCHANGED <<stat, intervals, throttled>>
  BY <1>1, <1>2 DEF Tick
<1>4. /\ TypeInv /\ LatchInv /\ DeltaInv /\ BackingInv /\ HistInv
      /\ RateIsTrueWithoutGaps
  BY DEF IInv
<1>5. /\ b \in BOOLEAN
      /\ b => /\ prev # None /\ prev \in Nat /\ Unit <= since
              /\ PerSec \in Nat /\ (SaturatingSub(stat, prev) \in Nat)
  <2>1. b \in BOOLEAN
    BY <1>1 DEF Breached
  <2>2. ASSUME b PROVE /\ prev # None /\ prev \in Nat /\ Unit <= since
                       /\ PerSec \in Nat /\ (SaturatingSub(stat, prev) \in Nat)
    <3>1. prev # None /\ prev \in Nat /\ PerSec > ThresholdPerSec
      BY <1>1, <1>4, <2>2 DEF Breached, TypeInv
    <3>2. SaturatingSub(stat, prev) \in Nat
      BY <1>4, <3>1 DEF TypeInv, SaturatingSub
    <3>3. Unit <= SaturatingSub(stat, prev) /\ PerSec \in Nat
      BY <3>1, <3>2, BreachCosts DEF PerSec
    <3>4. QED
      BY <1>4, <3>1, <3>2, <3>3, Sizes DEF DeltaInv, TypeInv
  <2>3. QED
    BY <2>1, <2>2
<1>6. /\ counter' \in Counter
      /\ counter'.fired <=> counter'.streak >= RunLength
      /\ counter'.streak <= counter.streak + 1
      /\ ~b => counter'.streak = 0
      /\ counter.fired /\ b => counter'.fired
      /\ JustFires(counter, b) <=> b /\ ~counter.fired /\ counter'.fired
      /\ JustFires(counter, b) => counter.streak = RunLength - 1 /\ counter'.streak = RunLength
  BY <1>3, <1>4, <1>5, ObserveFacts DEF TypeInv, LatchInv
<1>7. /\ counter'.streak \in 0 .. CounterMax /\ counter'.streak \in Nat
      /\ counter'.fired \in BOOLEAN
  BY <1>6, CounterAssumption DEF Counter
<1>8. findings' = IF JustFires(counter, b) THEN Append(findings, r) ELSE findings
  BY <1>3, <1>5, <1>6
<1>9. b => r \in Reading /\ (r.spans = 1 => r.perSec <= r.trueRate)
  <2>1. SUFFICES ASSUME b PROVE r \in Reading /\ (r.spans = 1 => r.perSec <= r.trueRate)
    OBVIOUS
  <2>2. /\ IntervalMs \in Nat \ {0} /\ spanned \in Nat \ {0} /\ since \in Nat
    BY <1>3, <1>4, ThrottleAssumption DEF TypeInv
  <2>3. spanned * IntervalMs \in Nat \ {0} /\ 1 * IntervalMs = IntervalMs
    BY <2>2
  <2>4. since \div (spanned * IntervalMs) \in Nat
    BY <2>2, <2>3, DivBounds
  <2>5. SaturatingSub(stat, prev) \div IntervalMs <= since \div IntervalMs
    BY <1>4, <1>5, <2>1, <2>2, DivMonotone DEF DeltaInv
  <2>6. r = [perSec |-> PerSec, streak |-> counter'.streak, spans |-> spanned,
             trueRate |-> since \div (spanned * IntervalMs)]
    BY <1>2 DEF Finding
  <2>7. r \in Reading
    BY <1>5, <1>7, <2>1, <2>2, <2>4, <2>6 DEF Reading
  <2>8. r.spans = 1 => r.perSec <= r.trueRate
    BY <2>3, <2>5, <2>6 DEF PerSec
  <2>9. QED
    BY <2>7, <2>8
<1>10. /\ findings' \in Seq(Reading)
       /\ Len(findings') = IF JustFires(counter, b) THEN Len(findings) + 1 ELSE Len(findings)
       /\ findings' = findings <=> ~JustFires(counter, b)
  BY <1>4, <1>6, <1>8, <1>9 DEF TypeInv
<1>11. TypeInv'
  BY <1>3, <1>4, <1>6, <1>10 DEF TypeInv
<1>12. LatchInv' /\ DeltaInv'
  BY <1>3, <1>4, <1>6 DEF LatchInv, DeltaInv, SaturatingSub, TypeInv
<1>13. RateIsTrueWithoutGaps'
  <2>1. SUFFICES ASSUME NEW i \in 1 .. Len(findings'), findings'[i].spans = 1
                 PROVE  findings'[i].perSec <= findings'[i].trueRate
    BY DEF RateIsTrueWithoutGaps
  <2>2. CASE i \in 1 .. Len(findings)
    <3>1. findings'[i] = findings[i]
      BY <1>4, <1>8, <2>2 DEF TypeInv
    <3>2. QED
      BY <1>4, <2>1, <2>2, <3>1 DEF RateIsTrueWithoutGaps
  <2>3. CASE i \notin 1 .. Len(findings)
    <3>1. JustFires(counter, b) /\ findings'[i] = r
      BY <1>4, <1>8, <1>10, <2>1, <2>3, Sizes DEF TypeInv
    <3>2. QED
      BY <1>6, <1>9, <2>1, <3>1
  <2>4. QED
    BY <2>2, <2>3
<1>14. BackingInv'
  <2>. DEFINE B == Building * Unit
  <2>1. /\ Spent \in Nat /\ B \in Nat /\ Unit \in Nat /\ Building \in Nat
        /\ RunLength \in Nat /\ Len(findings) \in Nat /\ Len(findings) * RunLength \in Nat
        /\ since \in Nat /\ throttled \in Nat
    BY <1>4, Sizes DEF TypeInv
  <2>2. Spent + B + since <= throttled
    BY <1>4 DEF BackingInv
  <2>3. Unit' = Unit
    BY DEF Unit
  <2>4. CASE JustFires(counter, b)
    <3>1. Spent' = Spent + RunLength * Unit /\ RunLength * Unit \in Nat
      <4>1. (Len(findings) + 1) * RunLength = Len(findings) * RunLength + RunLength
        BY <2>1, TimesSucc
      <4>2. (Len(findings) * RunLength + RunLength) * Unit
              = (Len(findings) * RunLength) * Unit + RunLength * Unit
        BY <2>1
      <4>3. QED
        BY <1>10, <2>1, <2>3, <2>4, <4>1, <4>2, TimesMonotone DEF Spent
    <3>2. Building' = 0 /\ RunLength = Building + 1
      BY <1>6, <2>1, <2>4, <1>4, Sizes DEF Building
    <3>3. RunLength * Unit = B + Unit /\ 0 * Unit = 0
      BY <2>1, <3>2, TimesSucc
    <3>4. Unit <= since
      BY <1>5, <1>6, <2>4
    <3>5. QED
      BY <1>3, <2>1, <2>2, <2>3, <3>1, <3>2, <3>3, <3>4 DEF BackingInv
  <2>5. CASE ~JustFires(counter, b)
    <3>1. Spent' = Spent
      BY <1>10, <2>3, <2>5 DEF Spent
    <3>2. Building' * Unit <= B + since /\ Building' * Unit \in Nat
      <4>1. CASE b
        <5>1. Building' \in Nat /\ Building' <= Building + 1
          BY <1>4, <1>6, <1>7, <2>5, <4>1, Sizes DEF Building
        <5>2. Building' * Unit <= (Building + 1) * Unit /\ Building' * Unit \in Nat
          <6>1. Building + 1 \in Nat
            BY <2>1
          <6>2. QED
            BY <2>1, <5>1, <6>1, TimesMonotone
        <5>3. (Building + 1) * Unit = B + Unit
          BY <2>1, TimesSucc
        <5>4. QED
          BY <1>5, <2>1, <4>1, <5>2, <5>3
      <4>2. CASE ~b
        <5>1. Building' = 0 /\ 0 * Unit = 0
          BY <1>6, <2>1, <4>2 DEF Building
        <5>2. QED
          BY <2>1, <5>1
      <4>3. QED
        BY <1>5, <4>1, <4>2
    <3>3. QED
      BY <1>3, <2>1, <2>2, <2>3, <3>1, <3>2 DEF BackingInv
  <2>6. QED
    BY <2>4, <2>5
<1>15. HistInv'
  <2>1. /\ history' \in Seq(BOOLEAN)
        /\ TrailingRun(history', counter'.streak)
        /\ E!FireInstants(history') =
             E!FireInstants(history) \cup (IF JustFires(counter, b) THEN {Len(history) + 1} ELSE {})
    BY <1>3, <1>4, <1>5, AlarmStep DEF HistInv, TypeInv, LatchInv
  <2>2. QED
    BY <1>3, <1>4, <1>10, <2>1 DEF HistInv
<1>16. Alarm!Next
  <2>1. raised' = Alarm!FireInstants(history')
    BY <1>15 DEF HistInv, Alarm!FireInstants, Alarm!CompletesRun,
                 E!FireInstants, E!CompletesRun
  <2>2. QED
    BY <1>3, <1>5, <2>1 DEF Alarm!Next, Alarm!Interval
<1>17. QED
  BY <1>11, <1>12, <1>13, <1>14, <1>15, <1>16 DEF IInv

(* Every step keeps the invariant, and is a step of the alarm or leaves    *)
(* its variables alone.                                                    *)
LEMMA NextIInv == IInv /\ [Next]_vars => IInv' /\ [Alarm!Next]_(Alarm!vars)
<1> SUFFICES ASSUME IInv, [Next]_vars PROVE IInv' /\ [Alarm!Next]_(Alarm!vars)
  OBVIOUS
<1>1. CASE Tick
  BY <1>1, TickIInv
<1>2. ASSUME NEW usec \in Throttling, IntervalPasses(usec)
      PROVE  IInv' /\ [Alarm!Next]_(Alarm!vars)
  BY <1>2, IntervalIInv DEF IntervalPasses, hist, Alarm!vars
<1>3. CASE Recreated \/ ReadFails \/ UNCHANGED vars
  BY <1>3, IdleIInv DEF Recreated, ReadFails, vars, hist, Alarm!vars
<1>4. QED
  BY <1>1, <1>2, <1>3 DEF Next

-----------------------------------------------------------------------------
(* The inductive invariant holds of every behaviour of the rule.           *)
THEOREM Invariance == Spec => []IInv
BY InitIInv, NextIInv, PTL DEF Spec

(* Every Finding is backed by RunLength readings of throttled time counted *)
(* once, whatever reads fail and however often the cgroup is created again *)
(* (breach_value and the loop of cgroup_throttle.rs).                      *)
THEOREM ThrottlingBacksFindings == Spec => []FindingsBacked
<1>1. IInv => FindingsBacked
  <2> SUFFICES ASSUME IInv PROVE FindingsBacked
    OBVIOUS
  <2>1. TypeInv /\ BackingInv
    BY DEF IInv
  <2>2. /\ Len(findings) * RunLength \in Nat /\ ThresholdPerSec + 1 \in Nat /\ IntervalMs \in Nat
    BY <2>1, Sizes, ThrottleAssumption
  <2>3. ((Len(findings) * RunLength) * (ThresholdPerSec + 1)) * IntervalMs = Spent
    BY <2>2 DEF Spent, Unit
  <2>4. Spent <= throttled
    BY <2>1, Sizes DEF BackingInv, TypeInv
  <2>5. QED
    BY <2>3, <2>4 DEF FindingsBacked
<1>2. QED
  BY <1>1, Invariance, PTL

(* The rate of a Finding is not above the truth when its reading covers    *)
(* one interval (breach_value's division by interval_ms).                  *)
THEOREM RateTrue == Spec => []RateIsTrueWithoutGaps
<1>1. IInv => RateIsTrueWithoutGaps
  BY DEF IInv
<1>2. QED
  BY <1>1, Invariance, PTL

(* The rule implements the abstract alarm over the readings that succeed,  *)
(* for every fire_after and any number of failed reads in between.         *)
THEOREM ThrottleImplementsAlarm == Spec => ImplementsEpisodeAlarm
<1>1. Init => Alarm!Init
  BY DEF Init, Alarm!Init
<1>2. IInv /\ [Next]_vars => [Alarm!Next]_(Alarm!vars)
  BY NextIInv
<1>3. QED
  BY <1>1, <1>2, Invariance, PTL DEF Spec, Alarm!Spec, ImplementsEpisodeAlarm

-----------------------------------------------------------------------------
(* The connection-storm rule.                                              *)

(* While a storm that was reported lasts, the latch is set, and the count  *)
(* a poll still has to judge was taken in that storm.                      *)
StormInv ==
  /\ stormCounter \in Counter
  /\ stormCounter.fired <=> stormCounter.streak >= RunLength
  /\ calm \in BOOLEAN
  /\ query \in 0 .. 4
  /\ backends \in 0 .. MaxBackends /\ counted \in 0 .. MaxBackends
  /\ ~calm => /\ Crowded(backends) /\ stormCounter.fired
              /\ query \in 2 .. 4 => Crowded(counted)

(* While the history is kept the streak is the run of crowded counts that  *)
(* ends it, and the Findings came out at the polls the alarm names.        *)
PollsInv ==
  /\ judged \in Seq(BOOLEAN)
  /\ Len(judged) < MaxJudged => TrailingRun(judged, stormCounter.streak)
  /\ reports = E!FireInstants(judged)

LEMMA InitStormInv == StormInit => StormInv
<1>1. Rearmed \in Counter /\ Rearmed.streak = 0 /\ Rearmed.fired = FALSE
  BY CounterAssumption DEF Rearmed, Counter
<1>2. QED
  BY <1>1, RunLengthFacts, StormAssumption DEF StormInit, StormInv

LEMMA InitPollsInv == StormInit => PollsInv /\ StormAlarm!Init
<1>1. TrailingRun(<<>>, 0) /\ E!FireInstants(<<>>) = {}
  BY CounterAssumption DEF TrailingRun, E!FireInstants
<1>2. Rearmed.streak = 0
  BY DEF Rearmed
<1>3. QED
  BY <1>1, <1>2 DEF StormInit, PollsInv, StormAlarm!Init

(* The steps that judge nothing emit nothing; a storm that has been        *)
(* reported ends with the client that leaves it.                           *)
LEMMA QuietStormInv ==
  ASSUME StormInv,
         \/ ClientComesOrGoes \/ ConnectionLost \/ TimerElapses
         \/ BeginPoll \/ CountAnswered \/ GroupingAnswered(2)
         \/ GroupingAnswered(3) \/ QueryFails \/ UNCHANGED stormVars
  PROVE  /\ StormInv' /\ (UNCHANGED stormVars \/ finding' = NoFinding)
         /\ UNCHANGED <<stormCounter, judged, reports>>
<1> USE DEF StormInv, Crowded, polls
<1>1. CASE ClientComesOrGoes
  BY <1>1 DEF ClientComesOrGoes, pollVars
<1>2. CASE ConnectionLost
  BY <1>2 DEF ConnectionLost, pollVars
<1>3. CASE TimerElapses
  BY <1>3 DEF TimerElapses
<1>4. CASE BeginPoll
  BY <1>4 DEF BeginPoll
<1>5. CASE CountAnswered
  BY <1>5 DEF CountAnswered
<1>6. CASE GroupingAnswered(2) \/ GroupingAnswered(3)
  BY <1>6 DEF GroupingAnswered
<1>7. CASE QueryFails
  BY <1>7 DEF QueryFails, Queries
<1>8. CASE UNCHANGED stormVars
  BY <1>8 DEF stormVars, pollVars
<1>9. QED
  BY <1>1, <1>2, <1>3, <1>4, <1>5, <1>6, <1>7, <1>8

(* The poll that is judged: the rule fires only when the latch is off, and *)
(* then no reported storm is going on.                                     *)
LEMMA EvaluateStormInv ==
  ASSUME StormInv, Evaluate
  PROVE  StormInv' /\ (finding' # NoFinding => calm)
<1>1. PICK b \in BOOLEAN : b <=> Crowded(counted)
  OBVIOUS
<1>2. b = Crowded(counted)
  BY <1>1 DEF Crowded
<1>3. /\ query = 4 /\ query' = 0
      /\ stormCounter' = Observe(stormCounter, b)
      /\ finding' # NoFinding => JustFires(stormCounter, b)
      /\ calm' = IF JustFires(stormCounter, b) THEN ~Crowded(backends) ELSE calm
      /\ UNCHANGED <<backends, counted>>
  BY <1>2 DEF Evaluate
<1>4. /\ stormCounter' \in Counter
      /\ stormCounter'.fired <=> stormCounter'.streak >= RunLength
      /\ stormCounter.fired /\ b => stormCounter'.fired
      /\ JustFires(stormCounter, b) <=> b /\ ~stormCounter.fired /\ stormCounter'.fired
  BY <1>3, ObserveFacts DEF StormInv
<1>5. calm' \in BOOLEAN
  BY <1>3 DEF StormInv, Crowded
<1>6. ASSUME ~calm' PROVE Crowded(backends') /\ stormCounter'.fired
  <2>1. CASE JustFires(stormCounter, b)
    BY <1>3, <1>4, <1>6, <2>1 DEF Crowded
  <2>2. CASE ~JustFires(stormCounter, b)
    BY <1>1, <1>3, <1>4, <1>6, <2>2 DEF StormInv, Crowded
  <2>3. QED
    BY <2>1, <2>2
<1>7. finding' # NoFinding => calm
  BY <1>3, <1>4 DEF StormInv
<1>8. QED
  BY <1>3, <1>4, <1>5, <1>6, <1>7 DEF StormInv

(* One storm, one Finding, for every threshold, fire_after and number of   *)
(* clients: the rule fires again only after the server has been within the *)
(* threshold, whatever polls fail in between (connection_storm.rs, the     *)
(* skipped tick; window.rs, the latch).                                    *)
THEOREM OncePerStorm == StormSpec => OneFindingPerStorm
<1>1. StormInv /\ [StormNext]_stormVars
        => StormInv' /\ [finding' # NoFinding => calm]_stormVars
  BY QuietStormInv, EvaluateStormInv DEF StormNext, StormTick
<1>2. QED
  BY <1>1, InitStormInv, PTL DEF StormSpec, OneFindingPerStorm

(* A poll that judges nothing is a stutter of the alarm. *)
LEMMA QuietPolls ==
  ASSUME PollsInv, UNCHANGED <<stormCounter, judged, reports>>
  PROVE  PollsInv' /\ UNCHANGED StormAlarm!vars
BY DEF PollsInv, StormAlarm!vars

(* The poll that is judged is an interval of the alarm, as long as the     *)
(* history is kept, and a stutter after that.                              *)
LEMMA EvaluatePolls ==
  ASSUME StormInv, PollsInv, Evaluate
  PROVE  PollsInv' /\ [StormAlarm!Next]_StormAlarm!vars
<1>1. PICK b \in BOOLEAN : b <=> Crowded(counted)
  OBVIOUS
<1>2. b = Crowded(counted)
  BY <1>1 DEF Crowded
<1>3. /\ stormCounter' = Observe(stormCounter, b)
      /\ finding' = IF JustFires(stormCounter, b)
                    THEN [backends |-> counted, streak |-> stormCounter'.streak] ELSE NoFinding
      /\ Judge(b)
  BY <1>2 DEF Evaluate
<1>4. finding' = NoFinding <=> ~JustFires(stormCounter, b)
  <2>1. stormCounter' \in Counter
    BY <1>3, ObserveFacts DEF StormInv
  <2>2. counted \in 0 .. MaxBackends /\ stormCounter'.streak \in 0 .. CounterMax
    BY <2>1 DEF StormInv, Counter
  <2>3. NoFinding # [backends |-> counted, streak |-> stormCounter'.streak]
    BY <2>2, StormAssumption
  <2>4. QED
    BY <1>3, <2>3
<1>5. judged \in Seq(BOOLEAN) /\ Len(judged) \in Nat /\ MaxJudged \in Nat
  BY StormAssumption DEF PollsInv
<1>6. CASE Len(judged) < MaxJudged
  <2>1. /\ judged' = Append(judged, b)
        /\ reports' = IF JustFires(stormCounter, b) THEN reports \cup {Len(judged) + 1}
                      ELSE reports
    BY <1>3, <1>4, <1>6 DEF Judge
  <2>2. /\ judged' \in Seq(BOOLEAN)
        /\ TrailingRun(judged', stormCounter'.streak)
        /\ E!FireInstants(judged') =
             E!FireInstants(judged)
               \cup (IF JustFires(stormCounter, b) THEN {Len(judged) + 1} ELSE {})
    BY <1>3, <1>5, <1>6, <2>1, AlarmStep DEF StormInv, PollsInv
  <2>3. reports' = E!FireInstants(judged')
    BY <2>1, <2>2 DEF PollsInv
  <2>4. PollsInv'
    BY <2>2, <2>3 DEF PollsInv
  <2>5. reports' = StormAlarm!FireInstants(judged')
    BY <2>3 DEF StormAlarm!FireInstants, StormAlarm!CompletesRun,
                E!FireInstants, E!CompletesRun
  <2>6. QED
    BY <2>1, <2>4, <2>5 DEF StormAlarm!Next, StormAlarm!Interval
<1>7. CASE ~(Len(judged) < MaxJudged)
  <2>1. UNCHANGED <<judged, reports>>
    BY <1>3, <1>7 DEF Judge, polls
  <2>2. QED
    BY <1>7, <2>1 DEF PollsInv, StormAlarm!vars
<1>8. QED
  BY <1>6, <1>7

(* The rule implements the abstract alarm over the polls that succeed, for *)
(* every threshold, fire_after and saturation point and however many polls *)
(* are looked at: the Findings are exactly at the polls that complete a    *)
(* run of fire_after crowded counts, and failed polls neither extend nor   *)
(* end a run (connection_storm.rs, the skipped tick; window.rs, observe).  *)
THEOREM StormImplementsAlarm == StormSpec => OneFindingPerRun
<1>1. StormInv /\ PollsInv /\ [StormNext]_stormVars
        => StormInv' /\ PollsInv' /\ [StormAlarm!Next]_StormAlarm!vars
  BY QuietStormInv, EvaluateStormInv, QuietPolls, EvaluatePolls DEF StormNext, StormTick
<1>2. QED
  BY <1>1, InitStormInv, InitPollsInv, PTL DEF StormSpec, OneFindingPerRun, StormAlarm!Spec

-----------------------------------------------------------------------------
(* Sums of file sizes.                                                     *)

(* The sum of the sizes of a set of files, as the fold defines it. *)
First(d) == CHOOSE x \in d : TRUE
Sums(s, S, g) ==
  g = [d \in S |-> IF d = {} THEN 0 ELSE s[First(d)] + g[d \ {First(d)}]]
SumOver(s, S) == (CHOOSE g : Sums(s, SUBSET S, g))[S]

LEMMA FirstFacts ==
  ASSUME NEW S, IsFiniteSet(S), NEW d \in SUBSET S, d # {}
  PROVE  /\ First(d) \in d /\ d \ {First(d)} \in SUBSET S
         /\ d \ {First(d)} # d
         /\ IsFiniteSet(d) /\ Cardinality(d) \in Nat
         /\ Cardinality(d \ {First(d)}) = Cardinality(d) - 1
<1>1. First(d) \in d
  BY DEF First
<1>2. IsFiniteSet(d) /\ Cardinality(d) \in Nat
  BY FS_Subset, FS_CardinalityType
<1>3. QED
  BY <1>1, <1>2, FS_RemoveElement

(* The recursion of the fold has a solution, by induction on the size of   *)
(* the sets it reaches.                                                    *)
LEMMA SumExists ==
  ASSUME NEW s, NEW S, IsFiniteSet(S)
  PROVE  \E g : Sums(s, SUBSET S, g)
<1> DEFINE Level(n) == {d \in SUBSET S : Cardinality(d) <= n}
           Bad == {n \in Nat : ~\E g : Sums(s, Level(n), g)}
<1>1. Bad = {}
  <2>1. SUFFICES ASSUME Bad # {} PROVE FALSE
    OBVIOUS
  <2>2. PICK n \in Bad : \A m \in Bad : n <= m
    BY <2>1, LeastNat
  <2>3. n \in Nat /\ ~\E g : Sums(s, Level(n), g)
    BY <2>2
  <2>4. CASE n = 0
    <3> DEFINE g == [d \in Level(n) |-> 0]
    <3>1. \A d \in Level(n) : d = {}
      <4>1. ASSUME NEW d \in SUBSET S, Cardinality(d) <= 0 PROVE d = {}
        <5>1. IsFiniteSet(d) /\ Cardinality(d) \in Nat
          BY FS_Subset, FS_CardinalityType
        <5>2. Cardinality(d) = 0
          BY <4>1, <5>1
        <5>3. QED
          BY <5>1, <5>2, FS_EmptySet
      <4>2. QED
        BY <2>4, <4>1
    <3>2. Sums(s, Level(n), g)
      <4> HIDE DEF Level
      <4>1. QED
        BY <3>1 DEF Sums
    <3>3. QED
      BY <2>3, <3>2
  <2>5. CASE n # 0
    <3>1. n - 1 \in Nat /\ ~(n <= n - 1)
      BY <2>3, <2>5
    <3>2. n - 1 \notin Bad
      BY <2>2, <3>1
    <3>3. PICK h : Sums(s, Level(n - 1), h)
      BY <3>1, <3>2
    <3> DEFINE g == [d \in Level(n) |->
                       IF d = {} THEN 0 ELSE s[First(d)] + h[d \ {First(d)}]]
    <3>4. ASSUME NEW d \in Level(n), d # {}
          PROVE  h[d \ {First(d)}] = g[d \ {First(d)}]
      <4> DEFINE e == d \ {First(d)}
      <4>1. e \in SUBSET S /\ Cardinality(e) = Cardinality(d) - 1 /\ Cardinality(d) \in Nat
        BY <3>4, FirstFacts
      <4>2. e \in Level(n - 1) /\ e \in Level(n)
        BY <2>3, <4>1
      <4>3. h[e] = IF e = {} THEN 0 ELSE s[First(e)] + h[e \ {First(e)}]
        <5> HIDE DEF Level, e, g
        <5>1. QED
          BY <3>3, <4>2 DEF Sums
      <4>4. g[e] = IF e = {} THEN 0 ELSE s[First(e)] + h[e \ {First(e)}]
        <5> HIDE DEF Level, e
        <5>1. QED
          BY <4>2
      <4>5. QED
        BY <4>3, <4>4
    <3>5. Sums(s, Level(n), g)
      <4> HIDE DEF Level
      <4>1. QED
        BY <3>4 DEF Sums
    <3>6. QED
      BY <2>3, <3>5
  <2>6. QED
    BY <2>4, <2>5
<1>2. Cardinality(S) \in Nat
  BY FS_CardinalityType
<1>3. Level(Cardinality(S)) = SUBSET S
  BY FS_Subset
<1>4. \E g : Sums(s, Level(Cardinality(S)), g)
  BY <1>1, <1>2
<1>5. QED
  <2> HIDE DEF Level
  <2>1. QED
    BY <1>3, <1>4

(* Solutions agree where they sum the same sizes. *)
LEMMA SumUnique ==
  ASSUME NEW s, NEW t, NEW S, NEW T, NEW D, IsFiniteSet(S), D \subseteq S, D \subseteq T,
         \A x \in D : s[x] = t[x]
  PROVE  \A g, h : Sums(s, SUBSET S, g) /\ Sums(t, SUBSET T, h) => g[D] = h[D]
<1> SUFFICES ASSUME NEW g, NEW h, Sums(s, SUBSET S, g), Sums(t, SUBSET T, h)
             PROVE  g[D] = h[D]
  OBVIOUS
<1> DEFINE Bad == {d \in SUBSET D : g[d] # h[d]}
<1>1. \A d \in SUBSET S : g[d] = IF d = {} THEN 0 ELSE s[First(d)] + g[d \ {First(d)}]
  BY DEF Sums
<1>2. \A d \in SUBSET T : h[d] = IF d = {} THEN 0 ELSE t[First(d)] + h[d \ {First(d)}]
  BY DEF Sums
<1>3. IsFiniteSet(D)
  BY FS_Subset
<1>4. Bad = {}
  <2>1. SUFFICES ASSUME Bad # {} PROVE FALSE
    OBVIOUS
  <2>2. PICK d \in Bad : \A e \in Bad : e \subseteq d => e = d
    <3>1. Bad \in SUBSET (SUBSET D)
      OBVIOUS
    <3> HIDE DEF Bad
    <3>2. QED
      BY <1>3, <2>1, <3>1, MinimalSubset
  <2>3. d \in SUBSET D /\ d \in SUBSET S /\ d \in SUBSET T /\ g[d] # h[d]
    BY <2>2
  <2>4. d # {}
    BY <1>1, <1>2, <2>3
  <2> DEFINE e == d \ {First(d)}
  <2>5. First(d) \in d /\ e \in SUBSET D /\ e \subseteq d /\ e # d
    BY <1>3, <2>3, <2>4, FirstFacts
  <2>6. g[e] = h[e]
    BY <2>2, <2>5
  <2>7. s[First(d)] = t[First(d)]
    BY <2>3, <2>5
  <2>8. QED
    BY <1>1, <1>2, <2>3, <2>4, <2>6, <2>7
<1>5. QED
  BY <1>4

(* The sum adds an element's size whichever element is taken. *)
LEMMA SumAdds ==
  ASSUME NEW s, NEW S, IsFiniteSet(S), \A x \in S : s[x] \in Nat
  PROVE  \A g : Sums(s, SUBSET S, g) =>
           \A d \in SUBSET S : g[d] \in Nat /\ \A x \in d : g[d] = s[x] + g[d \ {x}]
<1> SUFFICES ASSUME NEW g, Sums(s, SUBSET S, g)
             PROVE  \A d \in SUBSET S : g[d] \in Nat /\ \A x \in d : g[d] = s[x] + g[d \ {x}]
  OBVIOUS
<1> DEFINE Good(d) == g[d] \in Nat /\ \A x \in d : g[d] = s[x] + g[d \ {x}]
           Bad == {d \in SUBSET S : ~Good(d)}
<1>1. \A d \in SUBSET S : g[d] = IF d = {} THEN 0 ELSE s[First(d)] + g[d \ {First(d)}]
  BY DEF Sums
<1>2. SUFFICES ASSUME Bad # {} PROVE FALSE
  OBVIOUS
<1>3. PICK d \in Bad : \A e \in Bad : e \subseteq d => e = d
  <2>1. Bad \in SUBSET (SUBSET S)
    OBVIOUS
  <2> HIDE DEF Bad
  <2>2. QED
    BY <1>2, <2>1, MinimalSubset
<1>4. d \in SUBSET S /\ ~Good(d)
  BY <1>3
<1>5. d # {}
  <2>1. Good({})
    <3>1. g[{}] = 0
      BY <1>1
    <3>2. QED
      BY <3>1
  <2>2. QED
    BY <1>4, <2>1
<1> DEFINE c == First(d)
<1>6. c \in d /\ c \in S /\ g[d] = s[c] + g[d \ {c}]
  BY <1>1, <1>4, <1>5, FirstFacts
<1>7. \A x \in d : Good(d \ {x})
  <2>1. \A x \in d : d \ {x} \in SUBSET S /\ d \ {x} \subseteq d /\ d \ {x} # d
    BY <1>4
  <2>2. QED
    BY <1>3, <2>1
<1> HIDE DEF c
<1>8. g[d] \in Nat
  <2>1. s[c] \in Nat /\ g[d \ {c}] \in Nat
    BY <1>6, <1>7
  <2>2. QED
    BY <1>6, <2>1
<1>9. ASSUME NEW x \in d PROVE g[d] = s[x] + g[d \ {x}]
  <2>1. CASE x = c
    BY <1>6, <2>1
  <2>2. CASE x # c
    <3>1. x \in d \ {c} /\ c \in d \ {x} /\ (d \ {c}) \ {x} = (d \ {x}) \ {c}
      BY <1>6, <2>2
    <3>2. /\ g[d \ {c}] = s[x] + g[(d \ {c}) \ {x}]
          /\ g[d \ {x}] = s[c] + g[(d \ {x}) \ {c}]
      BY <1>6, <1>7, <3>1
    <3>3. (d \ {c}) \ {x} \in SUBSET S
      BY <1>4
    <3>4. s[x] \in Nat /\ s[c] \in Nat /\ g[d \ {c}] \in Nat /\ g[d \ {x}] \in Nat
      BY <1>4, <1>6, <1>7
    <3>5. (d \ {c}) \ {x} \notin Bad
      BY <1>3, <1>6, <3>3
    <3>6. g[(d \ {c}) \ {x}] \in Nat
      BY <3>3, <3>5
    <3>7. \A a, b, n \in Nat : a + (b + n) = b + (a + n)
      OBVIOUS
    <3>8. s[c] + (s[x] + g[(d \ {c}) \ {x}]) = s[x] + (s[c] + g[(d \ {c}) \ {x}])
      BY <3>4, <3>6, <3>7
    <3>9. QED
      BY <1>6, <3>1, <3>2, <3>8
  <2>3. QED
    BY <2>1, <2>2
<1>10. QED
  BY <1>4, <1>8, <1>9

LEMMA SumChosen ==
  ASSUME NEW s, NEW S, IsFiniteSet(S)
  PROVE  \E g : Sums(s, SUBSET S, g) /\ SumOver(s, S) = g[S]
<1>1. Sums(s, SUBSET S, CHOOSE g : Sums(s, SUBSET S, g))
  <2>1. \E g : Sums(s, SUBSET S, g)
    BY SumExists
  <2>2. QED
    BY <2>1
<1>2. QED
  BY <1>1 DEF SumOver

(* What the footprint proofs use of the sum. *)
LEMMA SumFacts ==
  ASSUME NEW s, NEW S, IsFiniteSet(S), \A x \in S : s[x] \in Nat
  PROVE  /\ SumOver(s, S) \in Nat
         /\ S = {} => SumOver(s, S) = 0
         /\ \A x \in S : SumOver(s, S) = s[x] + SumOver(s, S \ {x})
<1>1. PICK g : Sums(s, SUBSET S, g) /\ SumOver(s, S) = g[S]
  BY SumChosen
<1>2. g[S] \in Nat /\ \A x \in S : g[S] = s[x] + g[S \ {x}]
  <2>1. \A f : Sums(s, SUBSET S, f) =>
          \A d \in SUBSET S : f[d] \in Nat /\ \A x \in d : f[d] = s[x] + f[d \ {x}]
    BY SumAdds
  <2>2. S \in SUBSET S
    OBVIOUS
  <2>3. QED
    BY <1>1, <2>1, <2>2, Zenon
<1>3. S = {} => g[S] = 0
  BY <1>1 DEF Sums
<1>4. ASSUME NEW x \in S PROVE g[S \ {x}] = SumOver(s, S \ {x})
  <2> DEFINE D == S \ {x}
  <2>1. IsFiniteSet(D) /\ D \subseteq S
    BY FS_RemoveElement
  <2> HIDE DEF D
  <2>2. PICK h : Sums(s, SUBSET D, h) /\ SumOver(s, D) = h[D]
    BY <2>1, SumChosen
  <2>3. g[D] = h[D]
    BY <1>1, <2>1, <2>2, SumUnique
  <2>4. QED
    BY <2>2, <2>3 DEF D
<1>5. QED
  BY <1>1, <1>2, <1>3, <1>4

LEMMA SumAgrees ==
  ASSUME NEW s, NEW t, NEW S, IsFiniteSet(S), \A x \in S : s[x] = t[x]
  PROVE  SumOver(s, S) = SumOver(t, S)
<1>1. PICK g : Sums(s, SUBSET S, g) /\ SumOver(s, S) = g[S]
  BY SumChosen
<1>2. PICK h : Sums(t, SUBSET S, h) /\ SumOver(t, S) = h[S]
  BY SumChosen
<1>3. g[S] = h[S]
  BY <1>1, <1>2, SumUnique
<1>4. QED
  BY <1>1, <1>2, <1>3

-----------------------------------------------------------------------------
(* The temp-spill capacity rule.                                           *)

(* The mount has room for what is on it. *)
DiskInv ==
  /\ IsFiniteSet(DOMAIN size) /\ \A f \in DOMAIN size : size[f] \in Nat
  /\ size = [f \in DOMAIN size |-> size[f]]
  /\ other \in Nat
  /\ SumOver(size, DOMAIN size) + other <= MountTotal

(* A walk that nothing has disturbed still has to see exactly the files it *)
(* has not seen, and has added up the ones it has.                         *)
WalkInv ==
  /\ pc = "sizing" => owed = {}
  /\ quiet /\ pc # "idle" =>
       /\ visited \subseteq DOMAIN size /\ owed = DOMAIN size \ visited
       /\ total = SumOver(size, visited)

(* The latch holds the last verdict. *)
VerdictInv ==
  /\ verdicts \in Seq(BOOLEAN) /\ firing \in BOOLEAN
  /\ firing <=> verdicts # <<>> /\ verdicts[Len(verdicts)]
  /\ alarms = CapacityAlarm!FireInstants(verdicts)

CapacityInv == DiskInv /\ WalkInv /\ VerdictInv

LEMMA FootprintIsSum == \A s : Footprint(s) = SumOver(s, DOMAIN s)
BY DEF Footprint, FoldFunction, FoldFunctionOnSet,
       MapThenFoldSet, SumOver, Sums, First

LEMMA InitCapacityInv == CapacityInit => CapacityInv
<1> SUFFICES ASSUME CapacityInit PROVE CapacityInv
  OBVIOUS
<1>1. DOMAIN size = {} /\ IsFiniteSet({}) /\ size = [f \in DOMAIN size |-> size[f]]
  BY FS_EmptySet DEF CapacityInit
<1>2. SumOver(size, DOMAIN size) = 0
  BY <1>1, SumFacts
<1>3. other \in Nat /\ other <= MountTotal
  BY SpillAssumption DEF CapacityInit
<1>4. DiskInv
  BY <1>1, <1>2, <1>3 DEF DiskInv
<1>5. WalkInv
  BY DEF CapacityInit, WalkInv
<1>6. VerdictInv
  <2>1. CapacityAlarm!FireInstants(<<>>) = {}
    BY DEF CapacityAlarm!FireInstants
  <2>2. verdicts = <<>> /\ alarms = {} /\ firing = FALSE /\ <<>> \in Seq(BOOLEAN)
    BY DEF CapacityInit
  <2>3. QED
    BY <2>1, <2>2 DEF VerdictInv
<1>7. QED
  BY <1>4, <1>5, <1>6 DEF CapacityInv

(* What happens on the disk leaves room for itself, and disturbs the walk. *)
LEMMA DiskKeeps ==
  ASSUME CapacityInv,
         Postgres \/ \E n \in OtherUse : OthersUse(n)
  PROVE  CapacityInv' /\ UNCHANGED <<verdicts, alarms>>
<1> USE DEF CapacityInv
<1>1. CASE \E f \in File, n \in FileSizes : WriteFile(f, n)
  <2>1. PICK f \in File, n \in FileSizes : WriteFile(f, n)
    BY <1>1
  <2> DEFINE s == [g \in DOMAIN size \cup {f} |-> IF g = f THEN n ELSE size[g]]
  <2>2. /\ size' = s /\ Fits(s, other) /\ quiet' = FALSE
        /\ UNCHANGED <<other, pc, owed, visited, total, firing, verdicts, alarms>>
    BY <2>1 DEF WriteFile, walk, samples
  <2>3. n \in Nat
    BY SpillAssumption
  <2>4. DOMAIN s = DOMAIN size \cup {f} /\ IsFiniteSet(DOMAIN s)
    BY FS_AddElement DEF DiskInv
  <2>5. \A g \in DOMAIN s : s[g] \in Nat
    BY <2>3 DEF DiskInv
  <2>6. SumOver(s, DOMAIN s) + other <= MountTotal
    <3> HIDE DEF s
    <3>1. QED
      BY <2>2, FootprintIsSum DEF Fits
  <2>7. s = [g \in DOMAIN s |-> s[g]]
    OBVIOUS
  <2>8. DiskInv'
    <3> HIDE DEF s
    <3>1. QED
      BY <2>2, <2>4, <2>5, <2>6, <2>7 DEF DiskInv
  <2>9. QED
    BY <2>2, <2>8 DEF WalkInv, VerdictInv
<1>2. CASE \E f \in File : UnlinkFile(f)
  <2>1. PICK f \in File : UnlinkFile(f)
    BY <1>2
  <2> DEFINE D == DOMAIN size \ {f}
             s == [g \in D |-> size[g]]
  <2>2. /\ f \in DOMAIN size /\ size' = s /\ owed' = owed \ {f} /\ quiet' = FALSE
        /\ UNCHANGED <<other, pc, visited, total, firing, verdicts, alarms>>
    BY <2>1 DEF UnlinkFile, Restrict, samples
  <2>3. DOMAIN s = D /\ IsFiniteSet(D)
    BY FS_RemoveElement DEF DiskInv
  <2>4. \A g \in D : s[g] = size[g] /\ s[g] \in Nat /\ size[g] \in Nat
    BY DEF DiskInv
  <2>5. SumOver(s, D) = SumOver(size, D)
    <3> HIDE DEF s, D
    <3>1. QED
      BY <2>3, <2>4, SumAgrees
  <2>6. SumOver(size, DOMAIN size) = size[f] + SumOver(size, D)
    BY <2>2, SumFacts DEF DiskInv
  <2>7. SumOver(size, D) \in Nat /\ size[f] \in Nat /\ other \in Nat /\ MountTotal \in Nat
    <3>1. SumOver(size, D) \in Nat
      <4> HIDE DEF D
      <4>1. QED
        BY <2>3, <2>4, SumFacts
    <3>2. QED
      BY <2>2, <3>1, SpillAssumption DEF DiskInv
  <2>8. DiskInv'
    <3> HIDE DEF s, D
    <3>1. SumOver(s, D) + other <= MountTotal
      BY <2>5, <2>6, <2>7 DEF DiskInv
    <3>2. s = [g \in DOMAIN s |-> s[g]]
      BY <2>3 DEF s
    <3>3. QED
      BY <2>2, <2>3, <2>4, <2>7, <3>1, <3>2 DEF DiskInv
  <2>9. QED
    BY <2>2, <2>8 DEF WalkInv, VerdictInv
<1>3. CASE \E n \in OtherUse : OthersUse(n)
  <2>1. PICK n \in OtherUse : OthersUse(n)
    BY <1>3
  <2>2. /\ other' = n /\ Fits(size, n)
        /\ UNCHANGED <<size, pc, owed, visited, total, firing, quiet, verdicts, alarms>>
    BY <2>1 DEF OthersUse, walk, samples
  <2>3. n \in Nat
    BY SpillAssumption
  <2>4. QED
    BY <2>2, <2>3, FootprintIsSum DEF DiskInv, WalkInv, VerdictInv, Fits
<1>4. QED
  BY <1>1, <1>2, <1>3 DEF Postgres

(* The walk: an entry it reads moves its size into the total.              *)
LEMMA WalkKeeps ==
  ASSUME CapacityInv, Walk \/ StatvfsFails \/ UNCHANGED capacityVars
  PROVE  CapacityInv' /\ UNCHANGED <<verdicts, alarms>>
<1> USE DEF CapacityInv
<1>1. CASE BeginWalk
  <2>1. /\ owed' = DOMAIN size /\ visited' = {} /\ total' = 0 /\ pc' = "walking"
        /\ UNCHANGED <<size, other, firing, verdicts, alarms>>
    BY <1>1 DEF BeginWalk, disk, samples
  <2>2. SumOver(size, {}) = 0
    BY FS_EmptySet, SumFacts
  <2>3. QED
    BY <2>1, <2>2 DEF DiskInv, WalkInv, VerdictInv
<1>2. CASE \E f \in File : VisitFile(f)
  <2>1. PICK f \in File : VisitFile(f)
    BY <1>2
  <2>2. /\ pc = "walking" /\ f \in DOMAIN size \ visited /\ total' = total + size[f]
        /\ visited' = visited \cup {f} /\ owed' = owed \ {f}
        /\ UNCHANGED <<size, other, pc, firing, quiet, verdicts, alarms>>
    BY <2>1 DEF VisitFile, disk, samples
  <2>3. ASSUME quiet
        PROVE  /\ visited' \subseteq DOMAIN size /\ owed' = DOMAIN size \ visited'
               /\ total' = SumOver(size, visited')
    <3>1. /\ visited \subseteq DOMAIN size /\ owed = DOMAIN size \ visited
          /\ total = SumOver(size, visited)
      BY <2>2, <2>3 DEF WalkInv
    <3>2. IsFiniteSet(visited) /\ IsFiniteSet(visited')
      <4>1. IsFiniteSet(visited)
        BY <3>1, FS_Subset DEF DiskInv
      <4>2. QED
        BY <2>2, <4>1, FS_AddElement
    <3>3. \A g \in visited' : size[g] \in Nat
      BY <2>2, <3>1 DEF DiskInv
    <3>4. visited' \ {f} = visited /\ f \in visited'
      BY <2>2
    <3>5. SumOver(size, visited') = size[f] + SumOver(size, visited)
      BY <3>2, <3>3, <3>4, SumFacts
    <3>6. SumOver(size, visited) \in Nat /\ size[f] \in Nat
      BY <2>2, <3>2, <3>3, <3>4, SumFacts
    <3>7. QED
      BY <2>2, <3>1, <3>5, <3>6
  <2>4. QED
    BY <2>2, <2>3 DEF DiskInv, WalkInv, VerdictInv
<1>3. CASE \E f \in File : SkipFile(f)
  BY <1>3 DEF SkipFile, disk, samples, DiskInv, WalkInv, VerdictInv
<1>4. CASE EndWalk
  BY <1>4 DEF EndWalk, disk, walk, samples,
              DiskInv, WalkInv, VerdictInv
<1>5. CASE StatvfsFails
  BY <1>5 DEF StatvfsFails, disk, walk, samples,
              DiskInv, WalkInv, VerdictInv
<1>6. CASE UNCHANGED capacityVars
  BY <1>6 DEF capacityVars, disk, walk, samples,
              DiskInv, WalkInv, VerdictInv
<1>7. QED
  BY <1>1, <1>2, <1>3, <1>4, <1>5, <1>6 DEF Walk

(* An episode of one interval starts with a breach after a non-breach. *)
LEMMA StartsEpisode ==
  ASSUME NEW h \in Seq(BOOLEAN), NEW i \in 1 .. Len(h)
  PROVE  CapacityAlarm!CompletesRun(h, i) <=> h[i] /\ (i = 1 \/ ~h[i - 1])
<1>1. i >= 1 /\ i - 1 + 1 = i /\ i \in Nat
  OBVIOUS
<1>2. \A j : j \in (i - 1 + 1) .. i <=> j = i
  BY <1>1
<1>3. QED
  BY <1>1, <1>2 DEF CapacityAlarm!CompletesRun

(* A verdict raises a Finding exactly when it starts an episode.           *)
LEMMA EvaluateKeeps ==
  ASSUME CapacityInv, EvaluateSample
  PROVE  CapacityInv' /\ CapacityAlarm!Next
<1> USE DEF CapacityInv
<1>1. PICK b \in BOOLEAN : b <=> Breaches
  OBVIOUS
<1>2. Breaches = b
  BY <1>1 DEF Breaches
<1> DEFINE n == Len(verdicts)
           h == Append(verdicts, b)
<1>3. /\ pc' = "idle" /\ firing' = b
      /\ alarms' = IF b /\ ~firing THEN alarms \cup {n + 1} ELSE alarms
      /\ verdicts' = h
      /\ UNCHANGED <<size, other, owed, visited, total, quiet>>
  BY <1>2 DEF EvaluateSample, disk, walk
<1>4. /\ h \in Seq(BOOLEAN) /\ Len(h) = n + 1 /\ n \in Nat /\ h[n + 1] = b
      /\ \A i \in 1 .. n : h[i] = verdicts[i]
  BY AppendFacts DEF VerdictInv
<1>5. firing <=> n # 0 /\ h[n]
  <2>1. verdicts = <<>> <=> n = 0
    BY DEF VerdictInv
  <2>2. n # 0 => n \in 1 .. n
    BY <1>4
  <2>3. QED
    BY <1>4, <2>1, <2>2 DEF VerdictInv
<1>6. CapacityAlarm!FireInstants(h)
        = CapacityAlarm!FireInstants(verdicts) \cup (IF b /\ ~firing THEN {n + 1} ELSE {})
  <2> HIDE DEF h
  <2>1. \A i \in 1 .. n : /\ i \in 1 .. Len(h) /\ i \in 1 .. Len(verdicts)
                          /\ i # 1 => i - 1 \in 1 .. n
    BY <1>4
  <2>2. \A i \in 1 .. n :
          CapacityAlarm!CompletesRun(h, i) <=> CapacityAlarm!CompletesRun(verdicts, i)
    BY <1>4, <2>1, StartsEpisode DEF VerdictInv
  <2>3. CapacityAlarm!CompletesRun(h, n + 1) <=> b /\ ~firing
    <3>1. n + 1 \in 1 .. Len(h) /\ n + 1 - 1 = n /\ (n + 1 = 1 <=> n = 0)
      BY <1>4
    <3>2. QED
      BY <1>4, <1>5, <3>1, StartsEpisode
  <2>4. 1 .. Len(h) = (1 .. n) \cup {n + 1}
    BY <1>4
  <2>5. QED
    BY <2>2, <2>3, <2>4 DEF CapacityAlarm!FireInstants
<1>7. alarms' = CapacityAlarm!FireInstants(verdicts')
  BY <1>3, <1>6 DEF VerdictInv
<1>8. firing' <=> verdicts' # <<>> /\ verdicts'[Len(verdicts')]
  <2>1. h # <<>>
    BY <1>4
  <2>2. QED
    BY <1>3, <1>4, <2>1
<1>9. VerdictInv'
  BY <1>3, <1>4, <1>7, <1>8 DEF VerdictInv
<1>10. DiskInv' /\ WalkInv'
  BY <1>3 DEF DiskInv, WalkInv
<1>11. CapacityAlarm!Interval(b)
  BY <1>3, <1>7 DEF CapacityAlarm!Interval
<1>12. QED
  BY <1>9, <1>10, <1>11 DEF CapacityAlarm!Next

LEMMA CapacityStep ==
  ASSUME CapacityInv, [CapacityNext]_capacityVars
  PROVE  CapacityInv' /\ [CapacityAlarm!Next]_(CapacityAlarm!vars)
<1>1. CASE EvaluateSample
  BY <1>1, EvaluateKeeps
<1>2. CASE ~EvaluateSample
  BY <1>2, DiskKeeps, WalkKeeps DEF CapacityNext, CapacityAlarm!vars
<1>3. QED
  BY <1>1, <1>2

(* The inductive invariant holds of every behaviour of the rule.           *)
THEOREM CapacityInvariance == CapacitySpec => []CapacityInv
<1>1. CapacityInit => CapacityInv
  BY InitCapacityInv
<1>2. CapacityInv /\ [CapacityNext]_capacityVars => CapacityInv'
  BY CapacityStep
<1>3. QED
  BY <1>1, <1>2, PTL DEF CapacitySpec

(* A walk of base/pgsql_tmp that nothing disturbs adds up the footprint    *)
(* exactly (temp_spill.rs, the read_dir loop), for any number of files and *)
(* sizes: each file once, none left out, whatever order they come in.      *)
THEOREM QuietWalkExact == CapacitySpec => []QuietWalkIsExact
<1>1. CapacityInv => QuietWalkIsExact
  <2>1. ASSUME CapacityInv, pc = "sizing", quiet PROVE total = Footprint(size)
    <3>1. visited = DOMAIN size /\ total = SumOver(size, visited)
      BY <2>1 DEF CapacityInv, WalkInv
    <3>2. QED
      BY <3>1, FootprintIsSum
  <2>2. QED
    BY <2>1 DEF QuietWalkIsExact
<1>2. QED
  BY <1>1, CapacityInvariance, PTL

(* Truncating the free percentage (temp_spill.rs free_pct) never changes   *)
(* the verdict on the free space, for every mount size and threshold.      *)
THEOREM TruncationHarmless == CapacitySpec => []TruncationIsHarmless
<1>1. ASSUME CapacityInv, MountTotal > 0
      PROVE  FreePct(Available) < FreeThresholdPct
               <=> Available * 100 < FreeThresholdPct * MountTotal
  <2>1. PICK a : a = Available
    OBVIOUS
  <2>2. MountTotal \in Nat \ {0} /\ FreeThresholdPct \in Nat /\ FreeThresholdPct <= 255
    BY <1>1, SpillAssumption
  <2>3. a \in Nat /\ a <= MountTotal
    <3>1. SumOver(size, DOMAIN size) \in Nat
      BY <1>1, SumFacts DEF CapacityInv, DiskInv
    <3>2. a = MountTotal - (SumOver(size, DOMAIN size) + other)
      BY <2>1, FootprintIsSum DEF Available
    <3>3. QED
      BY <1>1, <2>2, <3>1, <3>2 DEF CapacityInv, DiskInv
  <2> DEFINE pct == (a * 100) \div MountTotal
  <2>4. /\ pct \in Nat /\ pct * MountTotal <= a * 100
        /\ a * 100 < pct * MountTotal + MountTotal /\ a * 100 \in Nat
    BY <2>2, <2>3, DivBounds
  <2>5. pct <= 100
    <3>1. a * 100 <= MountTotal * 100
      BY <2>2, <2>3
    <3>2. (MountTotal * 100) \div MountTotal <= 100
      BY <2>2
    <3>3. QED
      BY <2>2, <2>3, <3>1, <3>2, DivMonotone
  <2>6. FreePct(a) = pct
    BY <2>2, <2>4, <2>5 DEF FreePct
  <2> HIDE DEF pct
  <2>7. CASE pct < FreeThresholdPct
    <3>1. (pct + 1) * MountTotal <= FreeThresholdPct * MountTotal
      BY <2>2, <2>4, <2>7, TimesMonotone
    <3>2. (pct + 1) * MountTotal = pct * MountTotal + MountTotal
      BY <2>2, <2>4, TimesSucc
    <3>3. QED
      BY <2>1, <2>2, <2>4, <2>6, <2>7, <3>1, <3>2
  <2>8. CASE ~(pct < FreeThresholdPct)
    <3>1. FreeThresholdPct * MountTotal <= pct * MountTotal
      BY <2>2, <2>4, <2>8, TimesMonotone
    <3>2. QED
      BY <2>1, <2>2, <2>4, <2>6, <2>8, <3>1
  <2>9. QED
    BY <2>7, <2>8
<1>2. CapacityInv => TruncationIsHarmless
  BY <1>1 DEF TruncationIsHarmless
<1>3. QED
  BY <1>2, CapacityInvariance, PTL

(* One Finding per breach episode (temp_spill.rs:187-188): the latch       *)
(* implements the abstract alarm over the samples taken, for any number of *)
(* files and samples; a failed sample neither ends nor starts an episode.  *)
THEOREM CapacityImplementsAlarm == CapacitySpec => OneFindingPerEpisode
<1>1. CapacityInit => CapacityAlarm!Init
  BY DEF CapacityInit, CapacityAlarm!Init
<1>2. CapacityInv /\ [CapacityNext]_capacityVars
        => [CapacityAlarm!Next]_(CapacityAlarm!vars)
  BY CapacityStep
<1>3. QED
  BY <1>1, <1>2, CapacityInvariance, PTL
     DEF CapacitySpec, CapacityAlarm!Spec, OneFindingPerEpisode
=============================================================================
