---------------------------- MODULE CheckpointProofs ----------------------------
(***************************************************************************)
(* Proofs about the checkpoint-storm rule, for every fire_after, cost of a *)
(* checkpoint, flood threshold and number of checkpoints, with statistics  *)
(* reset and polls failing at any point.                                   *)
(***************************************************************************)
EXTENDS CheckpointStorm, RuleLemmas

-----------------------------------------------------------------------------
(* The inductive invariant.                                                *)

(* What DominantStreak says of bucket b: the counter that a rule for b     *)
(* alone would keep, and the verdicts it would be fed.                     *)
CounterOf(b) ==
  [streak |-> IF streak.current = b THEN streak.streak ELSE 0,
   fired  |-> streak.current = b /\ streak.fired_for = b]
HistoryOf(b) == [i \in 1 .. Len(classified) |-> classified[i] = b]

(* fired_for latches the current run once it is long enough. *)
LatchInv ==
  /\ streak.current = None => streak.streak = 0 /\ streak.fired_for = None
  /\ streak.current # None => streak.fired_for \in {None, streak.current}
  /\ streak.current # None =>
       (streak.fired_for = streak.current <=> streak.streak >= RunLength)

(* Nothing was taken back since the last good poll, unless by a reset. *)
DeltaInv ==
  prev # None =>
    \A f \in Field : /\ SaturatingSub(pg[f], prev[f]) <= since[f]
                     /\ ~resetSince => pg[f] = prev[f] + since[f]

(* Checkpoints pay for classifications and classifications for Findings.   *)
Building == IF streak.fired_for = None THEN streak.streak ELSE 0
BackingInv ==
  Len(findings) * RunLength + Building + (since["timed"] + since["requested"]) <= checkpoints

HistInv ==
  \A b \in Bucket :
    /\ TrailingRun(HistoryOf(b), CounterOf(b).streak)
    /\ raised[b] = E!FireInstants(HistoryOf(b))

IInv == TypeOK /\ LatchInv /\ DeltaInv /\ BackingInv /\ HistInv

-----------------------------------------------------------------------------
(* What a checkpoint adds to a field. *)
Gain(f, kind, w) == CASE f \in DOMAIN w -> w[f]
                      [] f \notin DOMAIN w /\ f = kind -> 1
                      [] OTHER -> 0

LEMMA PlusFacts ==
  ASSUME NEW s \in Snapshot, NEW kind \in {"timed", "requested"}, NEW w \in Work
  PROVE  /\ Plus(s, kind, w) \in Snapshot
         /\ \A f \in Field : /\ Gain(f, kind, w) \in Nat
                             /\ Plus(s, kind, w)[f] = s[f] + Gain(f, kind, w)
         /\ Plus(s, kind, w)["timed"] + Plus(s, kind, w)["requested"]
              = s["timed"] + s["requested"] + 1
<1>1. w \in [{"write", "sync", "fpi"} -> Nat]
  BY CheckpointAssumption
<1>2. \A f \in Field : s[f] \in Nat
  BY DEF Snapshot
<1>3. ASSUME NEW f \in Field
      PROVE  /\ Gain(f, kind, w) \in Nat
             /\ Plus(s, kind, w)[f] = s[f] + Gain(f, kind, w)
  BY <1>1, <1>2 DEF Gain, Plus, Field
<1>4. Plus(s, kind, w) \in Snapshot
  <2>1. Plus(s, kind, w) = [f \in Field |-> Plus(s, kind, w)[f]]
    BY DEF Plus
  <2>2. QED
    BY <1>2, <1>3, <2>1 DEF Snapshot
<1>5. Gain("timed", kind, w) + Gain("requested", kind, w) = 1
  BY <1>1 DEF Gain
<1>6. QED
  BY <1>2, <1>3, <1>4, <1>5 DEF Field

(* A classification needs a previous snapshot and a checkpoint since. *)
LEMMA ClassifiedMeans ==
  ASSUME TypeOK, NEW b \in Bucket, b = BucketNow
  PROVE  /\ prev # None
         /\ Delta(prev, pg)["timed"] + Delta(prev, pg)["requested"] # 0
<1>1. b # None
  BY CheckpointAssumption
<1>2. prev # None /\ b = Classify(prev, pg)
  BY <1>1 DEF BucketNow
<1>3. QED
  BY <1>1, <1>2 DEF Classify

LEMMA StreakTypes ==
  ASSUME TypeOK
  PROVE  /\ streak.current \in Bucket \cup {None} /\ streak.fired_for \in Bucket \cup {None}
         /\ streak.streak \in 0 .. CounterMax /\ streak.streak \in Nat /\ None \notin Bucket
         /\ RunLength \in Nat /\ RunLength >= 1 /\ RunLength <= CounterMax /\ CounterMax \in Nat
         /\ FireAfter \in Nat
BY CounterAssumption, CheckpointAssumption, RunLengthFacts DEF TypeOK, Streak

(* DominantStreak::observe is, for every bucket, one interval of a counter *)
(* of its own.                                                             *)
LEMMA StreakIsCounter ==
  ASSUME TypeOK, LatchInv, NEW b \in Bucket, streak' = ObserveBucket(streak, b),
         NEW c \in Bucket
  PROVE  /\ CounterOf(c) \in Counter
         /\ CounterOf(c).fired <=> CounterOf(c).streak >= RunLength
         /\ CounterOf(c)' = Observe(CounterOf(c), b = c)
         /\ JustFires(CounterOf(c), b = c) <=> c = b /\ JustFired(streak, b)
<1>1. /\ streak.current \in Bucket \cup {None} /\ streak.fired_for \in Bucket \cup {None}
      /\ streak.streak \in 0 .. CounterMax /\ streak.streak \in Nat /\ None \notin Bucket
      /\ RunLength \in Nat /\ RunLength >= 1 /\ RunLength <= CounterMax /\ CounterMax \in Nat
      /\ FireAfter \in Nat
  BY StreakTypes
<1> DEFINE k == CounterOf(c)
<1>2. k.streak = (IF streak.current = c THEN streak.streak ELSE 0) /\ k.streak \in 0 .. CounterMax
  BY <1>1 DEF CounterOf
<1>3. k.fired = (streak.current = c /\ streak.fired_for = c) /\ k.fired \in BOOLEAN
  BY DEF CounterOf
<1>4. k = [streak |-> k.streak, fired |-> k.fired] /\ k \in Counter
  BY <1>2, <1>3 DEF CounterOf, Counter
<1>5. k.fired <=> k.streak >= RunLength
  <2>1. CASE streak.current = c
    <3>1. streak.fired_for = c <=> streak.streak >= RunLength
      BY <1>1, <2>1 DEF LatchInv
    <3>2. (k.fired <=> streak.fired_for = c) /\ k.streak = streak.streak
      BY <1>2, <1>3, <2>1
    <3>3. QED
      BY <3>1, <3>2
  <2>2. CASE streak.current # c
    <3>1. ~k.fired /\ k.streak = 0
      BY <1>2, <1>3, <2>2
    <3>2. QED
      BY <1>1, <3>1
  <2>3. QED
    BY <2>1, <2>2
<1> HIDE DEF k
<1>6. /\ streak'.current = b /\ streak'.streak = StreakAfter(streak, b)
      /\ streak'.fired_for = IF StreakAfter(streak, b) >= FireAfter THEN b ELSE FiredFor(streak, b)
  BY DEF ObserveBucket
<1>7. CASE c = b
  <2>1. StreakAfter(streak, b) = SaturatingSucc(k.streak)
    <3>1. SaturatingSucc(0) = 1
      BY <1>1 DEF SaturatingSucc
    <3>2. QED
      BY <1>2, <1>7, <3>1 DEF StreakAfter
  <2>2. FiredFor(streak, b) = b <=> k.fired
    BY <1>1, <1>3, <1>7 DEF FiredFor
  <2>3. CounterOf(c)' = [streak |-> SaturatingSucc(k.streak),
                         fired  |-> k.fired \/ SaturatingSucc(k.streak) >= FireAfter]
    <3>1. CounterOf(c)' = [streak |-> SaturatingSucc(k.streak), fired |-> streak'.fired_for = b]
      BY <1>6, <1>7, <2>1 DEF CounterOf
    <3>2. (streak'.fired_for = b) = (k.fired \/ SaturatingSucc(k.streak) >= FireAfter)
      BY <1>3, <1>6, <2>1, <2>2
    <3>3. QED
      BY <3>1, <3>2
  <2>4. JustFires(k, TRUE) <=> JustFired(streak, b)
    <3>1. JustFires(k, TRUE) <=> SaturatingSucc(k.streak) >= FireAfter /\ ~k.fired
      <4>1. SaturatingSucc(k.streak) \in Nat
        BY <1>1, <1>2 DEF SaturatingSucc
      <4>2. QED
        BY <1>1, <1>3, <4>1 DEF JustFires, Verdict
    <3>2. QED
      BY <2>1, <2>2, <3>1 DEF JustFired
  <2>5. QED
    BY <1>4, <1>5, <1>7, <2>3, <2>4 DEF Observe, k
<1>8. CASE c # b
  <2>1. CounterOf(c)' = Rearmed
    BY <1>6, <1>8 DEF CounterOf, Rearmed
  <2>2. ~JustFires(k, FALSE)
    BY DEF JustFires, Verdict
  <2>3. QED
    BY <1>4, <1>5, <1>8, <2>1, <2>2 DEF Observe, k
<1>9. QED
  BY <1>7, <1>8

(* The history of a bucket grows by one verdict. *)
LEMMA HistoryGrows ==
  ASSUME TypeOK, NEW b \in Bucket, NEW c \in Bucket, classified' = Append(classified, b)
  PROVE  /\ HistoryOf(c) \in Seq(BOOLEAN) /\ Len(HistoryOf(c)) = Len(classified)
         /\ HistoryOf(c)' = Append(HistoryOf(c), b = c)
<1>1. /\ classified \in Seq(Bucket) /\ Len(classified) \in Nat
      /\ Len(classified') = Len(classified) + 1 /\ classified'[Len(classified) + 1] = b
      /\ \A i \in 1 .. Len(classified) : classified'[i] = classified[i]
  BY DEF TypeOK
<1>2. HistoryOf(c) \in Seq(BOOLEAN) /\ Len(HistoryOf(c)) = Len(classified)
  BY <1>1 DEF HistoryOf
<1>3. HistoryOf(c)' = [i \in 1 .. Len(classified) + 1 |-> classified'[i] = c]
  BY <1>1 DEF HistoryOf
<1>4. Append(HistoryOf(c), b = c) =
        [i \in 1 .. Len(classified) + 1 |->
           IF i = Len(classified) + 1 THEN b = c ELSE HistoryOf(c)[i]]
  BY <1>1, <1>2
<1>5. \A i \in 1 .. Len(classified) + 1 :
        (classified'[i] = c) = (IF i = Len(classified) + 1 THEN b = c ELSE HistoryOf(c)[i])
  BY <1>1 DEF HistoryOf
<1>6. QED
  BY <1>2, <1>3, <1>4, <1>5

-----------------------------------------------------------------------------
LEMMA InitIInv ==
  ASSUME Init
  PROVE  IInv
<1>1. /\ pg = Zero /\ since = Zero /\ prev = None /\ findings = <<>> /\ checkpoints = 0
      /\ resetSince = FALSE /\ classified = <<>> /\ raised = [b \in Bucket |-> {}]
      /\ streak.current = None /\ streak.streak = 0 /\ streak.fired_for = None
      /\ streak = [current |-> None, streak |-> 0, fired_for |-> None]
  BY DEF Init
<1>2. Zero \in Snapshot /\ Zero["timed"] = 0 /\ Zero["requested"] = 0
  BY DEF Zero, Snapshot, Field
<1>3. TypeOK
  <2>1. streak \in Streak
    BY <1>1, CounterAssumption DEF Streak
  <2>2. checkpoints \in 0 .. MaxCheckpoints
    BY <1>1, CheckpointAssumption
  <2>3. raised \in [Bucket -> SUBSET Nat]
    BY <1>1
  <2>4. /\ findings \in Seq([bucket : Bucket, streak : 0 .. CounterMax])
        /\ classified \in Seq(Bucket)
    BY <1>1
  <2>5. QED
    BY <1>1, <1>2, <2>1, <2>2, <2>3, <2>4 DEF TypeOK
<1>4. LatchInv /\ DeltaInv
  BY <1>1 DEF LatchInv, DeltaInv
<1>5. BackingInv
  BY <1>1, <1>2, RunLengthFacts DEF BackingInv, Building
<1>6. HistInv
  <2>1. SUFFICES ASSUME NEW b \in Bucket
                 PROVE  /\ TrailingRun(HistoryOf(b), CounterOf(b).streak)
                        /\ raised[b] = E!FireInstants(HistoryOf(b))
    BY DEF HistInv
  <2>2. Len(HistoryOf(b)) = 0
    BY <1>1 DEF HistoryOf
  <2>3. CounterOf(b).streak = 0
    BY <1>1 DEF CounterOf
  <2>4. TrailingRun(HistoryOf(b), 0) /\ E!FireInstants(HistoryOf(b)) = {}
    BY <2>2, CounterAssumption DEF TrailingRun, E!FireInstants
  <2>5. QED
    BY <1>1, <2>3, <2>4
<1>7. QED
  BY <1>3, <1>4, <1>5, <1>6 DEF IInv

(* What the streak and its history keep while no tick classifies. *)
LEMMA StreakIdle ==
  ASSUME IInv, UNCHANGED <<streak, findings, classified, raised>>
  PROVE  LatchInv' /\ HistInv' /\ Building' = Building
BY DEF IInv, LatchInv, HistInv, HistoryOf, CounterOf, Building

LEMMA CheckpointKeeps ==
  ASSUME IInv, NEW kind \in {"timed", "requested"}, NEW w \in Work, Checkpoint(kind, w)
  PROVE  IInv'
<1>1. /\ checkpoints < MaxCheckpoints /\ checkpoints' = checkpoints + 1
      /\ pg' = Plus(pg, kind, w) /\ since' = Plus(since, kind, w)
      /\ UNCHANGED <<prev, streak, findings, resetSince, classified, raised>>
  BY DEF Checkpoint, collectorVars, tickHistory
<1>2. TypeOK /\ pg \in Snapshot /\ since \in Snapshot /\ checkpoints \in Nat /\ MaxCheckpoints \in Nat
  BY CheckpointAssumption DEF IInv, TypeOK
<1>3. /\ pg' \in Snapshot /\ since' \in Snapshot
      /\ since'["timed"] + since'["requested"] = since["timed"] + since["requested"] + 1
  BY <1>1, <1>2, PlusFacts
<1>4. TypeOK'
  BY <1>1, <1>2, <1>3 DEF TypeOK
<1>5. DeltaInv'
  <2>1. SUFFICES ASSUME prev # None, NEW f \in Field
                 PROVE  /\ SaturatingSub(pg'[f], prev[f]) <= since'[f]
                        /\ ~resetSince => pg'[f] = prev[f] + since'[f]
    BY <1>1 DEF DeltaInv
  <2>2. /\ Gain(f, kind, w) \in Nat
        /\ pg'[f] = pg[f] + Gain(f, kind, w) /\ since'[f] = since[f] + Gain(f, kind, w)
    BY <1>1, <1>2, PlusFacts
  <2>3. prev[f] \in Nat /\ pg[f] \in Nat /\ since[f] \in Nat
    BY <1>2, <2>1 DEF TypeOK, Snapshot
  <2>4. SaturatingSub(pg[f], prev[f]) <= since[f] /\ (~resetSince => pg[f] = prev[f] + since[f])
    BY <2>1 DEF IInv, DeltaInv
  <2>5. QED
    BY <2>2, <2>3, <2>4 DEF SaturatingSub
<1>6. BackingInv'
  <2>1. /\ Len(findings) * RunLength \in Nat /\ Building \in Nat
        /\ since["timed"] \in Nat /\ since["requested"] \in Nat
    <3>1. Len(findings) \in Nat /\ RunLength \in Nat
      BY <1>2, RunLengthFacts DEF TypeOK
    <3>2. Building \in Nat
      BY <1>2, StreakTypes DEF Building
    <3>3. QED
      BY <1>2, <3>1, <3>2, TimesSucc DEF Snapshot, Field
  <2>2. Len(findings) * RunLength + Building + (since["timed"] + since["requested"]) <= checkpoints
    BY DEF IInv, BackingInv
  <2>3. QED
    BY <1>1, <1>2, <1>3, <2>1, <2>2, StreakIdle DEF BackingInv
<1>7. QED
  BY <1>1, <1>4, <1>5, <1>6, StreakIdle DEF IInv

LEMMA ResetKeeps ==
  ASSUME IInv, NEW fields, ResetStats(fields)
  PROVE  IInv'
<1>1. /\ pg' = [f \in Field |-> IF f \in fields THEN 0 ELSE pg[f]]
      /\ resetSince' = TRUE
      /\ UNCHANGED <<prev, streak, findings, checkpoints, since, classified, raised>>
  BY DEF ResetStats, collectorVars, tickHistory
<1>2. TypeOK
  BY DEF IInv
<1>3. pg' \in Snapshot
  BY <1>1, <1>2 DEF TypeOK, Snapshot
<1>4. TypeOK'
  BY <1>1, <1>2, <1>3 DEF TypeOK
<1>5. DeltaInv'
  <2>1. SUFFICES ASSUME prev # None, NEW f \in Field
                 PROVE  SaturatingSub(pg'[f], prev[f]) <= since[f]
    BY <1>1 DEF DeltaInv
  <2>2. pg'[f] = 0 \/ pg'[f] = pg[f]
    BY <1>1
  <2>3. prev[f] \in Nat /\ pg[f] \in Nat /\ since[f] \in Nat
    BY <1>2, <2>1 DEF TypeOK, Snapshot
  <2>4. SaturatingSub(pg[f], prev[f]) <= since[f]
    BY <2>1 DEF IInv, DeltaInv
  <2>5. QED
    BY <2>2, <2>3, <2>4 DEF SaturatingSub
<1>6. BackingInv'
  BY <1>1, StreakIdle DEF IInv, BackingInv
<1>7. QED
  BY <1>1, <1>4, <1>5, <1>6, StreakIdle DEF IInv

(* A good poll starts a new delta. *)
LEMMA PollStartsDelta ==
  ASSUME TypeOK, prev' = pg, pg' = pg, since' = Zero, resetSince' = FALSE
  PROVE  /\ DeltaInv' /\ prev' \in Snapshot \cup {None} /\ since' \in Snapshot
         /\ since'["timed"] = 0 /\ since'["requested"] = 0
<1>1. Zero \in Snapshot /\ \A f \in Field : Zero[f] = 0
  BY DEF Zero, Snapshot
<1>2. \A f \in Field : pg[f] \in Nat
  BY DEF TypeOK, Snapshot
<1>3. DeltaInv'
  BY <1>1, <1>2 DEF DeltaInv, SaturatingSub
<1>4. QED
  BY <1>1, <1>3 DEF TypeOK, Field

LEMMA QuietKeeps ==
  ASSUME IInv, QuietTick
  PROVE  IInv'
<1>1. /\ prev' = pg /\ since' = Zero /\ resetSince' = FALSE
      /\ UNCHANGED <<pg, streak, findings, checkpoints, classified, raised>>
  BY DEF QuietTick
<1>2. TypeOK
  BY DEF IInv
<1>3. /\ DeltaInv' /\ prev' \in Snapshot \cup {None} /\ since' \in Snapshot
      /\ since'["timed"] = 0 /\ since'["requested"] = 0
  BY <1>1, <1>2, PollStartsDelta
<1>4. TypeOK'
  BY <1>1, <1>2, <1>3 DEF TypeOK
<1>5. BackingInv'
  <2>1. /\ Len(findings) * RunLength \in Nat /\ Building \in Nat /\ checkpoints \in Nat
        /\ since["timed"] \in Nat /\ since["requested"] \in Nat
    <3>1. Len(findings) \in Nat /\ RunLength \in Nat
      BY <1>2, RunLengthFacts DEF TypeOK
    <3>2. Building \in Nat
      BY <1>2, StreakTypes DEF Building
    <3>3. QED
      BY <1>2, <3>1, <3>2, TimesSucc DEF TypeOK, Snapshot, Field
  <2>2. QED
    BY <1>1, <1>3, <2>1, StreakIdle DEF IInv, BackingInv
<1>6. QED
  BY <1>1, <1>3, <1>4, <1>5, StreakIdle DEF IInv

(* A classified tick: the checkpoint it saw pays for it, and a Finding     *)
(* spends the run it completes.                                            *)
LEMMA ClassifiedKeeps ==
  ASSUME IInv, ClassifiedTick
  PROVE  IInv'
<1>1. PICK b \in Bucket :
        /\ b = BucketNow
        /\ streak' = ObserveBucket(streak, b)
        /\ findings' = IF JustFired(streak, b)
                       THEN Append(findings, [bucket |-> b, streak |-> streak'.streak])
                       ELSE findings
        /\ raised' = IF findings' = findings THEN raised
                     ELSE [raised EXCEPT ![b] = @ \cup {Len(classified) + 1}]
        /\ classified' = Append(classified, b)
  BY DEF ClassifiedTick
<1>2. prev' = pg /\ since' = Zero /\ resetSince' = FALSE /\ UNCHANGED <<pg, checkpoints>>
  BY DEF ClassifiedTick
<1>3. TypeOK /\ LatchInv
  BY DEF IInv
<1>4. /\ DeltaInv' /\ prev' \in Snapshot \cup {None} /\ since' \in Snapshot
      /\ since'["timed"] = 0 /\ since'["requested"] = 0
  BY <1>2, <1>3, PollStartsDelta
<1>5. /\ streak.current \in Bucket \cup {None} /\ streak.fired_for \in Bucket \cup {None}
      /\ streak.streak \in 0 .. CounterMax /\ streak.streak \in Nat /\ None \notin Bucket
      /\ RunLength \in Nat /\ RunLength >= 1 /\ RunLength <= CounterMax /\ CounterMax \in Nat
      /\ FireAfter \in Nat
  BY <1>3, StreakTypes
<1> DEFINE k == CounterOf(b)
           n == Observe(k, TRUE)
<1>6. /\ k \in Counter /\ (k.fired <=> k.streak >= RunLength)
      /\ CounterOf(b)' = n /\ (JustFires(k, TRUE) <=> JustFired(streak, b))
  BY <1>1, <1>3, StreakIsCounter
<1>7. /\ k.streak = (IF streak.current = b THEN streak.streak ELSE 0)
      /\ k.fired = (streak.current = b /\ streak.fired_for = b)
  BY DEF CounterOf
<1>8. /\ streak'.current = b /\ streak'.fired_for \in {None, b}
      /\ streak' \in Streak
  <2>1. StreakAfter(streak, b) \in 0 .. CounterMax
    BY <1>5 DEF StreakAfter, SaturatingSucc
  <2>2. FiredFor(streak, b) \in {None, b}
    BY <1>3, <1>5 DEF FiredFor, LatchInv
  <2>3. QED
    BY <1>1, <2>1, <2>2 DEF ObserveBucket, Streak
<1>9. n.streak = streak'.streak /\ n.fired = (streak'.fired_for = b)
  <2>1. CounterOf(b)'.streak = streak'.streak /\ CounterOf(b)'.fired = (streak'.fired_for = b)
    BY <1>8 DEF CounterOf
  <2>2. QED
    BY <1>6, <2>1
<1>10. /\ n.fired <=> n.streak >= RunLength
       /\ n.streak <= k.streak + 1
       /\ JustFires(k, TRUE) <=> ~k.fired /\ n.fired
       /\ k.fired => n.fired
       /\ JustFires(k, TRUE) => k.streak = RunLength - 1
  BY <1>6, ObserveFacts
<1> HIDE DEF k, n
<1>11. streak'.streak \in Nat /\ k.streak \in Nat /\ streak'.streak \in 0 .. CounterMax
  BY <1>5, <1>7, <1>8 DEF Streak
<1>12. /\ findings' \in Seq([bucket : Bucket, streak : 0 .. CounterMax])
       /\ Len(findings) \in Nat
       /\ Len(findings') = IF JustFired(streak, b) THEN Len(findings) + 1 ELSE Len(findings)
       /\ findings' = findings <=> ~JustFired(streak, b)
  <2>1. /\ findings \in Seq([bucket : Bucket, streak : 0 .. CounterMax])
        /\ Len(findings) \in Nat
    BY <1>3 DEF TypeOK
  <2>2. PICK r \in [bucket : Bucket, streak : 0 .. CounterMax] :
          r = [bucket |-> b, streak |-> streak'.streak]
    BY <1>11
  <2>3. /\ Append(findings, r) \in Seq([bucket : Bucket, streak : 0 .. CounterMax])
        /\ Len(Append(findings, r)) = Len(findings) + 1
        /\ Append(findings, r) # findings
    BY <2>1
  <2>4. findings' = IF JustFired(streak, b) THEN Append(findings, r) ELSE findings
    BY <1>1, <2>2
  <2>5. QED
    BY <2>1, <2>3, <2>4
<1>13. classified' \in Seq(Bucket) /\ Len(classified) \in Nat
  BY <1>1, <1>3 DEF TypeOK
<1>14. raised' \in [Bucket -> SUBSET Nat]
  BY <1>1, <1>3, <1>13 DEF TypeOK
<1>15. TypeOK'
  BY <1>2, <1>3, <1>4, <1>8, <1>12, <1>13, <1>14 DEF TypeOK
<1>16. LatchInv'
  BY <1>5, <1>8, <1>9, <1>10 DEF LatchInv
<1>17. BackingInv'
  <2>1. /\ since["timed"] \in Nat /\ since["requested"] \in Nat /\ checkpoints \in Nat
        /\ since["timed"] + since["requested"] >= 1
    <3>1. prev # None /\ Delta(prev, pg)["timed"] + Delta(prev, pg)["requested"] # 0
      BY <1>1, <1>3, ClassifiedMeans
    <3>2. /\ pg["timed"] \in Nat /\ pg["requested"] \in Nat
          /\ prev["timed"] \in Nat /\ prev["requested"] \in Nat
          /\ since["timed"] \in Nat /\ since["requested"] \in Nat /\ checkpoints \in Nat
      <4>1. pg \in Snapshot /\ prev \in Snapshot /\ since \in Snapshot /\ checkpoints \in Nat
        BY <1>3, <3>1 DEF TypeOK
      <4>2. QED
        BY <4>1 DEF Snapshot, Field
    <3>3. /\ SaturatingSub(pg["timed"], prev["timed"]) <= since["timed"]
          /\ SaturatingSub(pg["requested"], prev["requested"]) <= since["requested"]
      BY <3>1 DEF IInv, DeltaInv, Field
    <3>4. SaturatingSub(pg["timed"], prev["timed"])
            + SaturatingSub(pg["requested"], prev["requested"]) # 0
      BY <3>1 DEF Delta, Field
    <3>5. QED
      BY <3>2, <3>3, <3>4 DEF SaturatingSub
  <2>2. /\ Len(findings) * RunLength \in Nat /\ Building \in Nat
        /\ (Len(findings) + 1) * RunLength = Len(findings) * RunLength + RunLength
    BY <1>5, <1>12, TimesSucc DEF Building
  <2>3. Len(findings) * RunLength + Building + (since["timed"] + since["requested"]) <= checkpoints
    BY DEF IInv, BackingInv
  <2>4. ~k.fired => k.streak <= Building
    <3>1. SUFFICES ASSUME ~k.fired, streak.current = b PROVE k.streak <= Building
      BY <1>5, <1>7, <2>2
    <3>2. streak.fired_for # b
      BY <1>7, <3>1
    <3>3. streak.fired_for = None
      BY <1>3, <1>5, <3>1, <3>2 DEF LatchInv
    <3>4. QED
      BY <1>5, <1>7, <3>1, <3>3 DEF Building
  <2>5. Building' = IF n.fired THEN 0 ELSE streak'.streak
    BY <1>5, <1>8, <1>9 DEF Building
  <2>6. CASE JustFired(streak, b)
    <3>1. Building' = 0 /\ Len(findings') = Len(findings) + 1
          /\ k.streak = RunLength - 1 /\ ~k.fired
      BY <1>6, <1>10, <1>12, <2>5, <2>6
    <3>2. Len(findings') * RunLength = Len(findings) * RunLength + RunLength
      BY <2>2, <3>1
    <3>3. QED
      BY <1>2, <1>4, <1>5, <2>1, <2>2, <2>3, <2>4, <3>1, <3>2 DEF BackingInv
  <2>7. CASE ~JustFired(streak, b)
    <3>1. Len(findings') = Len(findings) /\ (n.fired \/ ~k.fired)
      BY <1>10, <1>12, <2>7
    <3>2. Building' <= Building + 1 /\ Building' \in Nat
      BY <1>5, <1>6, <1>9, <1>10, <1>11, <2>2, <2>4, <2>5, <3>1
    <3>3. Len(findings') * RunLength = Len(findings) * RunLength
      BY <3>1
    <3>4. Len(findings') * RunLength + Building' + 0 <= checkpoints
      BY <2>1, <2>2, <2>3, <3>2, <3>3
    <3>5. QED
      BY <1>2, <1>4, <3>4 DEF BackingInv
  <2>8. QED
    BY <2>6, <2>7
<1>18. HistInv'
  <2>1. SUFFICES ASSUME NEW c \in Bucket
                 PROVE  /\ TrailingRun(HistoryOf(c)', CounterOf(c)'.streak)
                        /\ raised'[c] = E!FireInstants(HistoryOf(c)')
    BY DEF HistInv, TrailingRun, E!FireInstants, E!CompletesRun
  <2>2. /\ HistoryOf(c) \in Seq(BOOLEAN) /\ Len(HistoryOf(c)) = Len(classified)
        /\ HistoryOf(c)' = Append(HistoryOf(c), b = c)
    BY <1>1, <1>3, HistoryGrows
  <2>3. /\ CounterOf(c) \in Counter
        /\ CounterOf(c).fired <=> CounterOf(c).streak >= RunLength
        /\ CounterOf(c)' = Observe(CounterOf(c), b = c)
        /\ JustFires(CounterOf(c), b = c) <=> c = b /\ JustFired(streak, b)
    BY <1>1, <1>3, StreakIsCounter
  <2>4. TrailingRun(HistoryOf(c), CounterOf(c).streak) /\ raised[c] = E!FireInstants(HistoryOf(c))
    BY DEF IInv, HistInv
  <2>5. PICK v \in BOOLEAN : v = (b = c)
    OBVIOUS
  <2>6. /\ TrailingRun(Append(HistoryOf(c), v), Observe(CounterOf(c), v).streak)
        /\ E!FireInstants(Append(HistoryOf(c), v)) =
             E!FireInstants(HistoryOf(c))
               \cup (IF JustFires(CounterOf(c), v) THEN {Len(HistoryOf(c)) + 1} ELSE {})
    BY <2>2, <2>3, <2>4, AlarmStep
  <2>7. raised'[c] = raised[c] \cup (IF JustFires(CounterOf(c), v) THEN {Len(classified) + 1} ELSE {})
    <3>1. CASE c = b /\ JustFired(streak, b)
      BY <1>1, <1>3, <1>12, <2>3, <2>5, <3>1 DEF TypeOK
    <3>2. CASE ~(c = b /\ JustFired(streak, b))
      BY <1>1, <1>3, <1>12, <2>3, <2>5, <3>2 DEF TypeOK
    <3>3. QED
      BY <3>1, <3>2
  <2>8. QED
    BY <2>2, <2>3, <2>4, <2>5, <2>6, <2>7
<1>19. QED
  BY <1>4, <1>15, <1>16, <1>17, <1>18 DEF IInv

LEMMA NextKeeps ==
  ASSUME IInv, [Next]_vars
  PROVE  IInv'
<1>1. CASE PollFails \/ UNCHANGED vars
  <2>1. UNCHANGED <<pg, prev, streak, findings, checkpoints, since, resetSince, classified, raised>>
    BY <1>1 DEF PollFails, vars, collectorVars, tickHistory
  <2>2. TypeOK' /\ DeltaInv'
    BY <2>1 DEF IInv, TypeOK, DeltaInv
  <2>3. BackingInv'
    BY <2>1, StreakIdle DEF IInv, BackingInv
  <2>4. QED
    BY <2>1, <2>2, <2>3, StreakIdle DEF IInv
<1>2. QED
  BY <1>1, CheckpointKeeps, ResetKeeps, QuietKeeps, ClassifiedKeeps DEF Next

(* The inductive invariant of the checkpoint-storm rule. *)
THEOREM CheckpointInvariance == Spec => []IInv
<1>1. Init => IInv
  BY InitIInv
<1>2. IInv /\ [Next]_vars => IInv'
  BY NextKeeps
<1>3. QED
  BY <1>1, <1>2, PTL DEF Spec

(* classify's saturating deltas never exceed what Postgres did since the   *)
(* last good poll, and are exact unless the statistics were reset.         *)
THEOREM SoundDeltas == Spec => []DeltasAreSound
<1>1. IInv => DeltasAreSound
  <2>1. SUFFICES ASSUME IInv, prev # None, NEW f \in Field
                 PROVE  /\ SaturatingSub(pg[f], prev[f]) <= since[f]
                        /\ ~resetSince => SaturatingSub(pg[f], prev[f]) = since[f]
    BY DEF DeltasAreSound, Delta
  <2>2. prev[f] \in Nat /\ pg[f] \in Nat /\ since[f] \in Nat
    BY <2>1 DEF IInv, TypeOK, Snapshot
  <2>3. SaturatingSub(pg[f], prev[f]) <= since[f] /\ (~resetSince => pg[f] = prev[f] + since[f])
    BY <2>1 DEF IInv, DeltaInv
  <2>4. QED
    BY <2>2, <2>3 DEF SaturatingSub
<1>2. QED
  BY <1>1, CheckpointInvariance, PTL

(* A Finding of the rule stands for RunLength checkpoints of its own:      *)
(* neither resets nor failed polls can fire it without checkpoints.        *)
THEOREM CheckpointsBackFindings == Spec => []FindingsBacked
<1>1. IInv => FindingsBacked
  <2>1. SUFFICES ASSUME IInv PROVE FindingsBacked
    OBVIOUS
  <2>2. Len(findings) \in Nat /\ RunLength \in Nat /\ Building \in Nat /\ checkpoints \in Nat
        /\ since["timed"] \in Nat /\ since["requested"] \in Nat
    BY <2>1, StreakTypes DEF IInv, TypeOK, Snapshot, Field, Building
  <2>3. Len(findings) * RunLength \in Nat
    BY <2>2, TimesSucc
  <2>4. QED
    BY <2>1, <2>2, <2>3 DEF IInv, BackingInv, FindingsBacked
<1>2. QED
  BY <1>1, CheckpointInvariance, PTL

(* DominantStreak::observe fires once per run of RunLength or more         *)
(* classifications as one bucket, at the one that completes it.            *)
THEOREM OncePerRun == Spec => []FiresOncePerRun
<1>1. IInv => FiresOncePerRun
  BY DEF IInv, HistInv, HistoryOf, FiresOncePerRun, E!FireInstants, E!CompletesRun,
         Alarm!FireInstants, Alarm!CompletesRun
<1>2. QED
  BY <1>1, CheckpointInvariance, PTL
=============================================================================
