--------------------------- MODULE CheckpointStorm ---------------------------
(***************************************************************************)
(* The storage.checkpoint.storm rule: the polling loop and DominantStreak  *)
(* of pgsleuth-cli/src/checkpoint_storm.rs over the classifier of          *)
(* pgsleuth-postgres/src/stat_checkpointer.rs.                             *)
(*                                                                         *)
(* The collector polls cumulative counters that Postgres advances, and may *)
(* reset, at any time between two polls; a poll may fail, and then the     *)
(* tick is skipped and the next delta spans several intervals.             *)
(***************************************************************************)
EXTENDS BreachCounter, Sequences

CONSTANTS
  Work,             \* the [write, sync, fpi] a checkpoint may cost
  FpiFlood,         \* full-page images per checkpoint that make a flood (1_000)
  None,             \* no snapshot yet, no bucket
  MaxCheckpoints    \* bound: checkpoints Postgres completes

Bucket == {"WritePhaseDominant", "SyncPhaseDominant", "Forced", "FpwFlood"}
Field  == {"timed", "requested", "write", "sync", "fpi"}
Snapshot == [Field -> Nat]

ASSUME CheckpointAssumption ==
  /\ Work \subseteq [{"write", "sync", "fpi"} -> Nat]
  /\ FpiFlood \in Nat \ {0}
  /\ None \notin Bucket
  /\ MaxCheckpoints \in Nat

VARIABLES
  pg,            \* pg_stat_checkpointer and pg_stat_wal, cumulative
  prev,          \* the last snapshot polled, or None
  streak,        \* DominantStreak: [current, streak, fired_for]
  findings,      \* the Findings handed to the log emitter
  \* history, for the properties only
  checkpoints,   \* checkpoints completed so far
  since,         \* what Postgres really did since the last good poll
  resetSince,    \* its statistics were reset since then
  classified,    \* the buckets observe() was fed, in order
  raised         \* raised[b]: the classifications that fired for b

collectorVars == <<prev, streak, findings>>
tickHistory   == <<classified, raised>>
vars == <<pg, collectorVars, checkpoints, since, resetSince, tickHistory>>

Zero == [f \in Field |-> 0]
Streak == [current : Bucket \cup {None}, streak : 0 .. CounterMax,
           fired_for : Bucket \cup {None}]

-----------------------------------------------------------------------------
(* Mutant: the distance between two readings, whichever is larger. *)
AbsDiff(a, b) == IF a > b THEN a - b ELSE b - a

(* u64::saturating_sub, and (cur - prev).max(0.0) for the times. *)
SaturatingSub(a, b) == IF a > b THEN a - b ELSE 0

Delta(p, c) == [f \in Field |-> SaturatingSub(c[f], p[f])]

(* classify: the dominant bucket between two snapshots, or None.  The      *)
(* 1.5x margin between the phases is 2a > 3b.                              *)
Dominates(a, b) == 2 * a > 3 * b

Classify(p, c) ==
  LET d == Delta(p, c)
      n == d["timed"] + d["requested"]
  IN  CASE n = 0 -> None
        [] n > 0 /\ d["requested"] > d["timed"] -> "Forced"
        [] OTHER ->
             CASE Dominates(d["write"], d["sync"]) -> "WritePhaseDominant"
               [] Dominates(d["sync"], d["write"]) -> "SyncPhaseDominant"
               [] OTHER -> IF d["fpi"] \div n >= FpiFlood THEN "FpwFlood" ELSE None

(* prev.and_then(classify): the first poll has nothing to compare with.    *)
BucketNow == IF prev = None THEN None ELSE Classify(prev, pg)

(* Mutant: the streak survives a change of bucket. *)
StreakAcrossBuckets(s, b) == SaturatingSucc(s.streak)

(* DominantStreak::observe of a classification b # None.                   *)
StreakAfter(s, b) == IF s.current = b THEN SaturatingSucc(s.streak) ELSE 1
FiredFor(s, b)    == IF s.current = b THEN s.fired_for ELSE None

(* Mutant: fired_for survives a change of bucket. *)
ObserveKeepsFiredFor(s, b) ==
  [current   |-> b,
   streak    |-> StreakAfter(s, b),
   fired_for |-> IF StreakAfter(s, b) >= FireAfter THEN b ELSE s.fired_for]

ObserveBucket(s, b) ==
  [current   |-> b,
   streak    |-> StreakAfter(s, b),
   fired_for |-> IF StreakAfter(s, b) >= FireAfter THEN b ELSE FiredFor(s, b)]

JustFired(s, b) == StreakAfter(s, b) >= FireAfter /\ FiredFor(s, b) # b

-----------------------------------------------------------------------------
Init ==
  /\ pg = Zero
  /\ prev = None
  /\ streak = [current |-> None, streak |-> 0, fired_for |-> None]
  /\ findings = <<>>
  /\ checkpoints = 0
  /\ since = Zero /\ resetSince = FALSE
  /\ classified = <<>>
  /\ raised = [b \in Bucket |-> {}]

Plus(s, kind, w) ==
  [f \in Field |-> CASE f \in DOMAIN w -> s[f] + w[f]
                     [] f = kind       -> s[f] + 1
                     [] OTHER          -> s[f]]

(* Postgres completes a timed or a requested checkpoint.                   *)
Checkpoint(kind, w) ==
  /\ checkpoints < MaxCheckpoints
  /\ checkpoints' = checkpoints + 1
  /\ pg' = Plus(pg, kind, w)
  /\ since' = Plus(since, kind, w)
  /\ UNCHANGED <<collectorVars, resetSince, tickHistory>>

(* pg_stat_reset_shared('checkpointer') or ('wal'), or a crash restart.    *)
ResetStats(fields) ==
  /\ pg' = [f \in Field |-> IF f \in fields THEN 0 ELSE pg[f]]
  /\ resetSince' = TRUE
  /\ UNCHANGED <<collectorVars, checkpoints, since, tickHistory>>

(* A tick whose poll fails is skipped: prev and the streak stay, and the   *)
(* next delta spans one more interval.                                     *)
PollFails == UNCHANGED vars

(* A tick whose poll succeeds but that classifies nothing: no previous     *)
(* snapshot, no checkpoint, or no dominant pattern.  NoClassification.     *)
QuietTick ==
  /\ BucketNow = None
  /\ prev' = pg
  /\ since' = Zero /\ resetSince' = FALSE
  /\ UNCHANGED <<pg, streak, findings, checkpoints, classified, raised>>

(* A tick that classifies: feed the streak, emit if it has just fired.     *)
ClassifiedTick ==
  /\ \E b \in Bucket :
       /\ b = BucketNow
       /\ streak' = ObserveBucket(streak, b)
       /\ findings' = IF JustFired(streak, b)
                      THEN Append(findings, [bucket |-> b, streak |-> streak'.streak])
                      ELSE findings
       /\ raised' = IF findings' = findings THEN raised
                    ELSE [raised EXCEPT ![b] = @ \cup {Len(classified) + 1}]
       /\ classified' = Append(classified, b)
  /\ prev' = pg
  /\ since' = Zero /\ resetSince' = FALSE
  /\ UNCHANGED <<pg, checkpoints>>

Next ==
  \/ \E kind \in {"timed", "requested"}, w \in Work : Checkpoint(kind, w)
  \/ \E fields \in {{"timed", "requested", "write", "sync"}, {"fpi"}, Field} : ResetStats(fields)
  \/ PollFails \/ QuietTick \/ ClassifiedTick

Spec == Init /\ [][Next]_vars

-----------------------------------------------------------------------------
TypeOK ==
  /\ pg \in Snapshot
  /\ prev \in Snapshot \cup {None}
  /\ streak \in Streak
  /\ findings \in Seq([bucket : Bucket, streak : 0 .. CounterMax])
  /\ checkpoints \in 0 .. MaxCheckpoints
  /\ since \in Snapshot /\ resetSince \in BOOLEAN
  /\ classified \in Seq(Bucket)
  /\ raised \in [Bucket -> SUBSET Nat]

(* The rule for bucket b, seen over the classified ticks only, keeps the   *)
(* promise of an EpisodeAlarm: one Finding per run of at least fire_after  *)
(* consecutive classifications as b, at the one that completes it, however *)
(* long the run lasts; another bucket re-arms it (DominantStreak observe). *)
Alarm(b) == INSTANCE EpisodeAlarm WITH
              N <- RunLength,
              history <- [i \in 1 .. Len(classified) |-> classified[i] = b],
              raised <- raised[b]

FiresOncePerRun ==
  \A b \in Bucket :
    raised[b] = Alarm(b)!FireInstants([i \in 1 .. Len(classified) |-> classified[i] = b])

(* The deltas a tick would classify never exceed what Postgres did since   *)
(* the last good poll, and are exact unless the statistics were reset      *)
(* (stat_checkpointer.rs classify: saturating_sub, max(0.0)).              *)
DeltasAreSound ==
  prev # None =>
    \A f \in Field : /\ Delta(prev, pg)[f] <= since[f]
                     /\ ~resetSince => Delta(prev, pg)[f] = since[f]

(* Every Finding is backed by RunLength classified ticks, each with a      *)
(* checkpoint of its own: neither resets nor failed polls can fire the     *)
(* rule without checkpoints.                                               *)
FindingsBacked == Len(findings) * RunLength <= checkpoints
=============================================================================
