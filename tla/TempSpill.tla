------------------------------ MODULE TempSpill ------------------------------
(***************************************************************************)
(* The storage.temp_spill.capacity rule: pgsleuth-cli/src/temp_spill.rs.   *)
(*                                                                         *)
(* A tick walks base/pgsql_tmp adding up file sizes, then asks statvfs for *)
(* the mount's free space, while Postgres creates, grows and unlinks temp  *)
(* files and other programs use the same mount.  A directory that does not *)
(* exist is one without files.  A latch keeps the rule at one Finding per  *)
(* episode.                                                                *)
(***************************************************************************)
EXTENDS Naturals, Sequences, Functions

CONSTANTS
  File,                \* temp files Postgres may have, by name
  FileSizes,           \* their sizes
  OtherUse,            \* what other programs may occupy on the mount
  MountTotal,          \* the size of the mount
  FootprintThreshold,  \* footprint_threshold_bytes
  FreeThresholdPct,    \* free_threshold_pct, 0 for "disabled"
  MaxSamples           \* bound: samples evaluated

ASSUME SpillAssumption ==
  /\ FileSizes \subseteq Nat \ {0} /\ OtherUse \subseteq Nat
  /\ MountTotal \in Nat
  /\ FootprintThreshold \in Nat
  /\ FreeThresholdPct \in 0 .. 255
  /\ MaxSamples \in Nat

VARIABLES
  size,       \* size[f], for the files present
  other,      \* space other programs occupy
  pc,         \* "idle", "walking" or "sizing"
  owed,       \* the entries the directory still has to yield to the walk
  visited,    \* the entries it has yielded
  total,      \* the footprint added up so far
  firing,     \* the latch
  \* history, for the properties only
  quiet,      \* nothing changed, and no file was unreadable, since the walk began
  verdicts,   \* verdicts[i]: the i-th sample breached
  alarms      \* the samples that raised a Finding

disk == <<size, other>>
walk == <<owed, visited, total>>
samples == <<verdicts, alarms>>
capacityVars == <<disk, pc, walk, firing, quiet, samples>>

Footprint(s) == FoldFunction(+, 0, s)
Fits(s, n)   == Footprint(s) + n <= MountTotal
Available    == MountTotal - (Footprint(size) + other)

-----------------------------------------------------------------------------
(* Mutant: rounded up. *)
FreePctCeiling(avail) ==
  IF MountTotal = 0 THEN 100 ELSE (avail * 100 + MountTotal - 1) \div MountTotal

(* free_pct: truncated, at most u8::MAX; 100 for an empty mount.           *)
FreePct(avail) ==
  IF MountTotal = 0 THEN 100
  ELSE LET pct == (avail * 100) \div MountTotal IN IF pct > 255 THEN 255 ELSE pct

(* breaches: either trigger is enough.                                     *)
Breaches ==
  \/ total > FootprintThreshold
  \/ FreeThresholdPct > 0 /\ FreePct(Available) < FreeThresholdPct

CapacityInit ==
  /\ size = [f \in {} |-> 0]
  /\ other \in {n \in OtherUse : n <= MountTotal}
  /\ pc = "idle"
  /\ owed = {} /\ visited = {} /\ total = 0
  /\ firing = FALSE
  /\ quiet = TRUE
  /\ verdicts = <<>> /\ alarms = {}

(* Postgres creates a temp file or changes its size.                       *)
WriteFile(f, n) ==
  LET s == [g \in DOMAIN size \cup {f} |-> IF g = f THEN n ELSE size[g]] IN
  /\ s # size /\ Fits(s, other)
  /\ size' = s
  /\ quiet' = FALSE
  /\ UNCHANGED <<other, pc, walk, firing, samples>>

(* Postgres unlinks one; the directory need not yield it any more.         *)
UnlinkFile(f) ==
  /\ f \in DOMAIN size
  /\ size' = Restrict(size, DOMAIN size \ {f})
  /\ owed' = owed \ {f}
  /\ quiet' = FALSE
  /\ UNCHANGED <<other, pc, visited, total, firing, samples>>

OthersUse(n) ==
  /\ n # other /\ Fits(size, n)
  /\ other' = n
  /\ UNCHANGED <<size, pc, walk, firing, quiet, samples>>

(* A tick: the walk starts.  Files already there will be yielded unless    *)
(* they are unlinked first; files created meanwhile may or may not be.     *)
BeginWalk ==
  /\ pc = "idle" /\ pc' = "walking"
  /\ Len(verdicts) < MaxSamples
  /\ owed' = DOMAIN size /\ visited' = {} /\ total' = 0
  /\ quiet' = TRUE
  /\ UNCHANGED <<disk, firing, samples>>

(* The walk yields an entry whose metadata can be read.                    *)
VisitFile(f) ==
  /\ pc = "walking"
  /\ f \in DOMAIN size \ visited
  /\ total' = total + size[f]
  /\ visited' = visited \cup {f} /\ owed' = owed \ {f}
  /\ UNCHANGED <<disk, pc, firing, quiet, samples>>

(* It yields an error, or an entry without metadata: the entry is skipped. *)
SkipFile(f) ==
  /\ pc = "walking"
  /\ f \in DOMAIN size \ visited
  /\ visited' = visited \cup {f} /\ owed' = owed \ {f}
  /\ quiet' = FALSE
  /\ UNCHANGED <<disk, pc, total, firing, samples>>

(* Mutant: the walk stops at its first entry. *)
EndWalkEarly ==
  /\ pc = "walking" /\ pc' = "sizing"
  /\ owed = {} \/ visited # {}
  /\ UNCHANGED <<disk, walk, firing, quiet, samples>>

EndWalk ==
  /\ pc = "walking" /\ pc' = "sizing"
  /\ owed = {}
  /\ UNCHANGED <<disk, walk, firing, quiet, samples>>

(* Mutant: a failed sample re-arms the latch. *)
StatvfsFailsRearms ==
  /\ pc = "sizing" /\ pc' = "idle"
  /\ firing' = FALSE
  /\ UNCHANGED <<disk, walk, quiet, samples>>

(* statvfs fails: the sample is thrown away and the tick skipped.          *)
StatvfsFails ==
  /\ pc = "sizing" /\ pc' = "idle"
  /\ UNCHANGED <<disk, walk, firing, quiet, samples>>

(* statvfs answers: judge the sample and move the latch.                   *)
EvaluateSample ==
  /\ pc = "sizing" /\ pc' = "idle"
  /\ firing' = Breaches
  /\ alarms' = IF Breaches /\ ~firing THEN alarms \cup {Len(verdicts) + 1} ELSE alarms
  /\ verdicts' = Append(verdicts, Breaches)
  /\ UNCHANGED <<disk, walk, quiet>>

Postgres == \E f \in File : UnlinkFile(f) \/ \E n \in FileSizes : WriteFile(f, n)
Walk == BeginWalk \/ (\E f \in File : VisitFile(f) \/ SkipFile(f)) \/ EndWalk

CapacityNext ==
  \/ Postgres \/ \E n \in OtherUse : OthersUse(n)
  \/ Walk \/ StatvfsFails \/ EvaluateSample

CapacitySpec == CapacityInit /\ [][CapacityNext]_capacityVars

-----------------------------------------------------------------------------
CapacityAlarm == INSTANCE EpisodeAlarm WITH
                   N <- 1, history <- verdicts, raised <- alarms

(* temp_spill.rs:187-188, "emit one Finding per breach episode": the latch *)
(* implements the alarm of one interval over the samples that were taken,  *)
(* and a failed sample neither ends an episode nor starts one.             *)
OneFindingPerEpisode == CapacityAlarm!Spec

(* A walk that nothing disturbs measures the footprint exactly: each file  *)
(* once, none left out.                                                    *)
QuietWalkIsExact == pc = "sizing" /\ quiet => total = Footprint(size)

(* Truncating the percentage never changes the verdict on the free space.  *)
TruncationIsHarmless ==
  MountTotal > 0 =>
    (FreePct(Available) < FreeThresholdPct <=> Available * 100 < FreeThresholdPct * MountTotal)
=============================================================================
