# pgsleuth in TLA+

Models, model-checking runs and proofs of the alarm machinery of pgsleuth, a
PostgreSQL diagnostics agent written in Rust. Every definition is translated
from the source under `src/crates/`; `PROJECT.json` gives, for each, the lines
it stands for.

## The system

pgsleuth watches a Postgres server and raises *Findings*. Two programs do the
watching:

* the **loader** (`pgsleuth-ebpf-loader`), a single tokio task that loads the
  eBPF programs of `pgsleuth-ebpf`, drains their ring buffers, evaluates the
  `storage.wal.fsync.jitter` rule once per interval and attributes temp-file
  spills to processes;
* the **agent CLI** (`pgsleuth-cli`), whose subcommands each run one polling
  loop: `checkpoint-storm`, `connection-storm`, `cgroup-throttle`,
  `temp-spill`, `pg-stat-statements`, `pg-stat-activity`.

Both hand Findings to `pgsleuth-otel`, which batches them to an OTLP collector.

### Inventory

| Component | State | Operations | Talks to | Hard behaviour | What makes it correct |
|---|---|---|---|---|---|
| Breach counter, `pgsleuth-core/src/window.rs` | `streak: u32`, `fired_this_run` | `observe` | owned by three rules | saturation, `fire_after = 0`, re-arming | one alarm per run of N breaches, at its N-th |
| Latency probes, `pgsleuth-ebpf/src/main.rs` | `INFLIGHT` map | `block_rq_issue`, `block_rq_complete` | kernel block layer, ring buffer | run on every CPU at once; get and remove are two calls; keys may collide; map and ring fill up | a sample is the request's own, or at least not stale; no leaks |
| `LATENCY_EVENTS` ring + `AsyncFd` | submitted events, readiness | reserve/submit, `readable_mut`, `next`, `clear_ready` | probes, loader | the kernel submits during a drain; drops when full | no lost wakeup |
| Loader, fsync-jitter rule | sample window, breach counter, interval timer | latency arm, tick arm, Ctrl+C | ring, emitter | arms interleave with the kernel | a breach is a slow majority; Findings are backed by samples; implements the abstract alarm |
| Loader, spill attribution | `seen_spills` set | temp-file arm | `TEMP_FILE_EVENTS`, emitter | grows for ever; PID reuse | one Finding per (pid, path) |
| Loader, start-up | `FILTER_CONFIG`, attached programs | discovery through `pgsleuth_wal_device()` and `pgsleuth_postmaster_pid()`, attach | Postgres, kernel | discovery fails; partial attach | filter set before any program runs |
| Checkpoint-storm rule, `checkpoint_storm.rs`, `stat_checkpointer.rs` | previous snapshot, `DominantStreak` | tick | Postgres views | statistics reset between polls; failed polls; alternating buckets | deltas never exceed the work done; one Finding per run of a bucket |
| Connection-storm rule, `connection_storm.rs`, `stat_activity.rs` | breach counter | tick (four queries) | Postgres | clients come and go during a poll; any query may fail; the connection is never repaired | one Finding per storm; a storm that lasts is reported |
| Cgroup-throttle rule, `cgroup_throttle.rs` | previous `cpu.stat`, breach counter | tick | cgroup file system | failed reads make a delta span intervals; counters restart | Findings are backed by throttled time |
| Temp-spill capacity rule, `temp_spill.rs` | `firing` latch | tick (walk + statvfs) | file system | Postgres creates and unlinks files during the walk | one Finding per episode |
| Statement collector, `collect_pg_stmt.rs`, `stat_statements.rs` | previous counters per `queryid` | tick | Postgres, metrics | resets, evictions, one `queryid` in several rows | the metric never exceeds what was executed, and misses nothing Postgres kept |
| Emitters, `pgsleuth-otel`, and how both programs stop | batch queue | `emit`, `shutdown`, Ctrl+C | collector | signal before a flush, or while nobody listens; `shutdown` blocks a thread of the runtime it needs | a graceful stop loses nothing and returns; every Finding is settled |
| `classify_rwbs`, `pgsleuth-ebpf/src/main.rs` | the trace buffer it reads | one call per completion | kernel, rule, histogram | stale bytes after the NUL | each class holds its own I/Os |
| pg extension, xtask, brain, dashboards, infra | none of the agent's | | | | |

## Modules

| Module | Models | Proofs |
|---|---|---|
| `BreachCounter` | `ConsecutiveBreachCounter`: `Counter` is the struct, `Observe` the state change and `Verdict` the returned `BreachState` of `observe()` | |
| `Episodes`, `EpisodeAlarm` | abstract: a history of verdicts, and the alarm that raises one Finding per run of `N` | |
| `Percentile` | `p50_ns`: a sample's place in the sorted copy is its rank | |
| `RuleLemmas` | lemmas: why a saturating streak and a latch recognise runs, what a median above a value says of the samples, arithmetic, and least counterexamples | yes |
| `LatencyRing` | the ring buffer and the readiness of its file descriptor | |
| `FsyncJitter` | the latency arm, tick arm and Ctrl+C arm of the loader's `select!` loop, over `LatencyRing`, `BreachCounter` and `Percentile`, against the kernel | |
| `FsyncEpisodes` | `FsyncJitter` with a history of its ticks, refined to `EpisodeAlarm` | |
| `FsyncProofs` | invariance and refinement of the two modules above | yes |
| `BlockIo` | the two block-layer programs, their clock and map helpers as steps of their own, and `classify_rwbs`, over `LatencyRing` | |
| `WalLatency` | `BlockIo` and `FsyncJitter` on one ring, with the latency histogram of a loader that has a metrics emitter; refined to each | |
| `WalProofs` | invariance of `BlockIo`, both refinements of the composition, the path of a sample from the probe to a Finding, no lost wakeup | yes |
| `CheckpointStorm` | polling loop, `classify` and `DominantStreak`, against Postgres | |
| `CheckpointProofs` | its invariance | yes |
| `StmtDeltas` | the `pg_stat_statements` collector against a view that is executed into, evicted from and reset | |
| `StmtProofs` | its invariance, when no two rows share a `queryid` | yes |
| `CgroupThrottle` | polling loop and `breach_value` over a `cpu.stat` that restarts or cannot be read, refined to `EpisodeAlarm` | |
| `ConnectionStorm` | polling loop over the four queries of `stat_activity::poll`, refined to `EpisodeAlarm` over the polls that succeed | |
| `TempSpill` | directory walk, `statvfs`, triggers and latch, refined to `EpisodeAlarm` with `N = 1` | |
| `PollRuleProofs` | invariance and refinement of `CgroupThrottle`, `ConnectionStorm` and `TempSpill` | yes |
| `LoaderStartup` | discovery, filter resolution, `FILTER_CONFIG`, attachment | |
| `SpillAttribution` | the openat and unlinkat probes, their ring and the temp-file arm, on top of `LoaderStartup` and `LatencyRing` | |
| `SpillProofs` | invariance of start-up and attribution | yes |
| `FindingDelivery` | emit, export, shutdown and signals, of the loader and of the agent, each on its kind of runtime | |
| `DeliveryProofs` | its invariance | yes |
| `MC*` | small instances for TLC | |

How state and actions correspond to the code:

* **`FsyncJitter`.** `pc` says where the loader's task is: `"select"` between
  two polls of `select!`, `"draining"` inside `while let Some(item) =
  rb.next()`, `"clearing"` between `None` and `clear_ready()`, `"stopped"`
  after Ctrl+C. The tick arm contains no `await` and touches nothing the
  kernel touches, so it is one action; the latency arm is four
  (`BeginDrain`, `DrainOne`, `EndDrain`, `ClearGuard`) because the kernel can
  submit between any two of them. `tickDue` is tokio's interval with
  `MissedTickBehavior::Skip`: at most one tick is waiting. `KernelSample` is
  the tail of `block_rq_complete`: it submits or, on a full ring, drops. It
  never stops; past `MaxOffered` samples it goes on with reads and other
  operations, which the rule does not judge and the drain must take all the same.
* **`BlockIo`.** A request goes `new → issuing → device → found → timed →
  done`. `Issue` runs the issue probe up to `bpf_ktime_get_ns`, `StoreTimestamp`
  is `INFLIGHT.insert`, `LookUp` is `INFLIGHT.get`, `DeleteEntry` is
  `INFLIGHT.remove`, `EmitSample` reads the clock again, reserves and submits,
  in one step, since these share nothing with another probe but the ring. Probes
  of different requests interleave at those points, as they do on several CPUs.
  The kernel runs a request's issue probe before the device gets the request,
  so a request's own two probes never overlap. History variables record whose
  timestamp is where; no guard reads them. `Classify` is `classify_rwbs`: the
  kernel's string is its first letter and the set of the others, and the scan
  for F and A goes on past its NUL, where the trace buffer may hold either.
* **`WalLatency`.** The programs run beside the loop and fill the ring it
  drains. `KernelStep` is any step of `BlockIo`'s probes, `RecordAndPush` is
  `DrainOne` of the loop together with `record_wal_io_latency`, `LoopStep` its
  other steps. `metrics` says whether the metrics emitter was built; only then
  does `RecordLatency` add to `histogram`, under the label of `op_class_str`.
  `drained` is history: every sample taken out of the ring. The loop starts when
  both programs are attached.
* **`CheckpointStorm`.** `pg` holds the cumulative counters; Postgres may
  complete checkpoints, and an administrator or a crash may reset the
  statistics, between any two polls. A tick is `PollFails`, `QuietTick`
  (nothing to classify) or `ClassifiedTick`. `classify`'s `1.5×` margin on
  floating-point times is `2a > 3b` on integers.
* **`StmtDeltas`.** One row stands for a (user, database, query); `calls`
  stands for the five counters, which the code treats alike. `Poll` copies the
  view, `EmitRow` is one iteration of `emit_deltas`, so Postgres goes on between
  rows. A poll that fails is a stuttering step.
* **`CgroupThrottle`.** A tick is `ReadFails` (nothing changes) or `Tick`; ticks
  missed meanwhile are skipped, so several intervals may pass before one.
  History records the throttled time since the last good read, how many
  intervals it covers, and the verdicts of the good readings, over which the
  rule is an `EpisodeAlarm`.
* **`ConnectionStorm`.** `query` is the query a poll awaits; clients connect and
  disconnect between any two, `QueryFails` abandons the poll, `ConnectionLost`
  makes every later one fail. `judged` and `reports` are history: the verdicts
  of the first `MaxJudged` polls that succeed and which of them fired.
* **`TempSpill`.** The walk visits one entry at a time; `owed` are the entries
  the directory must still yield, so a file created meanwhile may or may not be
  seen and an unlinked one may already have been. `EndWalk` to `EvaluateSample` is
  `statvfs`, which may fail.
* **`LoaderStartup`, `SpillAttribution`.** `stage` is where `main` is before the
  `select!` loop, `attached` how far the five attachments have got. A process
  enters a syscall at any time; the probe runs if it is attached. The path may
  be unreadable, the ring full. `None` is an option that is absent and `Off` the
  number 0, a filter that is off: `--pid 0` and `--dev-t 0` are given options
  that win over what was discovered. `Negative` is a `postmaster_pid` that
  `u32::try_from` rejects; the filter is then off. The temp-file arm has the shape of the latency
  arm.
* **`FindingDelivery`.** `heard` is the notification of the `ctrl_c()` future
  that the current `select!` waits on; `ArmRuns` drops it with the other
  futures. `closing` and `flushing` are the end of `main` after the loop, where
  the metrics and the log emitter are shut down. `ExportBatch(n)` is the batch
  task exporting the oldest `n` records; `shutdown()` is one with all of them,
  delivered or refused (an `Err` of the provider is logged and dropped), and
  needs a thread for that task: `ThreadForBatchTask` has one always in the
  loader, and in the agent, which is `current_thread`, only while `main`
  awaits.

## Runs

| Run | What it asks | What it shows |
|---|---|---|
| `fsync_jitter` | is anything lost, counted twice or misjudged between the ring and a Finding, is every sample drained and every window judged, and does the rule keep its promise over a whole run? | `NoLostWakeup`, `BreachIsMajority`, `FindingsBacked`, `FindingEvidence` hold with the kernel submitting at every point of a drain and the ring overflowing; the ring is drained, and the window judged if no drain lasts for ever, unless the operator stops the loader; the rule implements `EpisodeAlarm`, through saturation and re-arming |
| `wal_latency` | from the issue of an I/O to the Finding: is each sample the request's own, what is left when keys collide, which I/Os does the rule judge, and is a Finding true of the disk? | under every interleaving, with a full map, a device filter and late attachment, no sample is stale and only the attach window leaks entries; until two requests in flight have shared a key, each sample is the request's own, a miss is explained and a Finding is backed by commits that really were slow; only writes and flushes of the filtered device are judged, whatever follows the NUL of `rwbs`; where the metrics emitter was built, a Finding can be found again in the histogram; the composition implements `FsyncJitter` (that it implements `BlockIo` is proved) |
| `checkpoint_storm` | can resets or failed polls invent work, and do buckets re-arm each other? | no work is invented, every Finding is backed by `fire_after` checkpoints, and there is one Finding per run of a bucket |
| `stmt_unique` | do evictions and resets distort the metric? | no: it never exceeds what was executed, and is exact for rows Postgres kept |
| `stmt_shared` | and when two users run the same query? | **no** longer true: they share one previous value, and their difference is added at every tick |
| `cgroup_throttle` | can old, restarted or unreadable counters fire the rule? | no; the rate is not above the truth when a reading covers one interval, and over its readings the rule implements `EpisodeAlarm` |
| `connection_storm` | one Finding per storm, and is a lasting storm reported? | yes, whatever polls fail; over the polls that succeed the rule implements `EpisodeAlarm` |
| `temp_spill` | does the latch keep its promise over a directory that changes? | it implements `EpisodeAlarm` with `N = 1`; an undisturbed walk is exact |
| `spill_attribution` | does a probe ever run under another filter than the one asked for; are spills lost, doubled or attributed to a process outside the filter? | no, whatever is given (0 included), discovered, rejected or fails; every captured spill is reported unless the loader is stopped |
| `spill_pid_tree` | is the postmaster's PID tree watched, as the README says? | **no**: only the postmaster itself |
| `finding_delivery` | does a graceful stop lose a Finding, and does the loader get through its shutdown? | it loses none; every Finding is settled in the end unless the process is killed or fails; the loader's shutdown returns |
| `agent_shutdown` | does the agent's? | **no**: on its only thread, `shutdown()` waits for a task that needs that thread |

A run marked **no** is expected to end in a counterexample; `findings` in
`PROJECT.json` quotes the line of the repository it contradicts.

### Disagreements without a run

Reading the code for the models showed more places where it and its own
comments differ. They are not what the runs are about, and the models follow
the code in each.

* `ebpf-loader/src/main.rs:498` truncates the P50 to milliseconds after the
  comparison in nanoseconds, so a summary (`:226`) can read "P50 latency 10ms >
  10ms". `FindingEvidence` says what does hold: `>=`.
* "for > 3 consecutive 1-second intervals" (`window.rs:18`, `ebpf-common
  lib.rs:109`): with the default `fire_after = 3` the rule fires at the third.
* "A bucket change or a no-classification tick re-arms"
  (`checkpoint_storm.rs:31`): `observe(None)` leaves the streak as it is, and a
  failed poll does not call it.
* "normalized per second of wall-clock" (`cgroup_throttle.rs:166`): after a
  failed read the delta spans several intervals and is divided by one, which is
  why `RateIsTrueWithoutGaps` is restricted.
* "for N consecutive intervals" (`connection_storm.rs:6`): failed polls in
  between leave the streak, so breaches on both sides count as consecutive.
* "Cgroup ID to filter for" (`ebpf-common lib.rs:35`): the syscall probes never
  read it, and `--cgroup-id` alone switches the PID filter off.
* "cancelled (typically via SIGINT in the caller)" (`temp_spill.rs:171-172`):
  no subcommand handles SIGINT, so `shutdown` is not reached once the loop runs,
  and what the batch queue holds is lost.
* "Ctrl+C to stop" (`ebpf-loader/src/main.rs:392`): `ctrl_c()` is created anew
  by every `select!`, and a signal that arrives while an arm runs is forgotten.
* `classify_rwbs` (`ebpf/src/main.rs:175`) scans past the NUL of `rwbs` for F
  and A. A plain write can so be labelled a flush; `OnlyWalCommits` says what
  does hold.
* "fsync writes get bucketed under [`OpClass::WriteFlush`] regardless of whether
  the kernel reports "WS" (sync), "WSM" (sync metadata)"
  (`ebpf/src/main.rs:167-171`): `WS` and `WSM` hold neither F nor A, and the code
  gives `Write`. The rule takes both classes; only the metric's label differs.

### Bounds, and why they are enough

* `FireAfter = 2`, `CounterMax` 2 or 3: the smallest values at which a streak
  builds, fires, keeps firing, saturates and can be re-armed. The proofs remove
  both bounds.
* `RingCap` 1 or 2: full, empty and in between all occur in every drain.
* `Latency = {2, 3}`, `NsPerMs = 2`, `ThresholdMs = 1`: one latency at the
  threshold and one above it by less than a millisecond, so both the strict
  comparison and the truncation matter. `MaxOffered` samples allow two Findings
  and windows of every parity, and what the kernel submits after them is not
  judged, so that it never stops; `MaxQuiet` bounds the ticks with an empty
  window.
* `WalLatency`: two requests on two sectors of the watched device and of
  another, one map slot, a ring of one, three clock values, and plain writes,
  writes with a flush and reads ahead (an A in their `rwbs`): two requests with
  the same key, a full map or a full ring, and time passing between any two
  helper calls, with the loop draining beside them. Requests are symmetric;
  nothing compares them. `WalProofs` removes these bounds from every property of
  the run.
* `CheckpointStorm`: five checkpoints are two complete runs of two and one to
  interrupt them. `PhaseWork` has one cost for each phase bucket, one with a
  flood of full-page images and one without; requested checkpoints are forced.
* `StmtDeltas`: four calls of each of two rows, so a row can be evicted and come
  back below, at and above its previous count. The two configurations differ in
  whether rows share a `queryid`.
* `CgroupThrottle`: an interval of 2 ms and throttled times just at and just
  above the threshold of 1 ms/s, or far above; six intervals are three runs.
* `ConnectionStorm`: no bound on the system but `MaxBackends`, on either side
  of the threshold. The history stops at `MaxJudged` = 5 verdicts, two runs of
  two and a poll between; it guards no action, so the rule goes on and liveness
  is checked of the whole system.
* `TempSpill`: two files of two sizes on a mount of 7 with 0 or 3 occupied by
  others: either trigger alone, both, or none; two of seven free is between 28 and
  29 percent, the threshold. Three samples are two episodes.
* `LoaderStartup` is unbounded: `--pid` is a backend, 0 or absent, `--dev-t`
  another device, 0 or absent. `SpillAttribution`: the postmaster and a
  backend, two spill paths and one other, three syscalls (two spills and a
  repetition of one) and a ring of one, which is refilled during a drain;
  `spill_pid_tree` adds a process that is not Postgres.
* `FindingDelivery`: four Findings through a queue of two, in each program.

`CHECK_DEADLOCK FALSE` wherever the bounds, or Ctrl+C, stop the system.

### Fairness

* `FsyncJitter`, `SpillAttribution`: tokio wakes the task when a descriptor is
  ready or the interval has elapsed, and a single-threaded task finishes the arm
  it is in: weak fairness of `TimerElapses`, `DrainOne`, `EndDrain`,
  `ClearGuard`. `select!` picks at random among the arms that are ready, so an
  arm that is ready again and again is eventually taken: strong fairness of
  `BeginDrain` and `Tick`. Nothing is assumed of the operator, who may never
  interrupt. The kernel of `FsyncJitter` may stop submitting and may go on for
  ever, with one assumption, `DrainsEnd`: it does not for ever refill the ring
  as fast as it is drained. The code does not give that: the drain
  (`ebpf-loader/src/main.rs:475`) neither yields nor counts, and without
  `DrainsEnd` TLC refutes `EventuallyEvaluated` with a drain that never ends.
  `EverySpillReported` needs no such assumption, because a ring is drained in
  order.
* `ConnectionStorm`: weak fairness of the timer and of the poll. That a query
  which is asked again and again is answered again and again (strong fairness
  of each answer) is an assumption on Postgres and the network; without it a
  server that answers nothing is never judged. It says nothing once the
  connection is lost, because the code never reconnects.
* `FindingDelivery`: a task that can go on does (weak fairness of `Started`,
  `ArmEnds`, `CloseMetrics`, `Shutdown`); strong fairness of the arms of
  `select!`, and of the batch task, which tokio schedules again and again.
  Nobody need press Ctrl+C.

## What is proved

Eight modules are checked by TLAPS. Each theorem holds for every value of the
constants, from the assumptions the modules name (`RingAssumption`,
`CounterAssumption`: `fire_after` is a `u32`, `FsyncAssumption`,
`QuietAssumption`, `BlockIoAssumption`, `WalAssumption`, `ThrottleAssumption`,
`StormAssumption`, `CheckpointAssumption`, `StartupAssumption`, `SpillAssumption`,
`StmtAssumption`, `DeliveryAssumption`), and each proof has the same shape: an
inductive `IInv`, one lemma per action, and the property from `IInv`. One
theorem names a further hypothesis: `WalImplementsFsyncJitter`, that the
requests are finitely many, because the bound `MaxOffered` of `FsyncJitter` is
their number.

**`RuleLemmas`** holds what several of them need.

* *The counter.* A breach extends the run (`RunExtends`), a non-breach ends it
  (`RunBreaks`), and the latch is the difference between reaching `fire_after`
  and having reached it (`CompletesWhenReached`, `NonBreachCompletesNothing`).
* *The median.* `Percentile` describes the sorted copy by ranks: a sample's
  place is the number of samples that sort no later, ties in order of arrival.
  Different samples have different places (`PositionsDiffer`), so by counting
  every place is taken (`PositionTaken`), the median is a sample with a known
  number of samples before it (`P50Sample`), and it is above a value exactly when
  some sample and at least half of them are (`MedianAbove`).
* *Induction.* The provers cannot instantiate an induction theorem, but they can
  use that a non-empty set of numbers has a least element (`LeastNat`): a claim
  about all finite sets is proved by looking at the smallest set that refutes it
  (`MinimalSubset`).

**`FsyncProofs`**, for every ring capacity, `fire_after`, saturation point,
threshold, set of latencies and number of samples and ticks:

* `TypeCorrect`, `WakeupsKept`, `EveryFindingBacked`: `Spec => []…` for
  `TypeOK`, `NoLostWakeup` and `FindingsBacked`. None of the last two is
  inductive. `IInv` adds `WakeInv`, which says what `fresh` must be while the
  loader is between the end of a drain and `clear_ready`, and `BackingInv`, an
  account in which each sample the kernel offered is in the ring, in the window
  or has paid for one unit of a streak or of a Finding, in commits once the
  bound `MaxOffered` is reached; `LatchInv` ties the
  latch to the streak so that a run is paid for once.
* `BreachMajority`, `EvidenceSound`: `BreachIsMajority` and `FindingEvidence`.
  The first is `MedianAbove` at the threshold; for the second a Finding's type
  carries the bound, since a median over `ThresholdMs * NsPerMs` divided by
  `NsPerMs` is at least `ThresholdMs` (`DivAtLeast`).
* `CounterTruthful`, `RuleImplementsAlarm`: over a history of ticks the streak
  is the length of the run that ends now, and the rule implements
  `EpisodeAlarm`, by the counter lemmas of `RuleLemmas`.

**`PollRuleProofs`.** Of the throttle rule, `ThrottlingBacksFindings` and `RateTrue` rest on `DeltaInv`
(a delta is time throttled since the last good read) and `BackingInv`, an
account in which a breach costs `Unit`, the least throttled time above the
threshold. `ThrottleImplementsAlarm` adds `HistInv`, as in `FsyncProofs`.

`OncePerStorm` rests on the latch being set exactly from the run length on and
on a Finding of the current storm implying a latch that is still set and, in the
middle of a poll, a count above the threshold: only a count at or below it
clears the latch, and one taken before the storm cannot be judged in it.
`StormImplementsAlarm` adds `PollsInv`: while the history grows, the streak is
the run at its end, and failed polls leave both alone.

Of the capacity rule, `QuietWalkExact` needs that, while nothing was disturbed,
the bytes added up so far are the sum over the files already visited. The sum is
the fold the model uses; `SumExists` and `SumUnique` characterise it by its
value at the empty set and what one more file adds, by least counterexample, and
`SumAgrees` makes it depend only on the sizes of the files it covers.
`TruncationHarmless` is arithmetic of rounded division (`DivMonotone`), and
`CapacityImplementsAlarm` has `firing` as the last verdict of the history.

**`CheckpointProofs`.** `SoundDeltas` needs that without a reset the counters
are exactly the previous ones plus the work since. `CheckpointsBackFindings` is
an account in checkpoints. `OncePerRun` views `DominantStreak` as one breach
counter per bucket (`StreakIsCounter`) and uses the lemmas of `RuleLemmas`
for each.

**`WalProofs`.** For any number of requests, sectors, map slots and interleaving
of probes: `NoStaleSample` (from `ProbeInv`: what lies under a request's key was
stored after it was issued), `SamplesOwn` and `MissesExplained` (from
`AloneInv`, which holds until two requests in flight have shared a key: the
entry under a request's key is its own and only its completion removes it),
`NothingLeaks`. They are proved of `BlockIo` and carried to the composition by
`WalImplementsBlockIo`. `WalCommitsOnly` follows samples past the ring, with
`PathInv`: each is of a filtered request that is done, in the class its `rwbs`
calls for, and no request has two.

From there `JudgeInv` follows the commits into the rule. `AccountInv` is an
account like that of `FsyncProofs`, in drained commits over the threshold: by
`MedianAbove` a breach has one in its window, and it pays for one unit of the
streak. `FindingsShown` adds `HistogramInv`, that an emitter which exists has
recorded every sample drained, and `LabelTells`, that `op_class_str` labels as
writes what the rule judges. `FindingsTrue` adds `HonestInv`: while no two
requests in flight have shared a key, no sample is longer than its I/O took
(`SamplesOwn`).

`WalImplementsFsyncJitter` maps the ring to what its events carry
(`CarriedAppend`, `CarriedTail`) and needs that each sample offered belongs to a
request that is done (`OfferedInv`), so that a kernel of `FsyncJitter` bounded by
the number of requests can offer it.

`WalWakeupsKept` and `WalEvidenceSound` say of the composition what
`WakeupsKept` and `EvidenceSound` say of the rule alone: `WakeInv` is the one of
`FsyncProofs`, kept by probes on any number of CPUs.

**`SpillProofs`.** `FilterBeforePrograms`, `ReportedOnce`, `NoSpillUnaccounted`,
`ChosenProcessOnly`, `CapturedSpillsAwaken`. The invariant ties `seen` to what was reported, what was
submitted to what was reported or waits, and the filter in the map to the stage
of start-up, so that an event in the ring is of a chosen process. The last
theorem needs `WakeInv` besides, which here also covers events submitted before
the loop runs.

**`StmtProofs`.** `NothingOverstated` and `NothingLost`, under `UniqueQueries`
(the run `stmt_shared` shows it is needed). The missing term is the sample in
flight: what was added, what the polled value will add and what the view will
add after it are together paid for by executions (`PaidInv`).

**`DeliveryProofs`.** `GracefulStop`: every Finding emitted is queued or
settled (`PlaceInv`), and a `main` that has run to its end has an empty queue.
`AgentNeverReturns`: an agent that has an emitter never reaches the end of
`main`, and once it is in `shutdown()` no batch is exported any more. The run
`agent_shutdown` shows one such behaviour; this is all of them.

Only model-checked are the liveness properties, because fairness and `ENABLED`
are outside TLAPS: `EventuallyDrained`, `EventuallyEvaluated`, `StormReported`,
`EverySpillReported`, `EveryFindingSettled`, `LoaderShutdownReturns`. Every other
property of a passing run is stated by a theorem.

## Not modelled

* OTLP transport, the mapping of a Finding to a log record, the wording of
  summaries and remediations: pure formatting or library code, except where a
  run above is about the wording.
* The vfs_open kprobe (and with it `--name`), `BLOCK_EVENTS` and their arms:
  their events are only logged. `pg-stat-activity` only logs as well.
* A process that is killed in the middle of an export: `ExportBatch`, which is
  the SDK's, is one step, and the agent persists nothing that could be left
  half-written.
* The ends and re-use of processes in `SpillAttribution`: a PID that is used
  again together with a file name is taken for the old spill.
* `pgsleuth-pg-ext` (two read-only SQL functions), `xtask` (build script),
  `brain/`, `dashboards/`, `infra/` (configuration, a Python stub): no state of
  the agent.

Three environments are modelled from how the code uses them and are assumptions:
tokio (a dropped `ctrl_c()` future misses later signals; descriptors are
edge-triggered), the OpenTelemetry SDK (a bounded queue that drops when full; a
`shutdown()` that blocks its thread until a task of the runtime has answered),
and the kernel (when a ring buffer signals its consumer, and that a request's
issue probe has run before the device gets the request).

## Plan

The most important behaviour came first: the alarm machinery and the path of a
latency sample, then the polling rules, then start-up, spill attribution and
delivery, then the composition `WalLatency` and the proofs. All of that is done.
What could extend it:

1. The vfs_open filter; processes that end, and PIDs used again, in
   `SpillAttribution`.
2. `EpisodeAlarm` for the composition: a history of the ticks beside `WalSpec`,
   as `FsyncEpisodes` keeps one beside `FsyncJitter`.
