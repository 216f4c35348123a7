------------------------------ MODULE WalLatency ------------------------------
(***************************************************************************)
(* The fsync-jitter rule from end to end: the block-layer programs of      *)
(* BlockIo fill LATENCY_EVENTS, and the loader's arms of FsyncJitter drain *)
(* the same ring, record every sample in the pgsleuth.wal.io.latency       *)
(* histogram if there is a metrics emitter, and judge the commits among    *)
(* them at every tick.                                                     *)
(*                                                                         *)
(* The loop starts once both programs are attached.  When it stops the     *)
(* programs go with it, so nothing happens after that.                     *)
(***************************************************************************)
EXTENDS BlockIo, BreachCounter

CONSTANTS NsPerMs, ThresholdMs    \* see FsyncJitter

Latency    == 0 .. MaxTime
MaxOffered == Cardinality(Request)
Ops        == OpClass

ASSUME WalAssumption == NsPerMs \in Nat \ {0} /\ ThresholdMs \in Nat

VARIABLES
  pc, window, counter, tickDue, findings, offered,  \* see FsyncJitter
  metrics,    \* the metrics emitter was built
  histogram,  \* what it has recorded: label of the operation and latency
  drained     \* history: the samples taken out of the ring, in order

loopVars   == <<pc, window, counter, tickDue, findings>>
metricVars == <<metrics, histogram>>
walVars    == <<vars, loopVars, offered, metricVars, drained>>

Loop == INSTANCE FsyncJitter

-----------------------------------------------------------------------------
(* --otlp-endpoint '' and a pipeline that cannot be built both leave the   *)
(* loader without metrics emitter; it goes on without.                     *)
WalInit ==
  /\ Init
  /\ metrics \in BOOLEAN /\ histogram = <<>>
  /\ pc = "select" /\ window = <<>> /\ tickDue = FALSE /\ findings = <<>>
  /\ counter = Rearmed
  /\ offered = 0
  /\ drained = <<>>

Live    == pc # "stopped"
Running == attached = Program

(* A step of the kernel that leaves the ring alone. *)
Quietly ==
  \/ TimePasses
  \/ \E p \in Program : Attach(p)
  \/ \E r \in Request : IssueProbe(r) \/ CompleteUntraced(r) \/ LookUp(r) \/ DeleteEntry(r)

(* Programs and clock run beside the loop; a sample is offered to the ring. *)
KernelStep ==
  /\ Live
  /\ \/ Quietly /\ UNCHANGED offered
     \/ (\E r \in Request : EmitSample(r)) /\ offered' = offered + 1
  /\ UNCHANGED <<loopVars, metricVars, drained>>

(* The label of an operation class in the metric. *)
OpClassStr(op) ==
  [Read |-> "read", Write |-> "write", WriteFlush |-> "write_flush", Other |-> "other"][op]

Recorded(e) == [op |-> OpClassStr(e.op), ns |-> e.ns]

(* Mutant: recorded beside the flushes' push, not for every sample. *)
RecordFlushes(e) ==
  histogram' = IF metrics /\ e.op = "WriteFlush" THEN Append(histogram, Recorded(e)) ELSE histogram

(* record_wal_io_latency, if there is an emitter. *)
RecordLatency(e) ==
  histogram' = IF metrics THEN Append(histogram, Recorded(e)) ELSE histogram

(* One sample: recorded, then pushed into the rule's window.               *)
RecordAndPush ==
  /\ Running
  /\ Loop!DrainOne
  /\ RecordLatency(Head(ring))
  /\ drained' = Append(drained, Head(ring))
  /\ UNCHANGED metrics
  /\ UNCHANGED <<clock, attached, probeVars, history>>

(* Mutant: one event per wakeup. *)
LoopStepOneEvent ==
  /\ Running
  /\ \/ Loop!BeginDrain \/ Loop!EndDrainEarly \/ Loop!ClearGuard
     \/ Loop!TimerElapses \/ Loop!Tick \/ Loop!Interrupt
  /\ UNCHANGED <<clock, attached, probeVars, history, metricVars, drained>>

(* The rest of the loop: its other steps around the ring, timer and tick.  *)
LoopStep ==
  /\ Running
  /\ \/ Loop!BeginDrain \/ Loop!EndDrain \/ Loop!ClearGuard
     \/ Loop!TimerElapses \/ Loop!Tick \/ Loop!Interrupt
  /\ UNCHANGED <<clock, attached, probeVars, history, metricVars, drained>>

WalNext == KernelStep \/ RecordAndPush \/ LoopStep

WalSpec == WalInit /\ [][WalNext]_walVars

-----------------------------------------------------------------------------
(* FsyncJitter's own view of the ring: what the event carries.             *)
Carried(events) == [i \in DOMAIN events |-> [op |-> events[i].op, ns |-> events[i].ns]]

Rule == INSTANCE FsyncJitter WITH ring <- Carried(ring)

(* The programs are a kernel as FsyncJitter assumes one, so what holds of  *)
(* the rule against any kernel holds against the programs of ebpf main.rs. *)
ImplementsFsyncJitter == Rule!Spec

(* The consumer's steps are what BlockIo assumes of a loader: its          *)
(* invariants hold of the programs while the loop of main.rs runs.         *)
ImplementsBlockIo == Spec

Commits(samples) == {i \in DOMAIN samples : Loop!CountsAsCommit(samples[i].op)}

(* classify_rwbs and the dev_t filter (ebpf main.rs:172, 208, 272): the    *)
(* samples the rule judges all belong to writes or flushes on the filtered *)
(* device, whatever bytes follow the NUL of rwbs; only a request that was  *)
(* timed gets there, and gets there once.                                  *)
OnlyWalCommits ==
  \A i \in Commits(drained) :
    /\ rwbs[drained[i].req].first \in {"W", "F"}
    /\ PassDevFilter(key[drained[i].req][1])
    /\ \A j \in DOMAIN drained : drained[j].req = drained[i].req => j = i

(* A Finding can be found again in the metric (main.rs:475-514): where the *)
(* emitter exists, each Finding has RunLength samples of its own among the *)
(* writes recorded so far, over the threshold, whatever drains and ticks   *)
(* came between and though the window they were judged in is cleared.      *)
FindingsShowInHistogram ==
  metrics =>
    Len(findings) * RunLength
      <= Cardinality({i \in DOMAIN histogram : /\ histogram[i].op \in {"write", "write_flush"}
                                               /\ histogram[i].ns > Loop!ThresholdNs})

(* A Finding is true of the disk: it is backed by RunLength commits that   *)
(* really took longer than the threshold, as long as keys identify the     *)
(* requests in flight, however samples were dropped, delayed in the ring   *)
(* or taken while the programs were being attached.                        *)
FindingsAreTrue ==
  ~collided =>
    Len(findings) * RunLength
      <= Cardinality({i \in Commits(drained) : drained[i].trueNs > Loop!ThresholdNs})
=============================================================================
