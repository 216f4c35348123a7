----------------------------- MODULE FsyncJitter -----------------------------
(***************************************************************************)
(* The storage.wal.fsync.jitter rule as the loader runs it: the            *)
(* LATENCY_EVENTS and tick arms of the select! loop in                     *)
(* pgsleuth-ebpf-loader/src/main.rs, against a kernel that keeps filling   *)
(* the ring while the loader drains it.                                    *)
(*                                                                         *)
(* The loop is single-threaded: between two polls of select! it runs one   *)
(* arm.  The tick arm has no await and is one action; the latency arm      *)
(* takes the ring's guard, consumes events one at a time until the ring is *)
(* empty, and only then clears the readiness, so the kernel interleaves    *)
(* with it.  The other arms do not touch this state.                       *)
(***************************************************************************)
EXTENDS LatencyRing, BreachCounter, Percentile

CONSTANTS
  Ops,          \* the operation classes the kernel reports
  Latency,      \* the latencies of block I/Os, in nanoseconds
  NsPerMs,      \* 1_000_000
  ThresholdMs,  \* --fsync-threshold-ms
  MaxOffered    \* bound: samples counted; past it the kernel submits no commits

OpClass == {"Read", "Write", "WriteFlush", "Other"}

ASSUME FsyncAssumption ==
  /\ Ops \subseteq OpClass
  /\ Latency \subseteq Nat
  /\ NsPerMs \in Nat \ {0}
  /\ ThresholdMs \in Nat
  /\ MaxOffered \in Nat

VARIABLES
  pc,         \* "select", "draining", "clearing" or "stopped"
  window,     \* write_flush_samples_ns, in arrival order
  counter,    \* the rule's ConsecutiveBreachCounter
  tickDue,    \* the interval timer has a tick to deliver
  findings,   \* the Findings handed to the log emitter
  offered     \* samples the kernel has tried to submit, up to MaxOffered

loaderVars == <<pc, window, counter, tickDue, findings>>
vars == <<ringVars, loaderVars, offered>>

Sample == [op : Ops, ns : Latency]

-----------------------------------------------------------------------------
ThresholdNs == ThresholdMs * NsPerMs

(* An interval without samples is not a breach.                            *)
Breached(samples) == samples # <<>> /\ P50(samples) > ThresholdNs

(* Only write-class latencies are commits.                                 *)
CountsAsCommit(op) == op \in {"Write", "WriteFlush"}

-----------------------------------------------------------------------------
Init ==
  /\ RingInit
  /\ pc = "select"
  /\ window = <<>>
  /\ counter = Rearmed
  /\ tickDue = FALSE
  /\ findings = <<>>
  /\ offered = 0

(* The kernel completes an I/O: its sample is submitted, or dropped when   *)
(* the ring has no room.  The kernel never stops: past the bound it goes   *)
(* on with samples the rule does not judge, which the drain must take all  *)
(* the same.                                                               *)
KernelSample(s) ==
  /\ pc # "stopped"
  /\ \/ offered < MaxOffered /\ offered' = offered + 1
     \/ offered = MaxOffered /\ ~CountsAsCommit(s.op) /\ UNCHANGED offered
  /\ Submit(s) \/ ReserveFails
  /\ UNCHANGED loaderVars

(* interval_ms has passed.  MissedTickBehavior::Skip keeps one tick due,   *)
(* however many have been missed.                                          *)
TimerElapses ==
  /\ ~tickDue
  /\ pc # "stopped"
  /\ tickDue' = TRUE
  /\ UNCHANGED <<ringVars, pc, window, counter, findings, offered>>

(* select! takes the latency arm.                                          *)
BeginDrain ==
  /\ pc = "select"
  /\ TakeGuard
  /\ pc' = "draining"
  /\ UNCHANGED <<window, counter, tickDue, findings, offered>>

(* One iteration of `while let Some(item) = rb.next()`.                    *)
DrainOne ==
  /\ pc = "draining"
  /\ Consume
  /\ window' = IF CountsAsCommit(Head(ring).op)
               THEN Append(window, Head(ring).ns)
               ELSE window
  /\ UNCHANGED <<pc, counter, tickDue, findings, offered>>

(* Mutant: `if let` instead of `while let`, one event per wakeup. *)
EndDrainEarly ==
  /\ pc = "draining"
  /\ pc' = "clearing"
  /\ UNCHANGED <<ringVars, window, counter, tickDue, findings, offered>>

(* next() returned None.                                                   *)
EndDrain ==
  /\ pc = "draining"
  /\ ring = <<>>
  /\ pc' = "clearing"
  /\ UNCHANGED <<ringVars, window, counter, tickDue, findings, offered>>

(* guard.clear_ready(), the last statement of the arm.                     *)
ClearGuard ==
  /\ pc = "clearing"
  /\ ClearReady
  /\ pc' = "select"
  /\ UNCHANGED <<window, counter, tickDue, findings, offered>>

(* Mutant: the tick arm without samples.clear(). *)
TickKeepsWindow ==
  /\ pc = "select"
  /\ tickDue
  /\ tickDue' = FALSE
  /\ counter' = Observe(counter, Breached(window))
  /\ findings' = IF JustFires(counter, Breached(window))
                 THEN Append(findings, [p50_ms |-> P50(window) \div NsPerMs,
                                        streak |-> counter'.streak])
                 ELSE findings
  /\ UNCHANGED <<ringVars, pc, window, offered>>

(* Mutant: the tick arm has a precondition, one sample is too few. *)
TickUnlessOneSample ==
  /\ pc = "select"
  /\ tickDue /\ Len(window) # 1
  /\ tickDue' = FALSE
  /\ window' = <<>>
  /\ counter' = Observe(counter, Breached(window))
  /\ findings' = IF JustFires(counter, Breached(window))
                 THEN Append(findings, [p50_ms |-> P50(window) \div NsPerMs,
                                        streak |-> counter'.streak])
                 ELSE findings
  /\ UNCHANGED <<ringVars, pc, offered>>

(* The tick arm: evaluate the interval, empty the window, feed the counter *)
(* and emit a Finding when it has just fired.                              *)
Tick ==
  /\ pc = "select"
  /\ tickDue
  /\ tickDue' = FALSE
  /\ window' = <<>>
  /\ counter' = Observe(counter, Breached(window))
  /\ findings' = IF JustFires(counter, Breached(window))
                 THEN Append(findings, [p50_ms |-> P50(window) \div NsPerMs,
                                        streak |-> counter'.streak])
                 ELSE findings
  /\ UNCHANGED <<ringVars, pc, offered>>

(* Ctrl+C: the loop breaks and the programs are detached.                  *)
Interrupt ==
  /\ pc = "select"
  /\ pc' = "stopped"
  /\ UNCHANGED <<ringVars, window, counter, tickDue, findings, offered>>

Kernel == \E s \in Sample : KernelSample(s)
Drain  == BeginDrain \/ DrainOne \/ EndDrain \/ ClearGuard

Next == Kernel \/ TimerElapses \/ Drain \/ Tick \/ Interrupt

Spec == Init /\ [][Next]_vars

(* tokio schedules the task, its timer wakes up, and select! picks at      *)
(* random among the arms that are ready, so an arm that is ready again and *)
(* again is picked again and again.  Nothing is assumed of the operator.   *)
Fairness ==
  /\ WF_vars(TimerElapses)
  /\ SF_vars(BeginDrain)
  /\ WF_vars(DrainOne) /\ WF_vars(EndDrain) /\ WF_vars(ClearGuard)
  /\ SF_vars(Tick)

(* The one assumption on the kernel: it does not for ever refill the ring  *)
(* as fast as it is drained.  `while let Some(item) = rb.next()` has no    *)
(* await and no limit, so such a kernel would keep the tick, Ctrl+C and    *)
(* the other rings waiting in one drain that never ends.                   *)
DrainsEnd == []<>(pc # "draining")

FairSpec == Spec /\ Fairness /\ DrainsEnd

-----------------------------------------------------------------------------
TypeOK ==
  /\ ring \in Seq(Sample) /\ Len(ring) <= RingCap
  /\ ready \in BOOLEAN /\ fresh \in BOOLEAN
  /\ pc \in {"select", "draining", "clearing", "stopped"}
  /\ window \in Seq(Latency)
  /\ counter \in Counter
  /\ tickDue \in BOOLEAN
  /\ \A i \in 1 .. Len(findings) : findings[i].streak \in 0 .. CounterMax
  /\ offered \in 0 .. MaxOffered

(* The rule's "P50 over the threshold" (main.rs p50_ns and the tick arm)   *)
(* means that at least half of the interval's commits were slow; with an   *)
(* even number, exactly half is enough.                                    *)
BreachIsMajority ==
  LET slow == {i \in 1 .. Len(window) : window[i] > ThresholdNs}
  IN  Breached(window) <=> slow # {} /\ 2 * Cardinality(slow) >= Len(window)

(* No wakeup is lost between the drain and clear_ready: whenever the loop  *)
(* is back in select! and the ring holds events, the latency arm is ready. *)
NoLostWakeup == pc = "select" /\ ring # <<>> => ready

(* Every Finding is backed by RunLength intervals that each had samples of *)
(* their own: silence never counts as a breach and no sample is used in    *)
(* two intervals.                                                          *)
FindingsBacked == Len(findings) * RunLength <= offered

(* A Finding reports the streak the rule is named after and a P50 that is  *)
(* not below the threshold, in the whole milliseconds it prints.           *)
FindingEvidence ==
  \A i \in 1 .. Len(findings) :
    /\ findings[i].streak = RunLength
    /\ findings[i].p50_ms >= ThresholdMs

(* Every submitted sample is eventually drained, and every commit in the   *)
(* window is eventually evaluated, unless the operator stops the loader or *)
(* the kernel keeps one drain going for ever (main.rs:475 does not yield). *)
EventuallyDrained   == ring # <<>> ~> (ring = <<>> \/ pc = "stopped")
EventuallyEvaluated == window # <<>> ~> (window = <<>> \/ pc = "stopped")
=============================================================================
