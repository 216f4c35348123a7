---------------------------- MODULE DeliveryProofs ----------------------------
(***************************************************************************)
(* Proofs about the delivery of Findings, for any queue capacity and any   *)
(* number of Findings: a main that runs to its end leaves nothing in the   *)
(* queue, and an agent with an emitter never gets there.                   *)
(***************************************************************************)
EXTENDS FindingDelivery, TLAPS

-----------------------------------------------------------------------------
(* The inductive invariant.                                                *)

TypeInv == emitter \in BOOLEAN /\ queue \in Seq(Nat) /\ emitted \in Nat

(* Every Finding emitted is queued or settled. *)
PlaceInv == 1 .. emitted \subseteq Range(queue) \cup exported \cup refused \cup unsent

(* Without an emitter nothing is queued, and a program that has run to its *)
(* end has nothing left in the queue.                                      *)
EmptyInv == ~emitter \/ pc = "exited" => queue = <<>>

IInv == TypeInv /\ PlaceInv /\ EmptyInv

-----------------------------------------------------------------------------
LEMMA RangeMeans ==
  ASSUME NEW s \in Seq(Nat), NEW x
  PROVE  x \in Range(s) <=> \E i \in 1 .. Len(s) : x = s[i]
BY DEF Range

(* A batch and what it leaves in the queue. *)
LEMMA SplitFacts ==
  ASSUME NEW q \in Seq(Nat), NEW n \in 0 .. Len(q)
  PROVE  /\ SubSeq(q, n + 1, Len(q)) \in Seq(Nat)
         /\ Len(SubSeq(q, n + 1, Len(q))) = Len(q) - n
         /\ Range(q) \subseteq Range(SubSeq(q, 1, n)) \cup Range(SubSeq(q, n + 1, Len(q)))
<1> DEFINE p == SubSeq(q, 1, n)
           t == SubSeq(q, n + 1, Len(q))
<1>1. Len(q) \in Nat /\ n \in Nat /\ n <= Len(q)
  OBVIOUS
<1>2. p \in Seq(Nat) /\ Len(p) = n /\ \A i \in 1 .. n : p[i] = q[i]
  BY <1>1
<1>3. t \in Seq(Nat) /\ Len(t) = Len(q) - n /\ \A i \in 1 .. Len(q) - n : t[i] = q[n + i]
  BY <1>1
<1> HIDE DEF p, t
<1>4. ASSUME NEW i \in 1 .. Len(q)
      PROVE  q[i] \in Range(p) \cup Range(t)
  <2>1. CASE i <= n
    <3>1. i \in 1 .. n /\ p[i] = q[i]
      BY <1>1, <1>2, <2>1
    <3>2. QED
      BY <1>2, <3>1, RangeMeans
  <2>2. CASE i > n
    <3>1. i - n \in 1 .. Len(q) - n /\ n + (i - n) = i
      BY <1>1, <2>2
    <3>2. t[i - n] = q[i]
      BY <1>3, <3>1
    <3>3. QED
      BY <1>3, <3>1, <3>2, RangeMeans
  <2>3. QED
    BY <1>1, <2>1, <2>2
<1>5. QED
  BY <1>3, <1>4, RangeMeans DEF p, t

-----------------------------------------------------------------------------
(* A batch is settled, delivered or given up, and the rest stays queued.   *)
LEMMA ExportKeeps ==
  ASSUME TypeInv, PlaceInv, emitter' = emitter, NEW n \in 0 .. Len(queue), ExportBatch(n)
  PROVE  TypeInv' /\ PlaceInv' /\ Len(queue') = Len(queue) - n
<1> DEFINE p == SubSeq(queue, 1, n)
           t == SubSeq(queue, n + 1, Len(queue))
<1>1. /\ queue' = t /\ UNCHANGED <<emitted, unsent>>
      /\ exported' \cup refused' = exported \cup refused \cup Range(p)
  BY DEF ExportBatch
<1>2. /\ t \in Seq(Nat) /\ Len(t) = Len(queue) - n
      /\ Range(queue) \subseteq Range(p) \cup Range(t)
  BY SplitFacts DEF TypeInv
<1> HIDE DEF p, t
<1>3. TypeInv' /\ Len(queue') = Len(queue) - n
  BY <1>1, <1>2 DEF TypeInv
<1>4. PlaceInv'
  <2>1. 1 .. emitted \subseteq Range(t) \cup exported' \cup refused' \cup unsent
    BY <1>1, <1>2 DEF PlaceInv
  <2>2. QED
    BY <1>1, <2>1 DEF PlaceInv, Range
<1>5. QED
  BY <1>3, <1>4

-----------------------------------------------------------------------------
LEMMA InitIInv ==
  ASSUME Init
  PROVE  IInv
<1>1. queue = <<>> /\ emitted = 0 /\ emitter \in BOOLEAN
  BY DEF Init
<1>2. TypeInv
  BY <1>1 DEF TypeInv
<1>3. PlaceInv
  BY <1>1 DEF PlaceInv
<1>4. QED
  BY <1>1, <1>2, <1>3 DEF IInv, EmptyInv

(* A Finding that fires is queued, or settled at once. *)
LEMMA EmitKeeps ==
  ASSUME IInv, EmitFinding
  PROVE  IInv'
<1> DEFINE f == emitted + 1
<1>1. /\ emitted' = f /\ exported' = exported /\ emitter' = emitter
      /\ pc = "arm" /\ pc' = "arm"
  BY DEF EmitFinding
<1>2. queue \in Seq(Nat) /\ emitted \in Nat /\ f \in Nat /\ emitter \in BOOLEAN
  BY DEF IInv, TypeInv
<1>3. 1 .. f = (1 .. emitted) \cup {f}
  BY <1>2
<1>4. \/ emitter /\ queue' = Append(queue, f) /\ refused' = refused /\ unsent' = unsent
      \/ queue' = queue /\ refused' \cup unsent' = refused \cup unsent \cup {f}
  BY DEF EmitFinding, Emit
<1> HIDE DEF f
<1>5. CASE queue' = queue /\ refused' \cup unsent' = refused \cup unsent \cup {f}
  <2>1. 1 .. f \subseteq Range(queue) \cup exported \cup refused' \cup unsent'
    BY <1>3, <1>5 DEF IInv, PlaceInv
  <2>2. QED
    BY <1>1, <1>2, <1>5, <2>1 DEF IInv, TypeInv, PlaceInv, EmptyInv, Range
<1>6. CASE emitter /\ queue' = Append(queue, f) /\ refused' = refused /\ unsent' = unsent
  <2> DEFINE a == Append(queue, f)
  <2>1. /\ a \in Seq(Nat) /\ Len(queue) \in Nat /\ Len(a) = Len(queue) + 1
        /\ a[Len(queue) + 1] = f /\ \A i \in 1 .. Len(queue) : a[i] = queue[i]
    BY <1>2
  <2>2. queue' = a
    BY <1>6
  <2> HIDE DEF a
  <2>3. Range(queue) \cup {f} \subseteq Range(a)
    <3>1. ASSUME NEW i \in 1 .. Len(queue) PROVE queue[i] \in Range(a)
      <4>1. i \in 1 .. Len(a) /\ a[i] = queue[i]
        BY <2>1
      <4>2. QED
        BY <2>1, <4>1, RangeMeans
    <3>2. f \in Range(a)
      <4>1. Len(queue) + 1 \in 1 .. Len(a)
        BY <2>1
      <4>2. QED
        BY <2>1, <4>1, RangeMeans
    <3>3. QED
      BY <1>2, <3>1, <3>2, RangeMeans
  <2>4. 1 .. f \subseteq Range(a) \cup exported \cup refused \cup unsent
    BY <1>3, <2>3 DEF IInv, PlaceInv
  <2>5. TypeInv' /\ PlaceInv'
    BY <1>1, <1>2, <1>6, <2>1, <2>2, <2>4 DEF TypeInv, PlaceInv, Range
  <2>6. QED
    BY <1>1, <1>6, <2>5 DEF IInv, EmptyInv
<1>7. QED
  BY <1>4, <1>5, <1>6

LEMMA ShutdownKeeps ==
  ASSUME IInv, Shutdown
  PROVE  IInv'
<1>1. emitter' = emitter
  BY DEF Shutdown
<1>2. queue \in Seq(Nat) /\ Len(queue) \in Nat
  BY DEF IInv, TypeInv
<1>3. CASE ~emitter /\ UNCHANGED records
  <2>1. queue = <<>>
    BY <1>3 DEF IInv, EmptyInv
  <2>2. QED
    BY <1>1, <1>3, <2>1 DEF IInv, TypeInv, PlaceInv, EmptyInv, Range, records
<1>4. CASE ExportBatch(Len(queue))
  <2>1. TypeInv' /\ PlaceInv' /\ Len(queue') = Len(queue) - Len(queue)
    BY <1>1, <1>2, <1>4, ExportKeeps DEF IInv
  <2>2. queue' = <<>>
    BY <1>2, <2>1 DEF TypeInv
  <2>3. QED
    BY <2>1, <2>2 DEF IInv, EmptyInv
<1>5. QED
  BY <1>3, <1>4 DEF Shutdown

LEMMA NextKeeps ==
  ASSUME IInv, [Next]_vars
  PROVE  IInv'
<1>1. ASSUME UNCHANGED <<emitter, records>>, pc' = "exited" => pc = "exited"
      PROVE  IInv'
  BY <1>1 DEF IInv, TypeInv, PlaceInv, EmptyInv, Range, records
<1>2. CASE Started \/ StartFails \/ PollFails \/ ArmRuns \/ ArmEnds \/ Stop \/ CloseMetrics
  BY <1>1, <1>2 DEF Started, StartFails, PollFails, ArmRuns, ArmEnds, Stop, CloseMetrics
<1>3. CASE PressCtrlC
  BY <1>1, <1>3 DEF PressCtrlC
<1>4. CASE EmitFinding
  BY <1>4, EmitKeeps
<1>5. CASE Shutdown
  BY <1>5, ShutdownKeeps
<1>6. CASE Export
  <2>1. PICK n \in 1 .. Len(queue) : ExportBatch(n)
    BY <1>6 DEF Export
  <2>2. emitter' = emitter /\ pc' = pc /\ pc # "exited"
    BY <1>6 DEF Export, Alive
  <2>3. n \in 0 .. Len(queue) /\ Len(queue) # 0
    BY DEF IInv, TypeInv
  <2>4. TypeInv' /\ PlaceInv'
    BY <2>1, <2>2, <2>3, ExportKeeps DEF IInv
  <2>5. emitter
    BY <2>3 DEF IInv, EmptyInv
  <2>6. QED
    BY <2>2, <2>4, <2>5 DEF IInv, EmptyInv
<1>7. CASE UNCHANGED vars
  BY <1>1, <1>7 DEF vars
<1>8. QED
  BY <1>2, <1>3, <1>4, <1>5, <1>6, <1>7 DEF Next

(* The inductive invariant holds of either program, for any queue capacity *)
(* and any number of Findings.                                             *)
THEOREM DeliveryInvariance == Spec => []IInv
<1>1. Init => IInv
  BY InitIInv
<1>2. IInv /\ [Next]_vars => IInv'
  BY NextKeeps
<1>3. QED
  BY <1>1, <1>2, PTL DEF Spec

(* Emitter::shutdown: a main that has run to its end left no Finding in    *)
(* the queue, whatever the batch task had done by then.                    *)
THEOREM GracefulStop == Spec => []GracefulStopDelivers
<1>1. IInv => GracefulStopDelivers
  <2>1. SUFFICES ASSUME IInv, pc = "exited" PROVE \A f \in 1 .. emitted : Settled(f)
    BY DEF GracefulStopDelivers
  <2>2. queue = <<>>
    BY <2>1 DEF IInv, EmptyInv
  <2>3. Range(queue) = {}
    BY <2>2 DEF Range
  <2>4. QED
    BY <2>1, <2>3 DEF IInv, PlaceInv, Settled
<1>2. QED
  BY <1>1, DeliveryInvariance, PTL

(* An agent with an emitter never runs to the end of its main: once        *)
(* shutdown() blocks its only thread, the batch task it waits for has none *)
(* (cli main.rs, current_thread; otel lib.rs, shutdown).  The run          *)
(* agent_shutdown shows one such hang; this is every one, for any queue.   *)
THEOREM AgentNeverReturns ==
  Spec => /\ [](program = "agent" /\ emitter => pc # "exited")
          /\ [][program = "agent" /\ emitter /\ pc = "flushing"
                  => pc' \in {"flushing", "killed"} /\ UNCHANGED records]_vars
<1> DEFINE Unreturned == program = "agent" /\ emitter => pc # "exited"
           Stuck == program = "agent" /\ emitter /\ pc = "flushing"
                      => pc' \in {"flushing", "killed"} /\ UNCHANGED records
<1>1. Init => Unreturned
  BY DEF Init
<1>2. Unreturned /\ [Next]_vars => Unreturned' /\ [Stuck]_vars
  <2>1. SUFFICES ASSUME Unreturned, [Next]_vars PROVE Unreturned' /\ [Stuck]_vars
    OBVIOUS
  <2>2. CASE Started \/ StartFails \/ PollFails
    BY <2>1, <2>2 DEF Started, StartFails, PollFails
  <2>3. CASE ArmRuns \/ EmitFinding \/ ArmEnds
    BY <2>1, <2>3 DEF ArmRuns, EmitFinding, ArmEnds
  <2>4. CASE Stop \/ CloseMetrics \/ PressCtrlC
    BY <2>1, <2>4 DEF Stop, CloseMetrics, PressCtrlC
  <2>5. CASE Shutdown \/ Export
    BY <2>1, <2>5 DEF Shutdown, Export, ThreadForBatchTask
  <2>6. CASE UNCHANGED vars
    BY <2>1, <2>6 DEF vars
  <2>7. QED
    BY <2>1, <2>2, <2>3, <2>4, <2>5, <2>6 DEF Next
<1>3. QED
  BY <1>1, <1>2, PTL DEF Spec
=============================================================================
