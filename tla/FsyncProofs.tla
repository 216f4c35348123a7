----------------------------- MODULE FsyncProofs -----------------------------
(***************************************************************************)
(* Proofs about the fsync-jitter rule, for every ring capacity, every      *)
(* fire_after and threshold, and any number of samples and ticks.          *)
(*                                                                         *)
(* Of how an interval is judged, only two facts matter: one without        *)
(* samples is not a breach, and a breach has a median over the threshold.  *)
(***************************************************************************)
EXTENDS FsyncEpisodes, RuleLemmas

-----------------------------------------------------------------------------
(* The inductive invariant.                                                *)

(* What a Finding carries. *)
Reportable == [p50_ms : {n \in Nat : n >= ThresholdMs}, streak : {RunLength}]

TypeInv ==
  /\ ring \in Seq(Sample) /\ Len(ring) <= RingCap
  /\ ready \in BOOLEAN /\ fresh \in BOOLEAN
  /\ pc \in {"select", "draining", "clearing", "stopped"}
  /\ window \in Seq(Latency)
  /\ counter \in Counter
  /\ tickDue \in BOOLEAN
  /\ findings \in Seq(Reportable)
  /\ offered \in 0 .. MaxOffered

(* The latch is set exactly from the RunLength-th breach of a run on. *)
LatchInv == counter.fired <=> counter.streak >= RunLength

(* Between the end of a drain and clear_ready, an event in the ring has    *)
(* raised a signal that clear_ready will keep.                             *)
WakeInv ==
  /\ pc = "select" /\ ring # <<>> => ready
  /\ pc = "clearing" /\ ring # <<>> => fresh

(* Commits pay for breaches and breaches pay for Findings: every commit    *)
(* the kernel offered is in the ring, in the window, or has paid for at    *)
(* most one unit of a streak or of a Finding.                              *)
CommitsIn(s) == {i \in 1 .. Len(s) : CountsAsCommit(s[i].op)}
Waiting == Cardinality(CommitsIn(ring))
Unspent == Len(window) + Waiting
Building == IF counter.fired THEN 0 ELSE counter.streak
Spent == Len(findings) * RunLength
BackingInv == Spent + Building + Unspent <= offered

IInv == TypeInv /\ LatchInv /\ WakeInv /\ BackingInv

-----------------------------------------------------------------------------
(* An interval that breaches has samples. *)
LEMMA BreachedFacts ==
  ASSUME NEW s \in Seq(Latency)
  PROVE  Breached(s) \in BOOLEAN /\ (Breached(s) => Len(s) >= 1)
<1>1. s # <<>> => Len(s) >= 1
  OBVIOUS
<1>2. QED
  BY <1>1 DEF Breached

LEMMA ThresholdType == ThresholdNs \in Nat /\ ThresholdMs \in Nat /\ NsPerMs \in Nat \ {0}
<1>1. ThresholdMs \in Nat /\ NsPerMs \in Nat \ {0}
  BY FsyncAssumption
<1>2. QED
  BY <1>1, TimesMonotone DEF ThresholdNs

LEMMA SeqNat == \A s \in Seq(Latency) : s \in Seq(Nat)
BY FsyncAssumption, SeqOfSubset

(* The median of an interval that breaches is over the threshold, and      *)
(* printed in whole milliseconds it is not below it.                       *)
LEMMA BreachPrints ==
  ASSUME NEW s \in Seq(Latency), Breached(s)
  PROVE  P50(s) \div NsPerMs \in Nat /\ P50(s) \div NsPerMs >= ThresholdMs
<1>1. s \in Seq(Nat) /\ s # <<>> /\ P50(s) > ThresholdNs
  BY SeqNat DEF Breached
<1>2. P50(s) \in Nat
  BY <1>1, ThresholdType, MedianAbove
<1>3. P50(s) >= ThresholdMs * NsPerMs
  BY <1>1, <1>2, ThresholdType DEF ThresholdNs
<1>4. QED
  BY <1>2, <1>3, ThresholdType, DivAtLeast

-----------------------------------------------------------------------------
(* The commits that wait in the ring.                                      *)

LEMMA CommitsFinite ==
  ASSUME NEW s \in Seq(Sample)
  PROVE  IsFiniteSet(CommitsIn(s)) /\ Cardinality(CommitsIn(s)) \in Nat
<1>1. IsFiniteSet(1 .. Len(s))
  BY IndexCount
<1>2. CommitsIn(s) \subseteq 1 .. Len(s)
  BY DEF CommitsIn
<1>3. QED
  BY <1>1, <1>2, FS_Subset, FS_CardinalityType

(* A submitted sample adds itself, if it is a commit. *)
LEMMA CommitsAppend ==
  ASSUME NEW s \in Seq(Sample), NEW e \in Sample
  PROVE  Cardinality(CommitsIn(Append(s, e)))
           = Cardinality(CommitsIn(s)) + (IF CountsAsCommit(e.op) THEN 1 ELSE 0)
<1> DEFINE t == Append(s, e)
           n == Len(s) + 1
<1>1. Len(s) \in Nat /\ Len(t) = n /\ t[n] = e /\ \A i \in 1 .. Len(s) : t[i] = s[i]
  OBVIOUS
<1>2. 1 .. Len(t) = (1 .. Len(s)) \cup {n} /\ n \notin 1 .. Len(s)
  BY <1>1
<1> HIDE DEF t, n
<1>3. CommitsIn(t) = IF CountsAsCommit(e.op) THEN CommitsIn(s) \cup {n} ELSE CommitsIn(s)
  BY <1>1, <1>2 DEF CommitsIn
<1>4. n \notin CommitsIn(s)
  BY <1>2 DEF CommitsIn
<1>5. Cardinality(CommitsIn(s) \cup {n}) = Cardinality(CommitsIn(s)) + 1
  BY <1>4, CommitsFinite, FS_AddElement
<1>6. Cardinality(CommitsIn(s)) \in Nat
  BY CommitsFinite
<1>7. Cardinality(CommitsIn(t))
        = Cardinality(CommitsIn(s)) + (IF CountsAsCommit(e.op) THEN 1 ELSE 0)
  <2>1. CASE CountsAsCommit(e.op)
    BY <1>3, <1>5, <2>1
  <2>2. CASE ~CountsAsCommit(e.op)
    BY <1>3, <1>6, <2>2
  <2>3. QED
    BY <2>1, <2>2
<1>8. QED
  BY <1>7 DEF t

(* A consumed sample takes itself away, if it is a commit. *)
LEMMA CommitsTail ==
  ASSUME NEW s \in Seq(Sample), s # <<>>
  PROVE  Cardinality(CommitsIn(Tail(s)))
           = Cardinality(CommitsIn(s)) - (IF CountsAsCommit(Head(s).op) THEN 1 ELSE 0)
<1> DEFINE t == Tail(s)
           rest == CommitsIn(s) \ {1}
           f == [i \in rest |-> i - 1]
<1>1. /\ Len(s) \in Nat /\ Len(s) >= 1 /\ Len(t) = Len(s) - 1 /\ Head(s) = s[1]
      /\ \A i \in 1 .. Len(t) : t[i] = s[i + 1]
  OBVIOUS
<1> HIDE DEF t
<1>2. 1 \in CommitsIn(s) <=> CountsAsCommit(Head(s).op)
  BY <1>1 DEF CommitsIn
<1>3. \A i \in rest : i \in Nat /\ i >= 2 /\ i <= Len(s)
  BY <1>1 DEF CommitsIn
<1>4. \A i \in rest : i - 1 \in CommitsIn(t)
  <2>1. SUFFICES ASSUME NEW i \in rest PROVE i - 1 \in CommitsIn(t)
    OBVIOUS
  <2>2. i - 1 \in 1 .. Len(t) /\ (i - 1) + 1 = i
    BY <1>1, <1>3
  <2>3. t[i - 1] = s[i]
    BY <1>1, <2>2
  <2>4. CountsAsCommit(s[i].op)
    BY DEF CommitsIn
  <2>5. QED
    BY <2>2, <2>3, <2>4 DEF CommitsIn
<1>5. \A j \in CommitsIn(t) : j \in Nat /\ j + 1 \in rest /\ (j + 1) - 1 = j
  <2>1. SUFFICES ASSUME NEW j \in CommitsIn(t)
                 PROVE  j \in Nat /\ j + 1 \in rest /\ (j + 1) - 1 = j
    OBVIOUS
  <2>2. j \in 1 .. Len(t) /\ CountsAsCommit(t[j].op)
    BY DEF CommitsIn
  <2>3. j \in Nat /\ j + 1 \in 1 .. Len(s) /\ j + 1 # 1 /\ (j + 1) - 1 = j /\ t[j] = s[j + 1]
    BY <1>1, <2>2
  <2>4. QED
    BY <2>2, <2>3 DEF CommitsIn
<1>6. f \in Bijection(rest, CommitsIn(t))
  <2>1. f \in [rest -> CommitsIn(t)]
    BY <1>4
  <2>2. \A i, j \in rest : f[i] = f[j] => i = j
    BY <1>3
  <2>3. \A j \in CommitsIn(t) : \E i \in rest : f[i] = j
    BY <1>5
  <2> HIDE DEF f, rest
  <2>4. QED
    BY <2>1, <2>2, <2>3 DEF Bijection, Injection, Surjection, IsInjective
<1>7. ExistsBijection(rest, CommitsIn(t))
  BY <1>6 DEF ExistsBijection
<1>8. /\ IsFiniteSet(rest)
      /\ Cardinality(rest) = IF 1 \in CommitsIn(s) THEN Cardinality(CommitsIn(s)) - 1
                                                   ELSE Cardinality(CommitsIn(s))
  BY CommitsFinite, FS_RemoveElement
<1>9. Cardinality(CommitsIn(t)) = Cardinality(rest)
  BY <1>7, <1>8, FS_Bijection
<1>10. QED
  BY <1>2, <1>8, <1>9, CommitsFinite DEF t

-----------------------------------------------------------------------------
(* The loader starts inside the invariant.                                 *)
LEMMA InitIInv == Init => IInv
<1>1. Rearmed \in Counter /\ Rearmed.streak = 0 /\ Rearmed.fired = FALSE
  BY CounterAssumption DEF Rearmed, Counter
<1> SUFFICES ASSUME Init PROVE IInv
  OBVIOUS
<1>2. TypeInv
  <2>1. ring \in Seq(Sample) /\ window \in Seq(Latency) /\ findings \in Seq(Reportable)
    BY DEF Init, RingInit
  <2>2. Len(ring) <= RingCap /\ offered \in 0 .. MaxOffered
    BY RingAssumption, FsyncAssumption DEF Init, RingInit
  <2>3. QED
    BY <1>1, <2>1, <2>2 DEF Init, RingInit, TypeInv
<1>3. LatchInv /\ WakeInv
  BY <1>1, RunLengthFacts DEF Init, RingInit, LatchInv, WakeInv
<1>4. Spent = 0 /\ Building = 0 /\ Unspent = 0
  <2>1. Spent = 0 /\ Building = 0 /\ Len(window) = 0
    BY <1>1, RunLengthFacts DEF Init, Spent, Building
  <2>2. CommitsIn(ring) = {}
    BY DEF Init, RingInit, CommitsIn
  <2>3. QED
    BY <2>1, <2>2, FS_EmptySet DEF Waiting, Unspent
<1>5. BackingInv
  BY <1>4 DEF Init, BackingInv
<1>6. QED
  BY <1>2, <1>3, <1>5 DEF IInv

(* What the invariant says of the counters it adds up. *)
LEMMA Sizes ==
  ASSUME TypeInv
  PROVE  /\ Len(ring) \in Nat /\ Len(window) \in Nat /\ Len(findings) \in Nat
         /\ offered \in Nat /\ counter.streak \in Nat /\ counter.fired \in BOOLEAN
         /\ Building \in Nat /\ RunLength \in Nat /\ RingCap \in Nat /\ MaxOffered \in Nat
         /\ Spent \in Nat /\ Waiting \in Nat /\ Unspent = Len(window) + Waiting
<1>1. /\ Len(ring) \in Nat /\ Len(window) \in Nat /\ Len(findings) \in Nat
      /\ offered \in Nat /\ counter.streak \in Nat /\ counter.fired \in BOOLEAN
      /\ RunLength \in Nat /\ RingCap \in Nat /\ MaxOffered \in Nat
  BY RunLengthFacts, RingAssumption, FsyncAssumption, CounterAssumption DEF TypeInv, Counter
<1>2. Spent \in Nat
  BY <1>1, TimesSucc DEF Spent
<1>3. Waiting \in Nat
  BY CommitsFinite DEF TypeInv, Waiting
<1>4. QED
  BY <1>1, <1>2, <1>3 DEF Building, Unspent

(* The kernel's step: a submitted commit is paid for by its own offer, and *)
(* an event that finds the ring empty raises both signals.                 *)
LEMMA KernelIInv == IInv /\ Kernel => IInv'
<1> SUFFICES ASSUME IInv, NEW e \in Sample, KernelSample(e)
             PROVE  IInv'
  BY DEF Kernel
<1> USE DEF IInv
<1>1. /\ UNCHANGED <<pc, window, counter, tickDue, findings>>
      /\ offered' \in 0 .. MaxOffered /\ offered' >= offered
      /\ offered' >= offered + (IF CountsAsCommit(e.op) THEN 1 ELSE 0)
  BY Sizes DEF KernelSample, loaderVars, TypeInv
<1>2. CASE Submit(e)
  <2>1. /\ ring' = Append(ring, e) /\ Len(ring) < RingCap
        /\ ready' = (ready \/ ring = <<>>) /\ fresh' = (fresh \/ ring = <<>>)
    BY <1>2 DEF Submit
  <2>2. ring' \in Seq(Sample) /\ Len(ring') = Len(ring) + 1
    BY <2>1 DEF TypeInv
  <2>3. TypeInv'
    BY <1>1, <2>1, <2>2, Sizes DEF TypeInv
  <2>4. LatchInv'
    BY <1>1 DEF LatchInv
  <2>5. WakeInv'
    BY <1>1, <2>1 DEF WakeInv
  <2>6. BackingInv'
    <3>1. /\ Spent' = Spent /\ Building' = Building
          /\ Unspent' = Unspent + (IF CountsAsCommit(e.op) THEN 1 ELSE 0)
      <4>1. Spent' = Spent /\ Building' = Building
        BY <1>1 DEF Spent, Building
      <4>2. Waiting' = Waiting + (IF CountsAsCommit(e.op) THEN 1 ELSE 0)
        BY <2>1, CommitsAppend DEF TypeInv, Waiting
      <4>3. Unspent' = Unspent + (IF CountsAsCommit(e.op) THEN 1 ELSE 0)
        BY <1>1, <4>2, Sizes DEF Unspent
      <4>4. QED
        BY <4>1, <4>3
    <3>2. Spent \in Nat /\ Building \in Nat /\ Unspent \in Nat /\ offered \in Nat
      BY Sizes
    <3>3. Spent + Building + Unspent <= offered
      BY DEF BackingInv
    <3>4. QED
      BY <1>1, <3>1, <3>2, <3>3 DEF BackingInv
  <2>7. QED
    BY <2>3, <2>4, <2>5, <2>6
<1>3. CASE ReserveFails
  <2>1. UNCHANGED <<ring, ready, fresh>>
    BY <1>3 DEF ReserveFails, ringVars
  <2>2. TypeInv'
    BY <1>1, <2>1, Sizes DEF TypeInv
  <2>3. LatchInv' /\ WakeInv'
    BY <1>1, <2>1 DEF LatchInv, WakeInv
  <2>4. BackingInv'
    <3>1. Spent' = Spent /\ Building' = Building /\ Unspent' = Unspent
      BY <1>1, <2>1 DEF Spent, Building, Unspent, Waiting
    <3>2. Spent \in Nat /\ Building \in Nat /\ Unspent \in Nat /\ offered \in Nat
      BY Sizes
    <3>3. Spent + Building + Unspent <= offered
      BY DEF BackingInv
    <3>4. QED
      BY <1>1, <3>1, <3>2, <3>3 DEF BackingInv
  <2>5. QED
    BY <2>2, <2>3, <2>4
<1>4. QED
  BY <1>2, <1>3 DEF KernelSample

(* The latency arm: an event moves from the ring to the window or is       *)
(* skipped, and clear_ready keeps the signal of an event it has not seen.  *)
LEMMA DrainIInv == IInv /\ Drain => IInv'
<1> SUFFICES ASSUME IInv, Drain PROVE IInv'
  OBVIOUS
<1> USE DEF IInv
<1>1. CASE BeginDrain
  <2>1. /\ UNCHANGED <<ring, ready, window, counter, tickDue, findings, offered>>
        /\ pc' = "draining" /\ fresh' = FALSE
    BY <1>1 DEF BeginDrain, TakeGuard
  <2>2. QED
    BY <2>1 DEF TypeInv, LatchInv, WakeInv, BackingInv, Spent, Building, Unspent, Waiting
<1>2. CASE DrainOne
  <2>1. /\ pc = "draining" /\ ring # <<>> /\ ring' = Tail(ring)
        /\ UNCHANGED <<ready, fresh, pc, counter, tickDue, findings, offered>>
        /\ window' = IF CountsAsCommit(Head(ring).op)
                     THEN Append(window, Head(ring).ns) ELSE window
    BY <1>2 DEF DrainOne, Consume
  <2>2. /\ ring' \in Seq(Sample) /\ Len(ring') = Len(ring) - 1 /\ Len(ring) >= 1
        /\ Head(ring).ns \in Latency
    <3>1. ring \in Seq(Sample) /\ ring # <<>>
      BY <2>1 DEF TypeInv
    <3>2. Head(ring) \in Sample /\ Tail(ring) \in Seq(Sample) /\ Len(Tail(ring)) = Len(ring) - 1
          /\ Len(ring) >= 1
      BY <3>1
    <3>3. QED
      BY <2>1, <3>2 DEF Sample
  <2>3. window' \in Seq(Latency) /\ Len(window') <= Len(window) + 1 /\ Len(window') \in Nat
    BY <2>1, <2>2, Sizes DEF TypeInv
  <2>4. TypeInv'
    BY <2>1, <2>2, <2>3, Sizes DEF TypeInv
  <2>5. BackingInv'
    <3>1. Spent' = Spent /\ Building' = Building
      BY <2>1 DEF Spent, Building
    <3>2. Waiting' = Waiting - (IF CountsAsCommit(Head(ring).op) THEN 1 ELSE 0)
      BY <2>1, CommitsTail DEF TypeInv, Waiting
    <3>3. Len(window') = Len(window) + (IF CountsAsCommit(Head(ring).op) THEN 1 ELSE 0)
      BY <2>1, <2>2, Sizes DEF TypeInv
    <3>4. Unspent' = Unspent
      BY <3>2, <3>3, Sizes DEF Unspent
    <3>5. QED
      BY <2>1, <3>1, <3>4 DEF BackingInv
  <2>6. QED
    BY <2>1, <2>4, <2>5 DEF LatchInv, WakeInv
<1>3. CASE EndDrain
  <2>1. /\ UNCHANGED <<ring, ready, fresh, window, counter, tickDue, findings, offered>>
        /\ pc' = "clearing" /\ ring = <<>>
    BY <1>3 DEF EndDrain, ringVars
  <2>2. QED
    BY <2>1 DEF TypeInv, LatchInv, WakeInv, BackingInv, Spent, Building, Unspent, Waiting
<1>4. CASE ClearGuard
  <2>1. /\ UNCHANGED <<ring, fresh, window, counter, tickDue, findings, offered>>
        /\ pc = "clearing" /\ pc' = "select" /\ ready' = fresh
    BY <1>4 DEF ClearGuard, ClearReady
  <2>2. QED
    BY <2>1 DEF TypeInv, LatchInv, WakeInv, BackingInv, Spent, Building, Unspent, Waiting
<1>5. QED
  BY <1>1, <1>2, <1>3, <1>4 DEF Drain

(* Commits of the window exchanged for units of a streak. *)
LEMMA Exchange ==
  ASSUME NEW a \in Nat, NEW b \in Nat, NEW w \in Nat, NEW c \in Nat, NEW d \in Nat,
         NEW n \in Nat, a + b + w + c <= n, d <= b + w
  PROVE  a + d + c <= n
OBVIOUS

(* The tick arm: a breach has at least one sample of its own to spend, and *)
(* a Finding spends the RunLength breaches of its run.                     *)
LEMMA TickIInv == IInv /\ Tick => IInv'
<1> SUFFICES ASSUME IInv, Tick PROVE IInv'
  OBVIOUS
<1> USE DEF IInv
<1>1. PICK b : b = Breached(window)
  OBVIOUS
<1>2. b \in BOOLEAN /\ (b => Len(window) >= 1)
  BY <1>1, BreachedFacts DEF TypeInv
<1>3. /\ UNCHANGED <<ring, ready, fresh, pc, offered>>
      /\ window' = <<>> /\ tickDue' = FALSE /\ counter' = Observe(counter, b)
      /\ findings' = IF JustFires(counter, b)
                     THEN Append(findings, [p50_ms |-> P50(window) \div NsPerMs,
                                            streak |-> counter'.streak])
                     ELSE findings
  BY <1>1 DEF Tick, ringVars
<1>4. /\ counter' \in Counter
      /\ counter'.fired <=> counter'.streak >= RunLength
      /\ counter'.streak <= counter.streak + 1
      /\ ~b => counter'.streak = 0
      /\ counter.fired /\ b => counter'.fired
      /\ JustFires(counter, b) <=> b /\ ~counter.fired /\ counter'.fired
      /\ JustFires(counter, b) => counter.streak = RunLength - 1 /\ counter'.streak = RunLength
  BY <1>2, <1>3, ObserveFacts DEF TypeInv, LatchInv
<1>5. counter'.streak \in 0 .. CounterMax /\ counter'.streak \in Nat /\ counter'.fired \in BOOLEAN
  BY <1>4, CounterAssumption DEF Counter
<1>6. /\ findings' \in Seq(Reportable)
      /\ Len(findings') = IF JustFires(counter, b) THEN Len(findings) + 1 ELSE Len(findings)
  <2>1. JustFires(counter, b) =>
          [p50_ms |-> P50(window) \div NsPerMs, streak |-> counter'.streak] \in Reportable
    BY <1>1, <1>4, BreachPrints DEF Reportable, TypeInv
  <2>2. QED
    BY <1>3, <2>1, Sizes DEF TypeInv
<1>7. TypeInv'
  <2>1. window' \in Seq(Latency)
    BY <1>3
  <2>2. QED
    BY <1>3, <1>4, <1>6, <2>1 DEF TypeInv
<1>8. LatchInv'
  BY <1>4 DEF LatchInv
<1>9. WakeInv'
  BY <1>3 DEF WakeInv
<1>10. BackingInv'
  <2>. /\ Spent \in Nat /\ Building \in Nat /\ RunLength \in Nat
       /\ Len(window) \in Nat /\ Waiting \in Nat /\ offered \in Nat
    BY Sizes
  <2>1. Spent + Building + Len(window) + Waiting <= offered
    BY Sizes DEF BackingInv
  <2>2. Unspent' = Waiting
    BY <1>3, Sizes DEF Unspent, Waiting
  <2>3. CASE JustFires(counter, b)
    <3>1. Spent' = Spent + RunLength
      BY <1>6, <2>3, Sizes, TimesSucc DEF Spent
    <3>2. Building = RunLength - 1 /\ Building' = 0
      BY <1>4, <2>3 DEF Building
    <3>3. Len(window) >= 1
      BY <1>2, <1>4, <2>3
    <3>4. Spent + RunLength + Waiting <= offered
      BY <2>1, <3>2, <3>3
    <3>5. Spent' + Building' + Unspent' <= offered'
      BY <1>3, <2>2, <3>1, <3>2, <3>4
    <3>6. QED
      BY <3>5 DEF BackingInv
  <2>4. CASE ~JustFires(counter, b)
    <3>1. Building' <= Building + Len(window) /\ Building' \in Nat
      <4>1. CASE b
        BY <4>1, <1>2, <1>4, <1>5, <2>4, Sizes DEF Building
      <4>2. CASE ~b
        BY <4>2, <1>4, <1>5, Sizes DEF Building
      <4>3. QED
        BY <1>2, <4>1, <4>2
    <3>2. Spent' = Spent
      BY <1>6, <2>4 DEF Spent
    <3>3. offered' = offered
      BY <1>3
    <3>4. Spent + Building' + Waiting <= offered
      BY <2>1, <3>1, Exchange
    <3>5. Spent' + Building' + Unspent' <= offered'
      BY <2>2, <3>2, <3>3, <3>4
    <3>6. QED
      BY <3>5 DEF BackingInv
  <2>5. QED
    BY <2>3, <2>4
<1>11. QED
  BY <1>7, <1>8, <1>9, <1>10

(* Every step of the loader and of the kernel keeps the invariant.         *)
LEMMA NextIInv == IInv /\ [Next]_vars => IInv'
<1> SUFFICES ASSUME IInv, [Next]_vars PROVE IInv'
  OBVIOUS
<1>1. CASE TimerElapses
  BY <1>1 DEF TimerElapses, ringVars,
     IInv, TypeInv, LatchInv, WakeInv, BackingInv, Spent, Building, Unspent, Waiting
<1>2. CASE Interrupt
  BY <1>2 DEF Interrupt, ringVars,
     IInv, TypeInv, LatchInv, WakeInv, BackingInv, Spent, Building, Unspent, Waiting
<1>3. CASE UNCHANGED vars
  BY <1>3 DEF vars, ringVars, loaderVars,
     IInv, TypeInv, LatchInv, WakeInv, BackingInv, Spent, Building, Unspent, Waiting
<1>4. QED
  BY <1>1, <1>2, <1>3, KernelIInv, DrainIInv, TickIInv DEF Next

-----------------------------------------------------------------------------
(* The inductive invariant holds of every behaviour of the loader.         *)
THEOREM Invariance == Spec => []IInv
BY InitIInv, NextIInv, PTL DEF Spec

(* Type correctness: whatever the kernel submits and however often the     *)
(* rule breaches, the streak stays a u32 and the ring within its capacity. *)
THEOREM TypeCorrect == Spec => []TypeOK
<1>1. TypeInv => TypeOK
  <2>1. ASSUME TypeInv, NEW i \in 1 .. Len(findings)
        PROVE  findings[i].streak \in 0 .. CounterMax
    <3>1. findings[i] \in Reportable
      BY <2>1 DEF TypeInv
    <3>2. QED
      BY <3>1, RunLengthFacts DEF Reportable
  <2>2. QED
    BY <2>1 DEF TypeInv, TypeOK
<1>2. IInv => TypeOK
  BY <1>1 DEF IInv
<1>3. QED
  BY <1>2, Invariance, PTL

(* No wakeup is lost between the drain of the ring and clear_ready (the    *)
(* LATENCY_EVENTS arm of main.rs), for every ring capacity.                *)
THEOREM WakeupsKept == Spec => []NoLostWakeup
<1>1. IInv => NoLostWakeup
  BY DEF IInv, WakeInv, NoLostWakeup
<1>2. QED
  BY <1>1, Invariance, PTL

(* Each Finding is backed by RunLength samples no other Finding used, for  *)
(* every fire_after: a silent interval never counts as a breach.           *)
THEOREM EveryFindingBacked == Spec => []FindingsBacked
<1>1. IInv => FindingsBacked
  BY Sizes DEF IInv, BackingInv, Spent, FindingsBacked
<1>2. QED
  BY <1>1, Invariance, PTL

(* A Finding reports a streak of exactly fire_after intervals and, in      *)
(* whole milliseconds, a P50 that is not below the threshold (main.rs      *)
(* build_finding), for every threshold and unit.              *)
THEOREM EvidenceSound == Spec => []FindingEvidence
<1>1. TypeInv => FindingEvidence
  <2>1. ASSUME TypeInv, NEW i \in 1 .. Len(findings)
        PROVE  findings[i] \in Reportable
    BY <2>1 DEF TypeInv
  <2>2. QED
    BY <2>1 DEF Reportable, FindingEvidence
<1>2. QED
  BY <1>1, Invariance, PTL DEF IInv

(* An interval breaches exactly when at least half of its commits, and     *)
(* some commit, took longer than the threshold (main.rs p50_ns), for every *)
(* number of commits.                                                      *)
THEOREM BreachMajority == Spec => []BreachIsMajority
<1>1. ASSUME TypeInv PROVE BreachIsMajority
  <2>1. window \in Seq(Nat)
    BY <1>1, SeqNat DEF TypeInv
  <2>2. CASE window = <<>>
    <3>1. 1 .. Len(window) = {}
      BY <2>2
    <3>2. QED
      BY <2>2, <3>1 DEF BreachIsMajority, Breached
  <2>3. CASE window # <<>>
    <3> DEFINE slow == {i \in 1 .. Len(window) : window[i] > ThresholdNs}
    <3>1. P50(window) > ThresholdNs <=> slow # {} /\ 2 * Cardinality(slow) >= Len(window)
      BY <2>1, <2>3, ThresholdType, MedianAbove
    <3>2. QED
      BY <2>3, <3>1 DEF BreachIsMajority, Breached
  <2>4. QED
    BY <2>2, <2>3
<1>2. QED
  BY <1>1, Invariance, PTL DEF IInv

-----------------------------------------------------------------------------
(* The rule implements EpisodeAlarm.                                       *)

(* The counter's streak is the run of breaches that ends now, and the      *)
(* Findings came out at the intervals the alarm names.                     *)
HistInv ==
  /\ history \in Seq(BOOLEAN)
  /\ quiet \in 0 .. MaxQuiet
  /\ TrailingRun(history, counter.streak)
  /\ raised = E!FireInstants(history)

LEMMA SameInstants == \A h : Alarm!FireInstants(h) = E!FireInstants(h)
BY DEF Alarm!FireInstants, Alarm!CompletesRun, E!FireInstants, E!CompletesRun

LEMMA InitHistInv == InitH => HistInv
<1> SUFFICES ASSUME InitH PROVE HistInv
  OBVIOUS
<1>1. counter.streak = 0 /\ history = <<>> /\ raised = {} /\ quiet = 0
  BY DEF InitH, Init, Rearmed
<1>2. TrailingRun(<<>>, 0)
  BY CounterAssumption DEF TrailingRun
<1>3. E!FireInstants(<<>>) = {}
  BY DEF E!FireInstants
<1>4. history \in Seq(BOOLEAN) /\ quiet \in 0 .. MaxQuiet
  BY <1>1, QuietAssumption
<1>5. QED
  BY <1>1, <1>2, <1>3, <1>4 DEF HistInv

(* A step that is no tick feeds the counter nothing. *)
LEMMA QuietSteps ==
  ASSUME Kernel \/ TimerElapses \/ Drain \/ Interrupt
  PROVE  UNCHANGED <<counter, findings>>
BY DEF Kernel, KernelSample, TimerElapses, Drain, BeginDrain, DrainOne, EndDrain,
       ClearGuard, Interrupt, loaderVars

(* A tick appends its verdict to the history and raises a Finding exactly  *)
(* when that verdict completes a run.                                      *)
LEMMA TickHistInv == IInv /\ HistInv /\ TickH => HistInv' /\ Alarm!Next
<1> SUFFICES ASSUME IInv, HistInv, TickH PROVE HistInv' /\ Alarm!Next
  OBVIOUS
<1>1. PICK b : b = Breached(window)
  OBVIOUS
<1>2. b \in BOOLEAN
  BY <1>1, BreachedFacts DEF IInv, TypeInv
<1>3. /\ history' = Append(history, b)
      /\ counter' = Observe(counter, b)
      /\ findings' = IF JustFires(counter, b)
                     THEN Append(findings, [p50_ms |-> P50(window) \div NsPerMs,
                                            streak |-> counter'.streak])
                     ELSE findings
      /\ raised' = IF findings' = findings THEN raised ELSE raised \cup {Len(history) + 1}
  BY <1>1 DEF TickH, Tick
<1>4. /\ history \in Seq(BOOLEAN) /\ TrailingRun(history, counter.streak)
      /\ raised = E!FireInstants(history)
      /\ counter \in Counter /\ (counter.fired <=> counter.streak >= RunLength)
      /\ findings \in Seq(Reportable)
  BY DEF HistInv, IInv, TypeInv, LatchInv
<1>5. /\ history' \in Seq(BOOLEAN)
      /\ TrailingRun(history', counter'.streak)
      /\ E!FireInstants(history') =
           E!FireInstants(history) \cup (IF JustFires(counter, b) THEN {Len(history) + 1} ELSE {})
  BY <1>2, <1>3, <1>4, AlarmStep
<1>6. quiet' \in 0 .. MaxQuiet
  BY QuietAssumption DEF TickH, HistInv
<1>9. findings' = findings <=> ~JustFires(counter, b)
  <2>1. CASE JustFires(counter, b)
    <3>1. Len(findings') = Len(findings) + 1 /\ Len(findings) \in Nat
      BY <1>3, <1>4, <2>1
    <3>2. QED
      BY <2>1, <3>1
  <2>2. CASE ~JustFires(counter, b)
    BY <1>3, <2>2
  <2>3. QED
    BY <2>1, <2>2
<1>10. raised' = E!FireInstants(history')
  BY <1>3, <1>4, <1>5, <1>9
<1>11. Alarm!Interval(b)
  BY <1>3, <1>10, SameInstants DEF Alarm!Interval
<1>12. QED
  BY <1>2, <1>5, <1>6, <1>10, <1>11 DEF HistInv, Alarm!Next

(* Every step with a history is a step of the loader, keeps the invariant  *)
(* and is a step of the alarm, or changes none of the alarm's variables.   *)
LEMMA NextHSteps ==
  IInv /\ HistInv /\ [NextH]_hvars => [Next]_vars /\ HistInv' /\ [Alarm!Next]_(Alarm!vars)
<1> SUFFICES ASSUME IInv, HistInv, [NextH]_hvars
             PROVE  [Next]_vars /\ HistInv' /\ [Alarm!Next]_(Alarm!vars)
  OBVIOUS
<1>1. CASE TickH
  BY <1>1, TickHistInv DEF TickH, Next
<1>2. CASE (Kernel \/ TimerElapses \/ Drain \/ Interrupt) /\ UNCHANGED hist
  BY <1>2, QuietSteps DEF Next, HistInv, Alarm!vars, hist
<1>3. CASE UNCHANGED hvars
  BY <1>3 DEF hvars, hist, vars, loaderVars, HistInv, Alarm!vars
<1>4. QED
  BY <1>1, <1>2, <1>3 DEF NextH

(* Both invariants hold of every behaviour with a history. *)
THEOREM HistoryInvariance == SpecH => [](IInv /\ HistInv)
<1>1. InitH => IInv /\ HistInv
  BY InitIInv, InitHistInv DEF InitH
<1>2. IInv /\ HistInv /\ [NextH]_hvars => IInv' /\ HistInv'
  BY NextHSteps, NextIInv
<1>3. QED
  BY <1>1, <1>2, PTL DEF SpecH

(* Type correctness with the history: what was raised are intervals that   *)
(* have been evaluated.                                                    *)
THEOREM HistoryTypeCorrect == SpecH => []TypeOKH
<1>1. IInv /\ HistInv => history \in Seq(BOOLEAN) /\ raised \subseteq 1 .. Len(history)
                        /\ quiet \in 0 .. MaxQuiet
  BY DEF HistInv, E!FireInstants
<1>2. SpecH => Spec
  <2>1. InitH => Init
    BY DEF InitH
  <2>2. IInv /\ HistInv /\ [NextH]_hvars => [Next]_vars
    BY NextHSteps
  <2>3. QED
    BY <2>1, <2>2, HistoryInvariance, PTL DEF SpecH, Spec
<1>3. QED
  BY <1>1, <1>2, HistoryInvariance, TypeCorrect, PTL DEF TypeOKH

(* The counter's record is true of the intervals it was fed, up to the     *)
(* saturation of the streak (window.rs observe).                           *)
THEOREM CounterTruthful == SpecH => []CounterTracksHistory
<1>1. IInv /\ HistInv => CounterTracksHistory
  BY DEF IInv, LatchInv, HistInv, CounterTracksHistory
<1>2. QED
  BY <1>1, HistoryInvariance, PTL

(* The fsync-jitter rule implements the abstract alarm for every           *)
(* fire_after, every saturation point and any number of intervals: one     *)
(* Finding per run of RunLength breaching ticks, at the tick that          *)
(* completes it, and no other (window.rs observe, main.rs tick arm).       *)
THEOREM RuleImplementsAlarm == SpecH => ImplementsEpisodeAlarm
<1>1. InitH => Alarm!Init
  BY DEF InitH, Alarm!Init
<1>2. IInv /\ HistInv /\ [NextH]_hvars => [Alarm!Next]_(Alarm!vars)
  BY NextHSteps
<1>3. QED
  BY <1>1, <1>2, HistoryInvariance, PTL DEF SpecH, Alarm!Spec, ImplementsEpisodeAlarm
=============================================================================
