------------------------------ MODULE RuleLemmas ------------------------------
(***************************************************************************)
(* The lemmas the proofs about the rules share: what a product and a       *)
(* rounded division are bounded by, induction, what the median of an       *)
(* interval says of its samples, and why a saturating streak and a latch   *)
(* are enough to recognise episodes, by relating a run counter to the      *)
(* history it was fed.                                                     *)
(***************************************************************************)
EXTENDS BreachCounter, Percentile, FiniteSetTheorems, TLAPS

E == INSTANCE Episodes WITH N <- RunLength

-----------------------------------------------------------------------------
(* Arithmetic.                                                             *)

(* A product with one factor more. *)
LEMMA TimesSucc ==
  ASSUME NEW n \in Nat, NEW m \in Nat
  PROVE  (n + 1) * m = n * m + m /\ n * m \in Nat
OBVIOUS

(* Division rounds down. *)
LEMMA DivBounds ==
  ASSUME NEW a \in Nat, NEW n \in Nat \ {0}
  PROVE  /\ a \div n \in Nat
         /\ (a \div n) * n <= a
         /\ a < (a \div n) * n + n
BY SMT

(* A larger product has a larger factor. *)
LEMMA TimesMonotone ==
  ASSUME NEW a \in Nat, NEW b \in Nat, NEW n \in Nat, a <= b
  PROVE  a * n <= b * n /\ a * n \in Nat /\ b * n \in Nat
BY SMT

LEMMA DivMonotone ==
  ASSUME NEW a \in Nat, NEW b \in Nat, NEW n \in Nat \ {0}, a <= b
  PROVE  a \div n <= b \div n
<1> DEFINE p == a \div n
           q == b \div n
<1>1. p \in Nat /\ q \in Nat /\ p * n <= a /\ b < q * n + n
  BY DivBounds
<1> HIDE DEF p, q
<1>2. SUFFICES ASSUME p > q PROVE FALSE
  BY <1>1 DEF p, q
<1>3. (q + 1) * n <= p * n /\ p * n \in Nat /\ q * n \in Nat
  BY <1>1, <1>2, TimesMonotone
<1>4. (q + 1) * n = q * n + n
  BY <1>1, TimesSucc
<1>5. QED
  BY <1>1, <1>3, <1>4

(* A quotient is at least what the dividend is a multiple of. *)
LEMMA DivAtLeast ==
  ASSUME NEW a \in Nat, NEW b \in Nat, NEW n \in Nat \ {0}, a >= b * n
  PROVE  a \div n \in Nat /\ a \div n >= b
<1> DEFINE q == a \div n
<1>1. q \in Nat /\ a < q * n + n
  BY DivBounds
<1> HIDE DEF q
<1>2. ASSUME q < b PROVE FALSE
  <2>1. (q + 1) * n <= b * n /\ q * n \in Nat /\ b * n \in Nat
    BY <1>1, <1>2, TimesMonotone
  <2>2. (q + 1) * n = q * n + n
    BY <1>1, TimesSucc
  <2>3. QED
    BY <1>1, <2>1, <2>2
<1>3. QED
  BY <1>1, <1>2 DEF q

-----------------------------------------------------------------------------
(* Induction, as the absence of a least counterexample.                   *)

(* Every non-empty set of natural numbers has a least element. *)
LEMMA LeastNat ==
  ASSUME NEW T \in SUBSET Nat, T # {}
  PROVE  \E n \in T : \A m \in T : n <= m
<1> DEFINE R == {ss \in Nat \X Nat : ss[1] < ss[2]}
<1>1. IsWellFoundedOn(R, Nat)
  BY NatLessThanWellFounded DEF OpToRel
<1> HIDE DEF R
<1>2. PICK n \in T : \A m \in T : <<m, n>> \notin R
  BY <1>1, WFMin
<1>3. \A a, b \in Nat : a < b => <<a, b>> \in R
  BY DEF R
<1>4. \A m \in T : ~(m < n) /\ m \in Nat /\ n \in Nat
  BY <1>2, <1>3
<1>5. QED
  BY <1>4

(* Every non-empty family of subsets of a finite set has a minimal one. *)
LEMMA MinimalSubset ==
  ASSUME NEW S, IsFiniteSet(S), NEW T \in SUBSET (SUBSET S), T # {}
  PROVE  \E d \in T : \A e \in T : e \subseteq d => e = d
<1>1. IsWellFoundedOn(StrictSubsetOrdering(S), SUBSET S)
  BY FS_FiniteSubsetsOfFinite, FS_StrictSubsetOrderingWellFounded
<1>2. PICK d \in T : \A e \in T : <<e, d>> \notin StrictSubsetOrdering(S)
  BY <1>1, WFMin
<1>3. QED
  BY <1>2 DEF StrictSubsetOrdering

-----------------------------------------------------------------------------
(* The median of an interval.                                              *)

(* Samples of a smaller type. *)
LEMMA SeqOfSubset ==
  ASSUME NEW S, NEW T, S \subseteq T, NEW s \in Seq(S)
  PROVE  s \in Seq(T)
<1>1. Len(s) \in Nat /\ s \in [1 .. Len(s) -> S]
  OBVIOUS
<1>2. s \in [1 .. Len(s) -> T]
  BY <1>1
<1>3. QED
  BY <1>1, <1>2

(* The indices of a sequence. *)
LEMMA IndexCount ==
  ASSUME NEW n \in Nat
  PROVE  IsFiniteSet(1 .. n) /\ Cardinality(1 .. n) = n
<1>1. IsFiniteSet(1 .. n) /\ Cardinality(1 .. n) = IF 1 > n THEN 0 ELSE n - 1 + 1
  BY FS_Interval
<1>2. QED
  BY <1>1

(* The samples that sort no later than one of them. *)
LEMMA NoLaterFacts ==
  ASSUME NEW s \in Seq(Nat), NEW i \in 1 .. Len(s)
  PROVE  /\ NoLater(s, i) \subseteq 1 .. Len(s) /\ IsFiniteSet(NoLater(s, i))
         /\ i \in NoLater(s, i)
         /\ Cardinality(NoLater(s, i)) \in 1 .. Len(s)
<1>1. NoLater(s, i) \subseteq 1 .. Len(s) /\ Len(s) \in Nat
  BY DEF NoLater
<1>2. s[i] \in Nat
  OBVIOUS
<1>3. i \in NoLater(s, i)
  BY <1>2 DEF NoLater
<1>4. IsFiniteSet(1 .. Len(s)) /\ Cardinality(1 .. Len(s)) = Len(s)
  BY <1>1, IndexCount
<1>5. IsFiniteSet(NoLater(s, i)) /\ Cardinality(NoLater(s, i)) <= Len(s)
  BY <1>1, <1>4, FS_Subset
<1>6. Cardinality(NoLater(s, i)) \in Nat /\ Cardinality(NoLater(s, i)) # 0
  BY <1>3, <1>5, FS_CardinalityType, FS_EmptySet
<1>7. QED
  BY <1>1, <1>3, <1>5, <1>6

(* Sorting gives no two samples the same position. *)
LEMMA PositionsDiffer ==
  ASSUME NEW s \in Seq(Nat), NEW i \in 1 .. Len(s), NEW j \in 1 .. Len(s),
         s[i] < s[j] \/ (s[i] = s[j] /\ i < j)
  PROVE  Cardinality(NoLater(s, i)) # Cardinality(NoLater(s, j))
<1>1. \A k \in 1 .. Len(s) : s[k] \in Nat
  OBVIOUS
<1>2. NoLater(s, i) \subseteq NoLater(s, j) /\ j \notin NoLater(s, i)
  BY <1>1 DEF NoLater
<1>3. j \in NoLater(s, j) /\ IsFiniteSet(NoLater(s, j))
  BY NoLaterFacts
<1>4. NoLater(s, i) # NoLater(s, j)
  BY <1>2, <1>3
<1>5. QED
  BY <1>2, <1>3, <1>4, FS_Subset

(* Every position is some sample's. *)
LEMMA PositionTaken ==
  ASSUME NEW s \in Seq(Nat), NEW k \in 1 .. Len(s)
  PROVE  \E i \in 1 .. Len(s) : Cardinality(NoLater(s, i)) = k
<1> DEFINE D == 1 .. Len(s)
           position == [i \in D |-> Cardinality(NoLater(s, i))]
<1>1. position \in [D -> D]
  BY NoLaterFacts
<1>2. ASSUME NEW i \in D, NEW j \in D, i # j
      PROVE  position[i] # position[j]
  <2>1. s[i] \in Nat /\ s[j] \in Nat
    OBVIOUS
  <2>2. CASE s[i] < s[j] \/ (s[i] = s[j] /\ i < j)
    BY <2>2, PositionsDiffer
  <2>3. CASE s[j] < s[i] \/ (s[j] = s[i] /\ j < i)
    <3>1. Cardinality(NoLater(s, j)) # Cardinality(NoLater(s, i))
      BY <2>3, PositionsDiffer
    <3>2. QED
      BY <3>1
  <2>4. QED
    BY <1>2, <2>1, <2>2, <2>3
<1>3. position \in Injection(D, D)
  BY <1>1, <1>2 DEF Injection, IsInjective
<1>4. IsFiniteSet(D)
  BY FS_Interval
<1>5. position \in Surjection(D, D)
  BY <1>3, <1>4, FS_Injection
<1>6. QED
  BY <1>5 DEF Surjection

(* The median is a sample, and it is the one that has half of the samples  *)
(* no later than itself, rounded down, besides itself.                     *)
LEMMA P50Sample ==
  ASSUME NEW s \in Seq(Nat), s # <<>>
  PROVE  \E i \in 1 .. Len(s) :
           P50(s) = s[i] /\ Cardinality(NoLater(s, i)) = Len(s) \div 2 + 1
<1> DEFINE m == Len(s) \div 2 + 1
           i == CHOOSE i \in 1 .. Len(s) : Cardinality(NoLater(s, i)) = m
<1>1. Len(s) \in Nat /\ Len(s) >= 1
  OBVIOUS
<1>2. m \in 1 .. Len(s)
  BY <1>1
<1>3. i \in 1 .. Len(s) /\ Cardinality(NoLater(s, i)) = m
  <2> HIDE DEF m
  <2>1. QED
    BY <1>2, PositionTaken
<1>4. P50(s) = s[i]
  BY <1>2 DEF P50, Sorted
<1>5. QED
  BY <1>3, <1>4

(* What "the median is above a value" means: some sample is, and at least  *)
(* half of them are.                                                       *)
LEMMA MedianAbove ==
  ASSUME NEW s \in Seq(Nat), s # <<>>, NEW v \in Nat
  PROVE  LET above == {i \in 1 .. Len(s) : s[i] > v}
         IN  /\ P50(s) \in Nat
             /\ P50(s) > v <=> above # {} /\ 2 * Cardinality(above) >= Len(s)
<1> DEFINE above == {i \in 1 .. Len(s) : s[i] > v}
           D == 1 .. Len(s)
<1>1. PICK i \in D : P50(s) = s[i] /\ Cardinality(NoLater(s, i)) = Len(s) \div 2 + 1
  BY P50Sample
<1>2. Len(s) \in Nat /\ Len(s) >= 1 /\ \A j \in D : s[j] \in Nat
  OBVIOUS
<1>3. IsFiniteSet(D) /\ Cardinality(D) = Len(s)
  BY <1>2, IndexCount
<1>4. NoLater(s, i) \subseteq D /\ i \in NoLater(s, i) /\ IsFiniteSet(NoLater(s, i))
  BY NoLaterFacts
<1> DEFINE later == D \ NoLater(s, i)
<1>5. IsFiniteSet(later) /\ Cardinality(later) = Len(s) - (Len(s) \div 2 + 1)
  <2>1. D \cap NoLater(s, i) = NoLater(s, i)
    BY <1>4
  <2>2. /\ IsFiniteSet(D \ NoLater(s, i))
        /\ Cardinality(D \ NoLater(s, i)) = Cardinality(D) - Cardinality(D \cap NoLater(s, i))
    <3> HIDE DEF D
    <3>1. QED
      BY <1>3, FS_Difference
  <2>3. QED
    BY <1>1, <1>3, <2>1, <2>2
<1>6. IsFiniteSet(above) /\ Cardinality(above) \in Nat
  <2>1. above \subseteq D
    OBVIOUS
  <2>2. QED
    BY <1>3, <2>1, FS_Subset, FS_CardinalityType
<1>7. CASE s[i] > v
  <2>1. later \cup {i} \subseteq above
    BY <1>2, <1>7 DEF NoLater
  <2>2. IsFiniteSet(later \cup {i}) /\ Cardinality(later \cup {i}) = Cardinality(later) + 1
    BY <1>4, <1>5, FS_AddElement
  <2>3. Cardinality(later \cup {i}) <= Cardinality(above)
    BY <1>6, <2>1, FS_Subset
  <2>4. above # {}
    BY <1>7
  <2>5. 2 * Cardinality(above) >= Len(s)
    <3> HIDE DEF above, later
    <3>1. QED
      BY <1>2, <1>5, <1>6, <2>2, <2>3
  <2>6. QED
    BY <1>1, <1>2, <1>7, <2>4, <2>5
<1>8. CASE ~(s[i] > v)
  <2>1. above \subseteq later
    BY <1>2, <1>8 DEF NoLater
  <2>2. Cardinality(above) <= Cardinality(later)
    BY <1>5, <2>1, FS_Subset
  <2>3. 2 * Cardinality(above) < Len(s)
    <3> HIDE DEF above, later
    <3>1. QED
      BY <1>2, <1>5, <1>6, <2>2
  <2>4. QED
    <3> HIDE DEF above
    <3>1. QED
      BY <1>1, <1>2, <1>6, <1>8, <2>3 DEF above
<1>9. QED
  BY <1>7, <1>8

-----------------------------------------------------------------------------
(* The streak, the latch and the episodes.                                 *)

(* fire_after = 0 behaves like 1, and saturation never hides a firing.     *)
LEMMA RunLengthFacts ==
  RunLength \in Nat /\ RunLength >= 1 /\ RunLength <= CounterMax /\ CounterMax >= 1
BY CounterAssumption DEF RunLength

(* observe() compares the incremented streak with fire_after; that is the  *)
(* same as comparing it with RunLength.                                    *)
LEMMA ReachesFireAfter ==
  ASSUME NEW run \in 0 .. CounterMax
  PROVE  /\ SaturatingSucc(run) \in 1 .. CounterMax
         /\ SaturatingSucc(run) >= FireAfter <=> SaturatingSucc(run) >= RunLength
BY CounterAssumption DEF SaturatingSucc, RunLength

(* CompletesRun at the interval after the n-th. *)
LEMMA CompletesRunMeans ==
  ASSUME NEW g, NEW n \in Nat
  PROVE  E!CompletesRun(g, n + 1) <=>
           /\ n + 1 >= RunLength
           /\ \A j \in (n + 1 - RunLength + 1) .. (n + 1) : g[j]
           /\ n + 1 = RunLength \/ ~g[n + 1 - RunLength]
BY RunLengthFacts DEF E!CompletesRun

(* What appending a verdict does to a history. *)
LEMMA AppendFacts ==
  ASSUME NEW h \in Seq(BOOLEAN), NEW b \in BOOLEAN
  PROVE  /\ Append(h, b) \in Seq(BOOLEAN)
         /\ Len(Append(h, b)) = Len(h) + 1
         /\ \A i \in 1 .. Len(h) : Append(h, b)[i] = h[i]
         /\ Append(h, b)[Len(h) + 1] = b
         /\ Len(h) \in Nat
OBVIOUS

(* A breach extends the run (observe, the saturating_add). *)
LEMMA RunExtends ==
  ASSUME NEW h \in Seq(BOOLEAN), NEW run, TrailingRun(h, run)
  PROVE  TrailingRun(Append(h, TRUE), SaturatingSucc(run))
<1> DEFINE g == Append(h, TRUE)
           n == Len(h)
<1>1. /\ Len(g) = n + 1 /\ n \in Nat /\ g[n + 1] = TRUE
      /\ \A i \in 1 .. n : g[i] = h[i]
  BY AppendFacts
<1>2. /\ run \in 0 .. CounterMax /\ run <= n
      /\ \A i \in (n - run + 1) .. n : h[i]
      /\ run = CounterMax \/ run = n \/ ~h[n - run]
  BY DEF TrailingRun
<1>3. CounterMax \in Nat /\ CounterMax >= 1
  BY CounterAssumption
<1> DEFINE s == SaturatingSucc(run)
<1>4. s \in 1 .. CounterMax /\ s <= run + 1 /\ (run < CounterMax => s = run + 1)
      /\ (run = CounterMax => s = CounterMax)
  BY <1>2, <1>3 DEF SaturatingSucc
<1>5. s \in 0 .. CounterMax /\ s <= n + 1
  BY <1>2, <1>4, <1>1
<1>6. ASSUME NEW i \in (n + 1 - s + 1) .. (n + 1)
      PROVE  g[i]
  <2>1. CASE i = n + 1
    BY <2>1, <1>1
  <2>2. CASE i # n + 1
    <3>1. i \in (n - run + 1) .. n /\ i \in 1 .. n
      BY <2>2, <1>1, <1>2, <1>4
    <3>2. QED
      BY <3>1, <1>1, <1>2
  <2>3. QED
    BY <2>1, <2>2
<1>7. s = CounterMax \/ s = n + 1 \/ ~g[n + 1 - s]
  <2>1. CASE run = CounterMax
    BY <2>1, <1>4
  <2>2. CASE run = n /\ run # CounterMax
    BY <2>2, <1>1, <1>2, <1>3, <1>4
  <2>3. CASE run # n /\ run # CounterMax
    <3>1. n + 1 - s = n - run
      BY <2>3, <1>1, <1>2, <1>3, <1>4
    <3>2. n - run \in 1 .. n
      BY <2>3, <1>1, <1>2, <1>3
    <3>3. ~h[n - run]
      BY <2>3, <1>2
    <3>4. QED
      BY <3>1, <3>2, <3>3, <1>1
  <2>4. QED
    BY <2>1, <2>2, <2>3
<1> HIDE DEF s, g
<1>8. Len(g) = n + 1
  BY <1>1
<1>9. TrailingRun(g, s)
  BY <1>5, <1>6, <1>7, <1>8 DEF TrailingRun
<1>10. QED
  BY <1>9 DEF s, g

(* A non-breach ends it (observe, `self.streak = 0`). *)
LEMMA RunBreaks ==
  ASSUME NEW h \in Seq(BOOLEAN)
  PROVE  TrailingRun(Append(h, FALSE), 0)
<1>1. /\ Len(Append(h, FALSE)) = Len(h) + 1 /\ Len(h) \in Nat
      /\ Append(h, FALSE)[Len(h) + 1] = FALSE
  BY AppendFacts
<1>2. QED
  BY <1>1, CounterAssumption DEF TrailingRun

(* The run that a breach extends completes an episode exactly when the     *)
(* streak reaches RunLength now and had not before.                        *)
LEMMA CompletesWhenReached ==
  ASSUME NEW h \in Seq(BOOLEAN), NEW run, TrailingRun(h, run)
  PROVE  E!CompletesRun(Append(h, TRUE), Len(h) + 1)
           <=> SaturatingSucc(run) >= RunLength /\ run < RunLength
<1> DEFINE g == Append(h, TRUE)
           n == Len(h)
<1>1. /\ Len(g) = n + 1 /\ n \in Nat /\ g[n + 1] = TRUE
      /\ \A i \in 1 .. n : g[i] = h[i]
  BY AppendFacts
<1>2. /\ run \in 0 .. CounterMax /\ run <= n
      /\ \A i \in (n - run + 1) .. n : h[i]
      /\ run = CounterMax \/ run = n \/ ~h[n - run]
  BY DEF TrailingRun
<1>3. PICK R : R = RunLength /\ R \in Nat /\ R >= 1 /\ R <= CounterMax /\ CounterMax \in Nat
  BY RunLengthFacts, CounterAssumption
<1>4. E!CompletesRun(g, n + 1) <=>
        /\ n + 1 >= R
        /\ \A j \in (n + 1 - R + 1) .. (n + 1) : g[j]
        /\ n + 1 = R \/ ~g[n + 1 - R]
  BY <1>1, <1>3, CompletesRunMeans
<1>. SUFFICES E!CompletesRun(g, n + 1) <=> SaturatingSucc(run) >= R /\ run < R
  BY <1>3
<1> HIDE DEF g, n
<1>5. CASE run < R
  <2>1. SaturatingSucc(run) = run + 1
    BY <1>5, <1>2, <1>3 DEF SaturatingSucc
  <2>2. CASE run + 1 = R
    <3>1. \A j \in (n + 1 - R + 1) .. (n + 1) : g[j]
      BY <2>2, <1>1, <1>2, <1>3
    <3>2. n + 1 = R \/ ~g[n + 1 - R]
      <4>1. CASE run = n
        BY <4>1, <2>2
      <4>2. CASE run # n
        <5>1. n - run \in 1 .. n /\ n + 1 - R = n - run
          BY <4>2, <2>2, <1>2, <1>3, <1>1
        <5>2. run # CounterMax
          BY <1>5, <1>2, <1>3
        <5>3. ~h[n - run]
          BY <5>2, <4>2, <1>2
        <5>4. QED
          BY <5>1, <5>3, <1>1
      <4>3. QED
        BY <4>1, <4>2
    <3>3. n + 1 >= R
      BY <2>2, <1>1, <1>2
    <3>4. QED
      BY <3>1, <3>2, <3>3, <1>4, <1>5, <2>1, <2>2, <1>3
  <2>3. CASE run + 1 # R
    <3>1. run + 1 < R
      BY <2>3, <1>5, <1>2, <1>3
    <3>2. ~(/\ n + 1 >= R
            /\ \A j \in (n + 1 - R + 1) .. (n + 1) : g[j])
      <4>1. SUFFICES ASSUME n + 1 >= R,
                            \A j \in (n + 1 - R + 1) .. (n + 1) : g[j]
                     PROVE  FALSE
        OBVIOUS
      <4>2. /\ n - run \in 1 .. n
            /\ n - run \in (n + 1 - R + 1) .. (n + 1)
            /\ run # CounterMax /\ run # n
        BY <4>1, <3>1, <1>2, <1>3, <1>1
      <4>3. ~h[n - run]
        BY <4>2, <1>2
      <4>4. g[n - run]
        BY <4>1, <4>2
      <4>5. QED
        BY <4>2, <4>3, <4>4, <1>1
    <3>3. QED
      BY <3>1, <3>2, <1>4, <2>1, <1>2, <1>3
  <2>4. QED
    BY <2>2, <2>3
<1>6. CASE ~(run < R)
  <2>1. /\ n + 1 # R
        /\ n + 1 - R \in 1 .. n /\ n + 1 - R \in (n - run + 1) .. n
    BY <1>6, <1>1, <1>2, <1>3
  <2>2. g[n + 1 - R]
    BY <2>1, <1>1, <1>2
  <2>3. QED
    BY <2>1, <2>2, <1>4, <1>6
<1>7. QED
  BY <1>5, <1>6

(* A non-breach completes no episode. *)
LEMMA NonBreachCompletesNothing ==
  ASSUME NEW h \in Seq(BOOLEAN)
  PROVE  ~E!CompletesRun(Append(h, FALSE), Len(h) + 1)
<1>1. Append(h, FALSE)[Len(h) + 1] = FALSE /\ Len(h) \in Nat
  BY AppendFacts
<1>2. Len(h) + 1 \in (Len(h) + 1 - RunLength + 1) .. (Len(h) + 1)
  BY <1>1, RunLengthFacts
<1>3. ASSUME E!CompletesRun(Append(h, FALSE), Len(h) + 1)
      PROVE  Append(h, FALSE)[Len(h) + 1]
  <2>1. \A j \in (Len(h) + 1 - RunLength + 1) .. (Len(h) + 1) : Append(h, FALSE)[j]
    BY <1>1, <1>3, CompletesRunMeans
  <2>2. QED
    BY <2>1, <1>2
<1>4. QED
  BY <1>1, <1>3

(* A new verdict decides only about itself: the intervals that fired       *)
(* before it stay what they were.                                          *)
LEMMA FireInstantsAppend ==
  ASSUME NEW h \in Seq(BOOLEAN), NEW b \in BOOLEAN
  PROVE  E!FireInstants(Append(h, b)) =
           E!FireInstants(h) \cup
             (IF E!CompletesRun(Append(h, b), Len(h) + 1) THEN {Len(h) + 1} ELSE {})
<1> DEFINE g == Append(h, b)
           n == Len(h)
<1>1. /\ Len(g) = n + 1 /\ n \in Nat
      /\ \A i \in 1 .. n : g[i] = h[i]
  BY AppendFacts
<1>2. RunLength \in Nat /\ RunLength >= 1
  BY RunLengthFacts
<1>3. ASSUME NEW i \in 1 .. n
      PROVE  E!CompletesRun(g, i) <=> E!CompletesRun(h, i)
  <2>1. CASE i >= RunLength
    <3>1. (i - RunLength + 1) .. i \subseteq 1 .. n
      BY <2>1, <1>1, <1>2
    <3>2. (\A j \in (i - RunLength + 1) .. i : g[j])
            <=> (\A j \in (i - RunLength + 1) .. i : h[j])
      BY <3>1, <1>1
    <3>3. i # RunLength => i - RunLength \in 1 .. n
      BY <2>1, <1>1, <1>2
    <3>4. QED
      BY <3>2, <3>3, <1>1 DEF E!CompletesRun
  <2>2. CASE ~(i >= RunLength)
    BY <2>2 DEF E!CompletesRun
  <2>3. QED
    BY <2>1, <2>2
<1> HIDE DEF g
<1>4. 1 .. Len(g) = (1 .. n) \cup {n + 1}
  BY <1>1
<1>5. E!FireInstants(g) = {i \in 1 .. n : E!CompletesRun(h, i)} \cup
                          (IF E!CompletesRun(g, n + 1) THEN {n + 1} ELSE {})
  BY <1>3, <1>4 DEF E!FireInstants
<1>6. QED
  BY <1>5 DEF E!FireInstants, g

(* What one interval does to the counter. *)
LEMMA ObserveFacts ==
  ASSUME NEW c \in Counter, NEW b \in BOOLEAN,
         c.fired <=> c.streak >= RunLength
  PROVE  /\ Observe(c, b) \in Counter
         /\ Observe(c, b).fired <=> Observe(c, b).streak >= RunLength
         /\ Observe(c, b).streak <= c.streak + 1
         /\ b => Observe(c, b).streak = SaturatingSucc(c.streak)
         /\ ~b => Observe(c, b).streak = 0
         /\ c.fired /\ b => Observe(c, b).fired
         /\ JustFires(c, b) <=> b /\ ~c.fired /\ Observe(c, b).fired
         /\ JustFires(c, b) => c.streak = RunLength - 1 /\ Observe(c, b).streak = RunLength
<1>1. c.streak \in 0 .. CounterMax /\ c.fired \in BOOLEAN
      /\ CounterMax \in Nat /\ FireAfter \in Nat
  BY CounterAssumption DEF Counter
<1>2. /\ SaturatingSucc(c.streak) \in 1 .. CounterMax
      /\ SaturatingSucc(c.streak) >= FireAfter <=> SaturatingSucc(c.streak) >= RunLength
  BY <1>1, ReachesFireAfter
<1>3. RunLength \in Nat /\ RunLength >= 1 /\ RunLength <= CounterMax
  BY RunLengthFacts
<1>4. /\ c.streak < CounterMax => SaturatingSucc(c.streak) = c.streak + 1
      /\ c.streak = CounterMax => SaturatingSucc(c.streak) = CounterMax
  BY <1>1 DEF SaturatingSucc
<1>5. CASE b
  <2>1. Observe(c, b) = [streak |-> SaturatingSucc(c.streak),
                         fired |-> c.fired \/ SaturatingSucc(c.streak) >= FireAfter]
    BY <1>5 DEF Observe
  <2>2. JustFires(c, b) <=> SaturatingSucc(c.streak) >= FireAfter /\ ~c.fired
    <3>1. SaturatingSucc(c.streak) < FireAfter <=> ~(SaturatingSucc(c.streak) >= FireAfter)
      BY <1>1, <1>2
    <3>2. CASE SaturatingSucc(c.streak) < FireAfter
      <4>1. Verdict(c, b) = "Building"
        BY <3>1, <3>2, <1>5 DEF Verdict
      <4>2. QED
        BY <4>1, <3>1, <3>2 DEF JustFires
    <3>3. CASE SaturatingSucc(c.streak) >= FireAfter /\ c.fired
      <4>1. Verdict(c, b) = "StillFiring"
        BY <3>1, <3>3, <1>5 DEF Verdict
      <4>2. QED
        BY <4>1, <3>3 DEF JustFires
    <3>4. CASE SaturatingSucc(c.streak) >= FireAfter /\ ~c.fired
      <4>1. Verdict(c, b) = "JustFired"
        BY <3>1, <3>4, <1>5 DEF Verdict
      <4>2. QED
        BY <4>1, <3>4 DEF JustFires
    <3>5. QED
      BY <3>1, <3>2, <3>3, <3>4
  <2>3. /\ Observe(c, b).streak = SaturatingSucc(c.streak)
        /\ Observe(c, b).fired <=> c.fired \/ SaturatingSucc(c.streak) >= RunLength
        /\ Observe(c, b) \in Counter
    <3>1. PICK f \in BOOLEAN : f <=> c.fired \/ SaturatingSucc(c.streak) >= FireAfter
      OBVIOUS
    <3>2. SaturatingSucc(c.streak) \in 0 .. CounterMax
      BY <1>1, <1>2
    <3>3. Observe(c, b) = [streak |-> SaturatingSucc(c.streak), fired |-> f]
      BY <2>1, <3>1
    <3>4. Observe(c, b) \in Counter
      BY <3>1, <3>2, <3>3 DEF Counter
    <3>5. Observe(c, b).streak = SaturatingSucc(c.streak) /\ Observe(c, b).fired = f
      BY <3>3
    <3>6. QED
      BY <3>1, <3>4, <3>5, <1>2
  <2>4. c.fired => SaturatingSucc(c.streak) >= RunLength
    BY <1>1, <1>2, <1>3, <1>4
  <2>5. ASSUME JustFires(c, b)
        PROVE  c.streak = RunLength - 1 /\ SaturatingSucc(c.streak) = RunLength
    <3>1. ~(c.streak >= RunLength) /\ SaturatingSucc(c.streak) >= RunLength
      BY <2>2, <2>5, <1>2
    <3>2. QED
      BY <3>1, <1>1, <1>3, <1>4
  <2>6. SaturatingSucc(c.streak) <= c.streak + 1
    BY <1>1, <1>4
  <2>7. JustFires(c, b) <=> b /\ ~c.fired /\ Observe(c, b).fired
    BY <1>2, <1>5, <2>2, <2>3
  <2>8. QED
    BY <1>5, <2>3, <2>4, <2>5, <2>6, <2>7
<1>6. CASE ~b
  <2>1. Observe(c, b) = [streak |-> 0, fired |-> FALSE]
    BY <1>6 DEF Observe, Rearmed
  <2>2. ~JustFires(c, b)
    BY <1>6 DEF JustFires, Verdict
  <2>3. QED
    BY <1>1, <1>3, <1>6, <2>1, <2>2 DEF Counter
<1>7. QED
  BY <1>5, <1>6

(* One interval keeps a counter and the alarm in step: the streak stays    *)
(* the run that ends now, and the counter fires exactly when the verdict   *)
(* completes a run.                                                        *)
LEMMA AlarmStep ==
  ASSUME NEW h \in Seq(BOOLEAN), NEW c \in Counter, NEW b \in BOOLEAN,
         c.fired <=> c.streak >= RunLength,
         TrailingRun(h, c.streak)
  PROVE  /\ Append(h, b) \in Seq(BOOLEAN)
         /\ TrailingRun(Append(h, b), Observe(c, b).streak)
         /\ E!FireInstants(Append(h, b)) =
              E!FireInstants(h) \cup (IF JustFires(c, b) THEN {Len(h) + 1} ELSE {})
<1>1. /\ b => Observe(c, b).streak = SaturatingSucc(c.streak)
      /\ ~b => Observe(c, b).streak = 0
      /\ Observe(c, b).fired <=> Observe(c, b).streak >= RunLength
      /\ JustFires(c, b) <=> b /\ ~c.fired /\ Observe(c, b).fired
  BY ObserveFacts
<1>2. TrailingRun(Append(h, b), Observe(c, b).streak)
  <2>1. CASE b
    BY <1>1, <2>1, RunExtends
  <2>2. CASE ~b
    BY <1>1, <2>2, RunBreaks
  <2>3. QED
    BY <2>1, <2>2
<1>3. JustFires(c, b) <=> E!CompletesRun(Append(h, b), Len(h) + 1)
  <2>1. CASE b
    <3>1. c.streak \in Nat /\ RunLength \in Nat
      BY CounterAssumption, RunLengthFacts DEF Counter
    <3>2. E!CompletesRun(Append(h, b), Len(h) + 1)
            <=> SaturatingSucc(c.streak) >= RunLength /\ c.streak < RunLength
      BY <2>1, CompletesWhenReached
    <3>3. c.streak < RunLength <=> ~c.fired
      BY <3>1
    <3>4. QED
      BY <1>1, <2>1, <3>2, <3>3
  <2>2. CASE ~b
    BY <1>1, <2>2, NonBreachCompletesNothing
  <2>3. QED
    BY <2>1, <2>2
<1>4. QED
  BY <1>2, <1>3, AppendFacts, FireInstantsAppend
=============================================================================
