------------------------------ MODULE Percentile ------------------------------
(***************************************************************************)
(* p50_ns of pgsleuth-ebpf-loader/src/main.rs: the median the fsync-jitter *)
(* rule judges an interval by.                                             *)
(***************************************************************************)
EXTENDS Naturals, Sequences, FiniteSets

(* The samples that sorting puts no later than the i-th: the smaller ones, *)
(* and of the equal ones those that came first.                            *)
NoLater(samples, i) ==
  {j \in 1 .. Len(samples) :
     samples[j] < samples[i] \/ (samples[j] = samples[i] /\ j <= i)}

(* sort_unstable(): a sample's position is how many sort no later than it. *)
Sorted(samples) ==
  [k \in 1 .. Len(samples) |->
     samples[CHOOSE i \in 1 .. Len(samples) : Cardinality(NoLater(samples, i)) = k]]

(* Mutant: the lower of the two middle elements. *)
P50LowerMiddle(samples) == Sorted(samples)[(Len(samples) + 1) \div 2]

(* p50_ns of a non-empty interval: sorted, then the element at index len/2 *)
(* counted from zero.                                                      *)
P50(samples) == Sorted(samples)[Len(samples) \div 2 + 1]
=============================================================================
