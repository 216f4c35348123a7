------------------------------- MODULE StmtProofs -------------------------------
(***************************************************************************)
(* Proofs about the pg_stat_statements collector, for any set of rows that *)
(* have a queryid each, any number of executions, and rows evicted or      *)
(* reset at any moment, also between a poll and the visit to a row.        *)
(***************************************************************************)
EXTENDS StmtDeltas, TLAPS

UniqueQueries == \A r, s \in Row : QueryOf[r] = QueryOf[s] => r = s

-----------------------------------------------------------------------------
(* The inductive invariant, row by row.                                    *)

InView(r)   == ValueOr0(view, r)
Before(r)   == ValueOr0(prev, QueryOf[r])

(* What emit_deltas will put into prev for r: the value polled, or what is *)
(* there once r has been visited.                                          *)
Polled(r)   == IF r \in DOMAIN samples THEN samples[r] ELSE Before(r)

(* A map from some of the keys to counts. *)
IsCount(f, keys) == DOMAIN f \subseteq keys /\ f \in [DOMAIN f -> Nat]

TypeInv ==
  /\ IsCount(view, Row) /\ IsCount(samples, Row) /\ IsCount(prev, QueryId)
  /\ reported \in [Row -> Nat] /\ executed \in [Row -> Nat]

(* The increments made, the one a sample in flight will make and the one   *)
(* the next poll would make are all paid for by executions.                *)
PaidInv(r) ==
  reported[r] + Delta(Polled(r), Before(r)) + Delta(InView(r), Polled(r)) <= executed[r]

(* A row that was never dropped counts its executions, and the metric has  *)
(* what prev has.                                                          *)
ExactInv(r) ==
  r \notin forgotten =>
    /\ InView(r) = executed[r] /\ reported[r] = Before(r)
    /\ Before(r) <= Polled(r) /\ Polled(r) <= InView(r)

IInv == UniqueQueries /\ TypeInv /\ \A r \in Row : PaidInv(r) /\ ExactInv(r)

-----------------------------------------------------------------------------
LEMMA RowTypes ==
  ASSUME TypeInv, NEW r \in Row
  PROVE  /\ InView(r) \in Nat /\ Before(r) \in Nat /\ Polled(r) \in Nat
         /\ reported[r] \in Nat /\ executed[r] \in Nat
BY DEF TypeInv, IsCount, InView, Before, Polled, ValueOr0

LEMMA PutFacts ==
  ASSUME NEW f, NEW keys, IsCount(f, keys), NEW x \in keys, NEW v \in Nat
  PROVE  /\ IsCount(Put(f, x, v), keys)
         /\ ValueOr0(Put(f, x, v), x) = v
         /\ \A y : y # x => ValueOr0(Put(f, x, v), y) = ValueOr0(f, y)
BY DEF IsCount, Put, ValueOr0

LEMMA RestrictFacts ==
  ASSUME NEW f, NEW keys, IsCount(f, keys), NEW gone
  PROVE  /\ IsCount(Restrict(f, DOMAIN f \ gone), keys)
         /\ DOMAIN Restrict(f, DOMAIN f \ gone) = DOMAIN f \ gone
         /\ \A y \in gone : ValueOr0(Restrict(f, DOMAIN f \ gone), y) = 0
         /\ \A y : y \notin gone => ValueOr0(Restrict(f, DOMAIN f \ gone), y) = ValueOr0(f, y)
         /\ \A y \in DOMAIN f \ gone : Restrict(f, DOMAIN f \ gone)[y] = f[y]
BY DEF IsCount, Restrict, ValueOr0

LEMMA InitIInv ==
  ASSUME UniqueQueries, Init
  PROVE  IInv
<1>1. TypeInv
  BY DEF Init, TypeInv, IsCount
<1>2. ASSUME NEW r \in Row
      PROVE  /\ InView(r) = 0 /\ Before(r) = 0 /\ Polled(r) = 0
             /\ reported[r] = 0 /\ executed[r] = 0
  BY DEF Init, InView, Before, Polled, ValueOr0
<1>3. QED
  BY <1>1, <1>2 DEF IInv, PaidInv, ExactInv, Delta

LEMMA ExecuteKeeps ==
  ASSUME IInv, NEW x \in Row, Execute(x)
  PROVE  IInv'
<1>1. /\ view' = Put(view, x, InView(x) + 1)
      /\ executed' = [executed EXCEPT ![x] = @ + 1]
      /\ UNCHANGED <<samples, prev, reported, forgotten>>
  BY DEF Execute, InView
<1>2. TypeInv
  BY DEF IInv
<1>3. InView(x) + 1 \in Nat
  BY <1>2, RowTypes
<1>4. /\ IsCount(view', Row) /\ ValueOr0(view', x) = InView(x) + 1
      /\ \A y : y # x => ValueOr0(view', y) = ValueOr0(view, y)
  BY <1>1, <1>2, <1>3, PutFacts DEF TypeInv
<1>5. TypeInv'
  BY <1>1, <1>2, <1>4 DEF TypeInv, IsCount
<1>6. ASSUME NEW r \in Row PROVE PaidInv(r)' /\ ExactInv(r)'
  <2>1. /\ InView(r) \in Nat /\ Before(r) \in Nat /\ Polled(r) \in Nat
        /\ reported[r] \in Nat /\ executed[r] \in Nat
    BY <1>2, RowTypes
  <2>2. /\ Before(r)' = Before(r) /\ Polled(r)' = Polled(r)
        /\ reported'[r] = reported[r] /\ forgotten' = forgotten
    BY <1>1 DEF Before, Polled, ValueOr0
  <2>3. \/ InView(r)' = InView(r) /\ executed'[r] = executed[r]
        \/ InView(r)' = InView(r) + 1 /\ executed'[r] = executed[r] + 1
    BY <1>1, <1>2, <1>4 DEF InView, TypeInv
  <2>4. PaidInv(r) /\ ExactInv(r)
    BY DEF IInv
  <2>5. PaidInv(r)'
    BY <2>1, <2>2, <2>3, <2>4 DEF PaidInv, Delta
  <2>6. ExactInv(r)'
    BY <2>1, <2>2, <2>3, <2>4 DEF ExactInv
  <2>7. QED
    BY <2>5, <2>6
<1>7. QED
  BY <1>5, <1>6 DEF IInv, UniqueQueries

LEMMA ForgetKeeps ==
  ASSUME IInv, NEW rows \in SUBSET DOMAIN view, Forget(rows)
  PROVE  IInv'
<1>1. /\ view' = Restrict(view, DOMAIN view \ rows) /\ forgotten' = forgotten \cup rows
      /\ UNCHANGED <<samples, prev, reported, executed>>
  BY DEF Forget
<1>2. TypeInv
  BY DEF IInv
<1>3. /\ IsCount(view', Row) /\ \A y \in rows : ValueOr0(view', y) = 0
      /\ \A y : y \notin rows => ValueOr0(view', y) = ValueOr0(view, y)
  <2>1. IsCount(view, Row)
    BY <1>2 DEF TypeInv
  <2>2. QED
    BY <1>1, <2>1, RestrictFacts
<1>4. TypeInv'
  BY <1>1, <1>2, <1>3 DEF TypeInv, IsCount
<1>5. ASSUME NEW r \in Row PROVE PaidInv(r)' /\ ExactInv(r)'
  <2>1. /\ InView(r) \in Nat /\ Before(r) \in Nat /\ Polled(r) \in Nat
        /\ reported[r] \in Nat /\ executed[r] \in Nat
    BY <1>2, RowTypes
  <2>2. /\ Before(r)' = Before(r) /\ Polled(r)' = Polled(r)
        /\ reported'[r] = reported[r] /\ executed'[r] = executed[r]
    BY <1>1 DEF Before, Polled, ValueOr0
  <2>3. \/ InView(r)' = InView(r) /\ (r \notin forgotten' => r \notin forgotten)
        \/ InView(r)' = 0 /\ r \in forgotten'
    BY <1>1, <1>3 DEF InView
  <2>4. PaidInv(r) /\ ExactInv(r)
    BY DEF IInv
  <2>5. PaidInv(r)'
    BY <2>1, <2>2, <2>3, <2>4 DEF PaidInv, Delta
  <2>6. ExactInv(r)'
    BY <2>1, <2>2, <2>3, <2>4 DEF ExactInv
  <2>7. QED
    BY <2>5, <2>6
<1>6. QED
  BY <1>4, <1>5 DEF IInv, UniqueQueries

LEMMA PollKeeps ==
  ASSUME IInv, Poll
  PROVE  IInv'
<1>1. /\ DOMAIN samples = {} /\ samples' = view
      /\ UNCHANGED <<view, prev, reported, executed, forgotten>>
  BY DEF Poll
<1>2. TypeInv
  BY DEF IInv
<1>3. TypeInv'
  BY <1>1, <1>2 DEF TypeInv, IsCount
<1>4. ASSUME NEW r \in Row PROVE PaidInv(r)' /\ ExactInv(r)'
  <2>1. /\ InView(r) \in Nat /\ Before(r) \in Nat /\ Polled(r) \in Nat
        /\ reported[r] \in Nat /\ executed[r] \in Nat
    BY <1>2, RowTypes
  <2>2. /\ Before(r)' = Before(r) /\ InView(r)' = InView(r) /\ forgotten' = forgotten
        /\ reported'[r] = reported[r] /\ executed'[r] = executed[r]
    BY <1>1 DEF Before, InView, ValueOr0
  <2>3. Polled(r) = Before(r)
    BY <1>1 DEF Polled
  <2>4. \/ Polled(r)' = InView(r)
        \/ Polled(r)' = Before(r)
    BY <1>1, <2>2 DEF Polled, InView, ValueOr0
  <2>5. PaidInv(r) /\ ExactInv(r)
    BY DEF IInv
  <2>6. PaidInv(r)'
    BY <2>1, <2>2, <2>3, <2>4, <2>5 DEF PaidInv, Delta
  <2>7. ExactInv(r)'
    BY <2>1, <2>2, <2>3, <2>4, <2>5 DEF ExactInv
  <2>8. QED
    BY <2>6, <2>7
<1>5. QED
  BY <1>3, <1>4 DEF IInv, UniqueQueries

LEMMA EmitKeeps ==
  ASSUME IInv, NEW x \in DOMAIN samples, EmitRow(x)
  PROVE  IInv'
<1>1. /\ reported' = [reported EXCEPT ![x] = @ + Delta(samples[x], Before(x))]
      /\ prev' = Put(prev, QueryOf[x], samples[x])
      /\ samples' = Restrict(samples, DOMAIN samples \ {x})
      /\ UNCHANGED <<view, executed, forgotten>>
  BY DEF EmitRow, Before
<1>2. TypeInv /\ UniqueQueries
  BY DEF IInv
<1>3. x \in Row /\ samples[x] \in Nat /\ QueryOf[x] \in QueryId /\ Polled(x) = samples[x]
  BY <1>2, StmtAssumption DEF TypeInv, IsCount, Polled
<1>4. /\ IsCount(prev', QueryId) /\ ValueOr0(prev', QueryOf[x]) = samples[x]
      /\ \A q : q # QueryOf[x] => ValueOr0(prev', q) = ValueOr0(prev, q)
  BY <1>1, <1>2, <1>3, PutFacts DEF TypeInv
<1>5. /\ IsCount(samples', Row) /\ DOMAIN samples' = DOMAIN samples \ {x}
      /\ \A y \in DOMAIN samples \ {x} : samples'[y] = samples[y]
  BY <1>1, <1>2, RestrictFacts DEF TypeInv
<1>6. Before(x) \in Nat /\ Delta(samples[x], Before(x)) \in Nat
  BY <1>2, <1>3, RowTypes DEF Delta
<1>7. /\ reported' \in [Row -> Nat]
      /\ reported'[x] = reported[x] + Delta(samples[x], Before(x))
      /\ \A r \in Row \ {x} : reported'[r] = reported[r]
  BY <1>1, <1>2, <1>3, <1>6 DEF TypeInv
<1>8. TypeInv'
  BY <1>1, <1>2, <1>4, <1>5, <1>7 DEF TypeInv, IsCount
<1>9. ASSUME NEW r \in Row PROVE PaidInv(r)' /\ ExactInv(r)'
  <2>1. /\ InView(r) \in Nat /\ Before(r) \in Nat /\ Polled(r) \in Nat
        /\ reported[r] \in Nat /\ executed[r] \in Nat
    BY <1>2, RowTypes
  <2>2. InView(r)' = InView(r) /\ executed'[r] = executed[r] /\ forgotten' = forgotten
    BY <1>1 DEF InView, ValueOr0
  <2>3. PaidInv(r) /\ ExactInv(r)
    BY DEF IInv
  <2>4. CASE r = x
    <3>1. /\ Before(r)' = Polled(r) /\ Polled(r)' = Polled(r)
          /\ reported'[r] = reported[r] + Delta(Polled(r), Before(r))
      BY <1>3, <1>4, <1>5, <1>7, <2>4 DEF Before, Polled
    <3>2. PaidInv(r)'
      BY <2>1, <2>2, <2>3, <3>1 DEF PaidInv, Delta
    <3>3. ExactInv(r)'
      BY <2>1, <2>2, <2>3, <3>1 DEF ExactInv, Delta
    <3>4. QED
      BY <3>2, <3>3
  <2>5. CASE r # x
    <3>1. QueryOf[r] # QueryOf[x]
      BY <1>2, <1>3, <2>5 DEF UniqueQueries
    <3>2. Before(r)' = Before(r) /\ Polled(r)' = Polled(r) /\ reported'[r] = reported[r]
      BY <1>4, <1>5, <1>7, <2>5, <3>1 DEF Before, Polled
    <3>3. PaidInv(r)'
      BY <2>1, <2>2, <2>3, <3>2 DEF PaidInv, Delta
    <3>4. ExactInv(r)'
      BY <2>1, <2>2, <2>3, <3>2 DEF ExactInv
    <3>5. QED
      BY <3>3, <3>4
  <2>6. QED
    BY <2>4, <2>5
<1>10. QED
  BY <1>2, <1>8, <1>9 DEF IInv, UniqueQueries

(* The inductive invariant holds when no two rows share a queryid. *)
THEOREM StmtInvariance == UniqueQueries /\ Spec => []IInv
<1>1. UniqueQueries /\ Init => IInv
  BY InitIInv
<1>2. IInv /\ [Next]_vars => IInv'
  <2>1. SUFFICES ASSUME IInv, [Next]_vars PROVE IInv'
    OBVIOUS
  <2>2. CASE UNCHANGED vars
    BY <2>1, <2>2 DEF vars, IInv, UniqueQueries, TypeInv, IsCount, PaidInv, ExactInv, InView,
                      Before, Polled, ValueOr0
  <2>3. CASE Next
    BY <2>1, <2>3, ExecuteKeeps, ForgetKeeps, PollKeeps, EmitKeeps DEF Next
  <2>4. QED
    BY <2>1, <2>2, <2>3
<1>3. QED
  BY <1>1, <1>2, PTL DEF Spec

(* emit_deltas: the calls reported for a row never exceed its executions,  *)
(* whatever Postgres evicts or resets, when each queryid has one row.      *)
THEOREM NothingOverstated == UniqueQueries /\ Spec => []NeverOverstated
<1>1. IInv => NeverOverstated
  <2>1. SUFFICES ASSUME IInv, NEW r \in Row PROVE reported[r] <= executed[r]
    BY DEF NeverOverstated
  <2>2. /\ InView(r) \in Nat /\ Before(r) \in Nat /\ Polled(r) \in Nat
        /\ reported[r] \in Nat /\ executed[r] \in Nat
    BY <2>1, RowTypes DEF IInv
  <2>3. QED
    BY <2>1, <2>2 DEF IInv, PaidInv, Delta
<1>2. QED
  BY <1>1, StmtInvariance, PTL

(* emit_deltas: for a row Postgres never dropped, what is reported and     *)
(* what is still to be reported add up to its executions.                  *)
THEOREM NothingLost == UniqueQueries /\ Spec => []ExactUntilForgotten
<1>1. IInv => ExactUntilForgotten
  <2>1. SUFFICES ASSUME IInv, NEW r \in Row \ forgotten
                 PROVE  reported[r] + Delta(InView(r), Before(r)) = executed[r]
    BY DEF ExactUntilForgotten, InView, Before
  <2>2. /\ InView(r) \in Nat /\ Before(r) \in Nat /\ Polled(r) \in Nat
        /\ reported[r] \in Nat /\ executed[r] \in Nat
    BY <2>1, RowTypes DEF IInv
  <2>3. QED
    BY <2>1, <2>2 DEF IInv, ExactInv, Delta
<1>2. QED
  BY <1>1, StmtInvariance, PTL
=============================================================================
