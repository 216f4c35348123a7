------------------------------ MODULE WalProofs ------------------------------
(***************************************************************************)
(* Proofs about the block-layer programs, for any number of requests,      *)
(* devices and map slots, any ring capacity and any interleaving of probes *)
(* on several CPUs, that they hold of the programs while the loop of the   *)
(* loader runs beside them, and that what the loop records, judges and     *)
(* reports is true of the requests the programs timed.                     *)
(***************************************************************************)
EXTENDS WalLatency, RuleLemmas

-----------------------------------------------------------------------------
(* The inductive invariant.                                                *)

(* An entry of INFLIGHT is the issue time of a request of that key that    *)
(* the device still has, or that was completed unseen.                     *)
EntryInv ==
  \A k \in DOMAIN inflight :
    /\ key[owner[k]] = k /\ PassDevFilter(k[1])
    /\ inflight[k] = issuedAt[owner[k]]
    /\ phase[owner[k]] \in {"device", "found"} \/ owner[k] \in unseen

UnseenInv == \A r \in unseen : phase[r] = "done"

ClockInv == \A r \in Request : issuedAt[r] <= clock /\ storedAt[r] <= clock

(* Before block_rq_issue is attached there is nothing to find. *)
AttachInv ==
  "issue" \notin attached =>
    DOMAIN inflight = {} /\ \A r \in Request : phase[r] # "issuing"

(* What a request's probes hold: whatever is found under its key was       *)
(* stored after it was issued.                                             *)
ProbeInv ==
  \A r \in Request :
    /\ phase[r] = "issuing" => ts[r] = issuedAt[r] /\ PassDevFilter(key[r][1])
    /\ phase[r] = "device" /\ key[r] \in DOMAIN inflight
         => storedAt[owner[key[r]]] >= issuedAt[r]
    /\ phase[r] \in {"found", "timed"}
         => held[r] \in Request /\ storedAt[held[r]] >= issuedAt[r]

SampleInv ==
  \A i \in 1 .. Len(ring) :
    /\ phase[ring[i].req] = "done"
    /\ storedAt[ring[i].from] >= issuedAt[ring[i].req]

(* As long as keys have identified the requests in flight, an entry under  *)
(* a request's key is its own, and only its own completion removes it.     *)
KeysDiffer ==
  \A q, r \in Request : q # r /\ InFlight(q) /\ InFlight(r) => key[q] # key[r]
EntryIsOwn ==
  \A r \in Request :
    phase[r] \in {"device", "found"} /\ key[r] \in DOMAIN inflight => owner[key[r]] = r
HeldIsOwn ==
  \A r \in Request :
    phase[r] \in {"found", "timed"} => held[r] = r /\ ts[r] = issuedAt[r]
EntryIsThere ==
  \A r \in Request : phase[r] = "device" /\ r \notin untimed => key[r] \in DOMAIN inflight
AloneInv == ~collided => KeysDiffer /\ EntryIsOwn /\ HeldIsOwn /\ EntryIsThere

IInv ==
  /\ TypeOK /\ IsFiniteSet(DOMAIN inflight)
  /\ EntryInv /\ UnseenInv /\ ClockInv /\ AttachInv /\ ProbeInv /\ SampleInv
  /\ AloneInv /\ SampleIsOwn /\ MissIsExplained

-----------------------------------------------------------------------------
LEMMA SubFacts ==
  ASSUME NEW a \in 0 .. MaxTime, NEW b \in 0 .. MaxTime
  PROVE  SaturatingSub(a, b) \in 0 .. MaxTime
BY BlockIoAssumption DEF SaturatingSub

LEMMA ClassifyType == \A io, stale : Classify(io, stale) \in OpClass
<1> SUFFICES ASSUME NEW io, NEW stale PROVE Classify(io, stale) \in OpClass
  OBVIOUS
<1> DEFINE w == io.first \in {"W", "F"}
           f == ({io.first} \cup io.rest \cup stale) \cap {"F", "A"} # {}
<1>1. CASE io.first = "R"
  BY <1>1 DEF Classify, OpClass
<1>2. CASE io.first # "R" /\ w /\ f
  BY <1>2 DEF Classify, OpClass
<1>3. CASE io.first # "R" /\ w /\ ~f
  BY <1>3 DEF Classify, OpClass
<1>4. CASE io.first # "R" /\ ~w
  BY <1>4 DEF Classify, OpClass
<1>5. QED
  BY <1>1, <1>2, <1>3, <1>4

LEMMA InitIInv == Init => IInv
<1> SUFFICES ASSUME Init PROVE IInv
  OBVIOUS
<1>1. DOMAIN inflight = {} /\ DOMAIN owner = {} /\ ring = <<>>
  BY DEF Init, RingInit
<1>2. IsFiniteSet(DOMAIN inflight) /\ Cardinality(DOMAIN inflight) = 0
  BY <1>1, FS_EmptySet
<1>3. TypeOK
  <2>1. ring \in Seq(Sample) /\ Len(ring) <= RingCap /\ ready \in BOOLEAN /\ fresh \in BOOLEAN
    <3>1. <<>> \in Seq(Sample) /\ Len(<<>>) <= RingCap
      BY RingAssumption
    <3>2. QED
      BY <3>1 DEF Init, RingInit
  <2>2. clock \in 0 .. MaxTime /\ Cardinality(DOMAIN inflight) <= MaxEntries
    BY <1>2, BlockIoAssumption DEF Init
  <2>3. /\ ts \in [Request -> 0 .. MaxTime] /\ issuedAt \in [Request -> 0 .. MaxTime]
        /\ storedAt \in [Request -> 0 .. MaxTime]
    BY BlockIoAssumption DEF Init
  <2>4. /\ phase \in [Request -> {"new", "issuing", "device", "found", "timed", "done"}]
        /\ held \in [Request -> Request \cup {None}]
        /\ key \in [Request -> Key] /\ rwbs \in [Request -> Rwbs]
    BY DEF Init
  <2>5. QED
    BY <1>1, <2>1, <2>2, <2>3, <2>4 DEF Init, TypeOK
<1>4. ClockInv
  BY DEF Init, ClockInv
<1>5. AloneInv
  BY DEF Init, AloneInv, KeysDiffer, EntryIsOwn, HeldIsOwn, EntryIsThere, InFlight
<1>6. QED
  BY <1>1, <1>2, <1>3, <1>4, <1>5
     DEF Init, IInv, EntryInv, UnseenInv, AttachInv, ProbeInv, SampleInv, SampleIsOwn,
         MissIsExplained

(* The clock only moves forward. *)
LEMMA TimeIInv == IInv /\ TimePasses => IInv'
<1> SUFFICES ASSUME IInv, TimePasses PROVE IInv'
  OBVIOUS
<1>1. /\ clock < MaxTime /\ clock' = clock + 1
      /\ UNCHANGED <<ring, ready, fresh, attached, phase, key, rwbs, ts, inflight, collided,
                     issuedAt, storedAt, owner, held, unseen, untimed, missed>>
  BY DEF TimePasses, ringVars, probeVars, history
<1>2. TypeOK'
  BY <1>1, BlockIoAssumption DEF IInv, TypeOK
<1>3. ClockInv'
  BY <1>1, BlockIoAssumption DEF IInv, ClockInv, TypeOK
<1>4. QED
  BY <1>1, <1>2, <1>3
     DEF IInv, EntryInv, UnseenInv, AttachInv, ProbeInv, SampleInv, AloneInv, KeysDiffer,
         EntryIsOwn, HeldIsOwn, EntryIsThere, InFlight, SampleIsOwn, MissIsExplained

(* Attaching a program changes nothing that is there already. *)
LEMMA AttachIInv == \A p \in Program : IInv /\ Attach(p) => IInv'
<1> SUFFICES ASSUME NEW p \in Program, IInv, Attach(p) PROVE IInv'
  OBVIOUS
<1>1. /\ attached' = attached \cup {p} /\ p \notin attached
      /\ p = "complete" => "issue" \in attached
      /\ UNCHANGED <<clock, ring, ready, fresh, phase, key, rwbs, ts, inflight, collided,
                     issuedAt, storedAt, owner, held, unseen, untimed, missed>>
  BY DEF Attach, ringVars, probeVars, history
<1>2. attached' \in {{}, {"issue"}, Program}
  BY <1>1 DEF IInv, TypeOK, Program
<1>3. TypeOK'
  BY <1>1, <1>2 DEF IInv, TypeOK
<1>4. QED
  BY <1>1, <1>3
     DEF IInv, EntryInv, UnseenInv, ClockInv, AttachInv, ProbeInv, SampleInv, AloneInv,
         KeysDiffer, EntryIsOwn, HeldIsOwn, EntryIsThere, InFlight, SampleIsOwn, MissIsExplained

(* The consumer takes the oldest sample and leaves the programs alone. *)
LEMMA ConsumeIInv == IInv /\ LoaderConsumes => IInv'
<1> SUFFICES ASSUME IInv, LoaderConsumes PROVE IInv'
  OBVIOUS
<1>1. UNCHANGED <<clock, attached, phase, key, rwbs, ts, inflight, collided,
                  issuedAt, storedAt, owner, held, unseen, untimed, missed>>
  BY DEF LoaderConsumes, probeVars, history
<1>2. ring \in Seq(Sample) /\ Len(ring) <= RingCap /\ ready \in BOOLEAN /\ fresh \in BOOLEAN
  BY DEF IInv, TypeOK
<1>3. /\ ring' \in Seq(Sample) /\ Len(ring') <= RingCap
      /\ ready' \in BOOLEAN /\ fresh' \in BOOLEAN
      /\ \A i \in 1 .. Len(ring') : \E j \in 1 .. Len(ring) : ring'[i] = ring[j]
  <2>1. CASE Consume
    <3>1. ring # <<>> /\ ring' = Tail(ring) /\ UNCHANGED <<ready, fresh>>
      BY <2>1 DEF Consume
    <3>2. /\ Tail(ring) \in Seq(Sample) /\ Len(Tail(ring)) = Len(ring) - 1 /\ Len(ring) \in Nat
          /\ \A i \in 1 .. Len(Tail(ring)) : Tail(ring)[i] = ring[i + 1]
      BY <1>2, <3>1
    <3>3. \A i \in 1 .. Len(ring') : i + 1 \in 1 .. Len(ring) /\ ring'[i] = ring[i + 1]
      BY <3>1, <3>2
    <3>4. QED
      BY <1>2, <3>1, <3>2, <3>3, RingAssumption
  <2>2. CASE TakeGuard
    BY <1>2, <2>2 DEF TakeGuard
  <2>3. CASE ClearReady
    BY <1>2, <2>3 DEF ClearReady
  <2>4. QED
    BY <2>1, <2>2, <2>3 DEF LoaderConsumes
<1>4. TypeOK'
  BY <1>1, <1>3 DEF IInv, TypeOK
<1>5. SampleInv' /\ SampleIsOwn'
  BY <1>1, <1>3 DEF IInv, SampleInv, SampleIsOwn
<1>6. QED
  BY <1>1, <1>4, <1>5
     DEF IInv, EntryInv, UnseenInv, ClockInv, AttachInv, ProbeInv, AloneInv,
         KeysDiffer, EntryIsOwn, HeldIsOwn, EntryIsThere, InFlight, MissIsExplained

LEMMA RingType ==
  ASSUME TypeOK, NEW i \in 1 .. Len(ring)
  PROVE  ring[i] \in Sample /\ ring[i].req \in Request /\ ring[i].from \in Request
<1>1. ring \in Seq(Sample)
  BY DEF TypeOK
<1>2. ring[i] \in Sample
  BY <1>1
<1>3. QED
  BY <1>2 DEF Sample

(* A new request: what is in the map belongs to others, and nothing is     *)
(* under its key unless block_rq_issue runs for it.                        *)
LEMMA IssueIInv == \A r \in Request : IInv /\ Issue(r) => IInv'
<1> SUFFICES ASSUME NEW r \in Request, IInv, Issue(r) PROVE IInv'
  OBVIOUS
<1> DEFINE traced == "issue" \in attached /\ PassDevFilter(key[r][1])
<1>1. /\ phase[r] = "new"
      /\ phase' = [phase EXCEPT ![r] = IF traced THEN "issuing" ELSE "device"]
      /\ ts' = IF traced THEN [ts EXCEPT ![r] = clock] ELSE ts
      /\ untimed' = IF traced THEN untimed ELSE untimed \cup {r}
      /\ issuedAt' = [issuedAt EXCEPT ![r] = clock]
      /\ collided' = (collided \/ \E q \in Request : InFlight(q) /\ key[q] = key[r])
      /\ UNCHANGED <<ring, ready, fresh, clock, attached, key, rwbs, inflight, storedAt,
                     owner, held, unseen, missed>>
  BY DEF Issue, ringVars
<1>2. TypeOK
  BY DEF IInv
<1>3. TypeOK'
  <2>1. collided' \in BOOLEAN
    BY <1>1
  <2>2. QED
    BY <1>1, <1>2, <2>1 DEF TypeOK
<1>4. ~traced => key[r] \notin DOMAIN inflight
  BY DEF IInv, AttachInv, EntryInv
<1>5. \A k \in DOMAIN inflight : owner[k] \in Request /\ owner[k] # r
  BY <1>1, <1>2 DEF IInv, EntryInv, UnseenInv, TypeOK
<1>6. \A q \in Request : q # r => /\ phase'[q] = phase[q] /\ ts'[q] = ts[q]
                                  /\ issuedAt'[q] = issuedAt[q]
  BY <1>1, <1>2 DEF TypeOK
<1>7. /\ phase'[r] = IF traced THEN "issuing" ELSE "device"
      /\ issuedAt'[r] = clock /\ (traced => ts'[r] = clock)
  BY <1>1, <1>2 DEF TypeOK
<1> HIDE DEF traced
<1>8. EntryInv' /\ UnseenInv'
  BY <1>1, <1>2, <1>5, <1>6 DEF IInv, EntryInv, UnseenInv, TypeOK
<1>9. ClockInv'
  BY <1>1, <1>2, <1>6, <1>7, BlockIoAssumption DEF IInv, ClockInv, TypeOK
<1>10. AttachInv'
  BY <1>1, <1>6, <1>7 DEF IInv, AttachInv, traced
<1>11. ProbeInv'
  <2>1. SUFFICES ASSUME NEW q \in Request
        PROVE  /\ phase'[q] = "issuing" => ts'[q] = issuedAt'[q] /\ PassDevFilter(key[q][1])
               /\ phase'[q] = "device" /\ key[q] \in DOMAIN inflight
                    => storedAt[owner[key[q]]] >= issuedAt'[q]
               /\ phase'[q] \in {"found", "timed"}
                    => held[q] \in Request /\ storedAt[held[q]] >= issuedAt'[q]
    BY <1>1 DEF ProbeInv
  <2>2. CASE q = r
    BY <1>4, <1>7, <2>2 DEF traced
  <2>3. CASE q # r
    BY <1>6, <2>3 DEF IInv, ProbeInv
  <2>4. QED
    BY <2>2, <2>3
<1>12. SampleInv' /\ SampleIsOwn'
  <2>1. \A i \in 1 .. Len(ring) : ring[i].req \in Request /\ ring[i].req # r
    BY <1>1, <1>2, RingType DEF IInv, SampleInv
  <2>2. SampleInv'
    BY <1>1, <1>6, <2>1 DEF IInv, SampleInv
  <2>3. SampleIsOwn'
    BY <1>1 DEF IInv, SampleIsOwn
  <2>4. QED
    BY <2>2, <2>3
<1>13. AloneInv'
  <2>1. SUFFICES ASSUME ~collided' PROVE (KeysDiffer /\ EntryIsOwn /\ HeldIsOwn /\ EntryIsThere)'
    BY DEF AloneInv
  <2>2. /\ KeysDiffer /\ EntryIsOwn /\ HeldIsOwn /\ EntryIsThere
        /\ \A q \in Request : InFlight(q) => key[q] # key[r]
    BY <1>1, <2>1 DEF IInv, AloneInv
  <2>3. KeysDiffer'
    BY <1>1, <1>6, <2>2 DEF KeysDiffer, InFlight
  <2>4. EntryIsOwn' /\ EntryIsThere'
    BY <1>1, <1>4, <1>6, <1>7, <2>2 DEF EntryIsOwn, EntryIsThere
  <2>5. HeldIsOwn'
    BY <1>1, <1>6, <1>7, <2>2 DEF HeldIsOwn
  <2>6. QED
    BY <2>3, <2>4, <2>5
<1>14. MissIsExplained'
  BY <1>1 DEF IInv, MissIsExplained
<1>15. QED
  BY <1>1, <1>3, <1>8, <1>9, <1>10, <1>11, <1>12, <1>13, <1>14 DEF IInv

(* INFLIGHT.insert: the entry is the request's own and as young as can be; *)
(* a refused one leaves nothing under the key.                             *)
LEMMA StoreIInv == \A r \in Request : IInv /\ StoreTimestamp(r) => IInv'
<1> SUFFICES ASSUME NEW r \in Request, IInv, StoreTimestamp(r) PROVE IInv'
  OBVIOUS
<1>1. /\ phase[r] = "issuing"
      /\ phase' = [phase EXCEPT ![r] = "device"]
      /\ UNCHANGED <<ring, ready, fresh, clock, attached, key, rwbs, ts, collided, issuedAt,
                     held, unseen, missed>>
  BY DEF StoreTimestamp, ringVars
<1>2. /\ TypeOK /\ IsFiniteSet(DOMAIN inflight)
      /\ ts[r] = issuedAt[r] /\ PassDevFilter(key[r][1]) /\ "issue" \in attached
  BY <1>1 DEF IInv, ProbeInv, AttachInv
<1>3. /\ phase'[r] = "device" /\ \A q \in Request : q # r => phase'[q] = phase[q]
      /\ phase' \in [Request -> {"new", "issuing", "device", "found", "timed", "done"}]
  BY <1>1, <1>2 DEF TypeOK
<1>4. UnseenInv' /\ AttachInv'
  BY <1>1, <1>2, <1>3 DEF IInv, UnseenInv, AttachInv, TypeOK
<1>5. KeysDiffer => KeysDiffer'
  BY <1>1, <1>3 DEF KeysDiffer, InFlight
<1>6. HeldIsOwn => HeldIsOwn'
  BY <1>1, <1>3 DEF HeldIsOwn
<1>7. CASE key[r] \in DOMAIN inflight \/ Cardinality(DOMAIN inflight) < MaxEntries
  <2>1. /\ inflight' = [k \in DOMAIN inflight \cup {key[r]} |->
                          IF k = key[r] THEN ts[r] ELSE inflight[k]]
        /\ owner' = [k \in DOMAIN owner \cup {key[r]} |-> IF k = key[r] THEN r ELSE owner[k]]
        /\ storedAt' = [storedAt EXCEPT ![r] = clock]
        /\ untimed' = untimed
    BY <1>7 DEF StoreTimestamp
  <2>2. /\ DOMAIN inflight' = DOMAIN inflight \cup {key[r]}
        /\ inflight'[key[r]] = issuedAt[r] /\ owner'[key[r]] = r
        /\ \A k \in DOMAIN inflight : k # key[r] =>
             inflight'[k] = inflight[k] /\ owner'[k] = owner[k]
        /\ DOMAIN owner' = DOMAIN inflight'
    BY <1>2, <2>1 DEF TypeOK
  <2>3. /\ storedAt'[r] = clock /\ clock \in Nat
        /\ \A q \in Request : /\ storedAt[q] \in Nat /\ issuedAt[q] \in Nat
                              /\ storedAt'[q] >= storedAt[q] /\ storedAt'[q] \in Nat
                              /\ storedAt'[q] <= clock /\ issuedAt[q] <= clock
    BY <1>2, <2>1, BlockIoAssumption DEF IInv, TypeOK, ClockInv
  <2>4. IsFiniteSet(DOMAIN inflight') /\ Cardinality(DOMAIN inflight') <= MaxEntries
    <3>1. /\ IsFiniteSet(DOMAIN inflight \cup {key[r]})
          /\ Cardinality(DOMAIN inflight \cup {key[r]}) =
               IF key[r] \in DOMAIN inflight THEN Cardinality(DOMAIN inflight)
               ELSE Cardinality(DOMAIN inflight) + 1
      BY <1>2, FS_AddElement
    <3>2. Cardinality(DOMAIN inflight) \in Nat /\ Cardinality(DOMAIN inflight) <= MaxEntries
      BY <1>2, FS_CardinalityType DEF TypeOK
    <3>3. QED
      BY <1>7, <2>2, <3>1, <3>2, BlockIoAssumption
  <2>5. TypeOK'
    <3>1. storedAt' \in [Request -> 0 .. MaxTime]
      BY <1>2, <2>1 DEF TypeOK
    <3>2. \A k \in DOMAIN inflight' : /\ k \in Key /\ inflight'[k] \in 0 .. MaxTime
                                      /\ owner'[k] \in Request
      BY <1>2, <2>2 DEF TypeOK
    <3>3. QED
      BY <1>1, <1>2, <1>3, <2>1, <2>2, <2>4, <3>1, <3>2 DEF TypeOK
  <2>6. EntryInv'
    <3>1. SUFFICES ASSUME NEW k \in DOMAIN inflight'
                   PROVE  /\ key[owner'[k]] = k /\ PassDevFilter(k[1])
                          /\ inflight'[k] = issuedAt[owner'[k]]
                          /\ phase'[owner'[k]] \in {"device", "found"} \/ owner'[k] \in unseen
      BY <1>1 DEF EntryInv
    <3>2. CASE k = key[r]
      BY <1>2, <1>3, <2>2, <3>2
    <3>3. CASE k # key[r]
      <4>1. k \in DOMAIN inflight /\ owner'[k] = owner[k] /\ inflight'[k] = inflight[k]
            /\ owner[k] \in Request
        BY <1>2, <2>2, <3>3 DEF TypeOK
      <4>2. QED
        BY <1>3, <4>1 DEF IInv, EntryInv
    <3>4. QED
      BY <3>2, <3>3
  <2>7. ProbeInv'
    <3>1. SUFFICES ASSUME NEW q \in Request
          PROVE  /\ phase'[q] = "issuing" => ts[q] = issuedAt[q] /\ PassDevFilter(key[q][1])
                 /\ phase'[q] = "device" /\ key[q] \in DOMAIN inflight'
                      => storedAt'[owner'[key[q]]] >= issuedAt[q]
                 /\ phase'[q] \in {"found", "timed"}
                      => held[q] \in Request /\ storedAt'[held[q]] >= issuedAt[q]
      BY <1>1 DEF ProbeInv
    <3>2. phase'[q] = "issuing" => ts[q] = issuedAt[q] /\ PassDevFilter(key[q][1])
      BY <1>3 DEF IInv, ProbeInv
    <3>3. ASSUME phase'[q] = "device", key[q] \in DOMAIN inflight'
          PROVE  storedAt'[owner'[key[q]]] >= issuedAt[q]
      <4>1. CASE key[q] = key[r]
        BY <2>2, <2>3, <4>1
      <4>2. CASE key[q] # key[r]
        <5>1. /\ key[q] \in DOMAIN inflight /\ owner'[key[q]] = owner[key[q]]
              /\ owner[key[q]] \in Request /\ q # r
          BY <1>2, <2>2, <3>3, <4>2 DEF TypeOK
        <5>2. storedAt[owner[key[q]]] >= issuedAt[q]
          BY <1>3, <3>3, <5>1 DEF IInv, ProbeInv
        <5>3. QED
          BY <2>3, <5>1, <5>2
      <4>3. QED
        BY <4>1, <4>2
    <3>4. ASSUME phase'[q] \in {"found", "timed"}
          PROVE  held[q] \in Request /\ storedAt'[held[q]] >= issuedAt[q]
      <4>1. held[q] \in Request /\ storedAt[held[q]] >= issuedAt[q]
        BY <1>3, <3>4 DEF IInv, ProbeInv
      <4>2. QED
        BY <2>3, <4>1
    <3>5. QED
      BY <3>2, <3>3, <3>4
  <2>8. SampleInv' /\ SampleIsOwn' /\ ClockInv'
    <3>1. ASSUME NEW i \in 1 .. Len(ring)
          PROVE  /\ phase'[ring[i].req] = "done"
                 /\ storedAt'[ring[i].from] >= issuedAt[ring[i].req]
      <4>1. /\ ring[i].req \in Request /\ ring[i].from \in Request
            /\ phase[ring[i].req] = "done" /\ storedAt[ring[i].from] >= issuedAt[ring[i].req]
        BY <1>2, RingType DEF IInv, SampleInv
      <4>2. QED
        BY <1>1, <1>3, <2>3, <4>1
    <3>2. SampleInv'
      BY <1>1, <3>1 DEF SampleInv
    <3>3. SampleIsOwn' /\ ClockInv'
      BY <1>1, <2>3 DEF IInv, SampleIsOwn, ClockInv
    <3>4. QED
      BY <3>2, <3>3
  <2>9. KeysDiffer /\ EntryIsOwn => EntryIsOwn'
    BY <1>1, <1>2, <1>3, <2>2 DEF KeysDiffer, EntryIsOwn, InFlight
  <2>10. EntryIsThere => EntryIsThere'
    BY <1>1, <1>3, <2>1, <2>2 DEF EntryIsThere
  <2>11. AloneInv' /\ MissIsExplained'
    BY <1>1, <1>5, <1>6, <2>1, <2>9, <2>10 DEF IInv, AloneInv, MissIsExplained
  <2>12. QED
    BY <1>4, <2>4, <2>5, <2>6, <2>7, <2>8, <2>11 DEF IInv
<1>8. CASE ~(key[r] \in DOMAIN inflight \/ Cardinality(DOMAIN inflight) < MaxEntries)
  <2>1. untimed' = untimed \cup {r} /\ UNCHANGED <<inflight, owner, storedAt>>
    BY <1>8 DEF StoreTimestamp
  <2>2. TypeOK'
    BY <1>1, <1>2, <1>3, <2>1 DEF TypeOK
  <2>3. EntryInv'
    BY <1>1, <1>2, <1>3, <2>1 DEF IInv, EntryInv, TypeOK
  <2>4. ProbeInv' /\ ClockInv'
    BY <1>1, <1>3, <1>8, <2>1 DEF IInv, ProbeInv, ClockInv
  <2>5. SampleInv' /\ SampleIsOwn'
    <3>1. \A i \in 1 .. Len(ring) : phase'[ring[i].req] = "done"
      BY <1>1, <1>2, <1>3, RingType DEF IInv, SampleInv
    <3>2. QED
      BY <1>1, <2>1, <3>1 DEF IInv, SampleInv, SampleIsOwn
  <2>6. EntryIsOwn => EntryIsOwn'
    BY <1>1, <1>3, <1>8, <2>1 DEF EntryIsOwn
  <2>7. EntryIsThere => EntryIsThere'
    BY <1>1, <1>3, <2>1 DEF EntryIsThere
  <2>8. AloneInv' /\ MissIsExplained'
    BY <1>1, <1>5, <1>6, <2>1, <2>6, <2>7 DEF IInv, AloneInv, MissIsExplained
  <2>9. QED
    BY <1>4, <2>1, <2>2, <2>3, <2>4, <2>5, <2>8 DEF IInv
<1>9. QED
  BY <1>7, <1>8

(* A completion nobody sees leaves its entry, and is recorded as unseen. *)
LEMMA UntracedIInv == \A r \in Request : IInv /\ CompleteUntraced(r) => IInv'
<1> SUFFICES ASSUME NEW r \in Request, IInv, CompleteUntraced(r) PROVE IInv'
  OBVIOUS
<1>1. /\ phase[r] = "device" /\ phase' = [phase EXCEPT ![r] = "done"]
      /\ unseen' = unseen \cup {r}
      /\ UNCHANGED <<ring, ready, fresh, clock, attached, key, rwbs, ts, inflight, collided,
                     issuedAt, storedAt, owner, held, untimed, missed>>
  BY DEF CompleteUntraced, ringVars
<1>2. TypeOK
  BY DEF IInv
<1>3. /\ phase'[r] = "done" /\ \A q \in Request : q # r => phase'[q] = phase[q]
      /\ phase' \in [Request -> {"new", "issuing", "device", "found", "timed", "done"}]
  BY <1>1, <1>2 DEF TypeOK
<1>4. TypeOK'
  BY <1>1, <1>2, <1>3 DEF TypeOK
<1>5. EntryInv' /\ UnseenInv'
  BY <1>1, <1>2, <1>3 DEF IInv, EntryInv, UnseenInv, TypeOK
<1>6. ClockInv' /\ AttachInv' /\ ProbeInv' /\ MissIsExplained'
  BY <1>1, <1>3 DEF IInv, ClockInv, AttachInv, ProbeInv, MissIsExplained
<1>7. SampleInv' /\ SampleIsOwn'
  <2>1. \A i \in 1 .. Len(ring) : phase'[ring[i].req] = "done"
    BY <1>2, <1>3, RingType DEF IInv, SampleInv
  <2>2. QED
    BY <1>1, <2>1 DEF IInv, SampleInv, SampleIsOwn
<1>8. AloneInv'
  BY <1>1, <1>3 DEF IInv, AloneInv, KeysDiffer, EntryIsOwn, HeldIsOwn, EntryIsThere, InFlight
<1>9. QED
  BY <1>1, <1>4, <1>5, <1>6, <1>7, <1>8 DEF IInv

(* INFLIGHT.get: what is found was stored after the request was issued; a  *)
(* miss is of a request that never had an entry, or shared its key.        *)
LEMMA LookUpIInv == \A r \in Request : IInv /\ LookUp(r) => IInv'
<1> SUFFICES ASSUME NEW r \in Request, IInv, LookUp(r) PROVE IInv'
  OBVIOUS
<1>1. /\ phase[r] = "device"
      /\ UNCHANGED <<ring, ready, fresh, clock, attached, key, rwbs, inflight, collided,
                     issuedAt, storedAt, owner, unseen, untimed>>
  BY DEF LookUp, ringVars
<1>2. TypeOK
  BY DEF IInv
<1>3. CASE key[r] \in DOMAIN inflight
  <2>1. /\ phase' = [phase EXCEPT ![r] = "found"]
        /\ ts' = [ts EXCEPT ![r] = inflight[key[r]]]
        /\ held' = [held EXCEPT ![r] = owner[key[r]]]
        /\ missed' = missed
    BY <1>3 DEF LookUp
  <2>2. /\ phase'[r] = "found" /\ ts'[r] = inflight[key[r]] /\ held'[r] = owner[key[r]]
        /\ \A q \in Request : q # r => /\ phase'[q] = phase[q] /\ ts'[q] = ts[q]
                                       /\ held'[q] = held[q]
    BY <1>2, <2>1 DEF TypeOK
  <2>3. owner[key[r]] \in Request /\ storedAt[owner[key[r]]] >= issuedAt[r]
        /\ inflight[key[r]] = issuedAt[owner[key[r]]]
    BY <1>1, <1>2, <1>3 DEF IInv, ProbeInv, EntryInv, TypeOK
  <2>4. TypeOK'
    <3>1. /\ phase' \in [Request -> {"new", "issuing", "device", "found", "timed", "done"}]
          /\ ts' \in [Request -> 0 .. MaxTime]
      BY <1>2, <1>3, <2>1 DEF TypeOK
    <3>2. held' \in [Request -> Request \cup {None}]
      BY <1>2, <2>1, <2>3 DEF TypeOK
    <3>3. QED
      BY <1>1, <1>2, <2>1, <3>1, <3>2 DEF TypeOK
  <2>5. EntryInv' /\ UnseenInv'
    BY <1>1, <1>2, <2>2 DEF IInv, EntryInv, UnseenInv, TypeOK
  <2>6. ClockInv' /\ AttachInv' /\ MissIsExplained'
    BY <1>1, <2>1, <2>2 DEF IInv, ClockInv, AttachInv, MissIsExplained
  <2>7. ProbeInv'
    BY <1>1, <2>2, <2>3 DEF IInv, ProbeInv
  <2>8. SampleInv' /\ SampleIsOwn'
    <3>1. \A i \in 1 .. Len(ring) : phase'[ring[i].req] = "done"
      BY <1>1, <1>2, <2>2, RingType DEF IInv, SampleInv
    <3>2. QED
      BY <1>1, <3>1 DEF IInv, SampleInv, SampleIsOwn
  <2>9. KeysDiffer => KeysDiffer'
    BY <1>1, <2>2 DEF KeysDiffer, InFlight
  <2>10. EntryIsOwn => EntryIsOwn'
    BY <1>1, <2>2 DEF EntryIsOwn
  <2>11. EntryIsThere => EntryIsThere'
    BY <1>1, <2>2 DEF EntryIsThere
  <2>12. EntryIsOwn /\ HeldIsOwn => HeldIsOwn'
    BY <1>1, <1>3, <2>2, <2>3 DEF EntryIsOwn, HeldIsOwn
  <2>13. AloneInv'
    BY <1>1, <2>9, <2>10, <2>11, <2>12 DEF IInv, AloneInv
  <2>14. QED
    BY <1>1, <2>4, <2>5, <2>6, <2>7, <2>8, <2>13 DEF IInv
<1>4. CASE key[r] \notin DOMAIN inflight
  <2>1. /\ phase' = [phase EXCEPT ![r] = "done"]
        /\ missed' = missed \cup {r} /\ UNCHANGED <<ts, held>>
    BY <1>4 DEF LookUp
  <2>2. /\ phase'[r] = "done" /\ \A q \in Request : q # r => phase'[q] = phase[q]
        /\ phase' \in [Request -> {"new", "issuing", "device", "found", "timed", "done"}]
    BY <1>2, <2>1 DEF TypeOK
  <2>3. TypeOK'
    BY <1>1, <1>2, <2>1, <2>2 DEF TypeOK
  <2>4. EntryInv' /\ UnseenInv'
    <3>1. \A k \in DOMAIN inflight : owner[k] \in Request /\ owner[k] # r
      BY <1>2, <1>4 DEF IInv, EntryInv, TypeOK
    <3>2. EntryInv'
      BY <1>1, <2>2, <3>1 DEF IInv, EntryInv
    <3>3. UnseenInv'
      BY <1>1, <1>2, <2>2 DEF IInv, UnseenInv, TypeOK
    <3>4. QED
      BY <3>2, <3>3
  <2>5. ClockInv' /\ AttachInv' /\ ProbeInv'
    BY <1>1, <2>1, <2>2 DEF IInv, ClockInv, AttachInv, ProbeInv
  <2>6. SampleInv' /\ SampleIsOwn'
    <3>1. \A i \in 1 .. Len(ring) : phase'[ring[i].req] = "done"
      BY <1>2, <2>2, RingType DEF IInv, SampleInv
    <3>2. QED
      BY <1>1, <3>1 DEF IInv, SampleInv, SampleIsOwn
  <2>7. AloneInv'
    BY <1>1, <2>1, <2>2
       DEF IInv, AloneInv, KeysDiffer, EntryIsOwn, HeldIsOwn, EntryIsThere, InFlight
  <2>8. MissIsExplained'
    BY <1>1, <1>4, <2>1 DEF IInv, AloneInv, EntryIsThere, MissIsExplained
  <2>9. QED
    BY <1>1, <2>3, <2>4, <2>5, <2>6, <2>7, <2>8 DEF IInv
<1>5. QED
  BY <1>3, <1>4

(* INFLIGHT.remove: what goes is under the request's key, so nobody else's *)
(* while keys identify requests.                                           *)
LEMMA DeleteIInv == \A r \in Request : IInv /\ DeleteEntry(r) => IInv'
<1> SUFFICES ASSUME NEW r \in Request, IInv, DeleteEntry(r) PROVE IInv'
  OBVIOUS
<1>1. /\ phase[r] = "found" /\ phase' = [phase EXCEPT ![r] = "timed"]
      /\ inflight' = [k \in DOMAIN inflight \ {key[r]} |-> inflight[k]]
      /\ owner' = [k \in DOMAIN owner \ {key[r]} |-> owner[k]]
      /\ UNCHANGED <<ring, ready, fresh, clock, attached, key, rwbs, ts, collided, issuedAt,
                     storedAt, held, unseen, untimed, missed>>
  BY DEF DeleteEntry, Restrict, ringVars
<1>2. TypeOK /\ IsFiniteSet(DOMAIN inflight)
  BY DEF IInv
<1>3. /\ phase'[r] = "timed" /\ \A q \in Request : q # r => phase'[q] = phase[q]
      /\ phase' \in [Request -> {"new", "issuing", "device", "found", "timed", "done"}]
  BY <1>1, <1>2 DEF TypeOK
<1>4. /\ DOMAIN inflight' = DOMAIN inflight \ {key[r]} /\ DOMAIN owner' = DOMAIN inflight'
      /\ \A k \in DOMAIN inflight' : inflight'[k] = inflight[k] /\ owner'[k] = owner[k]
  BY <1>1, <1>2 DEF TypeOK
<1>5. IsFiniteSet(DOMAIN inflight') /\ Cardinality(DOMAIN inflight') <= MaxEntries
  <2>1. /\ IsFiniteSet(DOMAIN inflight \ {key[r]})
        /\ Cardinality(DOMAIN inflight \ {key[r]}) =
             IF key[r] \in DOMAIN inflight THEN Cardinality(DOMAIN inflight) - 1
             ELSE Cardinality(DOMAIN inflight)
    BY <1>2, FS_RemoveElement
  <2>2. Cardinality(DOMAIN inflight) \in Nat /\ Cardinality(DOMAIN inflight) <= MaxEntries
    BY <1>2, FS_CardinalityType DEF TypeOK
  <2>3. QED
    BY <1>4, <2>1, <2>2, BlockIoAssumption
<1>6. TypeOK'
  BY <1>1, <1>2, <1>3, <1>4, <1>5 DEF TypeOK
<1>7. EntryInv' /\ UnseenInv'
  BY <1>1, <1>2, <1>3, <1>4 DEF IInv, EntryInv, UnseenInv, TypeOK
<1>8. ClockInv' /\ AttachInv' /\ MissIsExplained'
  BY <1>1, <1>3, <1>4 DEF IInv, ClockInv, AttachInv, MissIsExplained
<1>9. ProbeInv'
  BY <1>1, <1>3, <1>4 DEF IInv, ProbeInv
<1>10. SampleInv' /\ SampleIsOwn'
  <2>1. \A i \in 1 .. Len(ring) : phase'[ring[i].req] = "done"
    BY <1>1, <1>2, <1>3, RingType DEF IInv, SampleInv
  <2>2. QED
    BY <1>1, <2>1 DEF IInv, SampleInv, SampleIsOwn
<1>11. KeysDiffer => KeysDiffer'
  BY <1>1, <1>3 DEF KeysDiffer, InFlight
<1>12. EntryIsOwn => EntryIsOwn'
  BY <1>1, <1>3, <1>4 DEF EntryIsOwn
<1>13. HeldIsOwn => HeldIsOwn'
  BY <1>1, <1>3 DEF HeldIsOwn
<1>14. KeysDiffer /\ EntryIsThere => EntryIsThere'
  BY <1>1, <1>3, <1>4 DEF KeysDiffer, EntryIsThere, InFlight
<1>15. AloneInv'
  BY <1>1, <1>11, <1>12, <1>13, <1>14 DEF IInv, AloneInv
<1>16. QED
  BY <1>5, <1>6, <1>7, <1>8, <1>9, <1>10, <1>15 DEF IInv

(* The sample: it carries what the probe held. *)
LEMMA EmitIInv == \A r \in Request : IInv /\ EmitSample(r) => IInv'
<1> SUFFICES ASSUME NEW r \in Request, IInv, EmitSample(r) PROVE IInv'
  OBVIOUS
<1>1. /\ phase[r] = "timed" /\ phase' = [phase EXCEPT ![r] = "done"]
      /\ UNCHANGED <<clock, attached, key, rwbs, ts, inflight, collided, issuedAt, storedAt,
                     owner, held, unseen, untimed, missed>>
  BY DEF EmitSample, history
<1>2. TypeOK
  BY DEF IInv
<1>3. /\ phase'[r] = "done" /\ \A q \in Request : q # r => phase'[q] = phase[q]
      /\ phase' \in [Request -> {"new", "issuing", "device", "found", "timed", "done"}]
  BY <1>1, <1>2 DEF TypeOK
<1>4. EntryInv' /\ UnseenInv'
  BY <1>1, <1>2, <1>3 DEF IInv, EntryInv, UnseenInv, TypeOK
<1>5. ClockInv' /\ AttachInv' /\ ProbeInv' /\ MissIsExplained'
  BY <1>1, <1>3 DEF IInv, ClockInv, AttachInv, ProbeInv, MissIsExplained
<1>6. AloneInv'
  BY <1>1, <1>3 DEF IInv, AloneInv, KeysDiffer, EntryIsOwn, HeldIsOwn, EntryIsThere, InFlight
<1>7. \A i \in 1 .. Len(ring) : phase'[ring[i].req] = "done"
  BY <1>2, <1>3, RingType DEF IInv, SampleInv
<1>8. CASE ReserveFails
  <2>1. UNCHANGED <<ring, ready, fresh>>
    BY <1>8 DEF ReserveFails, ringVars
  <2>2. TypeOK' /\ SampleInv' /\ SampleIsOwn'
    BY <1>1, <1>2, <1>3, <1>7, <2>1 DEF IInv, TypeOK, SampleInv, SampleIsOwn
  <2>3. QED
    BY <1>1, <1>4, <1>5, <1>6, <2>2 DEF IInv
<1>9. ASSUME NEW stale \in SUBSET {"F", "A"},
             Submit([op |-> Classify(rwbs[r], stale), ns |-> SaturatingSub(clock, ts[r]),
                     req |-> r, from |-> held[r], trueNs |-> SaturatingSub(clock, issuedAt[r])])
      PROVE  IInv'
  <2>1. PICK e : e = [op |-> Classify(rwbs[r], stale), ns |-> SaturatingSub(clock, ts[r]),
                      req |-> r, from |-> held[r], trueNs |-> SaturatingSub(clock, issuedAt[r])]
    OBVIOUS
  <2>2. /\ Len(ring) < RingCap /\ ring' = Append(ring, e)
        /\ ready' \in BOOLEAN /\ fresh' \in BOOLEAN
    BY <1>2, <1>9, <2>1 DEF Submit, TypeOK
  <2>3. held[r] \in Request /\ storedAt[held[r]] >= issuedAt[r]
    BY <1>1 DEF IInv, ProbeInv
  <2>4. e \in Sample
    <3>1. /\ SaturatingSub(clock, ts[r]) \in 0 .. MaxTime
          /\ SaturatingSub(clock, issuedAt[r]) \in 0 .. MaxTime
      BY <1>2, SubFacts DEF TypeOK
    <3>2. Classify(rwbs[r], stale) \in OpClass
      BY ClassifyType
    <3>3. QED
      BY <2>1, <2>3, <3>1, <3>2 DEF Sample
  <2>5. /\ e.req = r /\ e.from = held[r] /\ e.ns = SaturatingSub(clock, ts[r])
        /\ e.trueNs = SaturatingSub(clock, issuedAt[r])
    BY <2>1
  <2>6. /\ ring' \in Seq(Sample) /\ Len(ring') = Len(ring) + 1 /\ Len(ring) \in Nat
        /\ \A i \in 1 .. Len(ring) : ring'[i] = ring[i]
        /\ ring'[Len(ring) + 1] = e
    BY <1>2, <2>2, <2>4 DEF TypeOK
  <2>7. \A i \in 1 .. Len(ring') : i \in 1 .. Len(ring) \/ i = Len(ring) + 1
    BY <2>6
  <2>8. TypeOK'
    BY <1>1, <1>2, <1>3, <2>2, <2>6, RingAssumption DEF TypeOK
  <2>9. SampleInv'
    BY <1>1, <1>3, <1>7, <2>3, <2>5, <2>6, <2>7 DEF IInv, SampleInv
  <2>10. SampleIsOwn'
    <3>1. SUFFICES ASSUME ~collided, NEW i \in 1 .. Len(ring')
                   PROVE  ring'[i].from = ring'[i].req /\ ring'[i].ns <= ring'[i].trueNs
      BY <1>1 DEF SampleIsOwn
    <3>2. held[r] = r /\ ts[r] = issuedAt[r]
      BY <1>1, <3>1 DEF IInv, AloneInv, HeldIsOwn
    <3>3. e.from = e.req /\ e.ns = e.trueNs /\ e.ns \in Nat
      <4>1. e.ns \in 0 .. MaxTime
        BY <2>4 DEF Sample
      <4>2. QED
        BY <2>5, <3>2, <4>1, BlockIoAssumption
    <3>4. CASE i \in 1 .. Len(ring)
      <4>1. ring[i].from = ring[i].req /\ ring[i].ns <= ring[i].trueNs
        BY <3>1, <3>4 DEF IInv, SampleIsOwn
      <4>2. QED
        BY <2>6, <3>4, <4>1
    <3>5. CASE i = Len(ring) + 1
      BY <2>6, <3>3, <3>5
    <3>6. QED
      BY <2>7, <3>1, <3>4, <3>5
  <2>11. QED
    BY <1>1, <1>4, <1>5, <1>6, <2>8, <2>9, <2>10 DEF IInv
<1>10. QED
  BY <1>8, <1>9 DEF EmitSample

LEMMA NextIInv == IInv /\ [Next]_vars => IInv'
<1>1. IInv /\ UNCHANGED vars => IInv'
  BY DEF vars, ringVars, probeVars, history, IInv, TypeOK, EntryInv, UnseenInv, ClockInv,
         AttachInv, ProbeInv, SampleInv, AloneInv, KeysDiffer, EntryIsOwn, HeldIsOwn,
         EntryIsThere, InFlight, SampleIsOwn, MissIsExplained
<1>2. QED
  BY <1>1, TimeIInv, AttachIInv, ConsumeIInv, IssueIInv, StoreIInv, UntracedIInv, LookUpIInv,
     DeleteIInv, EmitIInv DEF Next, IssueProbe, CompleteProbe

(* A step of the composition is a step of the programs, or leaves them     *)
(* alone.                                                                  *)
LEMMA WalStep == [WalNext]_walVars => [Next]_vars
<1> SUFFICES ASSUME [WalNext]_walVars PROVE [Next]_vars
  OBVIOUS
<1>1. CASE KernelStep
  BY <1>1 DEF KernelStep, Quietly, Next, IssueProbe, CompleteProbe
<1>2. CASE RecordAndPush
  <2>1. Consume /\ UNCHANGED <<clock, attached, probeVars, history>>
    BY <1>2 DEF RecordAndPush, Loop!DrainOne, Loop!Consume, Consume
  <2>2. QED
    BY <2>1 DEF Next, LoaderConsumes
<1>3. CASE LoopStep
  <2>1. UNCHANGED <<clock, attached, probeVars, history>>
    BY <1>3 DEF LoopStep
  <2>2. CASE Loop!BeginDrain
    BY <2>1, <2>2 DEF Loop!BeginDrain, Loop!TakeGuard, TakeGuard, Next, LoaderConsumes
  <2>3. CASE Loop!ClearGuard
    BY <2>1, <2>3 DEF Loop!ClearGuard, Loop!ClearReady, ClearReady, Next, LoaderConsumes
  <2>4. CASE Loop!EndDrain \/ Loop!TimerElapses \/ Loop!Tick \/ Loop!Interrupt
    <3>1. UNCHANGED ringVars
      BY <2>4 DEF Loop!EndDrain, Loop!TimerElapses, Loop!Tick, Loop!Interrupt, Loop!ringVars,
                  ringVars
    <3>2. QED
      BY <2>1, <3>1 DEF vars
  <2>5. QED
    BY <1>3, <2>2, <2>3, <2>4 DEF LoopStep
<1>4. CASE UNCHANGED walVars
  BY <1>4 DEF walVars
<1>5. QED
  BY <1>1, <1>2, <1>3, <1>4 DEF WalNext

-----------------------------------------------------------------------------
(* The inductive invariant holds of the programs with any consumer. *)
THEOREM Invariance == Spec => []IInv
BY InitIInv, NextIInv, PTL DEF Spec

(* The loop of the loader is such a consumer (main.rs:472-488), so what is *)
(* proved of the programs holds while it runs.                             *)
THEOREM WalImplementsBlockIo == WalSpec => ImplementsBlockIo
<1>1. WalInit => Init
  BY DEF WalInit
<1>2. QED
  BY <1>1, WalStep, PTL DEF WalSpec, Spec, ImplementsBlockIo

(* block_rq_issue and block_rq_complete keep their types, and never        *)
(* overfill INFLIGHT, for any number of requests.                          *)
THEOREM ProbesTypeCorrect == WalSpec => []TypeOK
<1>1. IInv => TypeOK
  BY DEF IInv
<1>2. QED
  BY <1>1, Invariance, WalImplementsBlockIo, PTL DEF ImplementsBlockIo

(* block_rq_complete computes no sample from a timestamp older than the    *)
(* request it completes, whatever keys collide.                            *)
THEOREM NoStaleSample == WalSpec => []SampleNotStale
<1>1. IInv => SampleNotStale
  BY DEF IInv, SampleInv, SampleNotStale
<1>2. QED
  BY <1>1, Invariance, WalImplementsBlockIo, PTL DEF ImplementsBlockIo

(* While keys identify the requests in flight (RqKey), every sample is the *)
(* completed request's own and does not overstate its latency.             *)
THEOREM SamplesOwn == WalSpec => []SampleIsOwn
<1>1. IInv => SampleIsOwn
  BY DEF IInv
<1>2. QED
  BY <1>1, Invariance, WalImplementsBlockIo, PTL DEF ImplementsBlockIo

(* And a completion without a timestamp belongs to a request that never    *)
(* had one stored.                                                         *)
THEOREM MissesExplained == WalSpec => []MissIsExplained
<1>1. IInv => MissIsExplained
  BY DEF IInv
<1>2. QED
  BY <1>1, Invariance, WalImplementsBlockIo, PTL DEF ImplementsBlockIo

(* INFLIGHT leaks nothing but the requests completed between the two       *)
(* attachments, whatever keys collide.                                     *)
THEOREM NothingLeaks == WalSpec => []NoLeak
<1>1. IInv => NoLeak
  BY DEF IInv, TypeOK, EntryInv, NoLeak, InFlight
<1>2. QED
  BY <1>1, Invariance, WalImplementsBlockIo, PTL DEF ImplementsBlockIo

-----------------------------------------------------------------------------
(* What becomes of a sample, from the probe through the ring to the        *)
(* histogram and the rule.                                                 *)

(* The class follows from the request's rwbs: writes are told by their     *)
(* first letter.                                                           *)
FitsClass(op, io) == op \in {"Write", "WriteFlush"} => io.first \in {"W", "F"}

(* A sample of a request that passed the filter, in its class. *)
Genuine(s) ==
  /\ s \in Sample
  /\ phase[s.req] = "done" /\ PassDevFilter(key[s.req][1])
  /\ FitsClass(s.op, rwbs[s.req])

FilteredInv ==
  \A r \in Request : phase[r] \in {"found", "timed"} => PassDevFilter(key[r][1])

(* Every request is sampled at most once, in the ring or past it. *)
OnceInv ==
  /\ \A i, j \in 1 .. Len(ring) : ring[i].req = ring[j].req => i = j
  /\ \A i, j \in 1 .. Len(drained) : drained[i].req = drained[j].req => i = j
  /\ \A i \in 1 .. Len(ring), j \in 1 .. Len(drained) : ring[i].req # drained[j].req

DrainedInv ==
  /\ drained \in Seq(Sample)
  /\ \A i \in 1 .. Len(ring) : Genuine(ring[i])
  /\ \A i \in 1 .. Len(drained) : Genuine(drained[i])

PathInv == TypeOK /\ FilteredInv /\ OnceInv /\ DrainedInv

(* classify_rwbs calls nothing a write whose first letter is not W or F,   *)
(* whatever follows the NUL of the string.                                 *)
LEMMA ClassifyTells == \A io, stale : FitsClass(Classify(io, stale), io)
<1> SUFFICES ASSUME NEW io, NEW stale PROVE FitsClass(Classify(io, stale), io)
  OBVIOUS
<1> DEFINE f == ({io.first} \cup io.rest \cup stale) \cap {"F", "A"} # {}
<1>1. CASE io.first = "R"
  BY <1>1 DEF Classify, FitsClass
<1>2. CASE io.first \in {"W", "F"} /\ f
  BY <1>2 DEF Classify, FitsClass
<1>3. CASE io.first \in {"W", "F"} /\ ~f
  BY <1>3 DEF Classify, FitsClass
<1>4. CASE io.first \notin {"R", "W", "F"}
  BY <1>4 DEF Classify, FitsClass
<1>5. QED
  BY <1>1, <1>2, <1>3, <1>4

(* A request's description stays, and a request that is done stays done.   *)
LEMMA ProbesForward ==
  ASSUME TypeOK, FilteredInv, [Next]_vars
  PROVE  /\ key' = key /\ rwbs' = rwbs /\ FilteredInv'
         /\ \A r \in Request : phase[r] = "done" => phase'[r] = "done"
<1>1. phase \in [Request -> {"new", "issuing", "device", "found", "timed", "done"}]
  BY DEF TypeOK
<1>2. ASSUME UNCHANGED <<phase, key, rwbs>>
      PROVE  /\ key' = key /\ rwbs' = rwbs /\ FilteredInv'
             /\ \A r \in Request : phase[r] = "done" => phase'[r] = "done"
  BY <1>2 DEF FilteredInv
<1>3. ASSUME NEW r \in Request, NEW to, phase' = [phase EXCEPT ![r] = to],
             UNCHANGED <<key, rwbs>>, phase[r] # "done",
             to \in {"found", "timed"} => PassDevFilter(key[r][1])
      PROVE  /\ key' = key /\ rwbs' = rwbs /\ FilteredInv'
             /\ \A q \in Request : phase[q] = "done" => phase'[q] = "done"
  BY <1>1, <1>3 DEF FilteredInv
<1>4. CASE TimePasses \/ (\E p \in Program : Attach(p)) \/ LoaderConsumes \/ UNCHANGED vars
  BY <1>2, <1>4 DEF TimePasses, Attach, LoaderConsumes, vars, probeVars
<1>5. ASSUME NEW r \in Request, Issue(r) \/ StoreTimestamp(r)
      PROVE  /\ key' = key /\ rwbs' = rwbs /\ FilteredInv'
             /\ \A q \in Request : phase[q] = "done" => phase'[q] = "done"
  BY <1>3, <1>5 DEF Issue, StoreTimestamp
<1>6. ASSUME NEW r \in Request, CompleteUntraced(r) \/ LookUp(r)
      PROVE  /\ key' = key /\ rwbs' = rwbs /\ FilteredInv'
             /\ \A q \in Request : phase[q] = "done" => phase'[q] = "done"
  BY <1>3, <1>6 DEF CompleteUntraced, LookUp
<1>7. ASSUME NEW r \in Request, DeleteEntry(r) \/ EmitSample(r)
      PROVE  /\ key' = key /\ rwbs' = rwbs /\ FilteredInv'
             /\ \A q \in Request : phase[q] = "done" => phase'[q] = "done"
  <2>1. phase[r] \in {"found", "timed"} /\ PassDevFilter(key[r][1])
    BY <1>7 DEF FilteredInv, DeleteEntry, EmitSample
  <2>2. QED
    BY <1>3, <1>7, <2>1 DEF DeleteEntry, EmitSample
<1>8. QED
  BY <1>4, <1>5, <1>6, <1>7 DEF Next, IssueProbe, CompleteProbe

LEMMA GenuineStays ==
  ASSUME key' = key, rwbs' = rwbs,
         \A r \in Request : phase[r] = "done" => phase'[r] = "done",
         NEW s, Genuine(s)
  PROVE  /\ s \in Sample /\ phase'[s.req] = "done" /\ PassDevFilter(key'[s.req][1])
         /\ FitsClass(s.op, rwbs'[s.req])
BY DEF Genuine, Sample, PassDevFilter

(* Ring and history stay as they are. *)
LEMMA PathIdle ==
  ASSUME PathInv, TypeOK', FilteredInv', key' = key, rwbs' = rwbs,
         \A r \in Request : phase[r] = "done" => phase'[r] = "done",
         UNCHANGED <<ring, drained>>
  PROVE  PathInv'
<1>1. DrainedInv'
  BY GenuineStays DEF PathInv, DrainedInv, Genuine, PassDevFilter
<1>2. OnceInv'
  BY DEF PathInv, OnceInv
<1>3. QED
  BY <1>1, <1>2 DEF PathInv

(* A probe offers the sample of a request that has none yet. *)
LEMMA PathEmit ==
  ASSUME PathInv, TypeOK', FilteredInv', key' = key, rwbs' = rwbs,
         \A r \in Request : phase[r] = "done" => phase'[r] = "done",
         NEW r \in Request, EmitSample(r), drained' = drained
  PROVE  PathInv'
<1>1. TypeOK /\ FilteredInv /\ OnceInv /\ DrainedInv
  BY DEF PathInv
<1>2. phase[r] = "timed" /\ phase'[r] = "done"
  BY <1>1 DEF EmitSample, TypeOK
<1>3. CASE ReserveFails
  <2>1. ring' = ring
    BY <1>3 DEF ReserveFails, ringVars
  <2>2. QED
    BY <2>1, PathIdle
<1>4. ASSUME NEW stale \in SUBSET {"F", "A"},
             Submit([op |-> Classify(rwbs[r], stale), ns |-> SaturatingSub(clock, ts[r]),
                     req |-> r, from |-> held[r], trueNs |-> SaturatingSub(clock, issuedAt[r])])
      PROVE  PathInv'
  <2>1. PICK e : e = [op |-> Classify(rwbs[r], stale), ns |-> SaturatingSub(clock, ts[r]),
                      req |-> r, from |-> held[r], trueNs |-> SaturatingSub(clock, issuedAt[r])]
    OBVIOUS
  <2>2. ring' = Append(ring, e) /\ e.req = r /\ e.op = Classify(rwbs[r], stale)
    BY <1>4, <2>1 DEF Submit
  <2>3. /\ ring \in Seq(Sample) /\ ring' \in Seq(Sample) /\ Len(ring) \in Nat
        /\ drained \in Seq(Sample)
    BY <1>1 DEF TypeOK, DrainedInv
  <2>4. /\ Len(ring') = Len(ring) + 1 /\ ring'[Len(ring) + 1] = e
        /\ \A i \in 1 .. Len(ring) : ring'[i] = ring[i]
    BY <2>2, <2>3
  <2>5. /\ \A i \in 1 .. Len(ring') : i \in 1 .. Len(ring) \/ i = Len(ring) + 1
        /\ Len(ring) + 1 \in 1 .. Len(ring')
    BY <2>3, <2>4
  <2>6. e \in Sample
    BY <2>3, <2>4, <2>5
  <2>7. PassDevFilter(key'[r][1]) /\ FitsClass(e.op, rwbs'[r])
    BY <1>1, <1>2, <2>2, ClassifyTells DEF FilteredInv
  <2>8. /\ \A i \in 1 .. Len(ring) : ring[i].req # r
        /\ \A i \in 1 .. Len(drained) : drained[i].req # r
    BY <1>1, <1>2 DEF DrainedInv, Genuine
  <2>9. OnceInv'
    BY <1>1, <2>2, <2>4, <2>5, <2>8 DEF OnceInv
  <2>10. ASSUME NEW i \in 1 .. Len(ring') PROVE Genuine(ring[i])'
    <3>1. CASE i \in 1 .. Len(ring)
      <4>1. Genuine(ring[i]) /\ ring'[i] = ring[i]
        BY <1>1, <2>4, <3>1 DEF DrainedInv
      <4>2. QED
        BY <4>1, GenuineStays DEF Genuine, PassDevFilter
    <3>2. CASE i = Len(ring) + 1
      BY <1>2, <2>2, <2>4, <2>6, <2>7, <3>2 DEF Genuine, PassDevFilter
    <3>3. QED
      BY <2>5, <3>1, <3>2
  <2>11. \A i \in 1 .. Len(drained) : Genuine(drained[i])'
    BY <1>1, GenuineStays DEF DrainedInv, Genuine, PassDevFilter
  <2>12. DrainedInv'
    BY <2>3, <2>10, <2>11 DEF DrainedInv
  <2>13. QED
    BY <2>9, <2>12 DEF PathInv
<1>5. QED
  BY <1>3, <1>4 DEF EmitSample

(* The loop takes the oldest sample out of the ring. *)
LEMMA PathRecord ==
  ASSUME PathInv, TypeOK', FilteredInv', key' = key, rwbs' = rwbs,
         \A r \in Request : phase[r] = "done" => phase'[r] = "done",
         ring # <<>>, ring' = Tail(ring), drained' = Append(drained, Head(ring))
  PROVE  PathInv'
<1>1. OnceInv /\ DrainedInv /\ ring \in Seq(Sample) /\ drained \in Seq(Sample)
  BY DEF PathInv, TypeOK, DrainedInv
<1> DEFINE e == Head(ring)
<1>2. /\ Len(ring) \in Nat /\ Len(ring) > 0 /\ e = ring[1] /\ e \in Sample
      /\ Len(ring') = Len(ring) - 1
      /\ \A i \in 1 .. Len(ring) - 1 : ring'[i] = ring[i + 1]
  BY <1>1
<1>3. /\ drained' \in Seq(Sample) /\ Len(drained) \in Nat
      /\ Len(drained') = Len(drained) + 1 /\ drained'[Len(drained) + 1] = e
      /\ \A i \in 1 .. Len(drained) : drained'[i] = drained[i]
  BY <1>1, <1>2
<1> HIDE DEF e
<1>4. /\ 1 \in 1 .. Len(ring)
      /\ \A i \in 1 .. Len(ring') : i + 1 \in 1 .. Len(ring) /\ i + 1 # 1 /\ i \in Nat
      /\ \A i \in 1 .. Len(drained') : i \in 1 .. Len(drained) \/ i = Len(drained) + 1
  BY <1>2, <1>3
<1>5. OnceInv'
  <2>1. ASSUME NEW i \in 1 .. Len(ring'), NEW j \in 1 .. Len(ring'), ring'[i].req = ring'[j].req
        PROVE  i = j
    <3>1. ring[i + 1].req = ring[j + 1].req
      BY <1>2, <2>1
    <3>2. i + 1 = j + 1
      BY <1>1, <1>4, <3>1 DEF OnceInv
    <3>3. QED
      BY <1>4, <3>2
  <2>2. ASSUME NEW i \in 1 .. Len(ring'), NEW j \in 1 .. Len(drained')
        PROVE  ring'[i].req # drained'[j].req
    <3>1. ring'[i] = ring[i + 1] /\ i + 1 \in 1 .. Len(ring) /\ i + 1 # 1
      BY <1>2, <1>4
    <3>2. CASE j \in 1 .. Len(drained)
      BY <1>1, <1>3, <3>1, <3>2 DEF OnceInv
    <3>3. CASE j = Len(drained) + 1
      <4>1. drained'[j] = ring[1]
        BY <1>2, <1>3, <3>3
      <4>2. ring[i + 1].req # ring[1].req
        BY <1>1, <1>4, <3>1 DEF OnceInv
      <4>3. QED
        BY <3>1, <4>1, <4>2
    <3>4. QED
      BY <1>4, <3>2, <3>3
  <2>3. \A j \in 1 .. Len(drained) : drained[j].req # e.req
    BY <1>1, <1>2, <1>4 DEF OnceInv
  <2>4. \A i, j \in 1 .. Len(drained') : drained'[i].req = drained'[j].req => i = j
    BY <1>1, <1>3, <1>4, <2>3 DEF OnceInv
  <2>5. QED
    BY <2>1, <2>2, <2>4 DEF OnceInv
<1>6. ASSUME NEW i \in 1 .. Len(ring') PROVE Genuine(ring[i])'
  <2>1. ring'[i] = ring[i + 1] /\ Genuine(ring[i + 1])
    BY <1>1, <1>2, <1>4 DEF DrainedInv
  <2>2. QED
    BY <2>1, GenuineStays DEF Genuine, PassDevFilter
<1>7. ASSUME NEW i \in 1 .. Len(drained') PROVE Genuine(drained[i])'
  <2>1. Genuine(drained'[i])
    <3>1. CASE i \in 1 .. Len(drained)
      BY <1>1, <1>3, <3>1 DEF DrainedInv
    <3>2. CASE i = Len(drained) + 1
      BY <1>1, <1>2, <1>3, <1>4, <3>2 DEF DrainedInv
    <3>3. QED
      BY <1>4, <3>1, <3>2
  <2>2. QED
    BY <2>1, GenuineStays DEF Genuine, PassDevFilter
<1>8. DrainedInv'
  BY <1>3, <1>6, <1>7 DEF DrainedInv
<1>9. QED
  BY <1>5, <1>8 DEF PathInv

LEMMA PathNext ==
  ASSUME PathInv, TypeOK', [WalNext]_walVars
  PROVE  PathInv'
<1>1. [Next]_vars
  BY WalStep
<1>2. /\ key' = key /\ rwbs' = rwbs /\ FilteredInv'
      /\ \A r \in Request : phase[r] = "done" => phase'[r] = "done"
  BY <1>1, ProbesForward DEF PathInv
<1>3. CASE UNCHANGED <<ring, drained>>
  BY <1>2, <1>3, PathIdle
<1>4. ASSUME NEW r \in Request, EmitSample(r), drained' = drained PROVE PathInv'
  BY <1>2, <1>4, PathEmit
<1>5. CASE RecordAndPush
  <2>1. ring # <<>> /\ ring' = Tail(ring) /\ drained' = Append(drained, Head(ring))
    BY <1>5 DEF RecordAndPush, Loop!DrainOne, Loop!Consume
  <2>2. QED
    BY <1>2, <2>1, PathRecord
<1>6. CASE KernelStep
  <2>1. CASE Quietly
    BY <1>3, <1>6, <2>1 DEF KernelStep, Quietly, TimePasses, Attach, IssueProbe, Issue,
                           StoreTimestamp, CompleteUntraced, LookUp, DeleteEntry, ringVars
  <2>2. QED
    BY <1>4, <1>6, <2>1 DEF KernelStep
<1>7. CASE LoopStep
  <2>1. UNCHANGED <<ring, drained>>
    BY <1>7 DEF LoopStep, Loop!BeginDrain, Loop!EndDrain, Loop!ClearGuard, Loop!TimerElapses,
                Loop!Tick, Loop!Interrupt, Loop!TakeGuard, Loop!ClearReady, Loop!ringVars
  <2>2. QED
    BY <1>3, <2>1
<1>8. CASE UNCHANGED walVars
  BY <1>3, <1>8 DEF walVars, vars, ringVars
<1>9. QED
  BY <1>5, <1>6, <1>7, <1>8 DEF WalNext

(* The invariant of the path of a sample, together with the probes'.       *)
THEOREM PathInvariance == WalSpec => [](IInv /\ PathInv)
<1>1. WalInit /\ IInv => PathInv
  <2>1. SUFFICES ASSUME WalInit, IInv PROVE PathInv
    OBVIOUS
  <2>2. ring = <<>> /\ drained = <<>> /\ \A r \in Request : phase[r] = "new"
    BY <2>1 DEF WalInit, Init, RingInit
  <2>3. drained \in Seq(Sample)
    BY <2>2
  <2>4. QED
    BY <2>1, <2>2, <2>3 DEF IInv, PathInv, FilteredInv, OnceInv, DrainedInv
<1>2. PathInv /\ IInv' /\ [WalNext]_walVars => PathInv'
  BY PathNext DEF IInv
<1>3. QED
  BY <1>1, <1>2, Invariance, WalImplementsBlockIo, PTL DEF WalSpec, ImplementsBlockIo

(* classify_rwbs and the dev_t filter: every sample the rule judges is of  *)
(* a write or a flush on the filtered device, whatever follows the NUL of  *)
(* rwbs, and a request gets there at most once.                            *)
THEOREM WalCommitsOnly == WalSpec => []OnlyWalCommits
<1>1. PathInv => OnlyWalCommits
  <2>1. SUFFICES ASSUME PathInv PROVE OnlyWalCommits
    OBVIOUS
  <2>2. DOMAIN drained = 1 .. Len(drained)
    BY <2>1 DEF PathInv, DrainedInv
  <2>3. QED
    BY <2>1, <2>2 DEF PathInv, DrainedInv, OnceInv, Genuine, FitsClass, OnlyWalCommits, Commits,
                     Loop!CountsAsCommit
<1>2. QED
  BY <1>1, PathInvariance, PTL

-----------------------------------------------------------------------------
(* From the samples to the Findings.                                       *)

(* The loop's rule is the counter and the median of the lemmas. *)
LEMMA LoopSame ==
  /\ Loop!ThresholdNs = ThresholdMs * NsPerMs
  /\ \A c, b : Loop!Observe(c, b) = Observe(c, b) /\ Loop!JustFires(c, b) = JustFires(c, b)
  /\ \A s : Loop!P50(s) = P50(s)
<1>1. \A c, b : Loop!Observe(c, b) = Observe(c, b)
  BY DEF Loop!Observe, Observe, Loop!SaturatingSucc, SaturatingSucc, Loop!Rearmed, Rearmed
<1>2. \A c, b : Loop!JustFires(c, b) = JustFires(c, b)
  BY DEF Loop!JustFires, JustFires, Loop!Verdict, Verdict, Loop!SaturatingSucc, SaturatingSucc
<1>3. \A s : Loop!P50(s) = P50(s)
  BY DEF Loop!P50, P50, Loop!Sorted, Sorted, Loop!NoLater, NoLater, Loop!Cardinality, Cardinality
<1>4. QED
  BY <1>1, <1>2, <1>3 DEF Loop!ThresholdNs

LEMMA ThresholdType == Loop!ThresholdNs \in Nat /\ NsPerMs \in Nat \ {0}
BY LoopSame, WalAssumption, TimesMonotone

(* An interval that breaches has a commit over the threshold, and its      *)
(* median prints as a number.                                              *)
LEMMA BreachHasSlow ==
  ASSUME NEW s \in Seq(0 .. MaxTime), Loop!Breached(s)
  PROVE  /\ {i \in 1 .. Len(s) : s[i] > Loop!ThresholdNs} # {}
         /\ Loop!P50(s) \div NsPerMs \in Nat
<1>1. s \in Seq(Nat)
  BY BlockIoAssumption, SeqOfSubset
<1>2. s # <<>> /\ P50(s) > Loop!ThresholdNs
  BY LoopSame DEF Loop!Breached
<1>3. P50(s) \in Nat /\ {i \in 1 .. Len(s) : s[i] > Loop!ThresholdNs} # {}
  BY <1>1, <1>2, ThresholdType, MedianAbove
<1>4. QED
  BY <1>3, LoopSame, ThresholdType, DivBounds

(* The state the tick arm works on. *)
LoopType ==
  /\ window \in Seq(0 .. MaxTime)
  /\ counter \in Counter /\ (counter.fired <=> counter.streak >= RunLength)
  /\ findings \in Seq([p50_ms : Nat, streak : Nat])

(* Slow commits pay for breaches and breaches pay for Findings: every      *)
(* commit drained that was over the threshold is in the window, or has     *)
(* paid for at most one unit of a streak or of a Finding.                  *)
SlowCommits == {i \in Commits(drained) : drained[i].ns > Loop!ThresholdNs}
SlowSamples == {i \in 1 .. Len(window) : window[i] > Loop!ThresholdNs}
Building == IF counter.fired THEN 0 ELSE counter.streak
Spent == Len(findings) * RunLength
AccountInv == Spent + Building + Cardinality(SlowSamples) <= Cardinality(SlowCommits)

(* The emitter, where it exists, has recorded every sample drained.        *)
HistogramInv ==
  metrics => /\ histogram \in Seq({Recorded(e) : e \in Sample}) /\ Len(histogram) = Len(drained)
             /\ \A i \in 1 .. Len(drained) : histogram[i] = Recorded(drained[i])

(* While keys identify the requests in flight, no sample is longer than    *)
(* its I/O took.                                                           *)
HonestInv == ~collided => \A i \in 1 .. Len(drained) : drained[i].ns <= drained[i].trueNs

JudgeInv == LoopType /\ AccountInv /\ HistogramInv /\ HonestInv

(* The sets that the invariant counts. *)
LEMMA JudgeSizes ==
  ASSUME LoopType, drained \in Seq(Sample)
  PROVE  /\ IsFiniteSet(SlowSamples) /\ Cardinality(SlowSamples) \in Nat
         /\ IsFiniteSet(Commits(drained)) /\ Cardinality(Commits(drained)) \in Nat
         /\ IsFiniteSet(SlowCommits) /\ Cardinality(SlowCommits) \in Nat
         /\ Commits(drained) \subseteq 1 .. Len(drained) /\ Len(drained) \in Nat
         /\ Len(window) \in Nat /\ Len(findings) \in Nat
         /\ Building \in Nat /\ Spent \in Nat /\ RunLength \in Nat
<1>1. /\ Len(drained) \in Nat /\ DOMAIN drained = 1 .. Len(drained)
      /\ Len(window) \in Nat /\ Len(findings) \in Nat
  BY DEF LoopType
<1>2. IsFiniteSet(1 .. Len(drained)) /\ IsFiniteSet(1 .. Len(window))
  BY <1>1, IndexCount
<1>3. /\ Commits(drained) \subseteq 1 .. Len(drained) /\ SlowCommits \subseteq 1 .. Len(drained)
      /\ SlowSamples \subseteq 1 .. Len(window)
  BY <1>1 DEF Commits, SlowCommits, SlowSamples
<1>4. IsFiniteSet(Commits(drained)) /\ IsFiniteSet(SlowCommits) /\ IsFiniteSet(SlowSamples)
  BY <1>2, <1>3, FS_Subset
<1>5. RunLength \in Nat /\ counter.streak \in Nat
  BY RunLengthFacts, CounterAssumption DEF LoopType, Counter
<1>6. Spent \in Nat /\ Building \in Nat
  BY <1>1, <1>5, TimesSucc DEF Spent, Building
<1>7. QED
  BY <1>1, <1>3, <1>4, <1>5, <1>6, FS_CardinalityType

(* A collision is never forgotten. *)
LEMMA CollisionStays ==
  ASSUME [Next]_vars
  PROVE  collided => collided'
BY DEF Next, vars, history, TimePasses, Attach, IssueProbe, CompleteProbe, Issue, StoreTimestamp,
       CompleteUntraced, LookUp, DeleteEntry, EmitSample, LoaderConsumes

(* Nothing is drained and nothing judged. *)
LEMMA JudgeIdle ==
  ASSUME JudgeInv, collided => collided',
         UNCHANGED <<window, counter, findings, metricVars, drained>>
  PROVE  JudgeInv'
BY DEF JudgeInv, LoopType, AccountInv, HistogramInv, HonestInv, SlowCommits, SlowSamples, Building,
       Spent, Commits, metricVars

(* What one more sample adds to the commits. *)
LEMMA CommitsAppend ==
  ASSUME NEW s \in Seq(Sample), NEW e \in Sample
  PROVE  LET t == Append(s, e)
         IN  /\ Commits(t) = IF Loop!CountsAsCommit(e.op) THEN Commits(s) \cup {Len(s) + 1}
                             ELSE Commits(s)
             /\ t[Len(s) + 1] = e /\ Len(s) \in Nat
             /\ \A i \in Commits(s) : i \in Nat /\ i <= Len(s) /\ t[i] = s[i]
<1> DEFINE t == Append(s, e)
<1>1. /\ DOMAIN s = 1 .. Len(s) /\ Len(s) \in Nat /\ DOMAIN t = 1 .. (Len(s) + 1)
      /\ t[Len(s) + 1] = e /\ \A i \in 1 .. Len(s) : t[i] = s[i]
  OBVIOUS
<1>2. \A i : i \in 1 .. (Len(s) + 1) <=> i \in 1 .. Len(s) \/ i = Len(s) + 1
  BY <1>1
<1> HIDE DEF t
<1>3. Commits(t) = IF Loop!CountsAsCommit(e.op) THEN Commits(s) \cup {Len(s) + 1} ELSE Commits(s)
  BY <1>1, <1>2 DEF Commits
<1>4. \A i \in Commits(s) : i \in Nat /\ i <= Len(s) /\ t[i] = s[i]
  BY <1>1 DEF Commits
<1>5. QED
  BY <1>1, <1>3, <1>4 DEF t

(* A sample is drained and recorded, and pushed when it is a commit. *)
LEMMA JudgeRecord ==
  ASSUME JudgeInv, IInv, drained \in Seq(Sample), collided' = collided,
         UNCHANGED <<counter, findings, metrics>>, ring # <<>>,
         drained' = Append(drained, Head(ring)), RecordLatency(Head(ring)),
         window' = IF Loop!CountsAsCommit(Head(ring).op)
                   THEN Append(window, Head(ring).ns) ELSE window
  PROVE  JudgeInv'
<1>1. PICK e : e = Head(ring)
  OBVIOUS
<1>2. e \in Sample /\ (~collided => e.ns <= e.trueNs)
  <2>1. ring \in Seq(Sample)
    BY DEF IInv, TypeOK
  <2>2. e \in Sample /\ e = ring[1] /\ 1 \in 1 .. Len(ring)
    BY <1>1, <2>1
  <2>3. QED
    BY <2>2 DEF IInv, SampleIsOwn
<1>3. e.ns \in 0 .. MaxTime /\ e.ns \in Nat
  BY <1>2, BlockIoAssumption DEF Sample
<1>4. /\ LoopType /\ Loop!ThresholdNs \in Nat
      /\ drained' \in Seq(Sample) /\ window \in Seq(0 .. MaxTime)
  BY <1>1, <1>2, ThresholdType DEF JudgeInv, LoopType
<1> DEFINE n == Len(drained)
           T == Loop!ThresholdNs
<1>5. /\ Commits(drained') = IF Loop!CountsAsCommit(e.op) THEN Commits(drained) \cup {n + 1}
                             ELSE Commits(drained)
      /\ drained'[n + 1] = e /\ n \in Nat
      /\ \A i \in Commits(drained) : i \in Nat /\ i <= n /\ drained'[i] = drained[i]
  BY <1>1, <1>2, CommitsAppend
<1>6. /\ n + 1 \notin Commits(drained) /\ Len(drained') = n + 1
      /\ \A i \in 1 .. n : drained'[i] = drained[i]
      /\ \A i \in 1 .. n + 1 : i \in 1 .. n \/ i = n + 1
  BY <1>1, <1>2, <1>5
<1>7. LoopType'
  <2>1. Append(window, e.ns) \in Seq(0 .. MaxTime)
    BY <1>3, <1>4
  <2>2. window' \in Seq(0 .. MaxTime)
    BY <1>1, <1>4, <2>1
  <2>3. QED
    BY <1>4, <2>2 DEF LoopType
<1>8. HonestInv'
  BY <1>2, <1>5, <1>6 DEF JudgeInv, HonestInv
<1>9. HistogramInv'
  <2>1. SUFFICES ASSUME metrics
                 PROVE  /\ histogram' \in Seq({Recorded(x) : x \in Sample})
                        /\ Len(histogram') = n + 1
                        /\ \A i \in 1 .. n + 1 : histogram'[i] = Recorded(drained'[i])
    BY <1>6 DEF HistogramInv
  <2>2. /\ histogram \in Seq({Recorded(x) : x \in Sample}) /\ Len(histogram) = n
        /\ \A i \in 1 .. n : histogram[i] = Recorded(drained[i])
    BY <2>1 DEF JudgeInv, HistogramInv
  <2>3. PICK r : r = Recorded(e)
    OBVIOUS
  <2>4. histogram' = Append(histogram, r) /\ r \in {Recorded(x) : x \in Sample}
    BY <1>1, <1>2, <2>1, <2>3 DEF RecordLatency
  <2>5. /\ histogram' \in Seq({Recorded(x) : x \in Sample}) /\ Len(histogram') = n + 1
        /\ histogram'[n + 1] = r /\ \A i \in 1 .. n : histogram'[i] = histogram[i]
    BY <1>5, <2>2, <2>4
  <2>6. QED
    BY <1>5, <1>6, <2>2, <2>3, <2>5
<1>10. AccountInv'
  <2>1. CASE ~Loop!CountsAsCommit(e.op)
    <3>1. window' = window /\ Commits(drained') = Commits(drained)
      BY <1>1, <1>5, <2>1
    <3>2. SlowCommits' = SlowCommits /\ SlowSamples' = SlowSamples
      BY <1>5, <3>1 DEF SlowCommits, SlowSamples
    <3>3. QED
      BY <3>2 DEF JudgeInv, AccountInv, Spent, Building
  <2>2. CASE Loop!CountsAsCommit(e.op)
    <3>1. window' = Append(window, e.ns) /\ Commits(drained') = Commits(drained) \cup {n + 1}
      BY <1>1, <1>5, <2>2
    <3>2. /\ Len(window) \in Nat /\ Len(window') = Len(window) + 1
          /\ window'[Len(window) + 1] = e.ns
          /\ \A i \in 1 .. Len(window) : window'[i] = window[i]
          /\ \A i : i \in 1 .. Len(window') <=> i \in 1 .. Len(window) \/ i = Len(window) + 1
      BY <1>3, <1>4, <3>1
    <3>3. SlowCommits' = IF e.ns > T THEN SlowCommits \cup {n + 1} ELSE SlowCommits
      BY <1>5, <1>6, <3>1 DEF SlowCommits
    <3>4. SlowSamples' = IF e.ns > T THEN SlowSamples \cup {Len(window) + 1} ELSE SlowSamples
      BY <3>2 DEF SlowSamples
    <3>5. n + 1 \notin SlowCommits /\ Len(window) + 1 \notin SlowSamples
      BY <1>6, <3>2 DEF SlowCommits, SlowSamples
    <3>6. /\ Cardinality(SlowCommits) \in Nat /\ Cardinality(SlowSamples) \in Nat
          /\ Cardinality(SlowCommits') = IF e.ns > T THEN Cardinality(SlowCommits) + 1
                                         ELSE Cardinality(SlowCommits)
          /\ Cardinality(SlowSamples') = IF e.ns > T THEN Cardinality(SlowSamples) + 1
                                         ELSE Cardinality(SlowSamples)
      BY <1>4, <3>3, <3>4, <3>5, JudgeSizes, FS_AddElement
    <3>7. Spent \in Nat /\ Building \in Nat /\ Spent' = Spent /\ Building' = Building
      BY <1>4, JudgeSizes DEF Spent, Building
    <3>8. Spent + Building + Cardinality(SlowSamples') <= Cardinality(SlowCommits')
      BY <3>6, <3>7 DEF JudgeInv, AccountInv
    <3>9. QED
      BY <3>7, <3>8 DEF AccountInv
  <2>3. QED
    BY <2>1, <2>2
<1>11. QED
  BY <1>7, <1>8, <1>9, <1>10 DEF JudgeInv

(* The tick: a breach has a slow commit of its own to spend, a Finding     *)
(* spends the RunLength breaches of its run, and the window is empty.      *)
LEMMA JudgeTick ==
  ASSUME JudgeInv, drained \in Seq(Sample), Loop!Tick, UNCHANGED <<collided, metricVars, drained>>
  PROVE  JudgeInv'
<1>1. PICK b : b = Loop!Breached(window)
  OBVIOUS
<1>2. LoopType /\ counter \in Counter /\ (counter.fired <=> counter.streak >= RunLength)
  BY DEF JudgeInv, LoopType
<1>3. b \in BOOLEAN /\ (b => SlowSamples # {} /\ Loop!P50(window) \div NsPerMs \in Nat)
  BY <1>1, <1>2, BreachHasSlow DEF LoopType, Loop!Breached, SlowSamples
<1>4. /\ window' = <<>> /\ counter' = Observe(counter, b)
      /\ findings' = IF JustFires(counter, b)
                     THEN Append(findings, [p50_ms |-> Loop!P50(window) \div NsPerMs,
                                            streak |-> counter'.streak])
                     ELSE findings
  BY <1>1, LoopSame DEF Loop!Tick
<1>5. /\ counter' \in Counter
      /\ counter'.fired <=> counter'.streak >= RunLength
      /\ counter'.streak <= counter.streak + 1
      /\ ~b => counter'.streak = 0
      /\ counter.fired /\ b => counter'.fired
      /\ JustFires(counter, b) <=> b /\ ~counter.fired /\ counter'.fired
      /\ JustFires(counter, b) => counter.streak = RunLength - 1 /\ counter'.streak = RunLength
  BY <1>2, <1>3, <1>4, ObserveFacts
<1>6. /\ counter'.streak \in Nat /\ counter'.fired \in BOOLEAN
      /\ counter.streak \in Nat /\ counter.fired \in BOOLEAN
  BY <1>2, <1>5, CounterAssumption DEF Counter
<1>7. /\ findings' \in Seq([p50_ms : Nat, streak : Nat])
      /\ Len(findings') = IF JustFires(counter, b) THEN Len(findings) + 1 ELSE Len(findings)
  <2>1. JustFires(counter, b) =>
          [p50_ms |-> Loop!P50(window) \div NsPerMs, streak |-> counter'.streak]
            \in [p50_ms : Nat, streak : Nat]
    BY <1>3, <1>5, <1>6
  <2>2. findings \in Seq([p50_ms : Nat, streak : Nat])
    BY <1>2 DEF LoopType
  <2>3. CASE JustFires(counter, b)
    BY <1>4, <2>1, <2>2, <2>3
  <2>4. CASE ~JustFires(counter, b)
    BY <1>4, <2>2, <2>4
  <2>5. QED
    BY <2>3, <2>4
<1>8. LoopType'
  <2>1. window' \in Seq(0 .. MaxTime)
    BY <1>4
  <2>2. QED
    BY <1>5, <1>7, <2>1 DEF LoopType
<1>9. SlowSamples' = {} /\ Cardinality(SlowSamples') = 0 /\ SlowCommits' = SlowCommits
  BY <1>4, FS_EmptySet DEF SlowSamples, SlowCommits
<1>10. AccountInv'
  <2>1. SUFFICES Spent' + Building' + Cardinality(SlowSamples') <= Cardinality(SlowCommits)
    BY <1>9 DEF AccountInv
  <2>2. /\ Spent \in Nat /\ Building \in Nat /\ RunLength \in Nat /\ Len(findings) \in Nat
        /\ Cardinality(SlowSamples) \in Nat /\ Cardinality(SlowCommits) \in Nat
        /\ b => Cardinality(SlowSamples) >= 1
    BY <1>2, <1>3, JudgeSizes, FS_EmptySet
  <2>3. Spent + Building + Cardinality(SlowSamples) <= Cardinality(SlowCommits)
    BY DEF JudgeInv, AccountInv
  <2>4. CASE JustFires(counter, b)
    <3>1. Spent' = Spent + RunLength
      BY <1>7, <2>2, <2>4, TimesSucc DEF Spent
    <3>2. Building = RunLength - 1 /\ Building' = 0 /\ Cardinality(SlowSamples) >= 1
      BY <1>5, <2>2, <2>4 DEF Building
    <3>3. QED
      BY <1>9, <2>2, <2>3, <3>1, <3>2
  <2>5. CASE ~JustFires(counter, b)
    <3>1. Building' <= Building + Cardinality(SlowSamples) /\ Building' \in Nat
      <4>1. CASE b
        BY <4>1, <1>5, <1>6, <2>2, <2>5 DEF Building
      <4>2. CASE ~b
        BY <4>2, <1>5, <1>6, <2>2 DEF Building
      <4>3. QED
        BY <1>3, <4>1, <4>2
    <3>2. Spent' = Spent
      BY <1>7, <2>5 DEF Spent
    <3>3. QED
      BY <1>9, <2>2, <2>3, <3>1, <3>2
  <2>6. QED
    BY <2>4, <2>5
<1>11. HistogramInv' /\ HonestInv'
  BY DEF JudgeInv, HistogramInv, HonestInv, metricVars
<1>12. QED
  BY <1>8, <1>10, <1>11 DEF JudgeInv

LEMMA JudgeNext ==
  ASSUME JudgeInv, IInv, drained \in Seq(Sample), [WalNext]_walVars
  PROVE  JudgeInv'
<1>1. collided => collided'
  BY WalStep, CollisionStays
<1>2. CASE UNCHANGED <<window, counter, findings, metricVars, drained>>
  BY <1>1, <1>2, JudgeIdle
<1>3. CASE RecordAndPush
  <2>1. /\ UNCHANGED <<counter, findings, metrics, collided>> /\ ring # <<>>
        /\ drained' = Append(drained, Head(ring)) /\ RecordLatency(Head(ring))
        /\ window' = IF Loop!CountsAsCommit(Head(ring).op)
                     THEN Append(window, Head(ring).ns) ELSE window
    BY <1>3 DEF RecordAndPush, Loop!DrainOne, Loop!Consume, history
  <2>2. QED
    BY <2>1, JudgeRecord
<1>4. CASE LoopStep
  <2>1. CASE Loop!Tick
    <3>1. UNCHANGED <<collided, metricVars, drained>>
      BY <1>4 DEF LoopStep, history
    <3>2. QED
      BY <2>1, <3>1, JudgeTick
  <2>2. CASE ~Loop!Tick
    BY <1>2, <1>4, <2>2 DEF LoopStep, Loop!BeginDrain, Loop!EndDrain, Loop!ClearGuard,
                            Loop!TimerElapses, Loop!Interrupt
  <2>3. QED
    BY <2>1, <2>2
<1>5. CASE KernelStep
  BY <1>2, <1>5 DEF KernelStep, loopVars
<1>6. CASE UNCHANGED walVars
  BY <1>2, <1>6 DEF walVars, loopVars
<1>7. QED
  BY <1>3, <1>4, <1>5, <1>6 DEF WalNext

(* What the loop records and judges, with the invariants it rests on.      *)
THEOREM JudgeInvariance == WalSpec => [](PathInv /\ JudgeInv)
<1>1. WalInit /\ PathInv => JudgeInv
  <2>1. SUFFICES ASSUME WalInit, PathInv PROVE JudgeInv
    OBVIOUS
  <2>2. /\ window = <<>> /\ findings = <<>> /\ drained = <<>> /\ drained \in Seq(Sample)
        /\ counter = Rearmed /\ histogram = <<>>
    BY <2>1 DEF WalInit, PathInv, DrainedInv
  <2>3. /\ counter \in Counter /\ counter.streak = 0 /\ counter.fired = FALSE
        /\ (counter.fired <=> counter.streak >= RunLength)
    BY <2>2, CounterAssumption, RunLengthFacts DEF Rearmed, Counter
  <2>4. LoopType
    <3>1. window \in Seq(0 .. MaxTime) /\ findings \in Seq([p50_ms : Nat, streak : Nat])
      BY <2>2
    <3>2. QED
      BY <2>3, <3>1 DEF LoopType
  <2>5. Spent = 0 /\ Building = 0 /\ Cardinality(SlowSamples) = 0
    BY <2>2, <2>3, RunLengthFacts, FS_EmptySet DEF Spent, Building, SlowSamples
  <2>6. AccountInv
    BY <2>2, <2>4, <2>5, JudgeSizes DEF AccountInv
  <2>7. HistogramInv /\ HonestInv
    BY <2>2 DEF HistogramInv, HonestInv
  <2>8. QED
    BY <2>4, <2>6, <2>7 DEF JudgeInv
<1>2. JudgeInv /\ IInv /\ PathInv /\ [WalNext]_walVars => JudgeInv'
  BY JudgeNext DEF PathInv, DrainedInv
<1>3. QED
  BY <1>1, <1>2, PathInvariance, PTL DEF WalSpec

(* What has been paid for is at most what was slow. *)
LEMMA SpentIsBacked ==
  ASSUME PathInv, JudgeInv
  PROVE  /\ Len(findings) * RunLength <= Cardinality(SlowCommits)
         /\ Len(findings) * RunLength \in Nat /\ IsFiniteSet(SlowCommits)
         /\ Cardinality(SlowCommits) \in Nat /\ IsFiniteSet(Commits(drained))
         /\ Commits(drained) \subseteq 1 .. Len(drained)
<1>1. /\ Spent \in Nat /\ Building \in Nat /\ Cardinality(SlowSamples) \in Nat
      /\ IsFiniteSet(SlowCommits) /\ Cardinality(SlowCommits) \in Nat
      /\ IsFiniteSet(Commits(drained)) /\ Commits(drained) \subseteq 1 .. Len(drained)
  BY JudgeSizes DEF PathInv, DrainedInv, JudgeInv
<1>2. Spent + Building + Cardinality(SlowSamples) <= Cardinality(SlowCommits)
  BY DEF JudgeInv, AccountInv
<1>3. Spent <= Cardinality(SlowCommits)
  BY <1>1, <1>2
<1>4. QED
  BY <1>1, <1>3 DEF Spent

LEMMA DrainedTypes ==
  ASSUME drained \in Seq(Sample)
  PROVE  /\ DOMAIN drained = 1 .. Len(drained)
         /\ \A i \in 1 .. Len(drained) :
              drained[i].op \in OpClass /\ drained[i].ns \in Nat /\ drained[i].trueNs \in Nat
<1>1. DOMAIN drained = 1 .. Len(drained) /\ \A i \in 1 .. Len(drained) : drained[i] \in Sample
  OBVIOUS
<1>2. \A e \in Sample : e.op \in OpClass /\ e.ns \in Nat /\ e.trueNs \in Nat
  BY BlockIoAssumption DEF Sample
<1>3. QED
  BY <1>1, <1>2

(* op_class_str labels as writes what the rule judges. *)
LEMMA LabelTells ==
  \A op \in OpClass : OpClassStr(op) \in {"write", "write_flush"} <=> Loop!CountsAsCommit(op)
BY DEF OpClass, OpClassStr, Loop!CountsAsCommit

(* Where the metrics emitter exists, each Finding of the tick arm has      *)
(* RunLength samples of its own in the histogram, labelled as writes and   *)
(* over the threshold, for any number of drains and ticks.                 *)
THEOREM FindingsShown == WalSpec => []FindingsShowInHistogram
<1>1. PathInv /\ JudgeInv => FindingsShowInHistogram
  <2>1. SUFFICES ASSUME PathInv, JudgeInv, metrics PROVE FindingsShowInHistogram
    BY DEF FindingsShowInHistogram
  <2>2. /\ DOMAIN histogram = 1 .. Len(drained) /\ drained \in Seq(Sample)
        /\ \A i \in 1 .. Len(drained) : histogram[i] = Recorded(drained[i])
    BY <2>1 DEF PathInv, DrainedInv, JudgeInv, HistogramInv
  <2>3. /\ DOMAIN drained = 1 .. Len(drained)
        /\ \A i \in 1 .. Len(drained) : drained[i].op \in OpClass
    BY <2>2, DrainedTypes
  <2>4. \A i \in 1 .. Len(drained) :
          histogram[i].op = OpClassStr(drained[i].op) /\ histogram[i].ns = drained[i].ns
    BY <2>2 DEF Recorded
  <2>5. {i \in DOMAIN histogram : /\ histogram[i].op \in {"write", "write_flush"}
                                  /\ histogram[i].ns > Loop!ThresholdNs} = SlowCommits
    BY <2>2, <2>3, <2>4, LabelTells DEF SlowCommits, Commits
  <2>6. QED
    BY <2>1, <2>5, SpentIsBacked DEF FindingsShowInHistogram
<1>2. QED
  BY <1>1, JudgeInvariance, PTL

(* A Finding of the tick arm is backed by RunLength commits that really    *)
(* took longer than the threshold, while keys identify the requests in     *)
(* flight.                                                                 *)
THEOREM FindingsTrue == WalSpec => []FindingsAreTrue
<1>1. PathInv /\ JudgeInv => FindingsAreTrue
  <2> DEFINE Really == {i \in Commits(drained) : drained[i].trueNs > Loop!ThresholdNs}
  <2>1. SUFFICES ASSUME PathInv, JudgeInv, ~collided
                 PROVE  Len(findings) * RunLength <= Cardinality(Really)
    BY DEF FindingsAreTrue
  <2>2. /\ Commits(drained) \subseteq 1 .. Len(drained) /\ IsFiniteSet(Commits(drained))
        /\ Len(findings) * RunLength \in Nat /\ Cardinality(SlowCommits) \in Nat
        /\ Len(findings) * RunLength <= Cardinality(SlowCommits)
    BY <2>1, SpentIsBacked
  <2>3. \A i \in 1 .. Len(drained) : /\ drained[i].ns <= drained[i].trueNs
                                     /\ drained[i].ns \in Nat /\ drained[i].trueNs \in Nat
    BY <2>1, DrainedTypes DEF PathInv, DrainedInv, JudgeInv, HonestInv
  <2>4. SlowCommits \subseteq Really /\ Really \subseteq Commits(drained)
    BY <2>2, <2>3, ThresholdType DEF SlowCommits
  <2>5. IsFiniteSet(Really) /\ Cardinality(SlowCommits) <= Cardinality(Really)
        /\ Cardinality(Really) \in Nat
    BY <2>2, <2>4, FS_Subset, FS_CardinalityType
  <2>6. QED
    BY <2>2, <2>5
<1>2. QED
  BY <1>1, JudgeInvariance, PTL

-----------------------------------------------------------------------------
(* The programs are a kernel as FsyncJitter assumes one.                   *)

(* A function on an initial segment is a sequence. *)
LEMMA FunctionIsSeq ==
  ASSUME NEW R, NEW n \in Nat, NEW f \in [1 .. n -> R]
  PROVE  f \in Seq(R) /\ Len(f) = n
OBVIOUS

(* What the ring carries for the rule moves with the ring. *)
LEMMA CarriedFacts ==
  ASSUME NEW s \in Seq(Sample)
  PROVE  /\ Len(Carried(s)) = Len(s) /\ (Carried(s) = <<>> <=> s = <<>>)
         /\ Carried(s) \in Seq([op : OpClass, ns : 0 .. MaxTime])
<1>1. Len(s) \in Nat /\ DOMAIN s = 1 .. Len(s) /\ \A i \in 1 .. Len(s) : s[i] \in Sample
  OBVIOUS
<1>2. \A i \in 1 .. Len(s) : [op |-> s[i].op, ns |-> s[i].ns] \in [op : OpClass, ns : 0 .. MaxTime]
  BY <1>1 DEF Sample
<1>3. Carried(s) \in [1 .. Len(s) -> [op : OpClass, ns : 0 .. MaxTime]]
  BY <1>1, <1>2 DEF Carried
<1>4. Carried(s) \in Seq([op : OpClass, ns : 0 .. MaxTime]) /\ Len(Carried(s)) = Len(s)
  BY <1>1, <1>3, FunctionIsSeq
<1>5. QED
  BY <1>1, <1>4

LEMMA CarriedAppend ==
  ASSUME NEW s \in Seq(Sample), NEW e \in Sample
  PROVE  Carried(Append(s, e)) = Append(Carried(s), [op |-> e.op, ns |-> e.ns])
<1> DEFINE t == Append(s, e)
           f == [op |-> e.op, ns |-> e.ns]
           u == Append(Carried(s), f)
           R == [op : OpClass, ns : 0 .. MaxTime]
<1>1. /\ t \in Seq(Sample) /\ Len(s) \in Nat /\ Len(t) = Len(s) + 1
      /\ t[Len(s) + 1] = e /\ \A i \in 1 .. Len(s) : t[i] = s[i]
  OBVIOUS
<1>2. f \in R
  BY DEF Sample
<1>3. Carried(s) \in Seq(R) /\ Carried(t) \in Seq(R) /\ Len(Carried(s)) = Len(s)
      /\ Len(Carried(t)) = Len(s) + 1
  BY <1>1, CarriedFacts
<1> HIDE DEF t, f
<1>4. u \in Seq(R) /\ Len(u) = Len(s) + 1 /\ u[Len(s) + 1] = f
      /\ \A i \in 1 .. Len(s) : u[i] = Carried(s)[i]
  BY <1>1, <1>2, <1>3
<1>5. ASSUME NEW i \in 1 .. (Len(s) + 1) PROVE Carried(t)[i] = u[i]
  <2>1. i \in DOMAIN t /\ (i \in 1 .. Len(s) \/ i = Len(s) + 1) /\ DOMAIN s = 1 .. Len(s)
    BY <1>1
  <2>2. QED
    BY <1>1, <1>4, <2>1 DEF Carried, f
<1>6. Carried(t) = u
  <2> HIDE DEF u, R
  <2>1. QED
    BY <1>3, <1>4, <1>5
<1>7. QED
  BY <1>6 DEF t, f

LEMMA CarriedTail ==
  ASSUME NEW s \in Seq(Sample), s # <<>>
  PROVE  /\ Carried(Tail(s)) = Tail(Carried(s))
         /\ Head(Carried(s)).op = Head(s).op /\ Head(Carried(s)).ns = Head(s).ns
<1> DEFINE t == Tail(s)
           c == Carried(s)
           u == Tail(c)
           R == [op : OpClass, ns : 0 .. MaxTime]
<1>1. /\ t \in Seq(Sample) /\ Len(s) \in Nat /\ Len(s) >= 1 /\ Len(t) = Len(s) - 1
      /\ \A i \in 1 .. (Len(s) - 1) : t[i] = s[i + 1]
      /\ DOMAIN t = 1 .. (Len(s) - 1) /\ DOMAIN s = 1 .. Len(s) /\ Head(s) = s[1]
  OBVIOUS
<1>2. /\ c \in Seq(R) /\ Len(c) = Len(s) /\ c # <<>>
      /\ Carried(t) \in Seq(R) /\ Len(Carried(t)) = Len(s) - 1
  BY <1>1, CarriedFacts, Zenon
<1>3. \A i \in 1 .. Len(s) : c[i] = [op |-> s[i].op, ns |-> s[i].ns]
  BY <1>1 DEF Carried
<1> HIDE DEF c, t
<1>4. u \in Seq(R) /\ Len(u) = Len(s) - 1 /\ Head(c) = c[1]
      /\ \A i \in 1 .. (Len(s) - 1) : u[i] = c[i + 1]
  BY <1>1, <1>2
<1>5. ASSUME NEW i \in 1 .. (Len(s) - 1) PROVE Carried(t)[i] = u[i]
  <2>1. i + 1 \in 1 .. Len(s)
    BY <1>1
  <2>2. QED
    BY <1>1, <1>3, <1>4, <2>1 DEF Carried
<1>6. Carried(t) = u
  <2> HIDE DEF u, R
  <2>1. QED
    BY <1>1, <1>2, <1>4, <1>5
<1>7. Head(c).op = Head(s).op /\ Head(c).ns = Head(s).ns
  <2>1. 1 \in 1 .. Len(s)
    BY <1>1
  <2>2. c[1] = [op |-> s[1].op, ns |-> s[1].ns]
    BY <1>3, <2>1
  <2>3. Head(c) = c[1] /\ Head(s) = s[1]
    BY <1>1, <1>4
  <2>4. QED
    BY <2>2, <2>3
<1>8. QED
  BY <1>6, <1>7 DEF t, c

LEMMA RuleSame ==
  /\ \A c, b : Rule!Observe(c, b) = Loop!Observe(c, b) /\ Rule!JustFires(c, b) = Loop!JustFires(c, b)
  /\ \A s : Rule!Breached(s) = Loop!Breached(s) /\ Rule!P50(s) = Loop!P50(s)
  /\ Rule!Rearmed = Rearmed
<1>1. \A c, b : Rule!Observe(c, b) = Loop!Observe(c, b)
  BY DEF Rule!Observe, Loop!Observe, Rule!SaturatingSucc, Loop!SaturatingSucc, Rule!Rearmed,
         Loop!Rearmed
<1>2. \A c, b : Rule!JustFires(c, b) = Loop!JustFires(c, b)
  BY DEF Rule!JustFires, Loop!JustFires, Rule!Verdict, Loop!Verdict, Rule!SaturatingSucc,
         Loop!SaturatingSucc
<1>3. \A s : Rule!P50(s) = Loop!P50(s)
  BY DEF Rule!P50, Loop!P50, Rule!Sorted, Loop!Sorted, Rule!NoLater, Loop!NoLater,
         Rule!Cardinality, Loop!Cardinality
<1>4. \A s : Rule!Breached(s) = Loop!Breached(s)
  BY <1>3 DEF Rule!Breached, Loop!Breached, Rule!ThresholdNs, Loop!ThresholdNs
<1>5. QED
  BY <1>1, <1>2, <1>3, <1>4 DEF Rule!Rearmed, Rearmed

(* Every sample offered is of a request that is done. *)
Done == {r \in Request : phase[r] = "done"}
OfferedInv == offered \in Nat /\ offered <= Cardinality(Done)

LEMMA OfferedNext ==
  ASSUME IsFiniteSet(Request), TypeOK, TypeOK', FilteredInv, OfferedInv, [WalNext]_walVars
  PROVE  /\ OfferedInv'
         /\ offered' # offered => offered < Cardinality(Request)
<1>1. /\ Done \subseteq Request /\ Done \subseteq Done' /\ Done' \subseteq Request
  BY WalStep, ProbesForward DEF Done
<1>2. /\ IsFiniteSet(Done) /\ IsFiniteSet(Done') /\ Cardinality(Done') <= Cardinality(Request)
      /\ Cardinality(Done) <= Cardinality(Done')
      /\ Cardinality(Done) \in Nat /\ Cardinality(Done') \in Nat /\ Cardinality(Request) \in Nat
  BY <1>1, FS_Subset, FS_CardinalityType
<1>3. CASE offered' = offered
  BY <1>2, <1>3 DEF OfferedInv
<1>4. ASSUME NEW r \in Request, EmitSample(r), offered' = offered + 1
      PROVE  /\ OfferedInv'
             /\ offered' # offered => offered < Cardinality(Request)
  <2>1. r \notin Done /\ r \in Done'
    BY <1>4 DEF EmitSample, TypeOK, Done
  <2>2. /\ Cardinality(Done \cup {r}) = Cardinality(Done) + 1
        /\ IsFiniteSet(Done \cup {r}) /\ Done \cup {r} \subseteq Done'
    BY <1>1, <1>2, <2>1, FS_AddElement
  <2>3. Cardinality(Done \cup {r}) <= Cardinality(Done')
    BY <1>2, <2>2, FS_Subset
  <2>4. QED
    BY <1>2, <1>4, <2>2, <2>3 DEF OfferedInv
<1>5. CASE KernelStep
  BY <1>3, <1>4, <1>5 DEF KernelStep
<1>6. CASE RecordAndPush \/ LoopStep \/ UNCHANGED walVars
  <2>1. offered' = offered
    BY <1>6 DEF RecordAndPush, LoopStep, walVars, Loop!DrainOne, Loop!BeginDrain, Loop!EndDrain,
                Loop!ClearGuard, Loop!TimerElapses, Loop!Tick, Loop!Interrupt
  <2>2. QED
    BY <1>3, <2>1
<1>7. QED
  BY <1>5, <1>6 DEF WalNext

(* A step that leaves the ring and the loop alone is a stutter of the      *)
(* rule; the submit, the drop and each arm are steps of it.                *)
LEMMA RuleStep ==
  ASSUME TypeOK, TypeOK', [WalNext]_walVars,
         offered' # offered => offered < Cardinality(Request)
  PROVE  [Rule!Next]_Rule!vars
<1>1. ring \in Seq(Sample) /\ ring' \in Seq(Sample)
  BY DEF TypeOK
<1>2. ASSUME UNCHANGED <<ring, ready, fresh, pc, window, counter, tickDue, findings, offered>>
      PROVE  UNCHANGED Rule!vars
  BY <1>2 DEF Rule!vars, Rule!ringVars, Rule!loaderVars
<1>3. CASE KernelStep
  <2>1. pc # "stopped" /\ UNCHANGED <<pc, window, counter, tickDue, findings>>
    BY <1>3 DEF KernelStep, Live, loopVars
  <2>2. CASE Quietly /\ UNCHANGED offered
    <3>1. UNCHANGED <<ring, ready, fresh>>
      BY <2>2 DEF Quietly, TimePasses, Attach, IssueProbe, Issue, StoreTimestamp,
                  CompleteUntraced, LookUp, DeleteEntry, ringVars
    <3>2. QED
      BY <1>2, <2>1, <2>2, <3>1
  <2>3. ASSUME NEW r \in Request, EmitSample(r), offered' = offered + 1
        PROVE  Rule!Next
    <3>1. offered < Cardinality(Request) /\ offered' = offered + 1
      <4>1. offered' # offered
        BY <2>3
      <4>2. QED
        BY <2>3, <4>1
    <3>2. CASE ReserveFails
      <4>1. UNCHANGED <<ring, ready, fresh>> /\ Len(Carried(ring)) = RingCap
        BY <1>1, <3>2, CarriedFacts DEF ReserveFails, ringVars
      <4>2. Rule!ReserveFails
        BY <4>1 DEF Rule!ReserveFails, Rule!ringVars
      <4>3. \E e : e \in Rule!Sample
        <5>1. [op |-> "Read", ns |-> 0] \in Rule!Sample
          BY BlockIoAssumption DEF Rule!Sample, Ops, OpClass, Latency
        <5>2. QED
          BY <5>1
      <4>4. QED
        BY <2>1, <3>1, <4>2, <4>3 DEF Rule!Next, Rule!Kernel, Rule!KernelSample,
                                      Rule!loaderVars, MaxOffered
    <3>3. ASSUME NEW e, Submit(e) PROVE Rule!Next
      <4>1. /\ Len(ring) < RingCap /\ ring' = Append(ring, e)
            /\ ready' = (ready \/ ring = <<>>) /\ fresh' = (fresh \/ ring = <<>>)
        BY <3>3 DEF Submit
      <4>2. e \in Sample
        <5>1. Len(ring') \in Nat /\ Len(ring') >= 1 /\ ring'[Len(ring')] = e
          BY <1>1, <4>1
        <5>2. QED
          BY <1>1, <5>1
      <4>3. PICK f : f = [op |-> e.op, ns |-> e.ns]
        OBVIOUS
      <4>4. f \in Rule!Sample
        BY <4>2, <4>3 DEF Sample, Rule!Sample, Ops, Latency
      <4>5. /\ Carried(ring') = Append(Carried(ring), f) /\ Len(Carried(ring)) = Len(ring)
            /\ (Carried(ring) = <<>> <=> ring = <<>>)
        BY <1>1, <4>1, <4>2, <4>3, CarriedAppend, CarriedFacts
      <4>6. Rule!Submit(f)
        BY <4>1, <4>5 DEF Rule!Submit
      <4>7. QED
        BY <2>1, <3>1, <4>4, <4>6 DEF Rule!Next, Rule!Kernel, Rule!KernelSample,
                                      Rule!loaderVars, MaxOffered
    <3>4. QED
      BY <2>3, <3>2, <3>3 DEF EmitSample
  <2>4. QED
    BY <1>3, <2>2, <2>3 DEF KernelStep
<1>4. CASE RecordAndPush
  <2>1. /\ pc = "draining" /\ ring # <<>> /\ ring' = Tail(ring)
        /\ UNCHANGED <<ready, fresh, pc, counter, tickDue, findings, offered>>
        /\ window' = IF Loop!CountsAsCommit(Head(ring).op)
                     THEN Append(window, Head(ring).ns) ELSE window
    BY <1>4 DEF RecordAndPush, Loop!DrainOne, Loop!Consume
  <2>2. /\ Carried(ring) # <<>> /\ Carried(ring') = Tail(Carried(ring))
        /\ Head(Carried(ring)).op = Head(ring).op /\ Head(Carried(ring)).ns = Head(ring).ns
    BY <1>1, <2>1, CarriedFacts, CarriedTail
  <2>3. Rule!DrainOne
    BY <2>1, <2>2 DEF Rule!DrainOne, Rule!Consume, Rule!CountsAsCommit, Loop!CountsAsCommit
  <2>4. QED
    BY <2>3 DEF Rule!Next, Rule!Drain
<1>5. CASE LoopStep
  <2>1. CASE Loop!BeginDrain
    <3>1. Rule!BeginDrain
      BY <2>1 DEF Loop!BeginDrain, Rule!BeginDrain, Loop!TakeGuard, Rule!TakeGuard
    <3>2. QED
      BY <3>1 DEF Rule!Next, Rule!Drain
  <2>2. CASE Loop!EndDrain
    <3>1. Carried(ring) = <<>>
      BY <1>1, <2>2, CarriedFacts DEF Loop!EndDrain
    <3>2. Rule!EndDrain
      BY <2>2, <3>1 DEF Loop!EndDrain, Rule!EndDrain, Loop!ringVars, Rule!ringVars
    <3>3. QED
      BY <3>2 DEF Rule!Next, Rule!Drain
  <2>3. CASE Loop!ClearGuard
    <3>1. Rule!ClearGuard
      BY <2>3 DEF Loop!ClearGuard, Rule!ClearGuard, Loop!ClearReady, Rule!ClearReady
    <3>2. QED
      BY <3>1 DEF Rule!Next, Rule!Drain
  <2>4. CASE Loop!TimerElapses
    <3>1. Rule!TimerElapses
      BY <2>4 DEF Loop!TimerElapses, Rule!TimerElapses, Loop!ringVars, Rule!ringVars
    <3>2. QED
      BY <3>1 DEF Rule!Next
  <2>5. CASE Loop!Tick
    <3>1. Rule!Tick
      BY <2>5, RuleSame DEF Loop!Tick, Rule!Tick, Loop!ringVars, Rule!ringVars
    <3>2. QED
      BY <3>1 DEF Rule!Next
  <2>6. CASE Loop!Interrupt
    <3>1. Rule!Interrupt
      BY <2>6 DEF Loop!Interrupt, Rule!Interrupt, Loop!ringVars, Rule!ringVars
    <3>2. QED
      BY <3>1 DEF Rule!Next
  <2>7. QED
    BY <1>5, <2>1, <2>2, <2>3, <2>4, <2>5, <2>6 DEF LoopStep
<1>6. CASE UNCHANGED walVars
  BY <1>2, <1>6 DEF walVars, vars, ringVars, loopVars
<1>7. QED
  BY <1>3, <1>4, <1>5, <1>6 DEF WalNext

(* What FsyncJitter assumes of a kernel holds of the programs of ebpf      *)
(* main.rs, for any finite number of requests: every theorem of the rule   *)
(* alone is one of the rule behind the programs.                           *)
THEOREM WalImplementsFsyncJitter ==
  ASSUME IsFiniteSet(Request)
  PROVE  WalSpec => ImplementsFsyncJitter
<1>1. WalInit /\ IInv => OfferedInv /\ Rule!Init
  <2>1. SUFFICES ASSUME WalInit, IInv PROVE OfferedInv /\ Rule!Init
    OBVIOUS
  <2>2. ring = <<>> /\ ring \in Seq(Sample) /\ ready = FALSE /\ fresh = FALSE
    BY <2>1 DEF WalInit, Init, RingInit, IInv, TypeOK
  <2>3. Rule!Init
    BY <2>1, <2>2, CarriedFacts, RuleSame DEF WalInit, Rule!Init, Rule!RingInit
  <2>4. OfferedInv
    <3>1. IsFiniteSet(Done)
      BY FS_Subset DEF Done
    <3>2. QED
      BY <2>1, <3>1, FS_CardinalityType DEF WalInit, OfferedInv
  <2>5. QED
    BY <2>3, <2>4
<1>2. OfferedInv /\ IInv /\ PathInv /\ IInv' /\ [WalNext]_walVars
        => OfferedInv' /\ [Rule!Next]_Rule!vars
  BY OfferedNext, RuleStep DEF IInv, PathInv
<1>3. QED
  BY <1>1, <1>2, PathInvariance, PTL DEF WalSpec, ImplementsFsyncJitter, Rule!Spec

-----------------------------------------------------------------------------
(* What the rule promises, with the programs as its kernel.                *)

(* Between the end of a drain and clear_ready, a sample in the ring has    *)
(* raised a signal that clear_ready will keep.                             *)
WakeInv ==
  /\ pc = "select" /\ ring # <<>> => ready
  /\ pc = "clearing" /\ ring # <<>> => fresh

(* The programs submit at any point of a drain. *)
LEMMA WakeNext ==
  ASSUME WakeInv, [WalNext]_walVars
  PROVE  WakeInv'
<1>1. CASE KernelStep
  <2>1. pc' = pc
    BY <1>1 DEF KernelStep, loopVars
  <2>2. CASE Quietly
    BY <2>1, <2>2 DEF WakeInv, Quietly, TimePasses, Attach, IssueProbe, Issue, StoreTimestamp,
                      CompleteUntraced, LookUp, DeleteEntry, ringVars
  <2>3. ASSUME NEW r \in Request, EmitSample(r) PROVE WakeInv'
    <3>1. \/ UNCHANGED <<ring, ready, fresh>>
          \/ ready' = (ready \/ ring = <<>>) /\ fresh' = (fresh \/ ring = <<>>)
      BY <2>3 DEF EmitSample, Submit, ReserveFails, ringVars
    <3>2. QED
      BY <2>1, <3>1 DEF WakeInv
  <2>4. QED
    BY <1>1, <2>2, <2>3 DEF KernelStep
<1>2. CASE RecordAndPush
  BY <1>2 DEF WakeInv, RecordAndPush, Loop!DrainOne
<1>3. CASE LoopStep
  <2>1. CASE Loop!BeginDrain
    BY <2>1 DEF WakeInv, Loop!BeginDrain
  <2>2. CASE Loop!EndDrain
    BY <2>2 DEF WakeInv, Loop!EndDrain, Loop!ringVars
  <2>3. CASE Loop!ClearGuard
    BY <2>3 DEF WakeInv, Loop!ClearGuard, Loop!ClearReady
  <2>4. CASE Loop!TimerElapses \/ Loop!Tick \/ Loop!Interrupt
    BY <2>4 DEF WakeInv, Loop!TimerElapses, Loop!Tick, Loop!Interrupt, Loop!ringVars
  <2>5. QED
    BY <1>3, <2>1, <2>2, <2>3, <2>4 DEF LoopStep
<1>4. CASE UNCHANGED walVars
  BY <1>4 DEF WakeInv, walVars, vars, ringVars, loopVars
<1>5. QED
  BY <1>1, <1>2, <1>3, <1>4 DEF WalNext

(* No sample of the real programs waits unnoticed: whenever the loop is    *)
(* back in select! with a sample in the ring, the latency arm is ready     *)
(* (main.rs, clear_ready after the drain), on any number of CPUs.          *)
THEOREM WalWakeupsKept == WalSpec => []Loop!NoLostWakeup
<1>1. WalInit => WakeInv
  BY DEF WalInit, Init, RingInit, WakeInv
<1>2. WakeInv => Loop!NoLostWakeup
  BY DEF WakeInv, Loop!NoLostWakeup
<1>3. QED
  BY <1>1, <1>2, WakeNext, PTL DEF WalSpec

(* A breach prints as at least the threshold. *)
LEMMA BreachEvidence ==
  ASSUME NEW s \in Seq(0 .. MaxTime), Loop!Breached(s)
  PROVE  Loop!P50(s) \div NsPerMs \in Nat /\ Loop!P50(s) \div NsPerMs >= ThresholdMs
<1>1. s \in Seq(Nat)
  BY BlockIoAssumption, SeqOfSubset
<1>2. s # <<>> /\ P50(s) > Loop!ThresholdNs
  BY LoopSame DEF Loop!Breached
<1>3. P50(s) \in Nat
  BY <1>1, <1>2, ThresholdType, MedianAbove
<1>4. /\ ThresholdMs \in Nat /\ NsPerMs \in Nat \ {0}
      /\ ThresholdMs * NsPerMs \in Nat /\ Loop!ThresholdNs = ThresholdMs * NsPerMs
  BY WalAssumption, ThresholdType, LoopSame
<1>5. P50(s) >= ThresholdMs * NsPerMs
  BY <1>2, <1>3, <1>4
<1>6. P50(s) \div NsPerMs \in Nat /\ P50(s) \div NsPerMs >= ThresholdMs
  BY <1>3, <1>4, <1>5, DivAtLeast
<1>7. QED
  BY <1>6, LoopSame

(* The tick that fires has a median over the threshold and a streak that   *)
(* has just reached the run length.                                        *)
LEMMA EvidenceTick ==
  ASSUME LoopType, Loop!FindingEvidence, Loop!Tick
  PROVE  Loop!FindingEvidence'
<1>1. PICK b : b = Loop!Breached(window)
  OBVIOUS
<1>2. b \in BOOLEAN
  BY <1>1, BreachHasSlow DEF LoopType, Loop!Breached
<1>3. /\ counter' = Observe(counter, b)
      /\ findings' = IF JustFires(counter, b)
                     THEN Append(findings, [p50_ms |-> Loop!P50(window) \div NsPerMs,
                                            streak |-> counter'.streak])
                     ELSE findings
  BY <1>1, LoopSame DEF Loop!Tick
<1>4. CASE ~JustFires(counter, b)
  BY <1>3, <1>4 DEF Loop!FindingEvidence, Loop!RunLength, RunLength
<1>5. CASE JustFires(counter, b)
  <2> DEFINE ms == Loop!P50(window) \div NsPerMs
             f == [p50_ms |-> ms, streak |-> counter'.streak]
  <2>1. b /\ counter'.streak = RunLength
    BY <1>2, <1>3, <1>5, ObserveFacts DEF LoopType
  <2>2. ms \in Nat /\ ms >= ThresholdMs
    BY <1>1, <2>1, BreachEvidence DEF LoopType
  <2>3. Len(findings) \in Nat /\ findings \in Seq([p50_ms : Nat, streak : Nat])
    BY DEF LoopType
  <2>4. f \in [p50_ms : Nat, streak : Nat] /\ f.p50_ms >= ThresholdMs /\ f.streak = RunLength
    BY <2>1, <2>2, RunLengthFacts
  <2> HIDE DEF ms, f
  <2>5. findings' = Append(findings, f)
    BY <1>3, <1>5 DEF f, ms
  <2>6. /\ Len(findings') = Len(findings) + 1 /\ findings'[Len(findings) + 1] = f
        /\ \A i \in 1 .. Len(findings) : findings'[i] = findings[i]
    BY <2>3, <2>4, <2>5
  <2>7. \A i \in 1 .. Len(findings') : i \in 1 .. Len(findings) \/ i = Len(findings) + 1
    BY <2>3, <2>6
  <2>8. QED
    BY <2>4, <2>6, <2>7 DEF Loop!FindingEvidence, Loop!RunLength, RunLength
<1>6. QED
  BY <1>4, <1>5

(* A Finding of the loop behind the real programs reports the streak its   *)
(* rule is named after and, in whole milliseconds, a median that is not    *)
(* below the threshold (main.rs, the tick arm).                            *)
THEOREM WalEvidenceSound == WalSpec => []Loop!FindingEvidence
<1>1. WalInit => Loop!FindingEvidence
  BY DEF WalInit, Loop!FindingEvidence
<1>2. JudgeInv /\ Loop!FindingEvidence /\ [WalNext]_walVars => Loop!FindingEvidence'
  <2>1. SUFFICES ASSUME JudgeInv, Loop!FindingEvidence, [WalNext]_walVars
                 PROVE  Loop!FindingEvidence'
    OBVIOUS
  <2>2. CASE Loop!Tick
    BY <2>1, <2>2, EvidenceTick DEF JudgeInv
  <2>3. CASE ~Loop!Tick
    <3>1. findings' = findings
      BY <2>1, <2>3 DEF WalNext, KernelStep, RecordAndPush, LoopStep, walVars, loopVars,
                        Loop!DrainOne, Loop!BeginDrain, Loop!EndDrain, Loop!ClearGuard,
                        Loop!TimerElapses, Loop!Interrupt
    <3>2. QED
      BY <2>1, <3>1 DEF Loop!FindingEvidence
  <2>4. QED
    BY <2>2, <2>3
<1>3. QED
  BY <1>1, <1>2, JudgeInvariance, PTL DEF WalSpec
=============================================================================
