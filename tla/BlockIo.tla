------------------------------- MODULE BlockIo -------------------------------
(***************************************************************************)
(* The two block-layer programs of pgsleuth-ebpf/src/main.rs, which turn   *)
(* the issue and the completion of a block request into a latency sample.  *)
(* They run on whatever CPU issues or completes the request, many at once, *)
(* and share only the INFLIGHT map and the LATENCY_EVENTS ring.            *)
(*                                                                         *)
(* Every map operation and the issue's reading of the clock is a step of   *)
(* its own: programs on two CPUs interleave between them.  The completion's*)
(* clock reading, reserve and submit are one step.  The request itself, its*)
(* key and the clock belong to the kernel.                                 *)
(***************************************************************************)
EXTENDS LatencyRing, FiniteSets, Functions

CONSTANTS
  Request,       \* block requests; each lives once
  Device, Sector,
  DevFilter,     \* FilterConfig.dev_t, or NoDevice for "no filter"
  NoDevice,
  MaxEntries,    \* slots of INFLIGHT (8192)
  Rwbs,          \* the rwbs strings requests have: first letter, other letters
  None,          \* no request
  MaxTime        \* bound: clock readings

Letter  == {"R", "W", "F", "D", "A", "S", "M"}
OpClass == {"Read", "Write", "WriteFlush", "Other"}

ASSUME BlockIoAssumption ==
  /\ Rwbs \subseteq [first : Letter, rest : SUBSET Letter]
  /\ DevFilter \in Device \cup {NoDevice}
  /\ NoDevice \notin Device
  /\ None \notin Request
  /\ MaxEntries \in Nat \ {0}
  /\ MaxTime \in Nat

VARIABLES
  clock,       \* bpf_ktime_get_ns
  attached,    \* the programs attached so far
  phase,       \* phase[r]: where request r and its probes are
  key,         \* key[r]: the request's (dev, sector), once issued
  rwbs,        \* rwbs[r]: the kernel's description of its operation
  ts,          \* ts[r]: the issue timestamp the running probe of r holds
  inflight,    \* INFLIGHT: a function from the keys present to timestamps
  \* history, for the properties only
  collided,    \* a request was issued while one with its key was in flight
  issuedAt,    \* when the request was handed to the block layer
  storedAt,    \* when its issue probe stored its timestamp
  owner,       \* owner[k]: whose timestamp inflight[k] is
  held,        \* held[r]: whose timestamp ts[r] is
  unseen,      \* requests completed before block_rq_complete was attached
  untimed,     \* requests that reached the device without a stored timestamp
  missed       \* requests whose completion found no timestamp

probeVars == <<phase, key, rwbs, ts, inflight>>
history   == <<collided, issuedAt, storedAt, owner, held, unseen, untimed, missed>>
vars == <<ringVars, clock, attached, probeVars, history>>

Key == Device \X Sector
Program == {"issue", "complete"}

(* What the ring carries: the class of the operation and the latency; for  *)
(* the properties, the request completed, the one whose timestamp was used *)
(* and the true latency.                                                   *)
Sample == [op : OpClass, ns : 0 .. MaxTime,
           req : Request, from : Request, trueNs : 0 .. MaxTime]

(* Mutant: the scan for F and A comes first.                               *)
ClassifyFlagsFirst(io, stale) ==
  LET letters == {io.first} \cup io.rest \cup stale
  IN  CASE letters \cap {"F", "A"} # {}                  -> "WriteFlush"
        [] letters \cap {"F", "A"} = {} /\ io.first = "R" -> "Read"
        [] letters \cap {"F", "A"} = {} /\ io.first = "W" -> "Write"
        [] OTHER                                         -> "Other"

(* classify_rwbs: the first letter, and a scan for F and A over all eight  *)
(* bytes, those after the string's NUL included; what these hold (stale)   *)
(* is whatever the kernel's trace buffer held before.                      *)
Classify(io, stale) ==
  LET isWrite      == io.first \in {"W", "F"}
      isFlushOrFua == ({io.first} \cup io.rest \cup stale) \cap {"F", "A"} # {}
  IN  CASE io.first = "R"              -> "Read"
        [] isWrite /\ isFlushOrFua     -> "WriteFlush"
        [] isWrite /\ ~isFlushOrFua    -> "Write"
        [] OTHER                       -> "Other"

(* The dev_t filter: 0 means "no filter, report all".                      *)
PassDevFilter(dev) == DevFilter = NoDevice \/ dev = DevFilter

SaturatingSub(a, b) == IF a > b THEN a - b ELSE 0

InFlight(r) == phase[r] \notin {"new", "done"}

-----------------------------------------------------------------------------
Init ==
  /\ RingInit
  /\ clock = 0
  /\ attached = {}
  /\ phase = [r \in Request |-> "new"]
  /\ key \in [Request -> Key]
  /\ rwbs \in [Request -> Rwbs]
  /\ ts = [r \in Request |-> 0]
  /\ inflight = [k \in {} |-> 0]
  /\ collided = FALSE
  /\ issuedAt = [r \in Request |-> 0]
  /\ storedAt = [r \in Request |-> 0]
  /\ owner = [k \in {} |-> None]
  /\ held = [r \in Request |-> None]
  /\ unseen = {} /\ untimed = {} /\ missed = {}

TimePasses ==
  /\ clock < MaxTime
  /\ clock' = clock + 1
  /\ UNCHANGED <<ringVars, attached, probeVars, history>>

(* The loader attaches block_rq_issue, then block_rq_complete.             *)
Attach(program) ==
  /\ program \notin attached
  /\ program = "complete" => "issue" \in attached
  /\ attached' = attached \cup {program}
  /\ UNCHANGED <<ringVars, clock, probeVars, history>>

(* The block layer issues r.  block_rq_issue runs before the driver gets   *)
(* the request: an attached program that passes the filter reads the clock *)
(* here; otherwise r goes to the device untimed.                           *)
Issue(r) ==
  /\ phase[r] = "new"
  /\ collided' = (collided \/ \E q \in Request : InFlight(q) /\ key[q] = key[r])
  /\ issuedAt' = [issuedAt EXCEPT ![r] = clock]
  /\ IF "issue" \in attached /\ PassDevFilter(key[r][1])
     THEN /\ phase' = [phase EXCEPT ![r] = "issuing"]
          /\ ts' = [ts EXCEPT ![r] = clock]
          /\ UNCHANGED untimed
     ELSE /\ phase' = [phase EXCEPT ![r] = "device"]
          /\ untimed' = untimed \cup {r}
          /\ UNCHANGED ts
  /\ UNCHANGED <<ringVars, clock, attached, key, rwbs, inflight, storedAt, owner, held,
                 unseen, missed>>

(* Mutants: BPF_NOEXIST keeps the timestamp a key already has; an LRU map  *)
(* makes room by evicting another key.                                     *)
StoreIfAbsent(r) ==
  /\ phase[r] = "issuing"
  /\ phase' = [phase EXCEPT ![r] = "device"]
  /\ IF key[r] \notin DOMAIN inflight /\ Cardinality(DOMAIN inflight) < MaxEntries
     THEN /\ inflight' = [k \in DOMAIN inflight \cup {key[r]} |->
                            IF k = key[r] THEN ts[r] ELSE inflight[k]]
          /\ owner' = [k \in DOMAIN owner \cup {key[r]} |->
                            IF k = key[r] THEN r ELSE owner[k]]
          /\ storedAt' = [storedAt EXCEPT ![r] = clock]
          /\ UNCHANGED untimed
     ELSE /\ untimed' = untimed \cup {r}
          /\ UNCHANGED <<inflight, owner, storedAt>>
  /\ UNCHANGED <<ringVars, clock, attached, key, rwbs, ts, collided, issuedAt, held, unseen, missed>>

StoreEvicting(r) ==
  /\ phase[r] = "issuing"
  /\ phase' = [phase EXCEPT ![r] = "device"]
  /\ \E keep \in SUBSET (DOMAIN inflight \ {key[r]}) :
       /\ Cardinality(keep) = MaxEntries - 1 \/ keep = DOMAIN inflight \ {key[r]}
       /\ Cardinality(keep) < MaxEntries
       /\ inflight' = [k \in keep \cup {key[r]} |-> IF k = key[r] THEN ts[r] ELSE inflight[k]]
       /\ owner' = [k \in keep \cup {key[r]} |-> IF k = key[r] THEN r ELSE owner[k]]
  /\ storedAt' = [storedAt EXCEPT ![r] = clock]
  /\ UNCHANGED <<ringVars, clock, attached, key, rwbs, ts, collided, issuedAt, held, unseen,
                 untimed, missed>>

(* INFLIGHT.insert with BPF_ANY: replaces an entry of the same key, and    *)
(* fails, ignored, when a new key finds the map full.                      *)
StoreTimestamp(r) ==
  /\ phase[r] = "issuing"
  /\ phase' = [phase EXCEPT ![r] = "device"]
  /\ IF key[r] \in DOMAIN inflight \/ Cardinality(DOMAIN inflight) < MaxEntries
     THEN /\ inflight' = [k \in DOMAIN inflight \cup {key[r]} |->
                            IF k = key[r] THEN ts[r] ELSE inflight[k]]
          /\ owner' = [k \in DOMAIN owner \cup {key[r]} |->
                            IF k = key[r] THEN r ELSE owner[k]]
          /\ storedAt' = [storedAt EXCEPT ![r] = clock]
          /\ UNCHANGED untimed
     ELSE /\ untimed' = untimed \cup {r}
          /\ UNCHANGED <<inflight, owner, storedAt>>
  /\ UNCHANGED <<ringVars, clock, attached, key, rwbs, ts, collided, issuedAt, held, unseen, missed>>

(* The device completes r while block_rq_complete is not attached, or the  *)
(* program returns at its filter.                                          *)
CompleteUntraced(r) ==
  /\ phase[r] = "device"
  /\ ~("complete" \in attached /\ PassDevFilter(key[r][1]))
  /\ phase' = [phase EXCEPT ![r] = "done"]
  /\ unseen' = unseen \cup {r}
  /\ UNCHANGED <<ringVars, clock, attached, key, rwbs, ts, inflight, collided, issuedAt,
                 storedAt, owner, held, untimed, missed>>

(* The device completes r and the program looks its key up: INFLIGHT.get.  *)
LookUp(r) ==
  /\ phase[r] = "device"
  /\ "complete" \in attached /\ PassDevFilter(key[r][1])
  /\ IF key[r] \in DOMAIN inflight
     THEN /\ phase' = [phase EXCEPT ![r] = "found"]
          /\ ts' = [ts EXCEPT ![r] = inflight[key[r]]]
          /\ held' = [held EXCEPT ![r] = owner[key[r]]]
          /\ UNCHANGED missed
     ELSE /\ phase' = [phase EXCEPT ![r] = "done"]
          /\ missed' = missed \cup {r}
          /\ UNCHANGED <<ts, held>>
  /\ UNCHANGED <<ringVars, clock, attached, key, rwbs, inflight, collided, issuedAt, storedAt,
                 owner, unseen, untimed>>

(* Mutant: the entry is read and left in the map. *)
KeepEntry(r) ==
  /\ phase[r] = "found"
  /\ phase' = [phase EXCEPT ![r] = "timed"]
  /\ UNCHANGED <<ringVars, clock, attached, key, rwbs, ts, inflight, history>>

(* INFLIGHT.remove: whatever the key holds by now goes.                    *)
DeleteEntry(r) ==
  /\ phase[r] = "found"
  /\ phase' = [phase EXCEPT ![r] = "timed"]
  /\ inflight' = Restrict(inflight, DOMAIN inflight \ {key[r]})
  /\ owner' = Restrict(owner, DOMAIN owner \ {key[r]})
  /\ UNCHANGED <<ringVars, clock, attached, key, rwbs, ts, collided, issuedAt, storedAt, held,
                 unseen, untimed, missed>>

(* The clock is read again, the operation classified and the sample        *)
(* submitted, or dropped: one step, as the probe's last helpers share      *)
(* nothing with other probes but the ring, where samples queue up in the   *)
(* order of their reservations.                                            *)
EmitSample(r) ==
  /\ phase[r] = "timed"
  /\ phase' = [phase EXCEPT ![r] = "done"]
  /\ \/ \E stale \in SUBSET {"F", "A"} :
          Submit([op     |-> Classify(rwbs[r], stale),
                  ns     |-> SaturatingSub(clock, ts[r]),
                  req    |-> r,
                  from   |-> held[r],
                  trueNs |-> SaturatingSub(clock, issuedAt[r])])
     \/ ReserveFails
  /\ UNCHANGED <<clock, attached, key, rwbs, ts, inflight, history>>

(* The loader's use of the ring: it takes a sample out, or handles the     *)
(* readiness of the descriptor.                                            *)
LoaderConsumes ==
  /\ Consume \/ TakeGuard \/ ClearReady
  /\ UNCHANGED <<clock, attached, probeVars, history>>

IssueProbe(r)    == Issue(r) \/ StoreTimestamp(r)
CompleteProbe(r) == CompleteUntraced(r) \/ LookUp(r) \/ DeleteEntry(r) \/ EmitSample(r)

Next ==
  \/ TimePasses
  \/ \E p \in Program : Attach(p)
  \/ \E r \in Request : IssueProbe(r) \/ CompleteProbe(r)
  \/ LoaderConsumes

Spec == Init /\ [][Next]_vars

-----------------------------------------------------------------------------
TypeOK ==
  /\ ring \in Seq(Sample) /\ Len(ring) <= RingCap
  /\ ready \in BOOLEAN /\ fresh \in BOOLEAN
  /\ clock \in 0 .. MaxTime
  /\ collided \in BOOLEAN
  /\ attached \in {{}, {"issue"}, Program}
  /\ phase \in [Request -> {"new", "issuing", "device", "found", "timed", "done"}]
  /\ key \in [Request -> Key] /\ rwbs \in [Request -> Rwbs]
  /\ ts \in [Request -> 0 .. MaxTime]
  /\ DOMAIN inflight \subseteq Key
  /\ \A k \in DOMAIN inflight : inflight[k] \in 0 .. MaxTime
  /\ Cardinality(DOMAIN inflight) <= MaxEntries
  /\ issuedAt \in [Request -> 0 .. MaxTime] /\ storedAt \in [Request -> 0 .. MaxTime]
  /\ DOMAIN owner = DOMAIN inflight
  /\ \A k \in DOMAIN owner : owner[k] \in Request
  /\ held \in [Request -> Request \cup {None}]
  /\ unseen \subseteq Request /\ untimed \subseteq Request /\ missed \subseteq Request

(* A sample is never computed from a leftover timestamp.  Even when keys   *)
(* collide, the map is full or the programs are still being attached, the  *)
(* timestamp block_rq_complete used was stored no earlier than the request *)
(* it completes was issued: a sample can be too short, and can exceed the  *)
(* truth only by the run time of an issue probe.                           *)
SampleNotStale ==
  \A i \in 1 .. Len(ring) : storedAt[ring[i].from] >= issuedAt[ring[i].req]

(* As long as keys identify the requests in flight (RqKey, ebpf-common     *)
(* lib.rs:85), every sample is the completed request's own, measured from  *)
(* its own issue, and does not overstate its latency.                      *)
SampleIsOwn ==
  ~collided =>
    \A i \in 1 .. Len(ring) :
      ring[i].from = ring[i].req /\ ring[i].ns <= ring[i].trueNs

(* Likewise, a completion finds no timestamp only because none was         *)
(* ever stored for it: issued before the program was attached, or refused  *)
(* by a full map.  No other request's completion can take it away.         *)
MissIsExplained == ~collided => missed \subseteq untimed

(* INFLIGHT keeps no entry for a request that is gone, except for requests *)
(* that completed while block_rq_issue was attached and block_rq_complete  *)
(* was not.                                                                *)
NoLeak ==
  \A k \in DOMAIN inflight :
    \/ \E r \in Request : key[r] = k /\ InFlight(r)
    \/ owner[k] \in unseen
=============================================================================
