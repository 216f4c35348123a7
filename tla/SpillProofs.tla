------------------------------ MODULE SpillProofs ------------------------------
(***************************************************************************)
(* Proofs about the loader's start-up and its temp-file spill arm, for any *)
(* set of processes and paths, any ring and any number of system calls,    *)
(* with probes attached one by one while processes are already running.    *)
(***************************************************************************)
EXTENDS SpillAttribution, TLAPS

-----------------------------------------------------------------------------
(* The inductive invariant.                                                *)

Event == [pid : Process, syscall : {"openat", "unlinkat"}, path : Path \cup {NoPath}]

(* The (pid, path) of the events of a sequence. *)
PairsOf(s) == {<<s[i].pid, s[i].path>> : i \in DOMAIN s}

Spills == Process \X SpillPath

TypeInv ==
  /\ args \in Args
  /\ found \in [pid : {Postmaster, Negative}, dev : {WalDevice, None}] \cup {None}
  /\ attached \in Nat
  /\ stage \in {"discovering", "loading", "configured", "running", "failed", "stopped"}
  /\ ring \in Seq(Event) /\ findings \in Seq(Event)
  /\ captured \subseteq Spills

(* Discovery is over when the map is written, and the map is written when  *)
(* the first program is attached.                                          *)
FilterInv ==
  /\ stage \in {"discovering", "loading", "failed"} => attached = 0
  /\ stage \in {"configured", "running", "stopped"} =>
       filter = [pid |-> UnwrapOr(ResolvePidFilter, Off), dev |-> EffectiveDev]
  /\ stage = "discovering" => ring = <<>> /\ findings = <<>>

(* The processes that may be reported. *)
Chosen(p) ==
  \/ p = UnwrapOr(args.pid, Postmaster)
  \/ args.pid = Off
  \/ args.pid = None /\ (args.cgroup \/ found = None \/ found.pid = Negative)

ChosenInv == \A k \in PairsOf(ring) \cup PairsOf(findings) : Chosen(k[1])

(* A spill is in `seen` when it has been reported, and not before. *)
SeenInv == seen = PairsOf(findings) /\ OncePerSpill

(* What the probes submitted is what was reported and what waits. *)
AccountInv ==
  /\ captured \subseteq PairsOf(findings) \cup PairsOf(ring)
  /\ PairsOf(findings) \subseteq captured
  /\ PairsOf(ring) \cap Spills \subseteq captured

IInv == TypeInv /\ FilterInv /\ ChosenInv /\ SeenInv /\ AccountInv

-----------------------------------------------------------------------------
LEMMA PairsMean ==
  ASSUME NEW s \in Seq(Event), NEW k
  PROVE  k \in PairsOf(s) <=> \E i \in 1 .. Len(s) : k = <<s[i].pid, s[i].path>>
BY DEF PairsOf

LEMMA AppendPairs ==
  ASSUME NEW s \in Seq(Event), NEW e \in Event
  PROVE  /\ Append(s, e) \in Seq(Event)
         /\ PairsOf(Append(s, e)) = PairsOf(s) \cup {<<e.pid, e.path>>}
<1> DEFINE a == Append(s, e)
<1>1. /\ a \in Seq(Event) /\ Len(s) \in Nat /\ Len(a) = Len(s) + 1 /\ a[Len(s) + 1] = e
      /\ \A i \in 1 .. Len(s) : a[i] = s[i]
  OBVIOUS
<1> HIDE DEF a
<1>2. /\ \A i \in 1 .. Len(a) : i \in 1 .. Len(s) \/ i = Len(s) + 1
      /\ \A i \in 1 .. Len(s) : i \in 1 .. Len(a)
      /\ Len(s) + 1 \in 1 .. Len(a)
  BY <1>1
<1>3. ASSUME NEW k \in PairsOf(a) PROVE k \in PairsOf(s) \cup {<<e.pid, e.path>>}
  BY <1>1, <1>2, PairsMean
<1>4. ASSUME NEW k \in PairsOf(s) PROVE k \in PairsOf(a)
  <2>1. PICK i \in 1 .. Len(s) : k = <<s[i].pid, s[i].path>>
    BY PairsMean
  <2>2. i \in 1 .. Len(a) /\ a[i] = s[i]
    BY <1>1, <1>2
  <2>3. QED
    BY <1>1, <2>1, <2>2, PairsMean
<1>5. <<e.pid, e.path>> \in PairsOf(a)
  BY <1>1, <1>2, PairsMean
<1>6. QED
  BY <1>1, <1>3, <1>4, <1>5 DEF a

LEMMA TailPairs ==
  ASSUME NEW s \in Seq(Event), s # <<>>
  PROVE  /\ Head(s) \in Event /\ Tail(s) \in Seq(Event)
         /\ PairsOf(s) = PairsOf(Tail(s)) \cup {<<Head(s).pid, Head(s).path>>}
<1> DEFINE t == Tail(s)
<1>1. /\ Head(s) \in Event /\ t \in Seq(Event) /\ Head(s) = s[1]
      /\ Len(s) \in Nat /\ Len(s) > 0 /\ Len(t) = Len(s) - 1
      /\ \A i \in 1 .. Len(s) - 1 : t[i] = s[i + 1]
  OBVIOUS
<1> HIDE DEF t
<1>2. ASSUME NEW k \in PairsOf(s) PROVE k \in PairsOf(t) \cup {<<s[1].pid, s[1].path>>}
  <2>1. PICK i \in 1 .. Len(s) : k = <<s[i].pid, s[i].path>>
    BY PairsMean
  <2>2. CASE i = 1
    BY <2>1, <2>2
  <2>3. CASE i # 1
    <3>1. i - 1 \in 1 .. Len(s) - 1 /\ (i - 1) + 1 = i
      BY <1>1, <2>3
    <3>2. t[i - 1] = s[i]
      BY <1>1, <3>1
    <3>3. QED
      BY <1>1, <2>1, <3>1, <3>2, PairsMean
  <2>4. QED
    BY <2>2, <2>3
<1>3. ASSUME NEW k \in PairsOf(t) PROVE k \in PairsOf(s)
  <2>1. PICK i \in 1 .. Len(t) : k = <<t[i].pid, t[i].path>>
    BY <1>1, PairsMean
  <2>2. i + 1 \in 1 .. Len(s) /\ t[i] = s[i + 1]
    BY <1>1
  <2>3. QED
    BY <2>1, <2>2, PairsMean
<1>4. <<s[1].pid, s[1].path>> \in PairsOf(s)
  <2>1. 1 \in 1 .. Len(s)
    BY <1>1
  <2>2. QED
    BY <2>1, PairsMean
<1>5. QED
  BY <1>1, <1>2, <1>3, <1>4 DEF t

(* What PassPidFilter lets through is what the command line asks for. *)
LEMMA FilterChooses ==
  ASSUME TypeInv, filter = [pid |-> UnwrapOr(ResolvePidFilter, Off), dev |-> EffectiveDev],
         NEW p, PassPidFilter(p)
  PROVE  Chosen(p)
<1>1. filter.pid = UnwrapOr(ResolvePidFilter, Off) /\ filter.pid \in {Off, p}
  BY DEF PassPidFilter
<1>2. CASE args.pid # None
  BY <1>1, <1>2 DEF ResolvePidFilter, UnwrapOr, Chosen
<1>3. CASE args.pid = None /\ ~args.cgroup /\ found # None /\ found.pid # Negative
  <2>1. found.pid = Postmaster /\ Postmaster \notin {None, Off, Negative}
    BY <1>3, StartupAssumption DEF TypeInv, Process
  <2>2. UnwrapOr(ResolvePidFilter, Off) = Postmaster
    BY <1>3, <2>1 DEF ResolvePidFilter, UnwrapOr, TryFrom
  <2>3. QED
    BY <1>1, <1>3, <2>1, <2>2 DEF Chosen, UnwrapOr
<1>4. QED
  BY <1>2, <1>3 DEF Chosen

-----------------------------------------------------------------------------
LEMMA InitIInv ==
  ASSUME Init
  PROVE  IInv
<1>1. /\ args \in Args /\ found = None /\ attached = 0 /\ stage = "discovering"
      /\ ring = <<>> /\ findings = <<>> /\ seen = {} /\ captured = {}
  BY DEF Init, StartupInit, RingInit
<1>2. PairsOf(ring) = {} /\ PairsOf(findings) = {}
  BY <1>1 DEF PairsOf
<1>3. TypeInv /\ FilterInv
  BY <1>1 DEF TypeInv, FilterInv
<1>4. ChosenInv /\ SeenInv /\ AccountInv
  BY <1>1, <1>2 DEF ChosenInv, SeenInv, AccountInv, OncePerSpill
<1>5. QED
  BY <1>3, <1>4 DEF IInv

(* Start-up writes the map before it attaches, and asks before it writes.  *)
LEMMA StartKeeps ==
  ASSUME IInv, Start
  PROVE  IInv'
<1>1. UNCHANGED <<ring, findings, seen, captured, args>>
  BY DEF Start, Startup, Discover, Configure, AttachNext, TakeRings, StartupFails,
         ringVars, armVars, histVars
<1>2. PairsOf(ring)' = PairsOf(ring) /\ PairsOf(findings)' = PairsOf(findings)
  BY <1>1 DEF PairsOf
<1>3. SeenInv' /\ AccountInv'
  BY <1>1, <1>2 DEF IInv, SeenInv, AccountInv, OncePerSpill, Spills
<1>4. TypeInv' /\ FilterInv' /\ (found' = found \/ (ring = <<>> /\ findings = <<>>))
  <2>1. CASE Discover
    BY <1>1, <2>1 DEF IInv, TypeInv, FilterInv, Discover
  <2>2. CASE Configure
    BY <1>1, <2>2 DEF IInv, TypeInv, FilterInv, Configure, ResolvePidFilter, EffectiveDev, UnwrapOr, TryFrom
  <2>3. CASE AttachNext
    BY <1>1, <2>3 DEF IInv, TypeInv, FilterInv, AttachNext, ResolvePidFilter, EffectiveDev, UnwrapOr, TryFrom
  <2>4. CASE TakeRings
    BY <1>1, <2>4 DEF IInv, TypeInv, FilterInv, TakeRings, ResolvePidFilter, EffectiveDev, UnwrapOr, TryFrom
  <2>5. CASE StartupFails
    BY <1>1, <2>5 DEF IInv, TypeInv, FilterInv, StartupFails
  <2>6. QED
    BY <2>1, <2>2, <2>3, <2>4, <2>5 DEF Start, Startup
<1>5. ChosenInv'
  <2>1. CASE found' = found
    BY <1>1, <1>2, <2>1 DEF IInv, ChosenInv, Chosen, UnwrapOr
  <2>2. CASE ring = <<>> /\ findings = <<>>
    <3>1. PairsOf(ring)' = {} /\ PairsOf(findings)' = {}
      BY <1>2, <2>2 DEF PairsOf
    <3>2. QED
      BY <3>1 DEF ChosenInv
  <2>3. QED
    BY <1>4, <2>1, <2>2
<1>6. QED
  BY <1>3, <1>4, <1>5 DEF IInv

(* A probe submits events of chosen processes only, and every spill it     *)
(* submits with its path is accounted for.                                 *)
LEMMA SyscallKeeps ==
  ASSUME IInv, NEW p \in Process, NEW syscall \in {"openat", "unlinkat"}, NEW path \in Path,
         FileSyscall(p, syscall, path)
  PROVE  IInv'
<1>1. UNCHANGED <<args, found, filter, attached, stage, findings, seen>>
  BY DEF FileSyscall, startupVars, armVars
<1>2. PairsOf(findings)' = PairsOf(findings)
  BY <1>1 DEF PairsOf
<1>3. SeenInv'
  BY <1>1, <1>2 DEF IInv, SeenInv, OncePerSpill
<1>4. ASSUME ring' = ring, captured' = captured PROVE IInv'
  <2>1. PairsOf(ring)' = PairsOf(ring)
    BY <1>4 DEF PairsOf
  <2>2. TypeInv' /\ FilterInv'
    BY <1>1, <1>4 DEF IInv, TypeInv, FilterInv, ResolvePidFilter, EffectiveDev, UnwrapOr, TryFrom
  <2>3. ChosenInv' /\ AccountInv'
    BY <1>1, <1>2, <1>4, <2>1 DEF IInv, ChosenInv, Chosen, AccountInv, Spills
  <2>4. QED
    BY <1>3, <2>2, <2>3 DEF IInv
<1>5. ASSUME Attached(syscall), PassPidFilter(p), NEW x \in Path \cup {NoPath},
             Submit([pid |-> p, syscall |-> syscall, path |-> x]),
             \/ x = path /\ captured' = captured \cup SpillOf(p, path)
             \/ x = NoPath /\ captured' = captured
      PROVE  IInv'
  <2> DEFINE e == [pid |-> p, syscall |-> syscall, path |-> x]
  <2>1. e \in Event /\ e.pid = p /\ e.path = x /\ ring \in Seq(Event) /\ ring' = Append(ring, e)
    BY <1>5 DEF Event, Submit, IInv, TypeInv
  <2> HIDE DEF e
  <2>2. ring' \in Seq(Event) /\ PairsOf(ring') = PairsOf(ring) \cup {<<p, x>>}
    BY <2>1, AppendPairs
  <2>3. PairsOf(ring)' = PairsOf(ring')
    BY DEF PairsOf
  <2>4. attached # 0
    BY <1>5 DEF IInv, TypeInv, Attached
  <2>5. stage \notin {"discovering", "loading", "failed"}
    BY <2>4 DEF IInv, FilterInv
  <2>6. NoPath \notin SpillPath
    BY SpillAssumption DEF Path
  <2>7. <<p, path>> \in Spills <=> path \in SpillPath
    BY DEF Spills
  <2>8. /\ captured' \subseteq Spills
        /\ captured' \subseteq captured \cup {<<p, x>>} /\ captured \subseteq captured'
        /\ <<p, x>> \in Spills => <<p, x>> \in captured'
    <3>1. CASE x = path /\ captured' = captured \cup SpillOf(p, path)
      BY <2>7, <3>1 DEF SpillOf, IInv, TypeInv
    <3>2. CASE x = NoPath /\ captured' = captured
      BY <2>6, <3>2 DEF Spills, IInv, TypeInv
    <3>3. QED
      BY <1>5, <3>1, <3>2
  <2>9. TypeInv'
    BY <1>1, <2>2, <2>8 DEF IInv, TypeInv
  <2>10. FilterInv'
    BY <1>1, <2>5 DEF IInv, FilterInv, ResolvePidFilter, EffectiveDev, UnwrapOr, TryFrom
  <2>11. AccountInv'
    BY <1>1, <1>2, <2>2, <2>3, <2>8 DEF IInv, AccountInv, Spills
  <2>12. ChosenInv'
    <3>1. CASE stage \in {"configured", "running", "stopped"}
      <4>1. Chosen(p)
        BY <1>5, <3>1, FilterChooses DEF IInv, FilterInv
      <4>2. \A k \in PairsOf(ring') \cup PairsOf(findings) : Chosen(k[1])
        BY <2>2, <4>1 DEF IInv, ChosenInv
      <4>3. QED
        BY <1>1, <1>2, <2>3, <4>2 DEF ChosenInv, Chosen
    <3>2. QED
      BY <2>5, <3>1 DEF IInv, TypeInv
  <2>13. QED
    BY <1>3, <2>9, <2>10, <2>11, <2>12 DEF IInv
<1>6. QED
  <2>1. CASE ~(Attached(syscall) /\ PassPidFilter(p))
    BY <1>4, <2>1 DEF FileSyscall, ringVars
  <2>2. CASE Attached(syscall) /\ PassPidFilter(p)
    <3>1. \/ Submit([pid |-> p, syscall |-> syscall, path |-> path])
             /\ captured' = captured \cup SpillOf(p, path)
          \/ Submit([pid |-> p, syscall |-> syscall, path |-> NoPath]) /\ captured' = captured
          \/ ring' = ring /\ captured' = captured
      BY <2>2 DEF FileSyscall, Capture, ReserveFails, ringVars
    <3>2. QED
      BY <1>4, <1>5, <2>2, <3>1
  <2>3. QED
    BY <2>1, <2>2

(* Consuming an event reports it, finds it reported, or drops a path that  *)
(* is no spill.                                                            *)
LEMMA DrainKeeps ==
  ASSUME IInv, DrainOne
  PROVE  IInv'
<1> DEFINE e == Head(ring)
           k == <<e.pid, e.path>>
<1>1. /\ UNCHANGED <<args, found, filter, attached, stage, captured>>
      /\ ring # <<>> /\ ring' = Tail(ring)
  BY DEF DrainOne, Consume, startupVars, histVars
<1>2. \/ e.path \in SpillPath /\ k \notin seen /\ seen' = seen \cup {k} /\ findings' = Append(findings, e)
      \/ (e.path \notin SpillPath \/ k \in seen) /\ seen' = seen /\ findings' = findings
  BY DEF DrainOne, Key
<1>3. ring \in Seq(Event) /\ findings \in Seq(Event) /\ captured \subseteq Spills
  BY DEF IInv, TypeInv
<1>4. /\ e \in Event /\ ring' \in Seq(Event)
      /\ PairsOf(ring) = PairsOf(ring') \cup {k}
  BY <1>1, <1>3, TailPairs
<1> HIDE DEF e
<1>5. e.path \in SpillPath <=> k \in Spills
  BY <1>4 DEF Spills, Event
<1> HIDE DEF k
<1>6. PairsOf(ring)' = PairsOf(ring') /\ PairsOf(findings)' = PairsOf(findings')
  BY DEF PairsOf
<1>7. FilterInv'
  BY <1>1 DEF IInv, FilterInv, ResolvePidFilter, EffectiveDev, UnwrapOr, TryFrom
<1>8. ASSUME findings' \in Seq(Event), PairsOf(findings') \subseteq PairsOf(ring) \cup PairsOf(findings)
      PROVE  TypeInv' /\ ChosenInv'
  <2>1. TypeInv'
    BY <1>1, <1>4, <1>8 DEF IInv, TypeInv
  <2>2. \A x \in PairsOf(ring') \cup PairsOf(findings') : Chosen(x[1])
    BY <1>4, <1>8 DEF IInv, ChosenInv
  <2>3. QED
    BY <1>1, <1>6, <2>1, <2>2 DEF ChosenInv, Chosen
<1>9. CASE e.path \in SpillPath /\ k \notin seen /\ seen' = seen \cup {k} /\ findings' = Append(findings, e)
  <2>1. findings' \in Seq(Event) /\ PairsOf(findings') = PairsOf(findings) \cup {k}
    BY <1>3, <1>4, <1>9, AppendPairs DEF k
  <2>2. TypeInv' /\ ChosenInv'
    BY <1>4, <1>8, <2>1
  <2>3. AccountInv'
    BY <1>1, <1>4, <1>5, <1>6, <1>9, <2>1 DEF IInv, AccountInv, Spills
  <2>4. OncePerSpill'
    <3>1. /\ Len(findings) \in Nat /\ Len(findings') = Len(findings) + 1
          /\ findings'[Len(findings) + 1] = e
          /\ \A i \in 1 .. Len(findings) : findings'[i] = findings[i]
          /\ DOMAIN findings' = 1 .. Len(findings) + 1
      BY <1>3, <1>4, <1>9
    <3>2. \A i \in 1 .. Len(findings) : <<findings[i].pid, findings[i].path>> # <<e.pid, e.path>>
      BY <1>3, <1>9, PairsMean DEF IInv, SeenInv, k
    <3>3. \A i, j \in 1 .. Len(findings) :
            findings[i].pid = findings[j].pid /\ findings[i].path = findings[j].path => i = j
      BY <1>3 DEF IInv, SeenInv, OncePerSpill
    <3>4. \A i \in 1 .. Len(findings) + 1 : i \in 1 .. Len(findings) \/ i = Len(findings) + 1
      BY <3>1
    <3>5. QED
      BY <3>1, <3>2, <3>3, <3>4 DEF OncePerSpill
  <2>5. SeenInv'
    BY <1>6, <1>9, <2>1, <2>4 DEF IInv, SeenInv
  <2>6. QED
    BY <1>7, <2>2, <2>3, <2>5 DEF IInv
<1>10. CASE (e.path \notin SpillPath \/ k \in seen) /\ seen' = seen /\ findings' = findings
  <2>1. TypeInv' /\ ChosenInv'
    BY <1>3, <1>8, <1>10
  <2>2. AccountInv'
    BY <1>1, <1>3, <1>4, <1>5, <1>6, <1>10 DEF IInv, AccountInv, SeenInv, Spills
  <2>3. SeenInv'
    BY <1>6, <1>10 DEF IInv, SeenInv, OncePerSpill
  <2>4. QED
    BY <1>7, <2>1, <2>2, <2>3 DEF IInv
<1>11. QED
  BY <1>2, <1>9, <1>10

LEMMA NextKeeps ==
  ASSUME IInv, [Next]_vars
  PROVE  IInv'
<1>1. ASSUME UNCHANGED <<args, found, filter, ring, findings, seen, captured>>,
             \/ attached' = attached /\ stage' = stage
             \/ attached' = 0 /\ stage = "running" /\ stage' = "stopped"
      PROVE  IInv'
  <2>1. PairsOf(ring)' = PairsOf(ring) /\ PairsOf(findings)' = PairsOf(findings)
    BY <1>1 DEF PairsOf
  <2>2. TypeInv' /\ FilterInv'
    BY <1>1 DEF IInv, TypeInv, FilterInv, ResolvePidFilter, EffectiveDev, UnwrapOr, TryFrom
  <2>3. ChosenInv' /\ SeenInv' /\ AccountInv'
    BY <1>1, <2>1 DEF IInv, ChosenInv, Chosen, UnwrapOr, SeenInv, OncePerSpill, AccountInv, Spills
  <2>4. QED
    BY <2>2, <2>3 DEF IInv
<1>2. CASE BeginDrain \/ EndDrain \/ ClearGuard
  BY <1>1, <1>2 DEF BeginDrain, EndDrain, ClearGuard, TakeGuard, ClearReady, startupVars,
                    ringVars, histVars
<1>3. CASE Interrupt
  BY <1>1, <1>3 DEF Interrupt, ringVars, histVars
<1>4. CASE Start
  BY <1>4, StartKeeps
<1>5. CASE DrainOne
  BY <1>5, DrainKeeps
<1>6. ASSUME NEW p \in Process, NEW syscall \in {"openat", "unlinkat"}, NEW path \in Path,
             FileSyscall(p, syscall, path)
      PROVE  IInv'
  BY <1>6, SyscallKeeps
<1>7. CASE UNCHANGED vars
  BY <1>1, <1>7 DEF vars, startupVars, ringVars, armVars, histVars
<1>8. QED
  BY <1>2, <1>3, <1>4, <1>5, <1>6, <1>7 DEF Next, Drain

(* The inductive invariant holds from start-up to Ctrl+C. *)
THEOREM SpillInvariance == Spec => []IInv
<1>1. Init => IInv
  BY InitIInv
<1>2. IInv /\ [Next]_vars => IInv'
  BY NextKeeps
<1>3. QED
  BY <1>1, <1>2, PTL DEF Spec

(* main of the loader: every attached program runs under the filter the    *)
(* command line and discovery ask for, from its first event on, for every  *)
(* --pid and --dev-t (0 included), and for a PID that is rejected or a     *)
(* device that is not parsed.                                              *)
THEOREM FilterBeforePrograms == Spec => []ProgramsSeeTheFilter
<1>1. IInv => ProgramsSeeTheFilter
  <2>1. SUFFICES ASSUME IInv, attached > 0 PROVE ProgramsSeeTheFilter
    BY DEF ProgramsSeeTheFilter
  <2>2. CASE stage \in {"configured", "running", "stopped"}
    <3>1. filter = [pid |-> UnwrapOr(ResolvePidFilter, Off), dev |-> EffectiveDev]
      BY <2>1, <2>2 DEF IInv, FilterInv
    <3>2. found # None => found.pid \in {Postmaster, Negative}
      BY <2>1 DEF IInv, TypeInv
    <3>3. Postmaster \in Process /\ Negative \notin Process /\ Postmaster # None
      BY StartupAssumption DEF Process
    <3>4. args.pid = None =>
            UnwrapOr(ResolvePidFilter, Off)
              = IF ~args.cgroup /\ found # None /\ found.pid \in Process
                THEN found.pid ELSE Off
      BY <3>2, <3>3 DEF ResolvePidFilter, UnwrapOr, TryFrom
    <3>5. args.pid # None => UnwrapOr(ResolvePidFilter, Off) = args.pid
      BY DEF ResolvePidFilter, UnwrapOr
    <3>6. QED
      BY <3>1, <3>4, <3>5 DEF ProgramsSeeTheFilter, EffectiveDev, UnwrapOr
  <2>3. QED
    BY <2>1, <2>2 DEF IInv, TypeInv, FilterInv
<1>2. QED
  BY <1>1, SpillInvariance, PTL

(* seen_spills: a (pid, path) is reported once, however its opens and      *)
(* unlinks are spread over drains.                                         *)
THEOREM ReportedOnce == Spec => []OncePerSpill
<1>1. IInv => OncePerSpill
  BY DEF IInv, SeenInv
<1>2. QED
  BY <1>1, SpillInvariance, PTL

(* From the probe's submit to the Finding no spill gets lost, and none is  *)
(* made up.                                                                *)
THEOREM NoSpillUnaccounted == Spec => []SpillsAccounted
<1>1. IInv => SpillsAccounted
  BY DEF IInv, AccountInv, SpillsAccounted, Reported, InRing, PairsOf
<1>2. QED
  BY <1>1, SpillInvariance, PTL

(* Only the process the filter is for is ever reported, also by the probes *)
(* attached before start-up was over, unless the filter is off: by --pid 0,*)
(* by --cgroup-id alone, or for want of a valid PID.                       *)
THEOREM ChosenProcessOnly == Spec => []OnlyTheChosenProcess
<1>1. IInv => OnlyTheChosenProcess
  <2>1. SUFFICES ASSUME IInv, NEW i \in DOMAIN findings PROVE Chosen(findings[i].pid)
    BY DEF OnlyTheChosenProcess, Chosen
  <2>2. <<findings[i].pid, findings[i].path>> \in PairsOf(findings)
    BY <2>1 DEF PairsOf
  <2>3. QED
    BY <2>1, <2>2 DEF IInv, ChosenInv
<1>2. QED
  BY <1>1, SpillInvariance, PTL

-----------------------------------------------------------------------------
(* The safety half of "every spill is reported".                           *)

(* Between the end of a drain and clear_ready, an event in the ring has    *)
(* raised a signal that clear_ready will keep; probes attached during      *)
(* start-up have raised theirs before the loop begins.                     *)
WakeInv ==
  /\ pc = "select" /\ ring # <<>> => ready
  /\ pc = "clearing" /\ ring # <<>> => fresh

LEMMA WakeKeeps ==
  ASSUME WakeInv, [Next]_vars
  PROVE  WakeInv'
<1>1. ASSUME UNCHANGED <<pc, ring, ready, fresh>> PROVE WakeInv'
  BY <1>1 DEF WakeInv
<1>2. CASE Start \/ UNCHANGED vars
  BY <1>1, <1>2 DEF Start, vars, ringVars, armVars
<1>3. ASSUME NEW p \in Process, NEW syscall \in {"openat", "unlinkat"}, NEW path \in Path,
             FileSyscall(p, syscall, path)
      PROVE  WakeInv'
  <2>1. pc' = pc
    BY <1>3 DEF FileSyscall, armVars
  <2>2. \/ UNCHANGED <<ring, ready, fresh>>
        \/ ready' = (ready \/ ring = <<>>) /\ fresh' = (fresh \/ ring = <<>>)
    BY <1>3 DEF FileSyscall, Capture, Submit, ReserveFails, ringVars
  <2>3. QED
    BY <2>1, <2>2 DEF WakeInv
<1>4. CASE BeginDrain
  BY <1>4 DEF WakeInv, BeginDrain
<1>5. CASE DrainOne
  BY <1>5 DEF WakeInv, DrainOne
<1>6. CASE EndDrain
  BY <1>6 DEF WakeInv, EndDrain, ringVars
<1>7. CASE ClearGuard
  BY <1>7 DEF WakeInv, ClearGuard, ClearReady
<1>8. CASE Interrupt
  BY <1>8 DEF WakeInv, Interrupt
<1>9. QED
  BY <1>2, <1>3, <1>4, <1>5, <1>6, <1>7, <1>8 DEF Next, Drain

(* A captured spill that is not reported yet keeps the loader awake: when  *)
(* the temp-file arm of main.rs is back in select!, either nothing waits   *)
(* or the arm is ready, for any ring capacity and whatever the probes      *)
(* submit during start-up, a drain or clear_ready.                         *)
THEOREM CapturedSpillsAwaken ==
  Spec => [](pc = "select" /\ ~(captured \subseteq Reported) => ready)
<1>1. Init => WakeInv
  BY DEF Init, RingInit, WakeInv
<1>2. IInv /\ WakeInv => (pc = "select" /\ ~(captured \subseteq Reported) => ready)
  <2>1. SUFFICES ASSUME IInv, WakeInv, pc = "select", ~(captured \subseteq Reported)
                 PROVE  ready
    OBVIOUS
  <2>2. captured \subseteq PairsOf(findings) \cup PairsOf(ring)
    BY <2>1 DEF IInv, AccountInv
  <2>3. PairsOf(findings) = Reported
    BY DEF PairsOf, Reported
  <2>4. PairsOf(ring) # {}
    BY <2>1, <2>2, <2>3
  <2>5. ring # <<>>
    <3>1. PairsOf(<<>>) = {}
      BY DEF PairsOf
    <3>2. QED
      BY <2>4, <3>1
  <2>6. QED
    BY <2>1, <2>5 DEF WakeInv
<1>3. QED
  BY <1>1, <1>2, WakeKeeps, SpillInvariance, PTL DEF Spec
=============================================================================
