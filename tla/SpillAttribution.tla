--------------------------- MODULE SpillAttribution ---------------------------
(***************************************************************************)
(* The storage.temp_spill.attribution rule: the openat and unlinkat probes *)
(* of pgsleuth-ebpf (capture_file_syscall), the TEMP_FILE_EVENTS ring and  *)
(* the loader's temp-file arm, from start-up on.                           *)
(*                                                                         *)
(* A probe filters by PID alone and submits pid and path; the loader keeps *)
(* the paths below pgsql_tmp and reports each (pid, path) once.  A path    *)
(* whose page is not in memory is read as empty.                           *)
(***************************************************************************)
EXTENDS LoaderStartup, LatencyRing

CONSTANTS
  SpillPath,    \* paths that contain pgsql_tmp
  OtherPath,    \* paths that do not
  NoPath,       \* the empty path
  MaxSyscalls   \* bound: openat and unlinkat calls made

Path == SpillPath \cup OtherPath

ASSUME SpillAssumption ==
  /\ SpillPath \cap OtherPath = {} /\ NoPath \notin Path
  /\ MaxSyscalls \in Nat

VARIABLES
  pc,        \* the temp-file arm: "select", "draining", "clearing"; or "stopped"
  seen,      \* seen_spills
  findings,  \* the Findings handed to the emitter
  \* history, for the properties only
  calls,     \* syscalls made
  captured,  \* the (pid, path) of the spills the probes submitted
  ignored    \* those the PID filter passed over, once the loader was running

armVars  == <<pc, seen, findings>>
histVars == <<calls, captured, ignored>>
vars == <<startupVars, ringVars, armVars, histVars>>

Init ==
  /\ StartupInit /\ RingInit
  /\ pc = "select" /\ seen = {} /\ findings = <<>>
  /\ calls = 0 /\ captured = {} /\ ignored = {}

Start == Startup /\ UNCHANGED <<ringVars, armVars, histVars>>

-----------------------------------------------------------------------------
PassPidFilter(p) == filter.pid \in {Off, p}

SpillOf(p, path) == IF path \in SpillPath THEN {<<p, path>>} ELSE {}

(* capture_file_syscall submits an event, with the path or without it, or  *)
(* the reserve fails.                                                      *)
Capture(p, syscall, path) ==
  \/ /\ Submit([pid |-> p, syscall |-> syscall, path |-> path])
     /\ captured' = captured \cup SpillOf(p, path)
  \/ /\ \/ Submit([pid |-> p, syscall |-> syscall, path |-> NoPath])
        \/ ReserveFails
     /\ UNCHANGED captured

(* A process enters openat or unlinkat. *)
FileSyscall(p, syscall, path) ==
  /\ calls < MaxSyscalls
  /\ calls' = calls + 1
  /\ IF Attached(syscall) /\ PassPidFilter(p)
     THEN Capture(p, syscall, path) /\ UNCHANGED ignored
     ELSE /\ ignored' = IF stage = "running" THEN ignored \cup SpillOf(p, path) ELSE ignored
          /\ UNCHANGED <<ringVars, captured>>
  /\ UNCHANGED <<startupVars, armVars>>

-----------------------------------------------------------------------------
BeginDrain ==
  /\ stage = "running"
  /\ pc = "select" /\ pc' = "draining"
  /\ TakeGuard
  /\ UNCHANGED <<startupVars, seen, findings, histVars>>

(* Mutant: one spill per process. *)
PidOnly(event) == <<event.pid>>

(* Mutant: opening and unlinking a file are two spills. *)
WithSyscall(event) == <<event.pid, event.path, event.syscall>>

Key(event) == <<event.pid, event.path>>

(* An event is consumed: other paths, and spills seen before, are passed   *)
(* over; a new one is reported.                                            *)
DrainOne ==
  LET event == Head(ring)
      isNew == event.path \in SpillPath /\ Key(event) \notin seen
  IN
  /\ pc = "draining"
  /\ Consume
  /\ seen' = IF isNew THEN seen \cup {Key(event)} ELSE seen
  /\ findings' = IF isNew THEN Append(findings, event) ELSE findings
  /\ UNCHANGED <<startupVars, pc, histVars>>

EndDrain ==
  /\ pc = "draining" /\ pc' = "clearing"
  /\ ring = <<>>
  /\ UNCHANGED <<startupVars, ringVars, seen, findings, histVars>>

ClearGuard ==
  /\ pc = "clearing" /\ pc' = "select"
  /\ ClearReady
  /\ UNCHANGED <<startupVars, seen, findings, histVars>>

Drain == BeginDrain \/ DrainOne \/ EndDrain \/ ClearGuard

(* Ctrl+C: the loop breaks and the programs are detached with the object.  *)
Interrupt ==
  /\ stage = "running" /\ stage' = "stopped"
  /\ pc = "select" /\ pc' = "stopped"
  /\ attached' = 0
  /\ UNCHANGED <<args, found, filter, ringVars, seen, findings, histVars>>

Next ==
  \/ Start
  \/ \E p \in Process, syscall \in {"openat", "unlinkat"}, path \in Path :
       FileSyscall(p, syscall, path)
  \/ Drain \/ Interrupt

Spec == Init /\ [][Next]_vars

Fairness ==
  /\ SF_vars(BeginDrain) /\ WF_vars(DrainOne) /\ WF_vars(EndDrain) /\ WF_vars(ClearGuard)

FairSpec == Spec /\ Fairness

-----------------------------------------------------------------------------
Reported == {<<findings[i].pid, findings[i].path>> : i \in DOMAIN findings}
InRing   == {<<ring[i].pid, ring[i].path>> : i \in DOMAIN ring}

(* README.md:35, "once per unique (pid, path)": however a file's opens and *)
(* unlinks are spread over drains, it is reported once.                    *)
OncePerSpill ==
  \A i, j \in DOMAIN findings :
    findings[i].pid = findings[j].pid /\ findings[i].path = findings[j].path => i = j

(* No spill gets lost between the probe and the Finding: what was          *)
(* submitted has been reported or waits in the ring, and a reported spill  *)
(* was submitted.                                                          *)
SpillsAccounted ==
  /\ captured \subseteq Reported \cup InRing
  /\ Reported \subseteq captured

(* A process given with --pid, or else the postmaster that was discovered, *)
(* is the only one ever reported, also by the probes attached before       *)
(* start-up is over.  Others are reported only when the filter is off: by  *)
(* --pid 0, by --cgroup-id alone, or because no valid PID was discovered.  *)
OnlyTheChosenProcess ==
  \A i \in DOMAIN findings :
    \/ findings[i].pid = UnwrapOr(args.pid, Postmaster)
    \/ args.pid = Off
    \/ args.pid = None /\ (args.cgroup \/ found = None \/ found.pid = Negative)

(* Every captured spill is reported in the end, unless the loader stops.   *)
EverySpillReported ==
  \A p \in Process, path \in SpillPath :
    <<p, path>> \in captured /\ stage = "running"
      ~> <<p, path>> \in Reported \/ stage = "stopped"

(* README.md:35, "any pgsql_tmp/ file creation from the postmaster's PID   *)
(* tree": with the discovered default, the spills of the postmaster's      *)
(* children are seen like its own.                                         *)
PidTreeWatched ==
  args.pid = None /\ ~args.cgroup /\ found # None =>
    \A spill \in ignored : spill[1] \notin Backends \cup {Postmaster}
=============================================================================
