---------------------------- MODULE LoaderStartup ----------------------------
(***************************************************************************)
(* How the loader gets from its command line to attached eBPF programs:    *)
(* main of pgsleuth-ebpf-loader/src/main.rs up to the select! loop.        *)
(*                                                                         *)
(* It asks Postgres for the postmaster's PID and the WAL device, which may *)
(* fail; writes FILTER_CONFIG; and attaches five programs one by one.  Any *)
(* later failure ends the process, which detaches what was attached.  A    *)
(* program runs from the moment it is attached, under whatever filter is   *)
(* in the map.                                                             *)
(***************************************************************************)
EXTENDS Naturals, Sequences

CONSTANTS
  Postmaster,   \* the postmaster's PID
  Backends,     \* the PIDs of its children
  Others,       \* PIDs of processes that are not Postgres
  WalDevice,    \* the dev_t that holds pg_wal
  OtherDevice,  \* another block device
  None,         \* an option that is absent
  Off,          \* the number 0: in FILTER_CONFIG, a filter that is off
  Negative,     \* a postmaster_pid below zero
  PidOptions,   \* what --pid may be
  DevOptions    \* what --dev-t may be

Process == {Postmaster} \cup Backends \cup Others

ASSUME StartupAssumption ==
  /\ Postmaster \notin Backends \cup Others /\ Backends \cap Others = {}
  /\ {None, Off, Negative} \cap (Process \cup {WalDevice, OtherDevice}) = {}
  /\ None # Off /\ None # Negative /\ Off # Negative
  /\ PidOptions \subseteq Process \cup {Off, None}
  /\ DevOptions \subseteq {WalDevice, OtherDevice, Off, None}

VARIABLES
  args,      \* --pid, --cgroup-id, --pg-conn, --dev-t
  found,     \* what discovery returned, or None
  filter,    \* FILTER_CONFIG; the map is zeroed, every filter off, when loaded
  attached,  \* how many of Programs are attached
  stage      \* "discovering", "loading", "configured", "running" or "failed"

startupVars == <<args, found, filter, attached, stage>>

(* In the order main attaches them. *)
Programs == <<"vfs_open", "block_rq_issue", "block_rq_complete", "openat", "unlinkat">>
Attached(program) == \E i \in 1 .. attached : Programs[i] = program

(* --cgroup-id names Postgres' cgroup when it is given. *)
Args == [pid : PidOptions, cgroup : BOOLEAN, conn : BOOLEAN, dev : DevOptions]

NoFilter == [pid |-> Off, dev |-> Off]

-----------------------------------------------------------------------------
(* Option::unwrap_or. *)
UnwrapOr(option, default) == IF option = None THEN default ELSE option

(* u32::try_from(pid).ok() of the i32 that Postgres returned.              *)
TryFrom(pid) == IF pid = Negative THEN None ELSE pid

(* Mutant: the cgroup is looked at first. *)
ResolveCgroupFirst ==
  CASE args.cgroup                      -> None
    [] ~args.cgroup /\ args.pid # None  -> args.pid
    [] OTHER                            -> IF found = None THEN None ELSE TryFrom(found.pid)

(* resolve_pid_filter: --pid wins, also --pid 0; --cgroup-id alone turns   *)
(* the PID filter off; the postmaster is the default, if its PID is one.   *)
ResolvePidFilter ==
  CASE args.pid # None               -> args.pid
    [] args.pid = None /\ args.cgroup -> None
    [] OTHER                         -> IF found = None THEN None ELSE TryFrom(found.pid)

(* Mutant: --dev-t 0 is taken for an absent option. *)
EffectiveDevOfZero ==
  IF args.dev \in {WalDevice, OtherDevice} THEN args.dev
  ELSE UnwrapOr(IF found = None THEN None ELSE found.dev, Off)

(* --dev-t wins over the discovered device, and --dev-t 0 turns it off;    *)
(* without either there is no filter.                                      *)
EffectiveDev ==
  UnwrapOr(args.dev, UnwrapOr(IF found = None THEN None ELSE found.dev, Off))

StartupInit ==
  /\ args \in Args
  /\ found = None
  /\ filter = NoFilter
  /\ attached = 0
  /\ stage = "discovering"

(* With --pg-conn '' nothing is asked.  A query that fails is logged and   *)
(* the loader goes on; a WAL device that cannot be parsed is dropped, and  *)
(* a negative PID when it is resolved.                                     *)
Discover ==
  /\ stage = "discovering" /\ stage' = "loading"
  /\ \/ found' = None
     \/ /\ args.conn
        /\ \E pid \in {Postmaster, Negative}, dev \in {WalDevice, None} :
             found' = [pid |-> pid, dev |-> dev]
  /\ UNCHANGED <<args, filter, attached>>

(* The object is loaded and FILTER_CONFIG set. *)
Configure ==
  /\ stage = "loading" /\ stage' = "configured"
  /\ filter' = [pid |-> UnwrapOr(ResolvePidFilter, Off), dev |-> EffectiveDev]
  /\ UNCHANGED <<args, found, attached>>

(* Mutant: programs are attached as soon as the object is loaded. *)
AttachEarly ==
  /\ stage \in {"loading", "configured"}
  /\ attached < Len(Programs)
  /\ attached' = attached + 1
  /\ UNCHANGED <<args, found, filter, stage>>

(* The next program is loaded and attached. *)
AttachNext ==
  /\ stage = "configured"
  /\ attached < Len(Programs)
  /\ attached' = attached + 1
  /\ UNCHANGED <<args, found, filter, stage>>

(* The ring buffers are taken and wrapped; the first tick is skipped.      *)
TakeRings ==
  /\ stage = "configured" /\ stage' = "running"
  /\ attached = Len(Programs)
  /\ UNCHANGED <<args, found, filter, attached>>

(* A step after discovery fails: main returns, the object is dropped.      *)
StartupFails ==
  /\ stage \in {"loading", "configured"} /\ stage' = "failed"
  /\ attached' = 0
  /\ UNCHANGED <<args, found, filter>>

Startup == Discover \/ Configure \/ AttachNext \/ TakeRings \/ StartupFails

StartupSpec == StartupInit /\ [][Startup]_startupVars

-----------------------------------------------------------------------------
(* main.rs:48-71 and 345: from the first program attached on, the filter   *)
(* in the map is the one the command line asks for (0 turns one off).      *)
(* What was discovered stands in for absent options only, and what could   *)
(* not be discovered, parsed or converted leaves its own filter off and    *)
(* the other one as it is.                                                 *)
ProgramsSeeTheFilter ==
  attached > 0 =>
    /\ args.pid # None => filter.pid = args.pid
    /\ args.pid = None =>
         filter.pid = IF ~args.cgroup /\ found # None /\ found.pid \in Process
                      THEN found.pid ELSE Off
    /\ args.dev # None => filter.dev = args.dev
    /\ args.dev = None =>
         filter.dev = IF found # None /\ found.dev # None THEN found.dev ELSE Off
=============================================================================
