---------------------------- MODULE FsyncEpisodes ----------------------------
(***************************************************************************)
(* FsyncJitter with a history of what its ticks evaluated, to say what the *)
(* fsync-jitter rule promises over a whole run: it implements              *)
(* EpisodeAlarm.  The history variables record, for every tick, the        *)
(* verdict on the interval and whether the loader emitted a Finding; they  *)
(* constrain nothing but the number of ticks without samples.              *)
(***************************************************************************)
EXTENDS FsyncJitter

CONSTANT MaxQuiet    \* bound: ticks whose interval had no samples

ASSUME QuietAssumption == MaxQuiet \in Nat

VARIABLES
  history,    \* history[i]: the i-th tick evaluated a breaching interval
  raised,     \* the ticks that emitted a Finding
  quiet       \* how many ticks had no samples

hist  == <<history, raised, quiet>>
hvars == <<vars, hist>>

InitH == Init /\ history = <<>> /\ raised = {} /\ quiet = 0

TickH ==
  /\ IF window = <<>> THEN quiet < MaxQuiet /\ quiet' = quiet + 1 ELSE UNCHANGED quiet
  /\ Tick
  /\ history' = Append(history, Breached(window))
  /\ raised' = IF findings' = findings THEN raised
               ELSE raised \cup {Len(history) + 1}

NextH ==
  \/ TickH
  \/ (Kernel \/ TimerElapses \/ Drain \/ Interrupt) /\ UNCHANGED hist

SpecH == InitH /\ [][NextH]_hvars

(* FsyncJitter's fairness, of the steps as they are here, and its          *)
(* assumption that the kernel lets every drain end.                        *)
FairSpecH ==
  /\ SpecH
  /\ WF_hvars(TimerElapses /\ UNCHANGED hist)
  /\ SF_hvars(BeginDrain /\ UNCHANGED hist)
  /\ WF_hvars(DrainOne /\ UNCHANGED hist)
  /\ WF_hvars(EndDrain /\ UNCHANGED hist)
  /\ WF_hvars(ClearGuard /\ UNCHANGED hist)
  /\ SF_hvars(TickH)
  /\ DrainsEnd

-----------------------------------------------------------------------------
Alarm == INSTANCE EpisodeAlarm WITH N <- RunLength

TypeOKH ==
  /\ TypeOK
  /\ history \in Seq(BOOLEAN)
  /\ raised \subseteq 1 .. Len(history)
  /\ quiet \in 0 .. MaxQuiet

(* The loader implements the abstract alarm: one Finding per run of at     *)
(* least fire_after consecutive breaching ticks (window.rs observe and the *)
(* tick arm), at the tick that completes it, and no other.                 *)
ImplementsEpisodeAlarm == Alarm!Spec

(* The counter tells the truth about the ticks it was fed: streak is the   *)
(* length of the run of breaches that ends now, up to saturation, and      *)
(* fired says whether that run has reached fire_after.                     *)
CounterTracksHistory ==
  /\ TrailingRun(history, counter.streak)
  /\ counter.fired <=> counter.streak >= RunLength
=============================================================================
