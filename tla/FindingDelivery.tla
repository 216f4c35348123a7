---------------------------- MODULE FindingDelivery ----------------------------
(***************************************************************************)
(* What becomes of a Finding once a rule has emitted it, and how the two   *)
(* programs stop: Emitter of pgsleuth-otel/src/lib.rs, the select! loop    *)
(* and the end of main in pgsleuth-ebpf-loader/src/main.rs, and main and   *)
(* the run_* functions of pgsleuth-cli/src/main.rs.                        *)
(*                                                                         *)
(* emit() puts a record into the batch processor's bounded queue; a task   *)
(* on the program's tokio runtime exports it; shutdown() asks that task    *)
(* for the rest and blocks its thread until it has answered.  The loader's *)
(* runtime has threads for the task beside the one main runs on; the agent *)
(* is a current_thread program, whose tasks run while main awaits.         *)
(*                                                                         *)
(* The loader waits for Ctrl+C in one arm of its select!, with a listener  *)
(* that lives only while it waits.  The agent installs no handler, so      *)
(* SIGINT kills it, and its polling loop never returns.                    *)
(***************************************************************************)
EXTENDS Naturals, Sequences, FiniteSets

CONSTANTS
  Program,      \* the programs considered, of "loader" and "agent"
  QueueCap,     \* records the batch processor's queue holds
  MaxFindings   \* bound: Findings the rules emit

ASSUME DeliveryAssumption ==
  /\ Program \subseteq {"loader", "agent"}
  /\ QueueCap \in Nat \ {0} /\ MaxFindings \in Nat

VARIABLES
  program,   \* which program this is
  emitter,   \* its log emitter was built
  pc,        \* "starting", "waiting", "arm", "closing", "flushing", "exited",
             \* "failed" or "killed"
  queue,     \* records of the batch processor, oldest first
  emitted,   \* Findings emitted; the i-th is i
  exported,  \* those the collector has accepted
  refused,   \* those the SDK gave up: queue full, or collector unreachable
  unsent,    \* those emitted without an emitter, which are only logged
  heard      \* the listener of the current wait has been notified

records == <<queue, emitted, exported, refused, unsent>>
vars == <<program, emitter, pc, records, heard>>

Finding   == 1 .. MaxFindings
Alive     == pc \notin {"exited", "failed", "killed"}
Range(s)  == {s[i] : i \in DOMAIN s}

(* Mutant: the loader on a current_thread runtime, like the agent. *)
ThreadForBatchTaskSingle == pc \in {"starting", "waiting"}

(* The batch task gets a thread: always in the loader, and while main      *)
(* awaits in the agent.                                                    *)
ThreadForBatchTask == program = "loader" \/ pc \in {"starting", "waiting"}

(* --otlp-endpoint '' and a pipeline that cannot be built both leave the   *)
(* program without emitter.                                                *)
Init ==
  /\ program \in Program
  /\ emitter \in BOOLEAN
  /\ pc = "starting"
  /\ queue = <<>> /\ emitted = 0 /\ exported = {} /\ refused = {} /\ unsent = {}
  /\ heard = FALSE

(* Start-up is over: the loop waits for its arms, or for the next tick.    *)
Started ==
  /\ pc = "starting" /\ pc' = "waiting"
  /\ UNCHANGED <<program, emitter, records, heard>>

(* The agent cannot connect: run returns before its loop and the emitter   *)
(* is shut down.  The loader returns with `?`, past that.                  *)
StartFails ==
  /\ pc = "starting"
  /\ pc' = IF program = "agent" THEN "flushing" ELSE "failed"
  /\ UNCHANGED <<program, emitter, records, heard>>

(* A ring of the loader cannot be polled: main returns from within select!,*)
(* past the shutdown of its emitters.                                      *)
PollFails ==
  /\ program = "loader"
  /\ pc = "waiting" /\ pc' = "failed"
  /\ UNCHANGED <<program, emitter, records, heard>>

(* Another arm is ready and select! takes it; its other futures, and with  *)
(* them a notification they had not yet returned, are dropped.             *)
ArmRuns ==
  /\ pc = "waiting" /\ pc' = "arm"
  /\ heard' = FALSE
  /\ UNCHANGED <<program, emitter, records>>

(* emit(): the record is queued, or dropped when the queue is full.        *)
Emit(f) ==
  /\ emitter
  /\ IF Len(queue) < QueueCap
     THEN queue' = Append(queue, f) /\ UNCHANGED refused
     ELSE refused' = refused \cup {f} /\ UNCHANGED queue
  /\ UNCHANGED unsent

(* A rule fires within an arm: log_emitter.as_ref() is used if there is    *)
(* one.                                                                    *)
EmitFinding ==
  /\ pc = "arm"
  /\ emitted < MaxFindings
  /\ emitted' = emitted + 1
  /\ \/ Emit(emitted')
     \/ ~emitter /\ unsent' = unsent \cup {emitted'} /\ UNCHANGED <<queue, refused>>
  /\ UNCHANGED <<program, emitter, pc, exported, heard>>

ArmEnds ==
  /\ pc = "arm" /\ pc' = "waiting"
  /\ UNCHANGED <<program, emitter, records, heard>>

(* The batch task exports the oldest n; the collector may be down.         *)
ExportBatch(n) ==
  /\ queue' = SubSeq(queue, n + 1, Len(queue))
  /\ \/ exported' = exported \cup Range(SubSeq(queue, 1, n)) /\ UNCHANGED refused
     \/ refused' = refused \cup Range(SubSeq(queue, 1, n)) /\ UNCHANGED exported
  /\ UNCHANGED <<emitted, unsent>>

Export ==
  /\ Alive /\ ThreadForBatchTask
  /\ \E n \in 1 .. Len(queue) : ExportBatch(n)
  /\ UNCHANGED <<program, emitter, pc, heard>>

(* The operator presses Ctrl+C.  A loader that has waited before has a     *)
(* handler, which notifies the listener of a wait and nobody else.         *)
PressCtrlC ==
  /\ Alive
  /\ IF program = "agent" \/ pc = "starting"
     THEN pc' = "killed" /\ UNCHANGED heard
     ELSE heard' = (heard \/ pc = "waiting") /\ UNCHANGED pc
  /\ UNCHANGED <<program, emitter, records>>

(* The ctrl_c arm: the loop breaks. *)
Stop ==
  /\ program = "loader"
  /\ pc = "waiting" /\ pc' = "closing"
  /\ heard
  /\ UNCHANGED <<program, emitter, records, heard>>

(* The loader's metrics pipeline is shut down first. *)
CloseMetrics ==
  /\ pc = "closing" /\ pc' = "flushing"
  /\ UNCHANGED <<program, emitter, records, heard>>

(* Mutant: main returns without shutting the emitter down. *)
ExitUnflushed ==
  /\ pc = "flushing" /\ pc' = "exited"
  /\ UNCHANGED <<program, emitter, records, heard>>

(* shutdown(): the batch task exports what is left and answers, and main   *)
(* returns; without an emitter main just returns.  An Err, which is logged *)
(* and dropped, is the batch that is refused; one that fails half-way is   *)
(* an Export first.                                                        *)
Shutdown ==
  /\ pc = "flushing" /\ pc' = "exited"
  /\ \/ ~emitter /\ UNCHANGED records
     \/ emitter /\ ThreadForBatchTask /\ ExportBatch(Len(queue))
  /\ UNCHANGED <<program, emitter, heard>>

Next ==
  \/ Started \/ StartFails \/ PollFails
  \/ ArmRuns \/ EmitFinding \/ ArmEnds
  \/ Stop \/ CloseMetrics \/ Shutdown
  \/ Export \/ PressCtrlC

Spec == Init /\ [][Next]_vars

(* A task that can go on does; select! is fair to an arm that is ready     *)
(* again and again, and tokio to a task that is.  The operator need not    *)
(* press anything.                                                         *)
Fairness ==
  /\ WF_vars(Started) /\ WF_vars(ArmEnds) /\ WF_vars(CloseMetrics) /\ WF_vars(Shutdown)
  /\ SF_vars(ArmRuns) /\ SF_vars(Stop) /\ SF_vars(Export)

FairSpec == Spec /\ Fairness

-----------------------------------------------------------------------------
(* The ways a Finding has been dealt with. *)
Settled(f) == f \in exported \cup refused \cup unsent

(* otel lib.rs:115-116, shutdown before the runtime exits "so in-flight    *)
(* batches are not dropped": when main has run to its end, no Finding was  *)
(* left in the queue, whenever it was emitted and whatever the batch task  *)
(* had done by then.                                                       *)
GracefulStopDelivers == pc = "exited" => \A f \in 1 .. emitted : Settled(f)

(* Every Finding is settled in the end, delivered or given up by the SDK,  *)
(* unless the process is killed or fails.                                  *)
EveryFindingSettled ==
  \A f \in Finding : f <= emitted ~> Settled(f) \/ pc \in {"killed", "failed"}

(* A loader that was told to stop does stop: its shutdown, which blocks a  *)
(* thread, leaves the batch task another one to answer on.                 *)
LoaderShutdownReturns ==
  program = "loader" /\ pc \in {"closing", "flushing"} ~> pc = "exited"

(* otel lib.rs:115, shutdown is to "Flush and tear down the OTLP           *)
(* exporter": main gets past it, in the agent as well.                     *)
ShutdownReturns == pc = "flushing" ~> pc # "flushing"
=============================================================================
