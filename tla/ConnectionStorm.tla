---------------------------- MODULE ConnectionStorm ----------------------------
(***************************************************************************)
(* The storage.conn.storm rule: the polling loop of                        *)
(* pgsleuth-cli/src/connection_storm.rs over the poll of                   *)
(* pgsleuth-postgres/src/stat_activity.rs.                                 *)
(*                                                                         *)
(* A poll awaits four queries, one after the other.  Clients connect and   *)
(* disconnect all along; any query may fail, which abandons the poll and   *)
(* skips the tick; and the connection may be lost, which the collector     *)
(* never repairs.  The rule uses the first query's count only.             *)
(***************************************************************************)
EXTENDS BreachCounter

CONSTANTS
  BackendThreshold,  \* backend_threshold
  MaxBackends,       \* max_connections
  NoFinding,         \* nothing handed to the emitter
  MaxJudged          \* bound: polls whose verdict the history keeps

ASSUME StormAssumption ==
  /\ BackendThreshold \in Nat
  /\ MaxBackends \in Nat
  /\ NoFinding \notin [backends : 0 .. MaxBackends, streak : 0 .. CounterMax]
  /\ MaxJudged \in Nat

VARIABLES
  backends,     \* client backends of the server
  conn,         \* the collector's connection: "open" or "lost"
  tickDue,      \* the interval timer has a tick to deliver
  query,        \* the query awaited, 0 between two polls
  counted,      \* client_backends of the poll in progress
  stormCounter, \* the rule's ConsecutiveBreachCounter
  finding,      \* the Finding the last step handed to the emitter, or NoFinding
  \* history, for the properties only
  calm,         \* the count was within the threshold since the last Finding
  judged,       \* the verdicts of the first MaxJudged polls that succeeded
  reports       \* those of them that emitted a Finding

pollVars == <<tickDue, query, counted, stormCounter>>
polls    == <<judged, reports>>
stormVars == <<backends, conn, pollVars, finding, calm, polls>>

Queries == 1 .. 4
Crowded(n) == n > BackendThreshold

StormInit ==
  /\ backends \in 0 .. MaxBackends
  /\ conn = "open"
  /\ tickDue = FALSE /\ query = 0 /\ counted = 0
  /\ stormCounter = Rearmed
  /\ finding = NoFinding
  /\ calm = TRUE
  /\ judged = <<>> /\ reports = {}

(* A client connects or disconnects.                                       *)
ClientComesOrGoes ==
  /\ backends' \in {n \in 0 .. MaxBackends : n = backends + 1 \/ n + 1 = backends}
  /\ finding' = NoFinding
  /\ calm' = (calm \/ ~Crowded(backends'))
  /\ UNCHANGED <<conn, pollVars, polls>>

(* Postgres restarts or the network breaks; the spawned connection task    *)
(* ends, and every later query fails.                                      *)
ConnectionLost ==
  /\ conn = "open" /\ conn' = "lost"
  /\ finding' = NoFinding
  /\ UNCHANGED <<backends, pollVars, calm, polls>>

(* The interval passes.  MissedTickBehavior::Skip keeps one tick due.      *)
TimerElapses ==
  /\ ~tickDue /\ tickDue' = TRUE
  /\ finding' = NoFinding
  /\ UNCHANGED <<backends, conn, query, counted, stormCounter, calm, polls>>

BeginPoll ==
  /\ query = 0 /\ query' = 1
  /\ tickDue /\ tickDue' = FALSE
  /\ finding' = NoFinding
  /\ UNCHANGED <<backends, conn, counted, stormCounter, calm, polls>>

(* The backend count is answered, with the count of that moment.           *)
CountAnswered ==
  /\ query = 1 /\ query' = 2
  /\ conn = "open"
  /\ counted' = backends
  /\ finding' = NoFinding
  /\ UNCHANGED <<backends, conn, tickDue, stormCounter, calm, polls>>

(* The groupings by state and by wait event are answered.                  *)
GroupingAnswered(n) ==
  /\ query = n /\ query' = n + 1
  /\ conn = "open"
  /\ finding' = NoFinding
  /\ UNCHANGED <<backends, conn, tickDue, counted, stormCounter, calm, polls>>

(* Mutant: a failed poll counts as a snapshot without backends. *)
QueryFailsResets ==
  /\ query \in Queries /\ query' = 0
  /\ stormCounter' = Observe(stormCounter, FALSE)
  /\ finding' = NoFinding
  /\ UNCHANGED <<backends, conn, tickDue, counted, calm, polls>>

(* A query fails: the poll is abandoned and the tick skipped, with the     *)
(* counter left as it is.                                                  *)
QueryFails ==
  /\ query \in Queries /\ query' = 0
  /\ finding' = NoFinding
  /\ UNCHANGED <<backends, conn, tickDue, counted, stormCounter, calm, polls>>

(* The verdict of a poll is kept while there is room, with its Finding. *)
Judge(breached) ==
  IF Len(judged) < MaxJudged
  THEN /\ judged' = Append(judged, breached)
       /\ reports' = IF finding' = NoFinding THEN reports ELSE reports \cup {Len(judged) + 1}
  ELSE UNCHANGED polls

(* Mutant: observe() is called for breaches only. *)
EvaluateBreachesOnly ==
  LET breached == Crowded(counted)
      fires    == JustFires(stormCounter, breached)
  IN
  /\ query = 4 /\ query' = 0
  /\ conn = "open"
  /\ stormCounter' = IF breached THEN Observe(stormCounter, breached) ELSE stormCounter
  /\ finding' = IF fires THEN [backends |-> counted, streak |-> stormCounter'.streak]
                ELSE NoFinding
  /\ calm' = IF fires THEN ~Crowded(backends) ELSE calm
  /\ Judge(breached)
  /\ UNCHANGED <<backends, conn, tickDue, counted>>

(* The last query is answered: judge the count taken by the first one,     *)
(* feed the counter and emit when it has just fired.                       *)
Evaluate ==
  LET breached == Crowded(counted)
      fires    == JustFires(stormCounter, breached)
  IN
  /\ query = 4 /\ query' = 0
  /\ conn = "open"
  /\ stormCounter' = Observe(stormCounter, breached)
  /\ finding' = IF fires THEN [backends |-> counted, streak |-> stormCounter'.streak]
                ELSE NoFinding
  /\ calm' = IF fires THEN ~Crowded(backends) ELSE calm
  /\ Judge(breached)
  /\ UNCHANGED <<backends, conn, tickDue, counted>>

StormTick == BeginPoll \/ CountAnswered \/ GroupingAnswered(2) \/ GroupingAnswered(3) \/ Evaluate

StormNext == ClientComesOrGoes \/ ConnectionLost \/ TimerElapses \/ StormTick \/ QueryFails

StormSpec == StormInit /\ [][StormNext]_stormVars

(* The timer and the task are tokio's; a query that is asked again and     *)
(* again is answered again and again while the connection is open.         *)
StormFairness ==
  /\ WF_stormVars(TimerElapses) /\ WF_stormVars(BeginPoll) /\ WF_stormVars(QueryFails \/ StormTick)
  /\ SF_stormVars(CountAnswered) /\ SF_stormVars(Evaluate)
  /\ SF_stormVars(GroupingAnswered(2)) /\ SF_stormVars(GroupingAnswered(3))

FairStormSpec == StormSpec /\ StormFairness

-----------------------------------------------------------------------------
StormAlarm == INSTANCE EpisodeAlarm
              WITH N <- RunLength, history <- judged, raised <- reports

(* The rule implements the abstract alarm over the polls that succeed: one *)
(* Finding per run of fire_after crowded counts, at the poll that          *)
(* completes it, whatever polls fail in between and however the server     *)
(* changes between the count and its judgement (connection_storm.rs).      *)
OneFindingPerRun == StormAlarm!Spec

(* One storm, one Finding: as long as the server stays above the threshold *)
(* the rule does not fire again, whatever polls fail (the skipped tick of  *)
(* connection_storm.rs leaves the latch alone).                            *)
OneFindingPerStorm == [][finding' # NoFinding => calm]_stormVars

(* A storm that lasts is reported, although any poll may fail, unless the  *)
(* connection is lost for good.                                            *)
StormReported ==
  <>[](Crowded(backends) /\ conn = "open") => <>[]stormCounter.fired
=============================================================================
