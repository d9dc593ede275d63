---------------------------- MODULE Task487Client ----------------------------
(***************************************************************************)
(* The deployment loop of task487_client.py, main().  One pass of the loop *)
(* follows the task window, the operator's keys, the sensors, the timeline,*)
(* the inference result, and the next request and dispatch; pc is the      *)
(* place in the pass.  The inference thread and the task window run beside *)
(* it.  The scheduler is CommitPipeline (EXTENDS), which RollingScheduler  *)
(* implements; the worker is InferenceWorker.                              *)
(*                                                                         *)
(* hold_robot blocks the loop for up to two seconds.  It is part of the    *)
(* step that calls it: the threads beside the loop touch nothing that step *)
(* reads, so running them before or after it gives the same states.        *)
(***************************************************************************)
EXTENDS CommitPipeline, Sequences

CONSTANTS
  Tasks,          \* the task keys of the task window
  Faults,         \* messages of observation faults
  WaypointLimit,  \* args.max_waypoints of a bounded round, None when continuous
  Execute,        \* args.execute: real commands, not a dry run
  MaxRound,       \* bound on active_round_id
  MaxSeq,         \* bound on the number of requests
  None

ASSUME ClientAssumption ==
  /\ Tasks # {}
  /\ WaypointLimit # None => WaypointLimit \in Nat \ {0}
  /\ Execute \in BOOLEAN
  /\ MaxRound \in Nat /\ MaxSeq \in Nat
  /\ None \notin Faults \union Tasks \union Nat \union [id : 1..MaxSeq, round : 0..MaxRound]

VARIABLES
  pc,          \* where the loop is
  task,        \* selected_task_key
  uiTask,      \* the selection of the task window
  round,       \* active_round_id
  executed,    \* executed_in_round
  prepared,    \* grippers_prepared
  lastFault,   \* last_sensor_error
  physical,    \* what the robots were last told: see below
  requests, results, busy, seq, thread, job, closing

(* "HOLD": hold_robot or HOME confirmed; "UNCONFIRMED": a HOLD was         *)
(* commanded and its confirmation failed; "TRACKING": waypoints were sent. *)
PhysicalStates == {"HOLD", "UNCONFIRMED", "TRACKING"}

Worker == INSTANCE InferenceWorker WITH Rounds <- 0..MaxRound

worker == <<requests, results, busy, seq, thread, job>>
session == <<task, uiTask, round, executed, prepared, lastFault>>
vars == <<pipeline, pc, session, physical, worker, closing>>

Limited == WaypointLimit # None
-----------------------------------------------------------------------------
(* The loop is entered after warm-up, in HOLD; the grippers may already    *)
(* stand at the checkpoint boundary.                                       *)
Init ==
  /\ PipelineInit
  /\ pc = "task"
  /\ task \in Tasks /\ uiTask = task
  /\ round = 0 /\ executed = 0
  /\ prepared \in BOOLEAN
  /\ lastFault = None
  /\ physical = "HOLD"
  /\ Worker!WorkerInit /\ closing = "no"

(* hold_robot(env): True when the confirmation came.  A dry run never      *)
(* calls it.                                                               *)
HoldRobot(ok) ==
  physical' = IF ~Execute THEN physical ELSE IF ok THEN "HOLD" ELSE "UNCONFIRMED"

(* A hold whose failure nobody catches leaves the loop.                    *)
HoldAndGo(next) ==
  /\ EnterHold
  /\ \E ok \in BOOLEAN :
       /\ HoldRobot(ok)
       /\ pc' = IF ok \/ ~Execute THEN next ELSE "exit"

SameRoundAgain ==  \* mutant: active_round_id is not counted up
  /\ round < MaxRound
  /\ executed' = 0
  /\ UNCHANGED round

BeginRound ==
  /\ round < MaxRound
  /\ round' = round + 1
  /\ executed' = 0
-----------------------------------------------------------------------------
(* The head of the pass: Ctrl+C.                                           *)
Interrupted ==
  /\ pc = "task"
  /\ EnterHold
  /\ \E ok \in BOOLEAN : HoldRobot(ok)
  /\ pc' = "exit"
  /\ UNCHANGED <<session, worker, closing>>

(* An exception nobody catches leaves the loop: telemetry.check(), the     *)
(* live pose a start needs, or the mask and the images of a request.       *)
Unhandled ==
  /\ pc \in {"task", "keys", "request", "again"}
  /\ pc' = "exit"
  /\ UNCHANGED <<pipeline, session, physical, worker, closing>>

SameTask ==
  /\ pc = "task"
  /\ uiTask = task
  /\ pc' = "keys"
  /\ UNCHANGED <<pipeline, session, physical, worker, closing>>

(* A task switch holds, opens a new round and, when it came in ACTIVE and  *)
(* the physical HOLD was confirmed, starts again from the live pose.       *)
SwitchTask ==
  /\ pc = "task"
  /\ uiTask # task
  /\ task' = uiTask
  /\ BeginRound
  /\ \/ mode = "HOLD" /\ EnterHold /\ UNCHANGED physical
     \/ mode = "ACTIVE" /\ EnterHold /\ \E ok \in BOOLEAN : HoldRobot(ok)
     \/ mode = "ACTIVE" /\ StartRound /\ HoldRobot(TRUE)
  /\ pc' = "keys"
  /\ UNCHANGED <<uiTask, prepared, lastFault, worker, closing>>
-----------------------------------------------------------------------------
(* keys.poll() returns any number of keys.                                 *)
PressHold ==
  /\ pc = "keys"
  /\ HoldAndGo("keys")
  /\ UNCHANGED <<session, worker, closing>>

PressStart ==
  /\ pc = "keys"
  /\ mode = "HOLD"
  /\ Execute => prepared
  /\ StartRound
  /\ BeginRound
  /\ uiTask # task => round + 1 < MaxRound  \* leaves a round for the switch
  /\ UNCHANGED <<pc, task, uiTask, prepared, lastFault, physical, worker, closing>>

(* HOME, then gripper preparation; a failing preparation blocks the start, *)
(* a failing HOME leaves the loop.                                         *)
PressReady ==
  /\ pc = "keys"
  /\ mode = "HOLD"
  /\ Execute
  /\ \/ physical' = "HOLD" /\ prepared' \in BOOLEAN /\ UNCHANGED pc
     \/ physical' = "UNCONFIRMED" /\ pc' = "exit" /\ UNCHANGED prepared
  /\ UNCHANGED <<pipeline, task, uiTask, round, executed, lastFault, worker, closing>>

KeysDone ==
  /\ pc = "keys"
  /\ pc' = "sense"
  /\ UNCHANGED <<pipeline, session, physical, worker, closing>>
-----------------------------------------------------------------------------
Sense ==
  /\ pc = "sense"
  /\ lastFault' = None
  /\ pc' = "track"
  /\ UNCHANGED <<pipeline, task, uiTask, round, executed, prepared, physical,
                 worker, closing>>

(* The pass ends here; the robot is told to hold once per new message, and *)
(* a failing confirmation is only logged.                                  *)
ObservationFault(message) ==
  /\ pc = "sense"
  /\ EnterHold
  /\ lastFault' = message
  /\ IF message = lastFault THEN UNCHANGED physical
                            ELSE \E ok \in BOOLEAN : HoldRobot(ok)
  /\ pc' = "task"
  /\ UNCHANGED <<task, uiTask, round, executed, prepared, worker, closing>>

TrackInHold ==
  /\ pc = "track"
  /\ mode = "HOLD"
  /\ pc' = "poll"
  /\ UNCHANGED <<pipeline, session, physical, worker, closing>>

TrackingFault ==
  /\ pc = "track"
  /\ mode = "ACTIVE"
  /\ HoldAndGo("poll")
  /\ UNCHANGED <<session, worker, closing>>

RoundExceeded(k) == Limited /\ executed + k > WaypointLimit  \* mutant: off by one

RoundComplete(k) == Limited /\ executed + k >= WaypointLimit

(* advance retires k due waypoints; the last one of a bounded round holds. *)
Track(k) ==
  /\ pc = "track"
  /\ mode = "ACTIVE"
  /\ k \in 0..committed
  /\ executed' = executed + k
  /\ IF RoundComplete(k)
     THEN HoldAndGo("poll")
     ELSE /\ IF k = 0 THEN UNCHANGED pipeline ELSE Retire(k)
          /\ pc' = "poll"
          /\ UNCHANGED physical
  /\ UNCHANGED <<task, uiTask, round, prepared, lastFault, worker, closing>>
-----------------------------------------------------------------------------
Result == Head(results)

NothingPolled ==
  /\ pc = "poll"
  /\ results = <<>>
  /\ pc' = "request"
  /\ UNCHANGED <<pipeline, session, physical, worker, closing>>

(* "stale_round" or "discarded_while_hold".                                *)
DiscardResult ==
  /\ pc = "poll"
  /\ Worker!Poll
  /\ Result.request.round # round \/ mode = "HOLD"
  /\ pc' = "request"
  /\ UNCHANGED <<pipeline, session, physical, closing>>

CurrentResult ==
  /\ pc = "poll"
  /\ Worker!Poll
  /\ Result.request.round = round
  /\ mode = "ACTIVE"

(* "inference_error", or "rejected" by merge_chunk.  For targets that were *)
(* not asked for, merge_chunk raises a RuntimeError nobody catches: no     *)
(* action, PendingIffCurrentInFlight shows that the case cannot arise.     *)
RejectResult ==
  /\ CurrentResult
  /\ Result.outcome = "error" \/ pending
  /\ HoldAndGo("request")
  /\ UNCHANGED <<session, closing>>

AcceptResult(n) ==
  /\ CurrentResult
  /\ Result.outcome = "targets"
  /\ Merge(n)
  /\ pc' = "request"
  /\ UNCHANGED <<session, physical, closing>>

-----------------------------------------------------------------------------
RoomForMore == Limited => executed + committed < WaypointLimit

(* The bound on requests leaves one for the start of every later round.    *)
WithinSeqBound == fresh \/ seq + MaxRound - round < MaxSeq

(* submit_rtc_request, called before and after the dispatch: returns when  *)
(* the worker is busy.                                                     *)
AskPolicy(at, next) ==
  /\ pc = at
  /\ RoomForMore
  /\ IF busy
     THEN MayRequest /\ UNCHANGED <<pipeline, worker>>
     ELSE OpenRequest /\ Worker!Submit(round) /\ WithinSeqBound
  /\ pc' = next
  /\ UNCHANGED <<session, physical, closing>>

(* request_due is false, or the bounded round has enough waypoints.        *)
NotDue(at, next) ==
  /\ pc = at
  /\ ~(MustRequest /\ RoomForMore)
  /\ pc' = next
  /\ UNCHANGED <<pipeline, session, physical, worker, closing>>

RemainingUnsent == WaypointLimit - executed  \* mutant: forgets the committed ones

Remaining == WaypointLimit - executed - committed

(* pop_batch, and exec_actions on what it returns.                         *)
PopBatch(k) ==
  /\ pc = "pop"
  /\ Dispatch(k)
  /\ Limited => k <= Remaining
  /\ physical' = IF Execute THEN "TRACKING" ELSE physical
  /\ pc' \in {"again", "exit"}  \* exec_actions may raise
  /\ UNCHANGED <<session, worker, closing>>

(* Nothing to dispatch: HOLD, all waypoints of the round are committed, an *)
(* inference is open, or the commit limit is reached.                      *)
PopNothing ==
  /\ pc = "pop"
  /\ \/ mode = "HOLD"
     \/ Limited /\ Remaining <= 0
     \/ pending
     \/ committed > 0
  /\ pc' = "again"
  /\ UNCHANGED <<pipeline, session, physical, worker, closing>>

ExhaustedInSoftwareOnly ==  \* mutant: the robots are not told
  /\ pc = "pop"
  /\ mode = "ACTIVE"
  /\ Limited => Remaining > 0
  /\ ~pending
  /\ committed + replaceable = 0
  /\ EnterHold
  /\ pc' = "again"
  /\ UNCHANGED <<session, physical, worker, closing>>

(* pop_batch holds "action queue exhausted" when nothing is planned and no *)
(* inference is open.                                                      *)
QueueExhausted ==
  /\ pc = "pop"
  /\ mode = "ACTIVE"
  /\ Limited => Remaining > 0
  /\ ~pending
  /\ committed + replaceable = 0
  /\ HoldAndGo("again")
  /\ UNCHANGED <<session, worker, closing>>
-----------------------------------------------------------------------------
(* physical_hold_on_exit, then InferenceWorker.close().                    *)
ExitHold ==
  /\ pc = "exit"
  /\ closing = "no"
  /\ closing' = "putting"
  /\ \E ok \in BOOLEAN : HoldRobot(ok)
  /\ UNCHANGED <<pipeline, pc, session, worker>>

CloseWhenIdle ==  \* mutant: close waits for the answer in flight
  /\ closing = "putting"
  /\ IF busy THEN UNCHANGED <<worker, closing>>
     ELSE Worker!PutPoison /\ closing' = "joined"
  /\ UNCHANGED <<pipeline, pc, session, physical>>

CloseWorker ==
  /\ closing = "putting"
  /\ Worker!PutPoison
  /\ closing' = "joined"
  /\ UNCHANGED <<pipeline, pc, session, physical>>

Closed ==
  /\ closing = "joined"
  /\ UNCHANGED vars

(* Beside the loop: the inference thread and the task window.              *)
RunThread ==
  /\ Worker!ThreadStep
  /\ UNCHANGED <<pipeline, pc, session, physical, closing>>

SelectTask(t) ==
  /\ pc # "exit"
  /\ round < MaxRound
  /\ uiTask' = t
  /\ UNCHANGED <<pipeline, pc, task, round, executed, prepared, lastFault,
                 physical, worker, closing>>

Loop ==
  \/ Interrupted \/ Unhandled \/ SameTask \/ SwitchTask
  \/ PressHold \/ PressStart \/ PressReady \/ KeysDone
  \/ Sense \/ (\E message \in Faults : ObservationFault(message))
  \/ TrackInHold \/ TrackingFault \/ (\E k \in 0..CommitSteps : Track(k))
  \/ NothingPolled \/ DiscardResult \/ RejectResult
  \/ (\E n \in 0..MaxQueue : AcceptResult(n))
  \/ AskPolicy("request", "pop") \/ NotDue("request", "pop")
  \/ (\E k \in 1..CommitSteps : PopBatch(k)) \/ PopNothing \/ QueueExhausted
  \/ AskPolicy("again", "task") \/ NotDue("again", "task")
  \/ ExitHold \/ CloseWorker

Next ==
  \/ Loop
  \/ RunThread
  \/ \E t \in Tasks : SelectTask(t)
  \/ Closed

Spec == Init /\ [][Next]_vars
-----------------------------------------------------------------------------
(* The loop always takes its next step, and the inference thread runs, if  *)
(* only into a call that never returns.  Passes in which the loop   *)
(* may go one of several ways are strongly fair where the environment      *)
(* cannot refuse forever: time passes, so a committed waypoint falls due,  *)
(* and the sensors deliver an observation again.                           *)
RetireSome == \E k \in 1..CommitSteps : Track(k)

Fairness ==
  /\ WF_vars(Loop)
  /\ WF_vars(KeysDone)
  /\ WF_vars(RunThread)
  /\ SF_vars(RetireSome)
  /\ SF_vars(Sense)

FairSpec == Spec /\ Fairness
-----------------------------------------------------------------------------
ClientTypeOK ==
  /\ mode \in {"HOLD", "ACTIVE"}
  /\ committed \in 0..CommitSteps
  /\ replaceable \in 0..MaxQueue
  /\ pending \in BOOLEAN /\ fresh \in BOOLEAN /\ progressed \in BOOLEAN
  /\ pc \in {"task", "keys", "sense", "track", "poll", "request", "pop", "again", "exit"}
  /\ task \in Tasks /\ uiTask \in Tasks
  /\ round \in 0..MaxRound
  /\ executed \in Nat
  /\ prepared \in BOOLEAN
  /\ lastFault \in Faults \union {None}
  /\ physical \in PhysicalStates
  /\ closing \in {"no", "putting", "joined"}

(* Round isolation: the scheduler waits for an answer exactly when the one *)
(* inference in flight was asked for in this round of an ACTIVE loop.  An  *)
(* answer to an older round, or to a round that was held, finds no open    *)
(* request; an answer that passes the round and HOLD checks finds one, so  *)
(* merge_chunk never raises its RuntimeError out of the loop.              *)
PendingIffCurrentInFlight ==
  pending <=> mode = "ACTIVE" /\ \E r \in Worker!InFlight : r.round = round

(* However the software came to HOLD in a pass, by key, switch, fault,     *)
(* exhaustion, rejection or a completed round, the robots were told to     *)
(* hold after the last waypoints they were sent, before the next pass, and *)
(* on every way out of the loop.                                           *)
HoldReachesRobots ==
  /\ pc = "task" /\ mode = "HOLD" => physical # "TRACKING"
  /\ closing # "no" => physical # "TRACKING"

(* A bounded round never sends more waypoints than its limit, although     *)
(* they are sent ahead of being counted.                                   *)
BoundedRound == Limited => executed + committed <= WaypointLimit

(* A bounded round ends in HOLD, unless infer never returns: no timeout    *)
(* guards the rolling scheduler's request.                                 *)
BoundedRoundEnds ==
  Limited /\ mode = "ACTIVE" ~> mode = "HOLD" \/ pc = "exit" \/ thread = "hung"

(* Leaving the loop ends, even while infer hangs: the poison finds room    *)
(* in the request queue.                                                   *)
ShutdownCompletes == pc = "exit" ~> closing = "joined"
=============================================================================
