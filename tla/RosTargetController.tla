------------------------- MODULE RosTargetController -------------------------
(***************************************************************************)
(* ros_target_interpolation_controller.py: one process per arm.  Every     *)
(* tick it publishes its trajectory to the bridge, drains its command      *)
(* queue and processes the commands; the right arm's process also commands *)
(* the Mink state machine that both arms share.                            *)
(*                                                                         *)
(* A waypoint is abstracted to the episode it was planned in, 1 the first; *)
(* a trajectory to the episodes of its waypoints, empty when it stands at  *)
(* the measured pose.  The 50 ms of priming are any number of ticks, at    *)
(* least one: t_now is read once a tick, so the gate never opens in the    *)
(* tick that starts the wait.  passive_hold, which stops repeating an      *)
(* unchanged target, and servoL, which nobody calls, are left out, and so  *)
(* is the loss of a datagram to Mink or the bridge on the same machine.    *)
(***************************************************************************)
EXTENDS Integers, Sequences

CONSTANTS
  MaxEpisode,  \* bound on the rounds that are played
  QueueSize    \* buffer_size of the command queue

ASSUME ControllerAssumption == MaxEpisode \in Nat /\ QueueSize \in Nat \ {0}

VARIABLES
  queue,       \* input_queue of each arm
  batch,       \* the commands get_all returned and the loop has yet to process
  pc,          \* where run() of each arm is
  got,         \* got_waypoint
  trajectory,  \* pose_interp
  published,   \* the episode of the target last sent for each arm
  active,      \* active, of the right arm
  priming,     \* active_pending_since is set
  done,        \* hold_done_event and home_done_event
  stopping,    \* _stop_event
  mink         \* the state of the Mink state machine

controllers == <<queue, batch, pc, got, trajectory, published, active, priming,
                 done, stopping, mink>>

Arms == {"right", "left"}
Stops == {"HOLD", "HOME"}
Measured == 0   \* the target is the measured pose
Episodes == 1..MaxEpisode
Waypoint(episode) == [cmd |-> "SCHEDULE_WAYPOINT", episode |-> episode]
Command(cmd) == [cmd |-> cmd, episode |-> Measured]
Commands == {Waypoint(e) : e \in Episodes} \union {Command(c) : c \in Stops \union {"STOP"}}
Ended == {"exited", "failed"}
ManageFsm(arm) == arm = "right"
-----------------------------------------------------------------------------
(* Running, after the first feedback and the FSM 2 of _engage_fsm.         *)
ControllersInit ==
  /\ queue = [arm \in Arms |-> <<>>] /\ batch = [arm \in Arms |-> <<>>]
  /\ pc = [arm \in Arms |-> "tick"]
  /\ got = [arm \in Arms |-> FALSE]
  /\ trajectory = [arm \in Arms |-> {}]
  /\ published = [arm \in Arms |-> Measured]
  /\ active = FALSE /\ priming = FALSE
  /\ done = [arm \in Arms |-> [stop \in Stops |-> TRUE]]
  /\ stopping = [arm \in Arms |-> FALSE]
  /\ mink = "HOLD"

PutAnyway(arm, command) ==  \* mutant: the queue is never full
  queue' = [queue EXCEPT ![arm] = Append(@, command)]

Put(arm, command) ==
  /\ Len(queue[arm]) < QueueSize
  /\ queue' = [queue EXCEPT ![arm] = Append(@, command)]

Goto(arm, place) == pc' = [pc EXCEPT ![arm] = place]

(* Mink ignores HOME while it is ACTIVE.                                   *)
Fsm(state) == mink' = IF state = "HOME" /\ mink = "ACTIVE" THEN mink ELSE state

SendFsm(arm, state) == IF ManageFsm(arm) THEN Fsm(state) ELSE UNCHANGED mink

(* The finally of run(): whoever waits is released.  The local variables   *)
(* go with the process.                                                    *)
Leave(arm, place) ==
  /\ Goto(arm, place)
  /\ done' = [done EXCEPT ![arm] = [stop \in Stops |-> TRUE]]
  /\ batch' = [batch EXCEPT ![arm] = <<>>]
  /\ got' = [got EXCEPT ![arm] = FALSE]
  /\ trajectory' = [trajectory EXCEPT ![arm] = {}]
  /\ IF ManageFsm(arm) THEN active' = FALSE /\ priming' = FALSE
                       ELSE UNCHANGED <<active, priming>>
  /\ UNCHANGED <<queue, published, stopping, mink>>

(* An exception nobody catches.                                            *)
Fail(arm) == pc[arm] \notin Ended /\ Leave(arm, "failed")
-----------------------------------------------------------------------------
(* The start of a tick: the trajectory is sampled and sent, then the queue *)
(* drained.  A command put between the two is as one put before both.      *)
Tick(arm) ==
  /\ pc[arm] = "tick"
  /\ ~stopping[arm]
  /\ \E target \in trajectory[arm] \union {Measured} :
       published' = [published EXCEPT ![arm] = target]
  /\ batch' = [batch EXCEPT ![arm] = queue[arm]]
  /\ queue' = [queue EXCEPT ![arm] = <<>>]
  /\ Goto(arm, "process")
  /\ UNCHANGED <<got, trajectory, active, priming, done, stopping, mink>>

StopEvent(arm) ==
  /\ pc[arm] = "tick"
  /\ stopping[arm]
  /\ Leave(arm, "exited")

First(arm, cmds) == batch[arm] # <<>> /\ Head(batch[arm]).cmd \in cmds

KeepOnlyLatest(arm) ==  \* mutant: a waypoint ends the batch
  /\ pc[arm] = "process"
  /\ First(arm, {"SCHEDULE_WAYPOINT"})
  /\ got' = [got EXCEPT ![arm] = TRUE]
  /\ \E late \in BOOLEAN :
       trajectory' = [trajectory EXCEPT ![arm] = IF late THEN @ ELSE @ \union {Head(batch[arm]).episode}]
  /\ batch' = [batch EXCEPT ![arm] = <<>>]
  /\ UNCHANGED <<queue, pc, published, active, priming, done, stopping, mink>>

(* schedule_waypoint returns the old trajectory when the waypoint is not   *)
(* later than the next tick.                                               *)
ProcessWaypoint(arm) ==
  /\ pc[arm] = "process"
  /\ First(arm, {"SCHEDULE_WAYPOINT"})
  /\ got' = [got EXCEPT ![arm] = TRUE]
  /\ \E late \in BOOLEAN :
       trajectory' = [trajectory EXCEPT ![arm] = IF late THEN @ ELSE @ \union {Head(batch[arm]).episode}]
  /\ batch' = [batch EXCEPT ![arm] = Tail(@)]
  /\ UNCHANGED <<queue, pc, published, active, priming, done, stopping, mink>>

(* HOLD and HOME end in the same way: the trajectory stands at the         *)
(* measured pose, the bridge is told, the wait is over, and the rest of    *)
(* the batch is dropped.                                                   *)
Reset(arm, stop) ==
  /\ trajectory' = [trajectory EXCEPT ![arm] = {}]
  /\ published' = [published EXCEPT ![arm] = Measured]
  /\ IF ManageFsm(arm) THEN active' = FALSE /\ priming' = FALSE
                       ELSE UNCHANGED <<active, priming>>
  /\ got' = [got EXCEPT ![arm] = FALSE]
  /\ done' = [done EXCEPT ![arm][stop] = TRUE]
  /\ batch' = [batch EXCEPT ![arm] = <<>>]
  /\ Goto(arm, "tick")
  /\ SendFsm(arm, "HOLD")
  /\ UNCHANGED <<queue, stopping>>

HoldInLoopOnly(arm) ==  \* mutant: the pending activation survives HOLD
  /\ pc[arm] = "process"
  /\ First(arm, {"HOLD"})
  /\ trajectory' = [trajectory EXCEPT ![arm] = {}]
  /\ published' = [published EXCEPT ![arm] = Measured]
  /\ active' = IF ManageFsm(arm) THEN FALSE ELSE active
  /\ got' = [got EXCEPT ![arm] = FALSE]
  /\ done' = [done EXCEPT ![arm]["HOLD"] = TRUE]
  /\ batch' = [batch EXCEPT ![arm] = <<>>]
  /\ Goto(arm, "tick")
  /\ SendFsm(arm, "HOLD")
  /\ UNCHANGED <<queue, priming, stopping>>

HoldKeepsTrajectory(arm) ==  \* mutant: only the state machine is held
  /\ pc[arm] = "process"
  /\ First(arm, {"HOLD"})
  /\ IF ManageFsm(arm) THEN active' = FALSE /\ priming' = FALSE
                       ELSE UNCHANGED <<active, priming>>
  /\ got' = [got EXCEPT ![arm] = FALSE]
  /\ done' = [done EXCEPT ![arm]["HOLD"] = TRUE]
  /\ batch' = [batch EXCEPT ![arm] = <<>>]
  /\ Goto(arm, "tick")
  /\ SendFsm(arm, "HOLD")
  /\ UNCHANGED <<queue, trajectory, published, stopping>>

ProcessHold(arm) ==
  /\ pc[arm] = "process"
  /\ First(arm, {"HOLD"})
  /\ Reset(arm, "HOLD")

(* GO_HOME: FSM 2, 1 and after four seconds 2 again; the left arm waits as *)
(* long without sending any.                                               *)
ProcessHome(arm) ==
  /\ pc[arm] = "process"
  /\ First(arm, {"HOME"})
  /\ SendFsm(arm, "HOLD")
  /\ Goto(arm, "home")
  /\ UNCHANGED <<queue, batch, got, trajectory, published, active, priming, done, stopping>>

MoveHome(arm) ==
  /\ pc[arm] = "home"
  /\ SendFsm(arm, "HOME")
  /\ Goto(arm, "homing")
  /\ UNCHANGED <<queue, batch, got, trajectory, published, active, priming, done, stopping>>

ArriveHome(arm) ==
  /\ pc[arm] = "homing"
  /\ Reset(arm, "HOME")

ProcessStop(arm) ==
  /\ pc[arm] = "process"
  /\ First(arm, {"STOP"})
  /\ Leave(arm, "exited")

(* The gate after the batch: a waypoint starts the priming, a later tick   *)
(* sends FSM 3.  got_waypoint is cleared here instead of in the next tick. *)
(* After HOLD and HOME the gate does nothing.                              *)
Gate(arm) ==
  /\ pc[arm] = "process"
  /\ batch[arm] = <<>>
  /\ Goto(arm, "tick")
  /\ IF ~ManageFsm(arm) \/ active THEN UNCHANGED <<active, priming, mink>>
     ELSE IF priming
     THEN \/ UNCHANGED <<active, priming, mink>>
          \/ Fsm("ACTIVE") /\ active' = TRUE /\ priming' = FALSE
     ELSE priming' = got[arm] /\ UNCHANGED <<active, mink>>
  /\ got' = [got EXCEPT ![arm] = FALSE]
  /\ UNCHANGED <<queue, batch, trajectory, published, done, stopping>>

Run(arm) ==
  \/ Tick(arm) \/ StopEvent(arm) \/ ProcessWaypoint(arm)
  \/ ProcessHold(arm) \/ ProcessHome(arm) \/ MoveHome(arm) \/ ArriveHome(arm)
  \/ ProcessStop(arm) \/ Gate(arm)
-----------------------------------------------------------------------------
QueuesOK(q) == q \in [Arms -> UNION {[1..n -> Commands] : n \in 0..QueueSize}]

ControllersTypeOK ==
  /\ QueuesOK(queue) /\ QueuesOK(batch)
  /\ pc \in [Arms -> {"tick", "process", "home", "homing"} \union Ended]
  /\ got \in [Arms -> BOOLEAN]
  /\ trajectory \in [Arms -> SUBSET Episodes]
  /\ published \in [Arms -> Episodes \union {Measured}]
  /\ active \in BOOLEAN /\ priming \in BOOLEAN
  /\ done \in [Arms -> [Stops -> BOOLEAN]]
  /\ stopping \in [Arms -> BOOLEAN]
  /\ mink \in {"HOLD", "HOME", "ACTIVE"}
=============================================================================
