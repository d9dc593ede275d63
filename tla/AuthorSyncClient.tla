-------------------------- MODULE AuthorSyncClient --------------------------
(***************************************************************************)
(* task487_client.py in author-sync mode, from the scheduler to the        *)
(* setpoints: the control loop's pass, the one request a worker may hold,  *)
(* UmiEnv.exec_actions, and one arm and one gripper controller process,    *)
(* each with the path it plays.  What a HOLD does inside the arm process   *)
(* is the subject of UmiEnvStops; here it takes effect at once.            *)
(***************************************************************************)
EXTENDS AuthorSyncScheduler

CONSTANTS
  Slopes,        \* how far the policy may ask to move per target
  MaxWaypoints,  \* --max-waypoints; 0 is --continuous
  ArmPeriod,     \* an arm controller schedules for its next tick
  PromptAnswer,  \* ticks within which an answer is on time
  Transport,     \* a queued command is drained within so many ticks
  MaxNow, MaxRounds  \* bounds of the model

ASSUME AuthorSyncClientAssumption ==
  /\ Slopes \subseteq Int
  /\ {MaxWaypoints, ArmPeriod, PromptAnswer, Transport, MaxRounds} \subseteq Nat
  /\ MaxNow \in Nat \ {0}

NoJob == [round |-> 0]
Devices == {"arm", "grip"}
Latency == [arm |-> RobotLatency, grip |-> GripperLatency]

VARIABLES
  now,       \* time.time()
  phase,     \* where the pass of the control loop is
  nextPass,  \* next_tick
  seen,      \* what this pass observed, and when
  batch,     \* the knots this pass has popped
  sch,       \* the scheduler
  job,       \* the request the worker holds
  round,     \* active_round_id
  executed,  \* executed_in_round
  path,      \* pose_interp of each controller
  policy,    \* policy_interp of the gripper controller
  inbox,     \* the waypoints in each controller's queue
  putAt,     \* when the oldest of them were put
  crashed,   \* a ValueError ended the client or a controller
  submitted, \* waypoints of this round handed to exec_actions
  settled,   \* the gripper had stopped when the round began
  slow       \* an answer of this round is late, or another's is in its way

pass == <<phase, nextPass, seen, batch>>
devices == <<path, policy, inbox, putAt>>
vars == <<now, pass, sch, job, round, executed, devices, crashed, submitted, settled, slow>>

(* read_live_targets.  The code reports the gripper's measured angle here;  *)
(* in the model the gripper is where its setpoint is.                      *)
Setpoint(t) == [arm |-> At(path.arm, t), grip |-> At(path.grip, t)]
-----------------------------------------------------------------------------
Init ==
  /\ now = 1 /\ phase = "idle" /\ nextPass = 1 /\ batch = {}
  /\ seen = [time |-> 1, arm |-> 0, grip |-> 0]
  /\ sch = Created /\ job = NoJob /\ round = 0 /\ executed = 0
  /\ path = [d \in Devices |-> Still(1, 0)] /\ policy = Still(1, 0)
  /\ inbox = [d \in Devices |-> <<>>] /\ putAt = [d \in Devices |-> 1]
  /\ crashed = FALSE /\ submitted = 0 /\ settled = TRUE /\ slow = FALSE

(* A pass with a batch to send may take a tick longer before it pops it,   *)
(* and again on the way to exec_actions.                                   *)
Waits ==
  \/ phase = "idle" /\ now < nextPass
  \/ phase = "polled" /\ now = seen.time /\ Unsent(sch) # {}
  \/ phase = "popped"

Tick ==
  /\ ~crashed /\ now < MaxNow /\ Waits
  /\ \A d \in Devices : inbox[d] # <<>> => now < putAt[d] + Transport
  /\ now' = now + 1
  /\ phase' = IF phase = "popped" THEN "sending" ELSE phase
  /\ UNCHANGED <<nextPass, seen, batch, sch, job, round, executed, devices, crashed,
                 submitted, settled, slow>>

(* The scheduler becomes s; when that is a HOLD, hold_robot drops what the *)
(* arm has queued and stops it where it is.  The gripper goes on.          *)
Become(s) ==
  /\ sch' = s
  /\ IF sch.state = "ACTIVE" /\ s.state = "HOLD"
       THEN /\ path' = [path EXCEPT !.arm = Still(now, At(@, now))]
            /\ inbox' = [inbox EXCEPT !.arm = <<>>]
            /\ UNCHANGED <<policy, putAt>>
       ELSE UNCHANGED devices

AtPass == ~crashed /\ phase = "idle" /\ now = nextPass

(* Key [d]. *)
Start ==
  /\ AtPass /\ sch.state = "HOLD" /\ round < MaxRounds
  /\ sch' = Activate(sch, Setpoint(now))
  /\ round' = round + 1 /\ executed' = 0 /\ submitted' = 0
  /\ settled' = (inbox.grip = <<>> /\ Final(path.grip) <= now)
  /\ slow' = (job # NoJob)
  /\ UNCHANGED <<now, pass, job, devices, crashed>>

(* Key [s]. *)
Pause ==
  /\ AtPass /\ sch.state = "ACTIVE"
  /\ Become(Hold(sch, "operator pause"))
  /\ UNCHANGED <<now, pass, job, round, executed, crashed, submitted, settled, slow>>

(* The pass observes, and retires what has been reached.  The clock of the *)
(* model starts with the first round.                                      *)
Observe ==
  LET before == ObserveController(sch, Setpoint(now))
      after  == Advance(before, now)
      count  == IF after.state = "ACTIVE" THEN Cardinality(Done(before, now)) ELSE 0
      limit  == MaxWaypoints # 0 /\ executed + count >= MaxWaypoints
  IN /\ AtPass /\ round > 0
     /\ phase' = "observed" /\ nextPass' = now + Dt
     /\ seen' = [time |-> now, arm |-> At(path.arm, now), grip |-> At(path.grip, now)]
     /\ executed' = executed + count
     /\ IF sch.state # "ACTIVE" THEN UNCHANGED <<sch, devices>>
        ELSE Become(IF limit THEN Hold(after, "bounded round complete") ELSE after)
     /\ UNCHANGED <<now, batch, job, round, crashed, submitted, settled, slow>>

NoAnswer ==
  /\ ~crashed /\ phase = "observed"
  /\ phase' = "polled"
  /\ slow' = (slow \/ (sch.pending /\ now - job.time >= PromptAnswer))
  /\ UNCHANGED <<now, nextPass, seen, batch, sch, job, round, executed, devices, crashed,
                 submitted, settled>>

(* worker.poll returns the answer.  The policy asks for a move at a steady *)
(* rate from the setpoint it was shown.                                    *)
Answer(slope) ==
  LET targets == [k \in 1..ActionHorizon |->
                    [arm |-> job.arm + k * slope, grip |-> job.grip - k * slope]]
  IN /\ ~crashed /\ phase = "observed" /\ job # NoJob
     /\ phase' = "polled" /\ job' = NoJob
     /\ IF job.round = round /\ sch.state = "ACTIVE"
          THEN Become(MergeChunk(sch, targets, now - job.time, now))
          ELSE UNCHANGED <<sch, devices>>
     /\ UNCHANGED <<now, nextPass, seen, batch, round, executed, crashed, submitted,
                    settled, slow>>

AnswerFails ==
  /\ ~crashed /\ phase = "observed" /\ job # NoJob
  /\ phase' = "polled" /\ job' = NoJob
  /\ IF job.round = round /\ sch.state = "ACTIVE"
       THEN Become(Hold(sch, "inference failed"))
       ELSE UNCHANGED <<sch, devices>>
  /\ UNCHANGED <<now, nextPass, seen, batch, round, executed, crashed, submitted,
                 settled, slow>>

(* submit_rtc_request, when it is called and the worker is free.           *)
Committed(s) == Cardinality(s.sent)

Asks(s) ==
  /\ RequestDue(s, now)
  /\ MaxWaypoints = 0 \/ executed + Committed(s) < MaxWaypoints
  /\ job = NoJob

Requested(s) == IF Asks(s) THEN MarkRequestStarted(s, now) ELSE s

JobAfter(s) ==
  IF Asks(s) THEN [round |-> round, time |-> seen.time, arm |-> seen.arm, grip |-> seen.grip]
  ELSE job

RequestAndPop ==
  LET asked == Requested(sch)
      left  == MaxWaypoints - executed - Committed(asked)
      taken == IF MaxWaypoints = 0 THEN Unsent(asked) ELSE Earliest(Unsent(asked), left)
      after == IF MaxWaypoints # 0 /\ left <= 0 THEN asked ELSE PopBatch(asked, taken, now)
  IN /\ ~crashed /\ phase = "polled"
     /\ Become(after)
     /\ job' = JobAfter(sch)
     /\ batch' = after.sent \ asked.sent
     /\ phase' = IF batch' = {} THEN "idle" ELSE "popped"
     /\ UNCHANGED <<now, nextPass, seen, round, executed, crashed, submitted,
                    settled, slow>>
-----------------------------------------------------------------------------
(* UmiEnv.exec_actions of the batch just popped, in the order of its       *)
(* times.  Each device is sent the knots its own latency earlier, and the  *)
(* splice with the first.                                                  *)
Rank(times, t) == Cardinality({u \in times : u <= t})
InOrder(times) ==
  [i \in 1..Cardinality(times) |-> CHOOSE t \in times : Rank(times, t) = i]

NewTimes == InOrder({t \in batch : t > now})

BoundaryRejected ==
  \/ sch.plan.from - LatencyBudget <= now
  \/ NewTimes = <<>>
  \/ sch.plan.from >= NewTimes[1]

WaypointsAlone(d) ==  \* mutant: no replacement boundary is sent
  [i \in 1..Len(NewTimes) |->
     [time |-> NewTimes[i] - Latency[d], pose |-> sch.plan[d][NewTimes[i]],
      boundary |-> NoBoundary]]

Waypoints(d) ==
  [i \in 1..Len(NewTimes) |->
     [time |-> NewTimes[i] - Latency[d], pose |-> sch.plan[d][NewTimes[i]],
      boundary |-> IF i = 1 THEN sch.plan.from - Latency[d] ELSE NoBoundary]]

ExecActions ==
  /\ ~crashed /\ phase \in {"popped", "sending"}
  /\ phase' = "idle" /\ batch' = {}
  /\ IF BoundaryRejected
       THEN crashed' = TRUE /\ UNCHANGED <<sch, job, devices, submitted>>
       ELSE /\ inbox' = [d \in Devices |-> inbox[d] \o Waypoints(d)]
            /\ putAt' = [d \in Devices |-> IF inbox[d] = <<>> THEN now ELSE putAt[d]]
            /\ submitted' = submitted + Len(NewTimes)
            /\ sch' = Requested(sch) /\ job' = JobAfter(sch)
            /\ UNCHANGED <<path, policy, crashed>>
  /\ UNCHANGED <<now, nextPass, seen, round, executed, settled, slow>>

(* A controller takes what is in its queue; the client may have put only   *)
(* the first waypoint so far.  Within the tick in which a pass observes it *)
(* does so before or after the pass.                                       *)
Takes(d) ==
  {n \in {1, Len(inbox[d])} : inbox[d] # <<>> /\ (phase = "idle" \/ now # seen.time)}

Schedule(p, w, curr, speed) ==
  ScheduleWaypoint(p, w.pose, w.time, curr, Final(p), w.boundary, speed)

Invalid(w, curr) == BoundaryInvalid(w.time, curr, w.boundary)

ArmPaths(n, curr) ==  \* after none, one, ... n of them
  LET after[i \in 0..n] ==
        IF i = 0 THEN path.arm ELSE Schedule(after[i - 1], inbox.arm[i], curr, ArmSpeed + 1)
  IN after

DrainArm(n) ==
  LET curr == now + ArmPeriod
  IN /\ ~crashed
     /\ inbox' = [inbox EXCEPT !.arm = SubSeq(@, n + 1, Len(@))]
     /\ path' = [path EXCEPT !.arm = ArmPaths(n, curr)[n]]
     /\ crashed' = \E i \in 1..n : Invalid(inbox.arm[i], curr)
     /\ UNCHANGED <<now, pass, sch, job, round, executed, policy, putAt, submitted,
                    settled, slow>>

(* The gripper controller also keeps the path of the policy's own angles,  *)
(* which follows the physical path's times without a speed limit.          *)
GripAfterAsked(p, w) ==  \* mutant: the reference takes the time that was asked for
  [path |-> Schedule(p.path, w, now, GripperSpeed + 1),
   policy |-> ScheduleWaypoint(p.policy, w.pose, w.time, now, Final(p.path), w.boundary,
                               Unlimited)]

GripAfter(p, w) ==
  LET physical == Schedule(p.path, w, now, GripperSpeed + 1)
  IN [path |-> physical,
      policy |-> ScheduleWaypoint(p.policy, w.pose, Final(physical), now, Final(p.path),
                                  w.boundary, Unlimited)]

GripPaths(n) ==
  LET after[i \in 0..n] ==
        IF i = 0 THEN [path |-> path.grip, policy |-> policy]
        ELSE GripAfter(after[i - 1], inbox.grip[i])
  IN after

DrainGrip(n) ==
  LET after == GripPaths(n)[n]
  IN /\ ~crashed
     /\ inbox' = [inbox EXCEPT !.grip = SubSeq(@, n + 1, Len(@))]
     /\ path' = [path EXCEPT !.grip = after.path]
     /\ policy' = after.policy
     /\ crashed' = \E i \in 1..n : Invalid(inbox.grip[i], now)
     /\ UNCHANGED <<now, pass, sch, job, round, executed, putAt, submitted, settled, slow>>

Client ==
  \/ Start \/ Pause \/ Observe \/ NoAnswer \/ AnswerFails
  \/ \E slope \in Slopes : Answer(slope)
  \/ RequestAndPop \/ ExecActions

Next ==
  \/ Tick \/ Client
  \/ \E n \in Takes("arm") : DrainArm(n)
  \/ \E n \in Takes("grip") : DrainGrip(n)

Spec == Init /\ [][Next]_vars
-----------------------------------------------------------------------------
(* The shape of the state of author_sync.py:118-145 and of the loop; and   *)
(* an open request is the one the worker holds for this very round, in an  *)
(* ACTIVE scheduler, and no older than the timeout and the pass that       *)
(* notices it (author_sync.py:295-297).                                    *)
AuthorSyncTypeOK ==
  /\ now \in 1..MaxNow /\ nextPass \in 1..MaxNow + Dt
  /\ phase \in {"idle", "observed", "polled", "popped", "sending"}
  /\ sch.state \in {"HOLD", "ACTIVE"}
  /\ sch.sent \subseteq sch.queue /\ batch \subseteq sch.sent
  /\ sch.queue # {} => sch.queue \subseteq DOMAIN sch.plan.arm
  /\ sch.pending => /\ sch.state = "ACTIVE" /\ job.round = round
                    /\ now - sch.pendingSince <= RequestTimeout + Dt
  /\ sch.state = "HOLD" => sch.queue = {}
  /\ executed \in Nat /\ round \in 0..MaxRounds

Tolerance == 2

Follows(p, planned, from, to, latency) ==
  \A t \in from..to : Distance(At(p, t), At(planned, t + latency)) <= Tolerance

Submitted == phase \in {"idle", "observed"} /\ sch.state = "ACTIVE" /\ Unsent(sch) = {}

(* Once a plan is submitted and drained, each controller plays it, its own *)
(* latency ahead of the physical time, from the splice to the end: neither *)
(* the latency, nor the speed limit of the controller, nor the time the    *)
(* batch spent in the queue moves the setpoint off the plan                *)
(* (author_sync.py:329-374, umi_env.py:1069-1122).  The gripper is held to *)
(* it only if no earlier round had left it moving: HOLD stops the arms     *)
(* alone.                                                                  *)
PlanFollowed ==
  Submitted /\ sch.plan # NoPlan =>
    \A d \in Devices :
      inbox[d] = <<>> /\ (d = "grip" => settled) =>
        Follows(path[d], sch.plan[d], Max2(now, sch.plan.from - Latency[d]),
                Final(sch.plan[d]) - Latency[d], Latency[d])

(* Draining a chunk leaves the setpoint alone up to the time the chunk     *)
(* begins to replace the old one: the controller neither brakes nor jumps  *)
(* while the new plan is still in the future (author_sync.py:327-331,      *)
(* pose_trajectory_interpolator.py:115-127).                               *)
Curr == [arm |-> now + ArmPeriod, grip |-> now]

KeptUntil(d) ==
  LET starts == {inbox[d][i].boundary : i \in DOMAIN inbox[d]} \ {NoBoundary}
  IN CHOOSE t \in starts \union {Final(path[d])} :
       \A u \in starts \union {Final(path[d])} : t <= u

Keeps(d) == Follows(path'[d], path[d], Curr[d], KeptUntil(d), 0)

PrefixKept ==
  [][\A d \in Devices :
       /\ inbox'[d] # inbox[d] /\ path'[d] # path[d] /\ sch'.state = sch.state
       /\ d = "grip" => settled
       => Keeps(d)]_vars

(* The gripper's reading in policy coordinates is the measured angle less  *)
(* the offset being played; with no offset the two paths are the same,     *)
(* also where the physical path was stretched by the speed limit           *)
(* (ros_gripper_controller.py:380-386,443-455).                            *)
PolicyFollowsPhysical == policy = path.grip

(* A pass that takes at most a tick longer and a queue drained within      *)
(* Transport never meet a splice that is already past: exec_actions and    *)
(* the interpolators raise a ValueError there, which nothing catches       *)
(* (umi_env.py:1071-1075, pose_trajectory_interpolator.py:124-125).        *)
NoBoundaryError == ~crashed

(* A round whose answers all come within PromptAnswer ticks never runs out *)
(* of waypoints, whatever chunks the policy sends: the window submitted    *)
(* covers the request, the answer and the splice                           *)
(* (author_sync.py:194-210,363,413-416).                                   *)
NoStarvation == sch.reason = "queue exhausted" => slow

(* README_CLIENT_SYNC.md:27,79: a bounded round sends at most so many      *)
(* waypoints, it does not only stop after counting so many reached.        *)
SubmittedWithinLimit == MaxWaypoints # 0 => submitted <= MaxWaypoints
=============================================================================
