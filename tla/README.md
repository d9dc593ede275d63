# Verification of the Task487 deployment stack

TLA+ models, TLC runs and TLAPS proofs for the part of this repository that
drives two robot arms and two grippers from a policy server:
`task487_client.py`, `task487_runtime/`, the controllers and the shared memory of
`universal_manipulation_interface_ur/umi`, and the gripper node of
`backend/ros2_ws`. A policy answers each request with a chunk of future
waypoints; the client splices the chunks into one timeline, sends a part of it to
the controllers ahead of time, and falls back to HOLD when anything is wrong.

## 1. The system

| Part | State | Operations | Interacts with |
|---|---|---|---|
| Rolling scheduler, `task487_runtime/scheduler.py` | RunState; the parallel arrays `_queue`, `_times`, `_nominal_times`, `_sent`; request bookkeeping; workspace floor | `activate`, `hold`, `advance`, `request_due`, `mark_request_started`, `merge_chunk`, `pop_batch`, `validate_physical_tracking` | called by the client loop, one thread |
| Author-sync scheduler, `task487_runtime/author_sync.py` | fixed request cadence, submitted trajectory, the time of the pending request, right-before-left gate | the same interface | client loop |
| Inference worker, `task487_runtime/worker.py` | two queues of size 1, the Event `_busy`, a daemon thread | `submit`, `poll`, `close`, `_run` | client loop, policy server, recorder |
| Policy exchange recorder, `task487_runtime/policy_logging.py` | bounded queue, counters, writer thread | `record`, `close`, `_run` | worker, client |
| Client loop, `task487_client.py` | task, round id, waypoints executed, gripper readiness, last sensor error | one pass: task window, keys, sensors, tracking, result, request, dispatch | everything |
| Gripper compensation and preload, `task487_runtime/gripper_*.py` | intent per hand | pure updates per chunk | author-sync scheduler |
| Environment, `umi/real_world/umi_env.py` | processes, task selection under a lock | `exec_actions`, `hold`, `go_home`, `get_obs` | client loop, controllers |
| Arm controller, `umi/real_world/ros_target_interpolation_controller.py` | interpolator, `active`, pending activation, HOLD/HOME events | a process that drains its command queue every tick; UDP to the Mink FSM | environment |
| Gripper controller, `umi/real_world/ros_gripper_controller.py` | physical path and policy reference | a process that drains its command queue | environment, CAN node |
| Trajectory interpolator, `umi/common/pose_trajectory_interpolator.py` | times and poses | `schedule_waypoint`, `trim`, evaluation | controllers |
| Shared memory, `umi/shared_memory/*.py` | counters and arrays | `put`, `get`, `get_k`, `get_all`, `get_last_k`, `clear` | between processes, without locks |
| Gripper CAN node, `backend/ros2_ws` | stall latch per gripper | control cycle | ROS topics, CAN |
| Thor camera stream, `thor-camera-stream` | frames and metadata | receive, match | environment |

Outside: the policy server and its training code (openpi, diffusion_policy),
CAN drivers, calibration, mask rendering, trajectory replay and offline
evaluation.

**What is hard.** An inference takes several control steps: by the time it
answers, part of the prefix it was given was executed, or a part of the plan it
continues was already played by some of the devices, so index and time arithmetic
must splice it where each controller's own path ends. Waypoints are sent ahead of
time and cannot be taken back. Chunks may be late, stale, unsafe at the tail or
mismatched. The inference thread, the writer thread, the task window, the
operator and a process per device act between any two steps of the loop, and an
answer may belong to a round that no longer exists. The processes share memory without
locks. Every error path must reach HOLD both in software and in the robots.
`PROJECT.json` lists these hazards at their lines.

**What makes each part correct.**

* Schedulers: what was sent is not disturbed until it is due; the answer is
  spliced at the right waypoint or time; the plan obeys the step, floor and speed
  limits across seams; nothing is sent that a controller must refuse; no request
  is repeated without progress, none stays pending for ever, and answers in time
  never starve the round.
* Worker and recorder: one request in flight, every accepted request answered,
  shutdown ends; the file tells the exchanges in order, and a counter tells what
  it lacks.
* Client: an answer is merged only into the round that asked; a HOLD never stays
  in software only; a bounded round never exceeds its limit and ends; leaving the
  loop always ends in a HOLD command and a closed worker.
* Arm controllers: a confirmed HOLD or HOME has stopped both arms and Mink until
  the next action is sent, or is about to; no target of an earlier round reaches an ACTIVE Mink;
  every queued stop takes effect.
* Grippers: the reading the policy gets is the one its reference implies; a stall
  latch is never left behind by `[r]`, never released by a request that closes, and
  the left hand moves only after the right one has closed, opened and settled.
* Shared memory: a bounded FIFO without locks; no torn reads.

## 2. Modules

| Module | Models |
|---|---|
| `RollingScheduler` | `scheduler.py`, one action per method; ends with the refinement mapping to `CommitPipeline` |
| `CommitPipeline` | the abstract promise of the scheduler: counts of committed and replaceable waypoints, and when a request may be made |
| `InferenceWorker` | `worker.py`: the thread's steps, two bounded queues, `_busy` |
| `PolicyRecorder` | `policy_logging.py`: `record` step by step, the writer thread, `close` |
| `PolicyExchange` | the two composed with a control loop that submits, polls and closes at any point |
| `Task487Client` | the loop of `main()` in rolling mode; EXTENDS `CommitPipeline` (the scheduler) and instantiates `InferenceWorker` |
| `MCTask487ClientSwitch` | that loop with a history variable for the task switch |
| `RosTargetController` | the two arm processes, the command queue of each, and the Mink state machine they share |
| `UmiEnvStops` | `UmiEnv`'s calls to them, in the client's order; EXTENDS `RosTargetController` |
| `PoseTrajectory` | the interpolator's `trim`, `schedule_waypoint` and evaluation, as operators |
| `AuthorSyncScheduler` | `author_sync.py` as functions from a scheduler to a scheduler |
| `AuthorSyncClient` | the loop's passes in author-sync mode, `exec_actions`, an arm and a gripper controller with their paths; EXTENDS both |
| `GripperCanNode` | one cycle of the CAN node's position mode with its stall guard |
| `GripperHandoff` | intent, compensation, the right-before-left gate, `[r]`, `[d]`, `[s]`, both grippers and what they hold; EXTENDS `GripperCanNode` |
| `MCGripperHandoff` | an instance of it, with a hard object and soft ones |
| `CommandFifo` | the abstract bounded FIFO |
| `SharedMemoryQueue` | `put`, `get`, `get_k`, `get_all`, `clear`, one access to shared memory at a time; refines `CommandFifo` |
| `MCSharedMemoryQueue` | an instance of it, with a command that leaves keys out |
| `SharedMemoryRingBuffer` | `put`, `get`, `get_last_k`, with their time budgets |
| `RollingSchedulerProofs` | lemmas about the scheduler's operators; its safety, pace and order of dispatch; the refinement |
| `Task487ClientProofs` | one round at a time, HOLD reaches the robots, the limit of a bounded round |
| `UmiEnvStopsProofs` | what a confirmed stop means, fresh targets, what a stop drops |
| `GripperHandoffProofs` | the gate, the latch and the preparation of the grippers |
| `SharedMemoryQueueProofs` | the invariant of the queue, whole commands, and the refinement |
| `SharedMemoryRingBufferProofs` | whole reads, paced and under bursts |
| `PolicyExchangeProofs` | the worker and the recorder in composition: one request in flight, the log in order and complete |
| `AuthorSyncProofs` | the assertions of `schedule_waypoint` and what it does to a path; the types, the age of a request, the boundaries, the supply of waypoints and the gripper's reference in author-sync mode |

**Correspondence, rolling mode.** In `RollingScheduler`, `queue`, `times`,
`nominal`, `sent` are `_queue`, `_times`, `_nominal_times`, `_sent`; `pending`,
`steps`, `totalCompleted`, `startCompleted`, `lastRequested`, `requestPrefix`,
`lastScheduled`, `floor` are the attributes of the same purpose. A 14-vector
target (two poses and two grippers) is one integer, a height: the guards the code
evaluates on translation, rotation and gripper of two arms have the same form,
and the workspace floor is about a height. Time is an integer number of ticks;
`now` is the clock of the loop. A merge that the code rejects by an exception
after `hold()` is the action's HOLD branch. The blend is integer division of the
same weighted mean, which lies between the two targets as the real one does.
`_clear_timeline` there leaves `_request_pending` and
`_last_requested_target_time` to its two callers, which both reset them;
`ClearTimeline` includes that. `activate` is only called from HOLD.

**Client.** In `Task487Client`, `pc` is the place in the pass of the loop. The
variables of `CommitPipeline` are the scheduler; `fresh` and `progressed` summarise
its request bookkeeping. `physical` is what the robots were last told: HOLD
confirmed, HOLD commanded but unconfirmed, or TRACKING. `hold_robot` raises when a
confirmation times out; where the loop does not catch it the loop is left. The
sensors, the operator and `exec_actions` may fail whenever they are called.

**Worker and recorder.** A call of `record` has three steps that other threads
see: the test of `_stop`, the put, and the count; its item is the event and the
request id. The recorder's writes may fail, its snapshots too. `late` records that
the two seconds of `close()` ended with the inference thread still at work.

**Arms.** In `RosTargetController` each arm's `pc` is a place in `run()`: the start
of a tick, the batch that `get_all` returned, the two sleeps of GO_HOME, or ended. A
waypoint is the round it was planned in, the trajectory the set of rounds whose
waypoints it still holds; a sample of it may be any of them or the measured
pose. A waypoint that comes too late leaves the trajectory as it is. Times are
abstracted: priming, homing and the time-outs of `hold` and `go_home` take any
number of ticks. A controller may fail at any step, and its `finally` releases
whoever waits. In `UmiEnvStops`, `call` and `step` are the method in progress
and how far it is: `exec_actions` serves all waypoints of the right arm, then
those of the left; `hold` and `go_home` clear the event of an arm (`ClearDone`), put
its command (`PutStop`), do the same with the other arm and then await both; `stop`
puts STOP and then sets the stop event (`SetStopEvent`). A controller may do anything
between two of these steps. `early` are the arms whose event was set again between
the clear and the put of the present call, which only the command of an earlier,
timed-out call can do. `clean` says that no call so far was left unconfirmed. Steps of the two
processes and the caller interleave; a datagram to Mink or the bridge arrives.

**Author-sync mode.** A path is a function from its knots' times to positions,
one coordinate for a pose and one for a gripper. `AuthorSyncScheduler` has one
operator for each method, from a scheduler record to a scheduler record;
`AuthorSyncClient` plays them in the order of the pass and gives every device its
own latency, queue and path (`PoseTrajectory`). A pass that has a batch may slip by
a tick before `pop_batch` and by another one before `exec_actions`, and a controller
may drain only the first of the waypoints queued. The answer comes after any
delay, or never, or is an error. `policy` is the gripper's policy reference beside
its physical path. `settled` and `slow` are history variables: they exclude from
two properties a gripper still moving after a HOLD, and answers later than
`PromptAnswer`. The arm's HOLD is atomic here; `UmiEnvStops` details it. Only
25 Hz knots are modelled.

**Grippers.** In `GripperHandoff` angles are quarters of a degree and a step is
one `.08 s` control period. `GripperCanNode!RunCycle` is the node's cycle: clamp,
release of the latch by a request that opens, closing and its stall counter, of
which the model keeps the verdict (`poll_stall` counts cycles of no motion, and may
report a stall whenever the request stayed and the motor was blocked). An object
blocks the motor and may give way, by its own `Soft`. `[r]` opens and closes both grippers
in the stages of `prepare_grippers_for_runtime` and may time out in each. At the start
`prepared` is what `grippers_are_ready` has found of both hands: never TRUE when the right
one is out of the tolerance, and possibly FALSE because of the left one.

**Shared memory.** In `SharedMemoryQueue` a slot holds one value per key and the
reader and writer copy key by key; a key the command leaves out keeps what the slot
held. In `SharedMemoryRingBuffer` time passes between the accesses; `put` sleeps
while the writer is too fast for the budget and raises after it, `get_last_k`
raises when it took longer than the budget.

## 3. Runs

| Run | Question | Instance |
|---|---|---|
| `rolling` | all scheduler properties, rolling mode; refinement of `CommitPipeline` | heights 0..2, chunks of 3, commit 2 within a window of 2, queue 2, clock to 6 |
| `exchange` | worker, recorder and an arbitrary caller | 2 rounds, 2 requests, log queue 2 |
| `client` | the loop: safety, a bounded round ends, a shutdown ends | limit 3 waypoints, commit 2, queue 3, 2 rounds, 4 requests, 2 tasks, 2 faults |
| `stops` | both arm controllers against `exec_actions`, `hold`, `go_home`, `stop`; every queued stop takes effect | 2 rounds, queue 2, chunks of 1, one stop in the loop and the one on exit |
| `queue` | the lock-free queue is a FIFO and delivers whole commands | 2 slots, 4 puts, 3 items of 3 keys |
| `ring` | reads are whole, paced and under bursts | `get_max_k` 2, budget 4 ticks, 6 puts |
| `author_sync` | what is planned is played, splices, starvation, timeout | chunks of 8, a request every 2, 2 rounds, 16 ticks |
| `handoff` | gate, `[r]`, latch | 3 requests, a hard object and two soft ones |
| `client_switch` | the documented hot task switch | expected violation |
| `stops_late` | a confirmed HOLD stands, however late the confirmation | expected violation |
| `stops_failed` | a confirmed HOLD means that Mink left ACTIVE | expected violation |
| `author_bounded` | the limit bounds what is submitted | expected violation |

What the less obvious properties say:

* `AnswerInStep`: while the round goes on, each waypoint an answer adds to the plan is
  the one the policy meant for that place, counted from the observation, with what was
  executed since and what is committed; without a prefix nothing late is planned. An
  answer that comes after its whole prefix was executed is therefore never played from
  its start.
* `ConfirmedIsSafe`: a `hold` or `go_home` that returned has stopped both arms and Mink
  until the next `exec_actions`, also when the confirmation is the late one of an
  earlier call that had timed out. The exception is in the code, and in the property:
  when that confirmation falls between the clear and the put, the arm may still play a
  waypoint queued between the two commands. The new command is then under way
  (`StopQueued`), unless STOP has ended the controller before it. `stops_late` shows the
  exception.
* `EvidenceInOrder`, `NothingLost`: two threads write the log; request, response and
  disposition of each exchange appear in this order, and every call ends up in the
  file or in a counter. When the inference thread did not return in time an item
  may be put after the writer's last test and stay unwritten; the code says so in
  its warning, and `NothingLost` excepts it.
* `PlanFollowed`, `PrefixKept`: every device plays, a latency early, what the
  scheduler believes was submitted, up to an integer rounding of two units; and a
  drain never changes a path before the moment it was told to replace it from.
* `NoBoundaryError`: no controller refuses or raises on a waypoint the client sends.
* `NoStarvation`: with answers in `PromptAnswer` ticks a round is not held by an
  exhausted queue. `AuthorSyncTypeOK` also bounds the age of the pending request.
* `PolicyFollowsPhysical`: with no offset commanded the policy reference and the
  physical path of the gripper are the same, whatever the speed limit stretched. The
  run drains a queue within `Transport`; with `Transport = 4` TLC finds them apart,
  because a waypoint is late or outrun (see `ReferenceFollows` in section 4).
* `LeftAfterRight`: the left side moves only in an episode in which the right hand
  was told to open, to close and to open again, has measurably opened since, and
  stayed for .16 s within half a degree of the goal.
* `PreparedMeansRearmed`, `GripHeld`, `OpeningReleasesLeft`: grippers that count
  as prepared no longer hold the grip they had when `[r]` was pressed; a latched grip
  is let go only by a request more open than the one that pressed it by the re-arm
  delta, less what the fingers can have closed since; once the
  second opening has its goal and the policy keeps asking for it, the left side is
  released or there is a HOLD.
* `PacedReadWhole`, `BurstReadWhole`: with a writer at its design rate `put` is never
  throttled and a read within the budget is whole; with bursts an item is still
  protected for the budget after it was written.

**Why the bounds are enough.** Three heights with limits of one give safe and
unsafe steps, mismatching prefixes and waypoints below the floor. A chunk of
three over a commit limit of two gives every split into executed, preserved, new,
truncated by safety and truncated by the queue. In `rolling` the queue limit
equals the commit limit, the tightest value the constructor accepts, so the cut
falls next to the committed prefix. The commit window (.4 s in the deployment at
12.5 Hz, `scheduler.py:117`) is two ticks, shorter than the plan, so that it decides
what is sent. Six ticks
are enough for two overlapping requests after an activation, with a late tail
retimed in between. Two rounds of the client give an answer of an older round in
a later one, and a limit of three is not a multiple of the commit limit.
For the arms, a queue of two fills up with a waypoint and a stop, or with two
stops of which the first timed out, and two rounds are what a stale target
needs; every command beyond two queues behind the same ones. `MaxEpisode` and
`MaxCalls` bound rounds and stops. A log queue of two overflows with two requests
in three events each.

In `author_sync` a tick is half a control step (`Dt` 2), so latencies of one and two
ticks and a slip of one tick all fall between knots. Eight actions at a request
every two give three overlapping chunks, and one chunk may be spliced before, at or
behind the end of what is queued. Two slopes give a change of direction at every
splice; the speeds let a stretched knot run into the next one. 16 ticks hold a
request that times out (10) after a first chunk, and a second round; longer
horizons (20 ticks, one round) and `Playback` 2 were run by hand with the same
outcome. In the queue four puts into two slots wrap around twice; in the ring six
puts lap the buffer. In `handoff` the requests are an open, a middle and a closed
angle of the deployment's range. The objects block above and below the middle one; the
hard one is narrower than the node closes further, so that its hold is out of reach, and
the soft ones give way by all of the two degrees a latched grip closes further
(`gripper_can.yaml:37`), twice the opening that releases it (`:41`), so that the request
that pressed a grip may release it. The bounds of the angles, not a clock, make the
instance finite.

`MaxTime`, `MaxAge`, `MaxSeq`, `MaxRound`, `MaxPuts`, `MaxNow` and `MaxRounds` only bound
the instances; the proofs hold for every value of those they meet. Where such a
bound stops the clock or the puts (`queue`, `ring`, `author_sync`) the run has no
further step and deadlock is not checked.

**Fairness.** `Task487Client` is a loop that always takes its next step (weak
fairness of `Loop`, and of leaving the keyboard poll, which returns a finite
list). Waypoints fall due as time passes and the sensors deliver again, so
retiring and sensing are strongly fair: a sensor that faults for ever ends in
HOLD anyway. The thread runs; `infer` answers, raises, or hangs for ever, and
`BoundedRoundEnds` excepts the hang while `ShutdownCompletes` does not. In
`PolicyExchange` the three threads run, and a `close()` goes on once it was called;
nothing makes the loop submit, poll or close. In `UmiEnvStops` the loop of the right
controller, which manages Mink, is weakly fair (a process that paces itself by the
clock); its failures, the left controller and the caller are not, and
`StopTakesEffect` needs no more. In `GripperHandoff` the tick in which the motors move and the
loop's pass are weakly fair, and a round that continues gets its requests answered
by chunks that merge (strong fairness of `MergeChunk`, since a merge is possible
only now and then).

**Findings.** `client_switch` shows that a task switch in ACTIVE while an
inference is in flight does not resume: `submit_rtc_request` returns because the
worker is busy with the old round, and in the same pass `pop_batch` finds an empty
queue with no request open and holds "action queue exhausted". The documentation
and the comment at the switch describe an automatic resume. The robots do hold,
so the outcome is safe; the operator has to start again. The same holds of a
quick HOLD and restart by key.

`stops_late` shows that a HOLD may be confirmed without standing, although both
controllers work. `hold()` clears the event and then puts the command
(`ros_target_interpolation_controller.py:290-296`). A HOLD that was drained but not yet
processed when its wait timed out sets the event between the two; the next tick
drains a waypoint of a new round that was queued in the meantime, alone; the second
HOLD is put, and its wait returns at once. Until the controller drains it the waypoint
is published, and the right arm may take Mink to ACTIVE. `umi_env.py:1132` says that
`hold` clears both trajectories and commands HOLD, and the comment at `:196` of the
controller that the event is its confirmation. `ConfirmedIsSafe` says what remains true.

`stops_failed` shows that `UmiEnv.hold` can return as confirmed while Mink is
still ACTIVE: the `finally` of a controller's `run()` sets both events, so the
failure of the right controller with the HOLD still in its queue releases the
waiting caller, and FSM 2 is never sent. The next `hold` raises, since the process
is no longer alive. `ConfirmedIsSafe`, which excepts failed controllers, holds.

`author_bounded` shows that in author-sync mode the limit of a bounded round does
not bound what is submitted, as README_CLIENT_SYNC.md says it does: a merge
replaces the queue and its sent flags, so waypoints submitted and not yet reached
drop out of the count. In rolling mode, where sent waypoints are kept by a merge,
`BoundedRound` holds.

Two limits met while modelling, which no statement of the repository contradicts:
the gate records no goal when the first target after the change from closing to
opening lies within a degree of the measured angle (`author_sync.py:391-395`), and
then does not release the left side until the right hand closes and opens again;
and a grip within a degree of the opening limit cannot be released by `[r]`, since
the request is clipped.

## 4. Proofs

`RollingSchedulerProofs` proves for every horizon, limit, queue size and clock
bound satisfying `ConfigAssumption`: `TypeOK`, `SentIsPrefix`, `PrefixAligned`,
`QueueSafe`, `NothingReplaceableWhilePending`, `SpeedLimited`, the action properties
`CommittedImmutable`, `AnswerInStep` and `DispatchInOrder`, and the refinement
`KeepsPromise`. `NothingReplaceableWhilePending` is about complete-chunk mode, which no
contract sets (`contract.py:193`): it is proved, and no run has the mode.

None of the first five is inductive alone, so the proof is of their conjunction
`IndInv`. The merge shows why: that the first `Preserved` waypoints of the queue
are the committed ones needs `PrefixAligned` (the delay plus what is committed is
the prefix of the request), which needs `SentIsPrefix` when waypoints are retired
or the request is made; that validation never cuts the committed prefix needs
`QueueSafe`; and the queue limit never cuts it because at most `CommitSteps`
waypoints are sent and `MaxQueue >= CommitSteps`. `CommittedImmutable` is then a
property of each step from `IndInv`, and so is `AnswerInStep`: with a prefix the number
of steps an answer has lost is the delay plus what is committed (`MergedSteps`), and
without one it is the number of those that are late (`FreshIsFuture`). There is one lemma per action, and the module
begins with what they need about prefixes, dropped sequences, counting, the
validation and the recursive function of `_retime`.

The pace of the plan is a second invariant, `PaceInv`. `Paced` says that two
neighbours in the queue are as far apart in time as the speed limit asks, also
the first waypoint behind the one sent last; `LastIsLast` says that the record of
what was sent last is the last committed waypoint, and is what carries the
limit across a splice, where the new tail is retimed from that record and not
from the queue. `StepKinds` sorts the steps into what they do to the committed
prefix: retire some of it, send more, splice behind it, or leave it alone. With
`FreshRound` (a round that has sent nothing may ask) each kind is a step of
`CommitPipeline` or a stutter. `DispatchIsInOrder` assumes `DispatchLead > 0`: the
constructor does not check `dispatch_lead_s` (default .05), and with 0 a waypoint
that is late would be moved to the present instant.

`Task487ClientProofs` proves for every limit, commit size, queue and number of
rounds, requests and tasks: `ClientTypeOK`, `PendingIffCurrentInFlight`,
`HoldReachesRobots` and `BoundedRound`. `ExchangeInv` follows the one request through
the worker's queues and says of which round it is at each place of the loop;
`HoldInv` says which places may be between the scheduler's HOLD and the robots'.
From them also `MergeNeverRaises`: the `RuntimeError` of `merge_chunk` without an
open request cannot happen in this loop.

`UmiEnvStopsProofs` proves for every queue size and number of rounds and stops:
`TypeOK`, `ConfirmedIsSafe`, `NoStaleTarget` and `NothingBehindStop`. `ConfirmInv` has to
allow that a call is confirmed by an arm's answer to an earlier one that timed
out, with waypoints of a later round behind it. When that answer came after the put,
the arm is still safe: the call's own command lies behind the
waypoints (`Covered`), so they are dropped before a target is sampled from them
(`Safe`). When it came between the two (`early`), the waypoints may have been drained
alone; then the call's command, or one before it, is still to be served (`Coming`). `CleanInv` follows each stop to the arms: as long as
every call was confirmed, its command is the last one of the arm until it is
served (`OnItsWay`), and an arm's queue, batch and trajectory are empty then
(`Clear`).

`GripperHandoffProofs` proves for all angles, limits and dwell times:
`LeftAfterRight` and `GripHeld`, and under a hypothesis `PreparedMeansRearmed`.
`GateInv` relates the gate's flags to the story of the episode; `HandInv` says where a
latched motor stands relative to the object that stopped it and to the request
that would release it.

* `LatchHolds` needs no hypothesis. The node compares a request with the measured
  opening (`RequestsStallRelease`), and the fingers may have closed since the grip was
  latched: by `Squeezed` no more than what the object gives way, and no more than the
  node closes further. By so much less than the pressing request plus `RearmDelta` a
  request may be and still release the grip. With the deployed values, two degrees
  further and one to release, the request that pressed a soft object can release it,
  as `stall_release.hpp:5-10` and `test_stall_release.cpp:20-22` require; a hard one is
  released only by a request more than a degree more open than that.
* `PreparationLetsGo` assumes that the start pose is narrower than the opening
  limits by more than the release needs. The configurations with a start of 1
  degree (`contract.py:126,137,149`) satisfy it, those that start at
  `MARVIN_GRIPPER_SAFE_OPEN_DEGREES` (`contract.py:164,175`) do not: there TLC finds
  grippers prepared whose grip, within a quarter of a degree of full opening, was
  not released by `[r]`.

`SharedMemoryQueueProofs` proves for every buffer size, set of items and set of
keys that the queue keeps its types (`TypeCorrect`), delivers only whole commands
(`DeliveredIsWhole`) and implements the FIFO of `CommandFifo` (`ImplementsFifo`). Its
invariant `QueueInv` says of the writer that at most the slot after the last
counted item is half written, of the reader that what it has copied so far is the
content of slots the writer may not touch, and of the slots between the two
counters that they are whole. The refinement maps the FIFO's contents to the
commands counted and not yet taken; a put is the step that raises the counter.

`SharedMemoryRingBufferProofs` proves `PacedReadWhole` and `BurstReadWhole` for every
`get_max_k`, budget and put frequency. An item is `Intact` until a put begins that
writes its slot again; what a reader copied of intact items is right. For a
paced writer the rest is a count of periods: each put began `Spacing` or more
before the next (`StampedInTime`, `WriterBehind`), and the buffer, without the
reader's items, lasts one and a half budgets (`Sizes`), of which a put in progress
takes less than a half. For a burst it is the stamp of the newest item the read
began with, which is the one a put must compare before it may overwrite the
oldest item the read can have asked for.

`PolicyExchangeProofs` proves of the composed worker and recorder, for every number
of requests and rounds and every length of the log queue, their types
(`TypesKept`), `OneInFlight`, `EvidenceOrdered` and `EvidenceKept`. Its invariant
`ExchangeInv` has six parts. The worker is in one of four phases (idle, queued,
working, answered), each with one place where the only request is. A thread inside
`record` is the one whose turn it is in that phase, so at most one of the two is
ever inside, and the order of the calls is the order of the puts. What is in the
file, in the writer's hand and in the queue is one sequence in the order of
`Precedes`, and none of it lies beyond the point the latest exchange has
reached. Calls made equal what is written, counted, queued, in hand and inside. And
the writer ends only after `close()`; after a join that succeeded both threads are
outside `record` by then, which is why nothing is put behind it.

`AuthorSyncProofs` begins with the interpolator: the seven orderings that
`schedule_waypoint` asserts follow from its two early returns for all times
whatsoever (`AssertsHold`), and it turns a path into a path that equals the old one
up to the cut and reaches the waypoint at the time asked for, or as soon as the
speed limits allow (`WaypointKeepsPath`). It then proves of author-sync mode, for
every latency, speed, horizon and answer, `AuthorSyncTypeCorrect`, `BoundaryErrorFree`
and `DrainNeverJumps`; for all constants that meet a stated condition, `NeverStarves`,
`NoneDropped` and `PolicyKeepsFollowing`; and for every behaviour in which waypoints
come in their turn, `PrefixStays`.

* The invariant is `ClientOK`: `StateOK` says that the scheduler is well formed
  (`SchedulerOK`: what is queued are knots of its plan, what is sent is queued, the
  plan starts at its splice), that a job was made from a past observation and that
  every path `IsPath`; `BatchOK` that what was popped still has the margin of `pop_batch`
  until `exec_actions` has sent it; `RequestOK` that an open request is the worker's job
  of this round. There is one lemma per operation of the scheduler, each taking a
  well-formed scheduler to a well-formed one, then one per action of the client.
* Paths grow without bound, and their folds over a queue and the sums of
  `_limit_local_timing` are recursive functions. The library's induction theorems
  cannot be instantiated, so the module proves its own for a set in place of a
  predicate: `LeastElement` from the well-foundedness of `<`, `UpTo` from it, and
  `IterationExists`, that a recursion over `1..n` has a solution. `SumsAscend`,
  `ArmPathsType` and `GripPathsType` are such inductions; the nearest knot on either
  side of a time, which `At` interpolates between, is part of `IsPath`.
* `BoundaryErrorFree` assumes `ExpirySlack > 0`: the margin of .01 s that `pop_batch`
  demands (`author_sync.py:422-424`) is at least as long as the step in which the
  batch reaches `exec_actions`. Without it a boundary may pass in between.
  A controller that drains late drops waypoints that are past before it looks at
  their boundary, which is why no condition on the controllers is needed.
* `AuthorSyncTypeCorrect` assumes `Dt > 1`: a pass of the model may take two ticks, and a
  control cycle is at least as long. The age of a request (`TimingOK`) is then at
  most the timeout and one cycle, since only `Observe` looks at it.
* `DrainNeverJumps` states `SetpointContinuous`, an action property: at the instant a
  controller takes waypoints from its queue, what it commands is what it would have
  commanded without them.
* `NeverStarves` proves `NoStarvation` from `WindowCovers`, three inequalities between
  the constants: the window submitted, counted in whole target periods, outlasts a cycle
  of requests and a prompt answer, and so do the targets of a chunk that are still fresh
  when it is merged. The run's constants meet them with equality. So do the deployment's
  (12.5 or 25 Hz, 6 steps per inference, a lead of .05 s, the latencies of
  `author_sync.py:26-28`) for answers within .386 s. They are sufficient and not
  necessary: TLC finds no starvation with answers a tick or two later. The invariant
  is `SupplyInv`. The passes are aligned with the cycle of requests (`Aligned`, from
  `mark_request_started`, which never shifts it), so it is known in which pass the next
  request is made; `Covers` says that what is queued lasts until the answer to a request
  made in some pass still to come, `AskedOK` that it lasts until the answer to the open
  one, or that a round's first chunk is still awaited. A merge has to re-establish
  `Covers` from the age of its chunk alone (`ChunkLasts`).
* `InTimeOK` says what waits in a controller's queue: it was put there at most
  `Transport` ago and at least the margin of `pop_batch` and a target period ahead of
  the time it asks for, latencies considered. So `NoneDropped`: a drain never meets a
  waypoint that is past, when `Transport` and a tick of the controller are shorter than
  that. With the deployed values, an arm's queue may wait .14 s and a gripper's .09 s;
  their loops take .01 s and .017 s. Nothing in the code reports a waypoint dropped.
* `ReferenceFollows` is the step of `PolicyFollowsPhysical`: a waypoint ahead of now
  extends both of the gripper's paths alike, unless it `Detours`: asks for a time the path
  before it has outrun, and is reached after that path. The two hypotheses say where the
  code's reference leaves the angle it should tell. A late waypoint is ignored by the
  physical path, and the reference is scheduled to its pose all the same
  (`ros_gripper_controller.py:443-455`). One that detours replaces the physical path
  from now, and the reference from the last knot. The proof shows that both are cut at
  one time and that neither limit changes when it is reached.
* `PolicyKeepsFollowing` is that step in every drain: `InTimeOK` rules the late waypoints
  out, by induction over the drain. That none detours is a hypothesis on the behaviour
  (`NoDetour`), since a gripper left moving by an earlier round meets its splice in another
  place than the plan does, and may then be stretched past the next knot.
* `PrefixStays` proves `PrefixKept` of every behaviour in which each waypoint a drain
  takes comes in its turn (`InTurn`): it carries a boundary, or its time is after the end
  of the path it is put on. Where a speed limit has stretched the path beyond the
  waypoint, the code replaces the path from now, and what was to come may change. TLC
  finds every step of the run in turn. A drain may take any number of waypoints, of
  several plans, and each schedules with a cut that rounds the setpoint down. `TrimRounds`
  bounds what one cut moves by one unit (`RoundTwice`: rounding the ends of a piece of a
  line, and then the piece, loses one unit against rounding the line). That the rounding
  does not add up is the induction `DrainKeeps`: a cut at a knot changes nothing
  (`TrimAgrees`), a waypoint without a boundary cuts where the path ends and so only the
  first one can move it, by cutting at now (`CutHere`); the first boundary can move it once
  more (`CutAhead`), and leaves a knot there that no later boundary precedes. This needs
  the boundaries in a queue to ascend, over plans and rounds, which is `BoundariesOK`; it
  is inductive with the splice of the present plan as an upper bound of what is queued, and
  the splice of an answer that came now as an upper bound of both. `FirstsOK`, that no path
  begins behind the controller's time, makes every cut one of the path and not of its clipped
  end. Two units are the `Tolerance` of the run, where TLC finds that one is never exceeded.

**Only model-checked.** `PlanFollowed` holds up to a rounding tolerance, and where the
limits do not bind past a knot: when a path that the speed limit stretched ends later
than the next waypoint, the knots behind it move, so there is no statement about all
speeds. Each trim in addition rounds the setpoint where it cuts, and a plan may be cut
and anchored any number of times, so that no constant tolerance can be proved for it.
`SubmittedWithinLimit` (a run that finds it violated) is a question about a schedule.
Liveness under fairness
(`EveryRequestAnswered`, `BoundedRoundEnds`, `ShutdownCompletes`, `StopTakesEffect`,
`OpeningReleasesLeft`) and ENABLED are out of the prover's reach, and so is an
induction over data with a predicate that is no set.

## 5. Not modelled, and why

* Start-up, warm-up, preview windows, logging and diagnostics keep no state the
  loop's decisions depend on.
* The conversions of `contract.py` are floating-point rotations and array layouts;
  their errors are numeric, and a finite model would assume them away.
* In `author_sync.py`, the rotation part of a target and the preload; the
  deployment with compensation excludes the preload.
* `pop_next` and the scheduler's calls with `now=None`, `drive_to_waypoint`, `servoL`
  and `clear` of the ring buffer have no caller in this deployment; `passive_hold`
  only stops repeating an unchanged target.
* The CAN node's force feedback, MIT mode, zeroing and fault handling; the gripper
  controller's start-up and UDP frames.
* The recorder's image budget, status file and array formats; gripper telemetry and
  chunk diagnostics.
* The loss of a datagram to Mink: the code has no answer to it, and nothing in the
  repository says what should happen.
* The Thor camera stream and the camera processes are decoders and pixel formats;
  trajectory replay is one sequential script around `exec_actions` and `hold`.
* The policy server and training (openpi, diffusion_policy), CAN drivers,
  calibration, mask geometry and offline evaluation are numeric or third-party
  code, and most of the lines of this repository.

## 6. Plan

1. A condition on the speeds, the latencies and the queue under which every waypoint comes
   in its turn and none detours, to be put for the hypotheses of `PrefixStays` and
   `PolicyKeepsFollowing`; and from it a form of `PlanFollowed` for all speeds.
2. The camera processes' frame matching, once the queue and ring buffer modules are
   used from a consumer.
