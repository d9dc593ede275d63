------------------------ MODULE AuthorSyncScheduler ------------------------
(***************************************************************************)
(* task487_runtime/author_sync.py: the plain scheduler.  It asks for a     *)
(* chunk on a fixed cycle, throws away the part of the answer that is      *)
(* already past, connects the rest to the trajectory it submitted before   *)
(* at a splice time in the future, and hands the whole window to the       *)
(* devices at once.                                                        *)
(*                                                                         *)
(* The scheduler object is one record; each method is an operator from     *)
(* record to record.  Times are ticks of the wall clock, a target is one   *)
(* arm coordinate and one gripper angle, and a duration is rounded up.     *)
(***************************************************************************)
EXTENDS PoseTrajectory, FiniteSets, Sequences

CONSTANTS
  Dt,                 \* config.dt
  ActionHorizon,      \* targets in a chunk
  StepsPerInference,
  Playback,           \* 1 / speed_scale
  RobotLatency, GripperLatency, DispatchLead,
  ExpirySlack,        \* the .01 s of pop_batch
  MaxLocalDelay, RequestTimeout,
  ArmSpeed, GripperSpeed,  \* the farthest a coordinate moves in a tick
  MaxTrackingError, MaxStep

ASSUME AuthorSyncAssumption ==
  /\ {Dt, ActionHorizon, StepsPerInference, Playback, ArmSpeed, GripperSpeed}
       \subseteq Nat \ {0}
  /\ {RobotLatency, GripperLatency, DispatchLead, ExpirySlack, MaxLocalDelay,
      RequestTimeout, MaxTrackingError, MaxStep} \subseteq Nat
  /\ StepsPerInference <= ActionHorizon - 3

LatencyBudget == Max2(RobotLatency, GripperLatency)
Period == StepsPerInference * Dt
BareWindow == StepsPerInference * Dt  \* mutant: ends where the next request is made

ExecutionWindow == (StepsPerInference + 1) * Dt + MaxLocalDelay
NoPlan == [from |-> 0]
Sign(x) == IF x > 0 THEN 1 ELSE IF x < 0 THEN -1 ELSE 0

(* The first index of a chunk that the devices can still be in time for.   *)
Stale(age) == Needed(age + LatencyBudget, Dt)

(* _validate: the first target is near the controller's, each next one is  *)
(* near the one before.                                                    *)
Near(a, b, limit) == Distance(a.arm, b.arm) <= limit
Valid(targets, from) ==
  \A k \in DOMAIN targets :
    IF k = 1 THEN Near(targets[1], from, MaxTrackingError)
             ELSE Near(targets[k], targets[k - 1], MaxStep)

(* stitch_targets.  Fewer than 20 targets are left of a chunk, so the      *)
(* connection takes two steps: the arm meets the second target along a     *)
(* cubic Bezier curve whose value halfway is the first knot, leaving in    *)
(* the direction it came from and arriving in the direction of the policy. *)
(* Gripper knots are kept as they are.                                     *)
Halfway(start, end, history, future) ==
  LET straight == Sign(end - start)
      leaving  == IF history # 0 THEN Sign(history) ELSE straight
      arriving == IF future # 0 THEN Sign(future) ELSE straight
  IN (start + end) \div 2 + (Distance(start, end) * (leaving - arriving)) \div 8

StitchTargets(future, anchor, history) ==
  [k \in DOMAIN future |->
     IF k # 1 THEN future[k]
     ELSE [future[1] EXCEPT !.arm = Halfway(anchor.arm, future[2].arm, anchor.arm - history,
                                            future[3].arm - future[1].arm)]]

(* _limit_local_timing: when each knot is reached, counted from the        *)
(* splice, if no segment is played faster than asked or than the limits    *)
(* allow, and how much of that is due to the arm's limit alone.            *)
BaseDuration(a, b) == Max2(Dt * Playback, Needed(Distance(a.grip, b.grip), GripperSpeed))
Duration(a, b) == Max2(BaseDuration(a, b), Needed(Distance(a.arm, b.arm), ArmSpeed))

Sums(d, n) ==
  LET sum[k \in 0..n] == IF k = 0 THEN 0 ELSE sum[k - 1] + d[k]
  IN sum

LimitLocalTiming(knots, anchor) ==
  LET n == Len(knots)
      Left(k) == IF k = 1 THEN anchor ELSE knots[k - 1]
      duration == [k \in 1..n |-> Duration(Left(k), knots[k])]
      excess == [k \in 1..n |-> duration[k] - BaseDuration(Left(k), knots[k])]
  IN [reached |-> Sums(duration, n), extra |-> Sums(excess, n)[n]]

(* _trim_execution_window: the trajectory from the splice to the window's  *)
(* end, cut within a segment if need be.                                   *)
Trajectory(knots, anchor, reached, splice) ==
  LET n == Len(knots)
      times == {splice + reached[k] : k \in 0..n}
      end == splice + Min2(reached[n], ExecutionWindow)
      Target(t) == IF t = splice THEN anchor
                   ELSE knots[CHOOSE k \in 1..n : splice + reached[k] = t]
  IN [from |-> splice,
      arm  |-> Trim([t \in times |-> Target(t).arm], splice, end),
      grip |-> Trim([t \in times |-> Target(t).grip], splice, end)]
-----------------------------------------------------------------------------
(* The scheduler before its first activation.  queue holds the times of    *)
(* the knots of plan that are not retired, sent those already handed out.  *)
Created ==
  [state |-> "HOLD", reason |-> "startup", plan |-> NoPlan, queue |-> {}, sent |-> {},
   pending |-> FALSE, pendingSince |-> 0, nextRequestAt |-> 0, hasExecuted |-> FALSE,
   controller |-> [arm |-> 0, grip |-> 0]]

HoldKeepsRequest(s, reason) ==  \* mutant: the open request is not forgotten
  [s EXCEPT !.state = "HOLD", !.reason = reason, !.queue = {}, !.sent = {}]

Hold(s, reason) ==
  [s EXCEPT !.state = "HOLD", !.reason = reason, !.queue = {}, !.sent = {}, !.pending = FALSE]

Activate(s, live) ==
  [Created EXCEPT !.state = "ACTIVE", !.reason = "", !.controller = live]

ObserveController(s, target) == [s EXCEPT !.controller = target]

RequestDue(s, now) == s.state = "ACTIVE" /\ ~s.pending /\ now >= s.nextRequestAt

(* The first request starts the cycle, later ones never shift it.          *)
MarkRequestStarted(s, now) ==
  [s EXCEPT !.pending = TRUE, !.pendingSince = now,
            !.nextRequestAt = IF @ = 0 THEN now + Period
                              ELSE @ + ((now - @) \div Period + 1) * Period]

PresentTarget(s, time) == s.controller  \* mutant: anchors to the present target

PlannedTarget(s, time) ==
  IF s.plan = NoPlan THEN s.controller
  ELSE [arm |-> At(s.plan.arm, time), grip |-> At(s.plan.grip, time)]

Done(s, now) == {t \in s.sent : t <= now}

Advance(s, now) ==
  IF s.state # "ACTIVE" THEN s
  ELSE IF s.pending /\ now - s.pendingSince > RequestTimeout THEN Hold(s, "timeout")
  ELSE [s EXCEPT !.queue = @ \ Done(s, now), !.sent = @ \ Done(s, now),
                 !.hasExecuted = @ \/ Done(s, now) # {}]

(* merge_chunk.  targets is the policy's answer to an observation age      *)
(* ticks old, a sequence of ActionHorizon targets.                         *)
MergeChunk(s, targets, age, now) ==
  LET stale   == Stale(age)
      future  == SubSeq(targets, stale + 1, ActionHorizon)
      splice  == now + LatencyBudget + DispatchLead
      anchor  == PlannedTarget(s, splice)
      history == IF s.plan = NoPlan THEN s.controller ELSE PlannedTarget(s, splice - 1)
      whole   == StitchTargets(future, anchor, history.arm)
      knots   == SubSeq(whole, 1, Min2(Len(future), ExecutionWindow \div Dt))
      timing  == LimitLocalTiming(knots, anchor)
      plan    == Trajectory(knots, anchor, timing.reached, splice)
  IN IF stale > ActionHorizon - 3 THEN Hold(s, "chunk expired")
     ELSE IF ~Valid(future, s.controller) \/ ~Valid(knots, anchor) THEN Hold(s, "unsafe chunk")
     ELSE IF timing.extra > MaxLocalDelay THEN Hold(s, "too fast")
     ELSE [s EXCEPT !.plan = plan, !.queue = (DOMAIN plan.arm) \ {splice}, !.sent = {},
                    !.pending = FALSE]

(* pop_batch: all knots not yet handed out, or the earliest few of them.   *)
Unsent(s) == s.queue \ s.sent

Earliest(times, count) ==
  {t \in times : Cardinality({u \in times : u < t}) < count}

Starved(s) == s.queue = {} /\ (s.hasExecuted \/ ~s.pending)

ExpiredExactly(s, batch, now) ==  \* mutant: no margin for the way to exec_actions
  batch # {} /\ s.plan.from - LatencyBudget <= now

Expired(s, batch, now) ==
  batch # {} /\ s.plan.from - LatencyBudget <= now + ExpirySlack

PopBatch(s, batch, now) ==
  IF s.state # "ACTIVE" THEN s
  ELSE IF s.queue = {} THEN (IF Starved(s) THEN Hold(s, "queue exhausted") ELSE s)
  ELSE IF Expired(s, batch, now) THEN Hold(s, "batch expired")
  ELSE [s EXCEPT !.sent = @ \union batch]
=============================================================================
