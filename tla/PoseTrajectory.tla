--------------------------- MODULE PoseTrajectory ---------------------------
(***************************************************************************)
(* umi/common/pose_trajectory_interpolator.py: the setpoint path a         *)
(* controller process plays, and what one waypoint does to it.  A path is  *)
(* a function from its finitely many knot times to poses; a pose is one    *)
(* integer coordinate here, and a duration is rounded up to the next tick  *)
(* of the integer clock.                                                   *)
(***************************************************************************)
EXTENDS Integers

Max2(a, b) == IF a >= b THEN a ELSE b
Min2(a, b) == IF a <= b THEN a ELSE b
Distance(a, b) == IF a >= b THEN a - b ELSE b - a

(* self.times[0] and self.times[-1] *)
First(path) == CHOOSE t \in DOMAIN path : \A u \in DOMAIN path : t <= u
Final(path) == CHOOSE t \in DOMAIN path : \A u \in DOMAIN path : u <= t

Before(path, t) == CHOOSE u \in DOMAIN path :
                     u < t /\ \A w \in DOMAIN path : w < t => w <= u
After(path, t) == CHOOSE u \in DOMAIN path :
                    t < u /\ \A w \in DOMAIN path : t < w => u <= w

(* __call__: the time is clipped to the path, and between two knots the    *)
(* pose lies on the straight line, rounded down.                           *)
At(path, t) ==
  IF t \in DOMAIN path THEN path[t]
  ELSE IF t < First(path) THEN path[First(path)]
  ELSE IF t > Final(path) THEN path[Final(path)]
  ELSE LET a == Before(path, t)
           b == After(path, t)
       IN path[a] + ((path[b] - path[a]) * (t - a)) \div (b - a)

Still(t, pose) == [u \in {t} |-> pose]

Trim(path, start, end) ==
  [t \in {start, end} \union {u \in DOMAIN path : start < u /\ u < end} |-> At(path, t)]

Extend(path, t, pose) ==
  [u \in DOMAIN path \union {t} |-> IF u = t THEN pose ELSE path[u]]
-----------------------------------------------------------------------------
(* schedule_waypoint.  boundary is replace_from_time, which the first      *)
(* waypoint of a new chunk carries; on the wire, and here, 0 is none.      *)
(* lastWp is when the waypoint before is reached, speed the fastest the    *)
(* pose may move per tick.                                                 *)
NoBoundary == 0
Unlimited == 0

TooLate(time, curr) == time <= curr

(* "replacement boundary must precede first waypoint" *)
BoundaryInvalid(time, curr, boundary) ==
  /\ boundary # NoBoundary
  /\ ~TooLate(time, curr)
  /\ Max2(boundary, curr) >= time

KeptPath(path, curr, boundary) ==
  IF boundary = NoBoundary THEN path ELSE Trim(path, curr, Max2(boundary, curr))

LastBefore(lastWp, curr, boundary) ==
  IF boundary = NoBoundary THEN lastWp ELSE Max2(boundary, curr)

EndTime(time, curr, last) ==
  Min2(IF time <= last THEN curr ELSE Max2(last, curr), time)

StartTime(first, curr, end) == Min2(Max2(curr, first), end)

(* The fewest ticks in which the pose may cover a distance. *)
Needed(distance, speed) ==
  IF speed = Unlimited THEN 0 ELSE (distance + speed - 1) \div speed

ReachTime(time, end, from, pose, speed) ==
  end + Max2(time - end, Needed(Distance(from, pose), speed))

ScheduleWaypoint(path, pose, time, curr, lastWp, boundary, speed) ==
  IF TooLate(time, curr) THEN path
  ELSE LET old  == KeptPath(path, curr, boundary)
           end  == EndTime(time, curr, LastBefore(lastWp, curr, boundary))
           kept == Trim(old, StartTime(First(old), curr, end), end)
       IN Extend(kept, ReachTime(time, end, kept[end], pose, speed), pose)
=============================================================================
