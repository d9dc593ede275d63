-------------------------- MODULE AuthorSyncProofs --------------------------
(***************************************************************************)
(* What holds of author-sync mode for every latency, speed, horizon and    *)
(* answer.  First the path of a controller: what                           *)
(* pose_trajectory_interpolator.py:154-177 says was "proven by zhenjia",   *)
(* and that a new waypoint never makes the setpoint jump, keeps the path   *)
(* before it and is reached last, no faster than the limit.  Then the      *)
(* operators of the scheduler, each taking a well-formed scheduler to a    *)
(* well-formed one; and from these the client's invariant.  Last, what a   *)
(* drain does to the setpoint before the new plan begins.                  *)
(***************************************************************************)
EXTENDS AuthorSyncClient, FiniteSetTheorems, WellFoundedInduction, SequenceTheorems, TLAPS

(* A path has integer knots and poses.  The last two conjuncts are what    *)
(* finitely many knots give: a nearest one on either side of a time.       *)
HasBefore(p, t) ==
  \E u \in DOMAIN p : u < t /\ \A w \in DOMAIN p : w < t => w <= u
HasAfter(p, t) ==
  \E u \in DOMAIN p : t < u /\ \A w \in DOMAIN p : t < w => u <= w

IsPath(p) ==
  /\ p \in [DOMAIN p -> Int]
  /\ DOMAIN p \in SUBSET Int
  /\ \E t \in DOMAIN p : \A u \in DOMAIN p : t <= u
  /\ \E t \in DOMAIN p : \A u \in DOMAIN p : u <= t
  /\ \A t \in Int : (\E u \in DOMAIN p : u < t) => HasBefore(p, t)
  /\ \A t \in Int : (\E u \in DOMAIN p : t < u) => HasAfter(p, t)

(* The asserts of schedule_waypoint after its two min operations hold      *)
(* whatever the times are (pose_trajectory_interpolator.py:159-177).       *)
THEOREM AssertsHold ==
  ASSUME NEW time \in Int, NEW curr \in Int, NEW last \in Int, NEW first \in Int,
         ~TooLate(time, curr),
         NEW end, end = EndTime(time, curr, last),
         NEW start, start = StartTime(first, curr, end)
  PROVE  /\ start \in Int /\ end \in Int
         /\ start <= end /\ end <= time
         /\ curr <= start /\ curr <= time
         /\ time <= last => end = curr
         /\ ~(time <= last) => end = Max2(last, curr)
         /\ end < time
BY DEF TooLate, EndTime, StartTime, Min2, Max2
-----------------------------------------------------------------------------
LEMMA FirstIs ==
  ASSUME NEW p, NEW t \in DOMAIN p, DOMAIN p \in SUBSET Int,
         \A u \in DOMAIN p : t <= u
  PROVE  First(p) = t
BY DEF First

LEMMA FinalIs ==
  ASSUME NEW p, NEW t \in DOMAIN p, DOMAIN p \in SUBSET Int,
         \A u \in DOMAIN p : u <= t
  PROVE  Final(p) = t
BY DEF Final

LEMMA PathEnds ==
  ASSUME NEW p, IsPath(p)
  PROVE  /\ First(p) \in DOMAIN p /\ Final(p) \in DOMAIN p
         /\ First(p) \in Int /\ Final(p) \in Int
         /\ \A u \in DOMAIN p : First(p) <= u /\ u <= Final(p)
BY DEF IsPath, First, Final

LEMMA AtKnot ==
  ASSUME NEW p, NEW t \in DOMAIN p
  PROVE  At(p, t) = p[t]
BY DEF At

(* Trimming keeps the setpoint at both of its ends and at every knot       *)
(* between them.                                                           *)
LEMMA TrimKeeps ==
  ASSUME NEW p, DOMAIN p \in SUBSET Int, NEW start \in Int, NEW end \in Int, start <= end
  PROVE  /\ DOMAIN Trim(p, start, end) \in SUBSET Int
         /\ {start, end} \subseteq DOMAIN Trim(p, start, end)
         /\ \A t \in DOMAIN Trim(p, start, end) :
              /\ start <= t /\ t <= end
              /\ Trim(p, start, end)[t] = At(p, t)
         /\ \A t \in DOMAIN p :
              start < t /\ t < end => t \in DOMAIN Trim(p, start, end)
         /\ First(Trim(p, start, end)) = start
<1> DEFINE kept == Trim(p, start, end)
           knots == {start, end} \union {u \in DOMAIN p : start < u /\ u < end}
<1>1. DOMAIN kept = knots /\ \A t \in knots : kept[t] = At(p, t)
  BY DEF Trim
<1>2. knots \in SUBSET Int /\ \A t \in knots : start <= t /\ t <= end
  OBVIOUS
<1> HIDE DEF kept
<1>3. First(kept) = start
  BY <1>1, <1>2, FirstIs
<1> QED  BY <1>1, <1>2, <1>3 DEF kept

(* The path of one knot a controller starts from, and resets to on HOLD.   *)
LEMMA StillIsPath ==
  ASSUME NEW t \in Int, NEW pose \in Int
  PROVE  IsPath(Still(t, pose))
<1>1. DOMAIN Still(t, pose) = {t} /\ Still(t, pose)[t] = pose
  BY DEF Still
<1>2. Still(t, pose) \in [DOMAIN Still(t, pose) -> Int]
  BY DEF Still
<1> QED  BY <1>1, <1>2 DEF IsPath, HasBefore, HasAfter

LEMMA DivInt ==
  ASSUME NEW a \in Int, NEW b \in Nat, b > 0
  PROVE  a \div b \in Int
BY SMT

LEMMA AtInt ==
  ASSUME NEW p, IsPath(p), NEW t \in Int
  PROVE  At(p, t) \in Int
<1>1. CASE t \in DOMAIN p
  BY <1>1, AtKnot DEF IsPath
<1>2. CASE t \notin DOMAIN p /\ t < First(p)
  BY <1>2, PathEnds DEF At, IsPath
<1>3. CASE t \notin DOMAIN p /\ ~(t < First(p)) /\ t > Final(p)
  BY <1>3, PathEnds DEF At, IsPath
<1>4. CASE t \notin DOMAIN p /\ ~(t < First(p)) /\ ~(t > Final(p))
  <2> DEFINE a == Before(p, t)
             b == After(p, t)
  <2>1. First(p) < t /\ t < Final(p)
    BY <1>4, PathEnds DEF IsPath
  <2>2. HasBefore(p, t) /\ HasAfter(p, t)
    BY <2>1, PathEnds DEF IsPath
  <2>3. a \in DOMAIN p /\ a < t /\ b \in DOMAIN p /\ t < b
    BY <2>2 DEF HasBefore, HasAfter, Before, After
  <2>4. At(p, t) = p[a] + ((p[b] - p[a]) * (t - a)) \div (b - a)
    BY <1>4 DEF At
  <2> HIDE DEF a, b
  <2>5. a \in Int /\ b \in Int /\ p[a] \in Int /\ p[b] \in Int
    BY <2>3 DEF IsPath
  <2>6. b - a \in Nat /\ b - a > 0 /\ (p[b] - p[a]) * (t - a) \in Int
    BY <2>3, <2>5
  <2>7. ((p[b] - p[a]) * (t - a)) \div (b - a) \in Int
    BY <2>6, DivInt
  <2> QED  BY <2>4, <2>5, <2>7
<1> QED  BY <1>1, <1>2, <1>3, <1>4

LEMMA TrimIsPath ==
  ASSUME NEW p, IsPath(p), NEW start \in Int, NEW end \in Int, start <= end
  PROVE  IsPath(Trim(p, start, end))
<1> DEFINE kept == Trim(p, start, end)
           inner == {u \in DOMAIN p : start < u /\ u < end}
<1>1. DOMAIN kept = {start, end} \union inner
  BY DEF Trim
<1>2. DOMAIN kept \in SUBSET Int /\ \A t \in DOMAIN kept : start <= t /\ t <= end
  BY <1>1 DEF IsPath
<1>3. kept \in [DOMAIN kept -> Int]
  BY <1>2, AtInt DEF Trim
<1> HIDE DEF kept
<1>4. ASSUME NEW t \in Int, \E u \in DOMAIN kept : u < t PROVE HasBefore(kept, t)
  <2>1. CASE end < t
    BY <1>1, <1>2, <2>1 DEF HasBefore
  <2>2. CASE ~(end < t) /\ \E u \in inner : u < t
    <3>1. HasBefore(p, t)
      BY <2>2 DEF IsPath
    <3>2. PICK u \in DOMAIN p : u < t /\ \A w \in DOMAIN p : w < t => w <= u
      BY <3>1 DEF HasBefore
    <3>3. u \in inner /\ u \in Int
      BY <2>2, <3>2 DEF IsPath
    <3>4. \A w \in DOMAIN kept : w < t => w <= u
      BY <1>1, <1>2, <2>2, <3>2, <3>3
    <3> QED  BY <1>1, <3>2, <3>3, <3>4 DEF HasBefore
  <2>3. CASE ~(end < t) /\ ~\E u \in inner : u < t
    <3>1. \A w \in DOMAIN kept : w < t => w = start
      BY <1>1, <1>2, <2>3
    <3>2. start < t
      BY <1>4, <3>1
    <3> QED  BY <1>1, <3>1, <3>2 DEF HasBefore
  <2> QED  BY <2>1, <2>2, <2>3
<1>5. ASSUME NEW t \in Int, \E u \in DOMAIN kept : t < u PROVE HasAfter(kept, t)
  <2>1. CASE t < start
    BY <1>1, <1>2, <2>1 DEF HasAfter
  <2>2. CASE ~(t < start) /\ \E u \in inner : t < u
    <3>1. HasAfter(p, t)
      BY <2>2 DEF IsPath
    <3>2. PICK u \in DOMAIN p : t < u /\ \A w \in DOMAIN p : t < w => u <= w
      BY <3>1 DEF HasAfter
    <3>3. u \in inner /\ u \in Int
      BY <2>2, <3>2 DEF IsPath
    <3>4. \A w \in DOMAIN kept : t < w => u <= w
      BY <1>1, <1>2, <2>2, <3>2, <3>3
    <3> QED  BY <1>1, <3>2, <3>3, <3>4 DEF HasAfter
  <2>3. CASE ~(t < start) /\ ~\E u \in inner : t < u
    <3>1. \A w \in DOMAIN kept : t < w => w = end
      BY <1>1, <1>2, <2>3
    <3>2. t < end
      BY <1>5, <3>1
    <3> QED  BY <1>1, <3>1, <3>2 DEF HasAfter
  <2> QED  BY <2>1, <2>2, <2>3
<1>6. \E t \in DOMAIN kept : \A u \in DOMAIN kept : t <= u
  BY <1>1, <1>2
<1>7. \E t \in DOMAIN kept : \A u \in DOMAIN kept : u <= t
  BY <1>1, <1>2
<1>8. IsPath(kept)
  BY <1>2, <1>3, <1>4, <1>5, <1>6, <1>7 DEF IsPath
<1> QED  BY <1>8 DEF kept

LEMMA ExtendIsPath ==
  ASSUME NEW p, IsPath(p), NEW t \in Int, NEW pose \in Int,
         \A u \in DOMAIN p : u < t
  PROVE  /\ IsPath(Extend(p, t, pose))
         /\ Final(Extend(p, t, pose)) = t
         /\ Extend(p, t, pose)[t] = pose
         /\ First(Extend(p, t, pose)) = First(p)
         /\ \A u : u \in DOMAIN Extend(p, t, pose) <=> u \in DOMAIN p \/ u = t
         /\ \A u \in DOMAIN p : Extend(p, t, pose)[u] = p[u]
<1> DEFINE new == Extend(p, t, pose)
<1>1. DOMAIN new = DOMAIN p \union {t} /\ new[t] = pose
      /\ \A u \in DOMAIN p : new[u] = p[u]
  BY DEF Extend
<1>2. DOMAIN new \in SUBSET Int
  BY <1>1 DEF IsPath
<1>3. new \in [DOMAIN new -> Int]
  BY DEF Extend, IsPath
<1> HIDE DEF new
<1>4. Final(new) = t
  BY <1>1, <1>2, FinalIs
<1>5. First(new) = First(p) /\ First(p) \in DOMAIN new
      /\ \A u \in DOMAIN new : First(p) <= u
  <2>1. First(p) \in DOMAIN new
    BY <1>1, PathEnds
  <2>2. \A u \in DOMAIN new : First(p) <= u
    BY <1>1, PathEnds
  <2> QED  BY <1>2, <2>1, <2>2, FirstIs
<1>6. ASSUME NEW s \in Int, \E u \in DOMAIN new : u < s PROVE HasBefore(new, s)
  <2>1. CASE t < s
    BY <1>1, <1>2, <2>1 DEF HasBefore
  <2>2. CASE ~(t < s)
    <3>1. HasBefore(p, s)
      BY <1>1, <1>6, <2>2 DEF IsPath
    <3> QED  BY <1>1, <2>2, <3>1 DEF HasBefore
  <2> QED  BY <2>1, <2>2
<1>7. ASSUME NEW s \in Int, \E u \in DOMAIN new : s < u PROVE HasAfter(new, s)
  <2>1. CASE \E u \in DOMAIN p : s < u
    <3>1. HasAfter(p, s)
      BY <2>1 DEF IsPath
    <3>2. PICK u \in DOMAIN p : s < u /\ \A w \in DOMAIN p : s < w => u <= w
      BY <3>1 DEF HasAfter
    <3>3. u \in DOMAIN new /\ \A w \in DOMAIN new : s < w => u <= w
      BY <1>1, <3>2 DEF IsPath
    <3> QED  BY <3>2, <3>3 DEF HasAfter
  <2>2. CASE ~\E u \in DOMAIN p : s < u
    BY <1>1, <1>7, <2>2 DEF HasAfter
  <2> QED  BY <2>1, <2>2
<1>8. \E u \in DOMAIN new : \A w \in DOMAIN new : w <= u
  BY <1>1, <1>2 DEF IsPath
<1>9. IsPath(new)
  BY <1>2, <1>3, <1>5, <1>6, <1>7, <1>8 DEF IsPath
<1> QED  BY <1>1, <1>4, <1>5, <1>9 DEF new

LEMMA CeilBounds ==
  ASSUME NEW d \in Nat, NEW s \in Nat, s > 0
  PROVE  /\ (d + s - 1) \div s \in Nat
         /\ d <= s * ((d + s - 1) \div s)
<1> DEFINE q == (d + s - 1) \div s
           r == (d + s - 1) % s
<1>1. d + s - 1 \in Nat
  OBVIOUS
<1>2. d + s - 1 = s * q + r /\ r \in 0..s - 1 /\ q \in Nat
  BY <1>1, SMT
<1> HIDE DEF q, r
<1>3. s * q \in Int
  BY <1>2
<1>4. d <= s * q
  BY <1>2, <1>3
<1> QED  BY <1>2, <1>4 DEF q
-----------------------------------------------------------------------------
(* One waypoint in the future put on a path, whatever the path, the times, *)
(* the replacement boundary and the speed limit                            *)
(* (pose_trajectory_interpolator.py:105-199): the path keeps its setpoint  *)
(* at the controller's current time, so the command does not jump; it is   *)
(* again a path; the waypoint is its last knot, reached at the time asked  *)
(* or later, and from the knot the new segment starts at no faster than    *)
(* the limit; and no knot of the path before that one is lost or moved.    *)
THEOREM WaypointKeepsPath ==
  ASSUME NEW p, IsPath(p),
         NEW pose \in Int, NEW time \in Int, NEW curr \in Int, NEW lastWp \in Int,
         NEW boundary \in Nat, NEW speed \in Nat,
         ~TooLate(time, curr), ~BoundaryInvalid(time, curr, boundary),
         NEW new, new = ScheduleWaypoint(p, pose, time, curr, lastWp, boundary, speed),
         NEW end, end = EndTime(time, curr, LastBefore(lastWp, curr, boundary))
  PROVE  /\ IsPath(new)
         /\ At(new, curr) = At(p, curr)
         /\ time <= Final(new) /\ new[Final(new)] = pose
         /\ end \in DOMAIN new
         /\ speed # Unlimited =>
              Distance(new[end], pose) <= speed * (Final(new) - end)
         /\ \A t \in DOMAIN p : curr < t /\ t < end => t \in DOMAIN new /\ new[t] = p[t]
<1> DEFINE old   == KeptPath(p, curr, boundary)
           last  == LastBefore(lastWp, curr, boundary)
           start == StartTime(First(old), curr, end)
           kept  == Trim(old, start, end)
           reach == ReachTime(time, end, kept[end], pose, speed)
<1>1. new = Extend(kept, reach, pose)
  BY DEF ScheduleWaypoint
<1>2. /\ last \in Int
      /\ boundary # NoBoundary => last = Max2(boundary, curr) /\ curr <= last /\ last < time
  BY DEF LastBefore, Max2, BoundaryInvalid, NoBoundary
<1>3. IsPath(old)
  <2>1. CASE boundary = NoBoundary
    BY <2>1 DEF KeptPath
  <2>2. CASE boundary # NoBoundary
    BY <1>2, <2>2, TrimIsPath DEF KeptPath
  <2> QED  BY <2>1, <2>2
<1>4. At(old, curr) = At(p, curr)
  <2>1. CASE boundary = NoBoundary
    BY <2>1 DEF KeptPath
  <2>2. CASE boundary # NoBoundary
    <3>1. old = Trim(p, curr, last) /\ curr <= last
      BY <1>2, <2>2 DEF KeptPath
    <3>2. curr \in DOMAIN old /\ old[curr] = At(p, curr)
      <4> HIDE DEF old, last
      <4> QED  BY <1>2, <3>1, TrimKeeps DEF IsPath
    <3> QED  BY <3>2, AtKnot
  <2> QED  BY <2>1, <2>2
<1>5. First(old) \in Int
  BY <1>3, PathEnds
<1> HIDE DEF old, last
<1>6. /\ start \in Int /\ end \in Int
      /\ start <= end /\ curr <= start /\ end < time
      /\ time <= last => end = curr
      /\ ~(time <= last) => end = Max2(last, curr)
  <2> DEFINE first == First(old)
  <2>1. end = EndTime(time, curr, last)
    BY DEF last
  <2>2. start = StartTime(first, curr, end)
    OBVIOUS
  <2>3. first \in Int
    BY <1>5
  <2>4. last \in Int
    BY <1>2
  <2> HIDE DEF first, start, kept, reach
  <2> QED  BY <2>1, <2>2, <2>3, <2>4 DEF EndTime, StartTime, TooLate, Min2, Max2
<1>7. curr < start => start <= First(old)
  BY <1>5, <1>6 DEF StartTime, Min2, Max2
<1> HIDE DEF start
<1>8. IsPath(kept)
  BY <1>3, <1>6, TrimIsPath
<1>9. /\ DOMAIN kept \in SUBSET Int /\ start \in DOMAIN kept /\ end \in DOMAIN kept
      /\ \A t \in DOMAIN kept : start <= t /\ t <= end /\ kept[t] = At(old, t)
      /\ \A t \in DOMAIN old : start < t /\ t < end => t \in DOMAIN kept
      /\ First(kept) = start
  BY <1>3, <1>6, TrimKeeps DEF IsPath
<1> HIDE DEF kept
<1>10. kept[end] \in Int
  BY <1>8, <1>9 DEF IsPath
<1>11. Distance(kept[end], pose) \in Nat
  BY <1>10 DEF Distance
<1>12. Needed(Distance(kept[end], pose), speed) \in Nat
  BY <1>11, CeilBounds DEF Needed, Unlimited
<1>13. /\ reach \in Int /\ end < reach /\ time <= reach
       /\ Needed(Distance(kept[end], pose), speed) <= reach - end
  BY <1>6, <1>12 DEF ReachTime, Max2
<1>14. speed # Unlimited => Distance(kept[end], pose) <= speed * (reach - end)
  <2> SUFFICES ASSUME speed # Unlimited
               PROVE  Distance(kept[end], pose) <= speed * (reach - end)
    OBVIOUS
  <2> DEFINE d == Distance(kept[end], pose)
             q == Needed(d, speed)
  <2>1. q \in Nat /\ d <= speed * q
    BY <1>11, CeilBounds DEF Needed, Unlimited
  <2>2. reach - end \in Nat /\ q <= reach - end
    BY <1>6, <1>13, <2>1
  <2> HIDE DEF d, q, reach
  <2>3. speed * q <= speed * (reach - end)
    BY <2>1, <2>2, SMT
  <2>4. d \in Nat /\ speed * q \in Int /\ speed * (reach - end) \in Int
    BY <1>11, <2>1, <2>2 DEF d
  <2> QED  BY <2>1, <2>3, <2>4 DEF d
<1> HIDE DEF reach
<1>15. /\ IsPath(new) /\ Final(new) = reach /\ new[reach] = pose
       /\ First(new) = start
       /\ DOMAIN new = DOMAIN kept \union {reach}
       /\ \A t \in DOMAIN kept : new[t] = kept[t]
  <2>1. \A t \in DOMAIN kept : t < reach
    BY <1>6, <1>9, <1>13
  <2>2. reach \in Int
    BY <1>13
  <2>3. /\ IsPath(Extend(kept, reach, pose))
        /\ Final(Extend(kept, reach, pose)) = reach
        /\ Extend(kept, reach, pose)[reach] = pose
        /\ First(Extend(kept, reach, pose)) = First(kept)
        /\ \A u : u \in DOMAIN Extend(kept, reach, pose)
                 <=> u \in DOMAIN kept \/ u = reach
        /\ \A t \in DOMAIN kept : Extend(kept, reach, pose)[t] = kept[t]
    BY <1>8, <2>1, <2>2, ExtendIsPath
  <2>4. DOMAIN Extend(kept, reach, pose) = DOMAIN kept \union {reach}
    BY <2>3
  <2> QED  BY <1>1, <1>9, <2>3, <2>4
<1>16. At(new, curr) = At(old, curr)
  <2>1. CASE curr = start
    <3>1. curr \in DOMAIN new /\ new[curr] = At(old, curr)
      BY <1>9, <1>15, <2>1
    <3> QED  BY <3>1, AtKnot
  <2>2. CASE curr # start
    <3>1. curr < start /\ start <= First(old)
      BY <1>6, <1>7, <2>2
    <3>2. At(new, curr) = new[start]
      <4>1. curr \notin DOMAIN new /\ curr < First(new)
        BY <1>9, <1>13, <1>15, <1>6, <3>1
      <4> QED  BY <1>15, <4>1 DEF At
    <3>3. At(old, start) = old[First(old)]
      <4>1. CASE start = First(old)
        BY <1>3, <4>1, PathEnds, AtKnot
      <4>2. CASE start # First(old)
        <5>1. start < First(old) /\ start \notin DOMAIN old
          BY <1>3, <1>5, <1>6, <3>1, <4>2, PathEnds
        <5> QED  BY <5>1 DEF At
      <4> QED  BY <4>1, <4>2
    <3>4. At(old, curr) = old[First(old)]
      <4>1. curr < First(old) /\ curr \notin DOMAIN old
        BY <1>3, <1>5, <1>6, <3>1, PathEnds
      <4> QED  BY <4>1 DEF At
    <3> QED  BY <1>9, <1>15, <3>2, <3>3, <3>4
  <2> QED  BY <2>1, <2>2
<1>17. ASSUME NEW t \in DOMAIN p, curr < t, t < end
       PROVE  t \in DOMAIN new /\ new[t] = p[t]
  <2>1. t \in DOMAIN old /\ old[t] = p[t] /\ t \in Int
    <3>1. t \in Int
      BY DEF IsPath
    <3>2. CASE boundary = NoBoundary
      BY <3>1, <3>2 DEF old, KeptPath
    <3>3. CASE boundary # NoBoundary
      <4>1. old = Trim(p, curr, last) /\ curr <= last
        BY <1>2, <3>3 DEF old, KeptPath
      <4>2. end = last
        BY <1>2, <1>6, <3>3 DEF Max2
      <4>3. t \in DOMAIN old /\ old[t] = At(p, t)
        BY <1>2, <1>17, <4>1, <4>2, TrimKeeps DEF IsPath
      <4> QED  BY <3>1, <4>3, AtKnot
    <3> QED  BY <3>2, <3>3
  <2>2. First(old) <= t
    BY <1>3, <2>1, PathEnds
  <2>3. start <= t
    BY <1>5, <1>6, <1>17, <2>1, <2>2 DEF start, StartTime, Min2, Max2
  <2>4. t \in DOMAIN kept
    BY <1>6, <1>9, <1>17, <2>1, <2>3
  <2>5. kept[t] = old[t]
    BY <1>9, <2>1, <2>4, AtKnot
  <2> QED  BY <1>15, <2>1, <2>4, <2>5
<1> QED
  BY <1>4, <1>9, <1>13, <1>14, <1>15, <1>16, <1>17
(* The same waypoint, asked for at the time the speed limit made of it and *)
(* without a limit, makes the same path.                                   *)
LEMMA ReachedAlike ==
  ASSUME NEW p, IsPath(p),
         NEW pose \in Int, NEW time \in Int, NEW curr \in Int, NEW lastWp \in Int,
         NEW boundary \in Nat, NEW speed \in Nat,
         ~TooLate(time, curr), ~BoundaryInvalid(time, curr, boundary),
         NEW new, new = ScheduleWaypoint(p, pose, time, curr, lastWp, boundary, speed),
         \/ LastBefore(lastWp, curr, boundary) < time
         \/ Final(new) <= LastBefore(lastWp, curr, boundary)
  PROVE  ScheduleWaypoint(p, pose, Final(new), curr, lastWp, boundary, Unlimited) = new
<1> DEFINE old   == KeptPath(p, curr, boundary)
           last  == LastBefore(lastWp, curr, boundary)
           end   == EndTime(time, curr, last)
           start == StartTime(First(old), curr, end)
           kept  == Trim(old, start, end)
           reach == ReachTime(time, end, kept[end], pose, speed)
           final == Final(new)
<1>1. new = Extend(kept, reach, pose)
  BY DEF ScheduleWaypoint
<1>2. last \in Int /\ (boundary # NoBoundary => last = Max2(boundary, curr))
  BY DEF LastBefore, Max2, NoBoundary
<1>4. IsPath(new) /\ time <= final
  <2>1. end = EndTime(time, curr, LastBefore(lastWp, curr, boundary))
    OBVIOUS
  <2> HIDE DEF old, last, end, start, kept, reach
  <2> QED  BY <2>1, WaypointKeepsPath
<1>5. final \in DOMAIN new /\ final \in Int
  <2> HIDE DEF final
  <2>1. final = Final(new)
    BY DEF final
  <2> QED  BY <1>4, <2>1, PathEnds
<1>6. /\ end \in Int /\ end < time
      /\ EndTime(final, curr, last) = end
  <2>1. last < time \/ final <= last
    OBVIOUS
  <2>2. end = EndTime(time, curr, last) /\ curr < time
    BY DEF TooLate
  <2>3. last \in Int /\ final \in Int /\ time <= final
    BY <1>2, <1>4, <1>5
  <2> HIDE DEF last, end, final
  <2>4. CASE last < time
    BY <2>2, <2>3, <2>4 DEF EndTime, Min2, Max2
  <2>5. CASE final <= last
    BY <2>2, <2>3, <2>5 DEF EndTime, Min2, Max2
  <2> QED  BY <2>1, <2>4, <2>5
<1>8. \A t \in DOMAIN kept : t = start \/ t = end \/ t < end
  <2> HIDE DEF start, end, old
  <2> QED  BY DEF Trim
<1>9. start = end \/ start <= end
  <2> HIDE DEF end, old
  <2> QED  BY DEF StartTime, Min2
<1>10. DOMAIN new = DOMAIN kept \union {reach}
  <2> HIDE DEF kept, reach
  <2> QED  BY <1>1 DEF Extend
<1>11. final = reach
  <2> HIDE DEF final, reach, kept, start, end
  <2> QED  BY <1>4, <1>5, <1>6, <1>8, <1>9, <1>10
<1>12. ReachTime(final, end, kept[end], pose, Unlimited) = final
  <2> HIDE DEF final, kept, end
  <2> QED  BY <1>4, <1>5, <1>6 DEF ReachTime, Needed, Max2
<1>13. ~TooLate(final, curr)
  <2> HIDE DEF final
  <2> QED  BY <1>4, <1>5 DEF TooLate
<1>14. ScheduleWaypoint(p, pose, final, curr, lastWp, boundary, Unlimited)
         = Extend(kept, final, pose)
  BY <1>6, <1>12, <1>13 DEF ScheduleWaypoint
<1> QED  BY <1>1, <1>11, <1>14
-----------------------------------------------------------------------------
(* A set of integers with a bound has an extreme element.                  *)
LEMMA LeastElement ==
  ASSUME NEW T, NEW lo \in Int, \A t \in T : t \in Int /\ lo <= t, T # {}
  PROVE  \E m \in T : \A t \in T : m <= t
<1> DEFINE N == {k \in Nat : lo + k \in T}
           R == {ss \in Nat \X Nat : ss[1] < ss[2]}
<1>1. IsWellFoundedOn(R, Nat)
  BY NatLessThanWellFounded DEF OpToRel
<1>2. N \subseteq Nat /\ N # {}
  <2>1. PICK t \in T : TRUE
    OBVIOUS
  <2>2. t - lo \in N
    BY <2>1
  <2> QED  BY <2>2
<1> HIDE DEF R
<1>3. PICK m \in N : \A k \in N : ~(<<k, m>> \in R)
  BY <1>1, <1>2, WFMin
<1>4. lo + m \in T
  OBVIOUS
<1>5. ASSUME NEW t \in T PROVE lo + m <= t
  <2>1. t - lo \in N /\ t \in Int
    OBVIOUS
  <2>2. ~(t - lo < m)
    BY <1>3, <2>1 DEF R
  <2> QED  BY <1>2, <2>1, <2>2
<1> QED  BY <1>4, <1>5

LEMMA GreatestElement ==
  ASSUME NEW T, NEW hi \in Int, \A t \in T : t \in Int /\ t <= hi, T # {}
  PROVE  \E m \in T : \A t \in T : t <= m
<1> DEFINE N == {-t : t \in T}
<1>1. N # {} /\ \A k \in N : k \in Int /\ -hi <= k
  OBVIOUS
<1>2. PICK m \in N : \A k \in N : m <= k
  <2> HIDE DEF N
  <2> QED  BY <1>1, LeastElement
<1>3. -m \in T /\ m \in Int
  OBVIOUS
<1>4. ASSUME NEW t \in T PROVE t <= -m
  <2>1. m <= -t /\ t \in Int
    BY <1>2
  <2> QED  BY <1>3, <2>1
<1> QED  BY <1>3, <1>4

(* Induction over 0..n, for a set instead of a predicate.                  *)
LEMMA UpTo ==
  ASSUME NEW n \in Nat, NEW R, 0 \in R, \A k \in 1..n : k - 1 \in R => k \in R
  PROVE  \A k \in 0..n : k \in R
<1> DEFINE T == (0..n) \ R
<1>1. SUFFICES ASSUME T # {} PROVE FALSE
  OBVIOUS
<1>2. PICK m \in T : \A k \in T : m <= k
  <2>1. \A k \in T : k \in Int /\ 0 <= k
    OBVIOUS
  <2> HIDE DEF T
  <2> QED  BY <1>1, <2>1, LeastElement
<1>3. m \in 1..n /\ m - 1 \in 0..n
  OBVIOUS
<1>4. m - 1 \in R
  BY <1>2, <1>3
<1> QED  BY <1>3, <1>4

(* A recursion over 1..n has a solution.                                   *)
Iterates(S, s0, n, G, f) ==
  /\ f \in [0..n -> S] /\ f[0] = s0
  /\ \A k \in 1..n : f[k] = G[k][f[k - 1]]

LEMMA IterationExists ==
  ASSUME NEW S, NEW s0 \in S, NEW n \in Nat, NEW G \in [1..n -> [S -> S]]
  PROVE  \E f : Iterates(S, s0, n, G, f)
<1> DEFINE Good(m) == \E f : Iterates(S, s0, m, G, f)
           R == {m \in 0..n : Good(m)}
<1>1. 0 \in R
  <2>1. Iterates(S, s0, 0, G, [k \in 0..0 |-> s0])
    BY DEF Iterates
  <2> QED  BY <2>1
<1>2. ASSUME NEW m \in 1..n, m - 1 \in R PROVE m \in R
  <2>1. PICK f : Iterates(S, s0, m - 1, G, f)
    BY <1>2
  <2>2. /\ f \in [0..m - 1 -> S] /\ f[0] = s0
        /\ \A k \in 1..m - 1 : f[k] = G[k][f[k - 1]]
    BY <2>1 DEF Iterates
  <2> DEFINE v == G[m][f[m - 1]]
             h == [k \in 0..m |-> IF k = m THEN v ELSE f[k]]
  <2>3. f[m - 1] \in S /\ v \in S
    BY <2>2
  <2>4. h \in [0..m -> S] /\ h[0] = s0
    <3> HIDE DEF v
    <3> QED  BY <2>2, <2>3
  <2>5. ASSUME NEW k \in 1..m PROVE h[k] = G[k][h[k - 1]]
    <3>1. h[k - 1] = f[k - 1]
      OBVIOUS
    <3>2. CASE k = m
      BY <3>1, <3>2
    <3>3. CASE k # m
      BY <2>2, <3>1, <3>3
    <3> QED  BY <3>2, <3>3
  <2>6. Iterates(S, s0, m, G, h)
    <3> HIDE DEF h
    <3> QED  BY <2>4, <2>5 DEF Iterates
  <2> QED  BY <2>6
<1>3. \A m \in 0..n : m \in R
  <2> HIDE DEF R
  <2> QED  BY <1>1, <1>2, UpTo
<1>4. n \in R
  <2> HIDE DEF R
  <2> QED  BY <1>3
<1> QED  BY <1>4

(* Finitely many integer knots with integer poses are a path.              *)
LEMMA BoundedIsPath ==
  ASSUME NEW D, NEW p \in [D -> Int], NEW lo \in Int, NEW hi \in Int,
         D \subseteq lo..hi, D # {}
  PROVE  IsPath(p)
<1>1. DOMAIN p = D /\ \A t \in D : t \in Int /\ lo <= t /\ t <= hi
  OBVIOUS
<1>2. \E t \in D : \A u \in D : t <= u
  BY <1>1, LeastElement
<1>3. \E t \in D : \A u \in D : u <= t
  BY <1>1, GreatestElement
<1>4. ASSUME NEW t \in Int, \E u \in D : u < t PROVE HasBefore(p, t)
  <2> DEFINE T == {u \in D : u < t}
  <2>1. T # {} /\ \A u \in T : u \in Int /\ u <= hi
    BY <1>1, <1>4
  <2>2. \E u \in T : \A w \in T : w <= u
    <3> HIDE DEF T
    <3> QED  BY <2>1, GreatestElement
  <2> QED  BY <1>1, <2>2 DEF HasBefore
<1>5. ASSUME NEW t \in Int, \E u \in D : t < u PROVE HasAfter(p, t)
  <2> DEFINE T == {u \in D : t < u}
  <2>1. T # {} /\ \A u \in T : u \in Int /\ lo <= u
    BY <1>1, <1>5
  <2>2. \E u \in T : \A w \in T : u <= w
    <3> HIDE DEF T
    <3> QED  BY <2>1, LeastElement
  <2> QED  BY <1>1, <2>2 DEF HasAfter
<1>6. D \in SUBSET Int
  BY <1>1
<1> QED  BY <1>1, <1>2, <1>3, <1>4, <1>5, <1>6 DEF IsPath

(* The sums of durations, as _limit_local_timing accumulates them.         *)
LEMMA SumsAscend ==
  ASSUME NEW n \in Nat, NEW d \in [1..n -> Nat]
  PROVE  /\ Sums(d, n) \in [0..n -> Nat]
         /\ Sums(d, n)[0] = 0
         /\ \A k \in 1..n : Sums(d, n)[k] = Sums(d, n)[k - 1] + d[k]
         /\ \A k \in 0..n : Sums(d, n)[k] <= Sums(d, n)[n]
<1> DEFINE Body(f) == [k \in 0..n |-> IF k = 0 THEN 0 ELSE f[k - 1] + d[k]]
           sum == CHOOSE f : f = Body(f)
           G == [k \in 1..n |-> [v \in Nat |-> v + d[k]]]
<1>1. PICK f : Iterates(Nat, 0, n, G, f)
  <2>1. G \in [1..n -> [Nat -> Nat]] /\ 0 \in Nat
    OBVIOUS
  <2> HIDE DEF G
  <2> QED  BY <2>1, IterationExists
<1>2. f \in [0..n -> Nat] /\ f[0] = 0 /\ \A k \in 1..n : f[k] = f[k - 1] + d[k]
  <2>1. f \in [0..n -> Nat] /\ f[0] = 0 /\ \A k \in 1..n : f[k] = G[k][f[k - 1]]
    BY <1>1 DEF Iterates
  <2>2. \A k \in 1..n : f[k - 1] \in Nat
    BY <2>1
  <2> QED  BY <2>1, <2>2
<1>3. f = Body(f)
  BY <1>2
<1>4. sum = Body(sum)
  BY <1>3
<1>5. Sums(d, n) = sum
  BY DEF Sums
<1> HIDE DEF sum
<1>6. DOMAIN sum = 0..n /\ sum[0] = 0 /\ \A k \in 1..n : sum[k] = sum[k - 1] + d[k]
  BY <1>4
<1>7. \A k \in 0..n : sum[k] \in Nat
  <2> DEFINE R == {k \in 0..n : sum[k] \in Nat}
  <2>1. 0 \in R
    BY <1>6
  <2>2. ASSUME NEW k \in 1..n, k - 1 \in R PROVE k \in R
    BY <1>6, <2>2
  <2>3. \A k \in 0..n : k \in R
    <3> HIDE DEF R
    <3> QED  BY <2>1, <2>2, UpTo
  <2> QED  BY <2>3
<1>8. \A k \in 0..n : \A j \in 0..k : sum[j] <= sum[k]
  <2> DEFINE R == {k \in 0..n : \A j \in 0..k : sum[j] <= sum[k]}
  <2>1. 0 \in R
    BY <1>7
  <2>2. ASSUME NEW k \in 1..n, k - 1 \in R PROVE k \in R
    <3>1. sum[k - 1] <= sum[k] /\ sum[k - 1] \in Nat /\ sum[k] \in Nat
      BY <1>6, <1>7
    <3>2. ASSUME NEW j \in 0..k PROVE sum[j] <= sum[k]
      <4>1. CASE j = k
        BY <3>1, <4>1
      <4>2. CASE j # k
        <5>1. j \in 0..k - 1 /\ sum[j] \in Nat
          BY <1>7, <4>2
        <5>2. sum[j] <= sum[k - 1]
          BY <2>2, <5>1
        <5> QED  BY <3>1, <5>1, <5>2
      <4> QED  BY <4>1, <4>2
    <3> QED  BY <3>2
  <2>3. \A k \in 0..n : k \in R
    <3> HIDE DEF R
    <3> QED  BY <2>1, <2>2, UpTo
  <2> QED  BY <2>3
<1>9. sum \in [0..n -> Nat]
  BY <1>4, <1>6, <1>7
<1> QED  BY <1>5, <1>6, <1>8, <1>9

LEMMA SumsAtLeast ==
  ASSUME NEW n \in Nat, NEW d \in [1..n -> Nat], NEW c \in Nat, \A k \in 1..n : c <= d[k]
  PROVE  n * c <= Sums(d, n)[n]
<1> DEFINE sum == Sums(d, n)
           R == {k \in 0..n : k * c <= sum[k]}
<1>1. /\ sum \in [0..n -> Nat] /\ sum[0] = 0
      /\ \A k \in 1..n : sum[k] = sum[k - 1] + d[k]
  BY SumsAscend
<1> HIDE DEF sum
<1>2. 0 \in R
  BY <1>1
<1>3. ASSUME NEW k \in 1..n, k - 1 \in R PROVE k \in R
  <2>1. (k - 1) * c <= sum[k - 1] /\ sum[k] = sum[k - 1] + d[k] /\ c <= d[k]
    BY <1>1, <1>3
  <2>2. k * c = (k - 1) * c + c
    OBVIOUS
  <2>3. sum[k - 1] \in Nat /\ d[k] \in Nat /\ (k - 1) * c \in Int /\ k * c \in Int
    BY <1>1
  <2> QED  BY <2>1, <2>2, <2>3
<1>4. \A k \in 0..n : k \in R
  <2> HIDE DEF R
  <2> QED  BY <1>2, <1>3, UpTo
<1> QED  BY <1>4 DEF sum

(* A bounded set of integers has an element of every rank.                 *)
LEMMA RankExists ==
  ASSUME NEW lo \in Int, NEW hi \in Int, NEW S, S \subseteq lo..hi
  PROVE  /\ Cardinality(S) \in Nat
         /\ (Cardinality(S) = 0 <=> S = {})
         /\ \A i \in 1..Cardinality(S) :
              \E t \in S : Rank(S, t) = i
<1> DEFINE Upto(t) == {u \in S : u <= t}
<1>0. \A t : Rank(S, t) = Cardinality(Upto(t))
  BY DEF Rank
<1>1. IsFiniteSet(S)
  BY FS_Interval, FS_Subset
<1>2. ASSUME NEW t \in Int PROVE IsFiniteSet(Upto(t)) /\ Rank(S, t) \in Nat
  <2>1. IsFiniteSet(Upto(t))
    BY <1>1, FS_Subset
  <2> HIDE DEF Upto
  <2> QED  BY <1>0, <2>1, FS_CardinalityType
<1>3. Cardinality(S) \in Nat /\ (Cardinality(S) = 0 <=> S = {})
  BY <1>1, FS_CardinalityType, FS_EmptySet
<1>4. \A u \in S : u \in Int /\ lo <= u /\ u <= hi
  OBVIOUS
<1>5. Upto(hi) = S
  BY <1>4
<1>6. ASSUME NEW t \in Int, t < lo PROVE Rank(S, t) = 0
  <2>1. \A u \in S : ~(u <= t)
    BY <1>4, <1>6
  <2>2. Upto(t) = {}
    BY <2>1
  <2> HIDE DEF Upto
  <2> QED  BY <1>0, <2>2, FS_EmptySet
<1>7. ASSUME NEW t \in Int, t \notin S PROVE Rank(S, t) = Rank(S, t - 1)
  <2>1. \A u \in S : (u <= t) = (u <= t - 1)
    BY <1>4, <1>7
  <2>2. Upto(t) = Upto(t - 1)
    BY <2>1
  <2> HIDE DEF Upto
  <2> QED  BY <1>0, <2>2
<1>8. ASSUME NEW t \in S PROVE Rank(S, t) = Rank(S, t - 1) + 1
  <2>1. t \in Int /\ t - 1 \in Int
    BY <1>4
  <2>2. Upto(t) = Upto(t - 1) \union {t} /\ t \notin Upto(t - 1)
    <3>1. \A u \in S : (u <= t) = (u <= t - 1 \/ u = t)
      BY <1>4, <2>1
    <3>2. ~(t <= t - 1) /\ t <= t
      BY <2>1
    <3> QED  BY <3>1, <3>2, Zenon
  <2>3. IsFiniteSet(Upto(t - 1))
    BY <1>2, <2>1
  <2> HIDE DEF Upto
  <2> QED  BY <1>0, <2>2, <2>3, FS_AddElement
<1>9. Rank(S, hi) = Cardinality(S)
  <2> HIDE DEF Upto
  <2> QED  BY <1>0, <1>5
<1>10. ASSUME NEW i \in 1..Cardinality(S) PROVE \E t \in S : Rank(S, t) = i
  <2> DEFINE T == {t \in Int : lo <= t /\ i <= Rank(S, t)}
  <2>1. hi \in T
    <3>1. S # {} /\ i \in Int
      BY <1>3, <1>10
    <3> QED  BY <1>3, <1>4, <1>9, <1>10, <3>1
  <2>2. PICK t \in T : \A u \in T : t <= u
    <3>1. \A u \in T : u \in Int /\ lo <= u
      OBVIOUS
    <3> HIDE DEF T
    <3> QED  BY <2>1, <3>1, LeastElement
  <2>3. t \in Int /\ t - 1 \in Int /\ lo <= t /\ i <= Rank(S, t) /\ i \in Nat /\ i > 0
    BY <1>3, <1>10
  <2>4. Rank(S, t - 1) \in Nat
    BY <1>2, <2>3
  <2>5. Rank(S, t - 1) < i
    <3>1. CASE lo <= t - 1
      <4>1. t - 1 \notin T
        BY <2>2, <2>3
      <4> QED  BY <2>3, <2>4, <3>1, <4>1
    <3>2. CASE ~(lo <= t - 1)
      BY <1>6, <2>3, <3>2
    <3> QED  BY <3>1, <3>2
  <2>6. t \in S
    BY <1>7, <2>3, <2>4, <2>5
  <2>7. Rank(S, t) = i
    BY <1>8, <2>3, <2>4, <2>5, <2>6
  <2> QED  BY <2>6, <2>7
<1> QED  BY <1>3, <1>10

(* exec_actions sends the waypoints of a batch one by one: a sequence of   *)
(* its times, empty only for an empty batch.                               *)
LEMMA InOrderType ==
  ASSUME NEW lo \in Int, NEW hi \in Int, NEW S, S \subseteq lo..hi
  PROVE  /\ Cardinality(S) \in Nat
         /\ InOrder(S) \in [1..Cardinality(S) -> S]
         /\ Len(InOrder(S)) = Cardinality(S)
         /\ S # {} => 1 \in 1..Cardinality(S) /\ InOrder(S) # <<>>
<1>1. /\ Cardinality(S) \in Nat /\ (Cardinality(S) = 0 <=> S = {})
      /\ \A i \in 1..Cardinality(S) : \E t \in S : Rank(S, t) = i
  BY RankExists
<1>2. ASSUME NEW i \in 1..Cardinality(S) PROVE (CHOOSE t \in S : Rank(S, t) = i) \in S
  <2>1. \E t \in S : Rank(S, t) = i
    BY <1>1
  <2> QED  BY <2>1
<1>3. InOrder(S) \in [1..Cardinality(S) -> S]
  BY <1>2 DEF InOrder
<1>4. InOrder(S) \in Seq(S) /\ Len(InOrder(S)) = Cardinality(S)
  BY <1>1, <1>3, IsASeq, LenProperties
<1>5. S # {} => 1 \in 1..Cardinality(S) /\ Cardinality(S) # 0
  <2>1. Cardinality(S) \in Nat /\ (S # {} => Cardinality(S) # 0)
    BY <1>1
  <2> QED  BY <2>1
<1> QED  BY <1>1, <1>3, <1>4, <1>5, EmptySeq

-----------------------------------------------------------------------------
Targets == [arm : Int, grip : Int]
Paths == {p \in UNION {[D -> Int] : D \in SUBSET Int} : IsPath(p)}

(* A plan is an arm and a gripper path with the same knots, none of them   *)
(* before the splice or within a target period after it.                   *)
Plans ==
  {p \in [from : Int, arm : Paths, grip : Paths] :
     /\ DOMAIN p.grip = DOMAIN p.arm
     /\ \A t \in DOMAIN p.arm : t = p.from \/ p.from + Dt <= t}

Reasons ==
  {"", "startup", "operator pause", "bounded round complete", "inference failed", "timeout",
   "chunk expired", "unsafe chunk", "too fast", "queue exhausted", "batch expired"}

Schedulers ==
  [state : {"HOLD", "ACTIVE"}, reason : Reasons, plan : {NoPlan} \union Plans,
   queue : SUBSET Int, sent : SUBSET Int, pending : BOOLEAN, pendingSince : Int,
   nextRequestAt : Int, hasExecuted : BOOLEAN, controller : Targets]

(* The queue of a scheduler is what is left of its plan after the splice;  *)
(* a scheduler in HOLD has neither waypoints nor an open request.          *)
SchedulerOK(s) ==
  /\ s \in Schedulers
  /\ s.sent \subseteq s.queue
  /\ s.queue # {} => /\ s.plan \in Plans
                     /\ s.queue \subseteq DOMAIN s.plan.arm
                     /\ \A t \in s.queue : s.plan.from < t
  /\ s.state = "HOLD" => s.queue = {} /\ ~s.pending

LEMMA Constants ==
  /\ Dt \in Nat \ {0} /\ ActionHorizon \in Nat \ {0} /\ StepsPerInference \in Nat \ {0}
  /\ Playback \in Nat \ {0} /\ ArmSpeed \in Nat \ {0} /\ GripperSpeed \in Nat \ {0}
  /\ RobotLatency \in Nat /\ GripperLatency \in Nat /\ DispatchLead \in Nat
  /\ ExpirySlack \in Nat /\ MaxLocalDelay \in Nat /\ RequestTimeout \in Nat
  /\ MaxWaypoints \in Nat /\ ArmPeriod \in Nat /\ MaxRounds \in Nat /\ MaxNow \in Nat \ {0}
  /\ Slopes \subseteq Int
BY AuthorSyncAssumption, AuthorSyncClientAssumption

LEMMA PathsArePaths ==
  /\ \A p \in Paths : IsPath(p)
  /\ \A p : IsPath(p) => p \in Paths
BY DEF Paths, IsPath

LEMMA LatencyBudgetType ==
  /\ LatencyBudget \in Nat /\ RobotLatency <= LatencyBudget /\ GripperLatency <= LatencyBudget
BY Constants DEF LatencyBudget, Max2

LEMMA ProductPositive ==
  ASSUME NEW a \in Nat \ {0}, NEW b \in Nat \ {0}
  PROVE  a * b \in Nat \ {0} /\ a <= a * b
<1>1. a * b \in Nat
  OBVIOUS
<1>2. a * b >= a
  BY SMT
<1> QED  BY <1>1, <1>2

LEMMA QuotientTimes ==
  ASSUME NEW n \in Nat, NEW w \in Nat, NEW d \in Nat \ {0}, n <= w \div d
  PROVE  n * d <= w
<1> DEFINE q == w \div d
<1>1. q \in Nat /\ q * d <= w /\ q * d \in Nat
  BY SMT
<1> HIDE DEF q
<1>2. n * d <= q * d
  BY <1>1 DEF q
<1>3. n * d \in Nat
  OBVIOUS
<1> QED  BY <1>1, <1>2, <1>3

LEMMA CeilType ==
  ASSUME NEW d \in Nat, NEW s \in Nat \ {0}
  PROVE  Needed(d, s) \in Nat
BY CeilBounds DEF Needed, Unlimited

LEMMA DistanceType ==
  ASSUME NEW a \in Int, NEW b \in Int
  PROVE  Distance(a, b) \in Nat
BY DEF Distance

LEMMA PlannedTargetType ==
  ASSUME NEW s, SchedulerOK(s), NEW t \in Int
  PROVE  PlannedTarget(s, t) \in Targets
<1>1. CASE s.plan = NoPlan
  BY <1>1 DEF PlannedTarget, SchedulerOK, Schedulers
<1>2. CASE s.plan # NoPlan
  <2>1. s.plan \in Plans
    BY <1>2 DEF SchedulerOK, Schedulers
  <2>2. IsPath(s.plan.arm) /\ IsPath(s.plan.grip)
    BY <2>1, PathsArePaths DEF Plans
  <2>3. At(s.plan.arm, t) \in Int /\ At(s.plan.grip, t) \in Int
    BY <2>2, AtInt
  <2> QED  BY <1>2, <2>3 DEF PlannedTarget, Targets
<1> QED  BY <1>1, <1>2

LEMMA HalfwayType ==
  ASSUME NEW start \in Int, NEW end \in Int, NEW history \in Int, NEW future \in Int
  PROVE  Halfway(start, end, history, future) \in Int
<1> DEFINE straight == Sign(end - start)
           leaving == IF history # 0 THEN Sign(history) ELSE straight
           arriving == IF future # 0 THEN Sign(future) ELSE straight
           curve == Distance(start, end) * (leaving - arriving)
<1>1. leaving \in Int /\ arriving \in Int
  BY DEF Sign
<1>2. Distance(start, end) \in Nat
  BY DistanceType
<1> HIDE DEF leaving, arriving
<1>3. curve \in Int
  BY <1>1, <1>2
<1> HIDE DEF curve
<1>4. (start + end) \div 2 \in Int /\ curve \div 8 \in Int
  BY <1>3, DivInt
<1>5. Halfway(start, end, history, future) = (start + end) \div 2 + curve \div 8
  BY DEF Halfway, leaving, arriving, curve
<1> QED  BY <1>4, <1>5

(* The stitched knots of a merge, up to the window.                        *)
LEMMA KnotsType ==
  ASSUME NEW n \in Nat, n >= 3, NEW future \in Seq(Targets), Len(future) = n,
         NEW anchor \in Targets, NEW history \in Int, NEW m \in 0..n
  PROVE  /\ StitchTargets(future, anchor, history) \in Seq(Targets)
         /\ SubSeq(StitchTargets(future, anchor, history), 1, m) \in Seq(Targets)
         /\ Len(SubSeq(StitchTargets(future, anchor, history), 1, m)) = m
<1> DEFINE first == [future[1] EXCEPT
                      !.arm = Halfway(anchor.arm, future[2].arm, anchor.arm - history,
                                      future[3].arm - future[1].arm)]
           whole == StitchTargets(future, anchor, history)
<1>1. future \in [1..n -> Targets]
  BY LenProperties
<1>2. future[1] \in Targets /\ future[2] \in Targets /\ future[3] \in Targets
  BY <1>1
<1>3. Halfway(anchor.arm, future[2].arm, anchor.arm - history,
              future[3].arm - future[1].arm) \in Int
  <2>1. /\ anchor.arm \in Int /\ future[2].arm \in Int
        /\ anchor.arm - history \in Int /\ future[3].arm - future[1].arm \in Int
    BY <1>2 DEF Targets
  <2> QED  BY <2>1, HalfwayType
<1>4. first \in Targets
  BY <1>2, <1>3 DEF Targets
<1> HIDE DEF first
<1>5. whole = [k \in 1..n |-> IF k # 1 THEN future[k] ELSE first]
  BY <1>1 DEF StitchTargets, first
<1>6. whole \in [1..n -> Targets]
  BY <1>1, <1>4, <1>5
<1> HIDE DEF whole
<1>7. whole \in Seq(Targets) /\ Len(whole) = n
  BY <1>6, IsASeq, LenProperties
<1>8. SubSeq(whole, 1, m) \in Seq(Targets) /\ Len(SubSeq(whole, 1, m)) = m
  BY <1>6, <1>7, SubSeqProperties
<1> QED  BY <1>7, <1>8 DEF whole

LEMMA DurationType ==
  ASSUME NEW a \in Targets, NEW b \in Targets
  PROVE  Duration(a, b) \in Nat /\ Dt <= Duration(a, b)
<1>1. Distance(a.grip, b.grip) \in Nat /\ Distance(a.arm, b.arm) \in Nat
  BY DistanceType DEF Targets
<1>2. /\ Needed(Distance(a.grip, b.grip), GripperSpeed) \in Nat
      /\ Needed(Distance(a.arm, b.arm), ArmSpeed) \in Nat
  BY <1>1, CeilType, Constants
<1>3. Dt * Playback \in Nat /\ Dt <= Dt * Playback /\ Dt \in Nat
  BY Constants, ProductPositive
<1> QED  BY <1>2, <1>3 DEF Duration, BaseDuration, Max2

LEMMA TimingType ==
  ASSUME NEW knots \in Seq(Targets), NEW anchor \in Targets,
         NEW reached, reached = LimitLocalTiming(knots, anchor).reached
  PROVE  /\ reached \in [0..Len(knots) -> Nat] /\ reached[0] = 0
         /\ \A k \in 0..Len(knots) : reached[k] <= reached[Len(knots)]
         /\ \A k \in 1..Len(knots) : Dt <= reached[k]
         /\ Len(knots) * Dt <= reached[Len(knots)]
<1> DEFINE n == Len(knots)
           Left(k) == IF k = 1 THEN anchor ELSE knots[k - 1]
           duration == [k \in 1..n |-> Duration(Left(k), knots[k])]
<1>1. n \in Nat /\ knots \in [1..n -> Targets]
  BY LenProperties
<1>2. ASSUME NEW k \in 1..n
      PROVE  Duration(Left(k), knots[k]) \in Nat /\ Dt <= Duration(Left(k), knots[k])
  <2>1. Left(k) \in Targets /\ knots[k] \in Targets
    BY <1>1
  <2> HIDE DEF Left
  <2> QED  BY <2>1, DurationType
<1>3. duration \in [1..n -> Nat] /\ \A k \in 1..n : Dt <= duration[k]
  BY <1>2
<1>4. reached = Sums(duration, n)
  BY DEF LimitLocalTiming
<1> HIDE DEF duration, n
<1>5. /\ Sums(duration, n) \in [0..n -> Nat] /\ Sums(duration, n)[0] = 0
      /\ \A k \in 0..n : Sums(duration, n)[k] <= Sums(duration, n)[n]
      /\ \A k \in 1..n : Sums(duration, n)[k] = Sums(duration, n)[k - 1] + duration[k]
  BY <1>1, <1>3, SumsAscend
<1>6. n * Dt <= Sums(duration, n)[n]
  BY <1>1, <1>3, Constants, SumsAtLeast
<1>7. ASSUME NEW k \in 1..n PROVE Dt <= Sums(duration, n)[k]
  <2>1. /\ Sums(duration, n)[k - 1] \in Nat /\ duration[k] \in Nat /\ Dt <= duration[k]
        /\ Sums(duration, n)[k] = Sums(duration, n)[k - 1] + duration[k]
    BY <1>1, <1>3, <1>5
  <2> QED  BY <2>1, Constants
<1> QED  BY <1>4, <1>5, <1>6, <1>7 DEF n

LEMMA ExecutionWindowType == ExecutionWindow \in Nat /\ Dt <= ExecutionWindow
<1>1. (StepsPerInference + 1) \in Nat \ {0}
  BY Constants
<1>2. (StepsPerInference + 1) * Dt \in Nat
  BY <1>1, Constants, ProductPositive
<1>3. Dt <= (StepsPerInference + 1) * Dt
  <2>1. (StepsPerInference + 1) * Dt = StepsPerInference * Dt + Dt
    BY Constants
  <2>2. StepsPerInference * Dt \in Nat
    BY Constants, ProductPositive
  <2> QED  BY <2>1, <2>2, Constants
<1> QED  BY <1>2, <1>3, Constants DEF ExecutionWindow

(* What a merge plans.                                                     *)
LEMMA TrajectoryIsPlan ==
  ASSUME NEW knots \in Seq(Targets), NEW anchor \in Targets, NEW splice \in Int,
         NEW reached \in [0..Len(knots) -> Nat], reached[0] = 0,
         \A k \in 0..Len(knots) : reached[k] <= reached[Len(knots)],
         \A k \in 1..Len(knots) : Dt <= reached[k]
  PROVE  /\ Trajectory(knots, anchor, reached, splice) \in Plans
         /\ Trajectory(knots, anchor, reached, splice).from = splice
         /\ Final(Trajectory(knots, anchor, reached, splice).arm)
              = splice + Min2(reached[Len(knots)], ExecutionWindow)
<1> DEFINE n == Len(knots)
           times == {splice + reached[k] : k \in 0..n}
           end == splice + Min2(reached[n], ExecutionWindow)
           Target(t) == IF t = splice THEN anchor
                        ELSE knots[CHOOSE k \in 1..n : splice + reached[k] = t]
           armAll == [t \in times |-> Target(t).arm]
           gripAll == [t \in times |-> Target(t).grip]
           plan == Trajectory(knots, anchor, reached, splice)
<1>1. n \in Nat /\ knots \in [1..n -> Targets] /\ reached[n] \in Nat
  BY LenProperties
<1>16. ASSUME NEW t \in times PROVE t = splice \/ splice + Dt <= t
  <2>1. PICK k \in 0..n : t = splice + reached[k]
    OBVIOUS
  <2>2. k = 0 \/ k \in 1..n
    BY <1>1
  <2> QED  BY <2>1, <2>2, Constants
<1>17. end = splice \/ splice + Dt <= end
  <2>1. n = 0 \/ n \in 1..n
    BY <1>1
  <2>2. Dt <= ExecutionWindow
    BY ExecutionWindowType
  <2>3. n = 0 => end = splice
    BY <1>1, <2>2, ExecutionWindowType DEF Min2
  <2> QED  BY <1>1, <2>1, <2>2, <2>3, Constants, ExecutionWindowType DEF Min2
<1>2. ASSUME NEW t \in times PROVE Target(t) \in Targets /\ t \in splice..splice + reached[n]
  <2>1. PICK k \in 0..n : t = splice + reached[k]
    OBVIOUS
  <2>2. t \in splice..splice + reached[n]
    BY <1>1, <2>1
  <2>3. CASE t = splice
    BY <2>2, <2>3
  <2>4. CASE t # splice
    <3>1. k \in 1..n
      BY <1>1, <2>1, <2>4
    <3>2. (CHOOSE j \in 1..n : splice + reached[j] = t) \in 1..n
      BY <2>1, <3>1
    <3>3. knots[CHOOSE j \in 1..n : splice + reached[j] = t] \in Targets
      BY <1>1, <3>2
    <3> QED  BY <2>2, <2>4, <3>3
  <2> QED  BY <2>3, <2>4
<1>3. splice \in times
  BY <1>1
<1>4. splice <= end /\ end \in Int
  BY <1>1, ExecutionWindowType DEF Min2
<1>5. plan = [from |-> splice, arm |-> Trim(armAll, splice, end),
              grip |-> Trim(gripAll, splice, end)]
  BY DEF Trajectory
<1> HIDE DEF Target, end, plan
<1>6. times \subseteq splice..splice + reached[n] /\ times # {}
  BY <1>2, <1>3
<1>7. armAll \in [times -> Int] /\ gripAll \in [times -> Int]
  BY <1>2 DEF Targets
<1>8. DOMAIN armAll = times /\ DOMAIN gripAll = times
  OBVIOUS
<1> HIDE DEF armAll, gripAll, times
<1>9. IsPath(armAll) /\ IsPath(gripAll)
  <2>1. splice + reached[n] \in Int
    BY <1>1
  <2> QED  BY <1>6, <1>7, <2>1, BoundedIsPath
<1>10. IsPath(Trim(armAll, splice, end)) /\ IsPath(Trim(gripAll, splice, end))
  BY <1>4, <1>9, TrimIsPath
<1>11. DOMAIN Trim(gripAll, splice, end) = DOMAIN Trim(armAll, splice, end)
  BY <1>8 DEF Trim
<1>12. \A t \in DOMAIN Trim(armAll, splice, end) : t = splice \/ splice + Dt <= t
  <2>1. DOMAIN Trim(armAll, splice, end)
          = {splice, end} \union {u \in times : splice < u /\ u < end}
    BY <1>8 DEF Trim
  <2> QED  BY <1>16, <1>17, <2>1
<1>13. plan \in [from : Int, arm : Paths, grip : Paths]
  BY <1>5, <1>10, PathsArePaths
<1>14. plan \in Plans
  BY <1>5, <1>11, <1>12, <1>13 DEF Plans
<1>15. Final(plan.arm) = end
  <2> DEFINE kept == Trim(armAll, splice, end)
  <2>1. DOMAIN kept \in SUBSET Int /\ end \in DOMAIN kept /\ \A t \in DOMAIN kept : t <= end
    BY <1>4, <1>9, TrimKeeps DEF IsPath
  <2>2. plan.arm = kept
    BY <1>5
  <2> HIDE DEF kept
  <2> QED  BY <2>1, <2>2, FinalIs
<1> QED  BY <1>5, <1>14, <1>15 DEF plan, end

-----------------------------------------------------------------------------
LEMMA CreatedOK == SchedulerOK(Created)
<1>1. Created \in Schedulers
  BY DEF Schedulers, Created, Targets, Reasons
<1> QED  BY <1>1 DEF SchedulerOK, Created

LEMMA ActivateOK ==
  ASSUME NEW s, NEW live \in Targets
  PROVE  SchedulerOK(Activate(s, live)) /\ Activate(s, live).pending = FALSE
<1>1. Activate(s, live) \in Schedulers
  <2>1. Created \in Schedulers /\ "" \in Reasons
    BY CreatedOK DEF SchedulerOK, Reasons
  <2> QED  BY <2>1 DEF Schedulers, Activate
<1> QED  BY <1>1 DEF SchedulerOK, Activate, Created

LEMMA HoldOK ==
  ASSUME NEW s, SchedulerOK(s), NEW reason \in Reasons
  PROVE  /\ SchedulerOK(Hold(s, reason))
         /\ Hold(s, reason).state = "HOLD" /\ Hold(s, reason).pending = FALSE
         /\ Hold(s, reason).queue = {} /\ Hold(s, reason).sent = {}
BY DEF SchedulerOK, Schedulers, Hold

LEMMA ObserveOK ==
  ASSUME NEW s, SchedulerOK(s), NEW target \in Targets
  PROVE  /\ SchedulerOK(ObserveController(s, target))
         /\ ObserveController(s, target).pending = s.pending
         /\ ObserveController(s, target).pendingSince = s.pendingSince
         /\ ObserveController(s, target).sent = s.sent
BY DEF SchedulerOK, Schedulers, ObserveController

LEMMA AdvanceOK ==
  ASSUME NEW s, SchedulerOK(s), NEW t \in Int
  PROVE  /\ SchedulerOK(Advance(s, t))
         /\ Advance(s, t).pending => /\ s.pending
                                     /\ Advance(s, t).pendingSince = s.pendingSince
                                     /\ t - s.pendingSince <= RequestTimeout
<1>1. CASE s.state # "ACTIVE"
  <2>1. Advance(s, t) = s
    BY <1>1 DEF Advance
  <2>2. s.state = "HOLD"
    BY <1>1 DEF SchedulerOK, Schedulers
  <2> QED  BY <2>1, <2>2 DEF SchedulerOK
<1>2. CASE s.state = "ACTIVE" /\ s.pending /\ t - s.pendingSince > RequestTimeout
  <2>1. Advance(s, t) = Hold(s, "timeout")
    BY <1>2 DEF Advance
  <2> QED  BY <2>1, HoldOK DEF Reasons
<1>3. CASE s.state = "ACTIVE" /\ ~(s.pending /\ t - s.pendingSince > RequestTimeout)
  <2> DEFINE after == [s EXCEPT !.queue = @ \ Done(s, t), !.sent = @ \ Done(s, t),
                                !.hasExecuted = @ \/ Done(s, t) # {}]
  <2>1. Advance(s, t) = after
    BY <1>3 DEF Advance
  <2>2. /\ after.queue = s.queue \ Done(s, t) /\ after.sent = s.sent \ Done(s, t)
        /\ after.state = s.state /\ after.plan = s.plan
        /\ after.pending = s.pending /\ after.pendingSince = s.pendingSince
    BY DEF SchedulerOK, Schedulers
  <2>3. after \in Schedulers
    BY DEF SchedulerOK, Schedulers
  <2> HIDE DEF after
  <2>4. SchedulerOK(after)
    BY <1>3, <2>2, <2>3 DEF SchedulerOK
  <2>5. s.pending => t - s.pendingSince <= RequestTimeout
    BY <1>3, Constants DEF SchedulerOK, Schedulers
  <2> QED  BY <2>1, <2>2, <2>4, <2>5
<1> QED  BY <1>1, <1>2, <1>3

LEMMA PeriodType == Period \in Nat \ {0}
BY Constants, ProductPositive DEF Period

LEMMA MarkOK ==
  ASSUME NEW s, SchedulerOK(s), s.state = "ACTIVE", NEW t \in Int
  PROVE  /\ SchedulerOK(MarkRequestStarted(s, t))
         /\ MarkRequestStarted(s, t).pending = TRUE
         /\ MarkRequestStarted(s, t).pendingSince = t
         /\ MarkRequestStarted(s, t).state = s.state
         /\ MarkRequestStarted(s, t).plan = s.plan
         /\ MarkRequestStarted(s, t).queue = s.queue
         /\ MarkRequestStarted(s, t).sent = s.sent
<1> DEFINE marked == MarkRequestStarted(s, t)
           next == IF s.nextRequestAt = 0 THEN t + Period
                   ELSE s.nextRequestAt + ((t - s.nextRequestAt) \div Period + 1) * Period
<1>1. next \in Int
  <2>1. s.nextRequestAt \in Int /\ Period \in Nat /\ Period > 0
    BY PeriodType DEF SchedulerOK, Schedulers
  <2>2. (t - s.nextRequestAt) \div Period \in Int
    BY <2>1, DivInt
  <2>3. ((t - s.nextRequestAt) \div Period + 1) * Period \in Int
    BY <2>1, <2>2
  <2> QED  BY <2>1, <2>3
<1>2. marked = [s EXCEPT !.pending = TRUE, !.pendingSince = t, !.nextRequestAt = next]
  BY DEF MarkRequestStarted
<1> HIDE DEF next, marked
<1>3. marked \in Schedulers
  BY <1>1, <1>2 DEF SchedulerOK, Schedulers
<1>4. /\ marked.pending = TRUE /\ marked.pendingSince = t
      /\ marked.state = s.state /\ marked.plan = s.plan
      /\ marked.queue = s.queue /\ marked.sent = s.sent
  BY <1>2 DEF SchedulerOK, Schedulers
<1>5. SchedulerOK(marked)
  BY <1>3, <1>4 DEF SchedulerOK
<1> QED  BY <1>4, <1>5 DEF marked

LEMMA StaleType ==
  ASSUME NEW age \in Nat
  PROVE  Stale(age) \in Nat
<1>1. age + LatencyBudget \in Nat
  BY LatencyBudgetType
<1> QED  BY <1>1, CeilType, Constants DEF Stale

(* The scheduler after a merge that is neither late, unsafe nor too fast.  *)
Adopted(s, plan) ==
  [s EXCEPT !.plan = plan, !.queue = (DOMAIN plan.arm) \ {plan.from}, !.sent = {},
            !.pending = FALSE]

LEMMA AdoptedOK ==
  ASSUME NEW s, SchedulerOK(s), s.state = "ACTIVE", NEW plan \in Plans
  PROVE  SchedulerOK(Adopted(s, plan)) /\ Adopted(s, plan).pending = FALSE
<1> DEFINE after == Adopted(s, plan)
<1>1. /\ DOMAIN plan.arm \in SUBSET Int /\ plan.from \in Int
      /\ \A u \in (DOMAIN plan.arm) \ {plan.from} : plan.from < u
  <2>1. DOMAIN plan.arm \in SUBSET Int /\ plan.from \in Int
    BY PathsArePaths DEF Plans, IsPath
  <2>2. \A u \in DOMAIN plan.arm : plan.from <= u
    BY <2>1, Constants DEF Plans
  <2> QED  BY <2>1, <2>2
<1>2. after \in Schedulers
  BY <1>1 DEF SchedulerOK, Schedulers, Adopted
<1>3. /\ after.plan = plan /\ after.queue = (DOMAIN plan.arm) \ {plan.from} /\ after.sent = {}
      /\ after.pending = FALSE /\ after.state = "ACTIVE"
  BY DEF SchedulerOK, Schedulers, Adopted
<1> HIDE DEF after
<1>4. SchedulerOK(after)
  BY <1>1, <1>2, <1>3 DEF SchedulerOK
<1> QED  BY <1>3, <1>4 DEF after

(* The trajectory a merge plans from the splice on.                        *)
Spliced(s, targets, age, t) ==
  LET splice  == t + LatencyBudget + DispatchLead
      future  == SubSeq(targets, Stale(age) + 1, ActionHorizon)
      anchor  == PlannedTarget(s, splice)
      history == IF s.plan = NoPlan THEN s.controller ELSE PlannedTarget(s, splice - 1)
      whole   == StitchTargets(future, anchor, history.arm)
      knots   == SubSeq(whole, 1, Min2(Len(future), ExecutionWindow \div Dt))
      timing  == LimitLocalTiming(knots, anchor)
  IN Trajectory(knots, anchor, timing.reached, splice)

LEMMA SplicedIsPlan ==
  ASSUME NEW s, SchedulerOK(s),
         NEW targets \in Seq(Targets), Len(targets) = ActionHorizon,
         NEW age \in Nat, NEW t \in Int, Stale(age) <= ActionHorizon - 3
  PROVE  /\ Spliced(s, targets, age, t) \in Plans
         /\ Spliced(s, targets, age, t).from = t + LatencyBudget + DispatchLead
         /\ \E n \in {ActionHorizon - Stale(age), ExecutionWindow \div Dt} :
              t + LatencyBudget + DispatchLead + n * Dt <= Final(Spliced(s, targets, age, t).arm)
<1> DEFINE stale   == Stale(age)
           future  == SubSeq(targets, stale + 1, ActionHorizon)
           splice  == t + LatencyBudget + DispatchLead
           anchor  == PlannedTarget(s, splice)
           history == IF s.plan = NoPlan THEN s.controller ELSE PlannedTarget(s, splice - 1)
           whole   == StitchTargets(future, anchor, history.arm)
           knots   == SubSeq(whole, 1, Min2(Len(future), ExecutionWindow \div Dt))
           timing  == LimitLocalTiming(knots, anchor)
           plan    == Spliced(s, targets, age, t)
<1>1. stale \in Nat /\ stale <= ActionHorizon - 3 /\ ActionHorizon \in Nat
  BY StaleType, Constants
<1>3. splice \in Int
  BY Constants, LatencyBudgetType
<1> HIDE DEF stale, splice
<1>4. anchor \in Targets /\ history \in Targets
  BY <1>3, PlannedTargetType DEF SchedulerOK, Schedulers
<1> HIDE DEF anchor, history
<1>5. future \in Seq(Targets) /\ Len(future) = ActionHorizon - stale
  <2>1. targets \in [1..ActionHorizon -> Targets]
    BY LenProperties
  <2>2. \A i \in stale + 1..ActionHorizon : targets[i] \in Targets
    BY <1>1, <2>1
  <2>3. stale + 1 \in Nat /\ ActionHorizon \in Nat /\ stale + 1 >= 1
        /\ stale + 1 <= ActionHorizon + 1
    BY <1>1
  <2>4. future \in Seq(Targets) /\ Len(future) = ActionHorizon - (stale + 1) + 1
    BY <2>2, <2>3, SubSeqProperties
  <2> QED  BY <1>1, <2>4
<1> HIDE DEF future
<1>6. history.arm \in Int
  BY <1>4 DEF Targets
<1>7. Min2(Len(future), ExecutionWindow \div Dt) \in 0..Len(future)
  <2>1. ExecutionWindow \div Dt \in Nat
    BY ExecutionWindowType, Constants
  <2>2. Len(future) \in Nat
    BY <1>5, LenProperties
  <2> QED  BY <2>1, <2>2 DEF Min2
<1>8. /\ knots \in Seq(Targets)
      /\ Len(knots) = Min2(Len(future), ExecutionWindow \div Dt)
  <2>1. Len(future) \in Nat /\ Len(future) >= 3
    BY <1>1, <1>5
  <2> QED  BY <1>4, <1>5, <1>6, <1>7, <2>1, KnotsType
<1> HIDE DEF knots
<1>9. /\ timing.reached \in [0..Len(knots) -> Nat] /\ timing.reached[0] = 0
      /\ \A k \in 0..Len(knots) : timing.reached[k] <= timing.reached[Len(knots)]
      /\ \A k \in 1..Len(knots) : Dt <= timing.reached[k]
      /\ Len(knots) * Dt <= timing.reached[Len(knots)]
  BY <1>4, <1>8, TimingType
<1>10. plan = Trajectory(knots, anchor, timing.reached, splice)
  BY DEF Spliced, knots, anchor, history, future, splice, stale
<1> HIDE DEF timing, plan
<1>11. /\ plan \in Plans /\ plan.from = splice
       /\ Final(plan.arm) = splice + Min2(timing.reached[Len(knots)], ExecutionWindow)
  BY <1>3, <1>4, <1>8, <1>9, <1>10, TrajectoryIsPlan
<1>12. Len(knots) \in {ActionHorizon - stale, ExecutionWindow \div Dt}
  BY <1>5, <1>8 DEF Min2
<1>13. splice + Len(knots) * Dt <= Final(plan.arm)
  <2>1. Len(knots) \in Nat /\ ExecutionWindow \in Nat /\ ExecutionWindow \div Dt \in Nat
    BY <1>8, LenProperties, ExecutionWindowType, Constants
  <2>2. Len(knots) <= ExecutionWindow \div Dt
    BY <1>1, <1>5, <1>8, <2>1 DEF Min2
  <2>3. Len(knots) * Dt <= ExecutionWindow
    BY <2>1, <2>2, Constants, QuotientTimes
  <2>4. timing.reached[Len(knots)] \in Nat /\ Len(knots) * Dt \in Nat
    BY <1>9, <2>1, Constants
  <2> QED  BY <1>3, <1>9, <1>11, <2>1, <2>3, <2>4 DEF Min2
<1> QED  BY <1>11, <1>12, <1>13 DEF plan, splice, stale

(* A merge holds, or goes on with the trajectory it planned.               *)
LEMMA MergeIs ==
  ASSUME NEW s, SchedulerOK(s), s.state = "ACTIVE",
         NEW targets \in Seq(Targets), Len(targets) = ActionHorizon,
         NEW age \in Nat, NEW t \in Int,
         NEW merged, merged = MergeChunk(s, targets, age, t)
  PROVE  \/ merged = Hold(s, "chunk expired")
         \/ merged = Hold(s, "unsafe chunk") \/ merged = Hold(s, "too fast")
         \/ /\ Stale(age) <= ActionHorizon - 3
            /\ Spliced(s, targets, age, t) \in Plans
            /\ Spliced(s, targets, age, t).from = t + LatencyBudget + DispatchLead
            /\ merged = Adopted(s, Spliced(s, targets, age, t))
<1> DEFINE plan == Spliced(s, targets, age, t)
           after == [s EXCEPT !.plan = plan,
                              !.queue = (DOMAIN plan.arm) \ {t + LatencyBudget + DispatchLead},
                              !.sent = {}, !.pending = FALSE]
<1>1. CASE Stale(age) > ActionHorizon - 3
  BY <1>1 DEF MergeChunk
<1>2. CASE ~(Stale(age) > ActionHorizon - 3)
  <2>1. Stale(age) <= ActionHorizon - 3
    BY <1>2, StaleType, Constants
  <2>2. merged = Hold(s, "unsafe chunk") \/ merged = Hold(s, "too fast") \/ merged = after
    BY <1>2 DEF MergeChunk, Spliced
  <2>3. plan \in Plans /\ plan.from = t + LatencyBudget + DispatchLead
    BY <2>1, SplicedIsPlan
  <2> HIDE DEF plan
  <2>4. after = Adopted(s, plan)
    BY <2>3 DEF Adopted
  <2> HIDE DEF after
  <2> QED  BY <2>1, <2>2, <2>3, <2>4 DEF plan
<1> QED  BY <1>1, <1>2

LEMMA MergeOK ==
  ASSUME NEW s, SchedulerOK(s), s.state = "ACTIVE",
         NEW targets \in Seq(Targets), Len(targets) = ActionHorizon,
         NEW age \in Nat, NEW t \in Int,
         NEW merged, merged = MergeChunk(s, targets, age, t)
  PROVE  SchedulerOK(merged) /\ merged.pending = FALSE
<1>1. ASSUME NEW reason \in Reasons, merged = Hold(s, reason)
      PROVE  SchedulerOK(merged) /\ merged.pending = FALSE
  BY <1>1, HoldOK
<1>2. "chunk expired" \in Reasons /\ "unsafe chunk" \in Reasons /\ "too fast" \in Reasons
  BY DEF Reasons
<1> DEFINE plan == Spliced(s, targets, age, t)
<1>3. \/ merged = Hold(s, "chunk expired") \/ merged = Hold(s, "unsafe chunk")
      \/ merged = Hold(s, "too fast")
      \/ plan \in Plans /\ merged = Adopted(s, plan)
  BY MergeIs
<1> HIDE DEF plan
<1> QED  BY <1>1, <1>2, <1>3, AdoptedOK

LEMMA PopOK ==
  ASSUME NEW s, SchedulerOK(s), NEW taken, taken \subseteq Unsent(s), NEW t \in Int
  PROVE  /\ SchedulerOK(PopBatch(s, taken, t))
         /\ PopBatch(s, taken, t).pending =>
              s.pending /\ PopBatch(s, taken, t).pendingSince = s.pendingSince
         /\ PopBatch(s, taken, t).sent \ s.sent # {} =>
              PopBatch(s, taken, t).plan.from - LatencyBudget > t + ExpirySlack
<1> DEFINE popped == PopBatch(s, taken, t)
<1>0. \/ popped = s
      \/ popped = Hold(s, "queue exhausted") \/ popped = Hold(s, "batch expired")
      \/ /\ popped = [s EXCEPT !.sent = @ \union taken] /\ s.queue # {} /\ s.state = "ACTIVE"
         /\ ~Expired(s, taken, t)
  BY DEF PopBatch
<1> HIDE DEF popped
<1>1. CASE popped = s
  BY <1>1 DEF popped
<1>2. CASE popped = Hold(s, "queue exhausted") \/ popped = Hold(s, "batch expired")
  BY <1>2, HoldOK DEF Reasons, popped
<1>3. CASE popped = [s EXCEPT !.sent = @ \union taken] /\ s.queue # {} /\ s.state = "ACTIVE"
           /\ ~Expired(s, taken, t)
  <2>1. /\ popped.queue = s.queue /\ popped.sent = s.sent \union taken
        /\ popped.state = s.state /\ popped.plan = s.plan
        /\ popped.pending = s.pending /\ popped.pendingSince = s.pendingSince
    BY <1>3 DEF SchedulerOK, Schedulers
  <2>2. taken \subseteq s.queue
    BY DEF Unsent
  <2>3. popped \in Schedulers
    BY <1>3, <2>2 DEF SchedulerOK, Schedulers
  <2>4. SchedulerOK(popped)
    BY <1>3, <2>1, <2>2, <2>3 DEF SchedulerOK
  <2>5. s.plan \in Plans
    BY <1>3 DEF SchedulerOK
  <2>6. s.plan.from \in Int
    BY <2>5 DEF Plans
  <2>7. taken # {} => s.plan.from - LatencyBudget > t + ExpirySlack
    BY <1>3, <2>6, LatencyBudgetType, Constants DEF Expired
  <2> QED  BY <2>1, <2>4, <2>7 DEF popped
<1> QED  BY <1>0, <1>1, <1>2, <1>3 DEF popped

-----------------------------------------------------------------------------
(* A waypoint as exec_actions sends it: a replacement boundary precedes it. *)
Orders ==
  {w \in [time : Int, pose : Int, boundary : Nat] :
     w.boundary # NoBoundary => w.boundary < w.time}

LEMMA OrderIsValid ==
  ASSUME NEW w \in Orders, NEW curr \in Int, NEW time \in Int,
         w.time <= time \/ w.time <= curr
  PROVE  ~BoundaryInvalid(time, curr, w.boundary)
BY DEF Orders, BoundaryInvalid, TooLate, Max2, NoBoundary

(* One waypoint, early or too late, leaves a path that goes on from where  *)
(* the setpoint is.                                                        *)
LEMMA WaypointType ==
  ASSUME NEW p \in Paths, NEW w \in Orders, NEW curr \in Int, NEW time \in Int,
         NEW lastWp \in Int, NEW speed \in Nat, w.time <= time \/ w.time <= curr,
         NEW new, new = ScheduleWaypoint(p, w.pose, time, curr, lastWp, w.boundary, speed)
  PROVE  /\ new \in Paths
         /\ At(new, curr) = At(p, curr)
         /\ ~TooLate(time, curr) => time <= Final(new)
<1>1. CASE TooLate(time, curr)
  BY <1>1 DEF ScheduleWaypoint
<1>2. CASE ~TooLate(time, curr)
  <2>1. IsPath(p) /\ w.pose \in Int /\ w.boundary \in Nat
    BY PathsArePaths DEF Orders
  <2>2. ~BoundaryInvalid(time, curr, w.boundary)
    BY OrderIsValid
  <2>3. IsPath(new) /\ At(new, curr) = At(p, curr) /\ time <= Final(new)
    <3> DEFINE pose == w.pose
               boundary == w.boundary
               end == EndTime(time, curr, LastBefore(lastWp, curr, boundary))
    <3>1. /\ end = EndTime(time, curr, LastBefore(lastWp, curr, boundary))
          /\ new = ScheduleWaypoint(p, pose, time, curr, lastWp, boundary, speed)
          /\ pose \in Int /\ boundary \in Nat /\ ~BoundaryInvalid(time, curr, boundary)
      BY <2>1, <2>2
    <3> HIDE DEF end, pose, boundary
    <3> QED  BY <1>2, <2>1, <3>1, WaypointKeepsPath
  <2> QED  BY <2>3, PathsArePaths
<1> QED  BY <1>1, <1>2

LEMMA FinalType ==
  ASSUME NEW p \in Paths
  PROVE  Final(p) \in Int
BY PathsArePaths, PathEnds

LEMMA ScheduleType ==
  ASSUME NEW p \in Paths, NEW w \in Orders, NEW curr \in Int, NEW speed \in Nat
  PROVE  /\ Schedule(p, w, curr, speed) \in Paths
         /\ At(Schedule(p, w, curr, speed), curr) = At(p, curr)
         /\ ~TooLate(w.time, curr) => w.time <= Final(Schedule(p, w, curr, speed))
<1>1. w.time \in Int /\ w.time <= w.time
  BY DEF Orders
<1> QED  BY <1>1, WaypointType, FinalType DEF Schedule

LEMMA GripAfterType ==
  ASSUME NEW p \in [path : Paths, policy : Paths], NEW w \in Orders, now \in Int
  PROVE  /\ GripAfter(p, w) \in [path : Paths, policy : Paths]
         /\ At(GripAfter(p, w).path, now) = At(p.path, now)
         /\ At(GripAfter(p, w).policy, now) = At(p.policy, now)
<1> DEFINE physical == Schedule(p.path, w, now, GripperSpeed + 1)
           reference == ScheduleWaypoint(p.policy, w.pose, Final(physical), now, Final(p.path),
                                         w.boundary, Unlimited)
<1>1. GripAfter(p, w) = [path |-> physical, policy |-> reference]
  BY DEF GripAfter
<1>2. physical \in Paths /\ At(physical, now) = At(p.path, now)
      /\ (~TooLate(w.time, now) => w.time <= Final(physical))
  BY ScheduleType, Constants
<1> HIDE DEF physical
<1>3. Final(physical) \in Int /\ Final(p.path) \in Int /\ w.time \in Int
  BY <1>2, FinalType DEF Orders
<1>4. w.time <= Final(physical) \/ w.time <= now
  BY <1>2, <1>3 DEF TooLate
<1>5. reference \in Paths /\ At(reference, now) = At(p.policy, now)
  <2> DEFINE last == Final(p.path)
             time == Final(physical)
             before == p.policy
             speed == Unlimited
  <2>1. /\ before \in Paths /\ speed \in Nat /\ last \in Int /\ time \in Int
        /\ w.time <= time \/ w.time <= now
        /\ reference = ScheduleWaypoint(before, w.pose, time, now, last, w.boundary, speed)
    BY <1>3, <1>4 DEF Unlimited
  <2> HIDE DEF last, time, before, speed, reference
  <2>2. reference \in Paths /\ At(reference, now) = At(before, now)
    BY <2>1, WaypointType
  <2> QED  BY <2>2 DEF before
<1> QED  BY <1>1, <1>2, <1>5

(* The controllers' loops over what they take from their queues.           *)
LEMMA ArmPathsType ==
  ASSUME path \in [Devices -> Paths], inbox \in [Devices -> Seq(Orders)],
         NEW curr \in Int, NEW n \in 0..Len(inbox.arm)
  PROVE  /\ ArmPaths(n, curr)[0] = path.arm
         /\ \A k \in 1..n : ArmPaths(n, curr)[k]
              = Schedule(ArmPaths(n, curr)[k - 1], inbox.arm[k], curr, ArmSpeed + 1)
         /\ \A k \in 0..n : ArmPaths(n, curr)[k] \in Paths
         /\ At(ArmPaths(n, curr)[n], curr) = At(path.arm, curr)
<1> DEFINE Step(k, q) == Schedule(q, inbox.arm[k], curr, ArmSpeed + 1)
           Body(f) == [k \in 0..n |-> IF k = 0 THEN path.arm ELSE Step(k, f[k - 1])]
           after == CHOOSE f : f = Body(f)
           G == [k \in 1..n |-> [q \in Paths |-> Step(k, q)]]
<1>1. path.arm \in Paths /\ inbox.arm \in Seq(Orders)
  BY DEF Devices
<1>2. n \in Nat /\ \A k \in 1..n : inbox.arm[k] \in Orders
  BY <1>1, LenProperties
<1>3. ASSUME NEW k \in 1..n, NEW q \in Paths
      PROVE  Step(k, q) \in Paths /\ At(Step(k, q), curr) = At(q, curr)
  BY <1>2, ScheduleType, Constants
<1> HIDE DEF Step
<1>4. PICK f : Iterates(Paths, path.arm, n, G, f)
  <2>1. G \in [1..n -> [Paths -> Paths]]
    BY <1>3
  <2> HIDE DEF G
  <2> QED  BY <1>1, <1>2, <2>1, IterationExists
<1>5. f = Body(f)
  <2>1. f \in [0..n -> Paths] /\ f[0] = path.arm /\ \A k \in 1..n : f[k] = G[k][f[k - 1]]
    BY <1>4 DEF Iterates
  <2>2. \A k \in 1..n : f[k - 1] \in Paths
    BY <2>1
  <2>3. \A k \in 1..n : f[k] = Step(k, f[k - 1])
    BY <2>1, <2>2
  <2> QED  BY <2>1, <2>3
<1>6. after = Body(after)
  BY <1>5
<1>7. ArmPaths(n, curr) = after
  BY DEF ArmPaths, Step
<1> HIDE DEF after
<1>8. after[0] = path.arm /\ \A k \in 1..n : after[k] = Step(k, after[k - 1])
  BY <1>2, <1>6
<1> DEFINE R == {k \in 0..n : after[k] \in Paths /\ At(after[k], curr) = At(path.arm, curr)}
<1>9. \A k \in 0..n : k \in R
  <2>1. 0 \in R
    BY <1>1, <1>2, <1>8
  <2>2. ASSUME NEW k \in 1..n, k - 1 \in R PROVE k \in R
    BY <1>3, <1>8, <2>2
  <2> HIDE DEF R
  <2> QED  BY <1>2, <2>1, <2>2, UpTo
<1>10. n \in R
  <2> HIDE DEF R
  <2> QED  BY <1>2, <1>9
<1> QED  BY <1>7, <1>8, <1>9, <1>10 DEF Step

LEMMA GripPathsType ==
  ASSUME path \in [Devices -> Paths], policy \in Paths,
         inbox \in [Devices -> Seq(Orders)], now \in Int, NEW n \in 0..Len(inbox.grip)
  PROVE  /\ GripPaths(n)[0] = [path |-> path.grip, policy |-> policy]
         /\ \A k \in 1..n : GripPaths(n)[k] = GripAfter(GripPaths(n)[k - 1], inbox.grip[k])
         /\ \A k \in 0..n : GripPaths(n)[k] \in [path : Paths, policy : Paths]
         /\ At(GripPaths(n)[n].path, now) = At(path.grip, now)
         /\ At(GripPaths(n)[n].policy, now) = At(policy, now)
<1> DEFINE S == [path : Paths, policy : Paths]
           s0 == [path |-> path.grip, policy |-> policy]
           Step(k, q) == GripAfter(q, inbox.grip[k])
           Body(f) == [k \in 0..n |-> IF k = 0 THEN s0 ELSE Step(k, f[k - 1])]
           after == CHOOSE f : f = Body(f)
           G == [k \in 1..n |-> [q \in S |-> Step(k, q)]]
           Kept(q) == /\ q \in S /\ At(q.path, now) = At(path.grip, now)
                      /\ At(q.policy, now) = At(policy, now)
<1>1. path.grip \in Paths /\ s0 \in S /\ inbox.grip \in Seq(Orders)
  BY DEF Devices
<1>2. n \in Nat /\ \A k \in 1..n : inbox.grip[k] \in Orders
  BY <1>1, LenProperties
<1>3. ASSUME NEW k \in 1..n, NEW q \in S
      PROVE  /\ Step(k, q) \in S /\ At(Step(k, q).path, now) = At(q.path, now)
             /\ At(Step(k, q).policy, now) = At(q.policy, now)
  BY <1>2, GripAfterType
<1>4. Kept(s0)
  BY <1>1
<1> HIDE DEF Step, s0, S
<1>5. PICK f : Iterates(S, s0, n, G, f)
  <2>1. G \in [1..n -> [S -> S]]
    BY <1>3
  <2> HIDE DEF G
  <2> QED  BY <1>1, <1>2, <2>1, IterationExists
<1>6. f = Body(f)
  <2>1. f \in [0..n -> S] /\ f[0] = s0 /\ \A k \in 1..n : f[k] = G[k][f[k - 1]]
    BY <1>5 DEF Iterates
  <2>2. \A k \in 1..n : f[k - 1] \in S
    BY <2>1
  <2>3. \A k \in 1..n : f[k] = Step(k, f[k - 1])
    BY <2>1, <2>2
  <2> QED  BY <2>1, <2>3
<1>7. after = Body(after)
  BY <1>6
<1>8. GripPaths(n) = after
  BY DEF GripPaths, Step, s0
<1> HIDE DEF after
<1>9. after[0] = s0 /\ \A k \in 1..n : after[k] = Step(k, after[k - 1])
  BY <1>2, <1>7
<1> DEFINE R == {k \in 0..n : Kept(after[k])}
<1>10. \A k \in 0..n : k \in R
  <2>1. 0 \in R
    BY <1>2, <1>4, <1>9
  <2>2. ASSUME NEW k \in 1..n, k - 1 \in R PROVE k \in R
    BY <1>3, <1>9, <2>2
  <2> HIDE DEF R
  <2> QED  BY <1>2, <2>1, <2>2, UpTo
<1>11. n \in R
  <2> HIDE DEF R
  <2> QED  BY <1>2, <1>10
<1> QED  BY <1>8, <1>9, <1>10, <1>11 DEF S, s0, Step

(* What a scheduler has queued is finite and bounded.                      *)
LEMMA QueueBounded ==
  ASSUME NEW s, SchedulerOK(s), NEW X, X \subseteq s.queue
  PROVE  /\ IsFiniteSet(X) /\ Cardinality(X) \in Nat
         /\ \E lo, hi \in Int : X \subseteq lo..hi
<1>1. CASE X = {}
  <2>1. X \subseteq 0..0
    BY <1>1
  <2> QED  BY <1>1, <2>1, FS_EmptySet
<1>2. CASE X # {}
  <2> DEFINE p == s.plan.arm
  <2>1. s.plan \in Plans /\ X \subseteq DOMAIN p
    BY <1>2 DEF SchedulerOK
  <2>2. IsPath(p)
    BY <2>1, PathsArePaths DEF Plans
  <2> HIDE DEF p
  <2>3. First(p) \in Int /\ Final(p) \in Int /\ X \subseteq First(p)..Final(p)
    <3>1. \A u \in DOMAIN p : u \in Int
      BY <2>2 DEF IsPath
    <3> QED  BY <2>1, <2>2, <3>1, PathEnds
  <2>4. IsFiniteSet(X)
    BY <2>3, FS_Interval, FS_Subset
  <2> QED  BY <2>3, <2>4, FS_CardinalityType
<1> QED  BY <1>1, <1>2

-----------------------------------------------------------------------------
Jobs == [round : Nat, time : Int, arm : Int, grip : Int]

StateOK ==
  /\ now \in 1..MaxNow /\ nextPass \in 1..MaxNow + Dt
  /\ phase \in {"idle", "observed", "polled", "popped", "sending"}
  /\ round \in 0..MaxRounds /\ executed \in Nat
  /\ seen \in [time : 1..MaxNow, arm : Int, grip : Int] /\ seen.time <= now
  /\ job \in {NoJob} \union Jobs /\ (job # NoJob => job.time <= now)
  /\ path \in [Devices -> Paths] /\ policy \in Paths
  /\ inbox \in [Devices -> Seq(Orders)]
  /\ SchedulerOK(sch)

(* What the client has popped is in time for exec_actions, by the slack    *)
(* when it was popped, and still now: a tick may have passed.              *)
BatchOK ==
  /\ batch \subseteq sch.sent
  /\ phase \notin {"popped", "sending"} => batch = {}
  /\ phase = "popped" => batch # {} /\ sch.plan.from - LatencyBudget > now + ExpirySlack
  /\ phase = "sending" => batch # {} /\ sch.plan.from - LatencyBudget >= now + ExpirySlack

(* A pass takes two ticks at most, and an open request is noticed by the   *)
(* pass that follows its timeout.                                          *)
TimingOK ==
  /\ phase = "observed" => now = seen.time
  /\ phase \in {"polled", "popped"} => now <= seen.time + 1
  /\ phase = "sending" => now <= seen.time + 2
  /\ phase # "idle" => nextPass = seen.time + Dt
  /\ phase = "idle" => now <= nextPass
  /\ sch.pending => nextPass - sch.pendingSince <= RequestTimeout + Dt

RequestOK == sch.pending => job.round = round

ClientOK == StateOK /\ BatchOK /\ RequestOK

(* A request that is open after a step was open before, or is a new one.   *)
PendingKept ==
  sch'.pending => \/ sch.pending /\ sch'.pendingSince = sch.pendingSince
                  \/ sch'.pendingSince = now

LEMMA StateTypes ==
  ASSUME StateOK
  PROVE  /\ now \in Int /\ now >= 1 /\ nextPass \in Int /\ round \in Nat
         /\ seen.time \in Int /\ seen.arm \in Int /\ seen.grip \in Int
         /\ SchedulerOK(sch) /\ sch \in Schedulers
BY Constants DEF StateOK, SchedulerOK

LEMMA SetpointType ==
  ASSUME StateOK
  PROVE  Setpoint(now) \in Targets
<1>1. IsPath(path.arm) /\ IsPath(path.grip) /\ now \in Int
  BY PathsArePaths, StateTypes DEF StateOK, Devices
<1>2. At(path.arm, now) \in Int /\ At(path.grip, now) \in Int
  BY <1>1, AtInt
<1> QED  BY <1>2 DEF Setpoint, Targets

LEMMA PendingMeans ==
  ASSUME StateOK, RequestOK, sch.pending
  PROVE  sch.state = "ACTIVE" /\ job.round = round
BY DEF StateOK, RequestOK, SchedulerOK, Schedulers

(* hold_robot leaves paths and queues well formed.                         *)
LEMMA BecomeOK ==
  ASSUME StateOK, NEW s, Become(s)
  PROVE  /\ sch' = s
         /\ path' \in [Devices -> Paths] /\ policy' \in Paths
         /\ inbox' \in [Devices -> Seq(Orders)]
<1>1. CASE UNCHANGED devices /\ sch' = s
  BY <1>1 DEF devices, StateOK
<1>2. CASE /\ path' = [path EXCEPT !.arm = Still(now, At(@, now))]
           /\ inbox' = [inbox EXCEPT !.arm = <<>>]
           /\ UNCHANGED <<policy, putAt>> /\ sch' = s
  <2>1. IsPath(path.arm) /\ now \in Int
    BY PathsArePaths, StateTypes DEF StateOK, Devices
  <2>2. Still(now, At(path.arm, now)) \in Paths
    BY <2>1, AtInt, StillIsPath, PathsArePaths
  <2>3. path' \in [Devices -> Paths]
    BY <1>2, <2>2 DEF StateOK
  <2>4. inbox' \in [Devices -> Seq(Orders)]
    BY <1>2, EmptySeq DEF StateOK
  <2> QED  BY <1>2, <2>3, <2>4 DEF StateOK
<1> QED  BY <1>1, <1>2 DEF Become
-----------------------------------------------------------------------------
LEMMA InitOK ==
  ASSUME Init
  PROVE  ClientOK /\ TimingOK /\ ~crashed
<1>1. Still(1, 0) \in Paths
  BY StillIsPath, PathsArePaths
<1>2. path \in [Devices -> Paths] /\ policy \in Paths
  BY <1>1 DEF Init
<1>3. inbox \in [Devices -> Seq(Orders)]
  BY EmptySeq DEF Init
<1>4. seen \in [time : 1..MaxNow, arm : Int, grip : Int] /\ seen.time <= now
  BY Constants DEF Init
<1>5. now \in 1..MaxNow /\ nextPass \in 1..MaxNow + Dt /\ round \in 0..MaxRounds
  BY Constants DEF Init
<1>6. StateOK
  BY <1>2, <1>3, <1>4, <1>5, CreatedOK DEF Init, StateOK
<1>7. BatchOK /\ RequestOK
  BY DEF Init, BatchOK, RequestOK, Created
<1>8. TimingOK /\ ~crashed
  BY DEF Init, TimingOK, Created
<1> QED  BY <1>6, <1>7, <1>8 DEF ClientOK

LEMMA TickOK ==
  ASSUME ClientOK, Tick
  PROVE  ClientOK' /\ PendingKept
<1>1. StateOK'
  <2>1. now' \in 1..MaxNow /\ seen.time <= now' /\ (job # NoJob => job.time <= now')
    BY Constants, StateTypes DEF ClientOK, StateOK, Tick, Jobs
  <2>2. phase' \in {"idle", "observed", "polled", "popped", "sending"}
    BY DEF ClientOK, StateOK, Tick
  <2> QED  BY <2>1, <2>2 DEF ClientOK, StateOK, Tick, devices
<1>2. BatchOK'
  <2>1. phase = "popped" => sch.plan.from - LatencyBudget >= now + 1 + ExpirySlack
    <3>1. SUFFICES ASSUME phase = "popped"
                   PROVE  sch.plan.from - LatencyBudget >= now + 1 + ExpirySlack
      OBVIOUS
    <3>2. sch.queue # {}
      BY <3>1 DEF ClientOK, StateOK, BatchOK, SchedulerOK
    <3>3. sch.plan.from \in Int
      BY <3>2 DEF ClientOK, StateOK, SchedulerOK, Plans
    <3> QED
      BY <3>1, <3>3, Constants, LatencyBudgetType, StateTypes DEF ClientOK, BatchOK
  <2>2. CASE phase = "popped"
    BY <2>1, <2>2 DEF ClientOK, BatchOK, Tick
  <2>3. CASE phase # "popped"
    <3>1. phase \in {"idle", "polled"} /\ phase' = phase
      BY <2>3 DEF Tick, Waits
    <3> QED  BY <3>1 DEF ClientOK, BatchOK, Tick
  <2> QED  BY <2>2, <2>3
<1>3. RequestOK' /\ PendingKept
  BY DEF ClientOK, RequestOK, Tick, PendingKept
<1> QED  BY <1>1, <1>2, <1>3 DEF ClientOK

LEMMA StartOK ==
  ASSUME ClientOK, Start
  PROVE  ClientOK' /\ PendingKept
<1>1. SchedulerOK(sch') /\ sch'.pending = FALSE
  <2>1. Setpoint(now) \in Targets
    BY SetpointType DEF ClientOK
  <2> QED  BY <2>1, ActivateOK DEF Start
<1>2. StateOK'
  <2>1. round' \in 0..MaxRounds
    BY Constants DEF ClientOK, StateOK, Start
  <2> QED  BY <1>1, <2>1 DEF ClientOK, StateOK, Start, pass, devices
<1>3. BatchOK'
  BY DEF ClientOK, BatchOK, Start, AtPass, pass
<1> QED  BY <1>1, <1>2, <1>3 DEF ClientOK, RequestOK, PendingKept

LEMMA PauseOK ==
  ASSUME ClientOK, Pause
  PROVE  ClientOK' /\ PendingKept
<1>1. /\ sch' = Hold(sch, "operator pause")
      /\ path' \in [Devices -> Paths] /\ policy' \in Paths
      /\ inbox' \in [Devices -> Seq(Orders)]
  BY BecomeOK DEF ClientOK, Pause
<1>2. SchedulerOK(sch') /\ sch'.pending = FALSE
  <2>1. "operator pause" \in Reasons /\ SchedulerOK(sch)
    BY DEF Reasons, ClientOK, StateOK
  <2> QED  BY <1>1, <2>1, HoldOK
<1>3. StateOK'
  BY <1>1, <1>2 DEF ClientOK, StateOK, Pause, pass
<1>4. BatchOK'
  BY DEF ClientOK, BatchOK, Pause, AtPass, pass
<1> QED  BY <1>2, <1>3, <1>4 DEF ClientOK, RequestOK, PendingKept

LEMMA ObserveStepOK ==
  ASSUME ClientOK, Observe
  PROVE  /\ ClientOK' /\ PendingKept
         /\ sch'.pending => now - sch'.pendingSince <= RequestTimeout
<1> DEFINE before == ObserveController(sch, Setpoint(now))
           after  == Advance(before, now)
           count  == IF after.state = "ACTIVE" THEN Cardinality(Done(before, now)) ELSE 0
           limit  == MaxWaypoints # 0 /\ executed + count >= MaxWaypoints
           next   == IF limit THEN Hold(after, "bounded round complete") ELSE after
<1>1. Setpoint(now) \in Targets /\ SchedulerOK(sch) /\ now \in Int
  BY SetpointType, StateTypes DEF ClientOK
<1>2. SchedulerOK(before) /\ before.pending = sch.pending
      /\ before.pendingSince = sch.pendingSince
  BY <1>1, ObserveOK
<1>3. count \in Nat
  <2>1. Done(before, now) \subseteq before.queue
    BY <1>2 DEF Done, SchedulerOK
  <2>2. Cardinality(Done(before, now)) \in Nat
    BY <1>2, <2>1, QueueBounded
  <2> QED  BY <2>2
<1> HIDE DEF before
<1>4. /\ SchedulerOK(after)
      /\ after.pending => /\ before.pending /\ after.pendingSince = before.pendingSince
                          /\ now - before.pendingSince <= RequestTimeout
  BY <1>1, <1>2, AdvanceOK
<1>5. /\ executed' = executed + count /\ phase = "idle" /\ phase' = "observed"
      /\ nextPass' = now + Dt
      /\ seen' = [time |-> now, arm |-> At(path.arm, now), grip |-> At(path.grip, now)]
      /\ UNCHANGED <<now, batch, job, round>>
      /\ IF sch.state # "ACTIVE" THEN UNCHANGED <<sch, devices>> ELSE Become(next)
  BY DEF Observe, AtPass, before
<1> HIDE DEF after, count
<1>6. /\ SchedulerOK(next)
      /\ next.pending => /\ sch.pending /\ next.pendingSince = sch.pendingSince
                         /\ now - sch.pendingSince <= RequestTimeout
  <2>1. CASE limit
    <3>1. "bounded round complete" \in Reasons
      BY DEF Reasons
    <3> QED  BY <1>4, <2>1, <3>1, HoldOK
  <2>2. CASE ~limit
    BY <1>2, <1>4, <2>2
  <2> QED  BY <2>1, <2>2
<1> HIDE DEF next
<1>7. /\ path' \in [Devices -> Paths] /\ policy' \in Paths
      /\ inbox' \in [Devices -> Seq(Orders)] /\ SchedulerOK(sch')
      /\ sch'.pending => /\ sch.pending /\ sch'.pendingSince = sch.pendingSince
                         /\ now - sch.pendingSince <= RequestTimeout
  <2>1. CASE sch.state # "ACTIVE"
    <3>1. sch.pending = FALSE
      BY <1>1, <2>1 DEF SchedulerOK, Schedulers
    <3> QED  BY <1>1, <1>5, <2>1, <3>1 DEF ClientOK, StateOK, devices
  <2>2. CASE sch.state = "ACTIVE"
    BY <1>5, <1>6, <2>2, BecomeOK DEF ClientOK
  <2> QED  BY <2>1, <2>2
<1>8. StateOK'
  <2>1. seen' \in [time : 1..MaxNow, arm : Int, grip : Int] /\ seen'.time = now
    <3>1. At(path.arm, now) \in Int /\ At(path.grip, now) \in Int
      BY <1>1 DEF Setpoint, Targets
    <3> QED  BY <1>5, <3>1 DEF ClientOK, StateOK
  <2>2. nextPass' \in 1..MaxNow + Dt /\ executed' \in Nat
    BY <1>3, <1>5, Constants DEF ClientOK, StateOK
  <2> QED  BY <1>1, <1>5, <1>7, <2>1, <2>2 DEF ClientOK, StateOK
<1>9. BatchOK'
  BY <1>5 DEF ClientOK, BatchOK
<1>10. RequestOK'
  BY <1>5, <1>7 DEF ClientOK, RequestOK
<1> QED  BY <1>7, <1>8, <1>9, <1>10 DEF ClientOK, PendingKept

LEMMA NoAnswerOK ==
  ASSUME ClientOK, NoAnswer
  PROVE  ClientOK' /\ PendingKept
<1>1. StateOK'
  BY DEF ClientOK, StateOK, NoAnswer, devices
<1>2. BatchOK'
  BY DEF ClientOK, BatchOK, NoAnswer
<1> QED  BY <1>1, <1>2 DEF ClientOK, RequestOK, PendingKept, NoAnswer

(* An answer of any kind closes the request, and so does its failure.      *)
LEMMA AnsweredOK ==
  ASSUME ClientOK, phase = "observed", phase' = "polled", job' = NoJob,
         NEW s, SchedulerOK(s), s.pending = FALSE,
         IF job.round = round /\ sch.state = "ACTIVE" THEN Become(s)
                                                      ELSE UNCHANGED <<sch, devices>>,
         UNCHANGED <<now, nextPass, seen, batch, round, executed>>
  PROVE  ClientOK' /\ PendingKept
<1>1. /\ path' \in [Devices -> Paths] /\ policy' \in Paths
      /\ inbox' \in [Devices -> Seq(Orders)] /\ SchedulerOK(sch') /\ sch'.pending = FALSE
  <2>1. CASE job.round = round /\ sch.state = "ACTIVE"
    BY <2>1, BecomeOK DEF ClientOK
  <2>2. CASE ~(job.round = round /\ sch.state = "ACTIVE")
    <3>1. ~sch.pending
      BY <2>2, PendingMeans DEF ClientOK
    <3>2. sch.pending \in BOOLEAN
      BY StateTypes DEF ClientOK, Schedulers
    <3> QED  BY <2>2, <3>1, <3>2 DEF ClientOK, StateOK, devices
  <2> QED  BY <2>1, <2>2
<1>2. StateOK'
  BY <1>1 DEF ClientOK, StateOK
<1>3. BatchOK'
  BY DEF ClientOK, BatchOK
<1> QED  BY <1>1, <1>2, <1>3 DEF ClientOK, RequestOK, PendingKept

LEMMA AnswerOK ==
  ASSUME ClientOK, NEW slope \in Slopes, Answer(slope)
  PROVE  ClientOK' /\ PendingKept
<1> DEFINE targets == [k \in 1..ActionHorizon |->
                         [arm |-> job.arm + k * slope, grip |-> job.grip - k * slope]]
           merged == MergeChunk(sch, targets, now - job.time, now)
<1>1. job \in Jobs /\ now - job.time \in Nat /\ now \in Int /\ SchedulerOK(sch)
  <2>1. job \in Jobs /\ job.time <= now
    BY DEF Answer, ClientOK, StateOK
  <2> QED  BY <2>1, StateTypes DEF ClientOK, Jobs
<1>2. targets \in Seq(Targets) /\ Len(targets) = ActionHorizon
  <2>1. slope \in Int /\ ActionHorizon \in Nat
    BY Constants
  <2>2. targets \in [1..ActionHorizon -> Targets]
    BY <1>1, <2>1 DEF Jobs, Targets
  <2> HIDE DEF targets
  <2> QED  BY <2>1, <2>2, IsASeq, LenProperties
<1>3. /\ phase = "observed" /\ phase' = "polled" /\ job' = NoJob
      /\ UNCHANGED <<now, nextPass, seen, batch, round, executed>>
      /\ IF job.round = round /\ sch.state = "ACTIVE" THEN Become(merged)
                                                      ELSE UNCHANGED <<sch, devices>>
  BY DEF Answer
<1> HIDE DEF targets
<1>4. CASE sch.state = "ACTIVE"
  <2>1. SchedulerOK(merged) /\ merged.pending = FALSE
    BY <1>1, <1>2, <1>4, MergeOK
  <2> HIDE DEF merged
  <2> QED  BY <1>3, <2>1, AnsweredOK
<1>5. CASE sch.state # "ACTIVE"
  <2>1. SchedulerOK(Created) /\ Created.pending = FALSE
    BY CreatedOK DEF Created
  <2>2. IF job.round = round /\ sch.state = "ACTIVE" THEN Become(Created)
                                                     ELSE UNCHANGED <<sch, devices>>
    BY <1>3, <1>5
  <2> QED  BY <1>3, <2>1, <2>2, AnsweredOK
<1> QED  BY <1>4, <1>5

LEMMA AnswerFailsOK ==
  ASSUME ClientOK, AnswerFails
  PROVE  ClientOK' /\ PendingKept
<1> DEFINE held == Hold(sch, "inference failed")
<1>1. SchedulerOK(held) /\ held.pending = FALSE
  <2>1. "inference failed" \in Reasons /\ SchedulerOK(sch)
    BY DEF Reasons, ClientOK, StateOK
  <2> QED  BY <2>1, HoldOK
<1>2. /\ phase = "observed" /\ phase' = "polled" /\ job' = NoJob
      /\ UNCHANGED <<now, nextPass, seen, batch, round, executed>>
      /\ IF job.round = round /\ sch.state = "ACTIVE" THEN Become(held)
                                                      ELSE UNCHANGED <<sch, devices>>
  BY DEF AnswerFails
<1> HIDE DEF held
<1> QED  BY <1>1, <1>2, AnsweredOK

-----------------------------------------------------------------------------
LEMMA RequestedOK ==
  ASSUME ClientOK, NEW asked, asked = Requested(sch), NEW j, j = JobAfter(sch)
  PROVE  /\ SchedulerOK(asked)
         /\ asked.sent = sch.sent /\ asked.queue = sch.queue /\ asked.plan = sch.plan
         /\ asked.state = sch.state
         /\ asked.pending => /\ j.round = round
                             /\ \/ sch.pending /\ asked.pendingSince = sch.pendingSince
                                \/ asked.pendingSince = now
         /\ j \in {NoJob} \union Jobs /\ (j # NoJob => j.time <= now)
<1>1. SchedulerOK(sch) /\ now \in Int
  BY StateTypes DEF ClientOK
<1>2. CASE Asks(sch)
  <2>1. asked = MarkRequestStarted(sch, now) /\ sch.state = "ACTIVE"
    BY <1>2 DEF Requested, Asks, RequestDue
  <2>2. /\ SchedulerOK(asked) /\ asked.pendingSince = now
        /\ asked.sent = sch.sent /\ asked.queue = sch.queue /\ asked.plan = sch.plan
        /\ asked.state = sch.state
    <3>1. /\ SchedulerOK(MarkRequestStarted(sch, now))
          /\ MarkRequestStarted(sch, now).pendingSince = now
          /\ MarkRequestStarted(sch, now).state = sch.state
          /\ MarkRequestStarted(sch, now).plan = sch.plan
          /\ MarkRequestStarted(sch, now).queue = sch.queue
          /\ MarkRequestStarted(sch, now).sent = sch.sent
      BY <1>1, <2>1, MarkOK
    <3> QED  BY <2>1, <3>1
  <2>3. j = [round |-> round, time |-> seen.time, arm |-> seen.arm, grip |-> seen.grip]
    BY <1>2 DEF JobAfter
  <2>4. j \in Jobs /\ j.time <= now
    BY <2>3, StateTypes DEF ClientOK, StateOK, Jobs
  <2> QED  BY <2>2, <2>3, <2>4
<1>3. CASE ~Asks(sch)
  <2>1. asked = sch /\ j = job
    BY <1>3 DEF Requested, JobAfter
  <2> QED  BY <1>1, <2>1 DEF ClientOK, StateOK, RequestOK
<1> QED  BY <1>2, <1>3

LEMMA RequestAndPopOK ==
  ASSUME ClientOK, RequestAndPop
  PROVE  ClientOK' /\ PendingKept
<1> DEFINE asked == Requested(sch)
           left  == MaxWaypoints - executed - Committed(asked)
           taken == IF MaxWaypoints = 0 THEN Unsent(asked) ELSE Earliest(Unsent(asked), left)
           after == IF MaxWaypoints # 0 /\ left <= 0 THEN asked ELSE PopBatch(asked, taken, now)
           open  == JobAfter(sch)
<1>1. /\ SchedulerOK(asked) /\ asked.sent = sch.sent
      /\ asked.pending => /\ open.round = round
                          /\ \/ sch.pending /\ asked.pendingSince = sch.pendingSince
                             \/ asked.pendingSince = now
      /\ open \in {NoJob} \union Jobs /\ (open # NoJob => open.time <= now)
  BY RequestedOK
<1>2. /\ Become(after) /\ job' = open /\ batch' = after.sent \ asked.sent
      /\ phase' = (IF batch' = {} THEN "idle" ELSE "popped")
      /\ UNCHANGED <<now, nextPass, seen, round, executed>>
  BY DEF RequestAndPop
<1>3. taken \subseteq Unsent(asked)
  BY DEF Earliest
<1> HIDE DEF asked, taken, open, left
<1>4. /\ SchedulerOK(after)
      /\ after.pending => asked.pending /\ after.pendingSince = asked.pendingSince
      /\ after.sent \ asked.sent # {} => after.plan.from - LatencyBudget > now + ExpirySlack
  <2>1. CASE MaxWaypoints # 0 /\ left <= 0
    BY <1>1, <2>1
  <2>2. CASE ~(MaxWaypoints # 0 /\ left <= 0)
    <3>1. after = PopBatch(asked, taken, now)
      BY <2>2
    <3>2. now \in Int
      BY StateTypes DEF ClientOK
    <3> HIDE DEF after
    <3> QED  BY <1>1, <1>3, <3>1, <3>2, PopOK
  <2> QED  BY <2>1, <2>2
<1> HIDE DEF after
<1>5. /\ sch' = after /\ path' \in [Devices -> Paths] /\ policy' \in Paths
      /\ inbox' \in [Devices -> Seq(Orders)]
  BY <1>2, BecomeOK DEF ClientOK
<1>6. StateOK'
  BY <1>1, <1>2, <1>4, <1>5 DEF ClientOK, StateOK
<1>7. BatchOK'
  <2>1. batch' \subseteq sch'.sent
    BY <1>2, <1>5
  <2>2. CASE batch' = {}
    BY <1>2, <2>1, <2>2 DEF BatchOK
  <2>3. CASE batch' # {}
    BY <1>2, <1>4, <1>5, <2>1, <2>3 DEF BatchOK
  <2> QED  BY <2>2, <2>3
<1>8. RequestOK' /\ PendingKept
  BY <1>1, <1>2, <1>4, <1>5 DEF RequestOK, PendingKept
<1> QED  BY <1>6, <1>7, <1>8 DEF ClientOK

(* What exec_actions has to send: the knots of the batch still ahead, all  *)
(* of them after the splice.                                               *)
LEMMA NewTimesType ==
  ASSUME ClientOK, batch # {}
  PROVE  /\ Len(NewTimes) \in Nat
         /\ sch.plan \in Plans /\ sch.plan.from \in Int
         /\ \A i \in 1..Len(NewTimes) :
              /\ NewTimes[i] \in DOMAIN sch.plan.arm /\ NewTimes[i] \in Int
              /\ sch.plan.from < NewTimes[i] /\ sch.plan.from + Dt <= NewTimes[i]
         /\ NewTimes \in [1..Len(NewTimes) -> Int]
         /\ now <= sch.plan.from => NewTimes # <<>> /\ sch.plan.from < NewTimes[1]
<1> DEFINE S == {t \in batch : t > now}
<1>1. SchedulerOK(sch) /\ S \subseteq sch.queue /\ sch.queue # {} /\ now \in Int
  BY StateTypes DEF ClientOK, BatchOK, SchedulerOK
<1>2. /\ sch.plan \in Plans /\ sch.queue \subseteq DOMAIN sch.plan.arm
      /\ \A t \in sch.queue : sch.plan.from < t
  BY <1>1 DEF SchedulerOK
<1>3. sch.plan.from \in Int /\ sch.queue \subseteq Int
  BY <1>1, <1>2 DEF Plans, SchedulerOK, Schedulers
<1>4. PICK lo \in Int, hi \in Int : S \subseteq lo..hi
  <2> HIDE DEF S
  <2> QED  BY <1>1, QueueBounded
<1>5. NewTimes = InOrder(S)
  BY DEF NewTimes
<1>6. now <= sch.plan.from => S # {}
  <2>1. batch \subseteq sch.queue
    BY DEF ClientOK, BatchOK, StateOK, SchedulerOK
  <2>2. PICK t \in batch : TRUE
    OBVIOUS
  <2>3. t \in Int /\ sch.plan.from < t
    BY <1>2, <1>3, <2>1
  <2> QED  BY <1>1, <1>3, <2>3
<1> HIDE DEF S
<1>7. /\ Cardinality(S) \in Nat /\ NewTimes \in [1..Cardinality(S) -> S]
      /\ Len(NewTimes) = Cardinality(S)
      /\ S # {} => 1 \in 1..Cardinality(S) /\ NewTimes # <<>>
  BY <1>4, <1>5, InOrderType
<1>8. \A i \in 1..Len(NewTimes) : NewTimes[i] \in S
  BY <1>7
<1>9. \A t \in S : t \in DOMAIN sch.plan.arm /\ t \in Int /\ sch.plan.from + Dt <= t
  BY <1>1, <1>2, <1>3 DEF Plans
<1>10. NewTimes \in [1..Len(NewTimes) -> Int]
  BY <1>7, <1>9
<1>11. \A t \in S : sch.plan.from < t
  BY <1>1, <1>2
<1> QED  BY <1>2, <1>3, <1>6, <1>7, <1>8, <1>9, <1>10, <1>11

LEMMA WaypointsType ==
  ASSUME ClientOK, batch # {}, ~BoundaryRejected, NEW d \in Devices
  PROVE  Waypoints(d) \in Seq(Orders)
<1> DEFINE n == Len(NewTimes)
           from == sch.plan.from
           order(i) == [time |-> NewTimes[i] - Latency[d], pose |-> sch.plan[d][NewTimes[i]],
                        boundary |-> IF i = 1 THEN from - Latency[d] ELSE NoBoundary]
<1>1. /\ n \in Nat /\ sch.plan \in Plans /\ from \in Int
      /\ \A i \in 1..n : /\ NewTimes[i] \in DOMAIN sch.plan.arm /\ NewTimes[i] \in Int
                         /\ from < NewTimes[i]
  BY NewTimesType
<1>2. Latency[d] \in Nat /\ Latency[d] <= LatencyBudget
  BY LatencyBudgetType, Constants DEF Latency, Devices
<1>3. from - LatencyBudget > now
  BY <1>1, StateTypes, LatencyBudgetType DEF ClientOK, BoundaryRejected
<1>4. from - Latency[d] \in Nat
  BY <1>1, <1>2, <1>3, StateTypes, LatencyBudgetType DEF ClientOK
<1> HIDE DEF from
<1>5. \A i \in 1..n : sch.plan[d][NewTimes[i]] \in Int
  <2>1. IsPath(sch.plan.arm) /\ IsPath(sch.plan.grip)
        /\ DOMAIN sch.plan.grip = DOMAIN sch.plan.arm
    BY <1>1, PathsArePaths DEF Plans
  <2>2. CASE d = "arm"
    BY <1>1, <2>1, <2>2 DEF IsPath
  <2>3. CASE d = "grip"
    BY <1>1, <2>1, <2>3 DEF IsPath
  <2> QED  BY <2>2, <2>3 DEF Devices
<1>6. ASSUME NEW i \in 1..n PROVE order(i) \in Orders
  <2>1. NewTimes[i] - Latency[d] \in Int /\ sch.plan[d][NewTimes[i]] \in Int
        /\ from - Latency[d] < NewTimes[i] - Latency[d]
    BY <1>1, <1>2, <1>5
  <2> QED  BY <1>4, <2>1 DEF Orders, NoBoundary
<1>7. Waypoints(d) = [i \in 1..n |-> order(i)]
  BY DEF Waypoints, from
<1> HIDE DEF n, order
<1>8. Waypoints(d) \in [1..n -> Orders]
  BY <1>6, <1>7
<1> QED  BY <1>1, <1>8, IsASeq

LEMMA ExecActionsOK ==
  ASSUME ClientOK, ExecActions
  PROVE  /\ ClientOK' /\ PendingKept
         /\ ExpirySlack > 0 /\ ~crashed => ~crashed'
<1>1. /\ phase \in {"popped", "sending"} /\ phase' = "idle" /\ batch' = {}
      /\ UNCHANGED <<now, nextPass, seen, round, executed>>
  BY DEF ExecActions
<1>2. batch # {}
  BY <1>1 DEF ClientOK, BatchOK
<1>3. BatchOK'
  BY <1>1 DEF BatchOK
<1>4. CASE BoundaryRejected
  <2>1. UNCHANGED <<sch, job, devices>>
    BY <1>4 DEF ExecActions
  <2>2. StateOK'
    BY <1>1, <2>1 DEF ClientOK, StateOK, devices
  <2>3. RequestOK' /\ PendingKept
    BY <1>1, <2>1 DEF ClientOK, RequestOK, PendingKept
  <2>4. ~(ExpirySlack > 0)
    <3>1. SUFFICES ASSUME ExpirySlack > 0 PROVE FALSE
      OBVIOUS
    <3>2. sch.plan.from \in Int /\ now \in Int
      BY <1>2, NewTimesType, StateTypes DEF ClientOK
    <3>3. sch.plan.from - LatencyBudget > now
      BY <1>1, <3>1, <3>2, Constants, LatencyBudgetType DEF ClientOK, BatchOK
    <3>4. NewTimes # <<>> /\ sch.plan.from < NewTimes[1] /\ NewTimes[1] \in Int
      <4>1. now <= sch.plan.from
        BY <3>2, <3>3, LatencyBudgetType
      <4>2. NewTimes # <<>> /\ sch.plan.from < NewTimes[1]
        BY <1>2, <4>1, NewTimesType
      <4>3. Len(NewTimes) \in Nat /\ NewTimes \in [1..Len(NewTimes) -> Int]
        BY <1>2, NewTimesType
      <4>4. NewTimes \in Seq(Int)
        BY <4>3, IsASeq
      <4>5. Len(NewTimes) # 0
        BY <4>2, <4>4, EmptySeq
      <4>6. 1 \in 1..Len(NewTimes)
        BY <4>3, <4>5
      <4> QED  BY <4>2, <4>3, <4>6
    <3> QED  BY <1>4, <3>2, <3>3, <3>4, LatencyBudgetType DEF BoundaryRejected
  <2> QED  BY <1>3, <2>2, <2>3, <2>4 DEF ClientOK
<1>5. CASE ~BoundaryRejected
  <2>1. /\ inbox' = [d \in Devices |-> inbox[d] \o Waypoints(d)]
        /\ sch' = Requested(sch) /\ job' = JobAfter(sch)
        /\ UNCHANGED <<path, policy, crashed>>
    BY <1>5 DEF ExecActions
  <2>2. inbox' \in [Devices -> Seq(Orders)]
    <3>1. ASSUME NEW d \in Devices PROVE inbox[d] \o Waypoints(d) \in Seq(Orders)
      <4>1. inbox[d] \in Seq(Orders) /\ Waypoints(d) \in Seq(Orders)
        BY <1>2, <1>5, WaypointsType DEF ClientOK, StateOK
      <4> QED  BY <4>1, ConcatProperties
    <3> QED  BY <2>1, <3>1
  <2>3. /\ SchedulerOK(sch') /\ job' \in {NoJob} \union Jobs
        /\ job' # NoJob => job'.time <= now
        /\ sch'.pending => /\ job'.round = round
                           /\ \/ sch.pending /\ sch'.pendingSince = sch.pendingSince
                              \/ sch'.pendingSince = now
    BY <2>1, RequestedOK
  <2>4. StateOK'
    BY <1>1, <2>1, <2>2, <2>3 DEF ClientOK, StateOK
  <2>5. RequestOK' /\ PendingKept
    BY <1>1, <2>3 DEF RequestOK, PendingKept
  <2> QED  BY <1>3, <2>1, <2>4, <2>5 DEF ClientOK
<1> QED  BY <1>4, <1>5

(* What is left in a queue, and that nothing in it is invalid.             *)
LEMMA TakenType ==
  ASSUME ClientOK, NEW d \in Devices, NEW n \in Takes(d)
  PROVE  /\ n \in 0..Len(inbox[d])
         /\ SubSeq(inbox[d], n + 1, Len(inbox[d])) \in Seq(Orders)
         /\ \A curr \in Int : \A i \in 1..n : ~Invalid(inbox[d][i], curr)
<1>1. inbox[d] \in Seq(Orders) /\ inbox[d] # <<>>
  BY DEF ClientOK, StateOK, Takes
<1>2. Len(inbox[d]) \in Nat /\ Len(inbox[d]) > 0
      /\ \A i \in 1..Len(inbox[d]) : inbox[d][i] \in Orders
  BY <1>1, EmptySeq, LenProperties
<1>3. n \in 1..Len(inbox[d])
  BY <1>2 DEF Takes
<1>4. SubSeq(inbox[d], n + 1, Len(inbox[d])) \in Seq(Orders)
  <2>1. \A i \in n + 1..Len(inbox[d]) : inbox[d][i] \in Orders
    BY <1>2, <1>3
  <2> QED  BY <1>2, <1>3, <2>1, SubSeqProperties
<1>5. ASSUME NEW curr \in Int, NEW i \in 1..n PROVE ~Invalid(inbox[d][i], curr)
  <2>1. inbox[d][i] \in Orders
    BY <1>2, <1>3
  <2>2. inbox[d][i].time \in Int /\ inbox[d][i].time <= inbox[d][i].time
    BY <2>1 DEF Orders
  <2> QED  BY <2>1, <2>2, OrderIsValid DEF Invalid
<1> QED  BY <1>3, <1>4, <1>5

LEMMA DrainArmOK ==
  ASSUME ClientOK, NEW n \in Takes("arm"), DrainArm(n)
  PROVE  /\ ClientOK' /\ PendingKept /\ ~crashed'
         /\ At(path'.arm, now + ArmPeriod) = At(path.arm, now + ArmPeriod)
<1>1. now \in Int /\ now + ArmPeriod \in Int
  BY StateTypes, Constants DEF ClientOK
<1>2. /\ n \in 0..Len(inbox.arm)
      /\ SubSeq(inbox.arm, n + 1, Len(inbox.arm)) \in Seq(Orders)
      /\ \A i \in 1..n : ~Invalid(inbox.arm[i], now + ArmPeriod)
  BY <1>1, TakenType DEF Devices
<1>3. /\ ArmPaths(n, now + ArmPeriod)[n] \in Paths
      /\ At(ArmPaths(n, now + ArmPeriod)[n], now + ArmPeriod) = At(path.arm, now + ArmPeriod)
  <2>1. n \in 0..n
    BY <1>2
  <2> QED  BY <1>1, <1>2, <2>1, ArmPathsType DEF ClientOK, StateOK
<1>4. /\ inbox' = [inbox EXCEPT !.arm = SubSeq(@, n + 1, Len(@))]
      /\ path' = [path EXCEPT !.arm = ArmPaths(n, now + ArmPeriod)[n]]
      /\ crashed' = \E i \in 1..n : Invalid(inbox.arm[i], now + ArmPeriod)
      /\ UNCHANGED <<now, phase, nextPass, seen, batch, sch, job, round, executed, policy>>
  BY DEF DrainArm, pass
<1>5. /\ path' \in [Devices -> Paths] /\ path'.arm = ArmPaths(n, now + ArmPeriod)[n]
      /\ inbox' \in [Devices -> Seq(Orders)]
  BY <1>2, <1>3, <1>4 DEF ClientOK, StateOK, Devices
<1>6. StateOK'
  BY <1>4, <1>5 DEF ClientOK, StateOK
<1>7. BatchOK' /\ RequestOK' /\ PendingKept
  BY <1>4 DEF ClientOK, BatchOK, RequestOK, PendingKept
<1> QED  BY <1>2, <1>3, <1>4, <1>5, <1>6, <1>7 DEF ClientOK

LEMMA DrainGripOK ==
  ASSUME ClientOK, NEW n \in Takes("grip"), DrainGrip(n)
  PROVE  /\ ClientOK' /\ PendingKept /\ ~crashed'
         /\ At(path'.grip, now) = At(path.grip, now) /\ At(policy', now) = At(policy, now)
<1>1. now \in Int
  BY StateTypes DEF ClientOK
<1>2. /\ n \in 0..Len(inbox.grip)
      /\ SubSeq(inbox.grip, n + 1, Len(inbox.grip)) \in Seq(Orders)
      /\ \A i \in 1..n : ~Invalid(inbox.grip[i], now)
  BY <1>1, TakenType DEF Devices
<1>3. /\ GripPaths(n)[n] \in [path : Paths, policy : Paths]
      /\ At(GripPaths(n)[n].path, now) = At(path.grip, now)
      /\ At(GripPaths(n)[n].policy, now) = At(policy, now)
  <2>1. n \in 0..n
    BY <1>2
  <2> QED  BY <1>1, <1>2, <2>1, GripPathsType DEF ClientOK, StateOK
<1>4. /\ inbox' = [inbox EXCEPT !.grip = SubSeq(@, n + 1, Len(@))]
      /\ path' = [path EXCEPT !.grip = GripPaths(n)[n].path]
      /\ policy' = GripPaths(n)[n].policy
      /\ crashed' = \E i \in 1..n : Invalid(inbox.grip[i], now)
      /\ UNCHANGED <<now, phase, nextPass, seen, batch, sch, job, round, executed>>
  BY DEF DrainGrip, pass
<1>5. /\ path' \in [Devices -> Paths] /\ path'.grip = GripPaths(n)[n].path
      /\ inbox' \in [Devices -> Seq(Orders)] /\ policy' \in Paths
  BY <1>2, <1>3, <1>4 DEF ClientOK, StateOK, Devices
<1>6. StateOK'
  BY <1>4, <1>5 DEF ClientOK, StateOK
<1>7. BatchOK' /\ RequestOK' /\ PendingKept
  BY <1>4 DEF ClientOK, BatchOK, RequestOK, PendingKept
<1> QED  BY <1>2, <1>3, <1>4, <1>5, <1>6, <1>7 DEF ClientOK

LEMMA StutterOK ==
  ASSUME ClientOK, UNCHANGED vars
  PROVE  ClientOK' /\ PendingKept
BY DEF ClientOK, StateOK, BatchOK, RequestOK, PendingKept, vars, pass, devices

-----------------------------------------------------------------------------
LEMMA NextOK ==
  ASSUME ClientOK, [Next]_vars
  PROVE  ClientOK' /\ PendingKept
<1>1. CASE Start
  BY <1>1, StartOK
<1>2. CASE Pause
  BY <1>2, PauseOK
<1>3. CASE Observe
  BY <1>3, ObserveStepOK
<1>4. CASE NoAnswer
  BY <1>4, NoAnswerOK
<1>5. CASE AnswerFails
  BY <1>5, AnswerFailsOK
<1>6. CASE \E slope \in Slopes : Answer(slope)
  BY <1>6, AnswerOK
<1>7. CASE RequestAndPop
  BY <1>7, RequestAndPopOK
<1>8. CASE ExecActions
  BY <1>8, ExecActionsOK
<1>9. CASE Tick
  BY <1>9, TickOK
<1>10. CASE \E n \in Takes("arm") : DrainArm(n)
  BY <1>10, DrainArmOK
<1>11. CASE \E n \in Takes("grip") : DrainGrip(n)
  BY <1>11, DrainGripOK
<1>12. CASE UNCHANGED vars
  BY <1>12, StutterOK
<1> QED
  BY <1>1, <1>2, <1>3, <1>4, <1>5, <1>6, <1>7, <1>8, <1>9, <1>10, <1>11, <1>12 DEF Next, Client

LEMMA PendingSinceType ==
  ASSUME StateOK
  PROVE  sch.pendingSince \in Int
BY DEF StateOK, SchedulerOK, Schedulers

(* Within a pass no step moves the next one, and a request opened in it is *)
(* no older than the pass.                                                 *)
LEMMA TimingStep ==
  ASSUME Dt > 1, ClientOK, TimingOK, [Next]_vars
  PROVE  TimingOK'
<1>1. ClientOK' /\ PendingKept
  BY NextOK
<1>2. /\ now \in Int /\ nextPass \in Int /\ seen.time \in Int /\ seen.time <= now
      /\ sch.pendingSince \in Int /\ sch'.pendingSince \in Int
      /\ Dt \in Nat /\ RequestTimeout \in Nat
  <2>1. StateOK /\ StateOK'
    BY <1>1 DEF ClientOK
  <2>2. sch.pendingSince \in Int
    BY <2>1, PendingSinceType
  <2>3. sch'.pendingSince \in Int
    BY <2>1 DEF StateOK, SchedulerOK, Schedulers
  <2> QED  BY <2>1, <2>2, <2>3, StateTypes, Constants DEF StateOK
<1>3. ASSUME UNCHANGED <<now, nextPass, seen>>,
             \/ phase = "observed" /\ phase' = "polled"
             \/ phase = "polled" /\ phase' \in {"idle", "popped"}
             \/ phase \in {"popped", "sending"} /\ phase' = "idle"
      PROVE  TimingOK'
  <2>1. now <= seen.time + 2 /\ nextPass = seen.time + Dt
    BY <1>2, <1>3 DEF TimingOK
  <2>2. sch'.pending => nextPass - sch'.pendingSince <= RequestTimeout + Dt
    BY <1>1, <1>2, <2>1 DEF PendingKept, TimingOK
  <2>3. now <= nextPass
    BY <1>2, <2>1
  <2>4. phase' \in {"polled", "popped"} => now <= seen.time + 1
    BY <1>2, <1>3 DEF TimingOK
  <2> QED  BY <1>3, <2>1, <2>2, <2>3, <2>4 DEF TimingOK
<1>4. ASSUME UNCHANGED <<now, nextPass, seen, phase, sch>> PROVE TimingOK'
  BY <1>4 DEF TimingOK
<1>5. CASE Start
  <2>1. /\ UNCHANGED <<now, nextPass, seen, phase>> /\ phase = "idle"
        /\ sch' = Activate(sch, Setpoint(now))
    BY <1>5 DEF Start, pass, AtPass
  <2>2. sch'.pending = FALSE
    BY <2>1, SetpointType, ActivateOK DEF ClientOK
  <2> QED  BY <2>1, <2>2 DEF TimingOK
<1>6. CASE Pause
  <2>1. /\ UNCHANGED <<now, nextPass, seen, phase>> /\ phase = "idle"
        /\ Become(Hold(sch, "operator pause"))
    BY <1>6 DEF Pause, pass, AtPass
  <2>2. sch' = Hold(sch, "operator pause")
    BY <2>1, BecomeOK DEF ClientOK
  <2>3. sch'.pending = FALSE
    <3>1. "operator pause" \in Reasons /\ SchedulerOK(sch)
      BY StateTypes DEF Reasons, ClientOK
    <3> QED  BY <2>2, <3>1, HoldOK
  <2> QED  BY <2>1, <2>3 DEF TimingOK
<1>7. CASE Observe
  <2>1. phase' = "observed" /\ now' = now /\ nextPass' = now + Dt /\ seen'.time = now
    BY <1>7 DEF Observe
  <2>2. sch'.pending => now - sch'.pendingSince <= RequestTimeout
    BY <1>7, ObserveStepOK
  <2> QED  BY <1>2, <2>1, <2>2 DEF TimingOK
<1>8. CASE NoAnswer \/ AnswerFails \/ \E slope \in Slopes : Answer(slope)
  <2>1. phase = "observed" /\ phase' = "polled" /\ UNCHANGED <<now, nextPass, seen>>
    BY <1>8 DEF NoAnswer, AnswerFails, Answer
  <2> QED  BY <1>3, <2>1
<1>9. CASE RequestAndPop
  <2>1. phase = "polled" /\ phase' \in {"idle", "popped"} /\ UNCHANGED <<now, nextPass, seen>>
    BY <1>9 DEF RequestAndPop
  <2> QED  BY <1>3, <2>1
<1>10. CASE ExecActions
  <2>1. phase \in {"popped", "sending"} /\ phase' = "idle" /\ UNCHANGED <<now, nextPass, seen>>
    BY <1>10 DEF ExecActions
  <2> QED  BY <1>3, <2>1
<1>11. CASE Tick
  <2>1. now' = now + 1 /\ UNCHANGED <<nextPass, seen, sch>>
    BY <1>11 DEF Tick
  <2>2. CASE phase = "idle" /\ now < nextPass
    <3>1. phase' = "idle" /\ now + 1 <= nextPass
      BY <1>2, <1>11, <2>2 DEF Tick
    <3> QED  BY <2>1, <3>1 DEF TimingOK
  <2>3. CASE phase = "polled" /\ now = seen.time
    <3>1. phase' = "polled" /\ now + 1 <= seen.time + 1 /\ nextPass = seen.time + Dt
      BY <1>2, <1>11, <2>3 DEF Tick, TimingOK
    <3> QED  BY <2>1, <2>3, <3>1 DEF TimingOK
  <2>4. CASE phase = "popped"
    <3>1. phase' = "sending" /\ now + 1 <= seen.time + 2 /\ nextPass = seen.time + Dt
      BY <1>2, <1>11, <2>4 DEF Tick, TimingOK
    <3> QED  BY <2>1, <2>4, <3>1 DEF TimingOK
  <2> QED  BY <1>11, <2>2, <2>3, <2>4 DEF Tick, Waits
<1>12. CASE \/ \E n \in Takes("arm") : DrainArm(n)
            \/ \E n \in Takes("grip") : DrainGrip(n)
            \/ UNCHANGED vars
  <2>1. UNCHANGED <<now, nextPass, seen, phase, sch>>
    BY <1>12 DEF DrainArm, DrainGrip, vars, pass
  <2> QED  BY <1>4, <2>1
<1> QED
  BY <1>5, <1>6, <1>7, <1>8, <1>9, <1>10, <1>11, <1>12 DEF Next, Client

LEMMA TypeFollows ==
  ASSUME Dt > 1, ClientOK, TimingOK
  PROVE  AuthorSyncTypeOK
<1>1. sch.queue # {} => sch.queue \subseteq DOMAIN sch.plan.arm
  BY DEF ClientOK, StateOK, SchedulerOK
<1>2. sch.pending => /\ sch.state = "ACTIVE" /\ job.round = round
                     /\ now - sch.pendingSince <= RequestTimeout + Dt
  <2>1. SUFFICES ASSUME sch.pending
                 PROVE  /\ sch.state = "ACTIVE" /\ job.round = round
                        /\ now - sch.pendingSince <= RequestTimeout + Dt
    OBVIOUS
  <2>2. /\ now \in Int /\ nextPass \in Int /\ seen.time \in Int /\ Dt \in Nat
        /\ sch.pendingSince \in Int /\ RequestTimeout \in Nat
    BY StateTypes, PendingSinceType, Constants DEF ClientOK
  <2>3. phase \in {"idle", "observed", "polled", "popped", "sending"}
    BY DEF ClientOK, StateOK
  <2>4. now <= nextPass
    BY <2>2, <2>3 DEF TimingOK
  <2>5. nextPass - sch.pendingSince <= RequestTimeout + Dt
    BY <2>1 DEF TimingOK
  <2> QED  BY <2>1, <2>2, <2>4, <2>5, PendingMeans DEF ClientOK
<1>3. sch.state \in {"HOLD", "ACTIVE"} /\ sch.sent \subseteq sch.queue
      /\ (sch.state = "HOLD" => sch.queue = {})
  BY DEF ClientOK, StateOK, SchedulerOK, Schedulers
<1>4. batch \subseteq sch.sent
  BY DEF ClientOK, BatchOK
<1> QED  BY <1>1, <1>2, <1>3, <1>4 DEF AuthorSyncTypeOK, ClientOK, StateOK

(* The state of scheduler, loop and devices is well formed; an open        *)
(* request is the worker's job of this round, and is never older than the  *)
(* timeout and one cycle (author_sync.py:118-145,295-297).  A cycle is at  *)
(* least the two ticks a pass may take.                                    *)
THEOREM AuthorSyncTypeCorrect ==
  ASSUME Dt > 1
  PROVE  Spec => []AuthorSyncTypeOK
<1>1. Init => ClientOK /\ TimingOK
  BY InitOK
<1>2. (ClientOK /\ TimingOK) /\ [Next]_vars => (ClientOK /\ TimingOK)'
  BY NextOK, TimingStep
<1>3. ClientOK /\ TimingOK => AuthorSyncTypeOK
  BY TypeFollows
<1> QED  BY <1>1, <1>2, <1>3, PTL DEF Spec

LEMMA CrashStep ==
  ASSUME ExpirySlack > 0, ClientOK, ~crashed, [Next]_vars
  PROVE  ~crashed'
<1>1. CASE ExecActions
  BY <1>1, ExecActionsOK
<1>2. CASE \E n \in Takes("arm") : DrainArm(n)
  BY <1>2, DrainArmOK
<1>3. CASE \E n \in Takes("grip") : DrainGrip(n)
  BY <1>3, DrainGripOK
<1>4. CASE UNCHANGED crashed
  BY <1>4
<1> QED
  BY <1>1, <1>2, <1>3, <1>4
     DEF Next, Client, Tick, Start, Pause, Observe, NoAnswer, Answer, AnswerFails,
         RequestAndPop, vars

(* No pass and no drain ever meets a replacement boundary that is past, or *)
(* that does not precede its waypoint: whatever the latencies, speeds and  *)
(* answers, the margin of pop_batch covers the way to exec_actions, and    *)
(* what exec_actions sends the interpolators accept, however late they     *)
(* drain it (umi_env.py:1071-1075, pose_trajectory_interpolator.py:        *)
(* 124-125, author_sync.py:422-424).                                       *)
THEOREM BoundaryErrorFree ==
  ASSUME ExpirySlack > 0
  PROVE  Spec => []NoBoundaryError
<1>1. Init => ClientOK /\ ~crashed
  BY InitOK
<1>2. (ClientOK /\ ~crashed) /\ [Next]_vars => (ClientOK /\ ~crashed)'
  BY NextOK, CrashStep
<1>3. ~crashed => NoBoundaryError
  BY DEF NoBoundaryError
<1> QED  BY <1>1, <1>2, <1>3, PTL DEF Spec

(* Whatever a controller takes from its queue, the setpoint it commands    *)
(* next does not jump, and neither does the gripper's policy reference     *)
(* (ros_target_interpolation_controller.py:647-702,                        *)
(* ros_gripper_controller.py:413-455).                                     *)
SetpointContinuous ==
  [][/\ (\E n \in Takes("arm") : DrainArm(n)) =>
          At(path'.arm, Curr.arm) = At(path.arm, Curr.arm)
     /\ (\E n \in Takes("grip") : DrainGrip(n)) =>
          /\ At(path'.grip, Curr.grip) = At(path.grip, Curr.grip)
          /\ At(policy', Curr.grip) = At(policy, Curr.grip)]_vars

THEOREM DrainNeverJumps == Spec => SetpointContinuous
<1>1. Init => ClientOK
  BY InitOK
<1>2. ClientOK /\ [Next]_vars => ClientOK'
  BY NextOK
<1>3. ClientOK /\ [Next]_vars =>
        [/\ (\E n \in Takes("arm") : DrainArm(n)) =>
              At(path'.arm, Curr.arm) = At(path.arm, Curr.arm)
         /\ (\E n \in Takes("grip") : DrainGrip(n)) =>
              /\ At(path'.grip, Curr.grip) = At(path.grip, Curr.grip)
              /\ At(policy', Curr.grip) = At(policy, Curr.grip)]_vars
  BY DrainArmOK, DrainGripOK DEF Curr
<1> QED  BY <1>1, <1>2, <1>3, PTL DEF Spec, SetpointContinuous

(* A waypoint that is still ahead is put on the gripper's physical path    *)
(* and on its policy reference alike, however far the speed limit          *)
(* stretches the physical one, unless it asks for a time the path before   *)
(* it has outrun and is itself reached after that path: the reading the    *)
(* policy gets is the measured angle (ros_gripper_controller.py:380-386,   *)
(* 443-455).  Both hypotheses are needed.  A waypoint that is late moves   *)
(* the reference alone, and one of that other kind is cut in at different  *)
(* times.                                                                  *)
Detours(p, w, curr) ==
  /\ w.time <= LastBefore(Final(p), curr, w.boundary)
  /\ LastBefore(Final(p), curr, w.boundary) < Final(Schedule(p, w, curr, GripperSpeed + 1))

THEOREM ReferenceFollows ==
  ASSUME now \in Int, NEW p \in Paths, NEW w \in Orders, ~TooLate(w.time, now),
         ~Detours(p, w, now)
  PROVE  GripAfter([path |-> p, policy |-> p], w).policy
           = GripAfter([path |-> p, policy |-> p], w).path
<1> DEFINE physical == Schedule(p, w, now, GripperSpeed + 1)
           pose == w.pose
           time == w.time
           boundary == w.boundary
           last == Final(p)
           speed == GripperSpeed + 1
<1>1. /\ pose \in Int /\ time \in Int /\ boundary \in Nat /\ last \in Int
      /\ speed \in Nat /\ IsPath(p) /\ ~TooLate(time, now)
      /\ ~BoundaryInvalid(time, now, boundary)
  BY FinalType, PathsArePaths, OrderIsValid, Constants DEF Orders
<1>2. physical = ScheduleWaypoint(p, pose, time, now, last, boundary, speed)
  BY DEF Schedule
<1>3. Final(physical) \in Int /\ LastBefore(last, now, boundary) \in Int
  <2>1. physical \in Paths
    BY <1>1, ScheduleType DEF Orders
  <2>2. Final(physical) \in Int
    BY <2>1, FinalType
  <2> QED  BY <1>1, <2>2 DEF LastBefore, Max2
<1>4. \/ LastBefore(last, now, boundary) < time
      \/ Final(physical) <= LastBefore(last, now, boundary)
  BY <1>1, <1>3 DEF Detours
<1>5. ScheduleWaypoint(p, pose, Final(physical), now, last, boundary, Unlimited) = physical
  <2> HIDE DEF physical, pose, time, boundary, last, speed
  <2> QED  BY <1>1, <1>2, <1>4, ReachedAlike
<1> QED  BY <1>5 DEF GripAfter
-----------------------------------------------------------------------------
(* The pass that is under way, or the next one, and the last one that      *)
(* looked for an answer.                                                   *)
PassTime == IF phase = "idle" THEN nextPass ELSE seen.time
LastPass == IF phase \in {"idle", "observed"} THEN PassTime - Dt ELSE PassTime

Aligned(p, t) == \E j \in Nat : p = t + j * Dt

(* Waypoints last to the answer of a request made in the first of the      *)
(* passes p, p + Dt, ... that finds it due.                                *)
Covers(end, due, p) ==
  \E k \in Nat : due <= p + k * Dt /\ p + k * Dt + PromptAnswer <= end

(* What the proof takes of the constants: the window outlasts a cycle and  *)
(* a prompt answer, and so do the targets of a chunk that are not stale.   *)
WindowCovers ==
  /\ Period + PromptAnswer <= LatencyBudget + DispatchLead + (ExecutionWindow \div Dt) * Dt
  /\ Dt + Period + PromptAnswer <= (ActionHorizon - 1) * Dt + DispatchLead + 1
  /\ 2 * PromptAnswer + Dt <= (ActionHorizon - 1) * Dt + DispatchLead + 2
  /\ PromptAnswer > 0

LEMMA PromptType == PromptAnswer \in Nat
BY AuthorSyncClientAssumption

LEMMA DtTimes ==
  ASSUME NEW k \in Nat
  PROVE  k * Dt \in Nat /\ (k + 1) * Dt = k * Dt + Dt
BY Constants

LEMMA AlignedLater ==
  ASSUME NEW t \in Int, NEW p \in Int, Aligned(p, t)
  PROVE  /\ t <= p /\ Aligned(p + Dt, t)
         /\ p > t => t + Dt <= p
<1>1. PICK j \in Nat : p = t + j * Dt
  BY DEF Aligned
<1>2. j * Dt \in Nat /\ (j + 1) * Dt = j * Dt + Dt /\ Dt \in Nat
  BY DtTimes, Constants
<1>3. p + Dt = t + (j + 1) * Dt
  BY <1>1, <1>2
<1>4. Aligned(p + Dt, t)
  BY <1>3 DEF Aligned
<1>5. ASSUME p > t PROVE t + Dt <= p
  <2>1. j # 0
    BY <1>1, <1>5, Constants
  <2>2. j - 1 \in Nat
    BY <2>1
  <2>3. (j - 1) * Dt \in Nat /\ j * Dt = (j - 1) * Dt + Dt
    BY <2>2, DtTimes
  <2> QED  BY <1>1, <1>2, <2>3
<1> QED  BY <1>1, <1>2, <1>4, <1>5

LEMMA AlignedSelf ==
  ASSUME NEW t \in Int
  PROVE  Aligned(t, t)
<1>1. 0 \in Nat /\ t = t + 0 * Dt
  BY Constants
<1> QED  BY <1>1 DEF Aligned

LEMMA CoversEnd ==
  ASSUME NEW end \in Int, NEW due \in Int, NEW p \in Int, Covers(end, due, p)
  PROVE  p + PromptAnswer <= end
<1>1. PICK k \in Nat : p + k * Dt + PromptAnswer <= end
  BY DEF Covers
<1> QED  BY <1>1, DtTimes, PromptType

(* A pass that does not find the request due leaves it to the next.        *)
LEMMA CoversLater ==
  ASSUME NEW end \in Int, NEW due \in Int, NEW p \in Int, Covers(end, due, p), p < due
  PROVE  Covers(end, due, p + Dt)
<1>1. PICK k \in Nat : due <= p + k * Dt /\ p + k * Dt + PromptAnswer <= end
  BY DEF Covers
<1>2. k # 0
  BY <1>1, Constants
<1>3. k - 1 \in Nat /\ (k - 1) * Dt \in Nat /\ k * Dt = (k - 1) * Dt + Dt
  BY <1>2, DtTimes
<1>4. p + k * Dt = p + Dt + (k - 1) * Dt
  BY <1>3, Constants
<1>5. due <= p + Dt + (k - 1) * Dt /\ p + Dt + (k - 1) * Dt + PromptAnswer <= end
  BY <1>1, <1>4
<1> QED  BY <1>3, <1>5 DEF Covers

(* What a chunk has to last for when it is merged in pass p, a number of   *)
(* passes after the request at t: the next request is due a cycle after    *)
(* the one before, which was at most a pass late.                          *)
LEMMA CoversMerged ==
  ASSUME NEW end \in Int, NEW due \in Int, NEW p \in Int, NEW t \in Int,
         Aligned(p, t), due <= t + Dt + Period,
         p + PromptAnswer <= end, t + Dt + Period + PromptAnswer <= end
  PROVE  Covers(end, due, p)
<1>1. CASE due <= p
  <2>1. 0 \in Nat /\ due <= p + 0 * Dt /\ p + 0 * Dt + PromptAnswer <= end
    BY <1>1, Constants
  <2> QED  BY <2>1 DEF Covers
<1>2. CASE p < due
  <2>1. PICK j \in Nat : p = t + j * Dt
    BY DEF Aligned
  <2> DEFINE k == StepsPerInference + 1 - j
  <2>2. Period = StepsPerInference * Dt /\ StepsPerInference \in Nat /\ Dt \in Nat
    BY Constants DEF Period
  <2>3. j * Dt < (StepsPerInference + 1) * Dt
    <3>1. (StepsPerInference + 1) * Dt = Period + Dt /\ j * Dt \in Nat /\ Period \in Nat
      BY <2>2, DtTimes
    <3> QED  BY <1>2, <2>1, <2>2, <3>1
  <2>4. j < StepsPerInference + 1
    BY <2>2, <2>3
  <2>5. k \in Nat /\ p + k * Dt = t + Dt + Period
    <3>1. k \in Nat
      BY <2>2, <2>4
    <3>2. j * Dt + k * Dt = (StepsPerInference + 1) * Dt
      BY <2>2, <2>4, <3>1
    <3>3. (StepsPerInference + 1) * Dt = Period + Dt /\ j * Dt \in Nat /\ k * Dt \in Nat
          /\ Period \in Nat
      BY <2>2, <3>1, DtTimes
    <3> HIDE DEF k
    <3> QED  BY <2>1, <2>2, <3>1, <3>2, <3>3
  <2> HIDE DEF k
  <2>6. due <= p + k * Dt /\ p + k * Dt + PromptAnswer <= end
    BY <2>5
  <2> QED  BY <2>5, <2>6 DEF Covers
<1> QED  BY <1>1, <1>2

(* A request that is due puts the next one no more than a cycle later.     *)
LEMMA NextRequestSoon ==
  ASSUME NEW s, SchedulerOK(s), NEW t \in Int, s.nextRequestAt <= t
  PROVE  /\ MarkRequestStarted(s, t).nextRequestAt <= t + Period
         /\ MarkRequestStarted(s, t).hasExecuted = s.hasExecuted
         /\ MarkRequestStarted(s, t).reason = s.reason
<1> DEFINE r == s.nextRequestAt
           q == (t - r) \div Period
<1>1. r \in Int /\ Period \in Nat \ {0} /\ t - r \in Nat
  BY PeriodType DEF SchedulerOK, Schedulers
<1>2. q \in Nat /\ q * Period <= t - r /\ q * Period \in Nat
  <2> HIDE DEF r
  <2> QED  BY <1>1, SMT
<1>3. MarkRequestStarted(s, t).nextRequestAt = (IF r = 0 THEN t + Period
                                                ELSE r + (q + 1) * Period)
  BY DEF MarkRequestStarted, SchedulerOK, Schedulers
<1>4. (q + 1) * Period = q * Period + Period
  BY <1>1, <1>2
<1>5. MarkRequestStarted(s, t).nextRequestAt <= t + Period
  <2> HIDE DEF q, r
  <2> QED  BY <1>1, <1>2, <1>3, <1>4
<1>6. /\ MarkRequestStarted(s, t).hasExecuted = s.hasExecuted
      /\ MarkRequestStarted(s, t).reason = s.reason
  BY DEF MarkRequestStarted, SchedulerOK, Schedulers
<1> QED  BY <1>5, <1>6

(* A prompt chunk lasts through the cycle and the answer that follow.      *)
LEMMA ChunkLasts ==
  ASSUME WindowCovers, NEW s, SchedulerOK(s),
         NEW targets \in Seq(Targets), Len(targets) = ActionHorizon,
         NEW t \in Int, NEW p \in Int, t + Dt <= p, p - Dt - t < PromptAnswer,
         Stale(p - t) <= ActionHorizon - 3,
         NEW end, end = Final(Spliced(s, targets, p - t, p).arm)
  PROVE  /\ end \in Int /\ end > p + LatencyBudget + DispatchLead
         /\ p + PromptAnswer <= end /\ t + Dt + Period + PromptAnswer <= end
<1>1. /\ p - t \in Nat /\ Dt \in Nat \ {0} /\ Period \in Nat /\ PromptAnswer \in Nat
      /\ LatencyBudget \in Nat /\ DispatchLead \in Nat /\ ActionHorizon \in Nat
  BY Constants, PeriodType, PromptType, LatencyBudgetType
<1>2. /\ Spliced(s, targets, p - t, p) \in Plans
      /\ \E n \in {ActionHorizon - Stale(p - t), ExecutionWindow \div Dt} :
           p + LatencyBudget + DispatchLead + n * Dt <= end
  BY <1>1, SplicedIsPlan
<1>3. end \in Int
  <2>1. IsPath(Spliced(s, targets, p - t, p).arm)
    BY <1>2, PathsArePaths DEF Plans
  <2> QED  BY <2>1, PathEnds
<1>4. CASE p + LatencyBudget + DispatchLead + (ExecutionWindow \div Dt) * Dt <= end
  <2>1. ExecutionWindow \div Dt \in Nat /\ (ExecutionWindow \div Dt) * Dt \in Nat
    BY ExecutionWindowType, Constants
  <2>2. (ExecutionWindow \div Dt) * Dt > 0
    <3>1. ExecutionWindow = (StepsPerInference + 1) * Dt + MaxLocalDelay
      BY DEF ExecutionWindow
    <3>2. /\ StepsPerInference * Dt \in Nat
          /\ (StepsPerInference + 1) * Dt = StepsPerInference * Dt + Dt
      BY Constants, DtTimes
    <3>3. ExecutionWindow \in Nat /\ ExecutionWindow >= Dt
      BY <3>1, <3>2, Constants
    <3>4. ExecutionWindow \div Dt \in Nat \ {0}
      BY <1>1, <3>3
    <3> QED  BY <1>1, <3>4, ProductPositive
  <2>3. Period + PromptAnswer
          <= LatencyBudget + DispatchLead + (ExecutionWindow \div Dt) * Dt
    BY DEF WindowCovers
  <2> HIDE DEF WindowCovers
  <2> QED  BY <1>1, <1>3, <1>4, <2>1, <2>2, <2>3
<1>5. CASE p + LatencyBudget + DispatchLead + (ActionHorizon - Stale(p - t)) * Dt <= end
  <2> DEFINE stale == Stale(p - t)
  <2>1. stale \in Nat
    BY <1>1, StaleType
  <2>2. stale * Dt <= p - t + LatencyBudget + Dt - 1
    <3>1. p - t + LatencyBudget \in Nat
      BY <1>1
    <3> DEFINE d == p - t + LatencyBudget
    <3>2. stale = (d + Dt - 1) \div Dt
      BY <1>1 DEF Stale, Needed, Unlimited
    <3>3. d + Dt - 1 \in Nat
      BY <1>1, <3>1
    <3> HIDE DEF stale
    <3>4. stale * Dt <= d + Dt - 1
      <4> HIDE DEF d
      <4> QED  BY <1>1, <2>1, <3>2, <3>3, QuotientTimes DEF stale
    <3> QED  BY <3>4
  <2>3. /\ (ActionHorizon - stale) * Dt = ActionHorizon * Dt - stale * Dt
        /\ (ActionHorizon - 1) * Dt = ActionHorizon * Dt - Dt
        /\ ActionHorizon * Dt \in Nat /\ stale * Dt \in Nat
    <3> HIDE DEF stale
    <3> QED  BY <1>1, <2>1
  <2>4. (ActionHorizon - stale) * Dt > 0
    <3>1. ActionHorizon - stale \in Nat \ {0}
      BY <1>1, <2>1
    <3> HIDE DEF stale
    <3> QED  BY <1>1, <3>1, ProductPositive
  <2>5. /\ Dt + Period + PromptAnswer <= (ActionHorizon - 1) * Dt + DispatchLead + 1
        /\ 2 * PromptAnswer + Dt <= (ActionHorizon - 1) * Dt + DispatchLead + 2
    BY DEF WindowCovers
  <2>6. p + LatencyBudget + DispatchLead + (ActionHorizon - stale) * Dt <= end
    BY <1>5
  <2> HIDE DEF stale
  <2>7. t + DispatchLead + (ActionHorizon - 1) * Dt + 1 <= end
    BY <1>1, <1>3, <2>2, <2>3, <2>6
  <2>8. (ActionHorizon - 1) * Dt \in Int
    BY <2>3, <1>1
  <2> QED  BY <1>1, <1>3, <2>3, <2>4, <2>5, <2>6, <2>7, <2>8
<1> QED  BY <1>2, <1>3, <1>4, <1>5
-----------------------------------------------------------------------------
Running == sch.state = "ACTIVE" /\ ~slow /\ ~crashed
End == Final(sch.plan.arm)

(* submit_rtc_request asks for no more than a bounded round still needs.   *)
Limited == MaxWaypoints # 0 /\ executed + Committed(sch) >= MaxWaypoints

(* Before the first chunk there is nothing to run out of.                  *)
FreshOK ==
  sch.plan = NoPlan =>
    /\ sch.queue = {} /\ ~sch.hasExecuted
    /\ ~sch.pending => /\ sch.nextRequestAt = 0 /\ executed = 0 /\ sch.sent = {}
                       /\ phase \in {"idle", "observed", "polled"}

(* The last knot is queued until it is reached, and is reached no earlier  *)
(* than the answer to the open request, or to the next one, is due.        *)
CoveredOK ==
  sch.plan # NoPlan =>
    /\ End \in sch.queue \/ End <= seen.time
    /\ sch.pending => job.time + PromptAnswer <= End
    /\ ~sch.pending => Limited \/ Covers(End, sch.nextRequestAt, PassTime)

(* The worker is free but for this round's request, which is a whole       *)
(* number of passes old and was prompt when it was last looked for.        *)
AskedOK ==
  IF sch.pending
    THEN /\ job # NoJob /\ sch.nextRequestAt <= job.time + Dt + Period
         /\ Aligned(PassTime, job.time)
         /\ phase \in {"idle", "observed"} => PassTime > job.time
         /\ LastPass - job.time < PromptAnswer
    ELSE job = NoJob

SupplyOK == Running => FreshOK /\ CoveredOK /\ AskedOK

SupplyInv == ClientOK /\ TimingOK /\ SupplyOK /\ NoStarvation

LEMMA PlanEnd ==
  ASSUME ClientOK, sch.plan # NoPlan
  PROVE  sch.plan \in Plans /\ End \in Int
<1>1. sch.plan \in Plans
  BY DEF ClientOK, StateOK, SchedulerOK, Schedulers
<1>2. IsPath(sch.plan.arm)
  BY <1>1, PathsArePaths DEF Plans
<1> QED  BY <1>1, <1>2, PathEnds DEF End

LEMMA PlansArePlans == NoPlan \notin Plans
<1>1. SUFFICES ASSUME NoPlan \in Plans PROVE FALSE
  OBVIOUS
<1>2. DOMAIN NoPlan = {"from", "arm", "grip"}
  BY <1>1 DEF Plans
<1>3. DOMAIN NoPlan = {"from"}
  BY DEF NoPlan
<1>4. "arm" # "from"
  OBVIOUS
<1> QED  BY <1>2, <1>3, <1>4

LEMMA SupplyTypes ==
  ASSUME ClientOK
  PROVE  /\ now \in Int /\ nextPass \in Int /\ seen.time \in Int /\ PassTime \in Int
         /\ LastPass \in Int /\ Dt \in Nat \ {0} /\ Period \in Nat /\ PromptAnswer \in Nat
         /\ sch.nextRequestAt \in Int /\ sch.pending \in BOOLEAN
         /\ SchedulerOK(sch) /\ sch \in Schedulers /\ executed \in Nat
         /\ Committed(sch) \in Nat /\ MaxWaypoints \in Nat
         /\ job # NoJob => job.time \in Int /\ job.time <= now /\ job.round \in Nat
<1>1. sch \in Schedulers /\ SchedulerOK(sch) /\ StateOK
  BY DEF ClientOK, StateOK, SchedulerOK
<1>2. Committed(sch) \in Nat
  BY <1>1, QueueBounded DEF Committed, SchedulerOK
<1>3. job # NoJob => job \in Jobs /\ job.time <= now
  BY <1>1 DEF StateOK
<1> QED
  BY <1>1, <1>2, <1>3, StateTypes, Constants, PeriodType, PromptType
     DEF StateOK, PassTime, LastPass, Jobs, Schedulers

(* A step that is not one of the loop's.                                   *)
LEMMA SupplyUnmoved ==
  ASSUME SupplyInv, UNCHANGED <<nextPass, seen, sch, slow, executed, job>>,
         crashed => crashed',
         phase' = phase \/ (phase = "popped" /\ phase' = "sending")
  PROVE  SupplyOK' /\ NoStarvation'
<1>1. NoStarvation'
  BY DEF SupplyInv, NoStarvation
<1>2. SUFFICES ASSUME Running' PROVE (FreshOK /\ CoveredOK /\ AskedOK)'
  BY <1>1 DEF SupplyOK
<1>3. Running /\ FreshOK /\ CoveredOK /\ AskedOK
  BY <1>2 DEF Running, SupplyInv, SupplyOK
<1>4. PassTime' = PassTime /\ LastPass' = LastPass /\ End' = End /\ (Limited' <=> Limited)
  BY DEF PassTime, LastPass, End, Limited, Committed
<1>5. FreshOK'
  BY <1>3 DEF FreshOK
<1>6. CoveredOK'
  BY <1>3, <1>4 DEF CoveredOK
<1>7. AskedOK'
  BY <1>3, <1>4 DEF AskedOK
<1> QED  BY <1>5, <1>6, <1>7

LEMMA SupplyHeld ==
  ASSUME sch'.state # "ACTIVE", NoStarvation,
         sch'.reason # "queue exhausted" \/ sch'.reason = sch.reason, slow' = slow
  PROVE  SupplyOK' /\ NoStarvation'
BY DEF SupplyOK, Running, NoStarvation

LEMMA SupplyInit ==
  ASSUME Init
  PROVE  SupplyOK /\ NoStarvation
BY DEF Init, Created, SupplyOK, Running, NoStarvation

LEMMA SupplyStart ==
  ASSUME SupplyInv, Start
  PROVE  SupplyOK' /\ NoStarvation'
<1>1. /\ sch' = Activate(sch, Setpoint(now)) /\ executed' = 0 /\ slow' = (job # NoJob)
      /\ UNCHANGED <<phase, nextPass, seen, job, crashed>> /\ phase = "idle"
  BY DEF Start, AtPass, pass
<1>2. /\ sch'.reason = "" /\ sch'.plan = NoPlan /\ sch'.queue = {} /\ sch'.sent = {}
      /\ sch'.hasExecuted = FALSE /\ sch'.pending = FALSE /\ sch'.nextRequestAt = 0
  BY <1>1 DEF Activate, Created
<1>3. NoStarvation'
  BY <1>2 DEF NoStarvation
<1>4. SUFFICES ASSUME Running' PROVE (FreshOK /\ CoveredOK /\ AskedOK)'
  BY <1>3 DEF SupplyOK
<1>5. job' = NoJob
  BY <1>1, <1>4 DEF Running
<1> QED  BY <1>1, <1>2, <1>5 DEF FreshOK, CoveredOK, AskedOK

LEMMA BecomeIs ==
  ASSUME NEW s, Become(s)
  PROVE  sch' = s
BY DEF Become

LEMMA HoldFields ==
  ASSUME NEW s, SchedulerOK(s), NEW reason
  PROVE  Hold(s, reason).state = "HOLD" /\ Hold(s, reason).reason = reason
BY DEF Hold, SchedulerOK, Schedulers

LEMMA SupplyPause ==
  ASSUME SupplyInv, Pause
  PROVE  SupplyOK' /\ NoStarvation'
<1>1. sch' = Hold(sch, "operator pause") /\ slow' = slow
  BY BecomeIs DEF Pause
<1>2. sch'.state = "HOLD" /\ sch'.reason = "operator pause"
  BY <1>1, SupplyTypes, HoldFields DEF SupplyInv
<1> QED  BY <1>1, <1>2, SupplyHeld DEF SupplyInv

LEMMA SupplyNoAnswer ==
  ASSUME SupplyInv, NoAnswer
  PROVE  SupplyOK' /\ NoStarvation'
<1>1. /\ phase = "observed" /\ phase' = "polled"
      /\ slow' = (slow \/ (sch.pending /\ now - job.time >= PromptAnswer))
      /\ UNCHANGED <<now, nextPass, seen, sch, job, executed, crashed>>
  BY DEF NoAnswer
<1>2. NoStarvation'
  BY <1>1 DEF NoStarvation, SupplyInv
<1>3. SUFFICES ASSUME Running' PROVE (FreshOK /\ CoveredOK /\ AskedOK)'
  BY <1>2 DEF SupplyOK
<1>4. Running /\ FreshOK /\ CoveredOK /\ AskedOK
  BY <1>1, <1>3 DEF Running, SupplyInv, SupplyOK
<1>5. /\ now \in Int /\ seen.time \in Int /\ PromptAnswer \in Nat /\ now = seen.time
      /\ sch.pending \in BOOLEAN /\ (job # NoJob => job.time \in Int)
  BY <1>1, SupplyTypes DEF SupplyInv, TimingOK
<1>6. PassTime' = PassTime /\ LastPass' = now /\ End' = End /\ (Limited' <=> Limited)
  BY <1>1, <1>5 DEF PassTime, LastPass, End, Limited, Committed
<1>7. sch.pending => now - job.time < PromptAnswer
  <2>1. ~(sch.pending /\ now - job.time >= PromptAnswer)
    BY <1>1, <1>3, Zenon DEF Running
  <2>2. sch.pending => job # NoJob
    BY <1>4 DEF AskedOK
  <2> QED  BY <1>5, <2>1, <2>2
<1>8. FreshOK'
  BY <1>1, <1>4 DEF FreshOK
<1>9. CoveredOK'
  BY <1>1, <1>4, <1>6 DEF CoveredOK
<1>10. AskedOK'
  BY <1>1, <1>4, <1>6, <1>7 DEF AskedOK
<1> QED  BY <1>8, <1>9, <1>10

LEMMA SupplyAnswerFails ==
  ASSUME SupplyInv, AnswerFails
  PROVE  SupplyOK' /\ NoStarvation'
<1>1. /\ slow' = slow /\ job # NoJob /\ crashed' = crashed
      /\ IF job.round = round /\ sch.state = "ACTIVE" THEN Become(Hold(sch, "inference failed"))
                                                      ELSE UNCHANGED <<sch, devices>>
  BY DEF AnswerFails
<1>2. CASE job.round = round /\ sch.state = "ACTIVE"
  <2>1. sch' = Hold(sch, "inference failed")
    BY <1>1, <1>2, BecomeIs
  <2>2. sch'.state = "HOLD" /\ sch'.reason = "inference failed"
    BY <2>1, SupplyTypes, HoldFields DEF SupplyInv
  <2> QED  BY <1>1, <2>2, SupplyHeld DEF SupplyInv
<1>3. CASE ~(job.round = round /\ sch.state = "ACTIVE")
  <2>1. sch' = sch
    BY <1>1, <1>3
  <2>2. ~Running'
    <3>1. SUFFICES ASSUME Running' PROVE FALSE
      OBVIOUS
    <3>2. Running /\ AskedOK /\ sch.pending
      BY <1>1, <2>1, <3>1, SupplyTypes DEF Running, SupplyInv, SupplyOK, AskedOK
    <3>3. job.round = round
      BY <3>2 DEF SupplyInv, ClientOK, RequestOK
    <3> QED  BY <1>3, <3>2, <3>3 DEF Running
  <2> QED  BY <1>1, <2>1, <2>2 DEF SupplyOK, NoStarvation, SupplyInv
<1> QED  BY <1>2, <1>3

LEMMA AdvanceIs ==
  ASSUME NEW s, SchedulerOK(s), NEW live \in Targets, NEW t \in Int, s.state = "ACTIVE",
         NEW after, after = Advance(ObserveController(s, live), t), NEW done, done = Done(s, t)
  PROVE  /\ Done(ObserveController(s, live), t) = done
         /\ \/ after.state = "HOLD" /\ after.reason = "timeout"
            \/ /\ after.state = "ACTIVE" /\ after.reason = s.reason
               /\ after.queue = s.queue \ done /\ after.sent = s.sent \ done
               /\ after.hasExecuted = (s.hasExecuted \/ done # {})
               /\ after.plan = s.plan /\ after.pending = s.pending
               /\ after.nextRequestAt = s.nextRequestAt
<1> DEFINE b == ObserveController(s, live)
<1>1. /\ b \in Schedulers /\ SchedulerOK(b) /\ b.state = "ACTIVE" /\ b.reason = s.reason
      /\ b.queue = s.queue
      /\ b.sent = s.sent /\ b.hasExecuted = s.hasExecuted /\ b.plan = s.plan
      /\ b.pending = s.pending /\ b.nextRequestAt = s.nextRequestAt
  BY DEF SchedulerOK, Schedulers, ObserveController
<1> HIDE DEF b
<1>2. Done(b, t) = done
  BY <1>1 DEF Done
<1>3. CASE b.pending /\ t - b.pendingSince > RequestTimeout
  <2>1. after = Hold(b, "timeout")
    BY <1>1, <1>3 DEF Advance, b
  <2> QED  BY <1>1, <1>2, <2>1, HoldFields DEF b
<1>4. CASE ~(b.pending /\ t - b.pendingSince > RequestTimeout)
  <2>1. after = [b EXCEPT !.queue = @ \ done, !.sent = @ \ done,
                          !.hasExecuted = @ \/ done # {}]
    BY <1>1, <1>2, <1>4 DEF Advance, b
  <2>2. /\ after.state = b.state /\ after.reason = b.reason
        /\ after.queue = b.queue \ done /\ after.sent = b.sent \ done
        /\ after.hasExecuted = (b.hasExecuted \/ done # {})
        /\ after.plan = b.plan /\ after.pending = b.pending
        /\ after.nextRequestAt = b.nextRequestAt
    BY <1>1, <2>1 DEF Schedulers
  <2> QED  BY <1>1, <1>2, <2>2 DEF b
<1> QED  BY <1>3, <1>4

(* What is retired is counted as executed.                                 *)
LEMMA RetiredCounts ==
  ASSUME ClientOK, NEW done, done \subseteq sch.sent
  PROVE  /\ Cardinality(done) \in Nat
         /\ Cardinality(sch.sent \ done) + Cardinality(done) = Committed(sch)
         /\ done = {} => Cardinality(done) = 0
<1>1. IsFiniteSet(sch.sent) /\ IsFiniteSet(done) /\ Cardinality(done) \in Nat
  BY QueueBounded, SupplyTypes DEF SchedulerOK
<1>2. IsFiniteSet(sch.sent \ done) /\ (sch.sent \ done) \cap done = {}
      /\ (sch.sent \ done) \union done = sch.sent
  BY <1>1, FS_Difference
<1>3. Cardinality(sch.sent) = Cardinality(sch.sent \ done) + Cardinality(done)
                                - Cardinality((sch.sent \ done) \cap done)
  BY <1>1, <1>2, FS_Union
<1>4. Cardinality(sch.sent \ done) \in Nat /\ Cardinality({}) = 0
  BY <1>2, FS_CardinalityType, FS_EmptySet
<1> QED  BY <1>1, <1>2, <1>3, <1>4 DEF Committed

LEMMA SupplyObserve ==
  ASSUME SupplyInv, Observe
  PROVE  SupplyOK' /\ NoStarvation'
<1> DEFINE before == ObserveController(sch, Setpoint(now))
           after  == Advance(before, now)
           done   == Done(sch, now)
           count  == IF after.state = "ACTIVE" THEN Cardinality(Done(before, now)) ELSE 0
           limit  == MaxWaypoints # 0 /\ executed + count >= MaxWaypoints
           next   == IF limit THEN Hold(after, "bounded round complete") ELSE after
<1>1. /\ executed' = executed + count /\ phase = "idle" /\ phase' = "observed"
      /\ now = nextPass /\ nextPass' = now + Dt /\ seen'.time = now
      /\ UNCHANGED <<now, job, slow, crashed>>
      /\ IF sch.state # "ACTIVE" THEN UNCHANGED <<sch, devices>> ELSE Become(next)
  BY DEF Observe, AtPass
<1>2. CASE sch.state # "ACTIVE"
  BY <1>1, <1>2, SupplyHeld DEF SupplyInv
<1>3. CASE sch.state = "ACTIVE"
  <2>1. /\ Done(before, now) = done
        /\ \/ after.state = "HOLD" /\ after.reason = "timeout"
           \/ /\ after.state = "ACTIVE" /\ after.reason = sch.reason
              /\ after.queue = sch.queue \ done /\ after.sent = sch.sent \ done
              /\ after.hasExecuted = (sch.hasExecuted \/ done # {})
              /\ after.plan = sch.plan /\ after.pending = sch.pending
              /\ after.nextRequestAt = sch.nextRequestAt
    BY <1>3, SupplyTypes, SetpointType, AdvanceIs DEF SupplyInv, ClientOK
  <2>2. SchedulerOK(after)
    BY <1>3, SupplyTypes, SetpointType, ObserveOK, AdvanceOK DEF SupplyInv, ClientOK
  <2>3. count = (IF after.state = "ACTIVE" THEN Cardinality(done) ELSE 0)
    BY <2>1
  <2> HIDE DEF before, count, after
  <2>4. sch' = next
    BY <1>1, <1>3, BecomeIs
  <2>5. CASE limit
    <3>1. sch'.state = "HOLD" /\ sch'.reason = "bounded round complete"
      BY <2>2, <2>4, <2>5, HoldFields
    <3> QED  BY <1>1, <3>1, SupplyHeld DEF SupplyInv
  <2>6. CASE after.state = "HOLD" /\ ~limit
    <3>1. sch'.state = "HOLD" /\ sch'.reason = "timeout"
      BY <2>1, <2>4, <2>6
    <3> QED  BY <1>1, <3>1, SupplyHeld DEF SupplyInv
  <2>7. CASE after.state # "HOLD" /\ ~limit
    <3>1. /\ sch'.reason = sch.reason
          /\ sch'.queue = sch.queue \ done /\ sch'.sent = sch.sent \ done
          /\ sch'.hasExecuted = (sch.hasExecuted \/ done # {})
          /\ sch'.plan = sch.plan /\ sch'.pending = sch.pending
          /\ sch'.nextRequestAt = sch.nextRequestAt
      BY <2>1, <2>4, <2>7
    <3>2. executed' = executed + Cardinality(done)
      BY <1>1, <2>1, <2>3, <2>7
    <3>3. NoStarvation'
      BY <1>1, <3>1 DEF NoStarvation, SupplyInv
    <3>4. SUFFICES ASSUME Running' PROVE (FreshOK /\ CoveredOK /\ AskedOK)'
      BY <3>3 DEF SupplyOK
    <3>5. Running /\ FreshOK /\ CoveredOK /\ AskedOK
      BY <1>1, <1>3, <3>4 DEF Running, SupplyInv, SupplyOK
    <3>6. PassTime' = PassTime /\ LastPass' = LastPass /\ End' = End
      BY <1>1, <3>1 DEF PassTime, LastPass, End
    <3>7. done \subseteq sch.sent /\ sch.sent \subseteq sch.queue
          /\ \A t \in sch.sent : t \in Int /\ (t \in done => t <= now)
      BY SupplyTypes DEF SupplyInv, Done, SchedulerOK, Schedulers
    <3>8. /\ Cardinality(done) \in Nat
          /\ Cardinality(sch.sent \ done) + Cardinality(done) = Committed(sch)
          /\ done = {} => Cardinality(done) = 0
      BY <3>7, RetiredCounts DEF SupplyInv
    <3>9. FreshOK'
      <4>1. SUFFICES ASSUME sch.plan = NoPlan PROVE FreshOK'
        BY <3>1 DEF FreshOK
      <4>2. done = {}
        BY <3>5, <3>7, <4>1 DEF FreshOK
      <4> HIDE DEF done
      <4>3. sch'.queue = {} /\ (sch.sent = {} => sch'.sent = {})
        BY <3>1, <3>5, <4>1, <4>2 DEF FreshOK
      <4>4. ~sch'.hasExecuted
        BY <3>1, <3>5, <4>1, <4>2, Zenon DEF FreshOK
      <4>5. executed = 0 => executed' = 0
        BY <3>2, <3>8, <4>2
      <4> QED  BY <1>1, <3>1, <3>5, <4>1, <4>3, <4>4, <4>5 DEF FreshOK
    <3>10. Limited => Limited'
      <4>1. Committed(sch') = Cardinality(sch.sent \ done)
        BY <3>1 DEF Committed
      <4>2. Committed(sch') \in Nat /\ Committed(sch) \in Nat /\ executed \in Nat
            /\ Cardinality(done) \in Nat
        <5>1. ClientOK'
          BY ObserveStepOK DEF SupplyInv
        <5>2. Committed(sch') \in Nat
          BY <5>1, QueueBounded DEF ClientOK, StateOK, SchedulerOK, Committed
        <5> QED  BY <3>8, <5>2, SupplyTypes DEF SupplyInv
      <4>3. executed' + Committed(sch') = executed + Committed(sch)
        BY <3>2, <3>8, <4>1, <4>2
      <4> QED  BY <4>3 DEF Limited
    <3>11. CoveredOK'
      <4>1. SUFFICES ASSUME sch.plan # NoPlan
                     PROVE  /\ End' \in sch'.queue \/ End' <= seen'.time
                            /\ sch'.pending => job'.time + PromptAnswer <= End'
                            /\ ~sch'.pending =>
                                 Limited' \/ Covers(End', sch'.nextRequestAt, PassTime')
        BY <3>1 DEF CoveredOK
      <4>2. End \in sch.queue \ done \/ End <= now
        <5>1. End \in Int /\ seen.time \in Int /\ now \in Int /\ seen.time <= now
          BY <4>1, PlanEnd, SupplyTypes DEF SupplyInv, ClientOK, StateOK
        <5>2. End \in sch.queue \/ End <= seen.time
          BY <3>5, <4>1 DEF CoveredOK
        <5> QED  BY <3>7, <5>1, <5>2
      <4>3. sch.pending => job.time + PromptAnswer <= End
        BY <3>5, <4>1 DEF CoveredOK
      <4>4. ~sch.pending => Limited \/ Covers(End, sch.nextRequestAt, PassTime)
        BY <3>5, <4>1 DEF CoveredOK
      <4> HIDE DEF done
      <4> QED  BY <1>1, <3>1, <3>6, <3>10, <4>2, <4>3, <4>4
    <3>12. AskedOK'
      BY <1>1, <3>1, <3>5, <3>6 DEF AskedOK
    <3> QED  BY <3>9, <3>11, <3>12
  <2> QED  BY <2>5, <2>6, <2>7
<1> QED  BY <1>2, <1>3

LEMMA SupplyAnswer ==
  ASSUME WindowCovers, SupplyInv, NEW slope \in Slopes, Answer(slope)
  PROVE  SupplyOK' /\ NoStarvation'
<1> DEFINE targets == [k \in 1..ActionHorizon |->
                         [arm |-> job.arm + k * slope, grip |-> job.grip - k * slope]]
           age == now - job.time
           merged == MergeChunk(sch, targets, age, now)
           plan == Spliced(sch, targets, age, now)
<1>1. job \in Jobs /\ age \in Nat /\ now \in Int /\ SchedulerOK(sch)
  <2>1. job \in Jobs /\ job.time <= now
    BY DEF Answer, SupplyInv, ClientOK, StateOK
  <2> QED  BY <2>1, SupplyTypes DEF SupplyInv, Jobs
<1>2. targets \in Seq(Targets) /\ Len(targets) = ActionHorizon
  <2>1. slope \in Int /\ ActionHorizon \in Nat
    BY Constants
  <2>2. targets \in [1..ActionHorizon -> Targets]
    BY <1>1, <2>1 DEF Jobs, Targets
  <2> HIDE DEF targets
  <2> QED  BY <2>1, <2>2, IsASeq, LenProperties
<1>3. /\ phase = "observed" /\ phase' = "polled" /\ job # NoJob /\ job' = NoJob
      /\ UNCHANGED <<now, nextPass, seen, executed, slow, crashed>>
      /\ IF job.round = round /\ sch.state = "ACTIVE" THEN Become(merged)
                                                      ELSE UNCHANGED <<sch, devices>>
  BY DEF Answer
<1> HIDE DEF targets
<1>4. CASE ~(job.round = round /\ sch.state = "ACTIVE")
  <2>1. sch' = sch
    BY <1>3, <1>4
  <2>2. ~Running'
    <3>1. SUFFICES ASSUME Running' PROVE FALSE
      OBVIOUS
    <3>2. Running /\ AskedOK /\ sch.pending
      BY <1>3, <2>1, <3>1, SupplyTypes DEF Running, SupplyInv, SupplyOK, AskedOK
    <3>3. job.round = round
      BY <3>2 DEF SupplyInv, ClientOK, RequestOK
    <3> QED  BY <1>4, <3>2, <3>3 DEF Running
  <2> QED  BY <1>3, <2>1, <2>2 DEF SupplyOK, NoStarvation, SupplyInv
<1>5. CASE job.round = round /\ sch.state = "ACTIVE"
  <2>1. sch' = merged
    BY <1>3, <1>5, BecomeIs
  <2>2. \/ \E reason \in {"chunk expired", "unsafe chunk", "too fast"} :
             merged = Hold(sch, reason)
        \/ /\ Stale(age) <= ActionHorizon - 3 /\ plan \in Plans
           /\ plan.from = now + LatencyBudget + DispatchLead /\ merged = Adopted(sch, plan)
    <3>1. merged = MergeChunk(sch, targets, age, now)
      OBVIOUS
    <3>2. \/ merged = Hold(sch, "chunk expired")
          \/ merged = Hold(sch, "unsafe chunk") \/ merged = Hold(sch, "too fast")
          \/ /\ Stale(age) <= ActionHorizon - 3
             /\ Spliced(sch, targets, age, now) \in Plans
             /\ Spliced(sch, targets, age, now).from = now + LatencyBudget + DispatchLead
             /\ merged = Adopted(sch, Spliced(sch, targets, age, now))
      <4> HIDE DEF merged, age
      <4>1. /\ SchedulerOK(sch) /\ sch.state = "ACTIVE" /\ targets \in Seq(Targets)
            /\ Len(targets) = ActionHorizon /\ age \in Nat /\ now \in Int
        BY <1>1, <1>2, <1>5
      <4> QED  BY <3>1, <4>1, MergeIs
    <3> QED  BY <3>2
  <2> HIDE DEF merged
  <2>3. ASSUME NEW reason \in {"chunk expired", "unsafe chunk", "too fast"},
               merged = Hold(sch, reason)
        PROVE  SupplyOK' /\ NoStarvation'
    <3>1. sch'.state = "HOLD" /\ sch'.reason = reason /\ reason # "queue exhausted"
      BY <1>1, <2>1, <2>3, HoldFields
    <3> QED  BY <1>3, <3>1, SupplyHeld DEF SupplyInv
  <2>4. CASE /\ Stale(age) <= ActionHorizon - 3 /\ plan \in Plans
             /\ plan.from = now + LatencyBudget + DispatchLead /\ merged = Adopted(sch, plan)
    <3>0. /\ sch'.plan = plan /\ sch'.queue = (DOMAIN plan.arm) \ {plan.from}
          /\ sch'.pending = FALSE /\ sch'.nextRequestAt = sch.nextRequestAt
          /\ sch'.reason = sch.reason
      <4> HIDE DEF plan
      <4> QED  BY <1>1, <2>1, <2>4 DEF Adopted, SchedulerOK, Schedulers
    <3>1. NoStarvation'
      BY <1>3, <3>0 DEF NoStarvation, SupplyInv
    <3>2. SUFFICES ASSUME Running' PROVE (FreshOK /\ CoveredOK /\ AskedOK)'
      BY <3>1 DEF SupplyOK
    <3>3. Running /\ AskedOK /\ sch.pending
      BY <1>3, <1>5, <3>2, SupplyTypes DEF Running, SupplyInv, SupplyOK, AskedOK
    <3>4. /\ seen.time = now /\ Dt \in Nat /\ PassTime = now /\ LastPass = now - Dt
          /\ PassTime' = now
      BY <1>3, SupplyTypes DEF SupplyInv, TimingOK, PassTime, LastPass
    <3>5. /\ sch.nextRequestAt <= job.time + Dt + Period /\ Aligned(now, job.time)
          /\ now > job.time /\ now - Dt - job.time < PromptAnswer /\ job.time \in Int
      BY <1>1, <1>3, <3>3, <3>4 DEF AskedOK, Jobs
    <3>6. job.time + Dt <= now
      BY <1>1, <3>5, AlignedLater
    <3> DEFINE end == Final(plan.arm)
    <3>7. /\ end \in Int /\ end > now + LatencyBudget + DispatchLead
          /\ now + PromptAnswer <= end /\ job.time + Dt + Period + PromptAnswer <= end
      BY <1>1, <1>2, <2>4, <3>5, <3>6, ChunkLasts
    <3>8. Covers(end, sch.nextRequestAt, now)
      <4> HIDE DEF end
      <4> QED  BY <1>1, <3>5, <3>7, SupplyTypes, CoversMerged DEF SupplyInv
    <3>9. end \in DOMAIN plan.arm
      <4>1. IsPath(plan.arm)
        BY <2>4, PathsArePaths DEF Plans
      <4> QED  BY <4>1, PathEnds
    <3> HIDE DEF plan, age
    <3>10. End' = end
      BY <3>0 DEF End
    <3>11. end \in sch'.queue
      BY <1>1, <2>4, <3>0, <3>7, <3>9, LatencyBudgetType, Constants
    <3>12. sch'.plan # NoPlan
      BY <2>4, <3>0, PlansArePlans
    <3> HIDE DEF end
    <3>13. FreshOK' /\ AskedOK'
      BY <1>3, <3>0, <3>12 DEF FreshOK, AskedOK
    <3>14. CoveredOK'
      BY <3>0, <3>4, <3>8, <3>10, <3>11 DEF CoveredOK
    <3> QED  BY <3>13, <3>14
  <2> QED  BY <2>2, <2>3, <2>4
<1> QED  BY <1>4, <1>5

(* What submit_rtc_request leaves behind, in a pass at seen.time with      *)
(* the next event in pass p.                                               *)
LEMMA SupplyAsked ==
  ASSUME Dt > 1, WindowCovers, SupplyInv, Running, phase \in {"polled", "popped", "sending"},
         NEW asked, asked = Requested(sch), NEW j, j = JobAfter(sch),
         NEW p \in {seen.time, seen.time + Dt}
  PROVE  /\ asked.state = sch.state /\ asked.reason = sch.reason /\ asked.plan = sch.plan
         /\ asked.queue = sch.queue /\ asked.sent = sch.sent
         /\ asked.hasExecuted = sch.hasExecuted /\ asked.pending \in BOOLEAN
         /\ SchedulerOK(asked)
         /\ asked.pending =>
              /\ j # NoJob /\ j.time \in Int
              /\ asked.nextRequestAt <= j.time + Dt + Period /\ Aligned(p, j.time)
              /\ seen.time - j.time < PromptAnswer
              /\ p # seen.time => p > j.time
              /\ sch.plan # NoPlan => j.time + PromptAnswer <= End
         /\ ~asked.pending =>
              /\ asked = sch /\ j = NoJob
              /\ Limited \/ now < sch.nextRequestAt
              /\ sch.plan # NoPlan => Limited \/ Covers(End, sch.nextRequestAt, p)
<1>1. /\ FreshOK /\ CoveredOK /\ AskedOK /\ ClientOK /\ TimingOK
      /\ sch.state = "ACTIVE"
  BY DEF SupplyInv, SupplyOK, Running
<1>2. /\ now \in Int /\ seen.time \in Int /\ Dt \in Nat \ {0} /\ Period \in Nat
      /\ PromptAnswer \in Nat /\ sch.nextRequestAt \in Int /\ sch.pending \in BOOLEAN
      /\ SchedulerOK(sch) /\ executed \in Nat /\ Committed(sch) \in Nat
      /\ MaxWaypoints \in Nat /\ (job # NoJob => job.time \in Int) /\ p \in Int
      /\ seen.time <= now /\ now <= seen.time + Dt
      /\ PassTime = seen.time /\ LastPass = seen.time
  BY <1>1, SupplyTypes DEF ClientOK, StateOK, TimingOK, PassTime, LastPass
<1>3. /\ SchedulerOK(asked) /\ asked.state = sch.state /\ asked.plan = sch.plan
      /\ asked.queue = sch.queue /\ asked.sent = sch.sent
  BY <1>1, RequestedOK
<1>4. CASE Asks(sch)
  <2>1. /\ asked = MarkRequestStarted(sch, now) /\ ~sch.pending /\ sch.nextRequestAt <= now
        /\ MaxWaypoints = 0 \/ executed + Committed(sch) < MaxWaypoints
    BY <1>2, <1>4 DEF Requested, Asks, RequestDue
  <2>2. j = [round |-> round, time |-> seen.time, arm |-> seen.arm, grip |-> seen.grip]
    BY <1>4 DEF JobAfter
  <2>3. j.time = seen.time /\ j.round = round
    BY <2>2
  <2>4. /\ asked.nextRequestAt <= now + Period
        /\ asked.hasExecuted = sch.hasExecuted /\ asked.reason = sch.reason
    BY <1>2, <2>1, NextRequestSoon
  <2>5. asked.pending = TRUE
    BY <1>1, <1>2, <2>1, MarkOK
  <2>6. j # NoJob
    <3>1. j \in Jobs
      BY <1>1, <2>2, StateTypes DEF ClientOK, Jobs
    <3>2. DOMAIN j = {"round", "time", "arm", "grip"} /\ DOMAIN NoJob = {"round"}
      BY <2>2 DEF NoJob
    <3>3. "time" \in DOMAIN j /\ "time" \notin DOMAIN NoJob
      BY <3>2
    <3> QED  BY <3>3
  <2>7. Aligned(p, seen.time) /\ (p # seen.time => p > seen.time)
    <3>1. Aligned(seen.time, seen.time)
      BY <1>2, AlignedSelf
    <3>2. Aligned(seen.time + Dt, seen.time)
      BY <1>2, <3>1, AlignedLater
    <3> QED  BY <1>2, <3>1, <3>2
  <2>8. ASSUME sch.plan # NoPlan PROVE seen.time + PromptAnswer <= End
    <3>1. ~Limited
      BY <1>2, <2>1 DEF Limited
    <3>2. Covers(End, sch.nextRequestAt, seen.time)
      BY <1>1, <1>2, <2>1, <2>8, <3>1 DEF CoveredOK
    <3>3. End \in Int
      BY <1>1, <2>8, PlanEnd
    <3> QED  BY <1>2, <3>2, <3>3, CoversEnd
  <2>9. seen.time - j.time < PromptAnswer
    BY <1>2, <2>3 DEF WindowCovers
  <2>10. /\ j.time \in Int /\ asked.nextRequestAt <= j.time + Dt + Period
         /\ Aligned(p, j.time) /\ (p # seen.time => p > j.time)
         /\ sch.plan # NoPlan => j.time + PromptAnswer <= End
    <3>1. asked.nextRequestAt <= seen.time + Dt + Period
      <4>1. SchedulerOK(asked)
        BY <1>3
      <4>2. asked.nextRequestAt \in Int
        BY <4>1 DEF SchedulerOK, Schedulers
      <4> QED  BY <1>2, <2>4, <4>2
    <3> QED  BY <1>2, <2>3, <2>7, <2>8, <3>1
  <2> QED  BY <1>3, <2>4, <2>5, <2>6, <2>9, <2>10
<1>5. CASE ~Asks(sch)
  <2>1. asked = sch /\ j = job
    BY <1>5 DEF Requested, JobAfter
  <2>2. CASE sch.pending
    <3>1. /\ job # NoJob /\ sch.nextRequestAt <= job.time + Dt + Period
          /\ Aligned(seen.time, job.time) /\ seen.time - job.time < PromptAnswer
          /\ job.time \in Int
      BY <1>1, <1>2, <2>2 DEF AskedOK
    <3>2. /\ job.time <= seen.time /\ Aligned(seen.time + Dt, job.time)
      BY <1>2, <3>1, AlignedLater
    <3>3. Aligned(p, job.time) /\ (p # seen.time => p > job.time)
      BY <1>2, <3>1, <3>2
    <3>4. sch.plan # NoPlan => job.time + PromptAnswer <= End
      BY <1>1, <2>2 DEF CoveredOK
    <3> QED  BY <1>2, <1>3, <2>1, <2>2, <3>1, <3>3, <3>4
  <2>3. CASE ~sch.pending
    <3>1. job = NoJob
      BY <1>1, <2>3 DEF AskedOK
    <3>2. Limited \/ now < sch.nextRequestAt
      BY <1>1, <1>2, <1>5, <2>3, <3>1 DEF Asks, RequestDue, Limited
    <3>3. ASSUME sch.plan # NoPlan, ~Limited PROVE Covers(End, sch.nextRequestAt, p)
      <4>1. Covers(End, sch.nextRequestAt, seen.time) /\ seen.time < sch.nextRequestAt
        BY <1>1, <1>2, <2>3, <3>2, <3>3 DEF CoveredOK
      <4>2. End \in Int
        BY <1>1, <3>3, PlanEnd
      <4>3. Covers(End, sch.nextRequestAt, seen.time + Dt)
        BY <1>2, <4>1, <4>2, CoversLater
      <4> QED  BY <4>1, <4>3
    <3> QED  BY <1>2, <1>3, <2>1, <2>3, <3>1, <3>2, <3>3
  <2> QED  BY <1>2, <2>2, <2>3
<1> QED  BY <1>4, <1>5

(* The pass that follows exec_actions, or a pass with nothing to send.     *)
LEMMA SupplyExecActions ==
  ASSUME Dt > 1, WindowCovers, SupplyInv, ExecActions
  PROVE  SupplyOK' /\ NoStarvation'
<1>1. /\ phase \in {"popped", "sending"} /\ phase' = "idle"
      /\ UNCHANGED <<now, nextPass, seen, executed, slow>>
  BY DEF ExecActions
<1>2. CASE BoundaryRejected
  <2>1. sch' = sch /\ crashed' = TRUE
    BY <1>2 DEF ExecActions
  <2> QED  BY <1>1, <2>1 DEF SupplyOK, Running, NoStarvation, SupplyInv
<1>3. CASE ~BoundaryRejected
  <2>1. sch' = Requested(sch) /\ job' = JobAfter(sch) /\ crashed' = crashed
    BY <1>3 DEF ExecActions
  <2>2. CASE ~Running
    <3>1. sch'.state = sch.state
      BY <2>1, RequestedOK DEF SupplyInv
    <3>2. ~Running'
      BY <1>1, <2>1, <2>2, <3>1 DEF Running
    <3>3. sch'.reason = sch.reason
      <4>1. SchedulerOK(sch)
        BY SupplyTypes DEF SupplyInv
      <4> QED
        BY <2>1, <4>1 DEF Requested, MarkRequestStarted, SchedulerOK, Schedulers
    <3> QED  BY <1>1, <3>2, <3>3 DEF SupplyOK, NoStarvation, SupplyInv
  <2>3. CASE Running
    <3> DEFINE p == seen.time + Dt
    <3>1. /\ sch'.reason = sch.reason /\ sch'.plan = sch.plan
          /\ sch'.queue = sch.queue /\ sch'.sent = sch.sent
          /\ sch'.hasExecuted = sch.hasExecuted /\ sch'.pending \in BOOLEAN
          /\ sch'.pending =>
               /\ job' # NoJob /\ sch'.nextRequestAt <= job'.time + Dt + Period
               /\ Aligned(p, job'.time)
               /\ seen.time - job'.time < PromptAnswer
               /\ p # seen.time => p > job'.time
               /\ sch.plan # NoPlan => job'.time + PromptAnswer <= End
          /\ ~sch'.pending =>
               /\ sch' = sch /\ job' = NoJob
               /\ sch.plan # NoPlan => Limited \/ Covers(End, sch.nextRequestAt, p)
      <4>1. p \in {seen.time, seen.time + Dt} /\ phase \in {"polled", "popped", "sending"}
        BY <1>1
      <4> HIDE DEF p
      <4> QED  BY <2>1, <2>3, <4>1, SupplyAsked
    <3>2. PassTime' = p /\ LastPass' = seen.time /\ p # seen.time /\ End' = End
      <4>1. nextPass = seen.time + Dt
        BY <1>1 DEF SupplyInv, TimingOK
      <4>2. seen.time \in Int /\ Dt \in Nat \ {0}
        BY SupplyTypes DEF SupplyInv
      <4> QED  BY <1>1, <3>1, <4>1, <4>2 DEF PassTime, LastPass, End
    <3> HIDE DEF p
    <3>3. Limited' <=> Limited
      BY <1>1, <3>1 DEF Limited, Committed
    <3>4. sch.plan # NoPlan
      <4>1. batch # {} /\ batch \subseteq sch.queue
        BY <1>1 DEF SupplyInv, ClientOK, BatchOK, StateOK, SchedulerOK
      <4>2. sch.plan \in Plans
        BY <4>1, SupplyTypes DEF SupplyInv, SchedulerOK
      <4> QED  BY <4>2, PlansArePlans
    <3>5. FreshOK'
      BY <3>1, <3>4 DEF FreshOK
    <3>6. CoveredOK'
      <4>1. End \in sch.queue \/ End <= seen.time
        BY <2>3, <3>4 DEF SupplyInv, SupplyOK, CoveredOK
      <4> QED  BY <1>1, <3>1, <3>2, <3>3, <3>4, <4>1 DEF CoveredOK
    <3>7. AskedOK'
      BY <1>1, <3>1, <3>2 DEF AskedOK
    <3> QED  BY <1>1, <3>1, <3>5, <3>6, <3>7 DEF SupplyOK, NoStarvation, SupplyInv
  <2> QED  BY <2>2, <2>3
<1> QED  BY <1>2, <1>3

LEMMA PopIs ==
  ASSUME NEW s, SchedulerOK(s), s.state = "ACTIVE", NEW taken \in SUBSET Unsent(s),
         NEW t \in Int, NEW popped, popped = PopBatch(s, taken, t)
  PROVE  \/ /\ popped.state = "HOLD" /\ popped.reason = "queue exhausted" /\ Starved(s)
         \/ popped.state = "HOLD" /\ popped.reason = "batch expired"
         \/ /\ popped.reason = s.reason /\ popped.plan = s.plan /\ popped.queue = s.queue
            /\ popped.sent \subseteq s.queue /\ s.sent \subseteq popped.sent
            /\ popped.hasExecuted = s.hasExecuted /\ popped.pending = s.pending
            /\ popped.nextRequestAt = s.nextRequestAt
<1>1. \/ popped = s
      \/ popped = Hold(s, "queue exhausted") /\ Starved(s)
      \/ popped = Hold(s, "batch expired")
      \/ popped = [s EXCEPT !.sent = @ \union taken]
  BY DEF PopBatch
<1>2. s.sent \subseteq s.queue /\ taken \subseteq s.queue
  BY DEF SchedulerOK, Unsent
<1>3. CASE popped = s
  BY <1>2, <1>3
<1>4. CASE popped = Hold(s, "queue exhausted") /\ Starved(s)
  <2>1. popped.state = "HOLD" /\ popped.reason = "queue exhausted"
    BY <1>4 DEF Hold, SchedulerOK, Schedulers
  <2> QED  BY <1>4, <2>1
<1>5. CASE popped = Hold(s, "batch expired")
  <2>1. popped.state = "HOLD" /\ popped.reason = "batch expired"
    BY <1>5 DEF Hold, SchedulerOK, Schedulers
  <2> QED  BY <2>1
<1>6. CASE popped = [s EXCEPT !.sent = @ \union taken]
  BY <1>2, <1>6 DEF SchedulerOK, Schedulers
<1> QED  BY <1>1, <1>3, <1>4, <1>5, <1>6

LEMMA SupplyRequestAndPop ==
  ASSUME Dt > 1, WindowCovers, SupplyInv, RequestAndPop
  PROVE  SupplyOK' /\ NoStarvation'
<1> DEFINE asked == Requested(sch)
           left  == MaxWaypoints - executed - Committed(asked)
           taken == IF MaxWaypoints = 0 THEN Unsent(asked) ELSE Earliest(Unsent(asked), left)
           after == IF MaxWaypoints # 0 /\ left <= 0 THEN asked ELSE PopBatch(asked, taken, now)
           j     == JobAfter(sch)
<1>1. /\ sch' = after /\ job' = j /\ phase = "polled" /\ phase' \in {"idle", "popped"}
      /\ phase' = "popped" => after.sent \ asked.sent # {}
      /\ UNCHANGED <<now, nextPass, seen, executed, slow, crashed>>
  BY BecomeIs DEF RequestAndPop
<1>2. taken \subseteq Unsent(asked)
  BY DEF Earliest
<1>3. CASE ~Running
  <2>1. CASE slow
    <3>1. SupplyOK' /\ NoStarvation'
      BY <1>1, <2>1, Zenon DEF SupplyOK, Running, NoStarvation
    <3> QED  BY <3>1
  <2>2. CASE ~slow
    <3>1. sch.state # "ACTIVE"
      BY <1>3, <2>2 DEF Running, RequestAndPop
    <3>2. asked = sch
      BY <3>1 DEF Requested, Asks, RequestDue
    <3>3. sch' = sch
      BY <1>1, <3>1, <3>2 DEF PopBatch
    <3> QED  BY <1>1, <3>1, <3>3, SupplyHeld DEF SupplyInv
  <2> QED  BY <2>1, <2>2
<1>4. CASE Running
  <2>1. /\ FreshOK /\ CoveredOK /\ AskedOK /\ sch.state = "ACTIVE" /\ ~slow
    BY <1>4 DEF SupplyInv, SupplyOK, Running
  <2> DEFINE p == IF phase' = "idle" THEN seen.time + Dt ELSE seen.time
  <2>2. /\ asked.state = sch.state /\ asked.reason = sch.reason /\ asked.plan = sch.plan
        /\ asked.queue = sch.queue /\ asked.sent = sch.sent
        /\ asked.hasExecuted = sch.hasExecuted /\ asked.pending \in BOOLEAN
        /\ SchedulerOK(asked)
        /\ asked.pending =>
             /\ j # NoJob /\ j.time \in Int
             /\ asked.nextRequestAt <= j.time + Dt + Period /\ Aligned(p, j.time)
             /\ seen.time - j.time < PromptAnswer
             /\ p # seen.time => p > j.time
             /\ sch.plan # NoPlan => j.time + PromptAnswer <= End
        /\ ~asked.pending =>
             /\ asked = sch /\ j = NoJob
             /\ Limited \/ now < sch.nextRequestAt
             /\ sch.plan # NoPlan => Limited \/ Covers(End, sch.nextRequestAt, p)
    <3>1. p \in {seen.time, seen.time + Dt}
      OBVIOUS
    <3>2. phase \in {"polled", "popped", "sending"}
      BY <1>1
    <3> DEFINE a == asked
               b == j
    <3>3. a = Requested(sch) /\ b = JobAfter(sch)
      OBVIOUS
    <3> HIDE DEF p, asked, j
    <3> QED  BY <1>4, <3>1, <3>2, SupplyAsked DEF asked, j
  <2>3. /\ now \in Int /\ seen.time \in Int /\ Dt \in Nat \ {0} /\ PromptAnswer \in Nat
        /\ executed \in Nat /\ Committed(sch) \in Nat /\ MaxWaypoints \in Nat
        /\ sch.nextRequestAt \in Int /\ seen.time <= now /\ nextPass = seen.time + Dt
    BY <1>1, SupplyTypes DEF SupplyInv, ClientOK, StateOK, TimingOK
  <2>4. left = MaxWaypoints - executed - Committed(sch)
    BY <2>2 DEF Committed
  <2>5. ASSUME Starved(asked) PROVE MaxWaypoints # 0 /\ left <= 0
    <3>1. sch.queue = {} /\ (sch.hasExecuted \/ ~asked.pending)
      BY <2>2, <2>5, Zenon DEF Starved
    <3>2. CASE sch.plan = NoPlan
      <4>1. ~sch.hasExecuted /\ ~asked.pending
        BY <2>1, <3>1, <3>2, Zenon DEF FreshOK
      <4>2. sch.nextRequestAt = 0 /\ executed = 0 /\ Committed(sch) = 0
        <5>1. asked = sch
          BY <2>2, <4>1
        <5>2. sch.nextRequestAt = 0 /\ executed = 0 /\ sch.sent = {}
          BY <2>1, <3>2, <4>1, <5>1 DEF FreshOK
        <5> QED  BY <5>2, FS_EmptySet DEF Committed
      <4>3. now > 0
        BY SupplyTypes, StateTypes DEF SupplyInv, ClientOK
      <4>4. Limited
        BY <2>2, <2>3, <4>1, <4>2, <4>3
      <4> QED  BY <2>3, <2>4, <4>4 DEF Limited
    <3>3. CASE sch.plan # NoPlan
      <4>1. End \in Int /\ End <= seen.time
        BY <2>1, <3>1, <3>3, PlanEnd DEF CoveredOK, SupplyInv
      <4>2. ~asked.pending
        BY <2>2, <2>3, <3>3, <4>1
      <4>3. ~Covers(End, sch.nextRequestAt, p)
        <5>1. SUFFICES ASSUME Covers(End, sch.nextRequestAt, p) PROVE FALSE
          OBVIOUS
        <5>2. p \in Int /\ p >= seen.time
          BY <2>3
        <5> HIDE DEF p
        <5>3. p + PromptAnswer <= End
          BY <2>3, <4>1, <5>1, <5>2, CoversEnd
        <5> QED  BY <2>3, <4>1, <5>2, <5>3 DEF WindowCovers
      <4>4. Limited
        BY <2>2, <3>3, <4>2, <4>3
      <4> QED  BY <2>3, <2>4, <4>4 DEF Limited
    <3> QED  BY <3>2, <3>3
  <2> HIDE DEF asked, taken, left, j
  <2>6. \/ after.state = "HOLD" /\ after.reason = "batch expired"
        \/ /\ after.reason = asked.reason /\ after.plan = asked.plan
           /\ after.queue = asked.queue
           /\ after.sent \subseteq asked.queue /\ asked.sent \subseteq after.sent
           /\ after.hasExecuted = asked.hasExecuted /\ after.pending = asked.pending
           /\ after.nextRequestAt = asked.nextRequestAt
    <3>1. CASE MaxWaypoints # 0 /\ left <= 0
      BY <2>2, <3>1 DEF SchedulerOK
    <3>2. CASE ~(MaxWaypoints # 0 /\ left <= 0)
      <4>1. after = PopBatch(asked, taken, now) /\ ~Starved(asked)
        BY <2>5, <3>2
      <4> HIDE DEF after
      <4>2. SchedulerOK(asked) /\ asked.state = "ACTIVE" /\ now \in Int
        BY <2>1, <2>2, <2>3
      <4>3. taken \in SUBSET Unsent(asked)
        BY <1>2
      <4>4. \/ after.state = "HOLD" /\ after.reason = "queue exhausted" /\ Starved(asked)
            \/ after.state = "HOLD" /\ after.reason = "batch expired"
            \/ /\ after.reason = asked.reason /\ after.plan = asked.plan
               /\ after.queue = asked.queue
               /\ after.sent \subseteq asked.queue /\ asked.sent \subseteq after.sent
               /\ after.hasExecuted = asked.hasExecuted /\ after.pending = asked.pending
               /\ after.nextRequestAt = asked.nextRequestAt
        <5> HIDE DEF left
        <5> QED  BY <4>1, <4>2, <4>3, PopIs
      <4> QED  BY <4>1, <4>4
    <3> QED  BY <3>1, <3>2
  <2> HIDE DEF after
  <2>7. CASE after.state = "HOLD" /\ after.reason = "batch expired"
    BY <1>1, <2>7, SupplyHeld DEF SupplyInv
  <2>8. CASE /\ after.reason = asked.reason /\ after.plan = asked.plan
             /\ after.queue = asked.queue
             /\ after.sent \subseteq asked.queue /\ asked.sent \subseteq after.sent
             /\ after.hasExecuted = asked.hasExecuted /\ after.pending = asked.pending
             /\ after.nextRequestAt = asked.nextRequestAt
    <3>1. /\ sch'.reason = sch.reason /\ sch'.plan = sch.plan /\ sch'.queue = sch.queue
          /\ sch'.sent \subseteq sch.queue /\ sch.sent \subseteq sch'.sent
          /\ sch'.hasExecuted = sch.hasExecuted /\ sch'.pending = asked.pending
          /\ sch'.nextRequestAt = asked.nextRequestAt
      BY <1>1, <2>2, <2>8
    <3>2. PassTime' = p /\ LastPass' = seen.time /\ End' = End
      BY <1>1, <2>3, <3>1 DEF PassTime, LastPass, End
    <3>3. Limited => Limited'
      <4>1. Committed(sch) <= Committed(sch') /\ Committed(sch') \in Nat
        <5>1. IsFiniteSet(sch'.sent) /\ Cardinality(sch'.sent) \in Nat
          BY <3>1, SupplyTypes, QueueBounded DEF SupplyInv
        <5> QED  BY <3>1, <5>1, FS_Subset DEF Committed
      <4> QED  BY <1>1, <2>3, <4>1 DEF Limited
    <3>4. FreshOK'
      <4>1. SUFFICES ASSUME sch.plan = NoPlan PROVE FreshOK'
        BY <3>1 DEF FreshOK
      <4>2. asked.pending
        <5>1. SUFFICES ASSUME ~asked.pending PROVE FALSE
          OBVIOUS
        <5>2. asked = sch /\ (Limited \/ now < sch.nextRequestAt)
          BY <2>2, <5>1
        <5>3. sch.nextRequestAt = 0 /\ executed = 0 /\ sch.sent = {}
          BY <2>1, <4>1, <5>1, <5>2 DEF FreshOK
        <5>4. now > 0
          BY StateTypes DEF SupplyInv, ClientOK
        <5> QED  BY <2>3, <5>2, <5>3, <5>4, FS_EmptySet DEF Limited, Committed
      <4> QED  BY <2>1, <3>1, <4>1, <4>2 DEF FreshOK
    <3>5. CoveredOK'
      <4>1. SUFFICES ASSUME sch.plan # NoPlan
                     PROVE  /\ End' \in sch'.queue \/ End' <= seen'.time
                            /\ sch'.pending => job'.time + PromptAnswer <= End'
                            /\ ~sch'.pending =>
                                 Limited' \/ Covers(End', sch'.nextRequestAt, PassTime')
        BY <3>1 DEF CoveredOK
      <4>2. End \in sch.queue \/ End <= seen.time
        BY <2>1, <4>1 DEF CoveredOK
      <4>3. asked.pending => j.time + PromptAnswer <= End
        BY <2>2, <4>1
      <4>4. ~asked.pending => asked = sch /\ (Limited \/ Covers(End, sch.nextRequestAt, p))
        BY <2>2, <4>1
      <4> HIDE DEF p
      <4> QED  BY <1>1, <3>1, <3>2, <3>3, <4>2, <4>3, <4>4
    <3>6. AskedOK'
      <4>1. phase' = "idle" => p # seen.time
        BY <2>3
      <4> HIDE DEF p
      <4> QED  BY <1>1, <2>2, <3>1, <3>2, <4>1 DEF AskedOK
    <3> QED  BY <1>1, <3>1, <3>4, <3>5, <3>6 DEF SupplyOK, NoStarvation, SupplyInv
  <2> QED  BY <2>6, <2>7, <2>8
<1> QED  BY <1>3, <1>4

LEMMA SupplyStep ==
  ASSUME Dt > 1, WindowCovers, SupplyInv, [Next]_vars
  PROVE  SupplyInv'
<1>1. ClientOK' /\ TimingOK'
  BY NextOK, TimingStep DEF SupplyInv
<1>2. SUFFICES SupplyOK' /\ NoStarvation'
  BY <1>1 DEF SupplyInv
<1>3. CASE Start
  BY <1>3, SupplyStart
<1>4. CASE Pause
  BY <1>4, SupplyPause
<1>5. CASE Observe
  BY <1>5, SupplyObserve
<1>6. CASE NoAnswer
  BY <1>6, SupplyNoAnswer
<1>7. CASE AnswerFails
  BY <1>7, SupplyAnswerFails
<1>8. CASE \E slope \in Slopes : Answer(slope)
  BY <1>8, SupplyAnswer
<1>9. CASE RequestAndPop
  BY <1>9, SupplyRequestAndPop
<1>10. CASE ExecActions
  BY <1>10, SupplyExecActions
<1>11. CASE \/ Tick \/ UNCHANGED vars
            \/ \E n \in Takes("arm") : DrainArm(n)
            \/ \E n \in Takes("grip") : DrainGrip(n)
  <2>1. /\ UNCHANGED <<nextPass, seen, sch, slow, executed, job>>
        /\ crashed => crashed'
        /\ phase' = phase \/ (phase = "popped" /\ phase' = "sending")
    <3>1. CASE Tick
      BY <3>1 DEF Tick
    <3>2. CASE UNCHANGED vars
      BY <3>2 DEF vars, pass
    <3>3. CASE \/ \E n \in Takes("arm") : DrainArm(n)
               \/ \E n \in Takes("grip") : DrainGrip(n)
      BY <3>3 DEF DrainArm, DrainGrip, pass
    <3> QED  BY <1>11, <3>1, <3>2, <3>3
  <2> QED  BY <2>1, SupplyUnmoved
<1> QED
  BY <1>3, <1>4, <1>5, <1>6, <1>7, <1>8, <1>9, <1>10, <1>11 DEF Next, Client

(* A round whose answers are all prompt never runs out of waypoints,       *)
(* whatever chunks the policy sends, however the limiter stretches them    *)
(* and however often they are cut to the window: the passes are aligned    *)
(* with the cycle of requests, and at each of them either what is queued   *)
(* lasts until the answer to a request made in some pass still to come, or *)
(* a request is open and it lasts until that one's answer                  *)
(* (author_sync.py:194-210,363,413-416, task487_client.py's control loop). *)
THEOREM NeverStarves ==
  ASSUME Dt > 1, WindowCovers
  PROVE  Spec => []NoStarvation
<1>1. Init => SupplyInv
  BY InitOK, SupplyInit DEF SupplyInv
<1>2. SupplyInv /\ [Next]_vars => SupplyInv'
  BY SupplyStep
<1>3. SupplyInv => NoStarvation
  BY DEF SupplyInv
<1> QED  BY <1>1, <1>2, <1>3, PTL DEF Spec
-----------------------------------------------------------------------------
(* What waits in a controller's queue was put there no longer than         *)
(* Transport ago, and ahead of its time by the slack of pop_batch, a target *)
(* period, and whatever the slowest device needs more than this one.       *)
InTimeOK ==
  \A d \in Devices :
    /\ putAt[d] \in Int
    /\ inbox[d] # <<>> =>
         /\ putAt[d] <= now /\ now <= putAt[d] + Transport
         /\ \A i \in 1..Len(inbox[d]) :
              putAt[d] + ExpirySlack + LatencyBudget + Dt <= inbox[d][i].time + Latency[d]

LatencyType ==
  \A d \in Devices : Latency[d] \in Nat /\ Latency[d] <= LatencyBudget

LEMMA LatencyTypeHolds == LatencyType
BY LatencyBudgetType, Constants DEF LatencyType, Latency, Devices

LEMMA TransportType == Transport \in Nat
BY AuthorSyncClientAssumption

LEMMA InboxType ==
  ASSUME ClientOK, NEW d \in Devices
  PROVE  /\ inbox[d] \in Seq(Orders) /\ Len(inbox[d]) \in Nat /\ now \in Int
         /\ \A i \in 1..Len(inbox[d]) : /\ inbox[d][i] \in Orders
                                        /\ inbox[d][i].time \in Int
                                        /\ inbox[d][i].boundary \in Nat
         /\ inbox[d] = <<>> => Len(inbox[d]) = 0
<1>1. inbox[d] \in Seq(Orders) /\ now \in Int
  BY StateTypes DEF ClientOK, StateOK
<1>2. Len(inbox[d]) \in Nat /\ \A i \in 1..Len(inbox[d]) : inbox[d][i] \in Orders
  BY <1>1, LenProperties
<1> QED  BY <1>1, <1>2, EmptySeq DEF Orders

(* What exec_actions adds to a queue.                                      *)
LEMMA WaypointsAre ==
  ASSUME ClientOK, batch # {}, ~BoundaryRejected, NEW d \in Devices,
         NEW w, w = Waypoints(d)
  PROVE  /\ Len(w) \in Nat
         /\ sch.plan \in Plans /\ sch.plan.from \in Int
         /\ now < sch.plan.from - LatencyBudget
         /\ \A i \in 1..Len(w) :
              /\ sch.plan.from + Dt <= w[i].time + Latency[d]
              /\ w[i].boundary = (IF i = 1 THEN sch.plan.from - Latency[d] ELSE NoBoundary)
<1> DEFINE n == Len(NewTimes)
           order(i) == [time |-> NewTimes[i] - Latency[d], pose |-> sch.plan[d][NewTimes[i]],
                        boundary |-> IF i = 1 THEN sch.plan.from - Latency[d] ELSE NoBoundary]
<1>1. /\ n \in Nat /\ sch.plan \in Plans /\ sch.plan.from \in Int
      /\ \A i \in 1..n : NewTimes[i] \in Int /\ sch.plan.from + Dt <= NewTimes[i]
  BY NewTimesType
<1>2. Latency[d] \in Nat /\ LatencyBudget \in Nat
  BY LatencyTypeHolds, LatencyBudgetType DEF LatencyType
<1>3. now < sch.plan.from - LatencyBudget
  BY <1>1, <1>2, StateTypes DEF ClientOK, BoundaryRejected
<1>4. w = [i \in 1..n |-> order(i)]
  BY DEF Waypoints
<1>5. w \in Seq(Orders)
  BY WaypointsType
<1> HIDE DEF n
<1>6. Len(w) = n
  BY <1>1, <1>4, <1>5, LenProperties
<1>7. \A i \in 1..n : w[i].time = NewTimes[i] - Latency[d]
                      /\ w[i].boundary = (IF i = 1 THEN sch.plan.from - Latency[d]
                                                   ELSE NoBoundary)
  BY <1>4
<1> QED  BY <1>1, <1>2, <1>3, <1>6, <1>7

(* Whatever changes the scheduler alone, or holds the arm.                 *)
LEMMA InTimeKept ==
  ASSUME ClientOK, InTimeOK, UNCHANGED <<now, putAt>>,
         inbox' = inbox \/ inbox' = [inbox EXCEPT !.arm = <<>>]
  PROVE  InTimeOK'
<1>1. ASSUME NEW d \in Devices
      PROVE  inbox'[d] = inbox[d] \/ inbox'[d] = <<>>
  BY <1>1 DEF ClientOK, StateOK, Devices
<1> QED  BY <1>1 DEF InTimeOK

LEMMA InTimeStep ==
  ASSUME ClientOK, InTimeOK, [Next]_vars
  PROVE  InTimeOK'
<1>0. ClientOK'
  BY NextOK
<1>1. CASE Tick
  <2>1. UNCHANGED <<inbox, putAt>> /\ now' = now + 1
        /\ \A d \in Devices : inbox[d] # <<>> => now < putAt[d] + Transport
    BY <1>1 DEF Tick, devices
  <2>2. now \in Int /\ Transport \in Nat
    BY StateTypes, TransportType DEF ClientOK
  <2> QED  BY <2>1, <2>2 DEF InTimeOK
<1>2. CASE Start \/ NoAnswer \/ UNCHANGED vars
  <2>1. UNCHANGED <<now, putAt, inbox>>
    BY <1>2 DEF Start, NoAnswer, vars, devices
  <2> QED  BY <2>1, InTimeKept
<1>3. CASE \/ Pause \/ Observe \/ AnswerFails \/ RequestAndPop
           \/ \E slope \in Slopes : Answer(slope)
  <2>1. now' = now /\ (UNCHANGED devices \/ \E s : Become(s))
    BY <1>3 DEF Pause, Observe, AnswerFails, RequestAndPop, Answer
  <2>2. /\ putAt' = putAt
        /\ inbox' = inbox \/ inbox' = [inbox EXCEPT !.arm = <<>>]
    BY <2>1 DEF Become, devices
  <2> QED  BY <2>1, <2>2, InTimeKept
<1>4. CASE ExecActions
  <2>1. CASE BoundaryRejected
    BY <1>4, <2>1, InTimeKept DEF ExecActions, devices
  <2>2. CASE ~BoundaryRejected
    <3>1. /\ inbox' = [d \in Devices |-> inbox[d] \o Waypoints(d)]
          /\ putAt' = [d \in Devices |-> IF inbox[d] = <<>> THEN now ELSE putAt[d]]
          /\ now' = now /\ phase \in {"popped", "sending"}
      BY <1>4, <2>2 DEF ExecActions
    <3>2. batch # {}
      BY <3>1 DEF ClientOK, BatchOK
    <3>3. SUFFICES ASSUME NEW d \in Devices
                   PROVE  /\ putAt'[d] \in Int
                          /\ putAt'[d] <= now /\ now <= putAt'[d] + Transport
                          /\ \A i \in 1..Len(inbox'[d]) :
                               putAt'[d] + ExpirySlack + LatencyBudget + Dt
                                 <= inbox'[d][i].time + Latency[d]
      BY <3>1 DEF InTimeOK
    <3> DEFINE w == Waypoints(d)
    <3>4. w \in Seq(Orders) /\ inbox[d] \in Seq(Orders)
      BY <2>2, <3>2, WaypointsType, InboxType
    <3>5. /\ Len(w) \in Nat /\ sch.plan.from \in Int
          /\ \A i \in 1..Len(w) : sch.plan.from + Dt <= w[i].time + Latency[d]
      BY <2>2, <3>2, WaypointsAre
    <3>6. sch.plan.from - LatencyBudget >= now + ExpirySlack
      BY <3>1, <3>5, StateTypes, LatencyBudgetType, Constants DEF ClientOK, BatchOK
    <3>7. /\ LatencyBudget \in Nat /\ ExpirySlack \in Nat /\ Transport \in Nat /\ now \in Int
          /\ Latency[d] \in Nat /\ Len(inbox[d]) \in Nat /\ putAt[d] \in Int
      BY LatencyBudgetType, Constants, TransportType, InboxType, LatencyTypeHolds
         DEF LatencyType, InTimeOK
    <3>8. putAt'[d] = IF inbox[d] = <<>> THEN now ELSE putAt[d]
      BY <3>1
    <3>9. /\ putAt'[d] \in Int /\ putAt'[d] <= now /\ now <= putAt'[d] + Transport
      BY <3>7, <3>8 DEF InTimeOK
    <3>10. \A i \in 1..Len(w) : /\ w[i].time \in Int
                                /\ putAt'[d] + ExpirySlack + LatencyBudget + Dt
                                     <= w[i].time + Latency[d]
      <4>1. \A i \in 1..Len(w) : w[i].time \in Int
        <5>1. \A i \in 1..Len(w) : w[i] \in Orders
          BY <3>4, LenProperties
        <5> QED  BY <5>1 DEF Orders
      <4> HIDE DEF w
      <4>2. ASSUME NEW i \in 1..Len(w), NEW tm \in Int, tm = w[i].time,
                   NEW put \in Int, put = putAt'[d]
            PROVE  put + ExpirySlack + LatencyBudget + Dt <= tm + Latency[d]
        <5>1. sch.plan.from + Dt <= tm + Latency[d]
          BY <3>5, <4>2
        <5>2. put <= now
          BY <3>9, <4>2
        <5> QED  BY <3>5, <3>6, <3>7, <5>1, <5>2, Constants
      <4> QED  BY <3>9, <4>1, <4>2
    <3>11. \A i \in 1..Len(inbox[d]) : putAt'[d] + ExpirySlack + LatencyBudget + Dt
                                         <= inbox[d][i].time + Latency[d]
      <4>1. CASE inbox[d] = <<>>
        BY <4>1, InboxType
      <4>2. CASE inbox[d] # <<>>
        BY <3>8, <4>2 DEF InTimeOK
      <4> QED  BY <4>1, <4>2
    <3>12. /\ Len(inbox'[d]) = Len(inbox[d]) + Len(w)
           /\ \A i \in 1..Len(inbox'[d]) :
                inbox'[d][i] = IF i <= Len(inbox[d]) THEN inbox[d][i]
                                                     ELSE w[i - Len(inbox[d])]
      <4>1. inbox'[d] = inbox[d] \o w
        BY <3>1
      <4> HIDE DEF w
      <4> QED  BY <3>4, <4>1, ConcatProperties
    <3> HIDE DEF w
    <3>13. ASSUME NEW i \in 1..Len(inbox'[d])
           PROVE  putAt'[d] + ExpirySlack + LatencyBudget + Dt <= inbox'[d][i].time + Latency[d]
      <4>1. CASE i <= Len(inbox[d])
        BY <3>7, <3>11, <3>12, <4>1
      <4>2. CASE ~(i <= Len(inbox[d]))
        <5>1. i - Len(inbox[d]) \in 1..Len(w)
          BY <3>5, <3>7, <3>12, <4>2
        <5> QED  BY <3>10, <3>12, <4>2, <5>1
      <4> QED  BY <4>1, <4>2
    <3> QED  BY <3>9, <3>13
  <2> QED  BY <2>1, <2>2
<1>5. ASSUME NEW e \in Devices, NEW n \in Takes(e), UNCHANGED <<now, putAt>>,
             inbox' = [inbox EXCEPT ![e] = SubSeq(@, n + 1, Len(@))]
      PROVE  InTimeOK'
  <2>1. ASSUME NEW d \in Devices, NEW i \in 1..Len(inbox'[d]), inbox'[d] # <<>>
        PROVE  /\ inbox[d] # <<>>
               /\ \E k \in 1..Len(inbox[d]) : inbox'[d][i] = inbox[d][k]
    <3>1. CASE d # e
      BY <1>5, <2>1, <3>1 DEF ClientOK, StateOK
    <3>2. CASE d = e
      <4>1. n \in 1..Len(inbox[d]) /\ inbox[d] # <<>>
        <5>1. Len(inbox[d]) \in Nat /\ inbox[d] \in Seq(Orders)
          BY InboxType
        <5>2. n \in {1, Len(inbox[d])} /\ inbox[d] # <<>>
          BY <1>5, <3>2 DEF Takes
        <5> QED  BY <5>1, <5>2, EmptySeq
      <4>2. /\ Len(inbox[d]) \in Nat
            /\ \A k \in n + 1..Len(inbox[d]) : inbox[d][k] \in Orders
        BY <4>1, InboxType
      <4>3. inbox'[d] = SubSeq(inbox[d], n + 1, Len(inbox[d]))
        BY <1>5, <3>2 DEF ClientOK, StateOK
      <4>4. /\ Len(inbox'[d]) = (IF n + 1 <= Len(inbox[d]) THEN Len(inbox[d]) - (n + 1) + 1
                                                           ELSE 0)
            /\ \A k \in 1..Len(inbox[d]) - (n + 1) + 1 : inbox'[d][k] = inbox[d][n + 1 + k - 1]
        BY <4>1, <4>2, <4>3, SubSeqProperties
      <4>5. i \in 1..Len(inbox[d]) - (n + 1) + 1 /\ n + 1 + i - 1 \in 1..Len(inbox[d])
        BY <2>1, <4>1, <4>2, <4>4
      <4> QED  BY <4>1, <4>4, <4>5
    <3> QED  BY <3>1, <3>2
  <2>2. ASSUME NEW d \in Devices, inbox'[d] # <<>>
        PROVE  Len(inbox'[d]) \in Nat /\ 1 \in 1..Len(inbox'[d])
    <3>1. inbox'[d] \in Seq(Orders)
      BY <1>0 DEF ClientOK, StateOK
    <3> QED  BY <2>2, <3>1, LenProperties, EmptySeq
  <2> QED  BY <1>5, <2>1, <2>2 DEF InTimeOK
<1>6. CASE \/ \E n \in Takes("arm") : DrainArm(n)
           \/ \E n \in Takes("grip") : DrainGrip(n)
  BY <1>5, <1>6 DEF DrainArm, DrainGrip, Devices
<1> QED
  BY <1>1, <1>2, <1>3, <1>4, <1>6 DEF Next, Client

LEMMA InTimeInit ==
  ASSUME Init
  PROVE  InTimeOK
BY DEF Init, InTimeOK
LEMMA WaitedInTime ==
  ASSUME NEW t \in Int, NEW tm \in Int, NEW put \in Int, NEW late \in Nat, NEW lead \in Nat,
         Transport \in Nat, ExpirySlack \in Nat, LatencyBudget \in Nat, Dt \in Nat,
         t <= put + Transport, put + ExpirySlack + LatencyBudget + Dt <= tm + late,
         Transport + lead + late < ExpirySlack + LatencyBudget + Dt
  PROVE  t + lead < tm
OBVIOUS

LEMMA TakenInTime ==
  ASSUME ClientOK, InTimeOK, NEW d \in Devices, NEW n \in Takes(d),
         NEW lead \in Nat, Transport + lead + Latency[d] < ExpirySlack + LatencyBudget + Dt,
         NEW i \in 1..n
  PROVE  /\ inbox[d][i] \in Orders
         /\ ~TooLate(inbox[d][i].time, now + lead)
<1>1. n \in 0..Len(inbox[d]) /\ inbox[d] # <<>>
  BY TakenType DEF Takes
<1>2. /\ Len(inbox[d]) \in Nat /\ now \in Int
      /\ \A k \in 1..Len(inbox[d]) : inbox[d][k] \in Orders /\ inbox[d][k].time \in Int
  BY InboxType
<1>3. i \in 1..Len(inbox[d])
  BY <1>1, <1>2
<1>4. /\ putAt[d] \in Int /\ now <= putAt[d] + Transport
      /\ putAt[d] + ExpirySlack + LatencyBudget + Dt <= inbox[d][i].time + Latency[d]
  BY <1>1, <1>3 DEF InTimeOK
<1>5. /\ LatencyBudget \in Nat /\ ExpirySlack \in Nat /\ Transport \in Nat
      /\ Latency[d] \in Nat
  BY LatencyBudgetType, Constants, TransportType, LatencyTypeHolds DEF LatencyType
<1>6. ASSUME NEW tm \in Int, tm = inbox[d][i].time
      PROVE  now + lead < tm
  <2>1. /\ putAt[d] + ExpirySlack + LatencyBudget + Dt <= tm + Latency[d]
        /\ putAt[d] \in Int /\ now <= putAt[d] + Transport
    BY <1>4, <1>6
  <2>2. ASSUME NEW put \in Int, put = putAt[d], NEW late \in Nat, late = Latency[d]
        PROVE  now + lead < tm
    <3>1. put + ExpirySlack + LatencyBudget + Dt <= tm + late /\ now <= put + Transport
      BY <2>1, <2>2
    <3>2. Transport + lead + late < ExpirySlack + LatencyBudget + Dt
      BY <2>2
    <3> QED  BY <1>2, <1>5, <1>6, <2>2, <3>1, <3>2, WaitedInTime, Constants
  <2> QED  BY <1>5, <2>1, <2>2
<1>7. inbox[d][i] \in Orders /\ inbox[d][i].time \in Int
  BY <1>2, <1>3
<1>8. ASSUME NEW tm \in Int, tm = inbox[d][i].time
      PROVE  ~TooLate(tm, now + lead)
  BY <1>2, <1>6, <1>8 DEF TooLate
<1> QED  BY <1>7, <1>8

(* A controller never finds a waypoint whose time is past, and so never    *)
(* drops one silently: the margin of pop_batch, the target period between  *)
(* the splice and the first waypoint, and what a device's latency falls    *)
(* short of the slowest one's outlast the queue and the controller's tick  *)
(* (author_sync.py:329-331,422-424, pose_trajectory_interpolator.py:       *)
(* 104-106).                                                               *)
WaypointsInTime ==
  [][/\ \A n \in Takes("arm") : DrainArm(n) =>
          \A i \in 1..n : ~TooLate(inbox.arm[i].time, Curr.arm)
     /\ \A n \in Takes("grip") : DrainGrip(n) =>
          \A i \in 1..n : ~TooLate(inbox.grip[i].time, Curr.grip)]_vars

THEOREM NoneDropped ==
  ASSUME Transport + ArmPeriod + RobotLatency < ExpirySlack + LatencyBudget + Dt,
         Transport + GripperLatency < ExpirySlack + LatencyBudget + Dt
  PROVE  Spec => WaypointsInTime
<1>1. Init => ClientOK /\ InTimeOK
  BY InitOK, InTimeInit
<1>2. (ClientOK /\ InTimeOK) /\ [Next]_vars => (ClientOK /\ InTimeOK)'
  BY NextOK, InTimeStep
<1>3. (ClientOK /\ InTimeOK) /\ [Next]_vars =>
        [/\ \A n \in Takes("arm") : DrainArm(n) =>
              \A i \in 1..n : ~TooLate(inbox.arm[i].time, Curr.arm)
         /\ \A n \in Takes("grip") : DrainGrip(n) =>
              \A i \in 1..n : ~TooLate(inbox.grip[i].time, Curr.grip)]_vars
  <2>1. ASSUME ClientOK, InTimeOK, NEW n \in Takes("arm"), NEW i \in 1..n
        PROVE  ~TooLate(inbox.arm[i].time, Curr.arm)
    <3>1. ArmPeriod \in Nat /\ "arm" \in Devices /\ Latency["arm"] = RobotLatency
      BY Constants DEF Devices, Latency
    <3>2. ~TooLate(inbox["arm"][i].time, now + ArmPeriod)
      BY <2>1, <3>1, TakenInTime
    <3> QED  BY <3>2 DEF Curr
  <2>2. ASSUME ClientOK, InTimeOK, NEW n \in Takes("grip"), NEW i \in 1..n
        PROVE  ~TooLate(inbox.grip[i].time, Curr.grip)
    <3>1. "grip" \in Devices /\ Latency["grip"] = GripperLatency /\ GripperLatency \in Nat
      BY Constants DEF Devices, Latency
    <3>2. Transport + 0 + Latency["grip"] < ExpirySlack + LatencyBudget + Dt
      BY <3>1, TransportType
    <3>3. ~TooLate(inbox["grip"][i].time, now + 0)
      BY <2>2, <3>1, <3>2, TakenInTime
    <3>4. now + 0 = now
      BY <2>2, StateTypes DEF ClientOK
    <3> QED  BY <3>3, <3>4 DEF Curr
  <2> QED  BY <2>1, <2>2
<1> QED  BY <1>1, <1>2, <1>3, PTL DEF Spec, WaypointsInTime

(* No waypoint a drain takes for the gripper detours.                      *)
NoDetour ==
  \A n \in Takes("grip") : DrainGrip(n) =>
    \A i \in 1..n : ~Detours(GripPaths(n)[i - 1].path, inbox.grip[i], now)

LEMMA DrainFollows ==
  ASSUME Transport + GripperLatency < ExpirySlack + LatencyBudget + Dt,
         ClientOK, InTimeOK, policy = path.grip,
         NEW n \in Takes("grip"), DrainGrip(n), NoDetour
  PROVE  policy' = path'.grip
<1> DEFINE after(k) == GripPaths(n)[k]
           R == {k \in 0..n : after(k).policy = after(k).path}
<1>1. n \in 0..Len(inbox.grip) /\ n \in Nat
  BY TakenType, InboxType DEF Devices
<1>2. now \in Int
  BY StateTypes DEF ClientOK
<1>3. /\ after(0) = [path |-> path.grip, policy |-> policy]
      /\ \A k \in 1..n : after(k) = GripAfter(after(k - 1), inbox.grip[k])
      /\ \A k \in 0..n : after(k) \in [path : Paths, policy : Paths]
  BY <1>1, <1>2, GripPathsType DEF ClientOK, StateOK
<1>4. ASSUME NEW i \in 1..n
      PROVE  /\ inbox.grip[i] \in Orders /\ ~TooLate(inbox.grip[i].time, now)
             /\ ~Detours(after(i - 1).path, inbox.grip[i], now)
  <2>1. "grip" \in Devices /\ Latency["grip"] = GripperLatency /\ GripperLatency \in Nat
    BY Constants DEF Devices, Latency
  <2>2. Transport + 0 + Latency["grip"] < ExpirySlack + LatencyBudget + Dt
    BY <2>1, TransportType
  <2>3. inbox["grip"][i] \in Orders /\ ~TooLate(inbox["grip"][i].time, now + 0)
    BY <1>4, <2>1, <2>2, TakenInTime
  <2>4. now + 0 = now
    BY <1>2
  <2> QED  BY <2>3, <2>4 DEF NoDetour
<1> HIDE DEF after
<1>5. 0 \in R
  BY <1>1, <1>3
<1>6. ASSUME NEW k \in 1..n, k - 1 \in R PROVE k \in R
  <2> DEFINE p == after(k - 1).path
             w == inbox.grip[k]
  <2>1. k - 1 \in 0..n /\ k \in 0..n
    BY <1>1
  <2>2. after(k - 1) = [path |-> p, policy |-> p] /\ p \in Paths
    BY <1>3, <1>6, <2>1
  <2>3. w \in Orders /\ ~TooLate(w.time, now) /\ ~Detours(p, w, now)
    BY <1>4
  <2>4. after(k) = GripAfter([path |-> p, policy |-> p], w)
    BY <1>3, <2>2
  <2> HIDE DEF p, w
  <2>5. GripAfter([path |-> p, policy |-> p], w).policy
          = GripAfter([path |-> p, policy |-> p], w).path
    BY <1>2, <2>2, <2>3, ReferenceFollows
  <2> QED  BY <2>1, <2>4, <2>5
<1>7. n \in R
  <2>1. \A k \in 0..n : k \in R
    <3> HIDE DEF R
    <3> QED  BY <1>1, <1>5, <1>6, UpTo
  <2> QED  BY <1>1, <2>1
<1>8. path' = [path EXCEPT !.grip = after(n).path] /\ policy' = after(n).policy
  BY DEF DrainGrip, after
<1>9. path'.grip = after(n).path
  BY <1>8 DEF ClientOK, StateOK, Devices
<1> QED  BY <1>7, <1>8, <1>9

LEMMA FollowStep ==
  ASSUME Transport + GripperLatency < ExpirySlack + LatencyBudget + Dt,
         ClientOK, InTimeOK, PolicyFollowsPhysical, [Next]_vars, NoDetour
  PROVE  PolicyFollowsPhysical'
<1>1. CASE \E n \in Takes("grip") : DrainGrip(n)
  BY <1>1, DrainFollows DEF PolicyFollowsPhysical
<1>2. ASSUME policy' = policy, path'.grip = path.grip
      PROVE  PolicyFollowsPhysical'
  BY <1>2 DEF PolicyFollowsPhysical
<1>3. CASE \E n \in Takes("arm") : DrainArm(n)
  BY <1>2, <1>3 DEF DrainArm, ClientOK, StateOK, Devices
<1>4. CASE UNCHANGED <<path, policy>>
  BY <1>2, <1>4
<1>5. CASE \E s : Become(s)
  BY <1>2, <1>4, <1>5 DEF Become, devices, ClientOK, StateOK, Devices
<1>6. CASE Client
  <2>1. UNCHANGED <<path, policy>> \/ \E s : Become(s)
    BY <1>6 DEF Client, Start, Pause, Observe, NoAnswer, Answer, AnswerFails, RequestAndPop,
                ExecActions, devices
  <2> QED  BY <1>4, <1>5, <2>1
<1>7. CASE Tick \/ UNCHANGED vars
  BY <1>4, <1>7 DEF Tick, vars, devices
<1> QED  BY <1>1, <1>3, <1>6, <1>7 DEF Next

(* The gripper's reading in policy coordinates stays the measured angle    *)
(* over the whole behaviour, whatever the queue waits and the policy asks, *)
(* while no waypoint detours: with the margins of NoneDropped the two      *)
(* paths, which every waypoint is put on separately, stay one              *)
(* (ros_gripper_controller.py:380-386,443-455).                            *)
THEOREM PolicyKeepsFollowing ==
  ASSUME Transport + GripperLatency < ExpirySlack + LatencyBudget + Dt
  PROVE  Spec /\ [][NoDetour]_vars => []PolicyFollowsPhysical
<1> DEFINE I == ClientOK /\ InTimeOK /\ PolicyFollowsPhysical
<1>1. Init => I
  <2>1. Init => policy = path.grip
    BY DEF Init, Devices
  <2> QED  BY <2>1, InitOK, InTimeInit DEF PolicyFollowsPhysical
<1>2. I /\ [Next]_vars /\ [NoDetour]_vars => I'
  <2>1. ASSUME I, [Next]_vars, NoDetour PROVE I'
    BY <2>1, NextOK, InTimeStep, FollowStep
  <2>2. ASSUME I, UNCHANGED vars PROVE I'
    BY <2>2, NextOK, InTimeStep DEF PolicyFollowsPhysical, vars, devices
  <2> QED  BY <2>1, <2>2
<1>3. I => PolicyFollowsPhysical
  OBVIOUS
<1> QED  BY <1>1, <1>2, <1>3, PTL DEF Spec
-----------------------------------------------------------------------------
(* Between two neighbouring knots the path is a straight line, rounded     *)
(* down.                                                                   *)
Part(rise, duration, elapsed) == (rise * elapsed) \div duration
OnLine(from, to, duration, elapsed) == from + Part(to - from, duration, elapsed)

Neighbours(p, a, b) ==
  /\ a \in DOMAIN p /\ b \in DOMAIN p /\ a < b
  /\ \A u \in DOMAIN p : u <= a \/ b <= u

LEMMA AtBetween ==
  ASSUME NEW p, IsPath(p), NEW a, NEW b, Neighbours(p, a, b), NEW t \in Int, a < t, t < b
  PROVE  At(p, t) = OnLine(p[a], p[b], b - a, t - a)
<1>1. DOMAIN p \in SUBSET Int /\ a \in DOMAIN p /\ b \in DOMAIN p
  BY DEF IsPath, Neighbours
<1>2. First(p) <= a /\ b <= Final(p) /\ First(p) \in Int /\ Final(p) \in Int
  BY <1>1, PathEnds
<1>3. t \notin DOMAIN p /\ ~(t < First(p)) /\ ~(t > Final(p))
  BY <1>1, <1>2 DEF Neighbours
<1>4. Before(p, t) = a
  <2>1. a < t /\ \A w \in DOMAIN p : w < t => w <= a
    BY <1>1 DEF Neighbours
  <2>2. ASSUME NEW u \in DOMAIN p, u < t, \A w \in DOMAIN p : w < t => w <= u
        PROVE  u = a
    BY <1>1, <2>1, <2>2
  <2> QED  BY <1>1, <2>1, <2>2 DEF Before
<1>5. After(p, t) = b
  <2>1. t < b /\ \A w \in DOMAIN p : t < w => b <= w
    BY <1>1 DEF Neighbours
  <2>2. ASSUME NEW u \in DOMAIN p, t < u, \A w \in DOMAIN p : t < w => u <= w
        PROVE  u = b
    BY <1>1, <2>1, <2>2
  <2> QED  BY <1>1, <2>1, <2>2 DEF After
<1> QED  BY <1>3, <1>4, <1>5 DEF At, OnLine, Part

LEMMA NeighboursExist ==
  ASSUME NEW p, IsPath(p), NEW t \in Int, t \notin DOMAIN p,
         NEW c \in DOMAIN p, c < t, NEW e \in DOMAIN p, t < e
  PROVE  \E a \in DOMAIN p, b \in DOMAIN p :
           Neighbours(p, a, b) /\ a < t /\ t < b /\ c <= a /\ b <= e
<1>1. HasBefore(p, t) /\ HasAfter(p, t) /\ DOMAIN p \in SUBSET Int
  BY DEF IsPath
<1>2. PICK a \in DOMAIN p : a < t /\ \A w \in DOMAIN p : w < t => w <= a
  BY <1>1 DEF HasBefore
<1>3. PICK b \in DOMAIN p : t < b /\ \A w \in DOMAIN p : t < w => b <= w
  BY <1>1 DEF HasAfter
<1>4. \A u \in DOMAIN p : u <= a \/ b <= u
  BY <1>1, <1>2, <1>3
<1>5. a < b /\ c <= a /\ b <= e
  BY <1>1, <1>2, <1>3
<1> QED  BY <1>2, <1>3, <1>4, <1>5 DEF Neighbours

(* Two paths with the same knots from u to v play the same there.          *)
Agree(p, q, u, v) ==
  /\ u \in DOMAIN p /\ v \in DOMAIN p
  /\ \A t \in Int : u <= t /\ t <= v =>
       /\ t \in DOMAIN p <=> t \in DOMAIN q
       /\ t \in DOMAIN p => p[t] = q[t]

LEMMA AgreeBetween ==
  ASSUME NEW p, IsPath(p), NEW q, IsPath(q), NEW u \in Int, NEW v \in Int, Agree(p, q, u, v),
         NEW t \in Int, u <= t, t <= v
  PROVE  At(p, t) = At(q, t)
<1>1. CASE t \in DOMAIN p
  BY <1>1, AtKnot DEF Agree
<1>2. CASE t \notin DOMAIN p
  <2>1. u \in DOMAIN p /\ v \in DOMAIN p /\ u < t /\ t < v
    BY <1>2 DEF Agree
  <2>2. PICK a \in DOMAIN p, b \in DOMAIN p :
          Neighbours(p, a, b) /\ a < t /\ t < b /\ u <= a /\ b <= v
    BY <1>2, <2>1, NeighboursExist
  <2>3. DOMAIN p \in SUBSET Int /\ DOMAIN q \in SUBSET Int
    BY DEF IsPath
  <2>4. a \in Int /\ b \in Int /\ a <= v /\ u <= b
    BY <2>2, <2>3
  <2>5. a \in DOMAIN q /\ b \in DOMAIN q /\ p[a] = q[a] /\ p[b] = q[b]
    BY <2>2, <2>4 DEF Agree
  <2>6. \A w \in DOMAIN q : w <= a \/ b <= w
    <3>1. ASSUME NEW w \in DOMAIN q, ~(w <= a), ~(b <= w) PROVE FALSE
      <4>1. w \in Int /\ u <= w /\ w <= v
        BY <2>2, <2>3, <2>4, <3>1
      <4>2. w \in DOMAIN p
        BY <4>1 DEF Agree
      <4> QED  BY <2>2, <3>1, <4>2 DEF Neighbours
    <3> QED  BY <3>1
  <2>7. Neighbours(q, a, b)
    BY <2>2, <2>5, <2>6 DEF Neighbours
  <2>8. At(p, t) = OnLine(p[a], p[b], b - a, t - a)
    BY <2>2, AtBetween
  <2>9. At(q, t) = OnLine(q[a], q[b], b - a, t - a)
    BY <2>2, <2>7, AtBetween
  <2> QED  BY <2>5, <2>8, <2>9
<1> QED  BY <1>1, <1>2

(* Cutting where there is a knot already changes nothing before it, and    *)
(* neither does adding a knot behind.                                      *)
LEMMA TrimAgrees ==
  ASSUME NEW p, IsPath(p), NEW c \in DOMAIN p, NEW cut \in DOMAIN p, NEW e \in Int,
         c <= cut, cut <= e
  PROVE  Agree(Trim(p, c, e), p, c, cut)
<1> DEFINE kept == Trim(p, c, e)
<1>1. DOMAIN p \in SUBSET Int
  BY DEF IsPath
<1>2. DOMAIN kept = {c, e} \union {u \in DOMAIN p : c < u /\ u < e}
  BY DEF Trim
<1>3. \A t \in DOMAIN kept : kept[t] = At(p, t)
  BY DEF Trim
<1> HIDE DEF kept
<1>4. c \in DOMAIN kept /\ cut \in DOMAIN kept
  BY <1>1, <1>2
<1>5. \A t \in Int : c <= t /\ t <= cut => (t \in DOMAIN kept <=> t \in DOMAIN p)
  BY <1>1, <1>2
<1>6. \A t \in DOMAIN kept : t \in DOMAIN p => kept[t] = p[t]
  BY <1>3, AtKnot
<1> QED  BY <1>4, <1>5, <1>6 DEF Agree, kept

LEMMA ExtendAgrees ==
  ASSUME NEW p, IsPath(p), NEW c \in DOMAIN p, NEW e \in DOMAIN p, NEW t \in Int, NEW pose,
         e < t
  PROVE  Agree(p, Extend(p, t, pose), c, e)
<1>1. DOMAIN Extend(p, t, pose) = DOMAIN p \union {t} /\ e \in Int
      /\ \A u \in DOMAIN p : u # t => Extend(p, t, pose)[u] = p[u]
  BY DEF Extend, IsPath
<1> QED  BY <1>1 DEF Agree

(* Rounding the ends of a piece of a line, and then the piece, loses at    *)
(* most one unit against rounding the line.                                *)
LEMMA Multiply ==
  ASSUME NEW a \in Int, NEW b \in Int, a <= b, NEW c \in Nat
  PROVE  a * c <= b * c
OBVIOUS

LEMMA Swap ==
  ASSUME NEW a \in Int, NEW b \in Int, NEW c \in Int
  PROVE  (a * b) * c = (a * c) * b /\ (a * c) * b \in Int
OBVIOUS

LEMMA DivBounds ==
  ASSUME NEW a \in Int, NEW b \in Nat \ {0}
  PROVE  /\ a \div b \in Int
         /\ b * (a \div b) <= a /\ a < b * (a \div b) + b
OBVIOUS

LEMMA RoundTwice ==
  ASSUME NEW D \in Int, NEW L \in Nat \ {0}, NEW al \in Int, NEW be \in Int, NEW ta \in Int,
         al < ta, ta < be,
         NEW A, A = Part(D, L, al), NEW B, B = Part(D, L, be), NEW T, T = Part(D, L, ta),
         NEW Y, Y = Part(B - A, be - al, ta - al)
  PROVE  A \in Int /\ B \in Int /\ T \in Int /\ Y \in Int /\ T - 1 <= A + Y /\ A + Y <= T
<1> DEFINE m == ta - al
           M == be - al
           n == M - m
<1>1. m \in Nat \ {0} /\ M \in Nat \ {0} /\ n \in Nat \ {0} /\ M = m + n
  OBVIOUS
<1>2. /\ D * al \in Int /\ D * be \in Int /\ D * ta \in Int
  OBVIOUS
<1>3. /\ A \in Int /\ L * A <= D * al /\ D * al < L * A + L
      /\ B \in Int /\ L * B <= D * be /\ D * be < L * B + L
      /\ T \in Int /\ L * T <= D * ta /\ D * ta < L * T + L
  BY <1>2, DivBounds DEF Part
<1>4. (B - A) * m \in Int
  BY <1>1, <1>3
<1>5. Y \in Int /\ M * Y <= (B - A) * m /\ (B - A) * m < M * Y + M
  BY <1>1, <1>4, DivBounds DEF Part
<1> HIDE DEF m, M, n
<1>6. al * n + be * m = M * ta
  <2>1. al * n + be * m = (be - al) * ta
    BY DEF m, M, n
  <2> QED  BY <2>1 DEF M
<1> DEFINE LA == L * A
           LB == L * B
           LT == L * T
           Da == D * al
           Db == D * be
           Dta == D * ta
           low == LA * n + LB * m
<1>7. Da * n + Db * m = M * Dta
  <2>1. Da * n + Db * m = D * (al * n + be * m)
    BY <1>1
  <2>2. D * (M * ta) = M * Dta
    BY <1>1
  <2> QED  BY <1>6, <2>1, <2>2
<1>8. low = L * (M * A + (B - A) * m)
  <2>1. low = L * (A * n + B * m)
    BY <1>1, <1>3
  <2>2. A * n = A * M - A * m
    BY <1>1, <1>3
  <2>3. A * n + B * m = M * A + (B - A) * m
    <3>1. (B - A) * m = B * m - A * m /\ A * M = M * A
          /\ A * n \in Int /\ B * m \in Int /\ A * m \in Int /\ M * A \in Int
      BY <1>1, <1>3
    <3> QED  BY <2>2, <3>1
  <2> QED  BY <2>1, <2>3
<1>9. /\ LA \in Int /\ LB \in Int /\ LT \in Int /\ Da \in Int /\ Db \in Int /\ Dta \in Int
      /\ LA <= Da /\ Da <= LA + L /\ LB <= Db /\ Db <= LB + L
      /\ LT <= Dta /\ Dta < LT + L
  BY <1>2, <1>3
<1> HIDE DEF LA, LB, LT, Da, Db, Dta
<1>12. /\ low \in Int /\ M * Dta \in Int /\ L * M \in Nat
       /\ LA * n \in Int /\ LB * m \in Int /\ Da * n \in Int /\ Db * m \in Int
  BY <1>1, <1>9
<1>13. low <= M * Dta
  <2>1. LA * n <= Da * n /\ LB * m <= Db * m
    BY <1>1, <1>9, Multiply
  <2> QED  BY <1>7, <1>12, <2>1
<1>14. M * Dta <= low + L * M
  <2>1. Da * n <= (LA + L) * n /\ Db * m <= (LB + L) * m
    BY <1>1, <1>9, Multiply
  <2>2. (LA + L) * n = LA * n + L * n /\ (LB + L) * m = LB * m + L * m
        /\ L * M = L * n + L * m /\ L * n \in Int /\ L * m \in Int
    BY <1>1, <1>9
  <2> QED  BY <1>7, <1>12, <2>1, <2>2
<1> DEFINE S == M * A + (B - A) * m
<1>15. S \in Int /\ M * (A + Y) <= S /\ S < M * (A + Y) + M /\ A + Y \in Int
       /\ M * (A + Y) \in Int
  BY <1>1, <1>3, <1>5
<1>16. low = L * S
  BY <1>8
<1> HIDE DEF S, low
<1>10. A + Y <= T
  <2>1. (M * (A + Y)) * L <= S * L
    BY <1>15, Multiply
  <2>2. L * S = S * L /\ (M * (A + Y)) * L = (L * M) * (A + Y)
    BY <1>1, <1>15
  <2>3. (L * M) * (A + Y) <= M * Dta
    BY <1>12, <1>13, <1>15, <1>16, <2>1, <2>2
  <2>4. M * Dta < M * (LT + L)
    BY <1>1, <1>9
  <2>5. M * (LT + L) = (L * M) * (T + 1)
    BY <1>1, <1>3 DEF LT
  <2>6. CASE T + 1 <= A + Y
    <3>1. (T + 1) * (L * M) <= (A + Y) * (L * M)
      BY <1>3, <1>12, <1>15, <2>6, Multiply
    <3>2. (T + 1) * (L * M) = (L * M) * (T + 1) /\ (A + Y) * (L * M) = (L * M) * (A + Y)
          /\ (L * M) * (T + 1) \in Int /\ (L * M) * (A + Y) \in Int
      BY <1>3, <1>12, <1>15
    <3> QED  BY <1>12, <2>3, <2>4, <2>5, <3>1, <3>2
  <2> QED  BY <1>3, <1>5, <2>6
<1>11. T - 1 <= A + Y
  <2>1. L * S < L * (M * (A + Y) + M)
    BY <1>1, <1>15
  <2>2. L * (M * (A + Y) + M) + L * M = (L * M) * (A + Y + 2)
        /\ L * (M * (A + Y) + M) \in Int /\ L * S \in Int
    BY <1>1, <1>15
  <2>3. LT * M <= Dta * M
    BY <1>1, <1>9, Multiply
  <2>4. LT * M = (L * M) * T /\ Dta * M = M * Dta /\ (L * M) * T \in Int
        /\ (L * M) * (A + Y + 2) \in Int
    <3>1. LT * M = (L * M) * T /\ (L * M) * T \in Int
      <4>1. L \in Int /\ M \in Int /\ T \in Int
        BY <1>1, <1>3
      <4> QED  BY <4>1, Swap DEF LT
    <3>2. Dta * M = M * Dta
      BY <1>1, <1>9
    <3>3. (L * M) * (A + Y + 2) \in Int
      BY <1>12, <1>15
    <3> QED  BY <3>1, <3>2, <3>3
  <2>5. (L * M) * T < (L * M) * (A + Y + 2)
    BY <1>12, <1>14, <1>16, <2>1, <2>2, <2>3, <2>4
  <2>6. CASE A + Y + 2 <= T
    <3>1. (A + Y + 2) * (L * M) <= T * (L * M)
      BY <1>3, <1>12, <1>15, <2>6, Multiply
    <3>2. (A + Y + 2) * (L * M) = (L * M) * (A + Y + 2) /\ T * (L * M) = (L * M) * T
      BY <1>3, <1>12, <1>15
    <3> QED  BY <2>4, <2>5, <3>1, <3>2
  <2> QED  BY <1>3, <1>5, <2>6
<1> QED  BY <1>3, <1>5, <1>10, <1>11

LEMMA OnLineEnds ==
  ASSUME NEW x \in Int, NEW y \in Int, NEW d \in Nat \ {0}
  PROVE  OnLine(x, y, d, 0) = x /\ OnLine(x, y, d, d) = y
<1>1. ASSUME NEW k \in Int PROVE (k * 0) \div d = 0 /\ (k * d) \div d = k
  <2>1. k * 0 = 0 /\ 0 \div d = 0
    BY <1>1
  <2>2. k * d \in Int /\ (k * d) \div d \in Int
        /\ d * ((k * d) \div d) <= k * d /\ k * d < d * ((k * d) \div d) + d
    BY <1>1, DivBounds
  <2> DEFINE q == (k * d) \div d
  <2>3. q \in Int /\ d * q <= d * k /\ d * k < d * (q + 1)
    BY <1>1, <2>2
  <2> HIDE DEF q
  <2>4. CASE q > k
    <3>1. (k + 1) * d <= q * d
      BY <1>1, <2>3, <2>4, Multiply
    <3> QED  BY <1>1, <2>3, <3>1
  <2>5. CASE q < k
    <3>1. (q + 1) * d <= k * d
      BY <1>1, <2>3, <2>5, Multiply
    <3> QED  BY <1>1, <2>3, <3>1
  <2>6. q = k
    BY <1>1, <2>3, <2>4, <2>5
  <2> QED  BY <2>1, <2>6 DEF q
<1>2. y - x \in Int
  OBVIOUS
<1> QED  BY <1>1, <1>2 DEF OnLine, Part

LEMMA AtEnds ==
  ASSUME NEW p, IsPath(p), NEW a, NEW b, Neighbours(p, a, b), NEW t \in Int, a <= t, t <= b
  PROVE  At(p, t) = OnLine(p[a], p[b], b - a, t - a)
<1>1. /\ a \in Int /\ b \in Int /\ p[a] \in Int /\ p[b] \in Int /\ b - a \in Nat \ {0}
      /\ a \in DOMAIN p /\ b \in DOMAIN p
  BY DEF IsPath, Neighbours
<1>2. CASE t = a
  BY <1>1, <1>2, AtKnot, OnLineEnds
<1>3. CASE t = b
  BY <1>1, <1>3, AtKnot, OnLineEnds
<1>4. CASE a < t /\ t < b
  BY <1>4, AtBetween
<1> QED  BY <1>1, <1>2, <1>3, <1>4

LEMMA AtBehind ==
  ASSUME NEW p, IsPath(p), NEW t \in Int, Final(p) <= t
  PROVE  At(p, t) = p[Final(p)]
<1>1. /\ Final(p) \in DOMAIN p /\ Final(p) \in Int /\ First(p) \in Int
      /\ First(p) <= Final(p) /\ \A u \in DOMAIN p : u <= Final(p)
  BY PathEnds
<1>2. CASE t = Final(p)
  BY <1>1, <1>2, AtKnot
<1>3. CASE t # Final(p)
  <2>1. t \notin DOMAIN p /\ ~(t < First(p)) /\ t > Final(p)
    BY <1>1, <1>3
  <2> QED  BY <2>1 DEF At
<1> QED  BY <1>2, <1>3

LEMMA DistanceSelf ==
  ASSUME NEW a \in Int
  PROVE  Distance(a, a) = 0
BY DEF Distance

(* Cutting a path moves it by at most one unit between the cuts.           *)
LEMMA TrimRounds ==
  ASSUME NEW p, IsPath(p), NEW c \in Int, NEW e \in Int, First(p) <= c, c <= e,
         NEW t \in Int, c <= t, t <= e
  PROVE  Distance(At(Trim(p, c, e), t), At(p, t)) <= 1
<1> DEFINE X == Trim(p, c, e)
<1>1. IsPath(X)
  BY TrimIsPath
<1>2. /\ c \in DOMAIN X /\ e \in DOMAIN X /\ \A u \in DOMAIN X : X[u] = At(p, u)
      /\ \A u \in DOMAIN p : c < u /\ u < e => u \in DOMAIN X
  BY TrimKeeps DEF IsPath
<1>3. At(p, t) \in Int
  BY AtInt
<1> HIDE DEF X
<1>4. CASE t \in DOMAIN X
  <2>1. At(X, t) = At(p, t)
    BY <1>2, <1>4, AtKnot
  <2>2. Distance(At(X, t), At(p, t)) = 0
    BY <1>3, <2>1, DistanceSelf
  <2> QED  BY <2>2 DEF X
<1>5. CASE t \notin DOMAIN X
  <2>1. c < t /\ t < e /\ t \notin DOMAIN p
    BY <1>2, <1>5
  <2>2. PICK a \in DOMAIN X, b \in DOMAIN X :
          Neighbours(X, a, b) /\ a < t /\ t < b /\ c <= a /\ b <= e
    BY <1>1, <1>2, <1>5, <2>1, NeighboursExist
  <2>3. a \in Int /\ b \in Int /\ X[a] = At(p, a) /\ X[b] = At(p, b)
    BY <1>1, <1>2 DEF IsPath
  <2>4. At(X, t) = OnLine(At(p, a), At(p, b), b - a, t - a)
    BY <1>1, <2>2, <2>3, AtBetween
  <2>5. At(p, a) \in Int /\ At(p, b) \in Int
    BY <2>3, AtInt
  <2>6. /\ First(p) \in DOMAIN p /\ Final(p) \in DOMAIN p
        /\ First(p) \in Int /\ Final(p) \in Int /\ DOMAIN p \in SUBSET Int
    BY PathEnds DEF IsPath
  <2>7. \A u \in DOMAIN p : c < u /\ u < e => u <= a \/ b <= u
    BY <1>2, <2>2 DEF Neighbours
  <2>8. CASE Final(p) < t
    <3>1. Final(p) <= a /\ Final(p) <= b /\ Final(p) <= t
      BY <2>1, <2>2, <2>3, <2>6, <2>7, <2>8
    <3>2. At(p, a) = p[Final(p)] /\ At(p, b) = p[Final(p)] /\ At(p, t) = p[Final(p)]
      BY <2>3, <3>1, AtBehind
    <3>3. OnLine(At(p, a), At(p, a), b - a, t - a) = At(p, a)
      <4>1. Part(At(p, a) - At(p, a), b - a, t - a) = 0
        <5>1. (At(p, a) - At(p, a)) * (t - a) = 0
          BY <2>3, <2>5
        <5>2. b - a \in Nat \ {0}
          BY <2>2, <2>3
        <5>3. 0 \div (b - a) = 0
          BY <5>2
        <5> QED  BY <5>1, <5>3 DEF Part
      <4> QED  BY <2>5, <4>1 DEF OnLine
    <3>4. At(X, t) = At(p, t)
      BY <2>4, <3>2, <3>3
    <3>5. Distance(At(X, t), At(p, t)) = 0
      BY <1>3, <3>4, DistanceSelf
    <3> QED  BY <3>5 DEF X
  <2>9. CASE ~(Final(p) < t)
    <3>1. First(p) < t /\ t < Final(p)
      BY <2>1, <2>6, <2>9
    <3>2. PICK a0 \in DOMAIN p, b0 \in DOMAIN p :
            Neighbours(p, a0, b0) /\ a0 < t /\ t < b0
      BY <2>1, <2>6, <3>1, NeighboursExist
    <3>3. /\ a0 \in Int /\ b0 \in Int /\ p[a0] \in Int /\ p[b0] \in Int
      BY DEF IsPath
    <3>4. a0 <= a /\ b <= b0
      BY <2>1, <2>2, <2>3, <2>7, <3>2, <3>3
    <3> DEFINE D == p[b0] - p[a0]
               L == b0 - a0
               A == Part(D, L, a - a0)
               B == Part(D, L, b - a0)
               T == Part(D, L, t - a0)
               Y == Part(B - A, b - a, t - a)
    <3>5. At(p, a) = p[a0] + A /\ At(p, b) = p[a0] + B /\ At(p, t) = p[a0] + T
      <4>1. /\ a0 <= a /\ a <= b0 /\ a0 <= b /\ b <= b0 /\ a0 <= t /\ t <= b0
        BY <2>2, <2>3, <3>2, <3>3, <3>4
      <4>2. /\ At(p, a) = OnLine(p[a0], p[b0], b0 - a0, a - a0)
            /\ At(p, b) = OnLine(p[a0], p[b0], b0 - a0, b - a0)
            /\ At(p, t) = OnLine(p[a0], p[b0], b0 - a0, t - a0)
        BY <2>3, <3>2, <4>1, AtEnds
      <4> QED  BY <4>2 DEF OnLine
    <3>6. A \in Int /\ B \in Int /\ T \in Int /\ Y \in Int /\ T - 1 <= A + Y /\ A + Y <= T
      <4> DEFINE al == a - a0
                 be == b - a0
                 ta == t - a0
      <4>1. /\ D \in Int /\ L \in Nat \ {0} /\ al \in Int /\ be \in Int /\ ta \in Int
            /\ al < ta /\ ta < be
        BY <2>2, <2>3, <3>2, <3>3
      <4>2. A = Part(D, L, al) /\ B = Part(D, L, be) /\ T = Part(D, L, ta)
        OBVIOUS
      <4>3. Y = Part(B - A, be - al, ta - al)
        <5>1. ta - al = t - a /\ be - al = b - a
          BY <2>3, <3>3
        <5> QED  BY <5>1
      <4> HIDE DEF D, L, al, be, ta, A, B, T, Y
      <4> QED  BY <4>1, <4>2, <4>3, RoundTwice
    <3>7. At(X, t) = p[a0] + A + Y
      <4> HIDE DEF A, B
      <4>1. (p[a0] + B) - (p[a0] + A) = B - A
        BY <3>3, <3>6
      <4> QED  BY <2>4, <3>5, <4>1 DEF OnLine
    <3> HIDE DEF A, B, T, Y
    <3>8. Distance(p[a0] + A + Y, p[a0] + T) <= 1
      BY <3>3, <3>6 DEF Distance
    <3> QED  BY <3>5, <3>7, <3>8 DEF X
  <2> QED  BY <2>8, <2>9
<1> QED  BY <1>4, <1>5

-----------------------------------------------------------------------------
(* A waypoint cuts the path where the controller is, and is put behind.    *)
LEMMA WaypointShape ==
  ASSUME NEW p, IsPath(p), NEW pose \in Int, NEW time \in Int, NEW curr \in Int,
         NEW lastWp \in Int, NEW boundary \in Nat, NEW speed \in Nat,
         ~TooLate(time, curr), ~BoundaryInvalid(time, curr, boundary),
         First(p) <= curr,
         NEW end, end = EndTime(time, curr, LastBefore(lastWp, curr, boundary)),
         NEW old, old = KeptPath(p, curr, boundary),
         NEW new, new = ScheduleWaypoint(p, pose, time, curr, lastWp, boundary, speed)
  PROVE  /\ end \in Int /\ curr <= end /\ end < time
         /\ IsPath(old)
         /\ \E reach \in Int : end < reach /\ new = Extend(Trim(old, curr, end), reach, pose)
<1> DEFINE last  == LastBefore(lastWp, curr, boundary)
           start == StartTime(First(old), curr, end)
           kept  == Trim(old, start, end)
           reach == ReachTime(time, end, kept[end], pose, speed)
<1>1. last \in Int /\ curr < time
  BY DEF LastBefore, Max2, TooLate
<1>2. end \in Int /\ curr <= end /\ end < time
  <2> HIDE DEF last
  <2>1. end = EndTime(time, curr, last)
    BY DEF last
  <2> QED  BY <1>1, <2>1 DEF EndTime, Min2, Max2
<1>3. IsPath(old) /\ First(old) <= curr /\ First(old) \in Int
  <2>1. CASE boundary = NoBoundary
    BY <2>1, PathEnds DEF KeptPath
  <2>2. CASE boundary # NoBoundary
    <3>1. Max2(boundary, curr) \in Int /\ curr <= Max2(boundary, curr)
      BY DEF Max2
    <3>2. old = Trim(p, curr, Max2(boundary, curr))
      BY <2>2 DEF KeptPath
    <3> DEFINE till == Max2(boundary, curr)
    <3>3. DOMAIN p \in SUBSET Int /\ till \in Int /\ curr <= till /\ old = Trim(p, curr, till)
      BY <3>1, <3>2 DEF IsPath
    <3> HIDE DEF till
    <3>4. IsPath(old) /\ First(old) = curr
      BY <3>3, TrimIsPath, TrimKeeps
    <3> QED  BY <3>4
  <2> QED  BY <2>1, <2>2
<1>4. start = curr
  BY <1>2, <1>3 DEF StartTime, Min2, Max2
<1>5. IsPath(kept) /\ end \in DOMAIN kept
  <2>1. kept = Trim(old, curr, end) /\ DOMAIN old \in SUBSET Int
    BY <1>3, <1>4 DEF IsPath
  <2> HIDE DEF kept
  <2> QED  BY <1>2, <1>3, <2>1, TrimIsPath, TrimKeeps
<1>6. reach \in Int /\ end < reach
  <2> HIDE DEF kept
  <2>1. kept[end] \in Int
    BY <1>5 DEF IsPath
  <2>2. Distance(kept[end], pose) \in Nat
    BY <2>1, DistanceType
  <2>3. Needed(Distance(kept[end], pose), speed) \in Nat
    BY <2>2, CeilBounds DEF Needed, Unlimited
  <2> QED  BY <1>2, <2>3 DEF ReachTime, Max2
<1>7. new = Extend(kept, reach, pose)
  BY DEF ScheduleWaypoint
<1>8. kept = Trim(old, curr, end)
  BY <1>4
<1> HIDE DEF kept, reach, start
<1> QED  BY <1>2, <1>3, <1>6, <1>7, <1>8

LEMMA FirstKept ==
  ASSUME NEW p \in Paths, NEW w \in Orders, NEW curr \in Int, NEW speed \in Nat,
         First(p) <= curr
  PROVE  First(Schedule(p, w, curr, speed)) <= curr
<1> DEFINE new == Schedule(p, w, curr, speed)
           pose == w.pose
           time == w.time
           boundary == w.boundary
           last == Final(p)
           end == EndTime(time, curr, LastBefore(last, curr, boundary))
<1>1. CASE TooLate(time, curr)
  BY <1>1 DEF Schedule, ScheduleWaypoint
<1>2. CASE ~TooLate(time, curr)
  <2>1. /\ IsPath(p) /\ pose \in Int /\ time \in Int /\ boundary \in Nat /\ last \in Int
        /\ ~BoundaryInvalid(time, curr, boundary)
    BY FinalType, PathsArePaths, OrderIsValid DEF Orders
  <2>2. new = ScheduleWaypoint(p, pose, time, curr, last, boundary, speed)
    BY DEF Schedule
  <2>3. IsPath(new)
    BY ScheduleType, PathsArePaths
  <2> DEFINE old == KeptPath(p, curr, boundary)
  <2>4. \E reach \in Int :
          /\ curr <= end /\ end \in Int
          /\ new = Extend(Trim(old, curr, end), reach, pose)
    <3>1. /\ end = EndTime(time, curr, LastBefore(last, curr, boundary))
          /\ old = KeptPath(p, curr, boundary)
      OBVIOUS
    <3> HIDE DEF new, pose, time, boundary, last, end, old
    <3> QED  BY <1>2, <2>1, <2>2, <3>1, WaypointShape
  <2> HIDE DEF new, old, end
  <2>5. curr \in DOMAIN new
    BY <2>4 DEF Extend, Trim
  <2>6. First(new) <= curr
    BY <2>3, <2>5, PathEnds
  <2> QED  BY <2>6 DEF new
<1> QED  BY <1>1, <1>2

(* Where a waypoint in its turn cuts the path, and what it keeps: all      *)
(* knots from the controller's time to the cut, and the setpoint between   *)
(* them.                                                                   *)
CutTime(p, w, curr) == Max2(IF w.boundary = NoBoundary THEN Final(p) ELSE w.boundary, curr)

Turns(p, w, curr) ==
  ~TooLate(w.time, curr) => w.boundary # NoBoundary \/ Final(p) < w.time

LEMMA ScheduledPrefix ==
  ASSUME NEW p \in Paths, NEW w \in Orders, NEW curr \in Int, NEW speed \in Nat,
         ~TooLate(w.time, curr), First(p) <= curr, Turns(p, w, curr),
         NEW new, new = Schedule(p, w, curr, speed),
         NEW cut, cut = CutTime(p, w, curr)
  PROVE  /\ cut \in Int /\ curr <= cut
         /\ curr \in DOMAIN new /\ cut \in DOMAIN new
         /\ \A u \in DOMAIN p : curr <= u /\ u <= cut => u \in DOMAIN new
         /\ \A t \in Int : curr <= t /\ t <= cut => At(new, t) = At(Trim(p, curr, cut), t)
<1> DEFINE pose == w.pose
           time == w.time
           boundary == w.boundary
           last == Final(p)
           end == EndTime(time, curr, LastBefore(last, curr, boundary))
           old == KeptPath(p, curr, boundary)
           piece == Trim(p, curr, cut)
           kept == Trim(old, curr, end)
<1>1. /\ IsPath(p) /\ pose \in Int /\ time \in Int /\ boundary \in Nat /\ last \in Int
      /\ ~BoundaryInvalid(time, curr, boundary) /\ ~TooLate(time, curr)
  BY FinalType, PathsArePaths, OrderIsValid DEF Orders
<1>2. new = ScheduleWaypoint(p, pose, time, curr, last, boundary, speed)
  BY DEF Schedule
<1>3. IsPath(new)
  BY ScheduleType, PathsArePaths
<1>4. (boundary # NoBoundary => boundary < time) /\ (boundary = NoBoundary => last < time)
  BY DEF Orders, Turns
<1>5. cut = Max2(IF boundary = NoBoundary THEN last ELSE boundary, curr)
  BY DEF CutTime
<1> HIDE DEF pose, time, boundary, last
<1>6. cut \in Int /\ curr <= cut
  BY <1>1, <1>5 DEF Max2
<1>7. end = cut
  BY <1>1, <1>4, <1>5 DEF EndTime, LastBefore, TooLate, Min2, Max2, NoBoundary
<1>8. IsPath(old) /\ \E reach \in Int : end < reach /\ new = Extend(kept, reach, pose)
  <2>1. /\ end = EndTime(time, curr, LastBefore(last, curr, boundary))
        /\ old = KeptPath(p, curr, boundary)
    OBVIOUS
  <2> HIDE DEF end, old
  <2>2. IsPath(old) /\ \E reach \in Int : end < reach
                                   /\ new = Extend(Trim(old, curr, end), reach, pose)
    BY <1>1, <1>2, <2>1, WaypointShape
  <2> QED  BY <2>2
<1>9. PICK reach \in Int : cut < reach /\ new = Extend(kept, reach, pose)
  BY <1>7, <1>8
<1>10. /\ IsPath(piece) /\ curr \in DOMAIN piece /\ cut \in DOMAIN piece
       /\ \A u \in DOMAIN p : curr < u /\ u < cut => u \in DOMAIN piece
  <2>1. DOMAIN p \in SUBSET Int
    BY <1>1 DEF IsPath
  <2> QED  BY <1>1, <1>6, <2>1, TrimIsPath, TrimKeeps
<1>11. IsPath(kept) /\ Agree(piece, kept, curr, cut)
  <2>1. CASE boundary = NoBoundary
    <3>1. kept = piece
      BY <1>7, <2>1 DEF KeptPath
    <3> HIDE DEF kept, piece
    <3> QED  BY <1>10, <3>1 DEF Agree
  <2>2. CASE boundary # NoBoundary
    <3>1. old = piece
      BY <1>5, <2>2 DEF KeptPath
    <3>2. kept = Trim(piece, curr, cut)
      BY <1>7, <3>1
    <3> HIDE DEF kept, piece
    <3>3. cut <= cut
      BY <1>6
    <3>4. IsPath(kept) /\ Agree(kept, piece, curr, cut)
      BY <1>6, <1>10, <3>2, <3>3, TrimIsPath, TrimAgrees
    <3>5. Agree(piece, kept, curr, cut)
      BY <1>10, <3>4 DEF Agree
    <3> QED  BY <3>4, <3>5
  <2> QED  BY <2>1, <2>2
<1> HIDE DEF kept, piece, end, old
<1>12. curr \in DOMAIN kept /\ cut \in DOMAIN kept
  BY <1>6, <1>10, <1>11 DEF Agree
<1>13. Agree(kept, new, curr, cut)
  BY <1>9, <1>11, <1>12, ExtendAgrees
<1>14. \A t \in Int : curr <= t /\ t <= cut => At(new, t) = At(piece, t)
  <2>1. ASSUME NEW t \in Int, curr <= t, t <= cut PROVE At(new, t) = At(piece, t)
    <3>1. At(piece, t) = At(kept, t)
      BY <1>6, <1>10, <1>11, <2>1, AgreeBetween
    <3>2. At(kept, t) = At(new, t)
      BY <1>3, <1>6, <1>11, <1>13, <2>1, AgreeBetween
    <3> QED  BY <3>1, <3>2
  <2> QED  BY <2>1
<1>15. curr \in DOMAIN new /\ cut \in DOMAIN new
  BY <1>6, <1>12, <1>13 DEF Agree
<1>16. ASSUME NEW u \in DOMAIN p, curr <= u, u <= cut PROVE u \in DOMAIN new
  <2>1. u \in Int
    BY <1>1 DEF IsPath
  <2>2. u \in DOMAIN piece
    BY <1>6, <1>10, <1>16, <2>1
  <2>3. u \in DOMAIN kept
    BY <1>11, <1>16, <2>1, <2>2 DEF Agree
  <2> QED  BY <1>13, <1>16, <2>1, <2>3 DEF Agree
<1> QED  BY <1>6, <1>14, <1>15, <1>16 DEF piece

(* The setpoint of p stays within m units of that of r from u to v.        *)
Close(p, r, u, v, m) ==
  \A t \in Int : u <= t /\ t <= v => Distance(At(p, t), At(r, t)) <= m

LEMMA CutOnce ==
  ASSUME NEW p \in Paths, NEW w \in Orders, NEW curr \in Int, NEW speed \in Nat,
         ~TooLate(w.time, curr), First(p) <= curr, Turns(p, w, curr),
         NEW new, new = Schedule(p, w, curr, speed),
         NEW v \in Int, v <= CutTime(p, w, curr)
  PROVE  Close(new, p, curr, v, 1)
<1> DEFINE cut == CutTime(p, w, curr)
<1>1. cut \in Int /\ curr <= cut
      /\ \A t \in Int : curr <= t /\ t <= cut => At(new, t) = At(Trim(p, curr, cut), t)
  BY ScheduledPrefix
<1>2. IsPath(p)
  BY PathsArePaths
<1> HIDE DEF cut
<1>3. ASSUME NEW t \in Int, curr <= t, t <= cut PROVE Distance(At(new, t), At(p, t)) <= 1
  BY <1>1, <1>2, <1>3, TrimRounds
<1> QED  BY <1>1, <1>3 DEF Close, cut

LEMMA CutKept ==
  ASSUME NEW p \in Paths, NEW w \in Orders, NEW curr \in Int, NEW speed \in Nat,
         ~TooLate(w.time, curr), First(p) <= curr, Turns(p, w, curr),
         NEW new, new = Schedule(p, w, curr, speed),
         curr \in DOMAIN p, NEW v \in DOMAIN p, curr <= v, v <= CutTime(p, w, curr)
  PROVE  /\ curr \in DOMAIN new /\ v \in DOMAIN new
         /\ \A t \in Int : curr <= t /\ t <= v => At(new, t) = At(p, t)
<1> DEFINE cut == CutTime(p, w, curr)
<1>1. /\ cut \in Int /\ curr <= cut /\ curr \in DOMAIN new
      /\ \A u \in DOMAIN p : curr <= u /\ u <= cut => u \in DOMAIN new
      /\ \A t \in Int : curr <= t /\ t <= cut => At(new, t) = At(Trim(p, curr, cut), t)
  BY ScheduledPrefix
<1>2. IsPath(p) /\ v \in Int /\ v <= cut
  BY PathsArePaths DEF IsPath
<1> HIDE DEF cut
<1>3. Agree(Trim(p, curr, cut), p, curr, v) /\ IsPath(Trim(p, curr, cut))
  BY <1>1, <1>2, TrimAgrees, TrimIsPath
<1>4. ASSUME NEW t \in Int, curr <= t, t <= v PROVE At(new, t) = At(p, t)
  <2>1. At(new, t) = At(Trim(p, curr, cut), t)
    BY <1>1, <1>2, <1>4
  <2>2. At(Trim(p, curr, cut), t) = At(p, t)
    BY <1>2, <1>3, <1>4, AgreeBetween
  <2> QED  BY <2>1, <2>2
<1> QED  BY <1>1, <1>2, <1>4

LEMMA Triangle ==
  ASSUME NEW a \in Int, NEW b \in Int, NEW c \in Int, Distance(a, b) <= 1
  PROVE  /\ Distance(b, c) <= 0 => Distance(a, c) <= 1
         /\ Distance(b, c) <= 1 => Distance(a, c) <= 2
BY DEF Distance

LEMMA CloseTwice ==
  ASSUME NEW p, IsPath(p), NEW q, IsPath(q), NEW r, IsPath(r), NEW u \in Int, NEW v \in Int,
         Close(p, q, u, v, 1), Close(q, r, u, v, 1)
  PROVE  Close(p, r, u, v, 2)
<1>1. ASSUME NEW t \in Int, u <= t, t <= v PROVE Distance(At(p, t), At(r, t)) <= 2
  <2>1. At(p, t) \in Int /\ At(q, t) \in Int /\ At(r, t) \in Int
    BY AtInt
  <2>2. Distance(At(p, t), At(q, t)) <= 1 /\ Distance(At(q, t), At(r, t)) <= 1
    BY <1>1 DEF Close
  <2> QED  BY <2>1, <2>2, Triangle
<1> QED  BY <1>1 DEF Close

(* What is left of a path p0 up to v after some waypoints of a drain, when *)
(* it is p: nothing was put on it; or none with a boundary, and it was cut *)
(* where the controller is; or it was cut at a boundary too, which those   *)
(* to come respect.                                                        *)
Untouched(p, p0) == p = p0

CutHere(p, p0, curr, v) ==
  /\ curr \in DOMAIN p /\ Final(p0) \in DOMAIN p
  /\ Close(p, p0, curr, v, 1)

CutAhead(p, p0, curr, v, rest) ==
  /\ curr \in DOMAIN p
  /\ \E c \in DOMAIN p :
       /\ v <= c
       /\ \A w \in rest : w.boundary # NoBoundary => c <= w.boundary
  /\ Close(p, p0, curr, v, 2)

Holds(p, p0, curr, v, rest) ==
  /\ p \in Paths /\ First(p) <= curr
  /\ Untouched(p, p0) \/ CutHere(p, p0, curr, v) \/ CutAhead(p, p0, curr, v, rest)

LEMMA HoldsOn ==
  ASSUME NEW p0 \in Paths, NEW p \in Paths, NEW w \in Orders, NEW curr \in Int,
         NEW speed \in Nat, Turns(p, w, curr),
         NEW v \in Int, curr <= v, v <= Final(p0),
         w.boundary # NoBoundary => v <= w.boundary,
         NEW rest, NEW after, after \subseteq rest, w \in rest,
         \A x \in after : x.boundary # NoBoundary => x.boundary \in Nat,
         w.boundary # NoBoundary =>
           \A x \in after : x.boundary # NoBoundary => w.boundary <= x.boundary,
         Holds(p, p0, curr, v, rest),
         NEW new, new = Schedule(p, w, curr, speed)
  PROVE  Holds(new, p0, curr, v, after)
<1> DEFINE cut == CutTime(p, w, curr)
<1>1. new \in Paths /\ First(new) <= curr /\ First(p) <= curr
  BY ScheduleType, FirstKept DEF Holds
<1>2. IsPath(p) /\ IsPath(p0) /\ IsPath(new) /\ Final(p) \in Int /\ Final(p0) \in Int
      /\ Final(p0) \in DOMAIN p0 /\ w.boundary \in Nat
      /\ \A u \in DOMAIN p : u <= Final(p) /\ u \in Int
  BY <1>1, PathsArePaths, PathEnds DEF Orders, IsPath
<1>3. CASE TooLate(w.time, curr)
  <2>1. new = p
    BY <1>3 DEF Schedule, ScheduleWaypoint
  <2>2. CutAhead(p, p0, curr, v, rest) => CutAhead(p, p0, curr, v, after)
    BY DEF CutAhead
  <2> QED  BY <1>1, <2>1, <2>2 DEF Holds
<1>4. CASE ~TooLate(w.time, curr)
  <2>1. /\ cut \in Int /\ curr <= cut
        /\ curr \in DOMAIN new /\ cut \in DOMAIN new
        /\ \A u \in DOMAIN p : curr <= u /\ u <= cut => u \in DOMAIN new
    BY <1>1, <1>4, ScheduledPrefix
  <2>2. /\ w.boundary # NoBoundary => cut = w.boundary
        /\ w.boundary = NoBoundary => Final(p) <= cut
    BY <1>2 DEF CutTime, Max2
  <2>3. v <= cut => Close(new, p, curr, v, 1)
    BY <1>1, <1>4, CutOnce
  <2>4. ASSUME curr \in DOMAIN p, NEW c \in DOMAIN p, v <= c, c <= cut
        PROVE  c \in DOMAIN new /\ \A t \in Int : curr <= t /\ t <= v => At(new, t) = At(p, t)
    <3>1. c \in Int /\ curr <= c
      BY <1>2, <2>4
    <3>2. c \in DOMAIN new /\ \A t \in Int : curr <= t /\ t <= c => At(new, t) = At(p, t)
      BY <1>1, <1>4, <2>4, <3>1, CutKept
    <3> QED  BY <2>4, <3>1, <3>2
  <2> HIDE DEF cut
  <2>5. CASE w.boundary # NoBoundary
    <3>1. v <= cut /\ \A x \in after : x.boundary # NoBoundary => cut <= x.boundary
      BY <2>2, <2>5
    <3>2. ASSUME Close(new, p0, curr, v, 2) PROVE CutAhead(new, p0, curr, v, after)
      BY <2>1, <3>1, <3>2 DEF CutAhead
    <3>3. CASE Untouched(p, p0)
      <4>1. Close(new, p0, curr, v, 1)
        BY <2>3, <3>1, <3>3 DEF Untouched
      <4>2. ASSUME NEW t \in Int, curr <= t, t <= v
            PROVE  Distance(At(new, t), At(p0, t)) <= 2
        <5>1. At(new, t) \in Int /\ At(p0, t) \in Int
          BY <1>2, AtInt
        <5>2. Distance(At(new, t), At(p0, t)) <= 1
          BY <4>1, <4>2 DEF Close
        <5>3. Distance(At(new, t), At(p0, t)) \in Nat
          BY <5>1, DistanceType
        <5> QED  BY <5>2, <5>3
      <4> QED  BY <1>1, <3>2, <4>2 DEF Holds, Close
    <3>4. CASE CutHere(p, p0, curr, v)
      <4>1. Close(new, p, curr, v, 1) /\ Close(p, p0, curr, v, 1)
        BY <2>3, <3>1, <3>4 DEF CutHere
      <4>2. Close(new, p0, curr, v, 2)
        BY <1>2, <4>1, CloseTwice
      <4> QED  BY <1>1, <3>2, <4>2 DEF Holds
    <3>5. CASE CutAhead(p, p0, curr, v, rest)
      <4>1. PICK c \in DOMAIN p : v <= c /\ (w.boundary # NoBoundary => c <= w.boundary)
        BY <3>5 DEF CutAhead
      <4>2. \A t \in Int : curr <= t /\ t <= v => At(new, t) = At(p, t)
        BY <2>2, <2>4, <2>5, <3>5, <4>1 DEF CutAhead
      <4>3. Close(new, p0, curr, v, 2)
        BY <3>5, <4>2 DEF CutAhead, Close
      <4> QED  BY <1>1, <3>2, <4>3 DEF Holds
    <3> QED  BY <3>3, <3>4, <3>5 DEF Holds
  <2>6. CASE w.boundary = NoBoundary
    <3>1. \A u \in DOMAIN p : u <= cut
      BY <1>2, <2>1, <2>2, <2>6
    <3>2. CASE Untouched(p, p0)
      <4>1. Final(p0) <= cut /\ Final(p0) \in DOMAIN new /\ v <= cut
        BY <1>2, <2>1, <2>2, <2>6, <3>2 DEF Untouched
      <4>2. Close(new, p0, curr, v, 1)
        BY <2>3, <3>2, <4>1 DEF Untouched
      <4> QED  BY <1>1, <2>1, <4>1, <4>2 DEF Holds, CutHere
    <3>3. CASE CutHere(p, p0, curr, v)
      <4>1. /\ Final(p0) \in DOMAIN new
            /\ \A t \in Int : curr <= t /\ t <= v => At(new, t) = At(p, t)
        BY <2>4, <3>1, <3>3 DEF CutHere
      <4>2. Close(new, p0, curr, v, 1)
        BY <3>3, <4>1 DEF CutHere, Close
      <4> QED  BY <1>1, <2>1, <4>1, <4>2 DEF Holds, CutHere
    <3>4. CASE CutAhead(p, p0, curr, v, rest)
      <4>1. PICK c \in DOMAIN p :
              v <= c /\ \A x \in rest : x.boundary # NoBoundary => c <= x.boundary
        BY <3>4 DEF CutAhead
      <4>2. c \in DOMAIN new /\ \A t \in Int : curr <= t /\ t <= v => At(new, t) = At(p, t)
        BY <2>4, <3>1, <3>4, <4>1 DEF CutAhead
      <4>3. Close(new, p0, curr, v, 2)
        BY <3>4, <4>2 DEF CutAhead, Close
      <4> QED  BY <1>1, <2>1, <4>1, <4>2, <4>3 DEF Holds, CutAhead
    <3> QED  BY <3>2, <3>3, <3>4 DEF Holds
  <2> QED  BY <2>5, <2>6
<1> QED  BY <1>3, <1>4

(* A drain whose waypoints are in their turn, and whose boundaries ascend, *)
(* moves the setpoint by at most two units up to the first boundary and    *)
(* the end of the path.                                                    *)
LEMMA DrainKeeps ==
  ASSUME NEW n \in Nat, NEW q, NEW w, NEW curr \in Int, NEW speed \in Nat, NEW v \in Int,
         \A k \in 0..n : q[k] \in Paths,
         \A k \in 1..n : w[k] \in Orders /\ Turns(q[k - 1], w[k], curr)
                           /\ q[k] = Schedule(q[k - 1], w[k], curr, speed),
         First(q[0]) <= curr, curr <= v, v <= Final(q[0]),
         \A k \in 1..n : w[k].boundary # NoBoundary => v <= w[k].boundary,
         \A j \in 1..n : \A k \in 1..n :
           j < k /\ w[j].boundary # NoBoundary /\ w[k].boundary # NoBoundary
             => w[j].boundary <= w[k].boundary
  PROVE  Close(q[n], q[0], curr, v, 2)
<1> DEFINE Rest(k) == {w[j] : j \in k + 1..n}
           R == {k \in 0..n : Holds(q[k], q[0], curr, v, Rest(k))}
<1>1. q[0] \in Paths
  OBVIOUS
<1>2. 0 \in R
  BY <1>1 DEF Holds, Untouched
<1>3. ASSUME NEW k \in 1..n, k - 1 \in R PROVE k \in R
  <2>1. k - 1 \in 0..n /\ k \in 0..n /\ k \in (k - 1) + 1..n
    OBVIOUS
  <2> DEFINE rest == Rest(k - 1)
             after == Rest(k)
             p == q[k - 1]
             x == w[k]
             new == q[k]
  <2>2. after \subseteq rest /\ x \in rest
    BY <2>1
  <2>3. \A y \in after : \E j \in 1..n : k < j /\ y = w[j] /\ w[j] \in Orders
    OBVIOUS
  <2>4. /\ \A y \in after : y.boundary # NoBoundary => y.boundary \in Nat
        /\ x.boundary # NoBoundary =>
             \A y \in after : y.boundary # NoBoundary => x.boundary <= y.boundary
    BY <2>3 DEF Orders
  <2>5. /\ p \in Paths /\ x \in Orders /\ Turns(p, x, curr) /\ new = Schedule(p, x, curr, speed)
        /\ x.boundary # NoBoundary => v <= x.boundary
        /\ Holds(p, q[0], curr, v, rest)
    BY <1>3, <2>1
  <2> HIDE DEF rest, after, p, x, new
  <2>6. Holds(new, q[0], curr, v, after)
    BY <1>1, <2>2, <2>4, <2>5, HoldsOn
  <2> QED  BY <2>1, <2>6 DEF new, after
<1>4. n \in R
  <2>1. \A k \in 0..n : k \in R
    <3> HIDE DEF R
    <3> QED  BY <1>2, <1>3, UpTo
  <2>2. n \in 0..n
    OBVIOUS
  <2> HIDE DEF R
  <2> QED  BY <2>1, <2>2
<1>5. Holds(q[n], q[0], curr, v, Rest(n))
  BY <1>4
<1> HIDE DEF Rest
<1>6. IsPath(q[n]) /\ IsPath(q[0])
  BY PathsArePaths
<1>7. ASSUME NEW t \in Int, curr <= t, t <= v
      PROVE  Distance(At(q[n], t), At(q[0], t)) <= 2
  <2>1. At(q[n], t) \in Int /\ At(q[0], t) \in Int
    BY <1>6, AtInt
  <2>2. CASE Untouched(q[n], q[0])
    BY <2>1, <2>2, DistanceSelf DEF Untouched
  <2>3. CASE CutHere(q[n], q[0], curr, v)
    <3>1. Distance(At(q[n], t), At(q[0], t)) <= 1
      BY <1>7, <2>3 DEF CutHere, Close
    <3>2. Distance(At(q[n], t), At(q[0], t)) \in Nat
      BY <2>1, DistanceType
    <3> QED  BY <3>1, <3>2
  <2>4. CASE CutAhead(q[n], q[0], curr, v, Rest(n))
    BY <1>7, <2>4 DEF CutAhead, Close
  <2> QED  BY <1>5, <2>2, <2>3, <2>4 DEF Holds
<1> QED  BY <1>7 DEF Close

(* A controller's path begins no later than where its next drain cuts it.  *)
FirstsOK ==
  First(path.arm) <= now + ArmPeriod /\ First(path.grip) <= now

(* The boundaries waiting for a device ascend, and none is later than the  *)
(* splice of the plan that is played or than the one an answer would get.  *)
Horizon == now + LatencyBudget + DispatchLead

BoundariesOK ==
  /\ sch.plan # NoPlan => sch.plan.from <= Horizon
  /\ \A d \in Devices : \A i \in 1..Len(inbox[d]) :
       inbox[d][i].boundary # NoBoundary =>
         /\ inbox[d][i].boundary + Latency[d] <= Horizon
         /\ sch.plan # NoPlan => inbox[d][i].boundary + Latency[d] <= sch.plan.from
         /\ \A j \in 1..Len(inbox[d]) :
              i < j /\ inbox[d][j].boundary # NoBoundary
                => inbox[d][i].boundary <= inbox[d][j].boundary

LEMMA StillFirst ==
  ASSUME NEW t \in Int, NEW pose
  PROVE  First(Still(t, pose)) = t
<1>1. t \in DOMAIN Still(t, pose) /\ DOMAIN Still(t, pose) \in SUBSET Int
      /\ \A u \in DOMAIN Still(t, pose) : t <= u
  BY DEF Still
<1> QED  BY <1>1, FirstIs

LEMMA FirstsInit ==
  ASSUME Init
  PROVE  FirstsOK
<1>1. First(path.arm) = 1 /\ First(path.grip) = 1 /\ now = 1
  BY StillFirst DEF Init, Devices
<1> QED  BY <1>1, Constants DEF FirstsOK

LEMMA ArmFirstKept ==
  ASSUME ClientOK, NEW n \in Takes("arm"), First(path.arm) <= now + ArmPeriod
  PROVE  First(ArmPaths(n, now + ArmPeriod)[n]) <= now + ArmPeriod
<1> DEFINE q == ArmPaths(n, now + ArmPeriod)
           curr == now + ArmPeriod
           R == {k \in 0..n : First(q[k]) <= curr}
<1>1. n \in 0..Len(inbox.arm) /\ n \in Nat /\ curr \in Int
      /\ \A i \in 1..n : inbox.arm[i] \in Orders
  <2>1. "arm" \in Devices
    BY DEF Devices
  <2>2. n \in 0..Len(inbox["arm"]) /\ Len(inbox["arm"]) \in Nat /\ now \in Int
        /\ \A i \in 1..Len(inbox["arm"]) : inbox["arm"][i] \in Orders
    BY <2>1, TakenType, InboxType
  <2> QED  BY <2>2, Constants
<1>2. /\ q[0] = path.arm
      /\ \A k \in 1..n : q[k] = Schedule(q[k - 1], inbox.arm[k], curr, ArmSpeed + 1)
      /\ \A k \in 0..n : q[k] \in Paths
  BY <1>1, ArmPathsType DEF ClientOK, StateOK
<1> HIDE DEF q
<1>3. 0 \in R
  BY <1>1, <1>2
<1>4. ASSUME NEW k \in 1..n, k - 1 \in R PROVE k \in R
  <2>1. q[k - 1] \in Paths /\ inbox.arm[k] \in Orders /\ First(q[k - 1]) <= curr
        /\ ArmSpeed + 1 \in Nat /\ k \in 0..n
    BY <1>1, <1>2, <1>4, Constants
  <2> HIDE DEF curr
  <2>2. First(Schedule(q[k - 1], inbox.arm[k], curr, ArmSpeed + 1)) <= curr
    BY <1>1, <2>1, FirstKept
  <2> QED  BY <1>2, <2>1, <2>2
<1>5. \A k \in 0..n : k \in R
  <2> HIDE DEF R
  <2> QED  BY <1>1, <1>3, <1>4, UpTo
<1> QED  BY <1>1, <1>5 DEF q

LEMMA GripFirstKept ==
  ASSUME ClientOK, NEW n \in Takes("grip"), First(path.grip) <= now
  PROVE  First(GripPaths(n)[n].path) <= now
<1> DEFINE q(k) == GripPaths(n)[k]
           R == {k \in 0..n : First(q(k).path) <= now}
<1>1. n \in 0..Len(inbox.grip) /\ n \in Nat /\ now \in Int
      /\ \A i \in 1..n : inbox.grip[i] \in Orders
  <2>1. "grip" \in Devices
    BY DEF Devices
  <2>2. n \in 0..Len(inbox["grip"]) /\ Len(inbox["grip"]) \in Nat /\ now \in Int
        /\ \A i \in 1..Len(inbox["grip"]) : inbox["grip"][i] \in Orders
    BY <2>1, TakenType, InboxType
  <2> QED  BY <2>2
<1>2. /\ q(0) = [path |-> path.grip, policy |-> policy]
      /\ \A k \in 1..n : q(k) = GripAfter(q(k - 1), inbox.grip[k])
      /\ \A k \in 0..n : q(k) \in [path : Paths, policy : Paths]
  BY <1>1, GripPathsType DEF ClientOK, StateOK
<1> HIDE DEF q
<1>3. 0 \in R
  BY <1>1, <1>2
<1>4. ASSUME NEW k \in 1..n, k - 1 \in R PROVE k \in R
  <2>1. q(k - 1).path \in Paths /\ First(q(k - 1).path) <= now /\ k \in 0..n
    <3>1. q(k - 1) \in [path : Paths, policy : Paths] /\ First(q(k - 1).path) <= now
      BY <1>2, <1>4
    <3>2. k \in 0..n
      BY <1>1
    <3> QED  BY <3>1, <3>2
  <2>2. inbox.grip[k] \in Orders /\ GripperSpeed + 1 \in Nat
    BY <1>1, Constants
  <2>3. First(Schedule(q(k - 1).path, inbox.grip[k], now, GripperSpeed + 1)) <= now
    BY <1>1, <2>1, <2>2, FirstKept
  <2>4. q(k).path = Schedule(q(k - 1).path, inbox.grip[k], now, GripperSpeed + 1)
    BY <1>2 DEF GripAfter
  <2> QED  BY <2>1, <2>3, <2>4
<1>5. \A k \in 0..n : k \in R
  <2> HIDE DEF R
  <2> QED  BY <1>1, <1>3, <1>4, UpTo
<1> QED  BY <1>1, <1>5 DEF q

LEMMA FirstsStep ==
  ASSUME ClientOK, FirstsOK, [Next]_vars
  PROVE  FirstsOK'
<1>1. now \in Int /\ ArmPeriod \in Nat /\ "arm" \in Devices /\ "grip" \in Devices
      /\ path \in [Devices -> Paths]
  BY StateTypes, Constants DEF ClientOK, StateOK, Devices
<1>2. First(path.arm) \in Int /\ First(path.grip) \in Int
  BY <1>1, PathsArePaths, PathEnds
<1>3. CASE path' = path /\ now' \in {now, now + 1}
  BY <1>1, <1>2, <1>3 DEF FirstsOK
<1>4. ASSUME NEW s, Become(s), now' = now PROVE FirstsOK'
  <2>1. CASE UNCHANGED devices
    BY <1>3, <1>4, <2>1 DEF devices
  <2>2. CASE path' = [path EXCEPT !.arm = Still(now, At(@, now))]
    <3>1. path'.grip = path.grip /\ path'.arm = Still(now, At(path.arm, now))
      BY <1>1, <2>2
    <3>2. First(path'.arm) = now
      BY <1>1, <3>1, StillFirst
    <3> QED  BY <1>1, <1>4, <3>1, <3>2 DEF FirstsOK
  <2> QED  BY <1>4, <2>1, <2>2 DEF Become
<1>5. CASE Client
  <2>1. now' = now /\ (path' = path \/ \E s : Become(s))
    BY <1>5 DEF Client, Start, Pause, Observe, NoAnswer, Answer, AnswerFails, RequestAndPop,
                ExecActions, devices
  <2> QED  BY <1>3, <1>4, <2>1
<1>6. CASE Tick \/ UNCHANGED vars
  BY <1>3, <1>6 DEF Tick, vars, devices
<1>7. ASSUME NEW n \in Takes("arm"), DrainArm(n) PROVE FirstsOK'
  <2>1. path' = [path EXCEPT !.arm = ArmPaths(n, now + ArmPeriod)[n]] /\ now' = now
    BY <1>7 DEF DrainArm
  <2>2. path'.arm = ArmPaths(n, now + ArmPeriod)[n] /\ path'.grip = path.grip
    BY <1>1, <2>1
  <2> QED  BY <1>7, <2>1, <2>2, ArmFirstKept DEF FirstsOK
<1>8. ASSUME NEW n \in Takes("grip"), DrainGrip(n) PROVE FirstsOK'
  <2>1. path' = [path EXCEPT !.grip = GripPaths(n)[n].path] /\ now' = now
    BY <1>8 DEF DrainGrip
  <2>2. path'.grip = GripPaths(n)[n].path /\ path'.arm = path.arm
    BY <1>1, <2>1
  <2> QED  BY <1>8, <2>1, <2>2, GripFirstKept DEF FirstsOK
<1> QED  BY <1>5, <1>6, <1>7, <1>8 DEF Next

(* Each operation of the scheduler keeps the plan, but the two that start  *)
(* a round and adopt an answer.                                            *)
LEMMA OperationsKeepPlan ==
  ASSUME NEW s, SchedulerOK(s), NEW reason, NEW live, NEW taken, NEW t
  PROVE  /\ Hold(s, reason).plan = s.plan
         /\ Advance(ObserveController(s, live), t).plan = s.plan
         /\ Hold(Advance(ObserveController(s, live), t), reason).plan = s.plan
         /\ PopBatch(s, taken, t).plan = s.plan
<1>1. s = [s EXCEPT !.plan = s.plan]
  BY DEF SchedulerOK, Schedulers
<1>2. \A r : Hold(s, r).plan = s.plan
  BY <1>1 DEF Hold, SchedulerOK, Schedulers
<1> DEFINE o == ObserveController(s, live)
           a == Advance(o, t)
<1>3. /\ o.plan = s.plan
      /\ DOMAIN o = DOMAIN s
  BY DEF ObserveController, SchedulerOK, Schedulers
<1>4. "plan" \in DOMAIN s
  BY DEF SchedulerOK, Schedulers
<1> HIDE DEF o
<1>5. \A u, r : "plan" \in DOMAIN u => Hold(u, r).plan = u.plan /\ "plan" \in DOMAIN Hold(u, r)
  BY DEF Hold
<1>6. a.plan = o.plan /\ "plan" \in DOMAIN a
  BY <1>3, <1>4, <1>5 DEF Advance
<1>7. Hold(a, reason).plan = a.plan
  BY <1>5, <1>6
<1>8. PopBatch(s, taken, t).plan = s.plan
  BY <1>4, <1>5 DEF PopBatch
<1> QED  BY <1>2, <1>3, <1>6, <1>7, <1>8 DEF o

LEMMA AnswerPlan ==
  ASSUME ClientOK, NEW slope \in Slopes, Answer(slope)
  PROVE  sch'.plan = sch.plan \/ (sch'.plan \in Plans /\ sch'.plan.from = Horizon)
<1> DEFINE targets == [k \in 1..ActionHorizon |->
                         [arm |-> job.arm + k * slope, grip |-> job.grip - k * slope]]
           merged == MergeChunk(sch, targets, now - job.time, now)
<1>1. job \in Jobs /\ now - job.time \in Nat /\ now \in Int /\ SchedulerOK(sch)
  <2>1. job \in Jobs /\ job.time <= now
    BY DEF Answer, ClientOK, StateOK
  <2> QED  BY <2>1, StateTypes DEF ClientOK, Jobs
<1>2. targets \in Seq(Targets) /\ Len(targets) = ActionHorizon
  <2>1. slope \in Int /\ ActionHorizon \in Nat
    BY Constants
  <2>2. targets \in [1..ActionHorizon -> Targets]
    BY <1>1, <2>1 DEF Jobs, Targets
  <2> HIDE DEF targets
  <2> QED  BY <2>1, <2>2, IsASeq, LenProperties
<1>3. \/ sch.state = "ACTIVE" /\ sch' = merged
      \/ sch' = sch
  BY DEF Answer, Become
<1> HIDE DEF targets
<1>4. CASE sch.state = "ACTIVE" /\ sch' = merged
  <2> DEFINE plan == Spliced(sch, targets, now - job.time, now)
  <2>1. \/ \E reason : merged = Hold(sch, reason)
        \/ plan \in Plans /\ plan.from = Horizon /\ merged = Adopted(sch, plan)
    BY <1>1, <1>2, <1>4, MergeIs DEF Horizon
  <2> HIDE DEF plan, merged
  <2>2. \A reason : Hold(sch, reason).plan = sch.plan
    BY <1>1, OperationsKeepPlan
  <2>3. Adopted(sch, plan).plan = plan
    BY <1>1 DEF Adopted, SchedulerOK, Schedulers
  <2> QED  BY <1>4, <2>1, <2>2, <2>3
<1> QED  BY <1>3, <1>4

(* What one device has queued later, when nothing is added to it.          *)
Shifted(d, off) ==
  \A i \in 1..Len(inbox'[d]) :
    i + off \in 1..Len(inbox[d]) /\ inbox'[d][i] = inbox[d][i + off]

LEMMA BoundariesKept ==
  ASSUME ClientOK, ClientOK', BoundariesOK, now' \in {now, now + 1},
         \/ sch'.plan = sch.plan \/ sch'.plan = NoPlan
         \/ sch'.plan \in Plans /\ sch'.plan.from = Horizon,
         \A d \in Devices : \E off \in Nat : Shifted(d, off)
  PROVE  BoundariesOK'
<1>1. now \in Int /\ now' \in Int /\ LatencyBudget \in Nat /\ DispatchLead \in Nat
      /\ Horizon \in Int /\ Horizon' \in Int /\ Horizon <= Horizon'
  <2>1. now \in Int /\ LatencyBudget \in Nat /\ DispatchLead \in Nat
    BY StateTypes, LatencyBudgetType, Constants DEF ClientOK
  <2>2. /\ Horizon = now + LatencyBudget + DispatchLead
        /\ Horizon' = now' + LatencyBudget + DispatchLead
    BY DEF Horizon
  <2>3. now' \in Int
    BY <2>1
  <2> QED  BY <2>1, <2>2, <2>3
<1>2. sch.plan # NoPlan => sch.plan.from \in Int
  <2>1. sch.plan \in {NoPlan} \union Plans
    BY DEF ClientOK, StateOK, SchedulerOK, Schedulers
  <2> QED  BY <2>1 DEF Plans
<1>3. sch'.plan # NoPlan => sch'.plan.from <= Horizon'
  BY <1>1, <1>2 DEF BoundariesOK
<1>4. ASSUME NEW d \in Devices, NEW i \in 1..Len(inbox'[d]),
             inbox'[d][i].boundary # NoBoundary
      PROVE  /\ inbox'[d][i].boundary + Latency[d] <= Horizon'
             /\ sch'.plan # NoPlan => inbox'[d][i].boundary + Latency[d] <= sch'.plan.from
             /\ \A j \in 1..Len(inbox'[d]) :
                  i < j /\ inbox'[d][j].boundary # NoBoundary
                    => inbox'[d][i].boundary <= inbox'[d][j].boundary
  <2>1. PICK off \in Nat : Shifted(d, off)
    OBVIOUS
  <2>2. /\ i \in Int /\ i + off \in 1..Len(inbox[d]) /\ inbox'[d][i] = inbox[d][i + off]
        /\ \A j \in 1..Len(inbox'[d]) :
             j + off \in 1..Len(inbox[d]) /\ inbox'[d][j] = inbox[d][j + off]
    BY <2>1 DEF Shifted
  <2> DEFINE k == i + off
             b == inbox[d][k].boundary
  <2>3. b \in Nat /\ Latency[d] \in Nat
    BY <2>2, InboxType, LatencyTypeHolds DEF LatencyType
  <2>4. /\ b + Latency[d] <= Horizon
        /\ sch.plan # NoPlan => b + Latency[d] <= sch.plan.from
        /\ \A j \in 1..Len(inbox[d]) :
             k < j /\ inbox[d][j].boundary # NoBoundary => b <= inbox[d][j].boundary
    BY <1>4, <2>2 DEF BoundariesOK
  <2>5. inbox'[d][i].boundary = b
    BY <2>2
  <2>6. ASSUME NEW j \in 1..Len(inbox'[d]), i < j, inbox'[d][j].boundary # NoBoundary
        PROVE  b <= inbox'[d][j].boundary
    <3>1. j + off \in 1..Len(inbox[d]) /\ inbox'[d][j] = inbox[d][j + off]
      BY <2>2
    <3>2. k < j + off
      BY <2>6
    <3> QED  BY <2>4, <2>6, <3>1, <3>2
  <2> HIDE DEF k, b
  <2>7. b + Latency[d] <= Horizon'
    BY <1>1, <2>3, <2>4
  <2>8. sch'.plan # NoPlan => b + Latency[d] <= sch'.plan.from
    BY <2>4
  <2> QED  BY <2>5, <2>6, <2>7, <2>8
<1>5. \A d \in Devices : \A i \in 1..Len(inbox'[d]) :
        inbox'[d][i].boundary # NoBoundary =>
         /\ inbox'[d][i].boundary + Latency[d] <= Horizon'
         /\ sch'.plan # NoPlan => inbox'[d][i].boundary + Latency[d] <= sch'.plan.from
         /\ \A j \in 1..Len(inbox'[d]) :
              i < j /\ inbox'[d][j].boundary # NoBoundary
                => inbox'[d][i].boundary <= inbox'[d][j].boundary
  BY <1>4
<1> QED  BY <1>3, <1>5 DEF BoundariesOK

LEMMA ShiftedBySteps ==
  ASSUME ClientOK, NEW d \in Devices
  PROVE  /\ inbox'[d] = inbox[d] => Shifted(d, 0)
         /\ inbox'[d] = <<>> => Shifted(d, 0)
         /\ \A n \in Takes(d) :
              inbox'[d] = SubSeq(inbox[d], n + 1, Len(inbox[d])) => Shifted(d, n)
<1>1. /\ inbox[d] \in Seq(Orders) /\ Len(inbox[d]) \in Nat
      /\ \A i \in 1..Len(inbox[d]) : inbox[d][i] \in Orders
  BY InboxType
<1>2. inbox'[d] = inbox[d] => Shifted(d, 0)
  BY <1>1 DEF Shifted
<1>3. inbox'[d] = <<>> => Shifted(d, 0)
  <2>1. Len(<<>>) = 0
    BY EmptySeq
  <2> QED  BY <2>1 DEF Shifted
<1>4. ASSUME NEW n \in Takes(d), NEW new, new = SubSeq(inbox[d], n + 1, Len(inbox[d]))
      PROVE  \A i \in 1..Len(new) : i + n \in 1..Len(inbox[d]) /\ new[i] = inbox[d][i + n]
  <2>1. n \in 1..Len(inbox[d])
    <3>1. n \in {1, Len(inbox[d])} /\ inbox[d] # <<>>
      BY DEF Takes
    <3> QED  BY <1>1, <3>1, EmptySeq
  <2>2. \A k \in n + 1..Len(inbox[d]) : inbox[d][k] \in Orders
    BY <1>1, <2>1
  <2>3. /\ Len(new) = (IF n + 1 <= Len(inbox[d]) THEN Len(inbox[d]) - (n + 1) + 1 ELSE 0)
        /\ \A k \in 1..Len(inbox[d]) - (n + 1) + 1 : new[k] = inbox[d][n + 1 + k - 1]
    BY <1>1, <1>4, <2>1, <2>2, SubSeqProperties
  <2>4. ASSUME NEW i \in 1..Len(new)
        PROVE  i + n \in 1..Len(inbox[d]) /\ new[i] = inbox[d][i + n]
    <3>1. i \in 1..Len(inbox[d]) - (n + 1) + 1 /\ n + 1 + i - 1 = i + n
      BY <1>1, <2>1, <2>3
    <3>2. new[i] = inbox[d][n + 1 + i - 1]
      BY <2>3, <3>1
    <3> QED  BY <1>1, <2>1, <3>1, <3>2
  <2> QED  BY <2>4
<1>5. \A n \in Takes(d) :
        inbox'[d] = SubSeq(inbox[d], n + 1, Len(inbox[d])) => Shifted(d, n)
  BY <1>4 DEF Shifted
<1> QED  BY <1>2, <1>3, <1>5

(* What exec_actions appends follows the splice of the plan, whose         *)
(* boundary it carries.                                                    *)
LEMMA BoundariesAppended ==
  ASSUME ClientOK, BoundariesOK, NEW d \in Devices, batch # {}, ~BoundaryRejected,
         NEW q, q = inbox[d] \o Waypoints(d),
         NEW i \in 1..Len(q), q[i].boundary # NoBoundary
  PROVE  /\ q[i].boundary + Latency[d] <= Horizon
         /\ q[i].boundary + Latency[d] <= sch.plan.from
         /\ \A j \in 1..Len(q) :
              i < j /\ q[j].boundary # NoBoundary => q[i].boundary <= q[j].boundary
<1> DEFINE w == Waypoints(d)
           m == Len(inbox[d])
<1>1. w \in Seq(Orders) /\ inbox[d] \in Seq(Orders)
  BY WaypointsType, InboxType
<1>2. /\ Len(w) \in Nat /\ sch.plan \in Plans /\ sch.plan.from \in Int
      /\ \A k \in 1..Len(w) :
           w[k].boundary = (IF k = 1 THEN sch.plan.from - Latency[d] ELSE NoBoundary)
  BY WaypointsAre
<1>3. sch.plan # NoPlan
  BY <1>2, PlansArePlans
<1>4. /\ Len(q) = m + Len(w)
      /\ \A k \in 1..Len(q) : q[k] = IF k <= m THEN inbox[d][k] ELSE w[k - m]
  BY <1>1, ConcatProperties
<1>5. m \in Nat /\ Latency[d] \in Nat /\ \A k \in 1..m : inbox[d][k].boundary \in Nat
  BY InboxType, LatencyTypeHolds DEF LatencyType
<1>6. sch.plan.from <= Horizon /\ Horizon \in Int
  BY <1>3, StateTypes, LatencyBudgetType, Constants DEF BoundariesOK, Horizon, ClientOK
<1>7. \A k \in 1..m : inbox[d][k].boundary # NoBoundary =>
        /\ inbox[d][k].boundary + Latency[d] <= sch.plan.from
        /\ \A j \in 1..m : k < j /\ inbox[d][j].boundary # NoBoundary
                             => inbox[d][k].boundary <= inbox[d][j].boundary
  BY <1>3 DEF BoundariesOK
<1> HIDE DEF w, m
<1> DEFINE f == sch.plan.from
           l == Latency[d]
<1>8. ASSUME NEW k \in 1..Len(q), ~(k <= m), q[k].boundary # NoBoundary
      PROVE  k = m + 1 /\ q[k].boundary = f - l
  <2>1. k - m \in 1..Len(w) /\ q[k] = w[k - m]
    BY <1>2, <1>4, <1>5, <1>8
  <2>2. k - m = 1
    BY <1>2, <1>8, <2>1
  <2> QED  BY <1>2, <1>5, <2>1, <2>2
<1>9. ASSUME NEW k \in 1..Len(q), k <= m, q[k].boundary # NoBoundary
      PROVE  /\ q[k].boundary \in Nat /\ q[k].boundary + l <= f
             /\ \A j \in 1..Len(q) : k < j /\ j <= m /\ q[j].boundary # NoBoundary
                                       => q[k].boundary <= q[j].boundary
  <2>1. k \in 1..m /\ q[k] = inbox[d][k]
    BY <1>4, <1>5, <1>9
  <2>2. \A j \in 1..Len(q) : j <= m => j \in 1..m /\ q[j] = inbox[d][j]
    BY <1>4, <1>5
  <2> QED  BY <1>5, <1>7, <1>9, <2>1, <2>2
<1> HIDE DEF f, l
<1>10. f \in Int /\ l \in Nat /\ f <= Horizon
  BY <1>2, <1>5, <1>6 DEF f, l
<1>11. CASE i <= m
  <2> DEFINE b == q[i].boundary
  <2>1. b \in Nat /\ b + l <= f
    BY <1>9, <1>11
  <2>2. ASSUME NEW j \in 1..Len(q), i < j, q[j].boundary # NoBoundary
        PROVE  b <= q[j].boundary
    <3>1. CASE j <= m
      BY <1>9, <1>11, <2>2, <3>1
    <3>2. CASE ~(j <= m)
      <4>1. q[j].boundary = f - l
        BY <1>8, <2>2, <3>2
      <4> HIDE DEF b
      <4>2. b <= f - l
        BY <1>10, <2>1
      <4> QED  BY <4>1, <4>2
    <3> QED  BY <3>1, <3>2
  <2> HIDE DEF b
  <2>3. b + l <= Horizon
    BY <1>6, <1>10, <2>1
  <2> QED  BY <2>1, <2>2, <2>3 DEF b, f, l
<1>12. CASE ~(i <= m)
  <2>1. i = m + 1 /\ q[i].boundary = f - l
    BY <1>8, <1>12
  <2>2. ASSUME NEW j \in 1..Len(q), i < j, q[j].boundary # NoBoundary
        PROVE  FALSE
    <3>1. ~(j <= m)
      BY <1>5, <2>1, <2>2
    <3>2. j = m + 1
      BY <1>8, <2>2, <3>1
    <3> QED  BY <1>5, <2>1, <2>2, <3>2
  <2>3. (f - l) + l = f
    BY <1>10
  <2>4. q[i].boundary + l <= Horizon /\ q[i].boundary + l <= f
    BY <1>6, <1>10, <2>1, <2>3
  <2> QED  BY <2>2, <2>4 DEF f, l
<1> QED  BY <1>11, <1>12

LEMMA BoundariesInit ==
  ASSUME Init
  PROVE  BoundariesOK
<1>1. sch.plan = NoPlan /\ \A d \in Devices : Len(inbox[d]) = 0
  BY EmptySeq DEF Init, Created
<1> QED  BY <1>1 DEF BoundariesOK

LEMMA BoundariesStep ==
  ASSUME ClientOK, BoundariesOK, [Next]_vars
  PROVE  BoundariesOK'
<1>1. ClientOK' /\ SchedulerOK(sch) /\ now \in Int
      /\ inbox \in [Devices -> Seq(Orders)]
  BY NextOK, StateTypes DEF ClientOK, StateOK
<1> DEFINE PlanStep == \/ sch'.plan = sch.plan \/ sch'.plan = NoPlan
                       \/ sch'.plan \in Plans /\ sch'.plan.from = Horizon
           QueueStep == \/ inbox' = inbox \/ inbox' = [inbox EXCEPT !.arm = <<>>]
                        \/ \E e \in Devices : \E n \in Takes(e) :
                             inbox' = [inbox EXCEPT ![e] = SubSeq(@, n + 1, Len(@))]
<1>2. ASSUME PlanStep, QueueStep, now' \in {now, now + 1} PROVE BoundariesOK'
  <2>1. ASSUME NEW d \in Devices PROVE \E off \in Nat : Shifted(d, off)
    <3>1. CASE inbox'[d] = inbox[d] \/ inbox'[d] = <<>>
      BY <1>1, <3>1, ShiftedBySteps
    <3>2. CASE \E n \in Takes(d) : inbox'[d] = SubSeq(inbox[d], n + 1, Len(inbox[d]))
      <4>1. Takes(d) \subseteq Nat
        BY InboxType DEF Takes
      <4> QED  BY <3>2, <4>1, ShiftedBySteps
    <3>3. \/ inbox'[d] = inbox[d] \/ inbox'[d] = <<>>
          \/ \E n \in Takes(d) : inbox'[d] = SubSeq(inbox[d], n + 1, Len(inbox[d]))
      BY <1>1, <1>2
    <3> QED  BY <3>1, <3>2, <3>3
  <2> QED  BY <1>1, <1>2, <2>1, BoundariesKept
<1>3. CASE Tick \/ NoAnswer \/ UNCHANGED vars
  BY <1>2, <1>3 DEF Tick, NoAnswer, vars, devices
<1>4. CASE Start
  BY <1>2, <1>4 DEF Start, devices, Activate, Created
<1>5. ASSUME NEW s, Become(s), s.plan = sch.plan, now' = now PROVE BoundariesOK'
  BY <1>2, <1>5 DEF Become, devices
<1>6. CASE Pause \/ AnswerFails
  <2>1. now' = now /\ \/ UNCHANGED <<sch, devices>>
                      \/ \E reason : Become(Hold(sch, reason))
    BY <1>6 DEF Pause, AnswerFails
  <2> QED  BY <1>1, <1>2, <1>5, <2>1, OperationsKeepPlan DEF devices
<1>7. CASE Observe
  <2> DEFINE a == Advance(ObserveController(sch, Setpoint(now)), now)
  <2>1. now' = now /\ \/ UNCHANGED <<sch, devices>>
                      \/ Become(a) \/ \E reason : Become(Hold(a, reason))
    BY <1>7 DEF Observe
  <2>2. a.plan = sch.plan /\ \A reason : Hold(a, reason).plan = sch.plan
    BY <1>1, OperationsKeepPlan
  <2> HIDE DEF a
  <2> QED  BY <1>2, <1>5, <2>1, <2>2 DEF devices
<1>8. ASSUME NEW slope \in Slopes, Answer(slope) PROVE BoundariesOK'
  <2>1. PlanStep
    BY <1>8, AnswerPlan
  <2>2. now' = now /\ (UNCHANGED devices \/ \E s : Become(s))
    BY <1>8 DEF Answer
  <2>3. QueueStep
    BY <2>2 DEF Become, devices
  <2> QED  BY <1>2, <2>1, <2>2, <2>3
<1>9. CASE RequestAndPop
  <2> DEFINE asked == Requested(sch)
  <2>1. now' = now /\ (Become(asked) \/ \E taken : Become(PopBatch(asked, taken, now)))
    BY <1>9 DEF RequestAndPop
  <2>2. SchedulerOK(asked) /\ asked.plan = sch.plan
    BY RequestedOK
  <2> HIDE DEF asked
  <2>3. \A taken : PopBatch(asked, taken, now).plan = sch.plan
    BY <2>2, OperationsKeepPlan
  <2> QED  BY <1>5, <2>1, <2>2, <2>3
<1>10. CASE ExecActions
  <2>1. CASE BoundaryRejected
    BY <1>2, <1>10, <2>1 DEF ExecActions, devices
  <2>2. CASE ~BoundaryRejected
    <3>1. /\ inbox' = [d \in Devices |-> inbox[d] \o Waypoints(d)]
          /\ now' = now /\ phase \in {"popped", "sending"} /\ sch' = Requested(sch)
      BY <1>10, <2>2 DEF ExecActions
    <3>2. batch # {}
      BY <3>1 DEF ClientOK, BatchOK
    <3>3. sch'.plan = sch.plan /\ Horizon' = Horizon
      BY <3>1, RequestedOK DEF Horizon
    <3>4. sch'.plan # NoPlan => sch'.plan.from <= Horizon'
      BY <3>3 DEF BoundariesOK
    <3>5. ASSUME NEW d \in Devices, NEW i \in 1..Len(inbox'[d]),
                 inbox'[d][i].boundary # NoBoundary
          PROVE  /\ inbox'[d][i].boundary + Latency[d] <= Horizon
                 /\ inbox'[d][i].boundary + Latency[d] <= sch.plan.from
                 /\ \A j \in 1..Len(inbox'[d]) :
                      i < j /\ inbox'[d][j].boundary # NoBoundary
                        => inbox'[d][i].boundary <= inbox'[d][j].boundary
      <4>1. inbox'[d] = inbox[d] \o Waypoints(d)
        BY <3>1
      <4> QED  BY <2>2, <3>2, <3>5, <4>1, BoundariesAppended
    <3> QED  BY <3>3, <3>4, <3>5 DEF BoundariesOK
  <2> QED  BY <2>1, <2>2
<1>11. CASE \/ \E n \in Takes("arm") : DrainArm(n)
            \/ \E n \in Takes("grip") : DrainGrip(n)
  <2>1. UNCHANGED <<now, sch>>
    BY <1>11 DEF DrainArm, DrainGrip
  <2>2. QueueStep
    BY <1>11 DEF DrainArm, DrainGrip, Devices
  <2> QED  BY <1>2, <2>1, <2>2
<1> QED
  BY <1>3, <1>4, <1>6, <1>7, <1>8, <1>9, <1>10, <1>11 DEF Next, Client

LEMMA KeptUntilIs ==
  ASSUME ClientOK, NEW d \in Devices, NEW v, v = KeptUntil(d)
  PROVE  /\ v \in Int /\ v <= Final(path[d])
         /\ \A i \in 1..Len(inbox[d]) :
              inbox[d][i].boundary # NoBoundary => v <= inbox[d][i].boundary
<1> DEFINE starts == {inbox[d][i].boundary : i \in DOMAIN inbox[d]} \ {NoBoundary}
           T == starts \union {Final(path[d])}
           lo == Min2(0, Final(path[d]))
<1>1. /\ DOMAIN inbox[d] = 1..Len(inbox[d])
      /\ \A i \in 1..Len(inbox[d]) : inbox[d][i].boundary \in Nat
  BY InboxType, LenProperties
<1>2. Final(path[d]) \in Int
  BY FinalType DEF ClientOK, StateOK
<1>3. \A t \in T : t \in Int /\ lo <= t
  <2>1. \A t \in starts : t \in Nat
    BY <1>1
  <2> HIDE DEF starts
  <2> QED  BY <1>2, <2>1 DEF Min2
<1>4. T # {} /\ lo \in Int
  BY <1>2 DEF Min2
<1>5. v = CHOOSE t \in T : \A u \in T : t <= u
  BY DEF KeptUntil
<1>6. \A i \in 1..Len(inbox[d]) :
        inbox[d][i].boundary # NoBoundary => inbox[d][i].boundary \in T
  BY <1>1
<1>7. Final(path[d]) \in T
  OBVIOUS
<1> HIDE DEF T, lo
<1>8. \E t \in T : \A u \in T : t <= u
  BY <1>3, <1>4, LeastElement
<1>9. v \in T /\ \A u \in T : v <= u
  BY <1>5, <1>8
<1> QED  BY <1>3, <1>6, <1>7, <1>9

(* Every waypoint that a drain takes comes in its turn: no speed limit has *)
(* stretched the path beyond it.                                           *)
InTurn ==
  /\ \A n \in Takes("arm") : DrainArm(n) =>
       \A i \in 1..n : Turns(ArmPaths(n, Curr.arm)[i - 1], inbox.arm[i], Curr.arm)
  /\ \A n \in Takes("grip") : DrainGrip(n) /\ settled =>
       \A i \in 1..n : Turns(GripPaths(n)[i - 1].path, inbox.grip[i], Curr.grip)

LEMMA DeviceKeeps ==
  ASSUME ClientOK, BoundariesOK, NEW d \in Devices, NEW n \in Takes(d),
         NEW q, NEW curr \in Int, NEW speed \in Nat, First(path[d]) <= curr,
         q[0] = path[d],
         \A k \in 0..n : q[k] \in Paths,
         \A k \in 1..n : /\ Turns(q[k - 1], inbox[d][k], curr)
                         /\ q[k] = Schedule(q[k - 1], inbox[d][k], curr, speed)
  PROVE  Follows(q[n], path[d], curr, KeptUntil(d), 0)
<1> DEFINE w == inbox[d]
           v == KeptUntil(d)
<1>1. n \in 0..Len(w) /\ n \in Nat /\ \A k \in 1..n : k \in 1..Len(w) /\ w[k] \in Orders
  BY TakenType, InboxType
<1>2. /\ v \in Int /\ v <= Final(q[0])
      /\ \A k \in 1..Len(w) : w[k].boundary # NoBoundary => v <= w[k].boundary
  BY KeptUntilIs
<1>3. \A j \in 1..n : \A k \in 1..n :
        j < k /\ w[j].boundary # NoBoundary /\ w[k].boundary # NoBoundary
          => w[j].boundary <= w[k].boundary
  BY <1>1 DEF BoundariesOK
<1>4. \A k \in 1..n : w[k].boundary # NoBoundary => v <= w[k].boundary
  BY <1>1, <1>2
<1>5. \A k \in 1..n : w[k] \in Orders /\ Turns(q[k - 1], w[k], curr)
                        /\ q[k] = Schedule(q[k - 1], w[k], curr, speed)
  BY <1>1
<1> HIDE DEF w
<1>6. SUFFICES ASSUME NEW t \in curr..v
               PROVE  Distance(At(q[n], t), At(path[d], t + 0)) <= 2
  BY DEF Follows, Tolerance
<1> HIDE DEF v
<1>7. t \in Int /\ curr <= t /\ t <= v /\ t + 0 = t /\ curr <= v
  BY <1>2, <1>6
<1>8. Close(q[n], q[0], curr, v, 2)
  BY <1>1, <1>2, <1>3, <1>4, <1>5, <1>7, DrainKeeps
<1> QED  BY <1>7, <1>8 DEF Close

LEMMA ArmKeeps ==
  ASSUME ClientOK, FirstsOK, BoundariesOK, InTurn, NEW n \in Takes("arm"), DrainArm(n)
  PROVE  Keeps("arm")
<1> DEFINE q == ArmPaths(n, Curr.arm)
<1>1. Curr.arm = now + ArmPeriod /\ Curr["arm"] = now + ArmPeriod /\ now + ArmPeriod \in Int
      /\ "arm" \in Devices
  BY StateTypes, Constants DEF Curr, Devices, ClientOK
<1>2. n \in 0..Len(inbox.arm)
  BY <1>1, TakenType
<1>3. /\ q[0] = path.arm
      /\ \A k \in 1..n : q[k] = Schedule(q[k - 1], inbox.arm[k], Curr.arm, ArmSpeed + 1)
      /\ \A k \in 0..n : q[k] \in Paths
  BY <1>1, <1>2, ArmPathsType DEF ClientOK, StateOK
<1>4. path'["arm"] = q[n]
  <2>1. path' = [path EXCEPT !.arm = ArmPaths(n, now + ArmPeriod)[n]]
    BY DEF DrainArm
  <2> QED  BY <1>1, <2>1 DEF ClientOK, StateOK
<1>5. \A k \in 1..n : Turns(q[k - 1], inbox.arm[k], Curr.arm)
  BY DEF InTurn
<1> HIDE DEF q
<1> DEFINE curr == Curr["arm"]
<1>6. curr \in Int /\ ArmSpeed + 1 \in Nat /\ First(path["arm"]) <= curr
  BY <1>1, Constants DEF FirstsOK
<1>7. \A k \in 1..n : /\ Turns(q[k - 1], inbox["arm"][k], curr)
                      /\ q[k] = Schedule(q[k - 1], inbox["arm"][k], curr, ArmSpeed + 1)
  BY <1>3, <1>5
<1> HIDE DEF curr
<1>8. Follows(q[n], path["arm"], curr, KeptUntil("arm"), 0)
  BY <1>1, <1>3, <1>6, <1>7, DeviceKeeps
<1> QED  BY <1>4, <1>8 DEF Keeps, curr

LEMMA GripKeeps ==
  ASSUME ClientOK, FirstsOK, BoundariesOK, InTurn, settled,
         NEW n \in Takes("grip"), DrainGrip(n)
  PROVE  Keeps("grip")
<1> DEFINE g(k) == GripPaths(n)[k]
           q == [k \in 0..n |-> g(k).path]
<1>1. Curr.grip = now /\ Curr["grip"] = now /\ now \in Int /\ "grip" \in Devices
  BY StateTypes DEF Curr, Devices, ClientOK
<1>2. n \in 0..Len(inbox.grip) /\ n \in Nat
  BY <1>1, TakenType, InboxType
<1>3. /\ g(0) = [path |-> path.grip, policy |-> policy]
      /\ \A k \in 1..n : g(k) = GripAfter(g(k - 1), inbox.grip[k])
      /\ \A k \in 0..n : g(k) \in [path : Paths, policy : Paths]
  BY <1>1, <1>2, GripPathsType DEF ClientOK, StateOK
<1>4. path'["grip"] = g(n).path
  <2>1. path' = [path EXCEPT !.grip = GripPaths(n)[n].path]
    BY DEF DrainGrip
  <2> QED  BY <1>1, <2>1 DEF ClientOK, StateOK
<1>5. \A k \in 1..n : Turns(g(k - 1).path, inbox.grip[k], now)
  BY <1>1 DEF InTurn
<1> HIDE DEF g
<1>6. \A k \in 1..n : k - 1 \in 0..n /\ k \in 0..n
  BY <1>2
<1>7. 0 \in 0..n /\ n \in 0..n
  BY <1>2
<1>8. /\ q[0] = path["grip"] /\ q[n] = g(n).path
      /\ \A k \in 0..n : q[k] \in Paths
  BY <1>3, <1>7
<1>9. ASSUME NEW k \in 1..n
      PROVE  /\ Turns(q[k - 1], inbox["grip"][k], now)
             /\ q[k] = Schedule(q[k - 1], inbox["grip"][k], now, GripperSpeed + 1)
  <2>1. q[k - 1] = g(k - 1).path /\ q[k] = g(k).path
    BY <1>6
  <2>2. g(k).path = Schedule(g(k - 1).path, inbox.grip[k], now, GripperSpeed + 1)
    BY <1>3 DEF GripAfter
  <2> QED  BY <1>5, <2>1, <2>2
<1> HIDE DEF q
<1>10. GripperSpeed + 1 \in Nat /\ First(path["grip"]) <= now
  BY Constants DEF FirstsOK
<1>11. Follows(q[n], path["grip"], now, KeptUntil("grip"), 0)
  BY <1>1, <1>8, <1>9, <1>10, DeviceKeeps
<1> QED  BY <1>1, <1>4, <1>8, <1>11 DEF Keeps

PrefixStep ==
  \A d \in Devices :
    /\ inbox'[d] # inbox[d] /\ path'[d] # path[d] /\ sch'.state = sch.state
    /\ d = "grip" => settled
    => Keeps(d)

LEMMA StepKeepsPrefix ==
  ASSUME ClientOK, FirstsOK, BoundariesOK, Next, InTurn
  PROVE  PrefixStep
<1>1. SUFFICES ASSUME NEW d \in Devices, path'[d] # path[d], sch'.state = sch.state,
                      d = "grip" => settled
               PROVE  Keeps(d)
  BY DEF PrefixStep
<1>2. CASE \E n \in Takes("arm") : DrainArm(n)
  <2>1. path'.grip = path.grip
    BY <1>2 DEF DrainArm, ClientOK, StateOK, Devices
  <2>2. d = "arm"
    BY <1>1, <2>1 DEF Devices
  <2> QED  BY <1>2, <2>2, ArmKeeps
<1>3. CASE \E n \in Takes("grip") : DrainGrip(n)
  <2>1. path'.arm = path.arm
    BY <1>3 DEF DrainGrip, ClientOK, StateOK, Devices
  <2>2. d = "grip"
    BY <1>1, <2>1 DEF Devices
  <2> QED  BY <1>1, <1>3, <2>2, GripKeeps
<1>4. path' # path
  BY <1>1
<1>5. CASE Client
  <2>1. path' = path \/ \E s : Become(s)
    BY <1>5 DEF Client, Start, Pause, Observe, NoAnswer, Answer, AnswerFails, RequestAndPop,
                ExecActions, devices
  <2> QED  BY <1>1, <1>4, <2>1 DEF Become, devices
<1>6. CASE Tick
  BY <1>4, <1>6 DEF Tick, devices
<1> QED  BY <1>2, <1>3, <1>5, <1>6 DEF Next

(* Up to the first boundary in its queue, a drain of any number of         *)
(* waypoints, of one plan or of several, of any lengths and under any      *)
(* speed limit, moves the setpoint of neither device by more than the      *)
(* Tolerance, as long as they come in their turn                           *)
(* (author_sync.py:327-331, pose_trajectory_interpolator.py:115-127).      *)
(* Each knot that Trim puts on a segment is rounded down; the rounding     *)
(* does not add up over a long queue, since only the first cut without a   *)
(* boundary and the first one with a boundary can move the setpoint.       *)
THEOREM PrefixStays == Spec /\ [][InTurn]_vars => PrefixKept
<1> DEFINE I == ClientOK /\ FirstsOK /\ BoundariesOK
<1>1. Init => I
  BY InitOK, FirstsInit, BoundariesInit
<1>2. I /\ [Next]_vars => I'
  BY NextOK, FirstsStep, BoundariesStep
<1>3. I /\ [Next]_vars /\ [InTurn]_vars => [PrefixStep]_vars
  BY StepKeepsPrefix
<1>4. PrefixKept <=> [][PrefixStep]_vars
  BY PTL DEF PrefixKept, PrefixStep
<1> QED  BY <1>1, <1>2, <1>3, <1>4, PTL DEF Spec
=============================================================================
