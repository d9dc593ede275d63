--------------------------- MODULE GripperHandoff ---------------------------
(***************************************************************************)
(* The right hand goes first (--sync-right-before-left): the intent state  *)
(* of the author-sync scheduler, which lets the left arm move only after   *)
(* the right gripper has opened, closed and opened again; the operator's   *)
(* pauses, resumptions and gripper preparation; the right gripper's        *)
(* setpoint, its CAN node and an object between its fingers.               *)
(* A tick is .08 s and an angle is counted in quarter degrees.             *)
(***************************************************************************)
EXTENDS GripperCanNode, Sequences

CONSTANTS
  Requests,    \* the openings the policy asks for
  Objects,     \* the widths of the things it may grip
  Soft,        \* by how much each of them gives way
  CloseDeg, OpenDeg, \* the compensation, gripper_*_compensation_deg
  OpenLimit,   \* GRIPPER_SAFE_OPEN_DEG
  StartDeg,    \* gripper_start_degrees
  Travel       \* of the setpoint and of the motor, per tick

ASSUME GripperHandoffAssumption ==
  /\ Requests \cup Objects \subseteq Nat /\ Soft \in [Objects -> Nat]
  /\ {CloseDeg, OpenDeg, OpenLimit, StartDeg, Travel} \subseteq Nat
  /\ None \notin [stage : {"rearm", "close"}, goal : Nat]

IntentReversal == 2   \* INTENT_REVERSAL_DEG, half a degree
GoalMargin == 4       \* an opening one degree beyond the measured one is a goal
GoalTolerance == 2    \* half a degree short of the goal will do
Dwell == 2            \* .16 s
RearmStep == 8        \* prepare_grippers_for_runtime opens two degrees first
RearmTolerance == 1
StartTolerance == 2
ReadyTolerance == 10  \* gripper_ready_tolerance_deg

Least(a, b) == IF a < b THEN a ELSE b
Most(a, b) == IF a > b THEN a ELSE b
Near(a, b, tolerance) == a - b <= tolerance /\ b - a <= tolerance
Toward(from, to) == IF to >= from THEN Least(to, from + Travel) ELSE Most(to, from - Travel)

VARIABLES
  turn,      \* "tick": time passes next; "pass": the client's loop runs next
  state,     \* RunState of the scheduler
  intent,    \* _gripper_intents[0], or None
  gate,      \* _right_opened, _right_closed, _right_release_goal, ...
  prepared,  \* grippers_prepared
  preparing, \* the stage of prepare_grippers_for_runtime, or None
  plan,      \* the targets the right gripper's controller has yet to reach
  left,      \* where the present plan takes the left arm: "still" or "moving"
  setpoint,  \* the opening that controller sends to the CAN node
  measured,  \* the opening the motor reports
  object,    \* what is between the fingers, or None
  node,      \* the CAN node
  story,     \* how much of open, close, open the committed intents have told
  lowest,    \* the least opening measured since that close
  reached,   \* for so many ticks the measured opening has been near the goal
  earned,    \* the left arm was released as the README says
  pressedBy, \* the request at which the grip was latched
  oldLatch,  \* a latch from before the preparation is still there
  steady     \* from now on the policy repeats this request; None otherwise

hand == <<setpoint, measured, object, node, pressedBy, oldLatch>>
ghosts == <<story, lowest, reached, earned, steady>>
vars == <<turn, state, intent, gate, prepared, preparing, plan, left, hand, ghosts>>
-----------------------------------------------------------------------------
(* GripperIntent.advance.                                                  *)
AdvanceIntent(i, requested) ==
  LET opens == requested >= i.extreme + IntentReversal
      closes == requested <= i.extreme - IntentReversal
  IN IF i.direction <= 0 /\ opens THEN [extreme |-> requested, direction |-> 1]
     ELSE IF i.direction >= 0 /\ closes THEN [extreme |-> requested, direction |-> -1]
     ELSE [i EXCEPT !.extreme = IF i.direction < 0 THEN Least(@, requested)
                                ELSE IF i.direction > 0 THEN Most(@, requested) ELSE @]

(* compensate_grippers: the target of a request under an intent.           *)
Compensated(i, requested) ==
  LET offset == IF i.direction < 0 THEN -CloseDeg ELSE IF i.direction > 0 THEN OpenDeg ELSE 0
      x == requested + offset
  IN Least(Most(x, 0), OpenLimit)

NewGate == [opened |-> FALSE, closed |-> FALSE, goal |-> None, since |-> None, released |-> FALSE]

(* Grippers near enough to the start pose count as prepared before any     *)
(* [r]; the other hand may not be.                                         *)
Init ==
  /\ turn = "tick" /\ state = "HOLD" /\ intent = None /\ gate = NewGate /\ preparing = None
  /\ plan = <<>> /\ left = "still"
  /\ object \in Objects \cup {None}
  /\ setpoint = StartDeg
  /\ measured = IF object = None THEN StartDeg ELSE Most(StartDeg, object)
  /\ prepared \in {FALSE, Near(measured, StartDeg, ReadyTolerance)}
  /\ node = Ready /\ pressedBy = None /\ oldLatch = FALSE
  /\ story = 0 /\ lowest = 0 /\ reached = 0 /\ earned = FALSE /\ steady = None
-----------------------------------------------------------------------------
(* One tick of the gripper's controller, the CAN node and the motor.  A    *)
(* blocked motor reports a stall or not, and what blocks it may give way.  *)
Tick ==
  /\ turn = "tick" /\ turn' = "pass"
  /\ setpoint' = IF plan = <<>> THEN setpoint ELSE Toward(setpoint, Head(plan))
  /\ plan' = IF plan # <<>> /\ setpoint' = Head(plan) THEN Tail(plan) ELSE plan
  /\ \E stalled, yields \in BOOLEAN :
       LET request == Clamped(setpoint')
           blocked == object # None /\ measured <= object
           cycled == RunCycle(node, request, measured, stalled)
           give == IF yields THEN Soft[object] ELSE 0
           stop == IF object = None THEN 0 ELSE Least(object - give, measured)
       IN /\ stalled => blocked
          /\ node' = cycled
          /\ measured' = Most(Toward(measured, Effective(cycled, request)), stop)
          /\ pressedBy' = IF ~cycled.latched THEN None
                           ELSE IF node.latched THEN pressedBy ELSE request
          /\ oldLatch' = (oldLatch /\ cycled.latched)
  /\ gate' = [gate EXCEPT !.since = IF @ = None THEN None ELSE Least(@ + 1, Dwell)]
  /\ reached' = IF ~gate.released /\ gate.goal # None /\ measured' >= gate.goal - GoalTolerance
                THEN Least(reached + 1, Dwell + 1) ELSE 0
  /\ lowest' = IF gate.released THEN 0 ELSE Least(lowest, measured')
  /\ UNCHANGED <<state, intent, prepared, preparing, left, object, story, earned, steady>>

(* An object is taken or dropped while the fingers are wider than it.      *)
ObjectMoves ==
  /\ turn = "tick" /\ steady = None
  /\ LET wider == {o \in Objects : o < measured} \cup {None}
     IN object \in wider /\ object' \in wider \ {object}
  /\ UNCHANGED <<turn, state, intent, gate, prepared, preparing, plan, left, setpoint,
                 measured, node, pressedBy, oldLatch, ghosts>>
-----------------------------------------------------------------------------
(* What advance makes of the gate.                                         *)
AdvanceGate(g) ==
  IF g.released \/ g.goal = None THEN g
  ELSE IF measured >= g.goal - GoalTolerance
  THEN LET start == IF g.since = None THEN 0 ELSE g.since
       IN [g EXCEPT !.since = start, !.released = start >= Dwell]
  ELSE [g EXCEPT !.since = None]

(* A new goal that inherits the time spent near the old one.               *)
CommitGateKeepsDwell(g, i, j, x) ==
  LET isOpened == g.opened \/ j.direction > 0
      isClosed == g.closed \/ (isOpened /\ j.direction < 0)
      sets == isClosed /\ i.direction < 0 /\ j.direction > 0 /\ x > measured + GoalMargin
  IN IF g.released THEN g
     ELSE [g EXCEPT !.opened = isOpened, !.closed = isClosed, !.goal = IF sets THEN x ELSE @]

(* What merge_chunk makes of it when the intent goes from i to j and the   *)
(* first target is x.                                                      *)
CommitGate(g, i, j, x) ==
  LET isOpened == g.opened \/ j.direction > 0
      isClosed == g.closed \/ (isOpened /\ j.direction < 0)
      sets == isClosed /\ i.direction < 0 /\ j.direction > 0 /\ x > measured + GoalMargin
  IN IF g.released THEN g
     ELSE [opened |-> isOpened, closed |-> isClosed, released |-> FALSE,
           goal |-> IF sets THEN x ELSE g.goal, since |-> IF sets THEN None ELSE g.since]

(* The hand-over as the README tells it.                                   *)
Handed(g) ==
  earned' = (earned \/ (g.released /\ story = 3 /\ reached > Dwell
                          /\ measured > lowest + GoalTolerance))

Told(j) ==
  IF story < 3 /\ j.direction = (IF story = 1 THEN -1 ELSE 1) THEN story + 1 ELSE story

(* A pass that merges nothing.                                             *)
Pass ==
  /\ turn = "pass" /\ preparing = None /\ turn' = "tick"
  /\ IF state = "ACTIVE"
     THEN gate' = AdvanceGate(gate) /\ Handed(gate')
     ELSE UNCHANGED <<gate, earned>>
  /\ UNCHANGED <<state, intent, prepared, preparing, plan, left, hand, story, lowest,
                 reached, steady>>

(* A pass that merges a chunk: its first fresh request and where its       *)
(* horizon leads.                                                          *)
Merge(first, later) ==
  /\ turn = "pass" /\ state = "ACTIVE" /\ turn' = "tick"
  /\ LET g == AdvanceGate(gate)
         i == AdvanceIntent(intent, first)
         j == AdvanceIntent(i, later)
         x == Compensated(i, first)
     IN /\ Handed(g)
        /\ plan' = <<x, Compensated(j, later)>>
        /\ left' = IF g.released THEN "moving" ELSE "still"
        /\ gate' = CommitGate(g, intent, i, x)
        /\ intent' = i
        /\ story' = Told(i)
        /\ lowest' = IF story = 1 /\ story' = 2 THEN measured ELSE lowest
        /\ reached' = IF gate'.goal # gate.goal THEN 0 ELSE reached
  /\ UNCHANGED <<state, prepared, preparing, hand, steady>>

MergeChunk ==
  \E first, later \in IF steady = None THEN Requests ELSE {steady} : Merge(first, later)

(* [s] and whatever else makes a HOLD before advance; a chunk refused or a *)
(* round completed after it.  The arms stop; the gripper's plan goes on.   *)
Hold ==
  /\ turn = "pass" /\ state = "ACTIVE" /\ turn' = "tick"
  /\ state' = "HOLD" /\ left' = "still" /\ steady' = None
  /\ \/ UNCHANGED <<gate, earned>>
     \/ gate' = AdvanceGate(gate) /\ Handed(gate')
  /\ UNCHANGED <<intent, prepared, preparing, plan, hand, story, lowest, reached>>

(* [d]: activate, which takes the episode up where it was unless [r] has   *)
(* reset it, and the advance of the same pass.                             *)
Start ==
  /\ turn = "pass" /\ state = "HOLD" /\ preparing = None /\ prepared /\ turn' = "tick"
  /\ state' = "ACTIVE"
  /\ IF intent # None
     THEN /\ gate' = AdvanceGate([gate EXCEPT !.since = None])
          /\ Handed(gate')
          /\ UNCHANGED <<intent, story, lowest, reached>>
     ELSE /\ intent' = [extreme |-> measured, direction |-> 0]
          /\ gate' = NewGate
          /\ story' = 0 /\ lowest' = 0 /\ reached' = 0 /\ earned' = FALSE
  /\ UNCHANGED <<prepared, preparing, plan, left, hand, steady>>
-----------------------------------------------------------------------------
(* A preparation that closes at once.                                      *)
PressReadyClosesOnly ==
  /\ turn = "pass" /\ state = "HOLD" /\ preparing = None
  /\ preparing' = [stage |-> "close", goal |-> StartDeg] /\ plan' = <<StartDeg>>
  /\ oldLatch' = node.latched
  /\ UNCHANGED <<turn, state, intent, gate, prepared, left, setpoint, measured, object, node,
                 pressedBy, ghosts>>

(* [r]: prepare_grippers_for_runtime, its two stages and its failure.      *)
PressReady ==
  /\ turn = "pass" /\ state = "HOLD" /\ preparing = None
  /\ preparing' = [stage |-> "rearm", goal |-> Least(measured + RearmStep, OpenLimit)]
  /\ plan' = <<preparing'.goal>>
  /\ oldLatch' = node.latched
  /\ UNCHANGED <<turn, state, intent, gate, prepared, left, setpoint, measured, object, node,
                 pressedBy, ghosts>>

StageReached ==
  /\ preparing # None /\ turn = "pass"
  /\ Near(measured, preparing.goal,
          IF preparing.stage = "rearm" THEN RearmTolerance ELSE StartTolerance)
  /\ IF preparing.stage = "rearm"
     THEN /\ preparing' = [stage |-> "close", goal |-> StartDeg]
          /\ plan' = <<StartDeg>>
          /\ UNCHANGED <<prepared, intent>>
     ELSE /\ preparing' = None /\ prepared' = TRUE /\ intent' = None
          /\ UNCHANGED plan
  /\ UNCHANGED <<turn, state, gate, left, hand, ghosts>>

StageWaits ==
  /\ preparing # None /\ turn = "pass" /\ turn' = "tick"
  /\ UNCHANGED <<state, intent, gate, prepared, preparing, plan, left, hand, ghosts>>

(* A stage's five seconds are over: the gripper is frozen where it is.     *)
PreparationFails ==
  /\ preparing # None /\ turn = "pass"
  /\ preparing' = None /\ prepared' = FALSE /\ plan' = <<measured>>
  /\ UNCHANGED <<turn, state, intent, gate, left, hand, ghosts>>

(* From here on the policy asks for one opening, no smaller than the goal. *)
PolicySettles ==
  /\ turn = "pass" /\ state = "ACTIVE" /\ steady = None
  /\ gate.goal # None /\ ~gate.released
  /\ \E r \in Requests :
       LET i == AdvanceIntent(intent, r)
       IN /\ intent.direction > 0 /\ i.direction > 0 /\ Compensated(i, r) >= gate.goal
          /\ steady' = r
  /\ UNCHANGED <<turn, state, intent, gate, prepared, preparing, plan, left, hand, story,
                 lowest, reached, earned>>

Next ==
  \/ Tick \/ ObjectMoves
  \/ Pass \/ MergeChunk \/ Hold \/ Start
  \/ PressReady \/ StageReached \/ StageWaits \/ PreparationFails
  \/ PolicySettles

Spec == Init /\ [][Next]_vars

(* Time passes, the loop goes round, and each request of a round that goes *)
(* on is answered with a chunk that can be merged.                         *)
FairSpec == Spec /\ WF_vars(Tick) /\ WF_vars(Pass) /\ SF_vars(MergeChunk)
-----------------------------------------------------------------------------
(* The left arm moves only in an episode in which the right hand was told  *)
(* to open, to close and to open again, has measurably opened since that   *)
(* close, and has then stayed within half a degree of the goal for .16 s;  *)
(* pauses, refused chunks and horizons that turn back change nothing.      *)
LeftAfterRight == left = "moving" => earned

(* A latched grip is let go only by a request more open than the one that  *)
(* pressed it by the re-arm delta, less what the fingers have closed since *)
(* then: no more than the object gives way, and no more than the node      *)
(* closes a latched grip further.  A hard object is never let go by the    *)
(* request that pressed it; a soft one is by less than that, as            *)
(* stall_release.hpp wants it of a finger that has compressed the object.  *)
GripHeld ==
  [][node.latched /\ ~node'.latched =>
       setpoint' + Least(Soft[object], ReleaseExtra) > pressedBy + RearmDelta]_vars

(* Grippers that count as prepared no longer hold the grip they had when   *)
(* [r] was pressed: the start angle is not reached by a latched hold.      *)
PreparedMeansRearmed == prepared /\ preparing = None => ~oldLatch

(* Once the second opening has its goal and the policy keeps asking for    *)
(* it, the left arm is released, or there is a HOLD: no latched grip stops *)
(* the opening short of its goal.                                          *)
OpeningReleasesLeft == steady # None ~> gate.released \/ state = "HOLD"
=============================================================================
