------------------------ MODULE GripperHandoffProofs ------------------------
(***************************************************************************)
(* Proofs about GripperHandoff, for every set of requests and of objects,  *)
(* every travel, compensation and limit: the left arm moves only after the *)
(* right hand has opened, closed and opened again; a latched grip holds;   *)
(* prepared grippers have let go of their old grip.                        *)
(***************************************************************************)
EXTENDS GripperHandoff, TLAPS

Nodes == [latched : BOOLEAN, hold : Nat, tracked : Nat \cup {None}]
Preparations == [stage : {"rearm", "close"}, goal : Nat]

HandTypes ==
  /\ setpoint \in Nat /\ measured \in Nat /\ plan \in Seq(Nat)
  /\ object \in Objects \cup {None} /\ node \in Nodes /\ oldLatch \in BOOLEAN
  /\ preparing \in Preparations \cup {None} /\ steady \in Requests \cup {None}

(* While the grip is latched the fingers only close, the object stays      *)
(* between them, and neither can have moved far since the latch.           *)
Squeezed ==
  node.latched =>
    /\ object # None /\ measured <= object
    /\ pressedBy \in Nat /\ pressedBy <= object
    /\ pressedBy <= measured + Soft[object] /\ pressedBy <= node.hold + ReleaseExtra
    /\ node.hold <= measured
    /\ measured <= node.hold + ReleaseExtra \/ node.hold >= LowerLimit

(* A latch that survives the first stage of a preparation is one of nearly *)
(* open fingers.                                                           *)
Rearming ==
  oldLatch =>
    /\ node.latched
    /\ preparing # None /\ preparing.stage = "rearm" =>
         preparing.goal >= Least(measured + RearmStep, OpenLimit)
    /\ preparing # None /\ preparing.stage = "close" =>
         node.hold >= Least(LowerLimit, OpenLimit - RearmTolerance - ReleaseExtra)

HandInv == HandTypes /\ Squeezed /\ Rearming

ClosesToStart == preparing # None /\ preparing.stage = "close" => preparing.goal = StartDeg

(* The start angle is out of reach of a hold that began near the limit.    *)
StartIsNarrow ==
  /\ StartDeg + StartTolerance < LowerLimit
  /\ StartDeg + StartTolerance + RearmTolerance + ReleaseExtra < OpenLimit
-----------------------------------------------------------------------------
LEMMA Constants ==
  /\ LowerLimit \in Nat /\ ReleaseExtra \in Nat /\ RearmDelta \in Nat
  /\ \A o \in Objects : Soft[o] \in Nat
  /\ CloseDeg \in Nat /\ OpenDeg \in Nat /\ OpenLimit \in Nat /\ StartDeg \in Nat
  /\ Travel \in Nat /\ Requests \subseteq Nat /\ Objects \subseteq Nat
  /\ None \notin Nat /\ None \notin Preparations
BY GripperCanAssumption, GripperHandoffAssumption DEF Preparations

LEMMA ClampedFacts ==
  ASSUME NEW x \in Int
  PROVE  /\ Clamped(x) \in Nat /\ Clamped(x) <= LowerLimit
         /\ Clamped(x) > x => x < 0
         /\ Clamped(x) < x => Clamped(x) = LowerLimit
BY Constants DEF Clamped

LEMMA TowardFacts ==
  ASSUME NEW from \in Nat, NEW to \in Nat
  PROVE  Toward(from, to) \in Nat /\ (to <= from => to <= Toward(from, to) /\ Toward(from, to) <= from)
BY Constants DEF Toward, Least, Most

LEMMA LeastMonotone ==
  ASSUME NEW a \in Nat, NEW b \in Nat, a <= b, NEW limit \in Nat, NEW x \in Nat,
         x >= Least(b + RearmStep, limit)
  PROVE  x >= Least(a + RearmStep, limit)
BY DEF Least, RearmStep

LEMMA CompensatedTypes ==
  ASSUME NEW i, NEW requested \in Nat
  PROVE  Compensated(i, requested) \in Nat
<1> DEFINE offset == IF i.direction < 0 THEN -CloseDeg ELSE IF i.direction > 0 THEN OpenDeg ELSE 0
<1>1. offset \in Int  BY Constants
<1>2. requested + offset \in Int  BY <1>1
<1> HIDE DEF offset
<1>3. Least(Most(requested + offset, 0), OpenLimit) \in Nat  BY <1>2, Constants DEF Least, Most
<1> QED  BY <1>3 DEF Compensated, offset

LEMMA CycleCases ==
  ASSUME node \in Nodes, measured \in Nat, NEW request \in Nat, NEW stalled \in BOOLEAN,
         NEW cycled, cycled = RunCycle(node, request, measured, stalled)
  PROVE  /\ cycled \in Nodes
         /\ \/ node.latched /\ request <= measured + RearmDelta /\ cycled = node
            \/ /\ ~node.latched /\ stalled /\ request < measured
               /\ cycled.latched /\ cycled.hold = Clamped(measured - ReleaseExtra)
            \/ (node.latched => request > measured + RearmDelta) /\ ~cycled.latched
<1>1. Clamped(measured - ReleaseExtra) \in Nat  BY Constants, ClampedFacts
<1>2. Released(node, request, measured) <=> node.latched /\ request > measured + RearmDelta
  BY DEF Released, RequestsStallRelease
<1>3. CASE node.latched /\ ~Released(node, request, measured)
  BY <1>2, <1>3, Constants DEF RunCycle, Nodes
<1>4. CASE ~node.latched /\ Watched(node, request, measured) /\ stalled
  <2>1. cycled = [latched |-> TRUE, hold |-> Clamped(measured - ReleaseExtra), tracked |-> None]
    BY <1>4 DEF RunCycle
  <2>2. request < measured  BY <1>4 DEF Watched, Closing
  <2>3. cycled \in Nodes /\ cycled.latched /\ cycled.hold = Clamped(measured - ReleaseExtra)
    BY <1>1, <2>1 DEF Nodes
  <2> QED  BY <1>4, <2>2, <2>3
<1>5. CASE /\ ~node.latched \/ Released(node, request, measured)
           /\ ~(Watched(node, request, measured) /\ stalled)
  <2>1. cycled = [latched |-> FALSE, hold |-> 0,
                  tracked |-> IF Closing(request, measured) THEN request ELSE None]
    BY <1>5 DEF RunCycle
  <2> QED  BY <1>2, <1>5, <2>1 DEF Nodes
<1> QED  BY <1>3, <1>4, <1>5 DEF Watched, Released

(* The measured opening and the latch after a tick.                        *)
LEMMA TickHand ==
  ASSUME HandInv, Tick
  PROVE  HandInv' /\ (node.latched /\ ~node'.latched => setpoint' > measured + RearmDelta)
<1>t. /\ setpoint \in Nat /\ measured \in Nat /\ plan \in Seq(Nat) /\ node \in Nodes
      /\ object \in Objects \cup {None} /\ oldLatch \in BOOLEAN
  BY DEF HandInv, HandTypes
<1>1. setpoint' \in Nat /\ plan' \in Seq(Nat)
  <2>1. setpoint' = IF plan = <<>> THEN setpoint ELSE Toward(setpoint, Head(plan))
    BY DEF Tick
  <2>2. plan' = plan \/ (plan # <<>> /\ plan' = Tail(plan))  BY DEF Tick
  <2>3. plan # <<>> => Head(plan) \in Nat /\ Tail(plan) \in Seq(Nat)  BY <1>t
  <2> QED  BY <1>t, <2>1, <2>2, <2>3, TowardFacts
<1> DEFINE request == Clamped(setpoint')
<1>2. request \in Nat /\ request <= LowerLimit /\ request <= setpoint'
  BY <1>1, ClampedFacts, Constants
<1>3. PICK stalled, yields \in BOOLEAN :
        LET blocked == object # None /\ measured <= object
            cycled == RunCycle(node, request, measured, stalled)
            give == IF yields THEN Soft[object] ELSE 0
            stop == IF object = None THEN 0 ELSE Least(object - give, measured)
        IN /\ stalled => blocked
           /\ node' = cycled
           /\ measured' = Most(Toward(measured, Effective(cycled, request)), stop)
           /\ pressedBy' = IF ~cycled.latched THEN None
                           ELSE IF node.latched THEN pressedBy ELSE request
           /\ oldLatch' = (oldLatch /\ cycled.latched)
  BY DEF Tick
<1> DEFINE give == IF yields THEN Soft[object] ELSE 0
           stop == IF object = None THEN 0 ELSE Least(object - give, measured)
           goal == Effective(node', request)
<1>4. /\ stalled => object # None /\ measured <= object
      /\ node' = RunCycle(node, request, measured, stalled)
      /\ measured' = Most(Toward(measured, goal), stop)
      /\ pressedBy' = IF ~node'.latched THEN None
                      ELSE IF node.latched THEN pressedBy ELSE request
      /\ oldLatch' = (oldLatch /\ node'.latched)
  BY <1>3
<1>5. /\ node' \in Nodes
      /\ \/ node.latched /\ request <= measured + RearmDelta /\ node' = node
         \/ /\ ~node.latched /\ stalled /\ request < measured
            /\ node'.latched /\ node'.hold = Clamped(measured - ReleaseExtra)
         \/ (node.latched => request > measured + RearmDelta) /\ ~node'.latched
  BY <1>t, <1>2, <1>4, CycleCases
<1>6. goal = IF node'.latched THEN node'.hold ELSE Clamped(request)
  BY DEF Effective
<1>7. goal \in Nat  BY <1>2, <1>5, <1>6, ClampedFacts DEF Nodes
<1>8. stop \in Int /\ stop <= measured
      /\ (object # None => /\ Soft[object] \in Nat
                           /\ \/ stop = object - Soft[object]
                              \/ stop = object \/ stop = measured)
  <2>1. object # None => object \in Nat /\ Soft[object] \in Nat  BY <1>t, Constants
  <2>2. CASE object = None  BY <1>t, <2>2
  <2>3. CASE object # None
    <3>1. stop = Least(object - give, measured) /\ give \in {0, Soft[object]}  BY <2>3
    <3> HIDE DEF give, stop
    <3> QED  BY <1>t, <2>1, <2>3, <3>1 DEF Least
  <2> QED  BY <2>2, <2>3
<1>9. /\ measured' \in Nat
      /\ goal <= measured => goal <= measured' /\ measured' <= measured
      /\ measured' >= stop
  <2>1. Toward(measured, goal) \in Nat
        /\ (goal <= measured => goal <= Toward(measured, goal) /\ Toward(measured, goal) <= measured)
    BY <1>t, <1>7, TowardFacts
  <2> HIDE DEF goal, stop
  <2> QED  BY <1>t, <1>4, <1>7, <1>8, <2>1 DEF Most
<1> HIDE DEF goal, stop, request, give
<1>10. oldLatch' \in BOOLEAN /\ UNCHANGED <<object, preparing, steady>>
  BY <1>t, <1>4 DEF Tick
<1>11. HandTypes'
  BY <1>1, <1>5, <1>9, <1>10 DEF HandInv, HandTypes
<1>12. ASSUME node'.latched
       PROVE  /\ object # None /\ measured <= object /\ goal <= measured
              /\ pressedBy' \in Nat /\ pressedBy' <= object
              /\ pressedBy' <= measured + Soft[object] /\ pressedBy' <= goal + ReleaseExtra
              /\ measured <= goal + ReleaseExtra \/ goal >= LowerLimit
  <2>1. goal = node'.hold  BY <1>6, <1>12
  <2>2. CASE node.latched /\ node' = node
    BY <1>4, <1>12, <2>1, <2>2 DEF HandInv, Squeezed
  <2>3. CASE ~node.latched
    <3>1. /\ object # None /\ measured <= object /\ request < measured
          /\ goal = Clamped(measured - ReleaseExtra) /\ pressedBy' = request
      BY <1>4, <1>5, <1>12, <2>1, <2>3
    <3>2. measured - ReleaseExtra \in Int  BY <1>t, Constants
    <3>3. /\ goal > measured - ReleaseExtra => measured - ReleaseExtra < 0
          /\ goal < measured - ReleaseExtra => goal = LowerLimit
      BY <3>1, <3>2, ClampedFacts
    <3>4. goal = 0 \/ goal <= measured - ReleaseExtra
      BY <3>1, <3>2, <1>t, Constants DEF Clamped
    <3> QED  BY <1>t, <1>2, <1>7, <3>1, <3>3, <3>4, Constants
  <2> QED  BY <1>5, <1>12, <2>2, <2>3
<1>13. Squeezed'
  <2> SUFFICES ASSUME node'.latched PROVE Squeezed'  BY DEF Squeezed
  <2>1. goal = node'.hold  BY <1>6
  <2>2. object' = object /\ object \in Nat /\ Soft[object] \in Nat  BY <1>t, <1>10, <1>12, Constants
  <2>3. pressedBy' <= measured' + Soft[object]
    <3>1. \/ stop = object - Soft[object]
          \/ stop = object \/ stop = measured
      BY <1>8, <1>12
    <3>2. /\ pressedBy' \in Nat /\ pressedBy' <= object /\ pressedBy' <= measured + Soft[object]
          /\ measured' >= stop /\ measured' \in Nat
      BY <1>9, <1>12
    <3> QED  BY <1>t, <2>2, <3>1, <3>2
  <2>4. /\ measured' <= object /\ node'.hold <= measured' /\ pressedBy' <= node'.hold + ReleaseExtra
        /\ measured' <= node'.hold + ReleaseExtra \/ node'.hold >= LowerLimit
    BY <1>t, <1>7, <1>9, <1>12, <2>1, <2>2, Constants
  <2> QED  BY <1>12, <2>2, <2>3, <2>4 DEF Squeezed
<1>14. Rearming'
  <2> SUFFICES ASSUME oldLatch' PROVE Rearming'  BY DEF Rearming
  <2>1. oldLatch /\ node'.latched /\ node.latched  BY <1>4 DEF HandInv, Rearming
  <2>2. node' = node  BY <1>5, <2>1
  <2>3. measured' <= measured  BY <1>9, <1>12, <2>1
  <2>4. preparing # None => preparing.goal \in Nat  BY DEF HandInv, HandTypes, Preparations
  <2>5. preparing # None /\ preparing.stage = "rearm" =>
           preparing.goal >= Least(measured' + RearmStep, OpenLimit)
    <3> SUFFICES ASSUME preparing # None, preparing.stage = "rearm"
                 PROVE  preparing.goal >= Least(measured' + RearmStep, OpenLimit)
      OBVIOUS
    <3>1. preparing.goal >= Least(measured + RearmStep, OpenLimit) /\ preparing.goal \in Nat
      BY <2>1, <2>4 DEF HandInv, Rearming
    <3>2. measured \in Nat /\ measured' \in Nat /\ measured' <= measured  BY <1>t, <1>9, <2>3
    <3> QED  BY <3>1, <3>2, LeastMonotone, Constants
  <2> QED  BY <1>10, <2>1, <2>2, <2>5 DEF HandInv, Rearming
<1>15. node.latched /\ ~node'.latched => setpoint' > measured + RearmDelta
  BY <1>t, <1>1, <1>2, <1>5, Constants
<1> QED  BY <1>11, <1>13, <1>14, <1>15 DEF HandInv

LEMMA MergeHand ==
  ASSUME HandInv, NEW first, NEW later, Merge(first, later),
         first \in IF steady = None THEN Requests ELSE {steady},
         later \in IF steady = None THEN Requests ELSE {steady}
  PROVE  HandInv'
<1>1. first \in Nat /\ later \in Nat  BY Constants DEF HandInv, HandTypes
<1>2. \A i : Compensated(i, first) \in Nat /\ Compensated(i, later) \in Nat
  BY <1>1, CompensatedTypes
<1>3. plan' \in Seq(Nat)
  <2>1. PICK i, j : plan' = <<Compensated(i, first), Compensated(j, later)>>
    BY DEF Merge
  <2> QED  BY <1>2, <2>1
<1>4. UNCHANGED <<setpoint, measured, object, node, pressedBy, oldLatch, preparing, steady>>
  BY DEF Merge, hand
<1> QED  BY <1>3, <1>4 DEF HandInv, HandTypes, Squeezed, Rearming

LEMMA StageHand ==
  ASSUME HandInv, StageReached
  PROVE  HandInv'
<1>1. /\ UNCHANGED <<setpoint, measured, object, node, pressedBy, oldLatch, steady>>
      /\ preparing \in Preparations
  BY DEF StageReached, hand, ghosts, HandInv, HandTypes
<1>2. CASE preparing.stage = "rearm"
  <2>1. /\ preparing' = [stage |-> "close", goal |-> StartDeg] /\ plan' = <<StartDeg>>
        /\ preparing.goal - measured <= RearmTolerance /\ preparing # None
    BY <1>2 DEF StageReached, Near
  <2>2. preparing' \in Preparations /\ plan' \in Seq(Nat)  BY <2>1, Constants DEF Preparations
  <2>3. oldLatch => node.hold >= Least(LowerLimit, OpenLimit - RearmTolerance - ReleaseExtra)
    <3> SUFFICES ASSUME oldLatch
                 PROVE  node.hold >= Least(LowerLimit, OpenLimit - RearmTolerance - ReleaseExtra)
      OBVIOUS
    <3>1. /\ preparing.goal >= Least(measured + RearmStep, OpenLimit)
          /\ measured <= node.hold + ReleaseExtra \/ node.hold >= LowerLimit
          /\ measured \in Nat /\ node.hold \in Nat /\ preparing.goal \in Nat
      BY <1>1, <1>2, <2>1 DEF HandInv, Rearming, Squeezed, HandTypes, Nodes, Preparations
    <3> QED  BY <2>1, <3>1, Constants DEF Least, RearmStep, RearmTolerance
  <2> QED
    BY <1>1, <2>1, <2>2, <2>3 DEF HandInv, HandTypes, Squeezed, Rearming
<1>3. CASE preparing.stage # "rearm"
  <2>1. preparing' = None /\ plan' = plan  BY <1>3 DEF StageReached
  <2> QED  BY <1>1, <2>1 DEF HandInv, HandTypes, Squeezed, Rearming
<1> QED  BY <1>2, <1>3

LEMMA HandStep == HandInv /\ [Next]_vars => HandInv'
<1> SUFFICES ASSUME HandInv, [Next]_vars PROVE HandInv'
  OBVIOUS
<1>1. CASE Tick  BY <1>1, TickHand
<1>2. CASE ObjectMoves
  <2>1. ~node.latched
    <3>1. object = None \/ object < measured  BY <1>2 DEF ObjectMoves
    <3>2. object # None => object \in Nat  BY Constants DEF HandInv, HandTypes
    <3> QED  BY <3>1, <3>2 DEF HandInv, HandTypes, Squeezed
  <2>2. /\ object' \in Objects \cup {None}
        /\ UNCHANGED <<setpoint, measured, plan, node, oldLatch, preparing, steady>>
    BY <1>2 DEF ObjectMoves, ghosts
  <2> QED  BY <2>1, <2>2 DEF HandInv, HandTypes, Squeezed, Rearming
<1>3. CASE MergeChunk  BY <1>3, MergeHand DEF MergeChunk
<1>4. CASE StageReached  BY <1>4, StageHand
<1>5. CASE PressReady
  <2>1. /\ preparing' = [stage |-> "rearm", goal |-> Least(measured + RearmStep, OpenLimit)]
        /\ plan' = <<preparing'.goal>> /\ oldLatch' = node.latched
        /\ UNCHANGED <<setpoint, measured, object, node, pressedBy, steady>>
    BY <1>5 DEF PressReady, ghosts
  <2>2. Least(measured + RearmStep, OpenLimit) \in Nat
    BY Constants DEF HandInv, HandTypes, Least, RearmStep
  <2>3. preparing' \in Preparations /\ plan' \in Seq(Nat) /\ oldLatch' \in BOOLEAN
    BY <2>1, <2>2 DEF Preparations, HandInv, HandTypes, Nodes
  <2>4. preparing'.stage = "rearm" /\ preparing'.goal >= Least(measured + RearmStep, OpenLimit)
    BY <2>1, <2>2
  <2> QED  BY <2>1, <2>3, <2>4 DEF HandInv, HandTypes, Squeezed, Rearming
<1>6. CASE PreparationFails
  <2>1. /\ preparing' = None /\ plan' = <<measured>>
        /\ UNCHANGED <<setpoint, measured, object, node, pressedBy, oldLatch, steady>>
    BY <1>6 DEF PreparationFails, hand, ghosts
  <2> QED  BY <2>1 DEF HandInv, HandTypes, Squeezed, Rearming
<1>7. CASE PolicySettles
  <2>1. steady' \in Requests
        /\ UNCHANGED <<setpoint, measured, object, node, pressedBy, oldLatch, plan, preparing>>
    BY <1>7 DEF PolicySettles, hand
  <2> QED  BY <2>1 DEF HandInv, HandTypes, Squeezed, Rearming
<1>8. CASE Pass \/ Hold \/ Start \/ StageWaits \/ UNCHANGED vars
  <2>1. /\ UNCHANGED <<setpoint, measured, object, node, pressedBy, oldLatch, plan, preparing>>
        /\ steady' \in {steady, None}
    BY <1>8 DEF Pass, Hold, Start, StageWaits, vars, hand, ghosts
  <2> QED  BY <2>1 DEF HandInv, HandTypes, Squeezed, Rearming
<1> QED  BY <1>1, <1>2, <1>3, <1>4, <1>5, <1>6, <1>7, <1>8 DEF Next

LEMMA HandInitial == Init => HandInv
<1> SUFFICES ASSUME Init PROVE HandInv
  OBVIOUS
<1>1. measured \in Nat  BY Constants DEF Init, Most
<1>2. node \in Nodes /\ ~node.latched  BY DEF Init, Ready, Nodes
<1>3. plan \in Seq(Nat) /\ oldLatch = FALSE /\ preparing = None /\ steady = None /\ setpoint \in Nat
  BY Constants DEF Init
<1>4. object \in Objects \cup {None}  BY DEF Init
<1> QED
  BY <1>1, <1>2, <1>3, <1>4 DEF HandInv, HandTypes, Squeezed, Rearming

LEMMA HandInvariant == Spec => []HandInv
BY HandInitial, HandStep, PTL DEF Spec

LEMMA ClosesToStartInvariant == Spec => []ClosesToStart
<1>1. Init => ClosesToStart  BY DEF Init, ClosesToStart
<1>2. ClosesToStart /\ [Next]_vars => ClosesToStart'
  BY DEF ClosesToStart, Next, vars, hand, ghosts, Tick, ObjectMoves, Pass, MergeChunk, Merge, Hold,
    Start, PressReady, StageReached, StageWaits, PreparationFails, PolicySettles
<1> QED  BY <1>1, <1>2, PTL DEF Spec

LEMMA RearmedStep ==
  ASSUME StartIsNarrow, HandInv, ClosesToStart, HandInv', PreparedMeansRearmed, [Next]_vars
  PROVE  PreparedMeansRearmed'
<1>1. CASE Tick
  <2>1. UNCHANGED <<prepared, preparing>> /\ (oldLatch' => oldLatch)  BY <1>1 DEF Tick
  <2> QED  BY <2>1 DEF PreparedMeansRearmed
<1>2. CASE StageReached
  <2>1. preparing \in Preparations  BY <1>2 DEF StageReached, HandInv, HandTypes
  <2>2. oldLatch' = oldLatch  BY <1>2 DEF StageReached, hand
  <2>3. CASE preparing.stage = "rearm"
    <3>1. preparing' = [stage |-> "close", goal |-> StartDeg]  BY <1>2, <2>3 DEF StageReached
    <3>2. preparing' # None  BY <3>1, Constants DEF Preparations
    <3> QED  BY <3>2 DEF PreparedMeansRearmed
  <2>4. CASE preparing.stage # "rearm"
    <3>1. preparing.stage = "close" /\ preparing # None  BY <1>2, <2>1, <2>4 DEF StageReached, Preparations
    <3>2. measured - StartDeg <= StartTolerance
      BY <1>2, <2>4, <3>1 DEF StageReached, Near, ClosesToStart
    <3>3. oldLatch => node.hold >= Least(LowerLimit, OpenLimit - RearmTolerance - ReleaseExtra)
                      /\ node.hold <= measured
      BY <3>1 DEF HandInv, Rearming, Squeezed
    <3>4. measured \in Nat /\ node.hold \in Nat  BY DEF HandInv, HandTypes, Nodes
    <3>5. ~oldLatch
      BY <3>2, <3>3, <3>4, Constants DEF StartIsNarrow, Least, StartTolerance, RearmTolerance
    <3> QED  BY <2>2, <3>5 DEF PreparedMeansRearmed
  <2> QED  BY <2>3, <2>4
<1>3. CASE PressReady
  <2>1. preparing' = [stage |-> "rearm", goal |-> Least(measured + RearmStep, OpenLimit)]
    BY <1>3 DEF PressReady
  <2>2. Least(measured + RearmStep, OpenLimit) \in Nat
    BY Constants DEF HandInv, HandTypes, Least, RearmStep
  <2>3. preparing' # None  BY <2>1, <2>2, Constants DEF Preparations
  <2> QED  BY <2>3 DEF PreparedMeansRearmed
<1>4. CASE PreparationFails  BY <1>4 DEF PreparationFails, PreparedMeansRearmed
<1>5. CASE \/ ObjectMoves \/ Pass \/ MergeChunk \/ Hold \/ Start \/ StageWaits \/ PolicySettles
           \/ UNCHANGED vars
  <2>1. UNCHANGED <<prepared, preparing, oldLatch>>
    BY <1>5 DEF ObjectMoves, Pass, MergeChunk, Merge, Hold, Start, StageWaits, PolicySettles, vars, hand
  <2> QED  BY <2>1 DEF PreparedMeansRearmed
<1> QED  BY <1>1, <1>2, <1>3, <1>4, <1>5 DEF Next
-----------------------------------------------------------------------------
(* The gate of an episode, the committed intents and the measured opening. *)
Intents == [extreme : Nat, direction : {-1, 0, 1}]
Gates == [opened : BOOLEAN, closed : BOOLEAN, goal : Nat \cup {None},
          since : 0..Dwell \cup {None}, released : BOOLEAN]

GateTypes ==
  /\ turn \in {"tick", "pass"} /\ state \in {"HOLD", "ACTIVE"}
  /\ intent \in Intents \cup {None} /\ (state = "ACTIVE" => intent \in Intents)
  /\ preparing # None => state = "HOLD"
  /\ gate \in Gates /\ story \in 0..3 /\ lowest \in Nat /\ reached \in 0..(Dwell + 1)

(* The flags of the gate repeat the story of the intents, and a goal is    *)
(* well beyond the least opening since the close.                          *)
StoryOf(g) ==
  /\ g.opened <=> story >= 1
  /\ g.closed <=> story >= 2
  /\ g.goal # None \/ g.released => story = 3
  /\ g.since # None => g.goal # None
  /\ ~g.released => /\ story >= 2 => lowest <= measured
                    /\ g.goal # None => g.goal > lowest + GoalMargin

NearGoal(g) == measured >= g.goal - GoalTolerance

Dwelt(g) == g.since # None => reached > g.since

(* Between a tick and the pass after it the gate has yet to see whether    *)
(* the opening has left the goal.                                          *)
DwellInv ==
  ~gate.released /\ gate.goal # None =>
    /\ turn = "pass" /\ NearGoal(gate) => reached >= 1
    /\ state = "ACTIVE" /\ (turn = "tick" \/ NearGoal(gate)) => Dwelt(gate)

GoesAfterRight ==
  /\ gate.released => earned
  /\ left = "moving" => earned
  /\ state = "HOLD" => left = "still"

GateInv == GateTypes /\ StoryOf(gate) /\ DwellInv /\ GoesAfterRight

LEMMA AdvanceIntentFacts ==
  ASSUME NEW i \in Intents, NEW requested \in Nat
  PROVE  AdvanceIntent(i, requested) \in Intents
BY DEF AdvanceIntent, Intents, Least, Most

LEMMA AdvancedGate ==
  ASSUME GateTypes, measured \in Nat, NEW g \in Gates, StoryOf(g),
         ~g.released /\ g.goal # None /\ NearGoal(g) => reached >= 1 /\ Dwelt(g),
         NEW a, a = AdvanceGate(g)
  PROVE  /\ a \in Gates /\ StoryOf(a) /\ a.goal = g.goal /\ (g.released => a.released)
         /\ ~a.released => Dwelt(a)
         /\ a.released /\ ~g.released =>
              story = 3 /\ reached > Dwell /\ measured > lowest + GoalTolerance
<1> USE Constants
<1>1. CASE g.released \/ g.goal = None
  BY <1>1 DEF AdvanceGate, StoryOf, Dwelt
<1>2. CASE ~g.released /\ g.goal # None /\ ~NearGoal(g)
  <2>1. a = [g EXCEPT !.since = None]  BY <1>2 DEF AdvanceGate, NearGoal
  <2>2. a \in Gates /\ a.since = None /\ a.goal = g.goal /\ a.released = g.released
        /\ a.opened = g.opened /\ a.closed = g.closed
    BY <2>1 DEF Gates
  <2> QED  BY <1>2, <2>2 DEF StoryOf, Dwelt
<1>3. CASE ~g.released /\ g.goal # None /\ NearGoal(g)
  <2> DEFINE start == IF g.since = None THEN 0 ELSE g.since
  <2>1. start \in 0..Dwell /\ reached > start
    BY <1>3 DEF Gates, Dwelt, Dwell, GateTypes
  <2>2. a = [g EXCEPT !.since = start, !.released = start >= Dwell]
    BY <1>3 DEF AdvanceGate, NearGoal
  <2> HIDE DEF start
  <2>3. (start >= Dwell) \in BOOLEAN  OBVIOUS
  <2>9. a \in Gates /\ a.since = start /\ a.goal = g.goal /\ (a.released <=> start >= Dwell)
        /\ a.opened = g.opened /\ a.closed = g.closed
    BY <2>1, <2>2, <2>3 DEF Gates
  <2>4. story = 3 /\ g.goal \in Nat /\ g.goal > lowest + GoalMargin /\ lowest \in Nat
    BY <1>3 DEF StoryOf, Gates, GateTypes
  <2>5. measured > lowest + GoalTolerance
    BY <1>3, <2>4 DEF NearGoal, GoalTolerance, GoalMargin
  <2>6. StoryOf(a)  BY <1>3, <2>9, <2>4 DEF StoryOf
  <2>7. a.released => reached > Dwell  BY <2>1, <2>9 DEF Dwell, GateTypes
  <2>8. Dwelt(a)  BY <2>1, <2>9 DEF Dwelt
  <2> QED  BY <1>3, <2>9, <2>4, <2>5, <2>6, <2>7, <2>8
<1> QED  BY <1>1, <1>2, <1>3

LEMMA HandedFacts ==
  ASSUME GoesAfterRight, NEW a, Handed(a), a.released /\ ~gate.released =>
           story = 3 /\ reached > Dwell /\ measured > lowest + GoalTolerance
  PROVE  (a.released => earned') /\ (earned => earned')
BY DEF Handed, GoesAfterRight

LEMMA CommittedGate ==
  ASSUME GateTypes, measured \in Nat, measured' = measured, intent \in Intents,
         NEW i \in Intents, NEW x \in Nat, NEW g \in Gates, StoryOf(g), g.goal = gate.goal,
         ~g.released => Dwelt(g),
         gate' = CommitGate(g, intent, i, x), story' = Told(i),
         lowest' = IF story = 1 /\ story' = 2 THEN measured ELSE lowest,
         reached' = IF gate'.goal # gate.goal THEN 0 ELSE reached
  PROVE  /\ gate' \in Gates /\ gate'.released = g.released /\ StoryOf(gate)'
         /\ ~gate'.released => Dwelt(gate)'
         /\ story' \in 0..3 /\ lowest' \in Nat /\ reached' \in 0..(Dwell + 1)
<1> USE Constants
<1>1. story' \in 0..3 /\ lowest' \in Nat /\ reached' \in 0..(Dwell + 1)
  BY DEF Told, GateTypes, Dwell
<1>2. CASE g.released
  <2>1. gate' = g  BY <1>2 DEF CommitGate
  <2>2. story = 3 /\ story' = 3  BY <1>2 DEF StoryOf, Told
  <2> QED  BY <1>1, <1>2, <2>1, <2>2 DEF StoryOf
<1>3. CASE ~g.released
  <2> DEFINE isOpened == g.opened \/ i.direction > 0
             isClosed == g.closed \/ (isOpened /\ i.direction < 0)
             sets == isClosed /\ intent.direction < 0 /\ i.direction > 0 /\ x > measured + GoalMargin
  <2>1. gate' = [opened |-> isOpened, closed |-> isClosed, released |-> FALSE,
                 goal |-> IF sets THEN x ELSE g.goal, since |-> IF sets THEN None ELSE g.since]
    BY <1>3 DEF CommitGate
  <2>2. /\ isOpened <=> story' >= 1
        /\ isClosed <=> story' >= 2
        /\ sets => story >= 2 /\ story' = 3
        /\ story = 3 => story' = 3
    BY DEF StoryOf, Told, Intents, Gates, GateTypes
  <2>3. lowest' <= lowest \/ story < 2
    BY <1>1 DEF GateTypes
  <2>4. story' >= 2 => lowest' <= measured
    BY <1>1, <1>3 DEF StoryOf, Told, GateTypes, Intents
  <2>5. story >= 2 => lowest' = lowest /\ lowest <= measured
    BY <1>3 DEF StoryOf, GateTypes
  <2> HIDE DEF isOpened, isClosed
  <2>6. /\ gate' \in Gates /\ ~gate'.released /\ (gate'.opened <=> isOpened)
        /\ (gate'.closed <=> isClosed)
        /\ gate'.goal = IF sets THEN x ELSE g.goal
        /\ gate'.since = IF sets THEN None ELSE g.since
    <3>1. isOpened \in BOOLEAN /\ isClosed \in BOOLEAN  BY DEF isOpened, isClosed, Gates
    <3> HIDE DEF sets
    <3> QED  BY <2>1, <3>1 DEF Gates
  <2> HIDE DEF sets
  <2>7. sets => x > measured + GoalMargin  BY DEF sets
  <2>8. gate'.goal # None => story' = 3 /\ gate'.goal > lowest' + GoalMargin
    <3>1. CASE sets  BY <1>1, <2>2, <2>5, <2>6, <2>7, <3>1 DEF GateTypes, GoalMargin
    <3>2. CASE ~sets
      BY <1>3, <2>2, <2>5, <2>6, <3>2 DEF StoryOf
    <3> QED  BY <3>1, <3>2
  <2>9. gate'.since # None => gate'.goal # None /\ reached' > gate'.since
    BY <1>3, <2>6 DEF StoryOf, Dwelt
  <2>10. StoryOf(gate)'  BY <2>2, <2>4, <2>6, <2>8, <2>9 DEF StoryOf
  <2>11. Dwelt(gate)'  BY <2>9 DEF Dwelt
  <2>12. gate'.released = g.released
    <3>1. gate'.released \in BOOLEAN /\ g.released \in BOOLEAN  BY <2>6 DEF Gates
    <3> QED  BY <1>3, <2>6, <3>1
  <2>13. gate' \in Gates  BY <2>6
  <2> QED  BY <1>1, <2>10, <2>11, <2>12, <2>13
<1> QED  BY <1>2, <1>3

LEMMA TickGate ==
  ASSUME GateInv, HandInv, HandInv', Tick
  PROVE  GateInv'
<1> USE Constants
<1>1. /\ turn = "tick" /\ turn' = "pass" /\ measured \in Nat /\ measured' \in Nat
      /\ gate' = [gate EXCEPT !.since = IF @ = None THEN None ELSE Least(@ + 1, Dwell)]
      /\ reached' = IF ~gate.released /\ gate.goal # None /\ measured' >= gate.goal - GoalTolerance
                    THEN Least(reached + 1, Dwell + 1) ELSE 0
      /\ lowest' = IF gate.released THEN 0 ELSE Least(lowest, measured')
      /\ UNCHANGED <<state, intent, preparing, left, story, earned>>
  BY DEF Tick, HandInv, HandTypes
<1>2. /\ gate' \in Gates /\ gate'.goal = gate.goal /\ gate'.released = gate.released
      /\ gate'.opened = gate.opened /\ gate'.closed = gate.closed
      /\ gate'.since = IF gate.since = None THEN None ELSE Least(gate.since + 1, Dwell)
  BY <1>1 DEF GateInv, GateTypes, Gates, Least, Dwell
<1>3. reached' \in 0..(Dwell + 1) /\ lowest' \in Nat
  BY <1>1 DEF GateInv, GateTypes, Least, Dwell
<1>4. GateTypes'  BY <1>1, <1>2, <1>3 DEF GateInv, GateTypes
<1>5. StoryOf(gate)'
  <2>1. gate.since = None <=> gate'.since = None
    BY <1>2 DEF Least, GateInv, GateTypes, Gates, Dwell
  <2>2. ~gate.released => lowest' <= lowest /\ lowest' <= measured'
    BY <1>1 DEF Least, GateInv, GateTypes
  <2>3. gate.goal # None => gate.goal \in Nat  BY DEF GateInv, GateTypes, Gates
  <2>4. lowest \in Nat  BY DEF GateInv, GateTypes
  <2> QED  BY <1>1, <1>2, <1>3, <2>1, <2>2, <2>3, <2>4 DEF GateInv, StoryOf, GoalMargin
<1>6. DwellInv'
  <2> SUFFICES ASSUME ~gate'.released, gate'.goal # None, NearGoal(gate)'
               PROVE  reached' >= 1 /\ (state' = "ACTIVE" => Dwelt(gate)')
    BY <1>1 DEF DwellInv
  <2>1. reached' = Least(reached + 1, Dwell + 1)  BY <1>1, <1>2 DEF NearGoal
  <2>2. reached \in 0..(Dwell + 1) /\ gate.since \in 0..Dwell \cup {None}
    BY DEF GateInv, GateTypes, Gates
  <2>3. state = "ACTIVE" => Dwelt(gate)  BY <1>1, <1>2 DEF GateInv, DwellInv
  <2> QED  BY <1>1, <1>2, <2>1, <2>2, <2>3 DEF Dwelt, Least, Dwell
<1>7. GoesAfterRight'  BY <1>1, <1>2 DEF GateInv, GoesAfterRight
<1> QED  BY <1>4, <1>5, <1>6, <1>7 DEF GateInv

(* advance on the gate as it is, or as [d] takes it up again.              *)
LEMMA AdvanceStep ==
  ASSUME GateInv, measured \in Nat, measured' = measured, turn = "pass", turn' = "tick",
         UNCHANGED <<story, lowest, reached>>,
         \/ state = "ACTIVE" /\ gate' = AdvanceGate(gate)
         \/ gate' = AdvanceGate([gate EXCEPT !.since = None]),
         Handed(gate')
  PROVE  /\ gate' \in Gates /\ StoryOf(gate)' /\ DwellInv'
         /\ (gate'.released => earned') /\ (earned => earned')
<1> USE Constants
<1>1. PICK g \in {gate, [gate EXCEPT !.since = None]} :
        gate' = AdvanceGate(g) /\ (g = gate => state = "ACTIVE" \/ g.since = None)
  <2>1. gate = [gate EXCEPT !.since = None] => gate.since = None
    BY DEF GateInv, GateTypes, Gates
  <2>2. CASE state = "ACTIVE" /\ gate' = AdvanceGate(gate)  BY <2>2
  <2>3. CASE gate' = AdvanceGate([gate EXCEPT !.since = None])  BY <2>1, <2>3
  <2> QED  BY <2>2, <2>3
<1>2. /\ g \in Gates /\ g.goal = gate.goal /\ g.released = gate.released
      /\ g.opened = gate.opened /\ g.closed = gate.closed
      /\ g.since = None \/ (g.since = gate.since /\ state = "ACTIVE")
  BY <1>1 DEF GateInv, GateTypes, Gates
<1>3. StoryOf(g)
  BY <1>2 DEF GateInv, StoryOf
<1>4. ~g.released /\ g.goal # None /\ NearGoal(g) => reached >= 1 /\ Dwelt(g)
  BY <1>2 DEF GateInv, DwellInv, NearGoal, Dwelt
<1>5. /\ gate' \in Gates /\ (g.released => gate'.released)
      /\ ~gate'.released /\ gate'.since # None => reached > gate'.since
      /\ gate'.released /\ ~g.released =>
           story = 3 /\ reached > Dwell /\ measured > lowest + GoalTolerance
  BY <1>1, <1>2, <1>3, <1>4, AdvancedGate DEF GateInv, Dwelt
<1>6. StoryOf(gate)'
  <2> DEFINE a == gate'
  <2>1. StoryOf(a)  BY <1>1, <1>2, <1>3, <1>4, AdvancedGate DEF GateInv
  <2> QED  BY <2>1 DEF StoryOf
<1>7. DwellInv'  BY <1>5 DEF DwellInv, Dwelt
<1>8. (gate'.released => earned') /\ (earned => earned')
  BY <1>2, <1>5, HandedFacts DEF GateInv
<1> QED  BY <1>5, <1>6, <1>7, <1>8

LEMMA MergeGate ==
  ASSUME GateInv, HandInv, NEW first, NEW later, Merge(first, later),
         first \in IF steady = None THEN Requests ELSE {steady}
  PROVE  GateInv'
<1> USE Constants
<1> DEFINE g == AdvanceGate(gate)
           i == AdvanceIntent(intent, first)
           x == Compensated(i, first)
<1>1. /\ turn = "pass" /\ state = "ACTIVE" /\ turn' = "tick" /\ Handed(g)
      /\ left' = IF g.released THEN "moving" ELSE "still"
      /\ gate' = CommitGate(g, intent, i, x) /\ intent' = i /\ story' = Told(i)
      /\ lowest' = IF story = 1 /\ story' = 2 THEN measured ELSE lowest
      /\ reached' = IF gate'.goal # gate.goal THEN 0 ELSE reached
      /\ UNCHANGED <<state, preparing, measured>>
  BY DEF Merge, hand
<1>2. first \in Nat /\ measured \in Nat  BY DEF HandInv, HandTypes
<1>3. intent \in Intents /\ i \in Intents /\ x \in Nat
  BY <1>1, <1>2, AdvanceIntentFacts, CompensatedTypes DEF GateInv, GateTypes
<1>4. /\ g \in Gates /\ StoryOf(g) /\ g.goal = gate.goal /\ (~g.released => Dwelt(g))
      /\ g.released /\ ~gate.released =>
           story = 3 /\ reached > Dwell /\ measured > lowest + GoalTolerance
  BY <1>1, <1>2, AdvancedGate DEF GateInv, GateTypes, DwellInv
<1>5. (g.released => earned') /\ (earned => earned')
  BY <1>1, <1>4, HandedFacts DEF GateInv
<1> HIDE DEF g, i, x
<1>6. /\ gate' \in Gates /\ gate'.released = g.released /\ StoryOf(gate)'
      /\ ~gate'.released => Dwelt(gate)'
      /\ story' \in 0..3 /\ lowest' \in Nat /\ reached' \in 0..(Dwell + 1)
  BY <1>1, <1>2, <1>3, <1>4, CommittedGate DEF GateInv
<1>7. GateTypes'  BY <1>1, <1>3, <1>6 DEF GateInv, GateTypes
<1>8. DwellInv'
  <2>1. ~gate'.released => Dwelt(gate)'  BY <1>6
  <2> QED  BY <1>1, <2>1 DEF DwellInv
<1>9. GoesAfterRight'  BY <1>1, <1>5, <1>6 DEF GoesAfterRight
<1> QED  BY <1>6, <1>7, <1>8, <1>9 DEF GateInv

LEMMA PausesGate ==
  ASSUME GateInv, HandInv, Pass \/ Hold \/ Start
  PROVE  GateInv'
<1> USE Constants
<1>1. /\ turn = "pass" /\ turn' = "tick" /\ measured \in Nat /\ state' \in {"HOLD", "ACTIVE"}
      /\ UNCHANGED <<measured, preparing>>
  BY DEF Pass, Hold, Start, hand, HandInv, HandTypes, GateInv, GateTypes
<1>2. CASE (Pass /\ state # "ACTIVE") \/ (Hold /\ UNCHANGED <<gate, earned>>)
  <2>1. /\ state' = "HOLD" /\ left' = "still"
        /\ UNCHANGED <<gate, earned, intent, story, lowest, reached>>
    BY <1>2 DEF Pass, Hold, GateInv, GateTypes, GoesAfterRight
  <2> QED
    BY <1>1, <2>1 DEF GateInv, GateTypes, StoryOf, DwellInv, GoesAfterRight
<1>3. CASE \/ Pass /\ state = "ACTIVE"
           \/ Hold /\ gate' = AdvanceGate(gate) /\ Handed(gate')
           \/ Start /\ intent # None
  <2>1. /\ UNCHANGED <<intent, story, lowest, reached>> /\ Handed(gate')
        /\ \/ state = "ACTIVE" /\ gate' = AdvanceGate(gate)
           \/ gate' = AdvanceGate([gate EXCEPT !.since = None])
        /\ state' = "ACTIVE" => intent' \in Intents /\ preparing' = None
        /\ \/ left' = left /\ state' = "ACTIVE"
           \/ left' = "still" /\ state' = "HOLD"
    BY <1>3 DEF Pass, Hold, Start, GateInv, GateTypes
  <2>2. /\ gate' \in Gates /\ StoryOf(gate)' /\ DwellInv'
        /\ (gate'.released => earned') /\ (earned => earned')
    BY <1>1, <2>1, AdvanceStep
  <2>3. GateTypes'  BY <1>1, <2>1, <2>2 DEF GateInv, GateTypes
  <2>4. GoesAfterRight'  BY <2>1, <2>2 DEF GateInv, GoesAfterRight
  <2> QED  BY <2>2, <2>3, <2>4 DEF GateInv
<1>4. CASE Start /\ intent = None
  <2>1. /\ intent' = [extreme |-> measured, direction |-> 0] /\ gate' = NewGate
        /\ story' = 0 /\ lowest' = 0 /\ reached' = 0 /\ earned' = FALSE
        /\ left' = "still" /\ state' = "ACTIVE" /\ preparing' = None
    BY <1>4 DEF Start, GateInv, GoesAfterRight
  <2>2. intent' \in Intents  BY <1>1, <2>1 DEF Intents
  <2>3. gate' \in Gates /\ gate'.goal = None /\ gate'.since = None /\ ~gate'.released
        /\ ~gate'.opened /\ ~gate'.closed
    BY <2>1 DEF NewGate, Gates
  <2>4. GateTypes'  BY <1>1, <2>1, <2>2, <2>3 DEF GateTypes, Dwell
  <2>5. StoryOf(gate)'  BY <2>1, <2>3 DEF StoryOf
  <2> QED  BY <2>1, <2>3, <2>4, <2>5 DEF GateInv, DwellInv, GoesAfterRight
<1> QED  BY <1>2, <1>3, <1>4 DEF Hold

LEMMA GateStep == GateInv /\ HandInv /\ HandInv' /\ [Next]_vars => GateInv'
<1> SUFFICES ASSUME GateInv, HandInv, HandInv', [Next]_vars PROVE GateInv'
  OBVIOUS
<1>1. CASE Tick  BY <1>1, TickGate
<1>2. CASE MergeChunk  BY <1>2, MergeGate DEF MergeChunk
<1>3. CASE Pass \/ Hold \/ Start  BY <1>3, PausesGate
<1>4. CASE \/ ObjectMoves \/ PressReady \/ StageReached \/ PreparationFails \/ PolicySettles
           \/ UNCHANGED vars
  <2>1. /\ UNCHANGED <<turn, state, gate, left, measured, story, lowest, reached, earned>>
        /\ intent' = intent \/ (intent' = None /\ state = "HOLD")
        /\ preparing' # None => state = "HOLD"
    BY <1>4 DEF ObjectMoves, PressReady, StageReached, PreparationFails, PolicySettles, vars, hand,
      ghosts, GateInv, GateTypes
  <2> QED
    BY <2>1 DEF GateInv, GateTypes, StoryOf, DwellInv, NearGoal, Dwelt, GoesAfterRight
<1>5. CASE StageWaits
  <2>1. /\ state = "HOLD" /\ turn' = "tick"
        /\ UNCHANGED <<state, intent, preparing, gate, left, measured, story, lowest, reached, earned>>
    BY <1>5 DEF StageWaits, hand, ghosts, GateInv, GateTypes
  <2> QED  BY <2>1 DEF GateInv, GateTypes, StoryOf, DwellInv, GoesAfterRight
<1> QED  BY <1>1, <1>2, <1>3, <1>4, <1>5 DEF Next

LEMMA GateInvariant == Spec => []GateInv
<1>1. Init => GateInv
  <2> SUFFICES ASSUME Init PROVE GateInv
    OBVIOUS
  <2>1. gate \in Gates /\ gate.goal = None /\ gate.since = None /\ ~gate.released
        /\ ~gate.opened /\ ~gate.closed
    BY DEF Init, NewGate, Gates
  <2> QED
    BY <2>1 DEF Init, GateInv, GateTypes, StoryOf, DwellInv, GoesAfterRight, Dwell
<1> QED  BY <1>1, GateStep, HandInvariant, PTL DEF Spec
-----------------------------------------------------------------------------
(* A grip is let go only by a request more open than the one that pressed  *)
(* it by the re-arm delta, less what the fingers have closed since: at     *)
(* most what the object gives way and what the node closes a latched grip  *)
(* further (gripper_can_node.cpp:320-390, stall_release.hpp:5-16).         *)
THEOREM LatchHolds == Spec => GripHeld
<1>1. HandInv /\ [Next]_vars
        => [node.latched /\ ~node'.latched =>
              setpoint' + Least(Soft[object], ReleaseExtra) > pressedBy + RearmDelta]_vars
  <2> SUFFICES ASSUME HandInv, [Next]_vars, node.latched, ~node'.latched
               PROVE  setpoint' + Least(Soft[object], ReleaseExtra) > pressedBy + RearmDelta
    OBVIOUS
  <2>1. Tick
    BY DEF Next, vars, hand, ObjectMoves, Pass, MergeChunk, Merge, Hold, Start, PressReady,
      StageReached, StageWaits, PreparationFails, PolicySettles
  <2>2. setpoint' > measured + RearmDelta /\ setpoint' \in Nat
    BY <2>1, TickHand DEF HandInv, HandTypes
  <2>3. /\ pressedBy <= measured + Soft[object] /\ pressedBy <= node.hold + ReleaseExtra
        /\ node.hold <= measured /\ pressedBy \in Nat /\ measured \in Nat /\ node.hold \in Nat
        /\ object # None /\ object \in Objects \cup {None}
    BY DEF HandInv, HandTypes, Squeezed, Nodes
  <2>4. Soft[object] \in Nat  BY <2>3, Constants
  <2> QED  BY <2>2, <2>3, <2>4, Constants DEF Least
<1> QED  BY <1>1, HandInvariant, PTL DEF Spec, GripHeld

(* [r] gets rid of a grip, if the start angle is not as wide as the        *)
(* fingers open (task487_client.py:601-646, 1068-1084).                    *)
THEOREM PreparationLetsGo ==
  ASSUME StartIsNarrow
  PROVE  Spec => []PreparedMeansRearmed
<1>1. Init => PreparedMeansRearmed  BY DEF Init, PreparedMeansRearmed
<1>2. HandInv /\ ClosesToStart /\ HandInv' /\ PreparedMeansRearmed /\ [Next]_vars
        => PreparedMeansRearmed'
  BY RearmedStep
<1> QED  BY <1>1, <1>2, HandInvariant, ClosesToStartInvariant, PTL DEF Spec

(* The left arm moves only after the right hand has opened, closed and     *)
(* measurably opened again, and stayed open, whatever pauses, resumptions, *)
(* preparations and chunks that turn back came between                     *)
(* (author_sync.py:284-294, 387-399).                                      *)
THEOREM LeftWaitsForRight == Spec => []LeftAfterRight
<1>1. GateInv => LeftAfterRight  BY DEF GateInv, GoesAfterRight, LeftAfterRight
<1> QED  BY <1>1, GateInvariant, PTL
=============================================================================
