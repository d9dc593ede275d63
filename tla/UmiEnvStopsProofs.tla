-------------------------- MODULE UmiEnvStopsProofs --------------------------
(***************************************************************************)
(* Proofs about UmiEnvStops, for every number of rounds, size of the       *)
(* command queues and length of a chunk: its types, that a confirmed hold  *)
(* or go_home holds, and what holds as long as every one was confirmed.    *)
(***************************************************************************)
EXTENDS UmiEnvStops, TLAPS

IsWaypoint(command) == command.cmd = "SCHEDULE_WAYPOINT"
IsStop(command) == command.cmd \in Stops

(* The types with sequences in the place of the bounded ones of TypeOK.    *)
ControllerTypes ==
  /\ queue \in [Arms -> Seq(Commands)] /\ \A arm \in Arms : Len(queue[arm]) <= QueueSize
  /\ batch \in [Arms -> Seq(Commands)] /\ \A arm \in Arms : Len(batch[arm]) <= QueueSize
  /\ pc \in [Arms -> {"tick", "process", "home", "homing"} \union Ended]
  /\ got \in [Arms -> BOOLEAN]
  /\ trajectory \in [Arms -> SUBSET Episodes]
  /\ published \in [Arms -> Episodes \union {Measured}]
  /\ active \in BOOLEAN /\ priming \in BOOLEAN
  /\ done \in [Arms -> [Stops -> BOOLEAN]]
  /\ stopping \in [Arms -> BOOLEAN]
  /\ mink \in {"HOLD", "HOME", "ACTIVE"}

(* Where the client can be in its calls.                                   *)
CallerInv ==
  /\ episode \in 0..MaxEpisode /\ calls \in 0..MaxCalls
  /\ running \in BOOLEAN /\ confirmed \in BOOLEAN /\ clean \in BOOLEAN
  /\ leaving \in {"no", "hold", "stop", "gone"}
  /\ running => episode \in Episodes /\ leaving = "no"
  /\ \/ call = "exec" /\ step \in 0..(2 * ChunkSize - 1) /\ running
     \/ call \in Stops /\ step \in 0..6 /\ ~running /\ leaving \in {"no", "hold"}
     \/ call = "none" /\ step = 0
     \/ call = "none" /\ step \in 1..3 /\ leaving = "stop"
  /\ confirmed => call = "none"
  /\ early \in SUBSET Arms
-----------------------------------------------------------------------------
LEMMA CommandTypes ==
  /\ \A c \in Commands : c.cmd \in {"SCHEDULE_WAYPOINT", "HOLD", "HOME", "STOP"}
  /\ \A c \in Commands : IsWaypoint(c) => c.episode \in Episodes /\ c = Waypoint(c.episode)
  /\ \A e \in Episodes : Waypoint(e) \in Commands /\ IsWaypoint(Waypoint(e))
  /\ \A s \in Stops : Command(s) \in Commands /\ IsStop(Command(s)) /\ ~IsWaypoint(Command(s))
  /\ Command("STOP") \in Commands /\ ~IsStop(Command("STOP")) /\ ~IsWaypoint(Command("STOP"))
BY DEF Commands, Waypoint, Command, IsWaypoint, IsStop, Stops

LEMMA ArmOfWaypoint ==
  ASSUME NEW n \in Nat \ {0}, NEW s \in 0..(2 * n - 1)
  PROVE  /\ s \div n \in {0, 1}
         /\ (s + 1) % (2 * n) \in 0..(2 * n - 1)
<1>1. s \div n \in {0, 1}
  <2>1. s = n * (s \div n) + (s % n) /\ s % n \in 0..(n - 1) /\ s \div n \in Int
    OBVIOUS
  <2> QED  BY <2>1
<1>2. 2 * n \in Nat /\ 2 * n > 0 /\ s + 1 \in Nat
  OBVIOUS
<1>3. \A m \in Nat \ {0}, k \in Nat : k % m \in 0..(m - 1)
  OBVIOUS
<1> QED  BY <1>1, <1>2, <1>3

LEMMA RobotTypes ==
  ASSUME step \in 0..3
  PROVE  /\ Robot = IF step \in {0, 1} THEN "right" ELSE "left"
         /\ Robot \in Arms
<1>1. CASE step \in {0, 1}
  <2>1. step \div 2 + 1 = 1  BY <1>1
  <2> QED  BY <1>1, <2>1 DEF Robot, Order, Arms
<1>2. CASE step \in {2, 3}
  <2>1. step \div 2 + 1 = 2  BY <1>2
  <2> QED  BY <1>2, <2>1 DEF Robot, Order, Arms
<1> QED  BY <1>1, <1>2

LEMMA FullQueue ==
  ASSUME NEW q \in Seq(Commands), NEW c \in Commands
  PROVE  /\ Append(q, c) \in Seq(Commands) /\ Len(Append(q, c)) = Len(q) + 1
         /\ q # <<>> => Tail(q) \in Seq(Commands) /\ Len(Tail(q)) = Len(q) - 1
OBVIOUS
-----------------------------------------------------------------------------
LEMMA CallerStep ==
  ASSUME CallerInv, [Next]_vars
  PROVE  CallerInv'
<1> USE StopsAssumption, ControllerAssumption DEF CallerInv, Stops
<1>1. CASE StartRound  BY <1>1 DEF StartRound, Episodes
<1>2. CASE ExecActions
  <2>1. 0 \in 0..(2 * ChunkSize - 1)  OBVIOUS
  <2> QED  BY <1>2, <2>1 DEF ExecActions
<1>3. CASE PutWaypoint
  <2>1. (step + 1) % (2 * ChunkSize) \in 0..(2 * ChunkSize - 1)
    BY <1>3, ArmOfWaypoint DEF PutWaypoint
  <2>2. UNCHANGED <<episode, calls, confirmed, early, clean>> /\ call = "exec"
    BY <1>3 DEF PutWaypoint
  <2>3. \/ /\ step' = (step + 1) % (2 * ChunkSize) /\ call' = IF step' = 0 THEN "none" ELSE call
           /\ UNCHANGED <<running, leaving>>
        \/ call' = "none" /\ step' = 0 /\ running' = FALSE /\ leaving' = "hold"
    BY <1>3 DEF PutWaypoint
  <2> QED  BY <2>1, <2>2, <2>3
<1>4. CASE \E stop \in Stops : CallStop(stop)
  <2>1. PICK stop \in Stops : CallStop(stop)  BY <1>4
  <2>2. /\ call' = stop /\ step' = 0 /\ running' = FALSE /\ confirmed' = FALSE /\ early' = {}
        /\ UNCHANGED <<episode, leaving, clean>> /\ leaving \in {"no", "hold"}
    BY <2>1 DEF CallStop
  <2>3. calls' \in 0..MaxCalls
    <3>1. CASE leaving = "no"  BY <2>1, <3>1 DEF CallStop
    <3>2. CASE leaving # "no"  BY <2>1, <3>2 DEF CallStop
    <3> QED  BY <3>1, <3>2
  <2>4. call' \in Stops /\ step' \in 0..6 /\ ~running' /\ leaving' \in {"no", "hold"}
    BY <2>2
  <2>5. confirmed' \in BOOLEAN /\ clean' \in BOOLEAN /\ running' \in BOOLEAN
        /\ episode' \in 0..MaxEpisode
    BY <2>2
  <2> QED  BY <2>2, <2>3, <2>4, <2>5
<1>5. CASE ClearDone \/ PutStop \/ AwaitArm
  <2>1. step \in 0..3 => Robot \in Arms  BY RobotTypes
  <2> QED  BY <1>5, <2>1 DEF ClearDone, PutStop, AwaitArm
<1>6. CASE Confirm  BY <1>6 DEF Confirm, AfterCall
<1>7. CASE RaiseFromCall  BY <1>7 DEF RaiseFromCall
<1>8. CASE LeaveLoop  BY <1>8 DEF LeaveLoop
<1>9. CASE StopController \/ SetStopEvent
  <2>1. step \in {1, 3} => (step + 1) % 4 = IF step = 1 THEN 2 ELSE 0  OBVIOUS
  <2> QED  BY <1>9, <2>1 DEF StopController, SetStopEvent
<1>10. CASE UNCHANGED caller  BY <1>10 DEF caller
<1> QED
  BY <1>1, <1>2, <1>3, <1>4, <1>5, <1>6, <1>7, <1>8, <1>9, <1>10
  DEF Next, Caller, Finished, vars
-----------------------------------------------------------------------------
LEMMA LeaveTypes ==
  ASSUME ControllerTypes, NEW arm \in Arms, NEW place \in Ended, Leave(arm, place)
  PROVE  ControllerTypes'
<1> USE DEF ControllerTypes, Leave
<1>1. /\ batch' \in [Arms -> Seq(Commands)] /\ \A a \in Arms : Len(batch'[a]) <= QueueSize
  BY ControllerAssumption
<1>2. pc' \in [Arms -> {"tick", "process", "home", "homing"} \union Ended]  BY DEF Goto
<1>3. done' \in [Arms -> [Stops -> BOOLEAN]]  OBVIOUS
<1>4. got' \in [Arms -> BOOLEAN] /\ trajectory' \in [Arms -> SUBSET Episodes]  OBVIOUS
<1>5. active' \in BOOLEAN /\ priming' \in BOOLEAN  OBVIOUS
<1> QED  BY <1>1, <1>2, <1>3, <1>4, <1>5

LEMMA ResetTypes ==
  ASSUME ControllerTypes, NEW arm \in Arms, NEW stop \in Stops, Reset(arm, stop)
  PROVE  ControllerTypes'
<1> USE DEF ControllerTypes, Reset
<1>1. /\ batch' \in [Arms -> Seq(Commands)] /\ \A a \in Arms : Len(batch'[a]) <= QueueSize
  BY ControllerAssumption
<1>2. pc' \in [Arms -> {"tick", "process", "home", "homing"} \union Ended]  BY DEF Goto
<1>3. done' \in [Arms -> [Stops -> BOOLEAN]]  OBVIOUS
<1>4. got' \in [Arms -> BOOLEAN] /\ trajectory' \in [Arms -> SUBSET Episodes]  OBVIOUS
<1>5. active' \in BOOLEAN /\ priming' \in BOOLEAN  OBVIOUS
<1>6. mink' \in {"HOLD", "HOME", "ACTIVE"}  BY DEF SendFsm, Fsm
<1>7. published' \in [Arms -> Episodes \union {Measured}]  OBVIOUS
<1> QED  BY <1>1, <1>2, <1>3, <1>4, <1>5, <1>6, <1>7

LEMMA RunTypes ==
  ASSUME ControllerTypes, NEW arm \in Arms, Run(arm) \/ Fail(arm)
  PROVE  ControllerTypes'
<1> USE DEF ControllerTypes
<1>1. CASE Fail(arm) \/ StopEvent(arm) \/ ProcessStop(arm)
  BY <1>1, LeaveTypes DEF Fail, StopEvent, ProcessStop, Ended
<1>2. CASE ProcessHold(arm) \/ ArriveHome(arm)
  BY <1>2, ResetTypes DEF ProcessHold, ArriveHome, Stops
<1>3. CASE Tick(arm)
  BY <1>3, ControllerAssumption DEF Tick, Goto
<1>4. CASE ProcessWaypoint(arm)
  <2>1. batch[arm] \in Seq(Commands) /\ batch[arm] # <<>> /\ Head(batch[arm]) \in Commands
    BY <1>4 DEF ProcessWaypoint, First
  <2>2. IsWaypoint(Head(batch[arm]))  BY <1>4 DEF ProcessWaypoint, First, IsWaypoint
  <2>3. Head(batch[arm]).episode \in Episodes  BY <2>1, <2>2, CommandTypes
  <2>4. Tail(batch[arm]) \in Seq(Commands) /\ Len(Tail(batch[arm])) = Len(batch[arm]) - 1
    BY <2>1
  <2>5. Len(Tail(batch[arm])) <= QueueSize  BY <2>1, <2>4, ControllerAssumption
  <2>6. trajectory' \in [Arms -> SUBSET Episodes]
    BY <1>4, <2>3 DEF ProcessWaypoint
  <2>7. batch' = [batch EXCEPT ![arm] = Tail(batch[arm])] /\ got' \in [Arms -> BOOLEAN]
        /\ UNCHANGED <<queue, pc, published, active, priming, done, stopping, mink>>
    BY <1>4 DEF ProcessWaypoint
  <2> QED  BY <2>4, <2>5, <2>6, <2>7
<1>5. CASE ProcessHome(arm) \/ MoveHome(arm)
  BY <1>5 DEF ProcessHome, MoveHome, SendFsm, Fsm, Goto
<1>6. CASE Gate(arm)
  <2>1. /\ active' \in BOOLEAN /\ priming' \in BOOLEAN /\ mink' \in {"HOLD", "HOME", "ACTIVE"}
    BY <1>6 DEF Gate, Fsm
  <2> QED  BY <1>6, <2>1 DEF Gate, Goto
<1> QED  BY <1>1, <1>2, <1>3, <1>4, <1>5, <1>6 DEF Run

LEMMA PutTypes ==
  ASSUME ControllerTypes, NEW arm \in Arms, NEW command \in Commands, Put(arm, command)
  PROVE  queue' \in [Arms -> Seq(Commands)] /\ \A a \in Arms : Len(queue'[a]) <= QueueSize
<1>1. Append(queue[arm], command) \in Seq(Commands)
      /\ Len(Append(queue[arm], command)) = Len(queue[arm]) + 1 /\ Len(queue[arm]) \in Nat
  BY DEF ControllerTypes
<1>2. Len(queue[arm]) + 1 <= QueueSize  BY <1>1, ControllerAssumption DEF Put
<1>3. queue' = [queue EXCEPT ![arm] = Append(queue[arm], command)]  BY DEF Put
<1> QED  BY <1>1, <1>2, <1>3 DEF ControllerTypes

LEMMA OrderTypes ==
  /\ Order[1] = "right" /\ Order[2] = "left"
  /\ \A i \in {1, 2} : Order[i] \in Arms
BY DEF Order, Arms

LEMMA WaypointPut ==
  ASSUME CallerInv, PutWaypoint
  PROVE  \/ \E arm \in Arms :
              /\ Waypoint(episode) \in Commands /\ Put(arm, Waypoint(episode))
              /\ episode \in Episodes
         \/ UNCHANGED queue
<1>1. call = "exec" /\ step \in 0..(2 * ChunkSize - 1) /\ running /\ episode \in Episodes
  BY DEF CallerInv, PutWaypoint, Stops
<1>2. step \div ChunkSize \in {0, 1}  BY <1>1, ArmOfWaypoint, StopsAssumption
<1>3. step \div ChunkSize + 1 \in {1, 2}  BY <1>2
<1>4. Order[step \div ChunkSize + 1] \in Arms  BY <1>3, OrderTypes
<1> QED  BY <1>1, <1>4, CommandTypes DEF PutWaypoint

LEMMA CallerTypes ==
  ASSUME ControllerTypes, CallerInv, Caller
  PROVE  ControllerTypes'
<1>1. CASE UNCHANGED controllers  BY <1>1 DEF controllers, ControllerTypes
<1>2. CASE PutWaypoint
  <2>1. queue' \in [Arms -> Seq(Commands)] /\ \A a \in Arms : Len(queue'[a]) <= QueueSize
    BY <1>2, WaypointPut, PutTypes DEF ControllerTypes
  <2> QED  BY <1>2, <2>1 DEF PutWaypoint, ControllerTypes
<1>r. step \in 0..3 => Robot \in Arms  BY RobotTypes
<1>3. CASE ClearDone
  <2>1. Robot \in Arms /\ call \in Stops  BY <1>3, <1>r DEF ClearDone
  <2>2. done' \in [Arms -> [Stops -> BOOLEAN]]
    BY <1>3, <2>1 DEF ClearDone, ControllerTypes
  <2> QED  BY <1>3, <2>2 DEF ClearDone, ControllerTypes
<1>4. CASE PutStop
  <2>1. Robot \in Arms /\ Command(call) \in Commands
    BY <1>4, <1>r, CommandTypes DEF PutStop
  <2>2. queue' \in [Arms -> Seq(Commands)] /\ \A a \in Arms : Len(queue'[a]) <= QueueSize
    BY <1>4, <2>1, PutTypes DEF PutStop
  <2> QED  BY <1>4, <2>2 DEF PutStop, ControllerTypes
<1>5. CASE StopController
  <2>1. Robot \in Arms  BY <1>5, <1>r DEF StopController
  <2>2. queue' \in [Arms -> Seq(Commands)] /\ \A a \in Arms : Len(queue'[a]) <= QueueSize
    BY <1>5, <2>1, PutTypes, CommandTypes DEF StopController, ControllerTypes
  <2> QED  BY <1>5, <2>2 DEF StopController, ControllerTypes
<1>6. CASE SetStopEvent
  <2>1. Robot \in Arms  BY <1>6, <1>r DEF SetStopEvent
  <2>2. stopping' \in [Arms -> BOOLEAN]
    BY <1>6, <2>1 DEF SetStopEvent, ControllerTypes
  <2> QED  BY <1>6, <2>2 DEF SetStopEvent, ControllerTypes
<1> QED
  BY <1>1, <1>2, <1>3, <1>4, <1>5, <1>6 DEF Caller, StartRound, ExecActions, CallStop, AwaitArm,
    Confirm, RaiseFromCall, LeaveLoop

LEMMA TypesStep ==
  ASSUME ControllerTypes, CallerInv, [Next]_vars
  PROVE  ControllerTypes'
<1>1. CASE UNCHANGED controllers  BY <1>1 DEF controllers, ControllerTypes
<1> QED  BY <1>1, RunTypes, CallerTypes DEF Next, Finished, vars

LEMMA TypesMeanTypeOK == ControllerTypes /\ CallerInv => TypeOK
<1> SUFFICES ASSUME ControllerTypes, CallerInv PROVE TypeOK
  OBVIOUS
<1>1. ASSUME NEW q \in Seq(Commands), Len(q) <= QueueSize
      PROVE  q \in UNION {[1..n -> Commands] : n \in 0..QueueSize}
  <2>1. q \in [1..Len(q) -> Commands] /\ Len(q) \in Nat  OBVIOUS
  <2>2. Len(q) \in 0..QueueSize  BY <1>1, <2>1, ControllerAssumption
  <2> QED  BY <2>1, <2>2
<1>2. QueuesOK(queue) /\ QueuesOK(batch)
  BY <1>1 DEF QueuesOK, ControllerTypes
<1>3. step \in Nat
  BY StopsAssumption DEF CallerInv
<1>4. call \in Stops \union {"none", "exec"} /\ episode \in {0} \union Episodes
  BY DEF CallerInv, Episodes
<1> QED  BY <1>2, <1>3, <1>4 DEF ControllerTypes, ControllersTypeOK, TypeOK, CallerInv
-----------------------------------------------------------------------------
HasStop(q) == \E i \in 1..Len(q) : IsStop(q[i])

(* Every waypoint has a HOLD or HOME behind it.                            *)
Covered(q) ==
  \A i \in 1..Len(q) : IsWaypoint(q[i]) => \E j \in (i + 1)..Len(q) : IsStop(q[j])

NoExit(q) == \A i \in 1..Len(q) : q[i].cmd # "STOP"

PlaceInv(arm) ==
  /\ pc[arm] \in {"tick"} \union Ended => batch[arm] = <<>>
  /\ pc[arm] \in {"home", "homing"} => batch[arm] # <<>> /\ Head(batch[arm]).cmd = "HOME"

(* The controllers end of themselves only when the client stops them.      *)
EndInv(arm) ==
  leaving \in {"no", "hold"} =>
    NoExit(queue[arm]) /\ NoExit(batch[arm]) /\ ~stopping[arm] /\ pc[arm] # "exited"

(* The bridge is at the measured pose, and stays there: waypoints that are *)
(* still on their way, or of which the batch has begun, are dropped before *)
(* the next target is sampled.                                             *)
Safe(arm) ==
  /\ Covered(queue[arm]) /\ Covered(batch[arm])
  /\ trajectory[arm] # {} \/ got[arm] => HasStop(batch[arm])
  /\ published[arm] = Measured
  /\ arm = "right" => ~active /\ ~priming /\ mink # "ACTIVE"

(* The command is on its way, and nothing moves the arm after it.          *)
Coming(arm) == Covered(queue[arm]) /\ (HasStop(queue[arm]) \/ HasStop(batch[arm]))

(* What a confirmation means: the arm stands, or the confirmation came     *)
(* between the clear and the put.                                          *)
Held(arm) ==
  \/ Safe(arm)
  \/ arm \in early /\ (Coming(arm) \/ pc[arm] = "exited")

Told(arm) == call \in Stops /\ step > (IF arm = "right" THEN 1 ELSE 3)

AwaitInv(arm) ==
  Ok(arm) =>
    /\ Told(arm) => Covered(queue[arm])
    /\ Told(arm) /\ done[arm][call] => Held(arm)
    /\ confirmed => Held(arm)

WaitedInv ==
  call \in Stops =>
    /\ step >= 5 => done["right"][call]
    /\ step = 6 => done["left"][call]
-----------------------------------------------------------------------------
LEMMA CoveredEmpty == Covered(<<>>) /\ ~HasStop(<<>>) /\ NoExit(<<>>)
BY DEF Covered, HasStop, NoExit

LEMMA CoveredAppend ==
  ASSUME NEW q \in Seq(Commands), NEW c \in Commands
  PROVE  /\ IsStop(c) => Covered(Append(q, c)) /\ HasStop(Append(q, c))
         /\ Covered(q) /\ ~IsWaypoint(c) => Covered(Append(q, c))
         /\ NoExit(q) /\ c.cmd # "STOP" => NoExit(Append(q, c))
         /\ HasStop(q) => HasStop(Append(q, c))
<1>1. /\ Len(q) \in Nat /\ Len(Append(q, c)) = Len(q) + 1 /\ Append(q, c)[Len(q) + 1] = c
      /\ \A i \in 1..Len(q) : Append(q, c)[i] = q[i]
  OBVIOUS
<1>2. ASSUME IsStop(c) PROVE Covered(Append(q, c)) /\ HasStop(Append(q, c))
  <2>1. ~IsWaypoint(c)  BY <1>2 DEF IsStop, IsWaypoint, Stops
  <2> QED  BY <1>1, <1>2, <2>1 DEF Covered, HasStop
<1>3. ASSUME Covered(q), ~IsWaypoint(c) PROVE Covered(Append(q, c))
  <2> SUFFICES ASSUME NEW i \in 1..(Len(q) + 1), IsWaypoint(Append(q, c)[i])
               PROVE  \E j \in (i + 1)..(Len(q) + 1) : IsStop(Append(q, c)[j])
    BY <1>1 DEF Covered
  <2>1. i \in 1..Len(q) /\ IsWaypoint(q[i])  BY <1>1, <1>3
  <2>2. PICK j \in (i + 1)..Len(q) : IsStop(q[j])  BY <1>3, <2>1 DEF Covered
  <2>3. j \in 1..Len(q) /\ j \in (i + 1)..(Len(q) + 1)  BY <1>1, <2>1, <2>2
  <2> QED  BY <1>1, <2>2, <2>3
<1>4. ASSUME NoExit(q), c.cmd # "STOP" PROVE NoExit(Append(q, c))
  BY <1>1, <1>4 DEF NoExit
<1>5. ASSUME HasStop(q) PROVE HasStop(Append(q, c))
  BY <1>1, <1>5 DEF HasStop
<1> QED  BY <1>2, <1>3, <1>4, <1>5

LEMMA CoveredTail ==
  ASSUME NEW q \in Seq(Commands), q # <<>>
  PROVE  /\ Covered(q) => Covered(Tail(q))
         /\ Covered(q) /\ IsWaypoint(Head(q)) => HasStop(Tail(q))
         /\ NoExit(q) => NoExit(Tail(q))
<1>1. /\ Len(q) \in Nat \ {0} /\ Len(Tail(q)) = Len(q) - 1 /\ Head(q) = q[1]
      /\ \A i \in 1..(Len(q) - 1) : Tail(q)[i] = q[i + 1]
  OBVIOUS
<1>2. ASSUME Covered(q), NEW i \in 1..Len(q), IsWaypoint(q[i])
      PROVE  \E j \in i..(Len(q) - 1) : IsStop(Tail(q)[j])
  <2>1. PICK j \in (i + 1)..Len(q) : IsStop(q[j])  BY <1>2 DEF Covered
  <2>2. j - 1 \in i..(Len(q) - 1) /\ j - 1 \in 1..(Len(q) - 1) /\ (j - 1) + 1 = j
    BY <1>1, <2>1
  <2>3. Tail(q)[j - 1] = q[j]  BY <1>1, <2>2
  <2> QED  BY <2>1, <2>2, <2>3
<1>3. ASSUME Covered(q) PROVE Covered(Tail(q))
  <2> SUFFICES ASSUME NEW i \in 1..(Len(q) - 1), IsWaypoint(Tail(q)[i])
               PROVE  \E j \in (i + 1)..(Len(q) - 1) : IsStop(Tail(q)[j])
    BY <1>1 DEF Covered
  <2>1. i + 1 \in 1..Len(q) /\ IsWaypoint(q[i + 1])  BY <1>1
  <2> QED  BY <1>2, <1>3, <2>1
<1>4. ASSUME Covered(q), IsWaypoint(Head(q)) PROVE HasStop(Tail(q))
  <2>1. 1 \in 1..Len(q) /\ IsWaypoint(q[1])  BY <1>1, <1>4
  <2> QED  BY <1>1, <1>2, <1>4, <2>1 DEF HasStop
<1>5. ASSUME NoExit(q) PROVE NoExit(Tail(q))
  <2>1. \A i \in 1..(Len(q) - 1) : i + 1 \in 1..Len(q)  BY <1>1
  <2> QED  BY <1>1, <1>5, <2>1 DEF NoExit
<1> QED  BY <1>3, <1>4, <1>5

LEMMA HasStopTail ==
  ASSUME NEW q \in Seq(Commands), q # <<>>, HasStop(q), ~IsStop(Head(q))
  PROVE  HasStop(Tail(q))
<1>1. /\ Len(q) \in Nat \ {0} /\ Len(Tail(q)) = Len(q) - 1 /\ Head(q) = q[1]
      /\ \A i \in 1..(Len(q) - 1) : Tail(q)[i] = q[i + 1]
  OBVIOUS
<1>2. PICK i \in 1..Len(q) : IsStop(q[i])  BY DEF HasStop
<1>3. i # 1  BY <1>1, <1>2
<1>4. i - 1 \in 1..(Len(q) - 1) /\ (i - 1) + 1 = i  BY <1>1, <1>2, <1>3
<1> QED  BY <1>1, <1>2, <1>4 DEF HasStop
-----------------------------------------------------------------------------
(* A controller's step leaves what belongs to the other one alone.         *)
LEMMA OtherArm ==
  ASSUME ControllerTypes, NEW arm \in Arms, Run(arm) \/ Fail(arm), NEW other \in Arms \ {arm}
  PROVE  /\ queue'[other] = queue[other] /\ batch'[other] = batch[other]
         /\ pc'[other] = pc[other] /\ got'[other] = got[other]
         /\ trajectory'[other] = trajectory[other] /\ published'[other] = published[other]
         /\ done'[other] = done[other] /\ stopping'[other] = stopping[other]
         /\ other = "right" => UNCHANGED <<active, priming, mink>>
<1> USE DEF ControllerTypes
<1>1. CASE Fail(arm) \/ StopEvent(arm) \/ ProcessStop(arm)
  BY <1>1 DEF Fail, StopEvent, ProcessStop, Leave, Goto, ManageFsm
<1>2. CASE ProcessHold(arm) \/ ArriveHome(arm)
  BY <1>2 DEF ProcessHold, ArriveHome, Reset, Goto, SendFsm, ManageFsm
<1>3. CASE Tick(arm)  BY <1>3 DEF Tick, Goto
<1>4. CASE ProcessWaypoint(arm)  BY <1>4 DEF ProcessWaypoint
<1>5. CASE ProcessHome(arm) \/ MoveHome(arm)
  BY <1>5 DEF ProcessHome, MoveHome, SendFsm, Goto, ManageFsm
<1>6. CASE Gate(arm)  BY <1>6 DEF Gate, Goto, ManageFsm
<1> QED  BY <1>1, <1>2, <1>3, <1>4, <1>5, <1>6 DEF Run

LEMMA PlaceRun ==
  ASSUME ControllerTypes, NEW arm \in Arms, Run(arm) \/ Fail(arm), PlaceInv(arm)
  PROVE  PlaceInv(arm)'
<1> USE DEF ControllerTypes, PlaceInv, Ended
<1>1. CASE Fail(arm) \/ StopEvent(arm) \/ ProcessStop(arm)
  BY <1>1 DEF Fail, StopEvent, ProcessStop, Leave, Goto
<1>2. CASE ProcessHold(arm) \/ ArriveHome(arm)
  BY <1>2 DEF ProcessHold, ArriveHome, Reset, Goto
<1>3. CASE Tick(arm)  BY <1>3 DEF Tick, Goto
<1>4. CASE ProcessWaypoint(arm)  BY <1>4 DEF ProcessWaypoint
<1>5. CASE ProcessHome(arm) \/ MoveHome(arm)
  BY <1>5 DEF ProcessHome, MoveHome, First, Goto
<1>6. CASE Gate(arm)  BY <1>6 DEF Gate, Goto
<1> QED  BY <1>1, <1>2, <1>3, <1>4, <1>5, <1>6 DEF Run

LEMMA EndRun ==
  ASSUME ControllerTypes, NEW arm \in Arms, Run(arm) \/ Fail(arm), EndInv(arm),
         UNCHANGED leaving
  PROVE  EndInv(arm)'
<1> SUFFICES ASSUME leaving \in {"no", "hold"}
             PROVE  /\ NoExit(queue'[arm]) /\ NoExit(batch'[arm])
                    /\ ~stopping'[arm] /\ pc'[arm] # "exited"
  BY DEF EndInv, NoExit
<1>t. NoExit(queue[arm]) /\ NoExit(batch[arm]) /\ ~stopping[arm] /\ pc[arm] # "exited"
  BY DEF EndInv
<1> USE CoveredEmpty DEF ControllerTypes
<1>1. CASE Fail(arm)
  BY <1>1, <1>t DEF Fail, Leave, Goto
<1>2. CASE StopEvent(arm) \/ ProcessStop(arm)
  <2>1. ProcessStop(arm)  BY <1>2, <1>t DEF StopEvent
  <2>2. Head(batch[arm]).cmd = "STOP" /\ batch[arm] # <<>>  BY <2>1 DEF ProcessStop, First
  <2>3. 1 \in 1..Len(batch[arm]) /\ Head(batch[arm]) = batch[arm][1]  BY <2>2
  <2> QED  BY <1>t, <2>2, <2>3 DEF NoExit
<1>3. CASE ProcessHold(arm) \/ ArriveHome(arm)
  BY <1>3, <1>t DEF ProcessHold, ArriveHome, Reset, Goto
<1>4. CASE Tick(arm)  BY <1>4, <1>t DEF Tick, Goto
<1>5. CASE ProcessWaypoint(arm)
  BY <1>5, <1>t, CoveredTail DEF ProcessWaypoint, First
<1>6. CASE ProcessHome(arm) \/ MoveHome(arm)
  BY <1>6, <1>t DEF ProcessHome, MoveHome, Goto
<1>7. CASE Gate(arm)  BY <1>7, <1>t DEF Gate, Goto
<1> QED  BY <1>1, <1>2, <1>3, <1>4, <1>5, <1>6, <1>7 DEF Run

LEMMA SafeRun ==
  ASSUME ControllerTypes, NEW arm \in Arms, Run(arm), PlaceInv(arm), Safe(arm)
  PROVE  Safe(arm)'
<1> USE CoveredEmpty DEF ControllerTypes
<1>1. CASE StopEvent(arm) \/ ProcessStop(arm)
  BY <1>1 DEF StopEvent, ProcessStop, Leave, Goto, Safe
<1>2. CASE ProcessHold(arm) \/ ArriveHome(arm)
  BY <1>2 DEF ProcessHold, ArriveHome, Reset, SendFsm, Fsm, ManageFsm, Safe
<1>3. CASE Tick(arm)
  <2>1. trajectory[arm] = {} /\ ~got[arm]
    BY <1>3 DEF Tick, PlaceInv, Safe
  <2>2. published'[arm] = Measured /\ trajectory'[arm] = {} /\ ~got'[arm]
        /\ batch'[arm] = queue[arm] /\ queue'[arm] = <<>> /\ UNCHANGED <<active, priming, mink>>
    BY <1>3, <2>1 DEF Tick
  <2> QED  BY <2>2 DEF Safe
<1>4. CASE ProcessWaypoint(arm)
  <2>1. batch[arm] # <<>> /\ IsWaypoint(Head(batch[arm])) /\ batch'[arm] = Tail(batch[arm])
    BY <1>4 DEF ProcessWaypoint, First, IsWaypoint
  <2>2. Covered(batch'[arm]) /\ HasStop(batch'[arm])
    BY <2>1, CoveredTail DEF Safe
  <2>3. UNCHANGED <<queue, published, active, priming, mink>>
    BY <1>4 DEF ProcessWaypoint
  <2> QED  BY <2>2, <2>3 DEF Safe
<1>5. CASE ProcessHome(arm) \/ MoveHome(arm)
  BY <1>5 DEF ProcessHome, MoveHome, SendFsm, Fsm, ManageFsm, Safe
<1>6. CASE Gate(arm)
  <2>1. trajectory[arm] = {} /\ ~got[arm] /\ batch[arm] = <<>>
    BY <1>6 DEF Gate, Safe
  <2>2. arm = "right" => ~active' /\ ~priming' /\ mink' = mink
    BY <1>6, <2>1 DEF Gate, ManageFsm, Safe
  <2>3. ~got'[arm] /\ UNCHANGED <<queue, batch, trajectory, published>>
    BY <1>6 DEF Gate
  <2> QED  BY <2>1, <2>2, <2>3 DEF Safe
<1> QED  BY <1>1, <1>2, <1>3, <1>4, <1>5, <1>6 DEF Run

(* The first confirmation to come after the command was put: whichever     *)
(* HOLD or HOME gave it, the arm stands, and what is still queued ends in  *)
(* the command that was put.                                               *)
LEMMA SafeFromReset ==
  ASSUME ControllerTypes, NEW arm \in Arms, NEW stop \in Stops, Run(arm), Covered(queue[arm]),
         EndInv(arm), leaving \in {"no", "hold"}, ~done[arm][stop], done'[arm][stop]
  PROVE  Safe(arm)'
<1> USE CoveredEmpty DEF ControllerTypes
<1>1. CASE StopEvent(arm)  BY <1>1 DEF StopEvent, EndInv
<1>2. CASE ProcessStop(arm)
  <2>1. Head(batch[arm]).cmd = "STOP" /\ batch[arm] # <<>>  BY <1>2 DEF ProcessStop, First
  <2>2. 1 \in 1..Len(batch[arm]) /\ Head(batch[arm]) = batch[arm][1]  BY <2>1
  <2> QED  BY <2>1, <2>2 DEF NoExit, EndInv
<1>3. CASE ProcessHold(arm) \/ ArriveHome(arm)
  BY <1>3 DEF ProcessHold, ArriveHome, Reset, SendFsm, Fsm, ManageFsm, Safe
<1>4. CASE Tick(arm) \/ ProcessWaypoint(arm) \/ ProcessHome(arm) \/ MoveHome(arm) \/ Gate(arm)
  BY <1>4 DEF Tick, ProcessWaypoint, ProcessHome, MoveHome, Gate
<1> QED  BY <1>1, <1>2, <1>3, <1>4 DEF Run

(* A command under way arrives: the arm stands as soon as it, or another   *)
(* before it, is processed.                                                *)
LEMMA ComingRun ==
  ASSUME ControllerTypes, NEW arm \in Arms, Run(arm), PlaceInv(arm), Coming(arm)
  PROVE  Coming(arm)' \/ Safe(arm)' \/ pc'[arm] = "exited"
<1> USE CoveredEmpty DEF ControllerTypes
<1>1. CASE StopEvent(arm) \/ ProcessStop(arm)
  BY <1>1 DEF StopEvent, ProcessStop, Leave, Goto
<1>2. CASE ProcessHold(arm) \/ ArriveHome(arm)
  BY <1>2 DEF ProcessHold, ArriveHome, Reset, SendFsm, Fsm, ManageFsm, Safe, Coming
<1>3. CASE Tick(arm)
  <2>1. batch[arm] = <<>> /\ HasStop(queue[arm])
    BY <1>3 DEF Tick, PlaceInv, Coming
  <2>2. batch'[arm] = queue[arm] /\ queue'[arm] = <<>>  BY <1>3 DEF Tick
  <2> QED  BY <2>1, <2>2 DEF Coming
<1>4. CASE ProcessWaypoint(arm)
  <2>1. batch[arm] # <<>> /\ ~IsStop(Head(batch[arm])) /\ batch'[arm] = Tail(batch[arm])
        /\ queue' = queue
    BY <1>4 DEF ProcessWaypoint, First, IsStop, Stops
  <2>2. HasStop(batch[arm]) => HasStop(batch'[arm])  BY <2>1, HasStopTail
  <2> QED  BY <2>1, <2>2 DEF Coming
<1>5. CASE ProcessHome(arm) \/ MoveHome(arm) \/ Gate(arm)
  BY <1>5 DEF ProcessHome, MoveHome, Gate, Coming
<1> QED  BY <1>1, <1>2, <1>3, <1>4, <1>5 DEF Run

LEMMA HeldRun ==
  ASSUME ControllerTypes, CallerInv, NEW arm \in Arms, Run(arm), PlaceInv(arm), Held(arm),
         UNCHANGED caller
  PROVE  Held(arm)'
<1>1. UNCHANGED early  BY DEF caller
<1>2. CASE Safe(arm)  BY <1>2, SafeRun DEF Held
<1>3. CASE arm \in early /\ pc[arm] = "exited"
  BY <1>3 DEF Run, StopEvent, Tick, ProcessWaypoint, ProcessHold, ProcessHome, MoveHome, ArriveHome,
    ProcessStop, Gate
<1>4. CASE arm \in early /\ Coming(arm)
  BY <1>1, <1>4, ComingRun DEF Held
<1> QED  BY <1>2, <1>3, <1>4 DEF Held

LEMMA QueueRun ==
  ASSUME ControllerTypes, NEW arm \in Arms, Run(arm)
  PROVE  /\ queue'[arm] = queue[arm] \/ queue'[arm] = <<>>
         /\ \A stop \in Stops : done[arm][stop] => done'[arm][stop]
<1> USE DEF ControllerTypes
<1>1. CASE StopEvent(arm) \/ ProcessStop(arm)
  BY <1>1 DEF StopEvent, ProcessStop, Leave
<1>2. CASE ProcessHold(arm) \/ ArriveHome(arm)
  <2>1. PICK cmd \in Stops : Reset(arm, cmd)
    BY <1>2 DEF ProcessHold, ArriveHome, Stops
  <2>2. queue' = queue /\ done' = [done EXCEPT ![arm][cmd] = TRUE]
    BY <2>1 DEF Reset
  <2>3. \A stop \in Stops : done'[arm][stop] = IF stop = cmd THEN TRUE ELSE done[arm][stop]
    BY <2>1, <2>2
  <2> QED  BY <2>2, <2>3
<1>3. CASE Tick(arm) \/ ProcessWaypoint(arm) \/ ProcessHome(arm) \/ MoveHome(arm) \/ Gate(arm)
  BY <1>3 DEF Tick, ProcessWaypoint, ProcessHome, MoveHome, Gate
<1> QED  BY <1>1, <1>2, <1>3 DEF Run
-----------------------------------------------------------------------------
ConfirmInv ==
  /\ ControllerTypes /\ CallerInv
  /\ \A arm \in Arms : PlaceInv(arm) /\ EndInv(arm) /\ AwaitInv(arm)
  /\ WaitedInv

LEMMA PlaceStep ==
  ASSUME ConfirmInv, [Next]_vars, NEW arm \in Arms
  PROVE  PlaceInv(arm)'
<1> USE DEF ConfirmInv
<1>1. CASE UNCHANGED <<batch, pc>>  BY <1>1 DEF PlaceInv
<1>2. CASE \E a \in Arms : Run(a) \/ Fail(a)
  <2>1. PICK a \in Arms : Run(a) \/ Fail(a)  BY <1>2
  <2>2. CASE a = arm  BY <2>1, <2>2, PlaceRun
  <2>3. CASE a # arm  BY <2>1, <2>3, OtherArm DEF PlaceInv
  <2> QED  BY <2>2, <2>3
<1> QED
  BY <1>1, <1>2 DEF Next, Caller, StartRound, ExecActions, PutWaypoint, CallStop, ClearDone,
    PutStop, AwaitArm, Confirm, RaiseFromCall, LeaveLoop, StopController, SetStopEvent, Finished,
    controllers, vars

LEMMA EndStep ==
  ASSUME ConfirmInv, [Next]_vars, NEW arm \in Arms
  PROVE  EndInv(arm)'
<1> USE DEF ConfirmInv
<1>1. CASE \E a \in Arms : (Run(a) \/ Fail(a)) /\ UNCHANGED caller
  <2>1. PICK a \in Arms : (Run(a) \/ Fail(a)) /\ UNCHANGED leaving  BY <1>1 DEF caller
  <2>2. CASE a = arm  BY <2>1, <2>2, EndRun
  <2>3. CASE a # arm  BY <2>1, <2>3, OtherArm DEF EndInv
  <2> QED  BY <2>2, <2>3
<1>2. CASE Caller
  <2> SUFFICES ASSUME leaving' \in {"no", "hold"}
               PROVE  NoExit(queue'[arm]) /\ NoExit(batch'[arm]) /\ ~stopping'[arm]
                        /\ pc'[arm] # "exited"
    BY DEF EndInv
  <2>1. leaving \in {"no", "hold"} /\ UNCHANGED <<batch, pc, stopping>>
    BY <1>2 DEF Caller, StartRound, ExecActions, PutWaypoint, CallStop, ClearDone, PutStop,
      AwaitArm, Confirm, AfterCall, RaiseFromCall, LeaveLoop, StopController, SetStopEvent,
      controllers, CallerInv
  <2>2. NoExit(queue[arm]) /\ NoExit(batch[arm]) /\ ~stopping[arm] /\ pc[arm] # "exited"
    BY <2>1 DEF EndInv
  <2>3. \/ UNCHANGED queue
        \/ \E a \in Arms, c \in Commands : Put(a, c) /\ c.cmd # "STOP"
    <3>1. CASE PutWaypoint
      BY <3>1, WaypointPut, CommandTypes DEF IsWaypoint
    <3>2. CASE PutStop
      <4>1. step \in 0..3 /\ call \in Stops
        BY <3>2 DEF PutStop
      <4>2. Robot \in Arms /\ Command(call) \in Commands /\ Command(call).cmd # "STOP"
        BY <4>1, RobotTypes, CommandTypes DEF IsStop, Stops
      <4> QED  BY <3>2, <4>2 DEF PutStop
    <3>3. ~StopController /\ ~SetStopEvent  BY <2>1 DEF StopController, SetStopEvent
    <3> QED
      BY <1>2, <3>1, <3>2, <3>3 DEF Caller, StartRound, ExecActions, CallStop, ClearDone, AwaitArm,
        Confirm, RaiseFromCall, LeaveLoop, controllers
  <2>4. NoExit(queue'[arm])
    <3>1. CASE UNCHANGED queue  BY <2>2, <3>1
    <3>2. CASE \E a \in Arms, c \in Commands : Put(a, c) /\ c.cmd # "STOP"
      <4>1. PICK a \in Arms, c \in Commands : Put(a, c) /\ c.cmd # "STOP"  BY <3>2
      <4>2. queue'[arm] = IF a = arm THEN Append(queue[arm], c) ELSE queue[arm]
        BY <4>1 DEF Put, ControllerTypes
      <4>3. queue[arm] \in Seq(Commands)  BY DEF ControllerTypes
      <4> QED  BY <2>2, <4>1, <4>2, <4>3, CoveredAppend
    <3> QED  BY <2>3, <3>1, <3>2
  <2> QED  BY <2>1, <2>2, <2>4
<1>3. CASE UNCHANGED vars  BY <1>3 DEF vars, controllers, caller, EndInv
<1> QED  BY <1>1, <1>2, <1>3 DEF Next, Finished

LEMMA SafeOther ==
  ASSUME ControllerTypes, NEW arm \in Arms, NEW other \in Arms \ {arm}, Run(arm) \/ Fail(arm),
         UNCHANGED caller, AwaitInv(other)
  PROVE  AwaitInv(other)'
<1>1. /\ queue'[other] = queue[other] /\ batch'[other] = batch[other]
      /\ pc'[other] = pc[other] /\ got'[other] = got[other]
      /\ trajectory'[other] = trajectory[other] /\ published'[other] = published[other]
      /\ done'[other] = done[other] /\ UNCHANGED <<call, step, confirmed, early, leaving>>
      /\ other = "right" => UNCHANGED <<active, priming, mink>>
  BY OtherArm DEF caller
<1>2. Held(other)' = Held(other)  BY <1>1 DEF Held, Coming, Safe
<1>3. Told(other)' = Told(other) /\ Ok(other)' = Ok(other)  BY <1>1 DEF Told, Ok
<1> QED  BY <1>1, <1>2, <1>3 DEF AwaitInv

LEMMA AwaitRun ==
  ASSUME ConfirmInv, NEW arm \in Arms, Run(arm) \/ Fail(arm), UNCHANGED caller
  PROVE  AwaitInv(arm)'
<1>t. ControllerTypes /\ CallerInv /\ PlaceInv(arm) /\ EndInv(arm) /\ AwaitInv(arm)
  BY DEF ConfirmInv
<1>1. CASE Fail(arm)
  <2>1. ~Ok(arm)'  BY <1>t, <1>1 DEF Fail, Leave, Goto, Ok, ControllerTypes
  <2> QED  BY <2>1 DEF AwaitInv
<1>2. CASE Run(arm)
  <2> SUFFICES ASSUME Ok(arm)'
               PROVE  /\ Told(arm) => Covered(queue'[arm])
                      /\ Told(arm) /\ done'[arm][call] => Held(arm)'
                      /\ confirmed => Held(arm)'
    BY DEF AwaitInv, Told, caller
  <2>1. Ok(arm)
    BY <1>2 DEF Run, Tick, StopEvent, ProcessWaypoint, ProcessHold, ProcessHome, MoveHome,
      ArriveHome, ProcessStop, Gate, Ok
  <2>2. ASSUME Told(arm) PROVE Covered(queue'[arm])
    BY <1>t, <1>2, <2>1, <2>2, QueueRun, CoveredEmpty DEF AwaitInv
  <2>3. ASSUME Told(arm), done'[arm][call] PROVE Held(arm)'
    <3>1. CASE done[arm][call]
      BY <1>t, <1>2, <2>1, <2>3, <3>1, HeldRun DEF AwaitInv
    <3>2. CASE ~done[arm][call]
      <4>1. call \in Stops /\ leaving \in {"no", "hold"}
        BY <1>t, <2>3 DEF Told, CallerInv, Stops
      <4> QED  BY <1>t, <1>2, <2>1, <2>3, <3>2, <4>1, SafeFromReset DEF AwaitInv, Held
    <3> QED  BY <3>1, <3>2
  <2>4. ASSUME confirmed PROVE Held(arm)'
    BY <1>t, <1>2, <2>1, <2>4, HeldRun DEF AwaitInv
  <2> QED  BY <2>2, <2>3, <2>4
<1> QED  BY <1>1, <1>2

LEMMA AwaitCaller ==
  ASSUME ConfirmInv, Caller, NEW arm \in Arms
  PROVE  AwaitInv(arm)'
<1>t. ControllerTypes /\ CallerInv /\ AwaitInv(arm) /\ WaitedInv /\ queue[arm] \in Seq(Commands)
  BY DEF ConfirmInv, ControllerTypes
<1>k. UNCHANGED <<batch, pc, got, trajectory, published, active, priming, mink>>
  BY DEF Caller, StartRound, ExecActions, PutWaypoint, CallStop, ClearDone, PutStop, AwaitArm,
    Confirm, RaiseFromCall, LeaveLoop, StopController, SetStopEvent, controllers
<1>h. ASSUME queue'[arm] = queue[arm], arm \in early => arm \in early', Held(arm) PROVE Held(arm)'
  BY <1>k, <1>h DEF Held, Coming, Safe
<1>o. Ok(arm)' = Ok(arm)  BY <1>k DEF Ok
<1>1. CASE StartRound \/ AwaitArm
  <2>1. UNCHANGED <<queue, done, confirmed, early, call>>
    BY <1>1 DEF StartRound, AwaitArm, controllers
  <2>2. Told(arm)' => Told(arm)
    BY <1>1 DEF StartRound, AwaitArm, Told
  <2> QED  BY <1>t, <1>h, <1>o, <2>1, <2>2 DEF AwaitInv
<1>2. CASE ExecActions \/ PutWaypoint \/ \E stop \in Stops : CallStop(stop)
  <2>1. ~Told(arm)'
    BY <1>2 DEF ExecActions, PutWaypoint, CallStop, Told, Stops
  <2>2. ~confirmed'
    BY <1>t, <1>2 DEF ExecActions, PutWaypoint, CallStop, CallerInv
  <2> QED  BY <2>1, <2>2 DEF AwaitInv
<1>3. CASE ClearDone
  <2>1. call \in Stops /\ step \in {0, 2} /\ step \in 0..3 /\ ~confirmed
    BY <1>t, <1>3 DEF ClearDone, CallerInv, Stops
  <2>2. call' = call /\ step' = step + 1 /\ ~confirmed' /\ UNCHANGED <<queue, early>>
    BY <1>3, <2>1 DEF ClearDone
  <2>3. CASE arm = Robot
    <3>1. ~Told(arm)'  BY <2>1, <2>2, <2>3, RobotTypes DEF Told
    <3> QED  BY <2>2, <3>1 DEF AwaitInv
  <2>4. CASE arm # Robot
    <3>1. done'[arm] = done[arm]
      BY <1>t, <1>3, <2>1, <2>4, RobotTypes DEF ClearDone, ControllerTypes
    <3>2. Told(arm)' => Told(arm)  BY <2>1, <2>2, <2>4, RobotTypes DEF Told, Arms
    <3> QED  BY <1>t, <1>h, <1>o, <2>2, <3>1, <3>2 DEF AwaitInv
  <2> QED  BY <2>3, <2>4
<1>4. CASE PutStop
  <2>1. call \in Stops /\ step \in {1, 3} /\ step \in 0..3 /\ ~confirmed
    BY <1>t, <1>4 DEF PutStop, CallerInv, Stops
  <2>2. call' = call /\ step' = step + 1 /\ ~confirmed' /\ done' = done
    BY <1>4, <2>1 DEF PutStop
  <2>3. Robot \in Arms  BY <2>1, RobotTypes
  <2>4. early' = IF done[Robot][call] THEN early \union {Robot} ELSE early
    BY <1>4 DEF PutStop
  <2>5. CASE arm = Robot
    <3>1. Command(call) \in Commands /\ IsStop(Command(call))
      BY <2>1, CommandTypes
    <3>2. queue'[arm] = Append(queue[arm], Command(call))
      BY <1>t, <1>4, <2>5 DEF PutStop, Put, ControllerTypes
    <3>3. Covered(queue'[arm]) /\ HasStop(queue'[arm])
      BY <1>t, <3>1, <3>2, CoveredAppend
    <3>4. done'[arm][call'] => Held(arm)'
      BY <2>2, <2>4, <2>5, <3>3 DEF Held, Coming
    <3> QED  BY <2>2, <3>3, <3>4 DEF AwaitInv
  <2>6. CASE arm # Robot
    <3>1. queue'[arm] = queue[arm]
      BY <1>t, <1>4, <2>3, <2>6 DEF PutStop, Put, ControllerTypes
    <3>2. Told(arm)' => Told(arm)  BY <2>1, <2>2, <2>6, RobotTypes DEF Told, Arms
    <3> QED  BY <1>t, <1>h, <1>o, <2>2, <2>4, <3>1, <3>2 DEF AwaitInv
  <2> QED  BY <2>5, <2>6
<1>5. CASE Confirm
  <2>1. call \in Stops /\ step = 6 /\ done["right"][call] /\ done["left"][call] /\ call' = "none"
    BY <1>t, <1>5 DEF Confirm, WaitedInv
  <2>2. Told(arm) /\ done[arm][call]  BY <2>1 DEF Told, Arms
  <2>3. UNCHANGED <<queue, early>>  BY <1>5 DEF Confirm, controllers
  <2>4. ~Told(arm)'  BY <2>1 DEF Told, Stops
  <2> QED  BY <1>t, <1>h, <1>o, <2>2, <2>3, <2>4 DEF AwaitInv
<1>6. CASE RaiseFromCall \/ LeaveLoop
  <2>1. call' = "none" /\ UNCHANGED <<queue, confirmed, early>>
    BY <1>6 DEF RaiseFromCall, LeaveLoop, controllers
  <2>2. ~Told(arm)'  BY <2>1 DEF Told, Stops
  <2> QED  BY <1>t, <1>h, <1>o, <2>1, <2>2 DEF AwaitInv
<1>7. CASE StopController \/ SetStopEvent
  <2>1. /\ call = "none" /\ call' = "none" /\ step \in 0..3 /\ UNCHANGED <<confirmed, early>>
        /\ leaving' \in {"stop", "gone"}
    BY <1>t, <1>7 DEF StopController, SetStopEvent, CallerInv, Stops
  <2>2. Robot \in Arms  BY <2>1, RobotTypes
  <2>3. queue'[arm] = queue[arm] \/ queue'[arm] = Append(queue[arm], Command("STOP"))
    BY <1>t, <1>7, <2>2 DEF StopController, SetStopEvent, Put, ControllerTypes
  <2>4. Covered(queue[arm]) => Covered(queue'[arm])
    BY <1>t, <2>3, CoveredAppend, CommandTypes
  <2>5. /\ Safe(arm) => Safe(arm)'
        /\ Coming(arm) => Coming(arm)'
    <3>1. HasStop(queue[arm]) => HasStop(queue'[arm])  BY <1>t, <2>3, CoveredAppend, CommandTypes
    <3> QED  BY <1>k, <2>4, <3>1 DEF Safe, Coming
  <2>6. ~Told(arm)'  BY <2>1 DEF Told, Stops
  <2>7. Held(arm) => Held(arm)'  BY <1>k, <2>1, <2>5 DEF Held
  <2> QED  BY <1>t, <1>o, <2>1, <2>6, <2>7 DEF AwaitInv
<1> QED  BY <1>1, <1>2, <1>3, <1>4, <1>5, <1>6, <1>7 DEF Caller

LEMMA AwaitStep ==
  ASSUME ConfirmInv, [Next]_vars, NEW arm \in Arms
  PROVE  AwaitInv(arm)'
<1>1. CASE \E a \in Arms : (Run(a) \/ Fail(a)) /\ UNCHANGED caller
  <2>1. PICK a \in Arms : (Run(a) \/ Fail(a)) /\ UNCHANGED caller  BY <1>1
  <2>2. CASE a = arm  BY <2>1, <2>2, AwaitRun
  <2>3. CASE a # arm  BY <2>1, <2>3, SafeOther DEF ConfirmInv
  <2> QED  BY <2>2, <2>3
<1>2. CASE UNCHANGED vars
  BY <1>2 DEF ConfirmInv, AwaitInv, Held, Coming, Safe, Told, Ok, vars, controllers, caller
<1> QED  BY <1>1, <1>2, AwaitCaller DEF Next, Finished

LEMMA WaitedStep ==
  ASSUME ConfirmInv, [Next]_vars
  PROVE  WaitedInv'
<1> USE DEF ConfirmInv, WaitedInv
<1>1. CASE \E a \in Arms : (Run(a) \/ Fail(a)) /\ UNCHANGED caller
  <2>1. PICK a \in Arms : (Run(a) \/ Fail(a)) /\ UNCHANGED <<call, step>>  BY <1>1 DEF caller
  <2>2. ASSUME call \in Stops, NEW arm \in Arms, done[arm][call] PROVE done'[arm][call]
    <3>1. CASE a # arm  BY <2>1, <2>2, <3>1, OtherArm
    <3>2. CASE a = arm /\ Run(a)  BY <2>2, <3>2, QueueRun
    <3>3. CASE a = arm /\ Fail(a)
      BY <2>2, <3>3 DEF Fail, Leave, ControllerTypes
    <3> QED  BY <2>1, <3>1, <3>2, <3>3
  <2> QED  BY <2>1, <2>2 DEF Arms
<1>2. CASE AwaitArm
  <2>1. call \in Stops /\ step \in {4, 5} /\ done[Order[step - 3]][call] /\ step' = step + 1
        /\ UNCHANGED <<call, done>>
    BY <1>2 DEF AwaitArm, controllers
  <2>2. CASE step = 4  BY <2>1, <2>2, OrderTypes
  <2>3. CASE step = 5  BY <2>1, <2>3, OrderTypes
  <2> QED  BY <2>1, <2>2, <2>3
<1>3. CASE ClearDone \/ PutStop
  <2>1. step' \in 1..4  BY <1>3 DEF ClearDone, PutStop
  <2> QED  BY <2>1
<1>4. CASE Caller /\ ~AwaitArm /\ ~ClearDone /\ ~PutStop
  <2>1. call' \in Stops => step' = 0
    BY <1>4 DEF Caller, StartRound, ExecActions, PutWaypoint, CallStop, Confirm, RaiseFromCall,
      LeaveLoop, StopController, SetStopEvent, Stops, CallerInv
  <2> QED  BY <2>1
<1>5. CASE UNCHANGED vars  BY <1>5 DEF vars, caller, controllers
<1> QED  BY <1>1, <1>2, <1>3, <1>4, <1>5 DEF Next, Finished
-----------------------------------------------------------------------------
LEMMA ConfirmInitial == Init => ConfirmInv
<1> SUFFICES ASSUME Init PROVE ConfirmInv
  OBVIOUS
<1> USE DEF Init, ControllersInit
<1>1. ControllerTypes
  <2>1. <<>> \in Seq(Commands) /\ Len(<<>>) = 0 /\ Len(<<>>) <= QueueSize
    BY ControllerAssumption
  <2> QED  BY <2>1 DEF ControllerTypes, Measured
<1>2. CallerInv
  <2>1. 0 \in 0..MaxEpisode /\ 0 \in 0..MaxCalls  BY StopsAssumption, ControllerAssumption
  <2> QED  BY <2>1 DEF CallerInv
<1>3. ASSUME NEW arm \in Arms PROVE PlaceInv(arm) /\ EndInv(arm) /\ AwaitInv(arm)
  BY CoveredEmpty DEF PlaceInv, EndInv, AwaitInv, Told, Stops
<1>4. WaitedInv  BY DEF WaitedInv, Stops
<1> QED  BY <1>1, <1>2, <1>3, <1>4 DEF ConfirmInv

LEMMA ConfirmStep == ConfirmInv /\ [Next]_vars => ConfirmInv'
<1> SUFFICES ASSUME ConfirmInv, [Next]_vars PROVE ConfirmInv'
  OBVIOUS
<1>1. ControllerTypes' /\ CallerInv'  BY TypesStep, CallerStep DEF ConfirmInv
<1>2. ASSUME NEW arm \in Arms PROVE PlaceInv(arm)' /\ EndInv(arm)' /\ AwaitInv(arm)'
  BY PlaceStep, EndStep, AwaitStep
<1> QED  BY <1>1, <1>2, WaitedStep DEF ConfirmInv

LEMMA ConfirmInvariant == Spec => []ConfirmInv
BY ConfirmInitial, ConfirmStep, PTL DEF Spec
-----------------------------------------------------------------------------
(* What holds as long as every hold and go_home was confirmed.             *)
EpisodeOnly(q) == \A i \in 1..Len(q) : IsWaypoint(q[i]) => q[i].episode = episode

Fresh(arm) ==
  /\ published[arm] \in {Measured, episode} /\ trajectory[arm] \subseteq {episode}
  /\ EpisodeOnly(queue[arm]) /\ EpisodeOnly(batch[arm])

Clear(arm) ==
  queue[arm] = <<>> /\ batch[arm] = <<>> /\ trajectory[arm] = {} /\ published[arm] = Measured

Waypoints(q) == \A i \in 1..Len(q) : IsWaypoint(q[i])

Ends(q, stop) ==
  q # <<>> /\ q[Len(q)] = Command(stop) /\ \A i \in 1..(Len(q) - 1) : IsWaypoint(q[i])

(* The command waited for is the last one of the arm, and the only HOLD or *)
(* HOME.                                                                   *)
OnItsWay(arm) ==
  \/ Waypoints(batch[arm]) /\ Ends(queue[arm], call)
  \/ queue[arm] = <<>> /\ Ends(batch[arm], call)

(* Between the clear and the put.                                          *)
Cleared(arm) == call \in Stops /\ step = (IF arm = "right" THEN 1 ELSE 3)

CleanArm(arm) ==
  Ok(arm) =>
    /\ Fresh(arm)
    /\ Told(arm) /\ done[arm][call] => Clear(arm)
    /\ Told(arm) /\ ~done[arm][call] => OnItsWay(arm)
    /\ ~Told(arm) => ~HasStop(queue[arm]) /\ ~HasStop(batch[arm])
    /\ leaving = "no" /\ call = "none" /\ ~running => Clear(arm)
    /\ Cleared(arm) => ~done[arm][call]

CleanInv == clean => \A arm \in Arms : CleanArm(arm)

LEMMA EmptyFacts ==
  EpisodeOnly(<<>>) /\ EpisodeOnly(<<>>)' /\ ~HasStop(<<>>) /\ Waypoints(<<>>)
BY DEF EpisodeOnly, HasStop, Waypoints

LEMMA AppendFacts ==
  ASSUME NEW q \in Seq(Commands), NEW c \in Commands
  PROVE  /\ ~HasStop(q) /\ ~IsStop(c) => ~HasStop(Append(q, c))
         /\ EpisodeOnly(q) /\ (IsWaypoint(c) => c.episode = episode) => EpisodeOnly(Append(q, c))
         /\ Waypoints(q) => \A stop \in Stops : c = Command(stop) => Ends(Append(q, c), stop)
<1>1. /\ Len(q) \in Nat /\ Len(Append(q, c)) = Len(q) + 1 /\ Append(q, c)[Len(q) + 1] = c
      /\ \A i \in 1..Len(q) : Append(q, c)[i] = q[i]
      /\ Append(q, c) # <<>>
  OBVIOUS
<1>2. \A i \in 1..(Len(q) + 1) : i \in 1..Len(q) \/ i = Len(q) + 1
  BY <1>1
<1>3. ~HasStop(q) /\ ~IsStop(c) => ~HasStop(Append(q, c))
  BY <1>1, <1>2 DEF HasStop
<1>4. EpisodeOnly(q) /\ (IsWaypoint(c) => c.episode = episode) => EpisodeOnly(Append(q, c))
  BY <1>1, <1>2 DEF EpisodeOnly
<1>5. Waypoints(q) => \A stop \in Stops : c = Command(stop) => Ends(Append(q, c), stop)
  BY <1>1 DEF Waypoints, Ends
<1> QED  BY <1>3, <1>4, <1>5

LEMMA TailFacts ==
  ASSUME NEW q \in Seq(Commands), q # <<>>
  PROVE  /\ HasStop(Tail(q)) => HasStop(q)
         /\ EpisodeOnly(q) => EpisodeOnly(Tail(q))
         /\ EpisodeOnly(q) /\ IsWaypoint(Head(q)) => Head(q).episode = episode
         /\ Waypoints(q) => Waypoints(Tail(q)) /\ IsWaypoint(Head(q))
         /\ \A stop \in Stops : Ends(q, stop) /\ IsWaypoint(Head(q)) => Ends(Tail(q), stop)
         /\ \A stop \in Stops : Ends(q, stop) /\ ~IsWaypoint(Head(q)) => Head(q) = Command(stop)
<1>1. /\ Len(q) \in Nat \ {0} /\ Len(Tail(q)) = Len(q) - 1 /\ Head(q) = q[1]
      /\ \A i \in 1..(Len(q) - 1) : Tail(q)[i] = q[i + 1] /\ i + 1 \in 1..Len(q)
      /\ 1 \in 1..Len(q)
  OBVIOUS
<1>2. HasStop(Tail(q)) => HasStop(q)  BY <1>1 DEF HasStop
<1>3. EpisodeOnly(q) => EpisodeOnly(Tail(q))  BY <1>1 DEF EpisodeOnly
<1>4. EpisodeOnly(q) /\ IsWaypoint(Head(q)) => Head(q).episode = episode
  BY <1>1 DEF EpisodeOnly
<1>5. Waypoints(q) => Waypoints(Tail(q)) /\ IsWaypoint(Head(q))  BY <1>1 DEF Waypoints
<1>6. ASSUME NEW stop \in Stops, Ends(q, stop), IsWaypoint(Head(q)) PROVE Ends(Tail(q), stop)
  <2>1. Len(q) # 1  BY <1>1, <1>6, CommandTypes DEF Ends
  <2>2. Len(q) - 1 \in 1..(Len(q) - 1) /\ (Len(q) - 1) + 1 = Len(q)  BY <1>1, <2>1
  <2>3. Tail(q)[Len(Tail(q))] = Command(stop) /\ Tail(q) # <<>>
    <3>1. Tail(q)[Len(q) - 1] = q[Len(q)]  BY <1>1, <2>2
    <3>2. q[Len(q)] = Command(stop)  BY <1>6 DEF Ends
    <3>3. Len(Tail(q)) # 0  BY <1>1, <2>1
    <3>4. Tail(q) # <<>>
      <4>1. Len(<<>>) = 0  OBVIOUS
      <4> QED  BY <3>3, <4>1
    <3>5. Tail(q)[Len(Tail(q))] = Tail(q)[Len(q) - 1]  BY <1>1
    <3> QED  BY <3>1, <3>2, <3>4, <3>5
  <2>4. \A i \in 1..(Len(q) - 2) : Tail(q)[i] = q[i + 1] /\ i + 1 \in 1..(Len(q) - 1)
    BY <1>1
  <2>5. Len(Tail(q)) - 1 = Len(q) - 2  BY <1>1
  <2> QED  BY <1>6, <2>3, <2>4, <2>5 DEF Ends
<1>7. ASSUME NEW stop \in Stops, Ends(q, stop), ~IsWaypoint(Head(q)) PROVE Head(q) = Command(stop)
  <2>1. 1 \notin 1..(Len(q) - 1)  BY <1>1, <1>7 DEF Ends
  <2>2. Len(q) = 1  BY <1>1, <2>1
  <2> QED  BY <1>1, <1>7, <2>2 DEF Ends
<1> QED  BY <1>2, <1>3, <1>4, <1>5, <1>6, <1>7

LEMMA OnlyWaypoints ==
  ASSUME NEW q \in Seq(Commands), ~HasStop(q), NoExit(q)
  PROVE  Waypoints(q)
<1>1. \A i \in 1..Len(q) : q[i] \in Commands  OBVIOUS
<1> QED  BY <1>1, CommandTypes DEF HasStop, NoExit, Waypoints, IsStop, IsWaypoint, Stops
-----------------------------------------------------------------------------
LEMMA ClearRun ==
  ASSUME ControllerTypes, NEW arm \in Arms, Run(arm), PlaceInv(arm), Clear(arm)
  PROVE  Clear(arm)'
<1> USE DEF ControllerTypes, Clear
<1>1. CASE StopEvent(arm)  BY <1>1 DEF StopEvent, Leave
<1>2. CASE Tick(arm)  BY <1>2 DEF Tick
<1>3. CASE Gate(arm)  BY <1>3 DEF Gate
<1>4. CASE ProcessStop(arm) \/ ProcessHold(arm) \/ ProcessWaypoint(arm) \/ ProcessHome(arm)
  BY <1>4 DEF ProcessStop, ProcessHold, ProcessWaypoint, ProcessHome, First
<1>5. CASE MoveHome(arm) \/ ArriveHome(arm)
  BY <1>5 DEF MoveHome, ArriveHome, PlaceInv
<1> QED  BY <1>1, <1>2, <1>3, <1>4, <1>5 DEF Run

LEMMA FreshRun ==
  ASSUME ControllerTypes, NEW arm \in Arms, Run(arm), UNCHANGED episode, Fresh(arm)
  PROVE  Fresh(arm)'
<1> USE EmptyFacts DEF ControllerTypes
<1>t. /\ EpisodeOnly(queue[arm]) /\ EpisodeOnly(batch[arm])
      /\ published[arm] \in {Measured, episode} /\ trajectory[arm] \subseteq {episode}
  BY DEF Fresh
<1>p. \A q : EpisodeOnly(q) => EpisodeOnly(q)'  BY DEF EpisodeOnly
<1>1. CASE StopEvent(arm) \/ ProcessStop(arm)
  <2>1. UNCHANGED <<queue, published>> /\ trajectory'[arm] = {} /\ batch'[arm] = <<>>
    BY <1>1 DEF StopEvent, ProcessStop, Leave
  <2> QED  BY <1>t, <2>1 DEF Fresh, EpisodeOnly
<1>2. CASE ProcessHold(arm) \/ ArriveHome(arm)
  <2>1. queue' = queue /\ published'[arm] = Measured /\ trajectory'[arm] = {}
        /\ batch'[arm] = <<>>
    BY <1>2 DEF ProcessHold, ArriveHome, Reset
  <2> QED  BY <1>t, <2>1 DEF Fresh, EpisodeOnly
<1>3. CASE Tick(arm)
  <2>1. /\ queue'[arm] = <<>> /\ batch'[arm] = queue[arm] /\ trajectory' = trajectory
        /\ published'[arm] \in trajectory[arm] \union {Measured}
    BY <1>3 DEF Tick
  <2> QED  BY <1>t, <2>1 DEF Fresh, EpisodeOnly
<1>4. CASE ProcessWaypoint(arm)
  <2>1. batch[arm] # <<>> /\ IsWaypoint(Head(batch[arm])) /\ batch'[arm] = Tail(batch[arm])
        /\ UNCHANGED <<queue, published>>
    BY <1>4 DEF ProcessWaypoint, First, IsWaypoint
  <2>2. EpisodeOnly(Tail(batch[arm])) /\ Head(batch[arm]).episode = episode
    BY <1>t, <2>1, TailFacts
  <2>3. trajectory'[arm] \subseteq trajectory[arm] \union {Head(batch[arm]).episode}
    BY <1>4 DEF ProcessWaypoint
  <2> QED  BY <1>t, <2>1, <2>2, <2>3 DEF Fresh, EpisodeOnly
<1>5. CASE ProcessHome(arm) \/ MoveHome(arm) \/ Gate(arm)
  <2>1. UNCHANGED <<queue, batch, trajectory, published>>
    BY <1>5 DEF ProcessHome, MoveHome, Gate
  <2> QED  BY <1>t, <2>1 DEF Fresh, EpisodeOnly
<1> QED  BY <1>1, <1>2, <1>3, <1>4, <1>5 DEF Run

LEMMA NoStopRun ==
  ASSUME ControllerTypes, NEW arm \in Arms, Run(arm),
         ~HasStop(queue[arm]), ~HasStop(batch[arm])
  PROVE  ~HasStop(queue'[arm]) /\ ~HasStop(batch'[arm])
<1> USE EmptyFacts DEF ControllerTypes
<1>1. CASE StopEvent(arm) \/ ProcessStop(arm)
  BY <1>1 DEF StopEvent, ProcessStop, Leave
<1>2. CASE ProcessHold(arm) \/ ArriveHome(arm)
  BY <1>2 DEF ProcessHold, ArriveHome, Reset
<1>3. CASE Tick(arm)  BY <1>3 DEF Tick
<1>4. CASE ProcessWaypoint(arm)
  BY <1>4, TailFacts DEF ProcessWaypoint, First
<1>5. CASE ProcessHome(arm) \/ MoveHome(arm) \/ Gate(arm)
  BY <1>5 DEF ProcessHome, MoveHome, Gate
<1> QED  BY <1>1, <1>2, <1>3, <1>4, <1>5 DEF Run

(* The command is under way until it is processed; nothing is behind it    *)
(* then.                                                                   *)
LEMMA OnItsWayRun ==
  ASSUME ControllerTypes, NEW arm \in Arms, Run(arm), PlaceInv(arm), EndInv(arm),
         leaving \in {"no", "hold"}, call \in Stops, UNCHANGED call, ~done[arm][call], OnItsWay(arm)
  PROVE  IF done'[arm][call] THEN Clear(arm)' ELSE OnItsWay(arm)'
<1> USE EmptyFacts DEF ControllerTypes
<1>t. batch[arm] \in Seq(Commands) /\ queue[arm] \in Seq(Commands)  OBVIOUS
<1>1. CASE StopEvent(arm)  BY <1>1 DEF StopEvent, EndInv
<1>2. CASE ProcessStop(arm)
  <2>1. Head(batch[arm]).cmd = "STOP" /\ batch[arm] # <<>>  BY <1>2 DEF ProcessStop, First
  <2>2. 1 \in 1..Len(batch[arm]) /\ Head(batch[arm]) = batch[arm][1]  BY <2>1
  <2> QED  BY <2>1, <2>2 DEF NoExit, EndInv
<1>3. CASE ProcessHold(arm) \/ ArriveHome(arm)
  <2>1. PICK stop \in Stops : Reset(arm, stop) /\ batch[arm] # <<>> /\ Head(batch[arm]).cmd = stop
    BY <1>3 DEF ProcessHold, ArriveHome, First, PlaceInv, Stops
  <2>2. ~IsWaypoint(Head(batch[arm]))  BY <2>1 DEF IsWaypoint, Stops
  <2>3. queue[arm] = <<>> /\ Ends(batch[arm], call)
    BY <1>t, <2>1, <2>2, TailFacts DEF OnItsWay
  <2>4. stop = call
    BY <1>t, <2>1, <2>2, <2>3, TailFacts DEF Command
  <2>5. /\ queue'[arm] = <<>> /\ batch'[arm] = <<>> /\ trajectory'[arm] = {}
        /\ published'[arm] = Measured /\ done'[arm][call]
    BY <2>1, <2>3, <2>4 DEF Reset
  <2> QED  BY <2>5 DEF Clear
<1>4. CASE Tick(arm)
  <2>1. batch[arm] = <<>>  BY <1>4 DEF Tick, PlaceInv
  <2>2. Ends(queue[arm], call)  BY <2>1 DEF OnItsWay, Ends
  <2>3. batch'[arm] = queue[arm] /\ queue'[arm] = <<>> /\ done' = done
    BY <1>4 DEF Tick
  <2>4. Ends(batch'[arm], call')  BY <2>2, <2>3
  <2> QED  BY <2>3, <2>4 DEF OnItsWay
<1>5. CASE ProcessWaypoint(arm)
  <2>1. batch[arm] # <<>> /\ IsWaypoint(Head(batch[arm])) /\ batch'[arm] = Tail(batch[arm])
        /\ UNCHANGED <<queue, done>>
    BY <1>5 DEF ProcessWaypoint, First, IsWaypoint
  <2>2. /\ Waypoints(batch[arm]) => Waypoints(Tail(batch[arm]))
        /\ Ends(batch[arm], call) => Ends(Tail(batch[arm]), call)
    BY <1>t, <2>1, TailFacts
  <2> QED  BY <2>1, <2>2 DEF OnItsWay
<1>6. CASE ProcessHome(arm) \/ MoveHome(arm) \/ Gate(arm)
  BY <1>6 DEF ProcessHome, MoveHome, Gate, OnItsWay
<1> QED  BY <1>1, <1>2, <1>3, <1>4, <1>5, <1>6 DEF Run

(* Without a HOLD or HOME under way nothing sets the events.               *)
LEMMA ClearedRun ==
  ASSUME ControllerTypes, NEW arm \in Arms, Run(arm), PlaceInv(arm), EndInv(arm),
         leaving \in {"no", "hold"}, ~HasStop(batch[arm])
  PROVE  done'[arm] = done[arm]
<1>t. batch[arm] \in Seq(Commands)  BY DEF ControllerTypes
<1>b. batch[arm] # <<>> => ~IsStop(Head(batch[arm])) /\ 1 \in 1..Len(batch[arm])
                            /\ Head(batch[arm]) = batch[arm][1]
  BY <1>t DEF HasStop
<1>1. CASE StopEvent(arm)  BY <1>1 DEF StopEvent, EndInv
<1>2. CASE ProcessStop(arm)  BY <1>2, <1>b DEF ProcessStop, First, NoExit, EndInv
<1>3. CASE ProcessHold(arm) \/ ArriveHome(arm)
  BY <1>3, <1>b DEF ProcessHold, ArriveHome, First, PlaceInv, IsStop, Stops
<1>4. CASE Tick(arm) \/ ProcessWaypoint(arm) \/ ProcessHome(arm) \/ MoveHome(arm) \/ Gate(arm)
  BY <1>4 DEF Tick, ProcessWaypoint, ProcessHome, MoveHome, Gate
<1> QED  BY <1>1, <1>2, <1>3, <1>4 DEF Run

LEMMA CleanRun ==
  ASSUME ConfirmInv, NEW arm \in Arms, Run(arm) \/ Fail(arm), UNCHANGED caller, CleanArm(arm)
  PROVE  CleanArm(arm)'
<1>t. ControllerTypes /\ CallerInv /\ PlaceInv(arm) /\ EndInv(arm)  BY DEF ConfirmInv
<1>c. UNCHANGED <<call, step, episode, running, leaving>>  BY DEF caller
<1>1. CASE Fail(arm)
  <2>1. ~Ok(arm)'  BY <1>t, <1>1 DEF Fail, Leave, Goto, Ok, ControllerTypes
  <2> QED  BY <2>1 DEF CleanArm
<1>2. CASE Run(arm)
  <2>1. Ok(arm)
    BY <1>2 DEF Run, Tick, StopEvent, ProcessWaypoint, ProcessHold, ProcessHome, MoveHome,
      ArriveHome, ProcessStop, Gate, Ok
  <2>2. Fresh(arm)'  BY <1>t, <1>c, <1>2, <2>1, FreshRun DEF CleanArm
  <2>3. Clear(arm) => Clear(arm)'  BY <1>t, <1>2, ClearRun
  <2>4. Told(arm)' = Told(arm)  BY <1>c DEF Told
  <2>5. ASSUME Told(arm)
        PROVE  /\ done'[arm][call'] => Clear(arm)'
               /\ ~done'[arm][call'] => OnItsWay(arm)'
    <3>1. call \in Stops /\ leaving \in {"no", "hold"}
      BY <1>t, <2>5 DEF Told, CallerInv, Stops
    <3>2. CASE done[arm][call]
      BY <1>t, <1>c, <1>2, <2>1, <2>3, <2>5, <3>1, <3>2, QueueRun DEF CleanArm
    <3>3. CASE ~done[arm][call]
      BY <1>t, <1>c, <1>2, <2>1, <2>5, <3>1, <3>3, OnItsWayRun DEF CleanArm
    <3> QED  BY <3>2, <3>3
  <2>6. ASSUME ~Told(arm) PROVE ~HasStop(queue'[arm]) /\ ~HasStop(batch'[arm])
    BY <1>t, <1>2, <2>1, <2>6, NoStopRun DEF CleanArm
  <2>7. leaving = "no" /\ call = "none" /\ ~running => Clear(arm)'
    BY <2>1, <2>3 DEF CleanArm
  <2>8. ASSUME Cleared(arm) PROVE ~done'[arm][call]
    <3>1. ~Told(arm) /\ leaving \in {"no", "hold"}
      BY <1>t, <2>8 DEF Cleared, Told, CallerInv, Stops
    <3> QED  BY <1>t, <1>2, <2>1, <2>8, <3>1, ClearedRun DEF CleanArm
  <2>9. Cleared(arm)' = Cleared(arm)  BY <1>c DEF Cleared
  <2> QED  BY <1>c, <2>2, <2>4, <2>5, <2>6, <2>7, <2>8, <2>9 DEF CleanArm
<1> QED  BY <1>1, <1>2

LEMMA ClearedCaller ==
  ASSUME ControllerTypes, CallerInv, Caller, NEW arm \in Arms, Cleared(arm)'
  PROVE  ~done'[arm][call']
<1>1. CASE ClearDone
  <2>1. call \in Stops /\ step \in {0, 2} /\ step \in 0..3 /\ call' = call /\ step' = step + 1
    BY <1>1 DEF ClearDone
  <2>2. arm = Robot  BY <2>1, RobotTypes DEF Cleared, Arms
  <2> QED  BY <1>1, <2>1, <2>2 DEF ClearDone, ControllerTypes
<1>2. CASE StartRound \/ ExecActions \/ (\E stop \in Stops : CallStop(stop)) \/ Confirm
           \/ RaiseFromCall \/ LeaveLoop
  BY <1>2 DEF StartRound, ExecActions, CallStop, Confirm, RaiseFromCall, LeaveLoop, CallerInv,
    Cleared, Stops
<1>3. CASE PutStop \/ AwaitArm
  BY <1>3 DEF PutStop, AwaitArm, Cleared
<1>4. CASE PutWaypoint
  <2>1. call' \in {"exec", "none"}  BY <1>4 DEF PutWaypoint
  <2> QED  BY <2>1 DEF Cleared, Stops
<1>5. CASE StopController \/ SetStopEvent
  <2>1. call' = "none"  BY <1>5 DEF StopController, SetStopEvent, CallerInv
  <2> QED  BY <2>1 DEF Cleared, Stops
<1> QED  BY <1>1, <1>2, <1>3, <1>4, <1>5 DEF Caller

LEMMA CleanCaller ==
  ASSUME ConfirmInv, Caller, clean', NEW arm \in Arms, clean => CleanArm(arm)
  PROVE  CleanArm(arm)'
<1>t. /\ ControllerTypes /\ CallerInv /\ WaitedInv /\ EndInv(arm)
      /\ queue[arm] \in Seq(Commands) /\ batch[arm] \in Seq(Commands)
  BY DEF ConfirmInv, ControllerTypes
<1>k. UNCHANGED <<batch, pc, got, trajectory, published>>
  BY DEF Caller, StartRound, ExecActions, PutWaypoint, CallStop, ClearDone, PutStop, AwaitArm,
    Confirm, RaiseFromCall, LeaveLoop, StopController, SetStopEvent, controllers
<1>c. clean /\ ~RaiseFromCall
  BY DEF Caller, StartRound, ExecActions, PutWaypoint, CallStop, ClearDone, PutStop, AwaitArm,
    Confirm, RaiseFromCall, LeaveLoop, StopController, SetStopEvent, CallerInv
<1> SUFFICES ASSUME Ok(arm)
             PROVE  /\ Fresh(arm)'
                    /\ Told(arm)' /\ done'[arm][call'] => Clear(arm)'
                    /\ Told(arm)' /\ ~done'[arm][call'] => OnItsWay(arm)'
                    /\ ~Told(arm)' => ~HasStop(queue'[arm]) /\ ~HasStop(batch'[arm])
                    /\ leaving' = "no" /\ call' = "none" /\ ~running' => Clear(arm)'
  BY <1>k, <1>t, ClearedCaller DEF CleanArm, Ok
<1>s. /\ Fresh(arm)
      /\ Told(arm) /\ done[arm][call] => Clear(arm)
      /\ Told(arm) /\ ~done[arm][call] => OnItsWay(arm)
      /\ ~Told(arm) => ~HasStop(queue[arm]) /\ ~HasStop(batch[arm])
      /\ leaving = "no" /\ call = "none" /\ ~running => Clear(arm)
      /\ Cleared(arm) => ~done[arm][call]
  BY <1>c DEF CleanArm
<1>f. UNCHANGED <<queue, episode>> => Fresh(arm)' /\ Clear(arm)' = Clear(arm)
  BY <1>k, <1>s DEF Fresh, EpisodeOnly, Clear
<1>1. CASE StartRound
  <2>1. Clear(arm) /\ ~Told(arm)' /\ UNCHANGED queue /\ running'
    BY <1>1, <1>s DEF StartRound, controllers, Told, Stops
  <2>2. Clear(arm)'  BY <1>k, <2>1 DEF Clear
  <2>3. Fresh(arm)'
    BY <2>2 DEF Fresh, Clear, EpisodeOnly
  <2> QED  BY <2>1, <2>2, <2>3, EmptyFacts DEF Clear
<1>2. CASE ExecActions \/ \E stop \in Stops : CallStop(stop)
  <2>1. CASE ExecActions
    <3>1. /\ UNCHANGED <<queue, episode>> /\ call' = "exec" /\ call = "none"
      BY <2>1 DEF ExecActions, controllers
    <3>2. ~Told(arm) /\ ~Told(arm)'  BY <3>1 DEF Told, Stops
    <3> QED  BY <1>f, <1>k, <1>s, <3>1, <3>2
  <2>2. ASSUME NEW stop \in Stops, CallStop(stop)
        PROVE  /\ UNCHANGED <<queue, episode>> /\ call' # "none"
               /\ ~Told(arm) /\ ~Told(arm)'
    <3>1. /\ UNCHANGED <<queue, episode>> /\ call' = stop /\ call = "none" /\ step' = 0
      BY <2>2 DEF CallStop, controllers
    <3> QED  BY <3>1 DEF Told, Stops
  <2>3. CASE \E stop \in Stops : CallStop(stop)
    BY <1>f, <1>k, <1>s, <2>2, <2>3
  <2> QED  BY <1>2, <2>1, <2>3
<1>3. CASE PutWaypoint
  <2>1. ~Told(arm) /\ ~Told(arm)' /\ episode' = episode /\ (running' \/ leaving' # "no")
    BY <1>t, <1>3 DEF PutWaypoint, CallerInv, Told, Stops
  <2>2. CASE UNCHANGED queue  BY <1>f, <1>k, <1>s, <2>1, <2>2
  <2>3. CASE \E a \in Arms : /\ Waypoint(episode) \in Commands /\ Put(a, Waypoint(episode))
                             /\ episode \in Episodes
    <3>1. PICK a \in Arms : Put(a, Waypoint(episode))  BY <2>3
    <3>2. queue'[arm] = IF a = arm THEN Append(queue[arm], Waypoint(episode)) ELSE queue[arm]
      BY <1>t, <3>1 DEF Put, ControllerTypes
    <3>3. /\ IsWaypoint(Waypoint(episode)) /\ ~IsStop(Waypoint(episode))
          /\ Waypoint(episode).episode = episode
      BY DEF Waypoint, IsWaypoint, IsStop, Stops
    <3>4. EpisodeOnly(queue'[arm]) /\ ~HasStop(queue'[arm])
      BY <1>t, <1>s, <2>1, <2>3, <3>2, <3>3, AppendFacts DEF Fresh
    <3>5. Fresh(arm)'
      BY <1>k, <1>s, <2>1, <3>4 DEF Fresh, EpisodeOnly
    <3> QED  BY <1>k, <1>s, <2>1, <3>4, <3>5
  <2> QED  BY <1>t, <1>3, <2>2, <2>3, WaypointPut
<1>4. CASE ClearDone
  <2>1. /\ call \in Stops /\ step \in {0, 2} /\ step \in 0..3
        /\ call' = call /\ step' = step + 1 /\ UNCHANGED <<queue, episode>>
    BY <1>4 DEF ClearDone
  <2>2. CASE arm = Robot
    <3>1. ~Told(arm) /\ ~Told(arm)'  BY <2>1, <2>2, RobotTypes DEF Told
    <3>2. ~done'[arm][call]
      BY <1>t, <1>4, <2>1, <2>2 DEF ClearDone, ControllerTypes
    <3> QED  BY <1>f, <1>k, <1>s, <2>1, <3>1, <3>2 DEF Stops
  <2>3. CASE arm # Robot
    <3>1. done'[arm] = done[arm]
      BY <1>t, <1>4, <2>1, <2>3, RobotTypes DEF ClearDone, ControllerTypes
    <3>2. Told(arm)' = Told(arm)
      BY <2>1, <2>3, RobotTypes DEF Told, Arms
    <3>3. OnItsWay(arm)' = OnItsWay(arm)  BY <1>k, <2>1 DEF OnItsWay
    <3> QED  BY <1>f, <1>k, <1>s, <2>1, <3>1, <3>2, <3>3 DEF Stops
  <2> QED  BY <2>2, <2>3
<1>5. CASE PutStop
  <2>1. /\ call \in Stops /\ step \in {1, 3} /\ step \in 0..3 /\ leaving \in {"no", "hold"}
        /\ call' = call /\ step' = step + 1 /\ episode' = episode /\ done' = done
    BY <1>t, <1>5 DEF PutStop, CallerInv, Stops
  <2>2. Robot \in Arms  BY <2>1, RobotTypes
  <2>3. CASE arm = Robot
    <3>1. Command(call) \in Commands /\ ~IsWaypoint(Command(call))
      BY <2>1, CommandTypes
    <3>2. queue'[arm] = Append(queue[arm], Command(call))
      BY <1>t, <1>5, <2>3 DEF PutStop, Put, ControllerTypes
    <3>3. ~Told(arm) /\ Told(arm)' /\ Cleared(arm)
      BY <2>1, <2>3, RobotTypes DEF Told, Cleared
    <3>4. NoExit(queue[arm]) /\ NoExit(batch[arm])  BY <1>t, <2>1 DEF EndInv
    <3>5. Waypoints(queue[arm]) /\ Waypoints(batch[arm])
      BY <1>t, <1>s, <3>3, <3>4, OnlyWaypoints
    <3>6. Ends(queue'[arm], call)  BY <1>t, <2>1, <3>1, <3>2, <3>5, AppendFacts
    <3>7. OnItsWay(arm)'  BY <1>k, <2>1, <3>5, <3>6 DEF OnItsWay
    <3>8. EpisodeOnly(queue'[arm])  BY <1>t, <1>s, <3>1, <3>2, AppendFacts DEF Fresh
    <3>9. Fresh(arm)'  BY <1>k, <1>s, <2>1, <3>8 DEF Fresh, EpisodeOnly
    <3> QED  BY <1>5, <1>s, <2>1, <3>3, <3>7, <3>9 DEF ClearDone, Stops
  <2>4. CASE arm # Robot
    <3>1. queue'[arm] = queue[arm]
      BY <1>t, <1>5, <2>2, <2>4 DEF PutStop, Put, ControllerTypes
    <3>2. Told(arm)' = Told(arm)
      BY <2>1, <2>4, RobotTypes DEF Told, Arms
    <3>3. /\ Fresh(arm)' /\ Clear(arm)' = Clear(arm) /\ OnItsWay(arm)' = OnItsWay(arm)
      BY <1>k, <1>s, <2>1, <3>1 DEF Fresh, EpisodeOnly, Clear, OnItsWay
    <3> QED  BY <1>5, <1>k, <1>s, <2>1, <3>1, <3>2, <3>3 DEF ClearDone, Stops
  <2> QED  BY <2>3, <2>4
<1>6. CASE AwaitArm
  <2>1. /\ Told(arm) /\ Told(arm)' /\ UNCHANGED <<queue, done, call, episode>> /\ call \in Stops
    BY <1>6 DEF AwaitArm, controllers, Told, Arms
  <2>2. OnItsWay(arm)' = OnItsWay(arm)  BY <1>k, <2>1 DEF OnItsWay
  <2> QED  BY <1>f, <1>s, <2>1, <2>2 DEF Stops
<1>7. CASE Confirm
  <2>1. /\ call \in Stops /\ step = 6 /\ done["right"][call] /\ done["left"][call]
        /\ call' = "none" /\ UNCHANGED <<queue, episode>>
    BY <1>t, <1>7 DEF Confirm, WaitedInv, controllers
  <2>2. Told(arm) /\ done[arm][call] /\ ~Told(arm)'  BY <2>1 DEF Told, Arms, Stops
  <2>3. Clear(arm)'  BY <1>f, <1>s, <2>1, <2>2
  <2> QED  BY <1>f, <2>1, <2>2, <2>3, EmptyFacts DEF Clear
<1>8. CASE LeaveLoop
  <2>1. /\ UNCHANGED <<queue, episode>> /\ call \notin Stops /\ call' = "none" /\ leaving' = "hold"
    BY <1>8 DEF LeaveLoop, controllers
  <2>2. ~Told(arm) /\ ~Told(arm)'  BY <2>1 DEF Told, Stops
  <2> QED  BY <1>f, <1>k, <1>s, <2>1, <2>2
<1>9. CASE StopController \/ SetStopEvent
  <2>1. /\ call = "none" /\ call' = "none" /\ step \in 0..3 /\ leaving' # "no"
        /\ episode' = episode
    <3>1. /\ leaving = "stop" /\ step \in 0..3 /\ UNCHANGED <<call, episode>>
          /\ leaving' \in {"stop", "gone"}
      <4>1. CASE StopController  BY <1>t, <4>1 DEF StopController, CallerInv
      <4>2. CASE SetStopEvent  BY <1>t, <4>2 DEF SetStopEvent, CallerInv
      <4> QED  BY <1>9, <4>1, <4>2
    <3>2. call = "none"  BY <1>t, <3>1 DEF CallerInv, Stops
    <3> QED  BY <3>1, <3>2
  <2>2. Robot \in Arms  BY <2>1, RobotTypes
  <2>3. queue'[arm] = queue[arm] \/ queue'[arm] = Append(queue[arm], Command("STOP"))
    BY <1>t, <1>9, <2>2 DEF StopController, SetStopEvent, Put, ControllerTypes
  <2>4. ~Told(arm) /\ ~Told(arm)'  BY <2>1 DEF Told, Stops
  <2>5. EpisodeOnly(queue'[arm]) /\ ~HasStop(queue'[arm])
    BY <1>t, <1>s, <2>3, <2>4, AppendFacts, CommandTypes DEF Fresh
  <2>6. Fresh(arm)'  BY <1>k, <1>s, <2>1, <2>5 DEF Fresh, EpisodeOnly
  <2> QED  BY <1>k, <1>s, <2>1, <2>4, <2>5, <2>6
<1> QED  BY <1>c, <1>1, <1>2, <1>3, <1>4, <1>5, <1>6, <1>7, <1>8, <1>9 DEF Caller

LEMMA CleanOther ==
  ASSUME ConfirmInv, NEW arm \in Arms, NEW other \in Arms \ {arm}, Run(arm) \/ Fail(arm),
         UNCHANGED caller, CleanArm(other)
  PROVE  CleanArm(other)'
<1>1. /\ queue'[other] = queue[other] /\ batch'[other] = batch[other]
      /\ pc'[other] = pc[other] /\ trajectory'[other] = trajectory[other]
      /\ published'[other] = published[other] /\ done'[other] = done[other]
      /\ UNCHANGED <<call, step, episode, running, leaving>>
  BY OtherArm DEF caller, ConfirmInv
<1>2. /\ Fresh(other)' = Fresh(other) /\ Clear(other)' = Clear(other)
      /\ OnItsWay(other)' = OnItsWay(other) /\ Told(other)' = Told(other)
      /\ Ok(other)' = Ok(other) /\ Cleared(other)' = Cleared(other)
  BY <1>1 DEF Fresh, EpisodeOnly, Clear, OnItsWay, Told, Ok, Cleared
<1> QED  BY <1>1, <1>2 DEF CleanArm

LEMMA CleanStep == ConfirmInv /\ CleanInv /\ [Next]_vars => CleanInv'
<1> SUFFICES ASSUME ConfirmInv, CleanInv, [Next]_vars, clean', NEW arm \in Arms
             PROVE  CleanArm(arm)'
  BY DEF CleanInv
<1>1. CASE \E a \in Arms : (Run(a) \/ Fail(a)) /\ UNCHANGED caller
  <2>1. PICK a \in Arms : (Run(a) \/ Fail(a)) /\ UNCHANGED caller  BY <1>1
  <2>2. CleanArm(arm)  BY <2>1 DEF caller, CleanInv
  <2>3. CASE a = arm  BY <2>1, <2>2, <2>3, CleanRun
  <2>4. CASE a # arm  BY <2>1, <2>2, <2>4, CleanOther
  <2> QED  BY <2>3, <2>4
<1>2. CASE UNCHANGED vars
  <2>1. CleanArm(arm)  BY <1>2 DEF vars, caller, CleanInv
  <2> QED
    BY <1>2, <2>1 DEF CleanArm, Fresh, EpisodeOnly, Clear, OnItsWay, Told, Ok, Cleared, vars,
      controllers, caller
<1>3. CASE Caller  BY <1>3, CleanCaller DEF CleanInv
<1> QED  BY <1>1, <1>2, <1>3 DEF Next, Finished

LEMMA CleanInitial == Init => CleanInv
BY EmptyFacts DEF Init, ControllersInit, CleanInv, CleanArm, Fresh, Clear, Told, Cleared, Stops

LEMMA CleanInvariant == Spec => []CleanInv
<1>1. Spec => [](ConfirmInv /\ CleanInv)
  BY ConfirmInitial, ConfirmStep, CleanInitial, CleanStep, PTL DEF Spec
<1> QED  BY <1>1, PTL
-----------------------------------------------------------------------------
(* The controllers and the client's calls keep their types: no queue holds *)
(* more than its size, and the client's steps stay within its calls        *)
(* (ros_target_interpolation_controller.py:440-770, umi_env.py:1039-1157). *)
THEOREM StopsTypes == Spec => []TypeOK
BY ConfirmInvariant, TypesMeanTypeOK, PTL DEF ConfirmInv

LEMMA ComingIsQueued ==
  ASSUME ControllerTypes, NEW arm \in Arms, HasStop(queue[arm]) \/ HasStop(batch[arm])
  PROVE  StopQueued(arm)
<1> DEFINE b == batch[arm]
           q == queue[arm]
<1>1. b \in Seq(Commands) /\ q \in Seq(Commands)  BY DEF ControllerTypes
<1> HIDE DEF b, q
<1>2. /\ DOMAIN (b \o q) = 1..(Len(b) + Len(q))
      /\ \A i \in 1..Len(b) : (b \o q)[i] = b[i] /\ i \in 1..(Len(b) + Len(q))
      /\ \A i \in 1..Len(q) : (b \o q)[Len(b) + i] = q[i]
                              /\ Len(b) + i \in 1..(Len(b) + Len(q))
  BY <1>1
<1>3. \E i \in DOMAIN (b \o q) : (b \o q)[i].cmd \in Stops
  BY <1>2 DEF HasStop, IsStop, b, q
<1> QED  BY <1>3 DEF StopQueued, Queued, b, q

(* A hold or go_home that returned holds, also when the confirmation was a *)
(* late one of an earlier call that had timed out, unless that one came    *)
(* between the clear and the put: then the command is under way            *)
(* (ros_target_interpolation_controller.py:285-310 and 541-631,            *)
(* umi_env.py:1131-1157).                                                  *)
THEOREM ConfirmedHolds == Spec => []ConfirmedIsSafe
<1>1. ConfirmInv => ConfirmedIsSafe
  <2> SUFFICES ASSUME ConfirmInv, confirmed, NEW arm \in Arms, Ok(arm)
               PROVE  \/ Stands(arm)
                      \/ arm \in early /\ (StopQueued(arm) \/ pc[arm] = "exited")
    BY DEF ConfirmedIsSafe
  <2>1. Held(arm) /\ ControllerTypes  BY DEF ConfirmInv, AwaitInv
  <2>2. Safe(arm) => Stands(arm)  BY DEF Safe, Stands, ManageFsm
  <2>3. Coming(arm) => StopQueued(arm)  BY <2>1, ComingIsQueued DEF Coming
  <2> QED  BY <2>1, <2>2, <2>3 DEF Held
<1> QED  BY <1>1, ConfirmInvariant, PTL

(* While every hold and go_home was confirmed, neither arm is sent a       *)
(* target of an earlier round                                              *)
(* (ros_target_interpolation_controller.py:541-578, umi_env.py:1093-1157). *)
THEOREM TargetsAreFresh == Spec => []NoStaleTarget
<1>1. CleanInv => NoStaleTarget
  BY DEF CleanInv, CleanArm, Fresh, NoStaleTarget
<1> QED  BY <1>1, CleanInvariant, PTL

LEMMA ConcatFacts ==
  ASSUME NEW b \in Seq(Commands), NEW q \in Seq(Commands),
         NEW i \in 1..Len(b \o q), NEW j \in (i + 1)..Len(b \o q),
         (b \o q)[i].cmd \in Stops
  PROVE  /\ Len(b) \in Nat /\ Len(q) \in Nat /\ i < Len(b) + Len(q) /\ i \in Nat \ {0}
         /\ \/ i \in 1..Len(b) /\ IsStop(b[i])
            \/ i - Len(b) \in 1..(Len(q) - 1) /\ IsStop(q[i - Len(b)])
<1>1. /\ Len(b) \in Nat /\ Len(q) \in Nat /\ Len(b \o q) = Len(b) + Len(q)
      /\ i \in Nat /\ j \in Nat /\ i + 1 <= j /\ j <= Len(b) + Len(q) /\ 1 <= i
  OBVIOUS
<1>2. (b \o q)[i] = IF i <= Len(b) THEN b[i] ELSE q[i - Len(b)]
  BY <1>1
<1> QED  BY <1>1, <1>2 DEF IsStop

(* And a HOLD or HOME drops no waypoint, because nothing is behind it      *)
(* (ros_target_interpolation_controller.py:541-631).                       *)
THEOREM StopsDropNothing == Spec => []NothingBehindStop
<1>1. ConfirmInv /\ CleanInv => NothingBehindStop
  <2> SUFFICES ASSUME ConfirmInv, CleanInv, clean, NEW arm \in Arms, Ok(arm),
                      NEW i \in 1..Len(Queued(arm)), Queued(arm)[i].cmd \in Stops,
                      NEW j \in (i + 1)..Len(Queued(arm))
               PROVE  FALSE
    BY DEF NothingBehindStop
  <2>1. batch[arm] \in Seq(Commands) /\ queue[arm] \in Seq(Commands)
    BY DEF ConfirmInv, ControllerTypes
  <2>2. /\ Len(batch[arm]) \in Nat /\ Len(queue[arm]) \in Nat
        /\ i < Len(batch[arm]) + Len(queue[arm]) /\ i \in Nat \ {0}
        /\ \/ i \in 1..Len(batch[arm]) /\ IsStop(batch[arm][i])
           \/ /\ i - Len(batch[arm]) \in 1..(Len(queue[arm]) - 1)
              /\ IsStop(queue[arm][i - Len(batch[arm])])
    BY <2>1, ConcatFacts DEF Queued
  <2>3. CleanArm(arm)  BY DEF CleanInv
  <2>4. CASE ~Told(arm)
    <3>1. i - Len(batch[arm]) \in 1..(Len(queue[arm]) - 1)
            => i - Len(batch[arm]) \in 1..Len(queue[arm])
      BY <2>2
    <3> QED  BY <2>2, <2>3, <2>4, <3>1 DEF CleanArm, HasStop
  <2>5. CASE Clear(arm)
    <3>1. Len(batch[arm]) = 0 /\ Len(queue[arm]) = 0  BY <2>5 DEF Clear
    <3> QED  BY <2>2, <3>1
  <2>6. CASE OnItsWay(arm)
    <3>1. \A c : IsWaypoint(c) => ~IsStop(c)  BY DEF IsWaypoint, IsStop, Stops
    <3>2. CASE Waypoints(batch[arm]) /\ Ends(queue[arm], call)
      BY <2>2, <3>1, <3>2 DEF Waypoints, Ends
    <3>3. CASE queue[arm] = <<>> /\ Ends(batch[arm], call)
      <4>1. Len(queue[arm]) = 0  BY <3>3
      <4>2. i \in 1..(Len(batch[arm]) - 1) /\ IsStop(batch[arm][i])  BY <2>2, <4>1
      <4> QED  BY <3>1, <3>3, <4>2 DEF Ends
    <3> QED  BY <2>6, <3>2, <3>3 DEF OnItsWay
  <2> QED  BY <2>3, <2>4, <2>5, <2>6 DEF CleanArm
<1> QED  BY <1>1, ConfirmInvariant, CleanInvariant, PTL
=============================================================================
