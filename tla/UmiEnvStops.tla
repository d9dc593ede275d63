----------------------------- MODULE UmiEnvStops -----------------------------
(***************************************************************************)
(* UmiEnv's commands to the two arm controllers, in the order the client   *)
(* uses them: exec_actions while a round is ACTIVE, hold and go_home with  *)
(* their confirmations, and stop at the end.  Waypoints, HOLD, HOME and    *)
(* STOP travel to each controller on its own queue.                        *)
(*                                                                         *)
(* hold and go_home clear the arm's event and then put the command; stop   *)
(* puts the command and then sets the event.  The controller may do        *)
(* anything in between: confirm an earlier HOLD whose wait had timed out,  *)
(* and drain the waypoints queued behind it.                               *)
(***************************************************************************)
EXTENDS RosTargetController

CONSTANTS
  ChunkSize,   \* waypoints of one exec_actions for each arm
  MaxCalls     \* bound on hold and go_home calls before the client leaves

ASSUME StopsAssumption == ChunkSize \in Nat \ {0} /\ MaxCalls \in Nat

VARIABLES
  call,        \* the UmiEnv method in progress, "none" between calls
  step,        \* how many of its steps are done
  episode,     \* rounds started so far: the episode of new waypoints
  running,     \* the client's scheduler is ACTIVE
  leaving,     \* the client is not, or about to hold on exit, to stop, or gone
  calls,
  confirmed,   \* the last hold or go_home returned, and nothing was sent since
  early,       \* the arms whose event was set again before the command was put
  clean        \* every hold and go_home so far returned, none raised

caller == <<call, step, episode, running, leaving, calls, confirmed, early, clean>>
vars == <<controllers, caller>>

Order == <<"right", "left">>  \* robots
Alive(arm) == pc[arm] \notin Ended
Full(arm) == Len(queue[arm]) = QueueSize

Init ==
  /\ ControllersInit
  /\ call = "none" /\ step = 0
  /\ episode = 0 /\ running = FALSE
  /\ leaving = "no" /\ calls = 0
  /\ confirmed = FALSE /\ early = {} /\ clean = TRUE
-----------------------------------------------------------------------------
(* A round starts out of a software HOLD, whatever became of the physical  *)
(* one: by key, or after a task switch.                                    *)
StartRound ==
  /\ call = "none" /\ leaving = "no" /\ ~running
  /\ episode + 1 \in Episodes
  /\ episode' = episode + 1
  /\ running' = TRUE
  /\ UNCHANGED <<controllers, call, step, leaving, calls, confirmed, early, clean>>

ExecActions ==
  /\ call = "none" /\ leaving = "no" /\ running
  /\ call' = "exec" /\ step' = 0
  /\ confirmed' = FALSE /\ early' = {}
  /\ UNCHANGED <<controllers, episode, running, leaving, calls, clean>>

(* All waypoints for the right arm, then all for the left; Full leaves the *)
(* method, and the client its loop, with the arms unequally served.        *)
PutWaypoint ==
  /\ call = "exec"
  /\ LET arm == Order[step \div ChunkSize + 1]
     IN  \/ /\ Put(arm, Waypoint(episode))
            /\ step' = (step + 1) % (2 * ChunkSize)
            /\ call' = IF step' = 0 THEN "none" ELSE call
            /\ UNCHANGED <<running, leaving>>
         \/ /\ Full(arm)
            /\ call' = "none" /\ step' = 0
            /\ running' = FALSE /\ leaving' = "hold"
            /\ UNCHANGED queue
  /\ UNCHANGED <<batch, pc, got, trajectory, published, active, priming, done,
                 stopping, mink, episode, calls, confirmed, early, clean>>

(* hold: by key, fault, switch, a completed round, and on exit; go_home    *)
(* only out of HOLD.                                                       *)
CallStop(stop) ==
  /\ call = "none"
  /\ IF leaving = "no" THEN calls < MaxCalls ELSE leaving = "hold" /\ stop = "HOLD"
  /\ stop = "HOME" => ~running
  /\ call' = stop /\ step' = 0
  /\ calls' = IF leaving = "no" THEN calls + 1 ELSE calls
  /\ running' = FALSE
  /\ confirmed' = FALSE /\ early' = {}
  /\ UNCHANGED <<controllers, episode, leaving, clean>>

(* Both arms are told before either is waited for: the controller must be  *)
(* alive, its event is cleared, and the command is put.                    *)
Robot == Order[step \div 2 + 1]

ClearNothing ==  \* mutant: the event is left as it is
  /\ call \in Stops /\ step \in {0, 2}
  /\ Alive(Robot)
  /\ step' = step + 1
  /\ UNCHANGED <<controllers, call, episode, running, leaving, calls, confirmed, early, clean>>

ClearDone ==
  /\ call \in Stops /\ step \in {0, 2}
  /\ Alive(Robot)
  /\ done' = [done EXCEPT ![Robot][call] = FALSE]
  /\ step' = step + 1
  /\ UNCHANGED <<queue, batch, pc, got, trajectory, published, active, priming, stopping,
                 mink, call, episode, running, leaving, calls, confirmed, early, clean>>

PutStop ==
  /\ call \in Stops /\ step \in {1, 3}
  /\ Put(Robot, Command(call))
  /\ early' = IF done[Robot][call] THEN early \union {Robot} ELSE early
  /\ step' = step + 1
  /\ UNCHANGED <<batch, pc, got, trajectory, published, active, priming, done, stopping,
                 mink, call, episode, running, leaving, calls, confirmed, clean>>

AwaitArm ==
  /\ call \in Stops /\ step \in 4..5
  /\ done[Order[step - 3]][call]
  /\ step' = step + 1
  /\ UNCHANGED <<controllers, call, episode, running, leaving, calls, confirmed, early, clean>>

AfterCall == leaving' = IF leaving = "hold" THEN "stop" ELSE leaving

Confirm ==
  /\ call \in Stops /\ step = 6
  /\ call' = "none" /\ step' = 0
  /\ confirmed' = TRUE
  /\ AfterCall
  /\ UNCHANGED <<controllers, episode, running, calls, early, clean>>

(* The call raises: a controller has ended, its queue is full, or the wait *)
(* times out, 2 s for HOLD and 10 s for HOME of any number of ticks.  The  *)
(* client goes on after an observation fault or a task switch, else it     *)
(* leaves its loop.                                                        *)
RaiseFromCall ==
  /\ call \in Stops
  /\ \/ step \in {0, 2} /\ ~Alive(Robot)
     \/ step \in {1, 3} /\ Full(Robot)
     \/ step \in 4..5 /\ ~done[Order[step - 3]][call]
  /\ call' = "none" /\ step' = 0
  /\ clean' = FALSE
  /\ \/ leaving = "no" /\ call = "HOLD" /\ UNCHANGED leaving
     \/ leaving = "no" /\ leaving' = "hold"
     \/ leaving = "hold" /\ leaving' = "stop"
  /\ UNCHANGED <<controllers, episode, running, calls, confirmed, early>>

(* Ctrl+C, seen at the head of a pass, or an exception of something else,  *)
(* wherever the client is.                                                 *)
LeaveLoop ==
  /\ leaving = "no"
  /\ leaving' = "hold" /\ running' = FALSE
  /\ call' = "none" /\ step' = 0
  /\ clean' = (clean /\ call \notin Stops)
  /\ UNCHANGED <<controllers, episode, calls, confirmed, early>>

(* stop of the right controller, then of the left: STOP is put and         *)
(* _stop_event set.  Full leaves the event unset, the left arm untold.     *)
StopController ==
  /\ leaving = "stop" /\ step \in {0, 2}
  /\ \/ /\ Put(Robot, Command("STOP"))
        /\ step' = step + 1
        /\ UNCHANGED leaving
     \/ /\ Full(Robot)
        /\ step' = 0 /\ leaving' = "gone"
        /\ UNCHANGED queue
  /\ UNCHANGED <<batch, pc, got, trajectory, published, active, priming, done, stopping, mink,
                 call, episode, running, calls, confirmed, early, clean>>

SetStopEvent ==
  /\ leaving = "stop" /\ step \in {1, 3}
  /\ stopping' = [stopping EXCEPT ![Robot] = TRUE]
  /\ step' = (step + 1) % 4
  /\ leaving' = IF step = 3 THEN "gone" ELSE leaving
  /\ UNCHANGED <<queue, batch, pc, got, trajectory, published, active, priming, done, mink,
                 call, episode, running, calls, confirmed, early, clean>>

Finished ==
  /\ leaving = "gone" /\ \A arm \in Arms : ~Alive(arm)
  /\ UNCHANGED vars

Caller ==
  \/ StartRound \/ ExecActions \/ PutWaypoint
  \/ (\E stop \in Stops : CallStop(stop))
  \/ ClearDone \/ PutStop \/ AwaitArm \/ Confirm \/ RaiseFromCall \/ LeaveLoop
  \/ StopController \/ SetStopEvent

Next ==
  \/ Caller
  \/ \E arm \in Arms : (Run(arm) \/ Fail(arm)) /\ UNCHANGED caller
  \/ Finished

Spec == Init /\ [][Next]_vars

(* The right controller's tick goes on, whatever the left one does.        *)
FairSpec == Spec /\ WF_vars(Run("right") /\ UNCHANGED caller)
-----------------------------------------------------------------------------
TypeOK ==
  /\ ControllersTypeOK
  /\ call \in Stops \union {"none", "exec"} /\ step \in Nat
  /\ episode \in {0} \union Episodes /\ calls \in 0..MaxCalls
  /\ leaving \in {"no", "hold", "stop", "gone"} /\ early \in SUBSET Arms

Ok(arm) == pc[arm] # "failed"
Queued(arm) == batch[arm] \o queue[arm]

StopQueued(arm) == \E i \in DOMAIN Queued(arm) : Queued(arm)[i].cmd \in Stops

(* The arm stands: the target last sent is the measured pose, and Mink is  *)
(* not ACTIVE.                                                             *)
Stands(arm) == published[arm] = Measured /\ (ManageFsm(arm) => mink # "ACTIVE")

(* A hold or go_home that returned holds: no controller that still works   *)
(* sends a waypoint, and Mink is not ACTIVE, until the next exec_actions;  *)
(* also when the confirmation was a late one of an earlier call that had   *)
(* timed out.  Only when that one came between the clear and the put may   *)
(* the arm still move; the command is then under way, unless STOP has      *)
(* ended the controller before it.                                         *)
ConfirmedIsSafe ==
  confirmed => \A arm \in Arms : Ok(arm) =>
    \/ Stands(arm)
    \/ arm \in early /\ (StopQueued(arm) \/ pc[arm] = "exited")

(* Without that exception: hold clears the trajectories of both arms and   *)
(* has commanded Mink to HOLD when it returns, and each controller         *)
(* confirms for itself.  A late confirmation between the clear and the put *)
(* breaks it although both controllers work.                               *)
ConfirmedStands ==
  confirmed /\ (\A arm \in Arms : Ok(arm)) => \A arm \in Arms : Stands(arm)

(* What hold promises of the state machine: confirmed, Mink has left       *)
(* ACTIVE.  The finally of a right controller that failed before it        *)
(* processed the command confirms it, too.                                 *)
ConfirmedMeansHeld == confirmed => mink # "ACTIVE"

(* While Mink is ACTIVE neither arm is sent a target of an earlier round.  *)
NoStaleTarget ==
  clean /\ mink = "ACTIVE" =>
    \A arm \in Arms : Ok(arm) => published[arm] \in {Measured, episode}

(* HOLD and HOME drop what is queued behind them; as long as every call    *)
(* was confirmed this is nothing: no waypoint of a new round is lost.      *)
NothingBehindStop ==
  clean => \A arm \in Arms : Ok(arm) =>
    \A i \in 1..Len(Queued(arm)) : Queued(arm)[i].cmd \in Stops =>
      \A j \in (i + 1)..Len(Queued(arm)) : Queued(arm)[j].cmd = "STOP"

(* A HOLD or HOME in the right controller's queue takes effect, even one   *)
(* that is dropped behind another: the trajectory is discarded and Mink    *)
(* leaves ACTIVE.  The left controller runs the same code without Mink.    *)
StopTakesEffect ==
  StopQueued("right") ~> ~Alive("right") \/ (trajectory["right"] = {} /\ mink # "ACTIVE")
=============================================================================
