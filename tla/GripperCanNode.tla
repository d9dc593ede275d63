--------------------------- MODULE GripperCanNode ---------------------------
(***************************************************************************)
(* gripper_can_node.cpp, one gripper in direct position mode with the      *)
(* stall guard on: what one cycle of the 100 Hz timer does with the        *)
(* request, the measured position and the driver's stall verdict.  The     *)
(* node counts zero as closed and negative as open; here a position is the *)
(* opening itself, in quarter degrees, so that "more negative" reads       *)
(* "larger".                                                               *)
(***************************************************************************)
EXTENDS Integers

CONSTANTS
  None,
  LowerLimit,    \* how far the joint opens
  ReleaseExtra,  \* gripper_stall_release_rad: a latched grip closes so much further
  RearmDelta     \* gripper_stall_rearm_delta_rad: an opening that releases the latch

ASSUME GripperCanAssumption ==
  /\ {LowerLimit, ReleaseExtra, RearmDelta} \subseteq Nat
  /\ None \notin Nat

Clamped(x) == IF x < 0 THEN 0 ELSE IF x > LowerLimit THEN LowerLimit ELSE x

(* A bug the comment warns of: the hold is the position compared with.     *)
RequestsReleaseOfHold(hold, requested, measured) == requested > hold + RearmDelta

(* The node's default of two degrees, which gripper_can.yaml overrides.    *)
RequestsReleaseByDefault(hold, requested, measured) == requested > measured + 2 * RearmDelta

(* "Compare with measured position, never the extra-close hold setpoint".  *)
RequestsStallRelease(hold, requested, measured) == requested > measured + RearmDelta

Ready == [latched |-> FALSE, hold |-> 0, tracked |-> None]

Released(node, requested, measured) ==
  node.latched /\ RequestsStallRelease(node.hold, requested, measured)

Closing(requested, measured) == requested < measured

(* poll_stall watches a request that stays: a new one starts its window    *)
(* again.                                                                  *)
Watched(node, requested, measured) ==
  /\ ~node.latched /\ Closing(requested, measured)
  /\ node.tracked = requested

(* run_cycle, given whether poll_stall reports a stall of a watched grip.  *)
RunCycle(node, requested, measured, stalled) ==
  LET following == ~node.latched \/ Released(node, requested, measured)
  IN IF ~following THEN node
     ELSE IF Watched(node, requested, measured) /\ stalled
     THEN [latched |-> TRUE, hold |-> Clamped(measured - ReleaseExtra), tracked |-> None]
     ELSE [latched |-> FALSE, hold |-> 0,
           tracked |-> IF Closing(requested, measured) THEN requested ELSE None]

(* The position the motor is sent to.                                      *)
Effective(node, requested) == IF node.latched THEN node.hold ELSE Clamped(requested)
=============================================================================
