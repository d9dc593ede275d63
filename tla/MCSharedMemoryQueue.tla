------------------------ MODULE MCSharedMemoryQueue ------------------------
(***************************************************************************)
(* The instance for TLC: the commands of the arm controller's queue.  A    *)
(* waypoint gives every key, a STOP only its command.                      *)
(***************************************************************************)
EXTENDS SharedMemoryQueue

CONSTANTS waypointA, waypointB, stop, cmd, target, replaceFrom

MCItems == {waypointA, waypointB, stop}
MCKeys == {cmd, target, replaceFrom}
MCGiven == [item \in MCItems |-> IF item = stop THEN {cmd} ELSE MCKeys]
=============================================================================
