------------------------ MODULE MCTask487ClientSwitch ------------------------
(***************************************************************************)
(* Task487Client with a history variable that follows the round a task     *)
(* switch in ACTIVE resumes, to its first request or to its end.           *)
(***************************************************************************)
EXTENDS Task487Client

VARIABLE resumed  \* "no", "waiting" for the first request, "exhausted"

Follow ==
  resumed' =
    IF pc = "task" /\ task' # task /\ mode' = "ACTIVE" THEN "waiting"
    ELSE IF resumed = "waiting" /\ pc = "pop" /\ mode' = "HOLD" THEN "exhausted"
    ELSE IF resumed = "waiting" /\ mode' = "ACTIVE" /\ ~pending' THEN "waiting"
    ELSE "no"

SwitchInit == Init /\ resumed = "no"
SwitchNext == Next /\ Follow
SwitchSpec == SwitchInit /\ [][SwitchNext]_<<vars, resumed>>

(* "ACTIVE 中切任务已接入安全热切换" (TASK487_DEBUG_HANDOFF_20260814.md) and *)
(* the comment at the task switch in main(): after a switch in ACTIVE a    *)
(* fresh round is established from the measured pose and resumed.  So the  *)
(* resumed round is never ended by an exhausted queue before it has asked  *)
(* the policy for anything.                                                *)
ResumedRoundAsks == resumed # "exhausted"
=============================================================================
