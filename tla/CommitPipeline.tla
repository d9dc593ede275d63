--------------------------- MODULE CommitPipeline ---------------------------
(***************************************************************************)
(* What the rolling scheduler promises its caller, without time, targets   *)
(* or index arithmetic: how many waypoints are committed (already with the *)
(* controllers), how many are planned and may still be replaced, and when  *)
(* a new inference may be asked for.  RollingScheduler implements it, and  *)
(* Task487Client is composed from it.                                      *)
(***************************************************************************)
EXTENDS Integers

CONSTANTS
  CommitSteps,      \* commit_steps
  MaxQueue,         \* max_queue_steps
  ReplanRemaining   \* replan_remaining_steps

ASSUME PipelineAssumption ==
  /\ CommitSteps \in Nat \ {0}
  /\ MaxQueue \in Nat /\ MaxQueue >= CommitSteps
  /\ ReplanRemaining \in 0..CommitSteps

VARIABLES
  mode,         \* RunState
  committed,    \* waypoints sent and not yet retired
  replaceable,  \* waypoints planned and not yet sent
  pending,      \* an inference request is open
  fresh,        \* no request was made since the activation
  progressed    \* a waypoint was retired or sent since the last request

pipeline == <<mode, committed, replaceable, pending, fresh, progressed>>
-----------------------------------------------------------------------------
Empty ==
  /\ committed' = 0 /\ replaceable' = 0
  /\ pending' = FALSE

PipelineInit ==
  /\ mode = "HOLD"
  /\ committed = 0 /\ replaceable = 0
  /\ pending = FALSE
  /\ fresh = FALSE /\ progressed = FALSE

EnterHold ==
  /\ mode' = "HOLD"
  /\ Empty
  /\ fresh' = FALSE /\ progressed' = FALSE

StartRound ==
  /\ mode' = "ACTIVE"
  /\ Empty
  /\ fresh' = TRUE /\ progressed' = TRUE

Retire(k) ==
  /\ mode = "ACTIVE"
  /\ k \in 1..committed
  /\ committed' = committed - k
  /\ progressed' = TRUE
  /\ UNCHANGED <<mode, replaceable, pending, fresh>>

(* A request is never repeated without progress, unless nothing            *)
(* replaceable is left; the first one of a round is due at once.           *)
MayRequest ==
  /\ mode = "ACTIVE"
  /\ ~pending
  /\ progressed \/ replaceable = 0

MustRequest == mode = "ACTIVE" /\ fresh

OpenRequest ==
  /\ MayRequest
  /\ pending' = TRUE
  /\ fresh' = FALSE /\ progressed' = FALSE
  /\ UNCHANGED <<mode, committed, replaceable>>

(* The answer replaces the replaceable waypoints by n new ones and leaves  *)
(* the committed ones alone.                                               *)
Merge(n) ==
  /\ mode = "ACTIVE"
  /\ pending
  /\ committed + n <= MaxQueue
  /\ committed + n = 0 => ReplanRemaining = 0
  /\ replaceable' = n
  /\ pending' = FALSE
  /\ UNCHANGED <<mode, committed, fresh, progressed>>

DispatchUnlimited(k) ==  \* mutant: commit_steps ignored
  /\ mode = "ACTIVE"
  /\ ~pending
  /\ k \in 1..replaceable
  /\ committed' = committed + k
  /\ replaceable' = replaceable - k
  /\ progressed' \in {progressed, TRUE}
  /\ UNCHANGED <<mode, pending, fresh>>

Dispatch(k) ==
  /\ mode = "ACTIVE"
  /\ ~pending
  /\ k \in 1..replaceable
  /\ committed + k <= CommitSteps
  /\ committed' = committed + k
  /\ replaceable' = replaceable - k
  /\ progressed' \in {progressed, TRUE}
  /\ UNCHANGED <<mode, pending, fresh>>

PipelineNext ==
  \/ EnterHold
  \/ mode = "HOLD" /\ StartRound
  \/ \E k \in 1..CommitSteps : Retire(k)
  \/ OpenRequest
  \/ \E n \in 0..MaxQueue : Merge(n)
  \/ \E k \in 1..CommitSteps : Dispatch(k)

PipelineSpec == PipelineInit /\ [][PipelineNext]_pipeline
=============================================================================
