------------------------- MODULE Task487ClientProofs -------------------------
(***************************************************************************)
(* Proofs about Task487Client, for every commit limit, queue size, number  *)
(* of rounds and requests, with and without a waypoint limit: its types,   *)
(* round isolation, that every software HOLD reaches the robots, and that  *)
(* a bounded round keeps to its limit.                                     *)
(*                                                                         *)
(* The inference thread is idle or carries one request.  That request was  *)
(* made in the present round or an earlier one, and the scheduler waits    *)
(* for it only if it was the present one and there was no HOLD since.      *)
(***************************************************************************)
EXTENDS Task487Client, TLAPS

Request == [id : 1..MaxSeq, round : 0..MaxRound]

NothingQueued == requests \in {<<>>, <<None>>}

Idle ==
  ~busy /\ NothingQueued /\ thread \in {"get", "returned"} /\ job = None /\ results = <<>>

Queued(r) == thread = "get" /\ job = None /\ results = <<>> /\ requests = <<r>>

Working(r) ==
  NothingQueued /\ results = <<>> /\ thread \in {"infer", "hung", "put"} /\ job = r

Answered(r) ==
  /\ NothingQueued /\ thread \in {"get", "returned"} /\ job = None
  /\ \E outcome \in {"targets", "error"} :
       results = <<[request |-> r, outcome |-> outcome]>>

Carries(r) == busy /\ (Queued(r) \/ Working(r) \/ Answered(r))

(* Where the answer to r stands with the scheduler. *)
Awaited(r) ==
  /\ r.round <= round
  /\ pending <=> mode = "ACTIVE" /\ r.round = round

ExchangeInv ==
  /\ seq \in 0..MaxSeq
  /\ (Idle /\ ~pending) \/ \E r \in Request : Carries(r) /\ Awaited(r)
  /\ closing \in {"no", "putting"} => thread # "returned" /\ requests # <<None>>

(* The places in a pass where an observation fault may still be on record. *)
HoldInv ==
  /\ closing # "no" => pc = "exit"
  /\ lastFault # None => pc \in {"task", "keys", "sense", "exit"}
  /\ mode = "HOLD" \/ lastFault # None \/ ~Execute \/ closing # "no" => physical # "TRACKING"

ClientInv == ClientTypeOK /\ ExchangeInv /\ HoldInv /\ BoundedRound
-----------------------------------------------------------------------------
LEMMA NoneIsNoRequest == None \notin Request
BY ClientAssumption DEF Request

LEMMA IdleFlight == Idle => Worker!InFlight = {}
BY NoneIsNoRequest DEF Idle, NothingQueued, Worker!InFlight, Worker!Request, Request

LEMMA CarriedFlight ==
  ASSUME NEW r \in Request, Carries(r)
  PROVE  Worker!InFlight = {r}
<1> USE NoneIsNoRequest DEF Worker!InFlight, Worker!Request, Request
<1>1. CASE Queued(r)  BY <1>1 DEF Queued
<1>2. CASE Working(r)  BY <1>2 DEF Working, NothingQueued
<1>3. CASE Answered(r)  BY <1>3 DEF Answered, NothingQueued
<1> QED  BY <1>1, <1>2, <1>3 DEF Carries

LEMMA ThreadKeepsIdle ==
  ASSUME Idle, Worker!ThreadStep
  PROVE  Idle' /\ UNCHANGED seq /\ (requests # <<None>> => UNCHANGED <<requests, thread>>)
<1>1. Worker!TakeRequest
  BY DEF Idle, Worker!ThreadStep, Worker!Infer, Worker!Hang, Worker!PutResult
<1>2. requests = <<None>>  BY <1>1 DEF Idle, NothingQueued, Worker!TakeRequest
<1>3. requests' = <<>> /\ job' = None /\ thread' = "returned"
  BY <1>1, <1>2 DEF Worker!TakeRequest
<1> QED  BY <1>1, <1>2, <1>3 DEF Idle, NothingQueued, Worker!TakeRequest

LEMMA ThreadKeepsCarried ==
  ASSUME NEW r \in Request, Carries(r), Worker!ThreadStep
  PROVE  /\ Carries(r)' /\ UNCHANGED seq
         /\ thread # "returned" /\ requests # <<None>>
              => thread' # "returned" /\ requests' # <<None>>
<1> USE NoneIsNoRequest
<1>1. CASE Queued(r)
  <2>1. Worker!TakeRequest
    BY <1>1 DEF Queued, Worker!ThreadStep, Worker!Infer, Worker!Hang, Worker!PutResult
  <2>2. requests' = <<>> /\ job' = r /\ thread' = "infer"
    BY <1>1, <2>1 DEF Queued, Worker!TakeRequest
  <2> QED
    BY <1>1, <2>1, <2>2 DEF Queued, Working, NothingQueued, Carries, Worker!TakeRequest
<1>2. CASE Working(r) /\ thread # "put"
  BY <1>2 DEF Working, NothingQueued, Carries, Worker!ThreadStep, Worker!TakeRequest, Worker!Infer,
    Worker!Hang, Worker!PutResult
<1>3. CASE Working(r) /\ thread = "put"
  <2>1. Worker!PutResult
    BY <1>3 DEF Worker!ThreadStep, Worker!Infer, Worker!Hang, Worker!TakeRequest
  <2>2. \E outcome \in {"targets", "error"} :
          results' = <<[request |-> r, outcome |-> outcome]>>
    BY <1>3, <2>1 DEF Working, Worker!PutResult, Worker!Outcomes
  <2> QED
    BY <1>3, <2>1, <2>2 DEF Working, Answered, NothingQueued, Carries, Worker!PutResult
<1>4. CASE Answered(r)
  <2>1. Worker!TakeRequest
    BY <1>4 DEF Answered, Worker!ThreadStep, Worker!Infer, Worker!Hang, Worker!PutResult
  <2>2. requests = <<None>>  BY <1>4, <2>1 DEF Answered, NothingQueued, Worker!TakeRequest
  <2>3. requests' = <<>> /\ job' = None /\ thread' = "returned"
    BY <2>1, <2>2 DEF Worker!TakeRequest
  <2> QED
    BY <1>4, <2>1, <2>2, <2>3 DEF Answered, NothingQueued, Carries, Worker!TakeRequest
<1> QED  BY <1>1, <1>2, <1>3, <1>4 DEF Carries

LEMMA SubmitCarries ==
  ASSUME Idle, requests = <<>>, seq \in 0..MaxSeq, round \in 0..MaxRound, Worker!Submit(round)
  PROVE  /\ seq' \in 0..MaxSeq /\ requests' # <<None>> /\ thread' = thread
         /\ thread = "get" => \E r \in Request : r.round = round /\ Carries(r)'
<1>1. [id |-> seq + 1, round |-> round] \in Request /\ seq' = seq + 1 /\ seq' \in 0..MaxSeq
  BY ClientAssumption DEF Worker!Submit, Request
<1>2. PICK r \in Request : r = [id |-> seq + 1, round |-> round]  BY <1>1
<1>3. requests' = <<r>> /\ busy' = TRUE
  BY <1>2 DEF Worker!Submit, Worker!QueueSize
<1>4. UNCHANGED <<results, thread, job>>  BY DEF Worker!Submit
<1>5. requests' # <<None>>  BY <1>3, NoneIsNoRequest
<1>6. ASSUME thread = "get" PROVE Carries(r)'
  BY <1>3, <1>4, <1>6 DEF Idle, Carries, Queued
<1> QED  BY <1>1, <1>2, <1>4, <1>5, <1>6

LEMMA PollIdles ==
  ASSUME NEW r \in Request, Carries(r), Worker!Poll
  PROVE  /\ Idle' /\ UNCHANGED <<requests, seq, thread>>
         /\ Result.request = r
<1>1. Answered(r)
  BY DEF Carries, Queued, Working, Worker!Poll
<1>2. PICK outcome \in {"targets", "error"} :
        results = <<[request |-> r, outcome |-> outcome]>>
  BY <1>1 DEF Answered
<1>3. results' = <<>> /\ Head(results) = [request |-> r, outcome |-> outcome]
  BY <1>2 DEF Worker!Poll
<1> QED  BY <1>1, <1>3 DEF Answered, Idle, NothingQueued, Worker!Poll, Result

LEMMA NoPollWhenIdle == Idle => ~Worker!Poll
BY DEF Idle, Worker!Poll

LEMMA PoisonKeeps ==
  ASSUME ExchangeInv, Worker!PutPoison
  PROVE  /\ Idle => Idle'
         /\ \A r \in Request : Carries(r) => Carries(r)'
<1>1. Idle => requests = <<>>
  BY DEF Idle, NothingQueued, Worker!PutPoison, Worker!QueueSize
<1>2. \A r \in Request : Carries(r) => requests = <<>>
  BY DEF Carries, Queued, Working, Answered, NothingQueued, Worker!PutPoison, Worker!QueueSize
<1>3. requests = <<>> => requests' = <<None>>
  BY DEF Worker!PutPoison
<1>4. UNCHANGED <<results, busy, seq, thread, job>>  BY DEF Worker!PutPoison
<1>5. Idle => Idle'  BY <1>1, <1>3, <1>4 DEF Idle, NothingQueued
<1>6. ASSUME NEW r \in Request, Carries(r) PROVE Carries(r)'
  <2>1. requests = <<>> /\ requests' = <<None>>  BY <1>2, <1>3, <1>6
  <2>2. ~Queued(r)  BY <2>1 DEF Queued
  <2> QED  BY <1>4, <1>6, <2>1, <2>2 DEF Carries, Working, Answered, NothingQueued
<1> QED  BY <1>5, <1>6
-----------------------------------------------------------------------------
(* What a step means to the request that is under way.                     *)
Quiet == UNCHANGED <<worker, round, mode, pending>>

Forgets ==
  /\ ~pending' /\ UNCHANGED <<worker, closing>>
  /\ (mode' = "HOLD" /\ round' = round) \/ round' = round + 1

Asks == \E at \in {"request", "again"}, next \in {"pop", "task"} : ~busy /\ AskPolicy(at, next)

Hears ==
  /\ closing = "no" /\ UNCHANGED <<closing, round>> /\ Worker!Poll
  /\ \/ (Result.request.round # round \/ mode = "HOLD") /\ UNCHANGED <<mode, pending>>
     \/ mode' = "HOLD" /\ ~pending'
     \/ Result.request.round = round /\ mode = "ACTIVE" /\ mode' = mode /\ ~pending'

LEMMA ExchangeCases ==
  ASSUME ClientTypeOK, HoldInv, [Next]_vars
  PROVE  \/ Quiet /\ (closing' = closing \/ (closing = "no" /\ closing' = "putting"))
         \/ Forgets \/ Asks \/ Hears \/ CloseWorker \/ RunThread
<1>1. CASE Unhandled \/ SameTask \/ PressReady \/ KeysDone \/ Sense \/ TrackInHold
        \/ NothingPolled \/ NotDue("request", "pop") \/ NotDue("again", "task")
        \/ PopNothing \/ ExitHold
        \/ (\E t \in Tasks : SelectTask(t)) \/ Closed \/ UNCHANGED vars
  BY <1>1 DEF Quiet, Unhandled, SameTask, PressReady, KeysDone, Sense, TrackInHold,
    NothingPolled, NotDue, PopNothing, ExitHold, SelectTask, Closed, vars, worker,
    session, pipeline
<1>2. CASE Interrupted \/ PressHold \/ (\E message \in Faults : ObservationFault(message))
        \/ TrackingFault \/ QueueExhausted
  BY <1>2 DEF Forgets, Interrupted, PressHold, ObservationFault, TrackingFault, QueueExhausted,
    HoldAndGo, EnterHold, Empty, session, worker
<1>3. CASE SwitchTask \/ PressStart
  BY <1>3 DEF Forgets, SwitchTask, PressStart, BeginRound, StartRound, EnterHold, Empty, worker
<1>4. CASE \E k \in 0..CommitSteps : Track(k)
  <2>1. PICK k \in 0..CommitSteps : Track(k)  BY <1>4
  <2>2. CASE RoundComplete(k)
    BY <2>1, <2>2 DEF Track, Forgets, HoldAndGo, EnterHold, Empty, worker
  <2>3. CASE ~RoundComplete(k)
    BY <2>1, <2>3 DEF Track, Quiet, Retire, pipeline, worker
  <2> QED  BY <2>2, <2>3
<1>5. CASE DiscardResult \/ RejectResult \/ \E n \in 0..MaxQueue : AcceptResult(n)
  <2>1. closing = "no"
    BY <1>5 DEF HoldInv, ClientTypeOK, DiscardResult, RejectResult, AcceptResult, CurrentResult
  <2> QED
    BY <1>5, <2>1 DEF Hears, DiscardResult, RejectResult, AcceptResult, CurrentResult, Merge,
      HoldAndGo, EnterHold, Empty, session, pipeline
<1>6. CASE AskPolicy("request", "pop") \/ AskPolicy("again", "task")
  <2>1. CASE busy
    BY <1>6, <2>1 DEF AskPolicy, Quiet, pipeline, session, worker
  <2> QED  BY <1>6, <2>1 DEF Asks
<1>7. CASE \E k \in 1..CommitSteps : PopBatch(k)
  BY <1>7 DEF PopBatch, Dispatch, Quiet, session, worker
<1> QED
  BY <1>1, <1>2, <1>3, <1>4, <1>5, <1>6, <1>7 DEF Next, Loop

LEMMA ExchangeStep ==
  ASSUME ClientTypeOK, ExchangeInv, HoldInv, [Next]_vars
  PROVE  ExchangeInv'
<1>t. round \in 0..MaxRound  BY DEF ClientTypeOK
<1>1. CASE Quiet /\ (closing' = closing \/ (closing = "no" /\ closing' = "putting"))
  <2>1. UNCHANGED <<requests, results, busy, seq, thread, job>>
    BY <1>1 DEF Quiet, worker
  <2>2. UNCHANGED <<round, mode, pending>>
    BY <1>1 DEF Quiet
  <2>3. Idle => Idle'  BY <2>1 DEF Idle, NothingQueued
  <2>4. \A r \in Request : Carries(r) /\ Awaited(r) => Carries(r)' /\ Awaited(r)'
    BY <2>1, <2>2 DEF Carries, Queued, Working, Answered, NothingQueued, Awaited
  <2> QED  BY <1>1, <2>1, <2>2, <2>3, <2>4 DEF ExchangeInv
<1>2. CASE Forgets
  <2>1. UNCHANGED <<requests, results, busy, seq, thread, job, closing>> /\ ~pending'
    BY <1>2 DEF Forgets, worker
  <2>2. Idle => Idle'  BY <2>1 DEF Idle, NothingQueued
  <2>3. \A r \in Request : Carries(r) => Carries(r)'
    BY <2>1 DEF Carries, Queued, Working, Answered, NothingQueued
  <2>4. ASSUME NEW r \in Request, Awaited(r) PROVE Awaited(r)'
    <3>1. r.round \in 0..MaxRound /\ r.round <= round  BY <2>4 DEF Request, Awaited
    <3>2. MaxRound \in Nat  BY ClientAssumption
    <3>3. CASE mode' = "HOLD" /\ round' = round  BY <2>1, <3>1, <3>3 DEF Awaited
    <3>4. CASE round' = round + 1
      <4>1. r.round <= round' /\ r.round # round'  BY <1>t, <3>1, <3>2, <3>4
      <4> QED  BY <2>1, <4>1 DEF Awaited
    <3> QED  BY <1>2, <3>3, <3>4 DEF Forgets
  <2> QED  BY <2>1, <2>2, <2>3, <2>4 DEF ExchangeInv
<1>3. CASE Asks
  <2>1. PICK at \in {"request", "again"}, next \in {"pop", "task"} : ~busy /\ AskPolicy(at, next)
    BY <1>3 DEF Asks
  <2>2. /\ Worker!Submit(round) /\ pc \in {"request", "again"}
        /\ mode = "ACTIVE" /\ mode' = mode /\ pending' /\ round' = round /\ closing' = closing
    BY <2>1 DEF AskPolicy, OpenRequest, MayRequest, session
  <2>3. Idle  BY <2>1 DEF ExchangeInv, Carries
  <2>4. closing = "no"  BY <2>2 DEF HoldInv, ClientTypeOK
  <2>5. requests = <<>> /\ thread = "get"
    BY <2>3, <2>4 DEF ExchangeInv, Idle, NothingQueued
  <2>6. /\ seq' \in 0..MaxSeq /\ requests' # <<None>> /\ thread' = thread
        /\ \E r \in Request : r.round = round /\ Carries(r)'
    BY <1>t, <2>2, <2>3, <2>5, SubmitCarries DEF ExchangeInv
  <2>7. PICK r \in Request : r.round = round /\ Carries(r)'  BY <2>6
  <2>8. Awaited(r)'  BY <1>t, <2>2, <2>7 DEF Awaited
  <2> QED  BY <2>5, <2>6, <2>7, <2>8 DEF ExchangeInv
<1>4. CASE Hears
  <2>1. Worker!Poll /\ UNCHANGED <<closing, round>>  BY <1>4 DEF Hears
  <2>2. PICK r \in Request : Carries(r) /\ Awaited(r)
    BY <2>1, NoPollWhenIdle DEF ExchangeInv
  <2>3. Idle' /\ UNCHANGED <<requests, seq, thread>> /\ Result.request = r
    BY <2>1, <2>2, PollIdles
  <2>4. ~pending'
    BY <1>4, <2>2, <2>3 DEF Hears, Awaited
  <2> QED  BY <2>1, <2>3, <2>4 DEF ExchangeInv
<1>5. CASE CloseWorker
  <2>1. /\ Worker!PutPoison /\ closing' = "joined"
        /\ UNCHANGED <<mode, pending, round>>
    BY <1>5 DEF CloseWorker, pipeline, session
  <2>2. UNCHANGED seq  BY <2>1 DEF Worker!PutPoison
  <2>3. \A r \in Request : Awaited(r) => Awaited(r)'  BY <2>1 DEF Awaited
  <2> QED  BY <2>1, <2>2, <2>3, PoisonKeeps DEF ExchangeInv
<1>6. CASE RunThread
  <2>1. Worker!ThreadStep /\ UNCHANGED <<mode, pending, round, closing>>
    BY <1>6 DEF RunThread, pipeline, session
  <2>2. \A r \in Request : Awaited(r) => Awaited(r)'  BY <2>1 DEF Awaited
  <2>3. CASE Idle /\ ~pending
    BY <2>1, <2>3, ThreadKeepsIdle DEF ExchangeInv
  <2>4. CASE \E r \in Request : Carries(r) /\ Awaited(r)
    <3>1. PICK r \in Request : Carries(r) /\ Awaited(r)  BY <2>4
    <3>2. /\ Carries(r)' /\ UNCHANGED seq
          /\ thread # "returned" /\ requests # <<None>>
               => thread' # "returned" /\ requests' # <<None>>
      BY <2>1, <3>1, ThreadKeepsCarried
    <3> QED  BY <2>1, <2>2, <3>1, <3>2 DEF ExchangeInv
  <2> QED  BY <2>3, <2>4 DEF ExchangeInv
<1> QED  BY <1>1, <1>2, <1>3, <1>4, <1>5, <1>6, ExchangeCases
-----------------------------------------------------------------------------
LEMMA TypeStep ==
  ASSUME ClientTypeOK, [Next]_vars
  PROVE  ClientTypeOK'
<1> USE DEF ClientTypeOK, PhysicalStates
<1>z. /\ CommitSteps \in Nat /\ MaxQueue \in Nat /\ CommitSteps <= MaxQueue /\ MaxRound \in Nat
      /\ 0 \in 0..CommitSteps /\ 0 \in 0..MaxQueue
  BY ClientAssumption, PipelineAssumption
<1>1. CASE Unhandled \/ SameTask \/ PressReady \/ KeysDone \/ Sense \/ TrackInHold
        \/ NothingPolled \/ DiscardResult \/ NotDue("request", "pop") \/ NotDue("again", "task")
        \/ PopNothing \/ ExitHold \/ CloseWorker \/ RunThread
        \/ (\E t \in Tasks : SelectTask(t)) \/ Closed \/ UNCHANGED vars
  BY <1>1 DEF Unhandled, SameTask, PressReady, KeysDone, Sense, TrackInHold,
    NothingPolled, DiscardResult, NotDue, PopNothing, ExitHold, CloseWorker, RunThread, HoldRobot,
    SelectTask, Closed, vars, worker, session, pipeline
<1>2. CASE Interrupted \/ PressHold \/ (\E message \in Faults : ObservationFault(message))
        \/ TrackingFault \/ QueueExhausted \/ RejectResult
  <2>1. EnterHold /\ UNCHANGED <<task, uiTask, round, executed, prepared, closing>>
    BY <1>2 DEF Interrupted, PressHold, ObservationFault, TrackingFault, QueueExhausted,
      RejectResult, HoldAndGo, session
  <2>2. /\ mode' = "HOLD" /\ committed' = 0 /\ replaceable' = 0 /\ pending' = FALSE
        /\ fresh' = FALSE /\ progressed' = FALSE
    BY <2>1 DEF EnterHold, Empty
  <2>3. lastFault' \in Faults \union {None}
    BY <1>2 DEF Interrupted, PressHold, ObservationFault, TrackingFault, QueueExhausted,
      RejectResult, session
  <2>4. pc' \in {"task", "keys", "poll", "request", "again", "exit"}
    BY <1>2 DEF Interrupted, PressHold, ObservationFault, TrackingFault, QueueExhausted,
      RejectResult, HoldAndGo
  <2>5. physical' \in PhysicalStates
    BY <1>2 DEF Interrupted, PressHold, ObservationFault, TrackingFault, QueueExhausted,
      RejectResult, HoldAndGo, HoldRobot
  <2> QED  BY <1>z, <2>1, <2>2, <2>3, <2>4, <2>5
<1>3. CASE SwitchTask \/ PressStart
  <2>1. /\ committed' = 0 /\ replaceable' = 0 /\ pending' = FALSE
        /\ mode' \in {"HOLD", "ACTIVE"} /\ fresh' \in BOOLEAN /\ progressed' \in BOOLEAN
    BY <1>3 DEF SwitchTask, PressStart, StartRound, EnterHold, Empty
  <2>2. round' \in 0..MaxRound /\ executed' = 0
    <3>1. round < MaxRound /\ round' = round + 1 /\ executed' = 0
      BY <1>3 DEF SwitchTask, PressStart, BeginRound
    <3> QED  BY <1>z, <3>1
  <2>3. /\ physical' \in PhysicalStates /\ pc' = "keys" /\ task' \in Tasks
        /\ UNCHANGED <<uiTask, prepared, lastFault, closing>>
    BY <1>3 DEF SwitchTask, PressStart, HoldRobot
  <2> QED  BY <1>z, <2>1, <2>2, <2>3
<1>4. CASE \E k \in 0..CommitSteps : Track(k)
  <2>1. PICK k \in 0..CommitSteps : Track(k)  BY <1>4
  <2>2. /\ k \in 0..committed /\ executed' \in Nat
        /\ UNCHANGED <<task, uiTask, round, prepared, lastFault, closing>>
    BY <1>z, <2>1 DEF Track
  <2>3. CASE RoundComplete(k)
    <3>1. EnterHold /\ pc' \in {"poll", "exit"} /\ physical' \in PhysicalStates
      BY <2>1, <2>3 DEF Track, HoldAndGo, HoldRobot
    <3> QED  BY <1>z, <2>2, <3>1 DEF EnterHold, Empty
  <2>4. CASE ~RoundComplete(k)
    <3>1. /\ committed' = committed - k /\ progressed' \in BOOLEAN
          /\ UNCHANGED <<mode, replaceable, pending, fresh, physical>> /\ pc' = "poll"
      <4>1. CASE k = 0
        <5>1. UNCHANGED <<pipeline, physical>> /\ pc' = "poll"
          BY <2>1, <2>4, <4>1 DEF Track
        <5> QED  BY <1>z, <4>1, <5>1 DEF pipeline
      <4>2. CASE k # 0  BY <1>z, <2>1, <2>4, <4>2 DEF Track, Retire
      <4> QED  BY <4>1, <4>2
    <3>2. committed' \in 0..CommitSteps  BY <1>z, <2>2, <3>1
    <3> QED  BY <2>2, <3>1, <3>2
  <2> QED  BY <2>3, <2>4
<1>5. CASE \E n \in 0..MaxQueue : AcceptResult(n)
  BY <1>5 DEF AcceptResult, Merge, session
<1>6. CASE AskPolicy("request", "pop") \/ AskPolicy("again", "task")
  BY <1>6 DEF AskPolicy, OpenRequest, pipeline, session
<1>7. CASE \E k \in 1..CommitSteps : PopBatch(k)
  <2>1. PICK k \in 1..CommitSteps : PopBatch(k)  BY <1>7
  <2>2. /\ committed' \in 0..CommitSteps /\ replaceable' \in 0..MaxQueue
        /\ progressed' \in BOOLEAN /\ UNCHANGED <<mode, pending, fresh>>
    <3>1. /\ k \in 1..replaceable /\ committed + k <= CommitSteps
          /\ committed' = committed + k /\ replaceable' = replaceable - k
          /\ progressed' \in {progressed, TRUE} /\ UNCHANGED <<mode, pending, fresh>>
      BY <2>1 DEF PopBatch, Dispatch
    <3>2. committed' \in 0..CommitSteps /\ replaceable' \in 0..MaxQueue  BY <1>z, <3>1
    <3> QED  BY <3>1, <3>2
  <2>3. /\ pc' \in {"again", "exit"} /\ physical' \in PhysicalStates
        /\ UNCHANGED <<task, uiTask, round, executed, prepared, lastFault, closing>>
    BY <2>1 DEF PopBatch, session
  <2> QED  BY <2>2, <2>3
<1> QED
  BY <1>1, <1>2, <1>3, <1>4, <1>5, <1>6, <1>7 DEF Next, Loop

LEMMA HoldStep ==
  ASSUME ClientTypeOK, HoldInv, [Next]_vars
  PROVE  HoldInv'
<1> USE ClientAssumption DEF HoldInv
<1>1. CASE Unhandled \/ SameTask \/ PressReady \/ KeysDone \/ Sense \/ TrackInHold
        \/ NothingPolled \/ DiscardResult \/ NotDue("request", "pop") \/ NotDue("again", "task")
        \/ PopNothing \/ ExitHold \/ CloseWorker \/ RunThread
        \/ (\E t \in Tasks : SelectTask(t)) \/ Closed \/ UNCHANGED vars
  BY <1>1 DEF ClientTypeOK, Unhandled, SameTask, PressReady, KeysDone, Sense, TrackInHold,
    NothingPolled, DiscardResult, NotDue, PopNothing, ExitHold, CloseWorker, RunThread, HoldRobot,
    SelectTask, Closed, vars, worker, session, pipeline
<1>2. CASE Interrupted \/ PressHold \/ (\E message \in Faults : ObservationFault(message))
        \/ TrackingFault \/ QueueExhausted \/ RejectResult
  <2>1. CASE Interrupted \/ PressHold \/ TrackingFault \/ QueueExhausted \/ RejectResult
    <3>1. /\ physical' = physical \/ physical' \in {"HOLD", "UNCONFIRMED"}
          /\ Execute => physical' # "TRACKING"
          /\ UNCHANGED <<lastFault, closing>>
      BY <2>1 DEF Interrupted, PressHold, TrackingFault, QueueExhausted, RejectResult, HoldAndGo,
        HoldRobot, session
    <3>2. pc' = "exit" \/ pc' = pc \/ (pc' # "exit" /\ pc \notin {"task", "keys", "sense", "exit"})
      BY <2>1 DEF Interrupted, PressHold, TrackingFault, QueueExhausted, RejectResult, HoldAndGo,
        CurrentResult
    <3>3. pc # "exit"
      BY <2>1 DEF Interrupted, PressHold, TrackingFault, QueueExhausted, RejectResult,
        CurrentResult
    <3> QED  BY <3>1, <3>2, <3>3
  <2>2. CASE \E message \in Faults : ObservationFault(message)
    BY <2>2 DEF ObservationFault, HoldRobot
  <2> QED  BY <1>2, <2>1, <2>2
<1>3. CASE SwitchTask \/ PressStart
  BY <1>3 DEF ClientTypeOK, SwitchTask, PressStart, BeginRound, StartRound, EnterHold, HoldRobot
<1>4. CASE \E k \in 0..CommitSteps : Track(k)
  <2>1. PICK k \in 0..CommitSteps : Track(k)  BY <1>4
  <2>2. CASE RoundComplete(k)
    BY <2>1, <2>2 DEF ClientTypeOK, Track, HoldAndGo, HoldRobot, EnterHold
  <2>3. CASE ~RoundComplete(k)
    BY <2>1, <2>3 DEF ClientTypeOK, Track, Retire, pipeline
  <2> QED  BY <2>2, <2>3
<1>5. CASE \E n \in 0..MaxQueue : AcceptResult(n)
  BY <1>5 DEF ClientTypeOK, AcceptResult, CurrentResult, Merge, session
<1>6. CASE AskPolicy("request", "pop") \/ AskPolicy("again", "task")
  BY <1>6 DEF ClientTypeOK, AskPolicy, OpenRequest, pipeline, session
<1>7. CASE \E k \in 1..CommitSteps : PopBatch(k)
  BY <1>7 DEF ClientTypeOK, PopBatch, Dispatch, session
<1> QED
  BY <1>1, <1>2, <1>3, <1>4, <1>5, <1>6, <1>7 DEF Next, Loop

(* Waypoints are counted as executed in Track, which takes from committed  *)
(* what it adds, and are committed in PopBatch, which looks at both.       *)
LEMMA BoundStep ==
  ASSUME ClientTypeOK, BoundedRound, [Next]_vars
  PROVE  BoundedRound'
<1> SUFFICES ASSUME Limited PROVE executed' + committed' <= WaypointLimit
  BY DEF BoundedRound, Limited
<1>t. /\ executed \in Nat /\ committed \in Nat /\ WaypointLimit \in Nat
      /\ executed + committed <= WaypointLimit
  BY ClientAssumption, PipelineAssumption DEF ClientTypeOK, BoundedRound, Limited
<1>1. CASE UNCHANGED <<executed, committed>>
  BY <1>1, <1>t
<1>2. CASE executed' \in {0, executed} /\ committed' = 0
  <2>1. CASE executed' = 0  BY <1>2, <1>t, <2>1
  <2>2. CASE executed' = executed  BY <1>2, <1>t, <2>2
  <2> QED  BY <1>2, <2>1, <2>2
<1>3. CASE \E k \in 0..CommitSteps : Track(k)
  <2>1. PICK k \in 0..CommitSteps : Track(k)  BY <1>3
  <2>2. k \in 0..committed /\ executed' = executed + k
    BY <2>1 DEF Track
  <2>3. CASE RoundComplete(k)
    <3>1. committed' = 0
      BY <2>1, <2>3 DEF Track, HoldAndGo, EnterHold, Empty
    <3> QED  BY <1>t, <2>2, <3>1
  <2>4. CASE ~RoundComplete(k)
    <3>1. committed' = committed - k
      BY <1>t, <2>1, <2>2, <2>4 DEF Track, Retire, pipeline
    <3> QED  BY <1>t, <2>2, <3>1
  <2> QED  BY <2>3, <2>4
<1>4. CASE \E k \in 1..CommitSteps : PopBatch(k)
  <2>1. PICK k \in 1..CommitSteps : PopBatch(k)  BY <1>4
  <2>2. /\ k \in Nat /\ k <= WaypointLimit - executed - committed
        /\ executed' = executed /\ committed' = committed + k
    BY <2>1, PipelineAssumption DEF PopBatch, Dispatch, Remaining, session
  <2> QED  BY <1>t, <2>2
<1>5. CASE Unhandled \/ SameTask \/ PressReady \/ KeysDone \/ Sense \/ TrackInHold
        \/ NothingPolled \/ DiscardResult \/ NotDue("request", "pop") \/ NotDue("again", "task")
        \/ (\E n \in 0..MaxQueue : AcceptResult(n))
        \/ AskPolicy("request", "pop") \/ AskPolicy("again", "task")
        \/ PopNothing \/ ExitHold \/ CloseWorker \/ RunThread
        \/ (\E t \in Tasks : SelectTask(t)) \/ Closed \/ UNCHANGED vars
  BY <1>1, <1>5 DEF Unhandled, SameTask, PressReady, KeysDone, Sense, TrackInHold,
    NothingPolled, DiscardResult, NotDue, AcceptResult, Merge, AskPolicy, OpenRequest, PopNothing,
    ExitHold, CloseWorker, RunThread, SelectTask, Closed, vars, session, pipeline
<1>6. CASE Interrupted \/ PressHold \/ (\E message \in Faults : ObservationFault(message))
        \/ TrackingFault \/ QueueExhausted \/ RejectResult \/ SwitchTask \/ PressStart
  BY <1>2, <1>6 DEF Interrupted, PressHold, ObservationFault, TrackingFault, QueueExhausted,
    RejectResult, HoldAndGo, EnterHold, Empty, session, SwitchTask, PressStart, BeginRound,
    StartRound
<1> QED
  BY <1>3, <1>4, <1>5, <1>6 DEF Next, Loop
-----------------------------------------------------------------------------
LEMMA ClientInitial == Init => ClientInv
<1> SUFFICES ASSUME Init PROVE ClientInv
  OBVIOUS
<1>1. ClientTypeOK
  <2>1. 0 \in 0..CommitSteps /\ 0 \in 0..MaxQueue /\ 0 \in 0..MaxRound
    BY ClientAssumption, PipelineAssumption
  <2> QED  BY <2>1 DEF Init, PipelineInit, ClientTypeOK, PhysicalStates
<1>2. ExchangeInv
  BY ClientAssumption DEF Init, PipelineInit, Worker!WorkerInit, ExchangeInv, Idle, NothingQueued
<1>3. HoldInv  BY DEF Init, HoldInv
<1>4. BoundedRound
  BY ClientAssumption DEF Init, PipelineInit, BoundedRound, Limited
<1> QED  BY <1>1, <1>2, <1>3, <1>4 DEF ClientInv

LEMMA ClientInvariant == Spec => []ClientInv
<1>1. ClientInv /\ [Next]_vars => ClientInv'
  BY TypeStep, ExchangeStep, HoldStep, BoundStep DEF ClientInv
<1> QED  BY <1>1, ClientInitial, PTL DEF Spec

(* The loop's variables keep their types (task487_client.py:950-1369).     *)
THEOREM ClientTypes == Spec => []ClientTypeOK
BY ClientInvariant, PTL DEF ClientInv

(* Round isolation: an answer finds an open request exactly when it was    *)
(* asked for in this round and there was no HOLD since, so a late answer   *)
(* of an older round moves nothing (task487_client.py:1177-1260).          *)
THEOREM RoundsIsolated == Spec => []PendingIffCurrentInFlight
<1>1. ClientInv => PendingIffCurrentInFlight
  <2> SUFFICES ASSUME ClientInv PROVE PendingIffCurrentInFlight
    OBVIOUS
  <2>1. CASE Idle /\ ~pending
    BY <2>1, IdleFlight DEF PendingIffCurrentInFlight
  <2>2. CASE \E r \in Request : Carries(r) /\ Awaited(r)
    <3>1. PICK r \in Request : Carries(r) /\ Awaited(r)  BY <2>2
    <3>2. Worker!InFlight = {r}  BY <3>1, CarriedFlight
    <3> QED  BY <3>1, <3>2 DEF PendingIffCurrentInFlight, Awaited
  <2> QED  BY <2>1, <2>2 DEF ClientInv, ExchangeInv
<1> QED  BY <1>1, ClientInvariant, PTL

(* Targets that pass the round and HOLD checks after poll were asked for:  *)
(* the RuntimeError of merge_chunk, which nobody catches, is never raised  *)
(* (task487_client.py:1195-1260).                                          *)
THEOREM MergeNeverRaises ==
  Spec => [](results # <<>> /\ Result.request.round = round /\ mode = "ACTIVE" => pending)
<1>1. ClientInv =>
        (results # <<>> /\ Result.request.round = round /\ mode = "ACTIVE" => pending)
  <2> SUFFICES ASSUME ClientInv, results # <<>>, Result.request.round = round, mode = "ACTIVE"
               PROVE  pending
    OBVIOUS
  <2>1. PICK r \in Request : Carries(r) /\ Awaited(r)
    BY DEF ClientInv, ExchangeInv, Idle
  <2>2. Answered(r)  BY <2>1 DEF Carries, Queued, Working
  <2>3. PICK outcome \in {"targets", "error"} :
          results = <<[request |-> r, outcome |-> outcome]>>
    BY <2>2 DEF Answered
  <2>4. Result.request = r  BY <2>3 DEF Result
  <2> QED  BY <2>1, <2>4 DEF Awaited
<1> QED  BY <1>1, ClientInvariant, PTL

(* However the software came to HOLD, the robots were told to hold after   *)
(* the last waypoints they were sent (task487_client.py:1039-1342).        *)
THEOREM HoldIsPhysical == Spec => []HoldReachesRobots
<1>1. ClientInv => HoldReachesRobots
  BY DEF ClientInv, HoldInv, HoldReachesRobots
<1> QED  BY <1>1, ClientInvariant, PTL

(* A bounded round never sends more waypoints than its limit               *)
(* (task487_client.py:959-961,1166-1175,1307-1342).                        *)
THEOREM RoundKeepsLimit == Spec => []BoundedRound
BY ClientInvariant, PTL DEF ClientInv
=============================================================================
