------------------------ MODULE PolicyExchangeProofs ------------------------
(***************************************************************************)
(* Proofs about PolicyExchange, for every number of requests and length of *)
(* the log queue: one request is in flight, the file tells the exchanges   *)
(* in order, and nothing disappears.                                       *)
(*                                                                         *)
(* The worker is always in one of four phases, and each phase says how far *)
(* the exchange of the latest request can have been recorded.  Only one of *)
(* the two threads can be inside record, since a thread is in it only in   *)
(* the phases in which the other one is not; so what a call holds comes    *)
(* after everything in the queue, in the writer's hand and in the file.    *)
(***************************************************************************)
EXTENDS PolicyExchange, FiniteSetTheorems, TLAPS

NothingQueued == requests \in {<<>>, <<None>>}

Idle ==
  ~busy /\ NothingQueued /\ thread \in {"get", "returned"} /\ job = None /\ results = <<>>

Queued ==
  /\ busy /\ thread = "get" /\ job = None /\ results = <<>>
  /\ \E r \in Request : r.id = seq /\ requests = <<r>>

Working ==
  /\ busy /\ NothingQueued /\ results = <<>>
  /\ thread \in {"infer", "hung", "put"}
  /\ job \in Request /\ job.id = seq

Answered ==
  /\ busy /\ NothingQueued /\ thread \in {"get", "returned"} /\ job = None
  /\ \E r \in [request : Request, outcome : Outcomes] :
       r.request.id = seq /\ results = <<r>>

WorkerInv ==
  /\ seq \in 0..MaxSeq /\ busy \in BOOLEAN
  /\ Idle \/ Queued \/ Working \/ Answered
  /\ closing \in {"no", "putting", "joining", "joined", "closed"}
  /\ closing \in {"no", "putting"} => thread # "returned" /\ requests # <<None>>
-----------------------------------------------------------------------------
LEMMA RequestIsNotNone ==
  ASSUME NEW r \in Request PROVE r # None
BY WorkerAssumption DEF Request

LEMMA WorkerInitial == Init => WorkerInv
<1> SUFFICES ASSUME Init PROVE WorkerInv
  OBVIOUS
<1>1. busy = FALSE  BY DEF Init, WorkerInit
<1>2. busy \in BOOLEAN  BY <1>1
<1>3. Idle  BY <1>1 DEF Init, WorkerInit, Idle, NothingQueued
<1>4. seq \in 0..MaxSeq  BY WorkerAssumption DEF Init, WorkerInit
<1>5. requests # <<None>>
  <2>1. Len(<<>>) # Len(<<None>>)  OBVIOUS
  <2> QED  BY <2>1 DEF Init, WorkerInit
<1> QED  BY <1>2, <1>3, <1>4, <1>5 DEF Init, WorkerInit, WorkerInv

LEMMA SubmitPhase ==
  ASSUME WorkerInv, LoopSubmit PROVE WorkerInv'
<1>1. PICK round \in Rounds : Submit(round)  BY DEF LoopSubmit
<1>2. closing = "no" /\ closing' = closing  BY DEF LoopSubmit, LoopFree
<1>3. Idle /\ requests = <<>> /\ thread = "get"
  BY <1>1, <1>2 DEF WorkerInv, Submit, Queued, Working, Answered, Idle, NothingQueued
<1>4. Len(requests) = 0  BY <1>3
<1>5. requests' = <<[id |-> seq + 1, round |-> round]>> /\ busy' = TRUE
  BY <1>1, <1>3, <1>4 DEF Submit, QueueSize
<1>6. seq + 1 \in 1..MaxSeq /\ seq' = seq + 1
  BY <1>1, WorkerAssumption DEF Submit, WorkerInv
<1>7. [id |-> seq + 1, round |-> round] \in Request  BY <1>6 DEF Request
<1>8. Queued'
  BY <1>1, <1>3, <1>5, <1>6, <1>7 DEF Queued, Idle, Submit
<1>9. requests' # <<None>>  BY <1>5, <1>7, RequestIsNotNone
<1>10. busy' \in BOOLEAN  BY <1>5
<1> QED  BY <1>1, <1>2, <1>3, <1>6, <1>8, <1>9, <1>10 DEF WorkerInv, Submit

LEMMA PollPhase ==
  ASSUME WorkerInv, LoopPoll PROVE WorkerInv' /\ Answered /\ Idle'
<1>1. Poll /\ closing' = closing  BY DEF LoopPoll
<1>2. Answered  BY <1>1 DEF WorkerInv, Poll, Idle, Queued, Working
<1>3. PICK r \in [request : Request, outcome : Outcomes] : results = <<r>>
  BY <1>2 DEF Answered
<1>4. results' = <<>>  BY <1>1, <1>3 DEF Poll
<1>5. Idle'  BY <1>1, <1>2, <1>4 DEF Idle, Answered, Poll, NothingQueued
<1> QED  BY <1>1, <1>2, <1>5 DEF WorkerInv, Poll

LEMMA PoisonPhase ==
  ASSUME WorkerInv, ClosePut PROVE WorkerInv' /\ (Working => Working')
<1>1. PutPoison /\ closing' = "joining"  BY DEF ClosePut
<1>2. requests = <<>>
  <2>1. Len(requests) < 1  BY <1>1 DEF PutPoison, QueueSize
  <2>2. Len(<<None>>) = 1  OBVIOUS
  <2>3. \A r \in Request : Len(<<r>>) = 1  OBVIOUS
  <2> QED  BY <2>1, <2>2, <2>3 DEF WorkerInv, Idle, Queued, Working, Answered, NothingQueued
<1>3. requests' = <<None>>  BY <1>1, <1>2 DEF PutPoison
<1>4. ~Queued  BY <1>2 DEF Queued
<1>5. Idle' \/ Working' \/ Answered'
  BY <1>1, <1>3, <1>4 DEF WorkerInv, PutPoison, Idle, Working, Answered, NothingQueued
<1>6. Working => Working'
  BY <1>1, <1>3 DEF PutPoison, Working, NothingQueued
<1> QED  BY <1>1, <1>5, <1>6 DEF WorkerInv, PutPoison

LEMMA TakePhase ==
  ASSUME WorkerInv, TakeRequest, closing' = closing
  PROVE  /\ WorkerInv'
         /\ Head(requests) # None =>
              Queued /\ Working' /\ thread' = "infer" /\ Head(requests) \in Request
              /\ Head(requests).id = seq
         /\ Head(requests) = None => (Idle /\ Idle') \/ (Answered /\ Answered')
<1>1. CASE Queued
  <2>1. PICK r \in Request : r.id = seq /\ requests = <<r>>  BY <1>1 DEF Queued
  <2>2. Head(requests) = r /\ Tail(requests) = <<>>  BY <2>1
  <2>3. r # None  BY RequestIsNotNone
  <2>4. Working' /\ thread' = "infer"
    BY <1>1, <2>1, <2>2, <2>3 DEF TakeRequest, Working, Queued, NothingQueued
  <2>5. requests' # <<None>>
    <3>1. Len(<<>>) # Len(<<None>>)  OBVIOUS
    <3> QED  BY <2>2, <3>1 DEF TakeRequest
  <2> QED  BY <1>1, <2>1, <2>2, <2>3, <2>4, <2>5 DEF WorkerInv, TakeRequest
<1>2. CASE Idle \/ Answered
  <2>1. requests = <<None>>  BY <1>2 DEF Idle, Answered, NothingQueued, TakeRequest
  <2>2. Head(requests) = None /\ Tail(requests) = <<>>  BY <2>1
  <2>3. closing \notin {"no", "putting"}  BY <2>1 DEF WorkerInv
  <2>4. (Idle /\ Idle') \/ (Answered /\ Answered')
    BY <1>2, <2>2 DEF TakeRequest, Idle, Answered, NothingQueued
  <2> QED  BY <2>2, <2>3, <2>4 DEF WorkerInv, TakeRequest
<1>3. ~Working  BY DEF Working, TakeRequest
<1> QED  BY <1>1, <1>2, <1>3 DEF WorkerInv

LEMMA InferPhase ==
  ASSUME WorkerInv, Infer \/ Hang, closing' = closing
  PROVE  WorkerInv' /\ Working /\ Working'
<1>1. Working  BY DEF WorkerInv, Infer, Hang, Idle, Queued, Answered
<1>2. Working'  BY <1>1 DEF Working, Infer, Hang, NothingQueued
<1> QED  BY <1>1, <1>2 DEF WorkerInv, Infer, Hang, Working

LEMMA AnswerPhase ==
  ASSUME WorkerInv, PutResult, closing' = closing
  PROVE  WorkerInv' /\ Working /\ Answered'
<1>1. Working  BY DEF WorkerInv, PutResult, Idle, Queued, Answered
<1>2. PICK outcome \in Outcomes :
        results' = Append(results, [request |-> job, outcome |-> outcome])
  BY DEF PutResult
<1>3. results' = <<[request |-> job, outcome |-> outcome]>>  BY <1>1, <1>2 DEF Working
<1>4. Answered'
  BY <1>1, <1>3 DEF Answered, Working, PutResult, NothingQueued
<1> QED  BY <1>1, <1>4 DEF WorkerInv, PutResult

(* _busy is set exactly while the latest request, and no other one, is     *)
(* between submit and poll.                                                *)
LEMMA PhasesAreOneInFlight == WorkerInv => BusyMeansOneInFlight
<1> SUFFICES ASSUME WorkerInv PROVE BusyMeansOneInFlight
  OBVIOUS
<1>1. ASSUME NothingQueued PROVE \A r \in Request, i \in DOMAIN requests : requests[i] # r
  <2>1. requests = <<>> \/ requests = <<None>>  BY <1>1 DEF NothingQueued
  <2>2. \A i \in DOMAIN requests : requests[i] = None  BY <2>1
  <2> QED  BY <2>2, RequestIsNotNone
<1>2. CASE Idle
  <2>1. InFlight = {}  BY <1>1, <1>2, RequestIsNotNone DEF Idle, InFlight
  <2> QED  BY <1>2, <2>1 DEF BusyMeansOneInFlight, Idle
<1>3. CASE Queued
  <2>1. PICK r \in Request : r.id = seq /\ requests = <<r>>  BY <1>3 DEF Queued
  <2>2. DOMAIN requests = {1} /\ requests[1] = r  BY <2>1
  <2>3. InFlight = {r}  BY <1>3, <2>2, RequestIsNotNone DEF InFlight, Queued
  <2> QED  BY <1>3, <2>1, <2>3 DEF BusyMeansOneInFlight, Queued
<1>4. CASE Working
  <2>1. InFlight = {job}  BY <1>1, <1>4 DEF InFlight, Working
  <2> QED  BY <1>4, <2>1 DEF BusyMeansOneInFlight, Working
<1>5. CASE Answered
  <2>1. PICK r \in [request : Request, outcome : Outcomes] :
          r.request.id = seq /\ results = <<r>>
    BY <1>5 DEF Answered
  <2>2. DOMAIN results = {1} /\ results[1].request = r.request /\ r.request \in Request
    BY <2>1
  <2>3. InFlight = {r.request}  BY <1>1, <1>5, <2>2, RequestIsNotNone DEF InFlight, Answered
  <2> QED  BY <1>5, <2>1, <2>2, <2>3 DEF BusyMeansOneInFlight, Answered
<1> QED  BY <1>2, <1>3, <1>4, <1>5 DEF WorkerInv

LEMMA PhasesAreTypes == WorkerInv => WorkerTypeOK
<1> SUFFICES ASSUME WorkerInv PROVE WorkerTypeOK
  OBVIOUS
<1> DEFINE Results == [request : Request, outcome : Outcomes]
<1>1. requests \in UNION {[1..n -> Request \union {None}] : n \in 0..QueueSize}
  <2>1. <<>> \in [1..0 -> Request \union {None}]  OBVIOUS
  <2>2. \A r \in Request \union {None} : <<r>> \in [1..1 -> Request \union {None}]  OBVIOUS
  <2>3. requests \in [1..0 -> Request \union {None}] \union [1..1 -> Request \union {None}]
    BY <2>1, <2>2 DEF WorkerInv, Idle, Queued, Working, Answered, NothingQueued
  <2> QED  BY <2>3 DEF QueueSize
<1>2. results \in UNION {[1..n -> Results] : n \in 0..QueueSize}
  <2>1. <<>> \in [1..0 -> Results]  OBVIOUS
  <2>2. \A r \in Results : <<r>> \in [1..1 -> Results]  OBVIOUS
  <2>3. results \in [1..0 -> Results] \union [1..1 -> Results]
    BY <2>1, <2>2 DEF WorkerInv, Idle, Queued, Working, Answered
  <2> QED  BY <2>3 DEF QueueSize
<1>3. busy \in BOOLEAN /\ job \in Request \union {None}
      /\ thread \in {"get", "infer", "hung", "put", "returned"}
  BY DEF WorkerInv, Idle, Queued, Working, Answered
<1> QED  BY <1>1, <1>2, <1>3 DEF WorkerTypeOK, WorkerInv
-----------------------------------------------------------------------------
RecorderTypes ==
  /\ items \in Seq(Entries) /\ Len(items) <= LogQueueSize
  /\ stats \in [{"enqueued", "written", "dropped", "errors"} -> Nat]
  /\ calls \in [Callers -> [at : {"check", "put", "count"}, item : Entries] \union {NoCall}]
  /\ writer \in {"start", "test", "get", "write", "ended"}
  /\ writer = "write" <=> writing \in Entries
  /\ log \in Seq(Entries \union {Session})

LEMMA RecordTypes ==
  ASSUME RecorderTypes, NEW c \in Callers, NEW item \in Entries, Record(c, item)
  PROVE  RecorderTypes'
BY DEF RecorderTypes, Record

LEMMA CountTypes ==
  ASSUME RecorderTypes, Count("written") \/ Count("errors")
  PROVE  stats' \in [{"enqueued", "written", "dropped", "errors"} -> Nat]
BY DEF RecorderTypes, Count

LEMMA RecordStepTypes ==
  ASSUME RecorderTypes, NEW c \in Callers, RecordStep(c)
  PROVE  RecorderTypes'
<1>1. CASE CheckStop(c)
  BY <1>1 DEF RecorderTypes, CheckStop, Count, Return, GoTo, NoCall
<1>2. CASE SnapshotFails(c)
  BY <1>2 DEF RecorderTypes, SnapshotFails, Count, Return, NoCall
<1>3. CASE PutItem(c)
  <2>1. calls[c] \in [at : {"check", "put", "count"}, item : Entries]
    BY <1>3 DEF RecorderTypes, PutItem, NoCall
  <2>2. CASE Len(items) < LogQueueSize
    <3>1. items' = Append(items, calls[c].item) /\ GoTo(c, "count") /\ UNCHANGED stats
      BY <1>3, <2>2 DEF PutItem
    <3>2. items' \in Seq(Entries) /\ Len(items') <= LogQueueSize
      BY <2>1, <2>2, <3>1, RecorderAssumption DEF RecorderTypes
    <3> QED  BY <1>3, <2>1, <3>1, <3>2 DEF RecorderTypes, PutItem, GoTo
  <2>3. CASE ~(Len(items) < LogQueueSize)
    BY <1>3, <2>3 DEF RecorderTypes, PutItem, Count, Return, NoCall
  <2> QED  BY <2>2, <2>3
<1>4. CASE CountItem(c)
  BY <1>4 DEF RecorderTypes, CountItem, Count, Return, NoCall
<1> QED  BY <1>1, <1>2, <1>3, <1>4 DEF RecordStep

LEMMA WriterTypes ==
  ASSUME RecorderTypes, Writer PROVE RecorderTypes'
<1>1. CASE WriteSession
  <2>1. log' \in Seq(Entries \union {Session})
    BY <1>1 DEF WriteSession, WriteRow, RecorderTypes
  <2> QED  BY <1>1, <2>1, CountTypes, ExchangeAssumption DEF WriteSession, WriteRow, RecorderTypes
<1>2. CASE TestLoop
  BY <1>2 DEF TestLoop, RecorderTypes
<1>3. CASE GetItem
  <2>1. Head(items) \in Entries /\ Tail(items) \in Seq(Entries)
        /\ Len(Tail(items)) <= LogQueueSize
    BY <1>3, RecorderAssumption DEF GetItem, RecorderTypes
  <2> QED  BY <1>3, <2>1 DEF GetItem, RecorderTypes
<1>4. CASE GetEmpty
  BY <1>4 DEF GetEmpty, RecorderTypes
<1>5. CASE WriteItem
  <2>1. log' \in Seq(Entries \union {Session})
    BY <1>5 DEF WriteItem, WriteRow, RecorderTypes
  <2> QED  BY <1>5, <2>1, CountTypes, ExchangeAssumption DEF WriteItem, WriteRow, RecorderTypes
<1> QED  BY <1>1, <1>2, <1>3, <1>4, <1>5 DEF Writer
-----------------------------------------------------------------------------
(* A thread is inside record only while the other one has nothing to       *)
(* record.                                                                 *)
CallInv ==
  /\ ~Free("thread") => Working
  /\ ~Free("loop") => Idle /\ closing = "no"

LEMMA OneCaller == CallInv => Free("thread") \/ Free("loop")
BY DEF CallInv, Working, Idle

LEMMA RecordStepKeepsFree ==
  ASSUME RecorderTypes, NEW c \in Callers, RecordStep(c)
  PROVE  ~Free(c) /\ \A d \in Callers \ {c} : calls'[d] = calls[d]
BY DEF RecorderTypes, RecordStep, CheckStop, SnapshotFails, PutItem, CountItem, Return, GoTo, Free

LEMMA RecordKeepsFree ==
  ASSUME RecorderTypes, NEW c \in Callers, NEW item, Record(c, item)
  PROVE  \A d \in Callers \ {c} : calls'[d] = calls[d]
BY DEF RecorderTypes, Record

LEMMA CallStep ==
  ASSUME WorkerInv, RecorderTypes, CallInv, [Next]_vars PROVE CallInv'
<1> USE ExchangeAssumption
<1>1. CASE LoopSubmit
  <2>1. Idle  BY <1>1 DEF LoopSubmit, LoopFree, Submit, WorkerInv, Queued, Working, Answered
  <2>2. Free("thread") /\ Free("loop")
    BY <1>1, <2>1 DEF CallInv, Idle, Working, LoopSubmit, LoopFree
  <2> QED  BY <1>1, <2>2 DEF CallInv, LoopSubmit, recorder, Free
<1>2. CASE LoopPoll
  <2>1. Answered /\ Idle'  BY <1>2, PollPhase
  <2>2. Free("thread")  BY <2>1 DEF CallInv, Answered, Working
  <2>3. PICK item : Record("loop", item)  BY <1>2 DEF LoopPoll
  <2>4. calls'["thread"] = calls["thread"]  BY <2>3, RecordKeepsFree
  <2> QED  BY <1>2, <2>1, <2>2, <2>4 DEF CallInv, LoopPoll, LoopFree, Free
<1>3. CASE LoopClose
  BY <1>3 DEF LoopClose, LoopFree, CallInv, Free, Working, NothingQueued, worker, recorder
<1>4. CASE ClosePut
  <2>1. Working => Working'  BY <1>4, PoisonPhase
  <2> QED  BY <1>4, <2>1 DEF ClosePut, CallInv, Free, recorder
<1>5. CASE Join
  BY <1>5 DEF Join, CallInv, Free, Working, NothingQueued, worker, recorder
<1>6. CASE Close
  BY <1>6 DEF Close, CloseRecorder, CallInv, Free, Working, NothingQueued, worker
<1>7. CASE LoopRecords
  <2>1. ~Free("loop") /\ calls'["thread"] = calls["thread"]
    BY <1>7, RecordStepKeepsFree DEF LoopRecords
  <2> QED  BY <1>7, <2>1 DEF LoopRecords, CallInv, Free, Working, Idle, NothingQueued, worker
<1>8. CASE RunThread
  <2>0. UNCHANGED <<closing, late>>  BY <1>8 DEF RunThread
  <2>1. CASE Take
    <3>1. TakeRequest  BY <2>1 DEF Take
    <3>2. CASE Head(requests) = None
      <4>1. (Idle /\ Idle') \/ (Answered /\ Answered')  BY <2>0, <3>1, <3>2, TakePhase
      <4>2. Free("thread")  BY <4>1 DEF CallInv, Idle, Answered, Working
      <4>3. UNCHANGED recorder  BY <2>1, <3>2 DEF Take
      <4>4. Idle => Idle'  BY <4>1 DEF Idle, Answered
      <4> QED  BY <2>0, <4>2, <4>3, <4>4 DEF CallInv, Free, recorder
    <3>3. CASE Head(requests) # None
      <4>1. Queued /\ Working'  BY <2>0, <3>1, <3>3, TakePhase
      <4>2. Free("loop")  BY <4>1 DEF CallInv, Queued, Idle
      <4>3. PICK item : Record("thread", item)  BY <2>1, <3>3 DEF Take
      <4>4. calls'["loop"] = calls["loop"]  BY <4>3, RecordKeepsFree
      <4> QED  BY <4>1, <4>2, <4>4 DEF CallInv, Free
    <3> QED  BY <3>2, <3>3
  <2>2. CASE InferAndRecord
    <3>1. Working /\ Working'  BY <2>0, <2>2, InferPhase DEF InferAndRecord
    <3>2. Free("loop")  BY <3>1 DEF CallInv, Working, Idle
    <3>3. PICK item : Record("thread", item)  BY <2>2 DEF InferAndRecord
    <3>4. calls'["loop"] = calls["loop"]  BY <3>3, RecordKeepsFree
    <3> QED  BY <3>1, <3>2, <3>4 DEF CallInv, Free
  <2>3. CASE InferHangs
    <3>1. Working  BY <2>0, <2>3, InferPhase DEF InferHangs
    <3>2. Free("loop")  BY <3>1 DEF CallInv, Working, Idle
    <3> QED  BY <2>3, <3>2 DEF InferHangs, CallInv, Free, recorder
  <2>4. CASE Answer
    <3>1. Working  BY <2>0, <2>4, AnswerPhase DEF Answer
    <3>2. Free("loop")  BY <3>1 DEF CallInv, Working, Idle
    <3> QED  BY <2>4, <3>2 DEF Answer, CallInv, Free, recorder
  <2>5. CASE RecordStep("thread") /\ UNCHANGED worker
    <3>1. ~Free("thread") /\ calls'["loop"] = calls["loop"]
      BY <2>5, RecordStepKeepsFree
    <3> QED
      BY <2>0, <2>5, <3>1 DEF CallInv, Free, Working, Idle, NothingQueued, worker
  <2> QED  BY <1>8, <2>1, <2>2, <2>3, <2>4, <2>5 DEF RunThread
<1>9. CASE RunWriter
  <2>1. calls' = calls
    BY <1>9 DEF RunWriter, Writer, WriteSession, WriteRow, TestLoop, GetItem, GetEmpty, WriteItem
  <2> QED  BY <1>9, <2>1 DEF RunWriter, CallInv, Free, Working, Idle, NothingQueued, worker
<1>10. CASE Stopped \/ UNCHANGED vars
  BY <1>10 DEF Stopped, vars, CallInv, Free, Working, Idle, NothingQueued, worker, recorder
<1> QED
  BY <1>1, <1>2, <1>3, <1>4, <1>5, <1>6, <1>7, <1>8, <1>9, <1>10 DEF Next
-----------------------------------------------------------------------------
LEMMA WorkerStep ==
  ASSUME WorkerInv, [Next]_vars PROVE WorkerInv'
<1>1. CASE LoopSubmit \/ LoopPoll \/ ClosePut
  BY <1>1, SubmitPhase, PollPhase, PoisonPhase
<1>2. CASE LoopClose \/ Join \/ Close \/ LoopRecords \/ RunWriter \/ Stopped \/ UNCHANGED vars
  BY <1>2 DEF LoopClose, LoopFree, Join, Close, LoopRecords, RunWriter, Stopped, vars, worker,
    WorkerInv, Idle, Queued, Working, Answered, NothingQueued
<1>3. CASE RunThread
  <2>1. closing' = closing  BY <1>3 DEF RunThread
  <2>2. CASE Take \/ InferAndRecord \/ InferHangs \/ Answer
    BY <2>1, <2>2, TakePhase, InferPhase, AnswerPhase DEF Take, InferAndRecord, InferHangs, Answer
  <2>3. CASE UNCHANGED worker
    BY <2>1, <2>3 DEF worker, WorkerInv, Idle, Queued, Working, Answered, NothingQueued
  <2> QED  BY <1>3, <2>2, <2>3 DEF RunThread
<1> QED  BY <1>1, <1>2, <1>3 DEF Next

(* What a step of the composition is to the recorder: a call begins, a     *)
(* step inside one, a step of the writer, close, or nothing.  A call is    *)
(* about the latest request, and its event is the next one of its phase.   *)
Asked == Queued /\ Working' /\ thread' = "infer"
           /\ Record("thread", [id |-> seq, event |-> "request"])
Answering == Working /\ thread = "infer" /\ Working' /\ thread' = "put" /\ Free("thread")
               /\ Record("thread", [id |-> seq, event |-> "response"])
Disposed == Answered /\ Idle' /\ Free("loop")
              /\ Record("loop", [id |-> seq, event |-> "disposition"])

LEMMA AskedStep ==
  ASSUME WorkerInv, Take, closing' = closing, Head(requests) # None
  PROVE  Asked /\ seq' = seq
<1>1. TakeRequest  BY DEF Take
<1>2. Queued /\ Working' /\ thread' = "infer" /\ Head(requests).id = seq
  BY <1>1, TakePhase
<1>3. Record("thread", [id |-> seq, event |-> "request"])
  BY <1>2 DEF Take, Entry
<1> QED  BY <1>1, <1>2, <1>3 DEF Asked, TakeRequest

LEMMA AnsweringStep ==
  ASSUME WorkerInv, InferAndRecord, closing' = closing
  PROVE  Answering /\ seq' = seq
<1>1. Infer /\ Free("thread")  BY DEF InferAndRecord
<1>2. Working /\ Working'  BY <1>1, InferPhase
<1>3. Record("thread", [id |-> seq, event |-> "response"])
  BY <1>2 DEF InferAndRecord, Entry, Working
<1> QED  BY <1>1, <1>2, <1>3 DEF Answering, Infer

LEMMA DisposedStep ==
  ASSUME WorkerInv, LoopPoll
  PROVE  Disposed /\ seq' = seq
<1>1. Answered /\ Idle'  BY PollPhase
<1>2. PICK r \in [request : Request, outcome : Outcomes] :
        r.request.id = seq /\ results = <<r>>
  BY <1>1 DEF Answered
<1>3. Head(results).request.id = seq  BY <1>2
<1>4. Record("loop", [id |-> seq, event |-> "disposition"])
  BY <1>3 DEF LoopPoll, Entry
<1> QED  BY <1>1, <1>4 DEF Disposed, LoopPoll, LoopFree, Poll

LEMMA LatestIsPositive == WorkerInv /\ ~Idle => seq \in 1..MaxSeq
BY WorkerAssumption DEF WorkerInv, Queued, Working, Answered, Request

(* Everything a step can do to the recorder.                               *)
LEMMA RecorderCases ==
  ASSUME WorkerInv, [Next]_vars
  PROVE  \/ (Asked \/ Answering \/ Disposed) /\ seq' = seq /\ UNCHANGED <<closing, late>>
         \/ /\ \E c \in Callers : RecordStep(c)
            /\ UNCHANGED <<worker, closing, late>>
         \/ Writer /\ UNCHANGED <<worker, closing, late>>
         \/ Close
         \/ UNCHANGED recorder
<1> USE ExchangeAssumption
<1>1. CASE LoopPoll
  BY <1>1, DisposedStep DEF LoopPoll
<1>2. CASE LoopSubmit \/ LoopClose \/ ClosePut \/ Join \/ Close \/ LoopRecords \/ RunWriter
          \/ Stopped \/ UNCHANGED vars
  BY <1>2 DEF LoopSubmit, LoopClose, ClosePut, Join, LoopRecords, RunWriter, Stopped, vars
<1>3. CASE RunThread
  <2>1. UNCHANGED <<closing, late>>  BY <1>3 DEF RunThread
  <2>2. CASE Take /\ Head(requests) # None  BY <2>1, <2>2, AskedStep
  <2>3. CASE Take /\ Head(requests) = None  BY <2>3 DEF Take
  <2>4. CASE InferAndRecord  BY <2>1, <2>4, AnsweringStep
  <2>5. CASE InferHangs \/ Answer  BY <2>5 DEF InferHangs, Answer
  <2>6. CASE RecordStep("thread") /\ UNCHANGED worker  BY <2>1, <2>6
  <2> QED  BY <1>3, <2>2, <2>3, <2>4, <2>5, <2>6 DEF RunThread
<1> QED  BY <1>1, <1>2, <1>3 DEF Next

LEMMA TypesStep ==
  ASSUME WorkerInv, RecorderTypes, [Next]_vars PROVE RecorderTypes'
<1>1. CASE Asked \/ Answering \/ Disposed
  <2>1. seq \in 1..MaxSeq
    BY <1>1, LatestIsPositive DEF Asked, Answering, Disposed, Idle, Queued, Working, Answered
  <2>2. \E c \in Callers, item \in Entries : Record(c, item)
    BY <1>1, <2>1, ExchangeAssumption DEF Asked, Answering, Disposed, Entries, Events
  <2> QED  BY <2>2, RecordTypes
<1>2. CASE \E c \in Callers : RecordStep(c)  BY <1>2, RecordStepTypes
<1>3. CASE Writer  BY <1>3, WriterTypes
<1>4. CASE Close \/ UNCHANGED recorder
  BY <1>4 DEF Close, CloseRecorder, recorder, RecorderTypes
<1> QED  BY <1>1, <1>2, <1>3, <1>4, RecorderCases
-----------------------------------------------------------------------------
(* How far the exchange of the latest request can have been recorded.      *)
Reached ==
  IF ~busy THEN 3
  ELSE IF results # <<>> \/ thread = "put" THEN 2
  ELSE IF thread \in {"infer", "hung"} THEN 1 ELSE 0

Known(e) == e.id < seq \/ (e.id = seq /\ Stage(e.event) <= Reached)

AllEntries == Entries \union {Session}

Seen ==
  {log[i] : i \in DOMAIN log} \union {items[i] : i \in DOMAIN items}
    \union (IF writer = "write" THEN {writing} ELSE {})

FileOrder ==
  /\ EvidenceInOrder
  /\ \A i, j \in DOMAIN items : i < j => Precedes(items[i], items[j])
  /\ \A i \in DOMAIN log, j \in DOMAIN items : Precedes(log[i], items[j])
  /\ writer = "write" => /\ \A i \in DOMAIN log : Precedes(log[i], writing)
                         /\ \A j \in DOMAIN items : Precedes(writing, items[j])
  /\ writer = "start" => log = <<>>

CallOrder ==
  \A c \in Callers : calls[c].at \in {"check", "put"} =>
    \A x \in Seen : Precedes(x, calls[c].item)

NoneAhead ==
  /\ \A x \in Seen : Known(x)
  /\ \A c \in Callers : ~Free(c) => Known(calls[c].item)

OrderInv == FileOrder /\ CallOrder /\ NoneAhead

LEMMA Stages ==
  /\ \A e \in Entries : Stage(e.event) \in 1..3
  /\ Stage("session") = 0 /\ Stage("request") = 1
  /\ Stage("response") = 2 /\ Stage("disposition") = 3
BY DEF Stage, Entries, Events

LEMMA SessionFirst == \A e \in Entries : Precedes(Session, e)
BY WorkerAssumption DEF Precedes, Session, Entries

LEMMA KnownGrows ==
  ASSUME WorkerInv, WorkerInv', [Next]_vars, NEW e \in AllEntries, Known(e)
  PROVE  Known(e)'
<1>1. e.id \in Nat /\ Stage(e.event) \in 0..3
  BY Stages, WorkerAssumption DEF AllEntries, Entries, Session
<1>2. seq \in Nat  BY WorkerAssumption DEF WorkerInv
<1>3. CASE LoopSubmit
  <2>1. seq' = seq + 1  BY <1>3 DEF LoopSubmit, Submit
  <2> QED  BY <1>1, <1>2, <2>1 DEF Known
<1>4. CASE LoopPoll
  <2>1. Idle' /\ seq' = seq  BY <1>4, PollPhase DEF LoopPoll, Poll
  <2>2. Reached' = 3  BY <2>1 DEF Idle, Reached
  <2> QED  BY <1>1, <1>2, <2>1, <2>2 DEF Known
<1>5. CASE ClosePut
  BY <1>5 DEF ClosePut, PutPoison, Known, Reached
<1>6. CASE UNCHANGED worker
  BY <1>6 DEF worker, Known, Reached
<1>7. CASE RunThread
  <2>1. closing' = closing  BY <1>7 DEF RunThread
  <2>2. CASE TakeRequest
    <3>1. results' = results /\ busy' = busy /\ seq' = seq /\ thread = "get"
      BY <2>2 DEF TakeRequest
    <3>2. Reached <= Reached' /\ Reached \in Nat /\ Reached' \in Nat
      BY <3>1 DEF Reached
    <3> QED  BY <1>1, <1>2, <3>1, <3>2 DEF Known
  <2>3. CASE Infer \/ Hang
    <3>1. results' = results /\ busy' = busy /\ seq' = seq /\ thread = "infer"
          /\ thread' \in {"put", "hung"}
      BY <2>3 DEF Infer, Hang
    <3>2. Reached <= Reached' /\ Reached \in Nat /\ Reached' \in Nat
      BY <3>1 DEF Reached
    <3> QED  BY <1>1, <1>2, <3>1, <3>2 DEF Known
  <2>4. CASE PutResult
    <3>1. Working /\ Answered'  BY <2>1, <2>4, AnswerPhase
    <3>2. thread = "put" /\ seq' = seq  BY <2>4 DEF PutResult
    <3>3. results' # <<>>
      <4>1. PICK r : results' = <<r>>  BY <3>1 DEF Answered
      <4>2. Len(results') = 1  BY <4>1
      <4> QED  BY <4>2
    <3>4. Reached = 2 /\ Reached' = 2
      BY <3>1, <3>2, <3>3 DEF Working, Answered, Reached
    <3> QED  BY <1>1, <1>2, <3>2, <3>4 DEF Known
  <2>5. CASE UNCHANGED worker  BY <2>5 DEF worker, Known, Reached
  <2> QED
    BY <1>7, <2>2, <2>3, <2>4, <2>5 DEF RunThread, Take, InferAndRecord, InferHangs, Answer
<1> QED
  BY <1>3, <1>4, <1>5, <1>6, <1>7 DEF Next, LoopClose, Join, Close, LoopRecords, RunWriter, Stopped, vars

LEMMA SeenTypes == RecorderTypes => Seen \subseteq AllEntries
BY DEF RecorderTypes, Seen, AllEntries

(* What is recorded next follows everything recorded before, because the   *)
(* phase the worker was in bounds how far that had come.                   *)
LEMMA NextIsAhead ==
  ASSUME WorkerInv, RecorderTypes, NoneAhead, seq' = seq,
         NEW c, NEW event \in Events, Record(c, [id |-> seq, event |-> event]),
         (Asked /\ c = "thread" /\ event = "request")
           \/ (Answering /\ c = "thread" /\ event = "response")
           \/ (Disposed /\ c = "loop" /\ event = "disposition")
  PROVE  /\ \A x \in Seen : Precedes(x, [id |-> seq, event |-> event])
         /\ Known([id |-> seq, event |-> event])'
<1> DEFINE new == [id |-> seq, event |-> event]
<1>1. \A x \in Seen : x.id \in Nat /\ Stage(x.event) \in 0..3 /\ Known(x)
  BY SeenTypes, Stages, WorkerAssumption DEF NoneAhead, AllEntries, Entries, Session
<1>2. seq \in Nat  BY WorkerAssumption DEF WorkerInv
<1>3. Reached \in Nat /\ Reached < Stage(event)
  BY Stages DEF Asked, Answering, Disposed, Reached, Queued, Working, Answered
<1>4. \A x \in Seen : Precedes(x, new)
  BY <1>1, <1>2, <1>3, Stages DEF Known, Precedes
<1>5. Stage(event) <= Reached'
  BY Stages DEF Asked, Answering, Disposed, Reached, Idle, Working
<1>6. Known(new)'  BY <1>2, <1>5 DEF Known
<1> QED  BY <1>4, <1>6

LEMMA RecordOrder ==
  ASSUME RecorderTypes, FileOrder, NEW c \in Callers, NEW item \in Entries, Record(c, item),
         \A x \in Seen : Precedes(x, item), \A d \in Callers \ {c} : Free(d)
  PROVE  FileOrder' /\ CallOrder' /\ Seen' = Seen /\ calls'[c].item = item
         /\ \A d \in Callers \ {c} : Free(d)'
<1>1. UNCHANGED <<items, writer, writing, log>>  BY DEF Record
<1>2. Seen' = Seen  BY <1>1 DEF Seen
<1>3. FileOrder'  BY <1>1 DEF FileOrder, EvidenceInOrder
<1>4. calls'[c].item = item /\ \A d \in Callers \ {c} : calls'[d] = calls[d]
  BY DEF Record, RecorderTypes
<1>5. CallOrder'  BY <1>2, <1>4 DEF CallOrder, Free
<1> QED  BY <1>2, <1>3, <1>4, <1>5 DEF Free

(* An item put into the queue follows all the queue holds.                 *)
LEMMA PutOrder ==
  ASSUME RecorderTypes, FileOrder, CallOrder, NEW c \in Callers, PutItem(c),
         \A d \in Callers \ {c} : Free(d)
  PROVE  /\ FileOrder' /\ CallOrder'
         /\ Seen' \subseteq Seen \union {calls[c].item}
         /\ ~Free(c)' => calls'[c].item = calls[c].item
         /\ \A d \in Callers \ {c} : Free(d)'
<1> DEFINE e == calls[c].item
<1>1. calls[c].at = "put" /\ \A x \in Seen : Precedes(x, e)
  BY DEF PutItem, CallOrder
<1>2. UNCHANGED <<writer, writing, log>>  BY DEF PutItem
<1>3. e \in Entries  BY <1>1 DEF RecorderTypes, NoCall
<1>4. calls'[c].at \notin {"check", "put"} /\ (~Free(c)' => calls'[c].item = e)
      /\ \A d \in Callers \ {c} : calls'[d] = calls[d]
  BY <1>1 DEF PutItem, GoTo, Return, NoCall, Free, RecorderTypes
<1>5. \A d \in Callers \ {c} : Free(d)'  BY <1>4 DEF Free
<1>6. CallOrder'  BY <1>4, <1>5 DEF CallOrder, Free
<1>7. CASE items' = items
  <2>1. Seen' = Seen  BY <1>2, <1>7 DEF Seen
  <2>2. FileOrder'  BY <1>2, <1>7 DEF FileOrder, EvidenceInOrder
  <2> QED  BY <1>4, <1>5, <1>6, <2>1, <2>2
<1>8. CASE items' = Append(items, e)
  <2>1. /\ items \in Seq(Entries) /\ Len(items') = Len(items) + 1
        /\ items' \in Seq(Entries)
        /\ \A i \in 1..Len(items) : items'[i] = items[i]
        /\ items'[Len(items) + 1] = e
    BY <1>3, <1>8 DEF RecorderTypes
  <2>2. DOMAIN items = 1..Len(items) /\ DOMAIN items' = 1..Len(items) + 1 /\ Len(items) \in Nat
    BY <2>1
  <2>3. Seen' \subseteq Seen \union {e}  BY <1>2, <2>1, <2>2 DEF Seen
  <2>4. /\ \A i \in DOMAIN items : Precedes(items[i], e)
        /\ \A i \in DOMAIN log : Precedes(log[i], e)
        /\ writer = "write" => Precedes(writing, e)
    BY <1>1 DEF Seen
  <2>5. \A i, j \in DOMAIN items' : i < j => Precedes(items'[i], items'[j])
    <3> SUFFICES ASSUME NEW i \in DOMAIN items', NEW j \in DOMAIN items', i < j
                 PROVE  Precedes(items'[i], items'[j])
      OBVIOUS
    <3>1. i \in DOMAIN items  BY <2>2
    <3>2. CASE j \in DOMAIN items  BY <2>1, <2>2, <3>1, <3>2 DEF FileOrder
    <3>3. CASE j = Len(items) + 1  BY <2>1, <2>2, <2>4, <3>1, <3>3
    <3> QED  BY <2>2, <3>2, <3>3
  <2>6. \A i \in DOMAIN log, j \in DOMAIN items' : Precedes(log[i], items'[j])
    BY <2>1, <2>2, <2>4 DEF FileOrder
  <2>7. writer = "write" => \A j \in DOMAIN items' : Precedes(writing, items'[j])
    BY <2>1, <2>2, <2>4 DEF FileOrder
  <2>8. FileOrder'  BY <1>2, <2>5, <2>6, <2>7 DEF FileOrder, EvidenceInOrder
  <2> QED  BY <1>4, <1>5, <1>6, <2>3, <2>8
<1> QED  BY <1>7, <1>8 DEF PutItem

LEMMA RecordStepOrder ==
  ASSUME RecorderTypes, FileOrder, CallOrder, NEW c \in Callers, RecordStep(c),
         \A d \in Callers \ {c} : Free(d)
  PROVE  /\ FileOrder' /\ CallOrder'
         /\ Seen' \subseteq Seen \union {calls[c].item}
         /\ ~Free(c)' => calls'[c].item = calls[c].item
         /\ \A d \in Callers \ {c} : Free(d)'
<1>1. CASE PutItem(c)  BY <1>1, PutOrder
<1>2. CASE CheckStop(c) \/ SnapshotFails(c) \/ CountItem(c)
  <2>1. UNCHANGED <<items, writer, writing, log>>
    BY <1>2 DEF CheckStop, SnapshotFails, CountItem
  <2>2. Seen' = Seen  BY <2>1 DEF Seen
  <2>3. FileOrder'  BY <2>1 DEF FileOrder, EvidenceInOrder
  <2>4. \A d \in Callers \ {c} : calls'[d] = calls[d]  BY RecordStepKeepsFree
  <2>5. /\ ~Free(c)' => calls'[c].item = calls[c].item
        /\ calls'[c].at \in {"check", "put"} => calls[c].at = "check"
    BY <1>2 DEF CheckStop, SnapshotFails, CountItem, GoTo, Return, NoCall, Free, RecorderTypes
  <2>6. CallOrder'  BY <2>2, <2>4, <2>5 DEF CallOrder, Free
  <2> QED  BY <2>2, <2>3, <2>4, <2>5, <2>6 DEF Free
<1> QED  BY <1>1, <1>2 DEF RecordStep

(* The writer moves the head of the queue to the end of the file.          *)
LEMMA WriterOrder ==
  ASSUME RecorderTypes, FileOrder, CallOrder, Writer
  PROVE  FileOrder' /\ CallOrder' /\ Seen' \subseteq Seen \union {Session} /\ calls' = calls
<1>1. CASE TestLoop \/ GetEmpty
  <2>1. UNCHANGED <<items, writing, log, calls>> /\ writer \in {"test", "get"}
        /\ writer' \in {"test", "get", "ended"}
    BY <1>1 DEF TestLoop, GetEmpty
  <2>2. Seen' = Seen  BY <2>1 DEF Seen
  <2>3. FileOrder'  BY <2>1 DEF FileOrder, EvidenceInOrder
  <2> QED  BY <2>1, <2>2, <2>3 DEF CallOrder
<1>2. CASE GetItem
  <2>1. /\ writer = "get" /\ writer' = "write" /\ log' = log /\ calls' = calls
        /\ writing' = Head(items) /\ items' = Tail(items) /\ items # <<>>
    BY <1>2 DEF GetItem
  <2>2. items \in Seq(Entries)  BY DEF RecorderTypes
  <2>3. /\ Len(items) >= 1 /\ writing' = items[1] /\ Len(items) \in Nat
        /\ items' \in Seq(Entries) /\ Len(items') = Len(items) - 1
        /\ \A i \in 1..Len(items) - 1 : items'[i] = items[i + 1]
    BY <2>1, <2>2
  <2>4. DOMAIN items = 1..Len(items) /\ DOMAIN items' = 1..Len(items) - 1
    BY <2>2, <2>3
  <2>5. 1 \in DOMAIN items
        /\ \A i \in DOMAIN items' : i + 1 \in DOMAIN items /\ items'[i] = items[i + 1]
    BY <2>3, <2>4
  <2>6. Seen' \subseteq Seen  BY <2>1, <2>3, <2>5 DEF Seen
  <2>7. \A i, j \in DOMAIN items' : i < j => Precedes(items'[i], items'[j])
    <3> SUFFICES ASSUME NEW i \in DOMAIN items', NEW j \in DOMAIN items', i < j
                 PROVE  Precedes(items'[i], items'[j])
      OBVIOUS
    <3>1. i + 1 \in DOMAIN items /\ j + 1 \in DOMAIN items /\ i + 1 < j + 1
      BY <2>4, <2>5
    <3> QED  BY <2>5, <3>1 DEF FileOrder
  <2>8. \A i \in DOMAIN log, j \in DOMAIN items' : Precedes(log[i], items'[j])
    BY <2>5 DEF FileOrder
  <2>9. \A j \in DOMAIN items' : Precedes(writing', items'[j])
    <3> SUFFICES ASSUME NEW j \in DOMAIN items' PROVE Precedes(writing', items'[j])
      OBVIOUS
    <3>1. 1 < j + 1 /\ j + 1 \in DOMAIN items  BY <2>4, <2>5
    <3> QED  BY <2>3, <2>5, <3>1 DEF FileOrder
  <2>10. \A i \in DOMAIN log : Precedes(log[i], writing')
    BY <2>3, <2>5 DEF FileOrder
  <2>11. FileOrder'
    BY <2>1, <2>7, <2>8, <2>9, <2>10 DEF FileOrder, EvidenceInOrder
  <2> QED  BY <2>1, <2>6, <2>11 DEF CallOrder
<1>3. CASE WriteSession \/ WriteItem
  <2> DEFINE item == IF writer = "start" THEN Session ELSE writing
  <2>1. /\ writer \in {"start", "write"} /\ writer' = "test"
        /\ items' = items /\ calls' = calls
        /\ log' = Append(log, item) \/ log' = log
    BY <1>3 DEF WriteSession, WriteItem, WriteRow
  <2>2. item \in AllEntries /\ (writer = "write" => item = writing)
    BY <2>1 DEF RecorderTypes, AllEntries
  <2>3. \A j \in DOMAIN items : Precedes(item, items[j])
    <3>1. \A j \in DOMAIN items : items[j] \in Entries  BY DEF RecorderTypes
    <3> QED  BY <2>1, <3>1, SessionFirst DEF FileOrder
  <2>4. \A i \in DOMAIN log : Precedes(log[i], item)
    BY <2>1 DEF FileOrder
  <2>5. CASE log' = log
    <3>1. Seen' \subseteq Seen  BY <2>1, <2>5 DEF Seen
    <3>2. FileOrder'  BY <2>1, <2>5 DEF FileOrder, EvidenceInOrder
    <3> QED  BY <2>1, <3>1, <3>2 DEF CallOrder
  <2>6. CASE log' = Append(log, item)
    <3>1. /\ log \in Seq(AllEntries) /\ log' \in Seq(AllEntries)
          /\ Len(log) \in Nat /\ Len(log') = Len(log) + 1
          /\ \A i \in 1..Len(log) : log'[i] = log[i]
          /\ log'[Len(log) + 1] = item
      BY <2>2, <2>6 DEF RecorderTypes, AllEntries
    <3>2. DOMAIN log = 1..Len(log) /\ DOMAIN log' = 1..Len(log) + 1  BY <3>1
    <3>3. \A i, j \in DOMAIN log' : i < j => Precedes(log'[i], log'[j])
      <4> SUFFICES ASSUME NEW i \in DOMAIN log', NEW j \in DOMAIN log', i < j
                   PROVE  Precedes(log'[i], log'[j])
        OBVIOUS
      <4>1. i \in DOMAIN log  BY <3>1, <3>2
      <4>2. CASE j \in DOMAIN log
        BY <3>1, <3>2, <4>1, <4>2 DEF FileOrder, EvidenceInOrder
      <4>3. CASE j = Len(log) + 1  BY <2>4, <3>1, <3>2, <4>1, <4>3
      <4> QED  BY <3>2, <4>2, <4>3
    <3>4. \A i \in DOMAIN log', j \in DOMAIN items : Precedes(log'[i], items[j])
      BY <2>3, <3>1, <3>2 DEF FileOrder
    <3>5. FileOrder'  BY <2>1, <3>3, <3>4 DEF FileOrder, EvidenceInOrder
    <3>6. Seen' \subseteq Seen \union {Session}
      BY <2>1, <2>2, <3>1, <3>2 DEF Seen
    <3>7. \A c \in Callers : calls[c].at \in {"check", "put"} => Precedes(Session, calls[c].item)
      BY SessionFirst DEF RecorderTypes, NoCall
    <3>8. CallOrder'  BY <2>1, <3>6, <3>7 DEF CallOrder
    <3> QED  BY <2>1, <3>5, <3>6, <3>8
  <2> QED  BY <2>1, <2>5, <2>6
<1> QED  BY <1>1, <1>2, <1>3 DEF Writer

(* What was not ahead stays so, and so does what was recorded since.       *)
LEMMA NoneAheadAfter ==
  ASSUME \A e \in AllEntries : Known(e) => Known(e)',
         RecorderTypes, NoneAhead, NEW c \in Callers, NEW item, Known(item)',
         Seen' \subseteq Seen \union {item}, ~Free(c)' => calls'[c].item = item,
         \A d \in Callers \ {c} : Free(d)'
  PROVE  NoneAhead'
<1>1. \A x \in Seen' : Known(x)'  BY SeenTypes DEF NoneAhead
<1>2. \A d \in Callers : ~Free(d)' => d = c  OBVIOUS
<1>3. ASSUME NEW d \in Callers, ~Free(d)' PROVE Known(calls[d].item)'
  <2>1. d = c /\ calls'[d].item = item  BY <1>2, <1>3
  <2> QED  BY <2>1 DEF Known
<1> QED  BY <1>1, <1>3 DEF NoneAhead

LEMMA NoneAheadUnlessCalled ==
  ASSUME \A e \in AllEntries : Known(e) => Known(e)', Known(Session), Session \in AllEntries,
         RecorderTypes, NoneAhead, calls' = calls, Seen' \subseteq Seen \union {Session}
  PROVE  NoneAhead'
<1>1. \A x \in Seen' : Known(x)'  BY SeenTypes DEF NoneAhead
<1>2. ASSUME NEW d \in Callers, ~Free(d)' PROVE Known(calls[d].item)'
  <2>1. PICK e \in AllEntries : e = calls[d].item /\ Known(e)
    BY <1>2 DEF NoneAhead, RecorderTypes, NoCall, Free, AllEntries
  <2>2. Known(e)' /\ e = calls'[d].item  BY <2>1
  <2> QED  BY <2>2 DEF Known
<1> QED  BY <1>1, <1>2 DEF NoneAhead

LEMMA OrderStep ==
  ASSUME WorkerInv, WorkerInv', RecorderTypes, RecorderTypes', CallInv, OrderInv, [Next]_vars
  PROVE  OrderInv'
<1> USE ExchangeAssumption DEF OrderInv
<1>0. /\ \A e \in AllEntries : Known(e) => Known(e)'
      /\ Known(Session) /\ Session \in AllEntries
  <2>1. Known(Session)
    BY Stages, WorkerAssumption DEF Known, Session, WorkerInv, Reached
  <2> QED  BY <2>1, KnownGrows DEF AllEntries
<1>1. CASE Asked \/ Answering \/ Disposed
  <2>0. seq \in 1..MaxSeq
    BY <1>1, LatestIsPositive DEF Asked, Answering, Disposed, Idle, Queued, Working, Answered
  <2>1. PICK c \in Callers, event \in Events :
          /\ Record(c, [id |-> seq, event |-> event])
          /\ \/ Asked /\ c = "thread" /\ event = "request"
             \/ Answering /\ c = "thread" /\ event = "response"
             \/ Disposed /\ c = "loop" /\ event = "disposition"
    BY <1>1 DEF Asked, Answering, Disposed, Events
  <2> DEFINE item == [id |-> seq, event |-> event]
  <2>2. item \in Entries  BY <2>0 DEF Entries
  <2>3. \A d \in Callers \ {c} : Free(d)
    BY <2>1 DEF CallInv, Asked, Answering, Disposed, Idle, Queued, Working, Answered
  <2>4. seq' = seq
    BY <2>1, <1>1 DEF Next, Asked, Answering, Disposed, Idle, Queued, Working, Answered,
      LoopSubmit, Submit, LoopPoll, Poll, ClosePut, PutPoison, LoopClose, Join, Close, LoopRecords,
      RunWriter, Stopped, RunThread, Take, TakeRequest, InferAndRecord, Infer, InferHangs, Hang,
      Answer, PutResult, worker, vars
  <2>5. (\A x \in Seen : Precedes(x, item)) /\ Known(item)'
    BY <2>1, <2>4, NextIsAhead
  <2>6. /\ FileOrder' /\ CallOrder' /\ Seen' = Seen /\ calls'[c].item = item
        /\ \A d \in Callers \ {c} : Free(d)'
    BY <2>1, <2>2, <2>3, <2>5, RecordOrder
  <2>7. NoneAhead'
    <3>1. PICK e \in AllEntries : e = item  BY <2>2 DEF AllEntries
    <3>2. Known(e)'
      <4>1. e.id = seq' /\ e.event = event  BY <2>4, <3>1
      <4>2. Known([id |-> seq, event |-> event])' => Stage(event) <= Reached'
        BY <2>0, <2>4, WorkerAssumption DEF Known
      <4> QED  BY <2>5, <4>1, <4>2 DEF Known
    <3> QED  BY <1>0, <2>6, <3>1, <3>2, NoneAheadAfter
  <2> QED  BY <2>6, <2>7
<1>2. CASE \E c \in Callers : RecordStep(c)
  <2>1. PICK c \in Callers : RecordStep(c)  BY <1>2
  <2>2. ~Free(c)  BY <2>1, RecordStepKeepsFree
  <2>3. \A d \in Callers \ {c} : Free(d)  BY <2>2, OneCaller
  <2>4. /\ FileOrder' /\ CallOrder'
        /\ Seen' \subseteq Seen \union {calls[c].item}
        /\ ~Free(c)' => calls'[c].item = calls[c].item
        /\ \A d \in Callers \ {c} : Free(d)'
    BY <2>1, <2>3, RecordStepOrder
  <2>5. NoneAhead'
    <3>1. PICK e \in AllEntries : e = calls[c].item
      BY <2>2 DEF RecorderTypes, NoCall, Free, AllEntries
    <3>2. Known(e)'  BY <1>0, <2>2, <3>1 DEF NoneAhead
    <3> QED  BY <1>0, <2>4, <3>1, <3>2, NoneAheadAfter
  <2> QED  BY <2>4, <2>5
<1>3. CASE Writer
  <2>1. FileOrder' /\ CallOrder' /\ Seen' \subseteq Seen \union {Session} /\ calls' = calls
    BY <1>3, WriterOrder
  <2>2. NoneAhead'  BY <1>0, <2>1, NoneAheadUnlessCalled
  <2> QED  BY <2>1, <2>2
<1>4. CASE Close \/ UNCHANGED recorder
  <2>1. UNCHANGED <<items, calls, writer, writing, log>>
    BY <1>4 DEF Close, CloseRecorder, recorder
  <2>2. Seen' = Seen  BY <2>1 DEF Seen
  <2>3. FileOrder' /\ CallOrder'
    BY <2>1, <2>2 DEF FileOrder, EvidenceInOrder, CallOrder
  <2>4. NoneAhead'  BY <1>0, <2>1, <2>2, NoneAheadUnlessCalled
  <2> QED  BY <2>3, <2>4
<1> QED  BY <1>1, <1>2, <1>3, <1>4, RecorderCases
-----------------------------------------------------------------------------
CountInv == made \in Nat /\ Accounted(Cardinality(Inside))

(* At most one call is under way, so counting the calls is easy.           *)
LEMMA InsideCount ==
  ASSUME NEW c \in Callers, \A d \in Callers \ {c} : Free(d)
  PROVE  Cardinality(Inside) = IF calls[c].at \in {"check", "put"} THEN 1 ELSE 0
<1>1. Inside = IF calls[c].at \in {"check", "put"} THEN {c} ELSE {}
  BY DEF Inside, Free
<1> QED  BY <1>1, FS_EmptySet, FS_Singleton

LEMMA InsideIsFinite == Cardinality(Inside) \in Nat
<1>1. IsFiniteSet({"loop", "thread"})
  <2>1. IsFiniteSet({"loop"})  BY FS_Singleton
  <2>2. IsFiniteSet({"loop"} \union {"thread"})  BY <2>1, FS_AddElement
  <2>3. {"loop"} \union {"thread"} = {"loop", "thread"}  OBVIOUS
  <2> QED  BY <2>2, <2>3
<1>2. Inside \subseteq {"loop", "thread"}  BY ExchangeAssumption DEF Inside
<1> QED  BY <1>1, <1>2, FS_Subset, FS_CardinalityType

LEMMA InsideCountAfter ==
  ASSUME NEW c \in Callers, \A d \in Callers \ {c} : Free(d)'
  PROVE  Cardinality(Inside') = IF calls'[c].at \in {"check", "put"} THEN 1 ELSE 0
<1>1. Inside' = IF calls'[c].at \in {"check", "put"} THEN {c} ELSE {}
  BY DEF Inside, Free
<1> QED  BY <1>1, FS_EmptySet, FS_Singleton

LEMMA InHandIs ==
  ASSUME Len(items) \in Nat
  PROVE  /\ writer \in {"start", "write"} => InHand = Len(items) + 1
         /\ writer \notin {"start", "write"} => InHand = Len(items)
         /\ InHand = Len(items) + ((IF writer = "write" THEN 1 ELSE 0)
                                     + (IF writer = "start" THEN 1 ELSE 0))
<1>1. CASE writer = "write"  BY <1>1 DEF InHand
<1>2. CASE writer = "start"  BY <1>2 DEF InHand
<1>3. CASE writer # "start" /\ writer # "write"
  <2>1. InHand = Len(items) + 0 + 0  BY <1>3 DEF InHand
  <2> QED  BY <1>3, <2>1
<1> QED  BY <1>1, <1>2, <1>3

LEMMA InHandIsAfter ==
  ASSUME Len(items') \in Nat
  PROVE  /\ writer' \notin {"start", "write"} => InHand' = Len(items')
         /\ InHand' = Len(items') + ((IF writer' = "write" THEN 1 ELSE 0)
                                       + (IF writer' = "start" THEN 1 ELSE 0))
<1>1. CASE writer' = "write"  BY <1>1 DEF InHand
<1>2. CASE writer' = "start"  BY <1>2 DEF InHand
<1>3. CASE writer' # "start" /\ writer' # "write"
  <2>1. InHand' = Len(items') + 0 + 0  BY <1>3 DEF InHand
  <2> QED  BY <1>3, <2>1
<1> QED  BY <1>1, <1>2, <1>3

LEMMA Regroup ==
  ASSUME NEW w \in Nat, NEW d \in Nat, NEW e \in Nat, NEW l \in Nat, NEW h \in Nat
  PROVE  w + d + e + (l + h) + 1 = w + (d + e + 1) + (l + h) + 0
BY SMT

LEMMA CountRecordStep ==
  ASSUME RecorderTypes, CountInv, NEW c \in Callers, RecordStep(c),
         \A d \in Callers \ {c} : Free(d)
  PROVE  CountInv'
<1> DEFINE inside == IF calls[c].at \in {"check", "put"} THEN 1 ELSE 0
           insideAfter == IF calls'[c].at \in {"check", "put"} THEN 1 ELSE 0
<1>1. \A d \in Callers \ {c} : Free(d)'  BY RecordStepKeepsFree DEF Free
<1>2. Cardinality(Inside) = inside /\ Cardinality(Inside)' = insideAfter
  BY <1>1, InsideCount, InsideCountAfter
<1>3. UNCHANGED <<writer, made>>
  BY DEF RecordStep, CheckStop, SnapshotFails, PutItem, CountItem
<1>4. stats.written \in Nat /\ stats.dropped \in Nat /\ stats.errors \in Nat /\ Len(items) \in Nat
  BY DEF RecorderTypes
<1>5. \/ /\ inside = 1 /\ insideAfter = 0 /\ items' = items /\ stats'.written = stats.written
         /\ stats'.dropped + stats'.errors = stats.dropped + stats.errors + 1
         /\ stats'.dropped \in Nat /\ stats'.errors \in Nat
      \/ /\ stats'.written = stats.written
         /\ stats'.dropped = stats.dropped /\ stats'.errors = stats.errors
         /\ insideAfter + Len(items') = inside + Len(items)
  <2>0. ASSUME NEW field \in {"dropped", "errors"}, Count(field), Return(c), items' = items,
               calls[c].at \in {"check", "put"}
        PROVE  /\ inside = 1 /\ insideAfter = 0 /\ stats'.written = stats.written
               /\ stats'.dropped + stats'.errors = stats.dropped + stats.errors + 1
               /\ stats'.dropped \in Nat /\ stats'.errors \in Nat
    <3>1. calls'[c].at = "none"  BY <2>0 DEF Return, NoCall, RecorderTypes
    <3>2. stats'.written = stats.written
          /\ \/ stats'.dropped = stats.dropped + 1 /\ stats'.errors = stats.errors
             \/ stats'.dropped = stats.dropped /\ stats'.errors = stats.errors + 1
      <4>1. CASE field = "dropped"  BY <2>0, <4>1 DEF Count, RecorderTypes
      <4>2. CASE field = "errors"  BY <2>0, <4>2 DEF Count, RecorderTypes
      <4> QED  BY <4>1, <4>2
    <3>3. inside = 1 /\ insideAfter = 0  BY <2>0, <3>1
    <3> HIDE DEF inside, insideAfter
    <3> QED  BY <1>4, <3>2, <3>3
  <2>1. CASE CheckStop(c)
    <3>1. CASE stopping  BY <2>0, <2>1, <3>1 DEF CheckStop
    <3>2. CASE ~stopping
      <4>1. GoTo(c, "put") /\ UNCHANGED <<stats, items>> /\ calls[c].at = "check"
        BY <2>1, <3>2 DEF CheckStop
      <4>2. inside = 1 /\ insideAfter = 1  BY <4>1 DEF GoTo, RecorderTypes, NoCall
      <4> QED  BY <4>1, <4>2
    <3> QED  BY <3>1, <3>2
  <2>2. CASE SnapshotFails(c)
    BY <2>0, <2>2 DEF SnapshotFails
  <2>3. CASE PutItem(c)
    <3>1. CASE Len(items) < LogQueueSize
      <4>1. items' = Append(items, calls[c].item) /\ GoTo(c, "count") /\ UNCHANGED stats
        BY <2>3, <3>1 DEF PutItem
      <4>2. inside = 1 /\ insideAfter = 0
        BY <2>3, <4>1 DEF PutItem, GoTo, RecorderTypes
      <4>3. calls[c].item \in Entries  BY <2>3 DEF PutItem, RecorderTypes, NoCall
      <4>4. Len(items') = Len(items) + 1  BY <4>1, <4>3 DEF RecorderTypes
      <4> QED  BY <1>4, <4>1, <4>2, <4>4
    <3>2. CASE ~(Len(items) < LogQueueSize)
      BY <2>0, <2>3, <3>2 DEF PutItem
    <3> QED  BY <3>1, <3>2
  <2>4. CASE CountItem(c)
    BY <1>4, <2>4 DEF CountItem, Count, Return, NoCall, RecorderTypes
  <2> QED  BY <2>1, <2>2, <2>3, <2>4 DEF RecordStep
<1> HIDE DEF inside, insideAfter
<1>6. inside \in Nat /\ insideAfter \in Nat  BY DEF inside, insideAfter
<1>7. Len(items') \in Nat  BY RecordStepTypes DEF RecorderTypes
<1>8. made + 1 = stats.written + stats.dropped + stats.errors + InHand + inside
  BY <1>2 DEF CountInv, Accounted
<1>9. made' + 1 = stats'.written + stats'.dropped + stats'.errors + InHand' + insideAfter
  <2> DEFINE hand == (IF writer = "write" THEN 1 ELSE 0) + (IF writer = "start" THEN 1 ELSE 0)
  <2>1. hand \in Nat  OBVIOUS
  <2>2. InHand = Len(items) + hand /\ InHand' = Len(items') + hand
    BY <1>3, <1>4, <1>7, InHandIs, InHandIsAfter
  <2> HIDE DEF hand
  <2>3. made \in Nat  BY DEF CountInv
  <2>4. made + 1 = stats.written + stats.dropped + stats.errors + (Len(items) + hand) + inside
    BY <1>8, <2>2
  <2>5. CASE /\ inside = 1 /\ insideAfter = 0 /\ items' = items /\ stats'.written = stats.written
             /\ stats'.dropped + stats'.errors = stats.dropped + stats.errors + 1
             /\ stats'.dropped \in Nat /\ stats'.errors \in Nat
    <3>1. made + 1 = stats.written + (stats.dropped + stats.errors + 1) + (Len(items) + hand) + 0
      BY <1>4, <2>1, <2>3, <2>4, <2>5, Regroup
    <3>2. made + 1 = stats.written + (stats'.dropped + stats'.errors) + (Len(items) + hand) + 0
      BY <2>5, <3>1
    <3> QED  BY <1>3, <1>4, <2>1, <2>2, <2>5, <3>2
  <2>6. CASE /\ stats'.written = stats.written
             /\ stats'.dropped = stats.dropped /\ stats'.errors = stats.errors
             /\ insideAfter + Len(items') = inside + Len(items)
    <3> DEFINE told == stats.written + stats.dropped + stats.errors
    <3>1. told \in Nat /\ made + 1 = told + (Len(items) + hand) + inside  BY <1>4, <2>4
    <3> HIDE DEF told
    <3>2. made + 1 = told + (Len(items') + hand) + insideAfter
      BY <1>4, <1>6, <1>7, <2>1, <2>3, <2>6, <3>1
    <3> QED  BY <1>3, <2>2, <2>6, <3>2 DEF told
  <2> QED  BY <1>5, <2>5, <2>6
<1> QED  BY <1>2, <1>3, <1>9 DEF CountInv, Accounted

LEMMA CountWriter ==
  ASSUME RecorderTypes, CountInv, Writer
  PROVE  CountInv'
<1>1. made' = made /\ Inside' = Inside
  BY DEF Writer, WriteSession, WriteRow, TestLoop, GetItem, GetEmpty, WriteItem, Inside
<1>2. stats.written \in Nat /\ stats.dropped \in Nat /\ stats.errors \in Nat /\ Len(items) \in Nat
  BY DEF RecorderTypes
<1>3. CASE WriteSession \/ WriteItem
  <2>1. UNCHANGED items /\ InHand = Len(items) + 1 /\ InHand' = Len(items)
    <3>1. items' = items /\ writer' = "test" /\ writer \in {"start", "write"}
      BY <1>3 DEF WriteSession, WriteItem, WriteRow
    <3> QED  BY <1>2, <3>1, InHandIs, InHandIsAfter
  <2>2. /\ stats'.written \in Nat /\ stats'.errors \in Nat /\ stats'.dropped = stats.dropped
        /\ stats'.written + stats'.errors = stats.written + stats.errors + 1
    <3>1. Count("written") \/ Count("errors")  BY <1>3 DEF WriteSession, WriteItem, WriteRow
    <3> QED  BY <1>2, <3>1 DEF Count, RecorderTypes
  <2>3. Cardinality(Inside)' = Cardinality(Inside)  BY <1>1
  <2>4. made \in Nat
        /\ made + 1 = stats.written + stats.dropped + stats.errors + InHand + Cardinality(Inside)
    BY DEF CountInv, Accounted
  <2>5. made' + 1 = stats'.written + stats'.dropped + stats'.errors + InHand' + Cardinality(Inside)
    <3> DEFINE count == Cardinality(Inside)
    <3>1. count \in Nat  BY InsideIsFinite
    <3>2. made + 1 = stats.written + stats.dropped + stats.errors + (Len(items) + 1) + count
      BY <2>1, <2>4
    <3> HIDE DEF count
    <3>3. made + 1 = (stats.written + stats.errors + 1) + stats.dropped + Len(items) + count
      BY <1>2, <2>4, <3>1, <3>2
    <3>4. made + 1 = (stats'.written + stats'.errors) + stats'.dropped + Len(items) + count
      BY <2>2, <3>3
    <3>5. made + 1 = stats'.written + stats'.dropped + stats'.errors + Len(items) + count
      BY <1>2, <2>2, <3>1, <3>4
    <3> QED  BY <1>1, <2>1, <3>5 DEF count
  <2> QED  BY <1>1, <2>3, <2>4, <2>5 DEF CountInv, Accounted
<1>4. CASE TestLoop \/ GetEmpty
  <2>1. InHand' = InHand /\ stats' = stats  BY <1>4 DEF TestLoop, GetEmpty, InHand
  <2> QED  BY <1>1, <2>1 DEF CountInv, Accounted
<1>5. CASE GetItem
  <2>1. Len(Tail(items)) = Len(items) - 1  BY <1>5 DEF GetItem, RecorderTypes
  <2>2. InHand' = InHand /\ stats' = stats  BY <1>2, <1>5, <2>1 DEF GetItem, InHand
  <2> QED  BY <1>1, <2>2 DEF CountInv, Accounted
<1> QED  BY <1>3, <1>4, <1>5 DEF Writer

LEMMA CountRecord ==
  ASSUME RecorderTypes, CountInv, NEW c \in Callers, NEW item, Record(c, item),
         \A d \in Callers : Free(d)
  PROVE  CountInv'
<1>1. \A d \in Callers \ {c} : Free(d)'  BY RecordKeepsFree DEF Free
<1>2. calls[c].at = "none" /\ calls'[c].at = "check"
  BY DEF Record, RecorderTypes, Free
<1>3. Cardinality(Inside) = 0  BY <1>2, InsideCount
<1>4. Cardinality(Inside)' = 1  BY <1>1, <1>2, InsideCountAfter
<1>5. made' = made + 1 /\ UNCHANGED <<items, stats, writer>>  BY DEF Record
<1>6. InHand' = InHand /\ InHand \in Nat
  <2>1. InHand' = InHand  BY <1>5 DEF InHand
  <2>2. Len(items) \in Nat  BY DEF RecorderTypes
  <2>3. InHand \in Nat
    <3>1. CASE writer \in {"start", "write"}  BY <2>2, <3>1, InHandIs
    <3>2. CASE writer \notin {"start", "write"}  BY <2>2, <3>2, InHandIs
    <3> QED  BY <3>1, <3>2
  <2> QED  BY <2>1, <2>3
<1>7. stats.written \in Nat /\ stats.dropped \in Nat /\ stats.errors \in Nat
  BY DEF RecorderTypes
<1>8. made + 1 = stats.written + stats.dropped + stats.errors + InHand + 0
  BY <1>3 DEF CountInv, Accounted
<1>9. made' + 1 = stats.written + stats.dropped + stats.errors + InHand + 1
  BY <1>5, <1>6, <1>7, <1>8 DEF CountInv
<1> QED  BY <1>4, <1>5, <1>6, <1>9 DEF CountInv, Accounted

LEMMA CountStep ==
  ASSUME WorkerInv, RecorderTypes, CallInv, CountInv, [Next]_vars
  PROVE  CountInv'
<1> USE ExchangeAssumption
<1>1. CASE Asked \/ Answering \/ Disposed
  <2>1. \E c \in Callers : \E item : Record(c, item)
    BY <1>1 DEF Asked, Answering, Disposed
  <2>2. \A d \in Callers : Free(d)
    BY <1>1 DEF CallInv, Asked, Answering, Disposed, Idle, Queued, Working, Answered
  <2> QED  BY <2>1, <2>2, CountRecord
<1>2. CASE \E c \in Callers : RecordStep(c)
  <2>1. PICK c \in Callers : RecordStep(c)  BY <1>2
  <2>2. \A d \in Callers \ {c} : Free(d)  BY <2>1, RecordStepKeepsFree, OneCaller
  <2> QED  BY <2>1, <2>2, CountRecordStep
<1>3. CASE Writer  BY <1>3, CountWriter
<1>4. CASE Close \/ UNCHANGED recorder
  BY <1>4 DEF Close, CloseRecorder, recorder, CountInv, Accounted, InHand, Inside
<1> QED  BY <1>1, <1>2, <1>3, <1>4, RecorderCases
-----------------------------------------------------------------------------
(* The writer ends on an empty queue after close(), and nobody puts        *)
(* anything behind it: the inference thread, when it was joined, has       *)
(* returned, and the loop left before it closed.                           *)
EndInv ==
  /\ stopping => closing = "closed"
  /\ closing \in {"joined", "closed"} /\ ~late => thread = "returned"
  /\ writer = "ended" => stopping
  /\ writer = "ended" /\ ~late => items = <<>>

LEMMA EndedMeansFree ==
  ASSUME WorkerInv, CallInv, EndInv, writer = "ended", ~late
  PROVE  \A c \in Callers : Free(c)
<1>1. closing = "closed" /\ thread = "returned"  BY DEF EndInv
<1> QED  BY <1>1, ExchangeAssumption DEF CallInv, Working

LEMMA EndStep ==
  ASSUME WorkerInv, RecorderTypes, CallInv, EndInv, [Next]_vars
  PROVE  EndInv'
<1>1. thread = "returned" => thread' = "returned"
  BY DEF Next, LoopSubmit, Submit, LoopPoll, Poll, ClosePut, PutPoison, LoopClose, Join, Close,
    LoopRecords, RunWriter, Stopped, RunThread, Take, TakeRequest, InferAndRecord, Infer,
    InferHangs, Hang, Answer, PutResult, worker, vars
<1>2. CASE LoopSubmit \/ LoopClose \/ ClosePut \/ Join \/ Stopped \/ UNCHANGED vars
  <2>1. UNCHANGED <<stopping, writer, items>>
    BY <1>2 DEF LoopSubmit, LoopClose, ClosePut, Join, Stopped, vars, recorder
  <2>2. CASE LoopSubmit \/ Stopped \/ UNCHANGED vars
    <3>1. UNCHANGED <<closing, late>>
      BY <2>2 DEF LoopSubmit, Stopped, vars
    <3> QED  BY <1>1, <2>1, <3>1 DEF EndInv
  <2>3. CASE LoopClose \/ ClosePut
    <3>1. closing \notin {"joined", "closed"} /\ closing' \notin {"joined", "closed"}
      BY <2>3 DEF LoopClose, LoopFree, ClosePut
    <3> QED  BY <2>1, <3>1 DEF EndInv
  <2>4. CASE Join
    <3>1. closing = "joining" /\ closing' = "joined" /\ late' = (thread # "returned")
          /\ thread' = thread
      BY <2>4 DEF Join, worker
    <3>2. ~stopping /\ writer # "ended"  BY <3>1 DEF EndInv
    <3> QED  BY <2>1, <3>1, <3>2 DEF EndInv
  <2> QED  BY <1>2, <2>2, <2>3, <2>4
<1>3. CASE Close
  BY <1>3 DEF EndInv, Close, CloseRecorder, worker
<1>4. CASE LoopPoll
  <2>1. closing = "no" /\ UNCHANGED <<closing, late, stopping, writer, items>>
    BY <1>4 DEF LoopPoll, LoopFree, Record
  <2> QED  BY <2>1 DEF EndInv
<1>5. CASE RunThread /\ (Take \/ InferAndRecord \/ InferHangs \/ Answer)
  <2>1. UNCHANGED <<closing, late, stopping, writer, items>>
    BY <1>5 DEF RunThread, Take, InferAndRecord, InferHangs, Answer, Record, recorder
  <2> QED  BY <1>1, <2>1 DEF EndInv
<1>6. CASE \E c \in Callers : RecordStep(c) /\ UNCHANGED <<worker, closing, late>>
  <2>1. ~(writer = "ended" /\ ~late)
    BY <1>6, RecordStepKeepsFree, EndedMeansFree
  <2>2. UNCHANGED <<stopping, writer>>
    BY <1>6 DEF RecordStep, CheckStop, SnapshotFails, PutItem, CountItem
  <2> QED  BY <1>6, <2>1, <2>2 DEF EndInv, worker
<1>7. CASE RunWriter
  <2>1. UNCHANGED <<stopping, thread, closing, late>> /\ writer # "ended"
    BY <1>7 DEF RunWriter, worker, Writer, WriteSession, WriteRow, TestLoop, GetItem, GetEmpty, WriteItem
  <2>2. writer' = "ended" => stopping /\ items' = <<>>
    BY <1>7 DEF RunWriter, Writer, WriteSession, WriteRow, TestLoop, GetItem, GetEmpty, WriteItem
  <2> QED  BY <2>1, <2>2 DEF EndInv
<1> QED
  BY <1>2, <1>3, <1>4, <1>5, <1>6, <1>7, ExchangeAssumption DEF Next, RunThread, LoopRecords
-----------------------------------------------------------------------------
ExchangeInv ==
  /\ WorkerInv
  /\ RecorderTypes
  /\ CallInv
  /\ OrderInv
  /\ CountInv
  /\ EndInv

LEMMA ExchangeInitial == Init => ExchangeInv
<1> SUFFICES ASSUME Init PROVE ExchangeInv
  OBVIOUS
<1>1. /\ items = <<>> /\ stopping = FALSE
      /\ stats = [enqueued |-> 0, written |-> 0, dropped |-> 0, errors |-> 0]
      /\ calls = [c \in Callers |-> NoCall]
      /\ writer = "start" /\ writing = NoItem /\ log = <<>> /\ made = 0
      /\ closing = "no" /\ late = FALSE
  BY DEF Init, RecorderInit
<1>2. \A c \in Callers : Free(c)  BY <1>1 DEF Free, NoCall
<1>3. RecorderTypes
  <2>1. <<>> \in Seq(Entries) /\ Len(<<>>) = 0 /\ <<>> \in Seq(Entries \union {Session})
    OBVIOUS
  <2> QED  BY <1>1, <2>1, RecorderAssumption, ExchangeAssumption DEF RecorderTypes
<1>4. Seen = {}  BY <1>1 DEF Seen
<1>5. OrderInv
  BY <1>1, <1>2, <1>4 DEF OrderInv, FileOrder, EvidenceInOrder, CallOrder, NoneAhead
<1>6. CountInv
  <2>1. Inside = {}  BY <1>2 DEF Inside, Free
  <2>2. InHand = 1  BY <1>1, InHandIs
  <2> QED  BY <1>1, <2>1, <2>2, FS_EmptySet DEF CountInv, Accounted
<1>7. CallInv  BY <1>2, ExchangeAssumption DEF CallInv
<1>8. EndInv  BY <1>1 DEF EndInv
<1> QED  BY <1>3, <1>5, <1>6, <1>7, <1>8, WorkerInitial DEF ExchangeInv

LEMMA ExchangeStep == ExchangeInv /\ [Next]_vars => ExchangeInv'
<1> SUFFICES ASSUME ExchangeInv, [Next]_vars PROVE ExchangeInv'
  OBVIOUS
<1> USE DEF ExchangeInv
<1>1. WorkerInv'  BY WorkerStep
<1>2. RecorderTypes'  BY TypesStep
<1> QED  BY <1>1, <1>2, CallStep, OrderStep, CountStep, EndStep

LEMMA ExchangeInvariant == Spec => []ExchangeInv
BY ExchangeInitial, ExchangeStep, PTL DEF Spec

(* The worker and the recorder keep their types (worker.py:26-36,          *)
(* policy_logging.py:55-72), for every number of requests and every length *)
(* of the log queue.                                                       *)
THEOREM TypesKept == Spec => []ExchangeTypeOK
<1>1. ExchangeInv => ExchangeTypeOK
  BY PhasesAreTypes DEF ExchangeInv, ExchangeTypeOK, RecorderTypes, WorkerInv
<1> QED  BY <1>1, ExchangeInvariant, PTL

(* _busy is set exactly while one request is between submit and poll, and  *)
(* it is the latest one: no answer to an older request can be polled       *)
(* (worker.py:38-60).                                                      *)
THEOREM OneInFlight == Spec => []BusyMeansOneInFlight
BY PhasesAreOneInFlight, ExchangeInvariant, PTL DEF ExchangeInv

(* The two threads that record never mix up the exchanges in the file      *)
(* (worker.py:72-96, policy_logging.py:83-132).                            *)
THEOREM EvidenceOrdered == Spec => []EvidenceInOrder
BY ExchangeInvariant, PTL DEF ExchangeInv, OrderInv, FileOrder

(* Every call of record ends up in the file or in a counter, and after a   *)
(* join that succeeded the writer leaves nothing behind                    *)
(* (policy_logging.py:51,152).                                             *)
THEOREM EvidenceKept == Spec => []NothingLost
<1>1. ExchangeInv => NothingLost
  BY DEF ExchangeInv, CountInv, EndInv, NothingLost
<1> QED  BY <1>1, ExchangeInvariant, PTL
=============================================================================
