--------------------------- MODULE PolicyExchange ---------------------------
(***************************************************************************)
(* The inference thread, the recorder that files what it asks and what it  *)
(* is answered, and a control loop that submits, polls and files what      *)
(* became of each answer, in any order until it closes both               *)
(* (task487_client.py:900-907: the worker first).                          *)
(***************************************************************************)
EXTENDS InferenceWorker, PolicyRecorder

Events == {"request", "response", "disposition"}
Entries == [id : 1..MaxSeq, event : Events]

ASSUME ExchangeAssumption ==
  /\ Callers = {"loop", "thread"}
  /\ NoItem \notin Entries

VARIABLES
  closing,  \* how far the two close() are: "no", "putting", "joining", "joined", "closed"
  late      \* the join gave up with the inference thread still at work

vars == <<worker, recorder, closing, late>>

LoopFree == closing = "no" /\ Free("loop")
Entry(request, event) == [id |-> request.id, event |-> event]

Init == WorkerInit /\ RecorderInit /\ closing = "no" /\ late = FALSE

LoopSubmit ==
  /\ LoopFree
  /\ \E round \in Rounds : Submit(round)
  /\ UNCHANGED <<recorder, closing, late>>

(* poll, and the record_disposition in which each branch that handles the  *)
(* answer results.                                                         *)
LoopPoll ==
  /\ LoopFree
  /\ Poll
  /\ Record("loop", Entry(Head(results).request, "disposition"))
  /\ UNCHANGED <<closing, late>>

LoopClose ==
  /\ LoopFree
  /\ closing' = "putting"
  /\ UNCHANGED <<worker, recorder, late>>

ClosePut ==
  /\ closing = "putting"
  /\ PutPoison
  /\ closing' = "joining"
  /\ UNCHANGED <<recorder, late>>

(* The thread has returned, or two seconds are over. *)
Join ==
  /\ closing = "joining"
  /\ closing' = "joined" /\ late' = (thread # "returned")
  /\ UNCHANGED <<worker, recorder>>

Close ==
  /\ closing = "joined"
  /\ CloseRecorder
  /\ closing' = "closed"
  /\ UNCHANGED <<worker, late>>

LoopRecords == RecordStep("loop") /\ UNCHANGED <<worker, closing, late>>
-----------------------------------------------------------------------------
(* _run of the worker, with its two calls of record.                       *)
Take ==
  /\ TakeRequest
  /\ IF Head(requests) = None THEN UNCHANGED recorder
     ELSE Record("thread", Entry(Head(requests), "request"))

InferAndRecord == Free("thread") /\ Infer /\ Record("thread", Entry(job, "response"))

InferHangs == Free("thread") /\ Hang /\ UNCHANGED recorder

(* A mutant: the answer is put while the call of record is still open.     *)
AnswerAtOnce == PutResult /\ UNCHANGED recorder

Answer == Free("thread") /\ PutResult /\ UNCHANGED recorder

RunThread ==
  /\ Take \/ InferAndRecord \/ InferHangs \/ Answer
     \/ (RecordStep("thread") /\ UNCHANGED worker)
  /\ UNCHANGED <<closing, late>>

RunWriter == Writer /\ UNCHANGED <<worker, closing, late>>

(* Everything has stopped; a hung daemon thread may stay.                  *)
Stopped ==
  /\ closing = "closed" /\ writer = "ended"
  /\ thread \in {"returned", "hung"}
  /\ UNCHANGED vars

Next ==
  \/ LoopSubmit \/ LoopPoll \/ LoopClose \/ ClosePut \/ Join \/ Close \/ LoopRecords
  \/ RunThread \/ RunWriter \/ Stopped

Spec == Init /\ [][Next]_vars

(* The three threads run whenever they can; nothing makes the loop submit, *)
(* poll or close, but a close() it has begun goes on.                      *)
FairSpec ==
  /\ Spec
  /\ WF_vars(RunThread) /\ WF_vars(RunWriter) /\ WF_vars(LoopRecords)
  /\ WF_vars(ClosePut) /\ WF_vars(Join) /\ WF_vars(Close)
-----------------------------------------------------------------------------
(* Types of the worker and of the recorder, and what a thread may be doing *)
(* while it is inside record (policy_logging.py:55-72,83-95).              *)
ExchangeTypeOK ==
  /\ WorkerTypeOK
  /\ items \in Seq(Entries) /\ Len(items) <= LogQueueSize
  /\ stats \in [{"enqueued", "written", "dropped", "errors"} -> Nat]
  /\ calls \in [Callers -> [at : {"check", "put", "count"}, item : Entries] \union {NoCall}]
  /\ writer \in {"start", "test", "get", "write", "ended"}
  /\ writer = "write" <=> writing \in Entries
  /\ log \in Seq(Entries \union {Session})
  /\ closing \in {"no", "putting", "joining", "joined", "closed"}

(* A request accepted before close() is answered, whatever infer raises    *)
(* and however the recorder fares, unless infer never returns; and the two *)
(* close() come to an end even then, with the writer gone.                 *)
EveryRequestAnswered ==
  /\ busy /\ closing = "no" ~> results # <<>> \/ closing # "no" \/ thread = "hung"
  /\ closing = "putting" ~> closing = "closed" /\ writer = "ended"

(* The file tells the exchanges in the order they happened, although two   *)
(* threads write into it and the answer crosses from one to the other:     *)
(* request n, its response, what became of it, request n + 1, each at most *)
(* once (worker.py:72-95, policy_logging.py:83-132).                       *)
Stage(event) == CASE event = "session" -> 0 [] event = "request" -> 1
                  [] event = "response" -> 2 [] event = "disposition" -> 3

Precedes(a, b) == a.id < b.id \/ (a.id = b.id /\ Stage(a.event) < Stage(b.event))

EvidenceInOrder ==
  \A i, j \in DOMAIN log : i < j => Precedes(log[i], log[j])

(* Nothing disappears: every call of record ends up in the file or in a    *)
(* counter, and when the inference thread was joined the writer leaves no  *)
(* item behind; after a join that gave up it may, which the code says when *)
(* it warns that the response log may be incomplete                        *)
(* (policy_logging.py:51,152, worker.py:100-102).                          *)
Inside == {c \in Callers : calls[c].at \in {"check", "put"}}

NothingLost ==
  /\ Accounted(Cardinality(Inside))
  /\ writer = "ended" /\ ~late => items = <<>>
=============================================================================
