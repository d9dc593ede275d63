--------------------------- MODULE InferenceWorker ---------------------------
(***************************************************************************)
(* task487_runtime/worker.py: a daemon thread that answers one policy      *)
(* request at a time.  The control loop submits, polls and closes; two     *)
(* queue.Queue(maxsize=1) and the Event _busy connect it to the thread.    *)
(* A request is its request_id and the round that asked; a result is the   *)
(* request with an outcome, the targets being left to the scheduler.       *)
(***************************************************************************)
EXTENDS Integers, Sequences, FiniteSets

CONSTANTS
  Rounds,    \* what a request carries to be recognised by: its round_id
  MaxSeq,    \* bound on the number of requests of one worker
  None

ASSUME WorkerAssumption ==
  /\ Rounds # {} /\ MaxSeq \in Nat
  /\ None \notin [id : Nat, round : Rounds]

VARIABLES
  requests,  \* _requests: at most one request, or the poison None
  results,   \* _results: at most one result
  busy,      \* _busy
  seq,       \* _sequence
  thread,    \* where _run is: at get, in infer, hung in infer, at put, or returned
  job        \* the local variable request of _run

worker == <<requests, results, busy, seq, thread, job>>

QueueSize == 1
Request == [id : 1..MaxSeq, round : Rounds]
Outcomes == {"targets", "error"}
-----------------------------------------------------------------------------
WorkerInit ==
  /\ requests = <<>> /\ results = <<>>
  /\ busy = FALSE
  /\ seq = 0
  /\ thread = "get" /\ job = None

(* submit: refuses while an answer is outstanding; put_nowait raises Full  *)
(* when the request queue has no room, and busy is cleared again.          *)
Submit(round) ==
  /\ ~busy
  /\ seq < MaxSeq
  /\ seq' = seq + 1
  /\ IF Len(requests) < QueueSize
     THEN /\ requests' = Append(requests, [id |-> seq + 1, round |-> round])
          /\ busy' = TRUE
     ELSE UNCHANGED <<requests, busy>>
  /\ UNCHANGED <<results, thread, job>>

(* poll on a result; on an empty queue it returns None and changes nothing.*)
Poll ==
  /\ results # <<>>
  /\ results' = Tail(results)
  /\ busy' = FALSE
  /\ UNCHANGED <<requests, seq, thread, job>>

PutPoisonNow ==  \* mutant: the put does not wait for room
  /\ requests' = Append(requests, None)
  /\ UNCHANGED <<results, busy, seq, thread, job>>

(* close: the blocking put of the poison; the join that follows gives up   *)
(* after two seconds.                                                      *)
PutPoison ==
  /\ Len(requests) < QueueSize
  /\ requests' = Append(requests, None)
  /\ UNCHANGED <<results, busy, seq, thread, job>>
-----------------------------------------------------------------------------
TakeAndRelease ==  \* mutant: _busy is cleared when the thread takes the request
  /\ thread = "get"
  /\ requests # <<>>
  /\ requests' = Tail(requests)
  /\ job' = Head(requests)
  /\ thread' = IF Head(requests) = None THEN "returned" ELSE "infer"
  /\ busy' = FALSE
  /\ UNCHANGED <<results, seq>>

(* _run *)
TakeRequest ==
  /\ thread = "get"
  /\ requests # <<>>
  /\ requests' = Tail(requests)
  /\ job' = Head(requests)
  /\ thread' = IF Head(requests) = None THEN "returned" ELSE "infer"
  /\ UNCHANGED <<results, busy, seq>>

InferUncaught ==  \* mutant: an exception of infer ends the thread
  /\ thread = "infer"
  /\ thread' \in {"put", "returned"}
  /\ UNCHANGED <<requests, results, busy, seq, job>>

(* infer returns or raises; every Exception becomes part of the result.    *)
Infer ==
  /\ thread = "infer"
  /\ thread' = "put"
  /\ UNCHANGED <<requests, results, busy, seq, job>>

(* The call has no timeout: it may never return.                           *)
Hang ==
  /\ thread = "infer"
  /\ thread' = "hung"
  /\ UNCHANGED <<requests, results, busy, seq, job>>

PutResult ==
  /\ thread = "put"
  /\ Len(results) < QueueSize
  /\ \E outcome \in Outcomes :
       results' = Append(results, [request |-> job, outcome |-> outcome])
  /\ job' = None
  /\ thread' = "get"
  /\ UNCHANGED <<requests, busy, seq>>

ThreadStep == TakeRequest \/ Infer \/ Hang \/ PutResult
-----------------------------------------------------------------------------
(* Types of worker.py:26-36 and of the local variables of _run.            *)
WorkerTypeOK ==
  /\ requests \in UNION {[1..n -> Request \union {None}] : n \in 0..QueueSize}
  /\ results \in UNION {[1..n -> [request : Request, outcome : Outcomes]] : n \in 0..QueueSize}
  /\ busy \in BOOLEAN
  /\ seq \in 0..MaxSeq
  /\ thread \in {"get", "infer", "hung", "put", "returned"}
  /\ job \in Request \union {None}

(* The requests somewhere between submit and poll: queued, in the thread,  *)
(* or answered and not yet polled.                                         *)
InFlight ==
  {r \in Request : \/ \E i \in DOMAIN requests : requests[i] = r
                   \/ job = r
                   \/ \E i \in DOMAIN results : results[i].request = r}

(* _busy, which is set and cleared apart from the queues, is true exactly  *)
(* while one request is between submit and poll, and that request is the   *)
(* latest one: no answer to an older request can be polled.                *)
BusyMeansOneInFlight ==
  IF busy THEN \E r \in Request : r.id = seq /\ InFlight = {r}
          ELSE InFlight = {}
=============================================================================
