--------------------------- MODULE PolicyRecorder ---------------------------
(***************************************************************************)
(* task487_runtime/policy_logging.py: the evidence of every exchange with  *)
(* the policy.  record is called by the control loop and by the inference  *)
(* thread, must never wait for the disk, and hands its item to a writer    *)
(* thread through a queue; what is not written is counted.  An item is the *)
(* event and the request it is about; the arrays, the image budget and the *)
(* status file are left out.                                               *)
(***************************************************************************)
EXTENDS Integers, Sequences

CONSTANTS
  Callers,       \* the threads that call record
  LogQueueSize,  \* queue_size
  NoItem

ASSUME RecorderAssumption == LogQueueSize \in Nat \ {0}

VARIABLES
  items,     \* _queue
  stopping,  \* _stop
  stats,     \* _stats: enqueued, written, dropped and errors
  calls,     \* for each caller the call of record it is in: its step and item
  writer,    \* where _run is: at start, at test, at get, at write, or ended
  writing,   \* the item it took
  log,       \* policy_io.jsonl
  made       \* how many calls of record have begun

recorder == <<items, stopping, stats, calls, writer, writing, log, made>>

NoCall == [at |-> "none", item |-> NoItem]
Session == [id |-> 0, event |-> "session"]
Free(c) == calls[c].at = "none"
Count(field) == stats' = [stats EXCEPT ![field] = @ + 1]
Return(c) == calls' = [calls EXCEPT ![c] = NoCall]
GoTo(c, step) == calls' = [calls EXCEPT ![c].at = step]

RecorderInit ==
  /\ items = <<>> /\ stopping = FALSE
  /\ stats = [enqueued |-> 0, written |-> 0, dropped |-> 0, errors |-> 0]
  /\ calls = [c \in Callers |-> NoCall]
  /\ writer = "start" /\ writing = NoItem /\ log = <<>> /\ made = 0
-----------------------------------------------------------------------------
(* record: a caller enters it, looks at _stop and copies the arrays, puts  *)
(* the item without waiting, and counts it.                                *)
Record(c, item) ==
  /\ calls' = [calls EXCEPT ![c] = [at |-> "check", item |-> item]]
  /\ made' = made + 1
  /\ UNCHANGED <<items, stopping, stats, writer, writing, log>>

CheckStop(c) ==
  /\ calls[c].at = "check"
  /\ IF stopping THEN Count("dropped") /\ Return(c)
     ELSE GoTo(c, "put") /\ UNCHANGED stats
  /\ UNCHANGED <<items, stopping, writer, writing, log, made>>

SnapshotFails(c) ==
  /\ calls[c].at = "check" /\ ~stopping
  /\ Count("errors") /\ Return(c)
  /\ UNCHANGED <<items, stopping, writer, writing, log, made>>

PutItem(c) ==
  /\ calls[c].at = "put"
  /\ IF Len(items) < LogQueueSize
     THEN items' = Append(items, calls[c].item) /\ GoTo(c, "count") /\ UNCHANGED stats
     ELSE Count("dropped") /\ Return(c) /\ UNCHANGED items
  /\ UNCHANGED <<stopping, writer, writing, log, made>>

CountItem(c) ==
  /\ calls[c].at = "count"
  /\ Count("enqueued") /\ Return(c)
  /\ UNCHANGED <<items, stopping, writer, writing, log, made>>

RecordStep(c) == CheckStop(c) \/ SnapshotFails(c) \/ PutItem(c) \/ CountItem(c)
-----------------------------------------------------------------------------
(* _run, which begins with a row of its own.                               *)
WriteRow(item, next) ==
  /\ \/ log' = Append(log, item) /\ Count("written")
     \/ Count("errors") /\ UNCHANGED log
  /\ writer' = next /\ writing' = NoItem
  /\ UNCHANGED <<items, stopping, calls, made>>

WriteSession == writer = "start" /\ WriteRow(Session, "test")

TestStopOnly ==  \* mutant: the loop ends without draining the queue
  /\ writer = "test"
  /\ writer' = IF stopping THEN "ended" ELSE "get"
  /\ UNCHANGED <<items, stopping, stats, calls, writing, log, made>>

TestLoop ==
  /\ writer = "test"
  /\ writer' = IF stopping /\ items = <<>> THEN "ended" ELSE "get"
  /\ UNCHANGED <<items, stopping, stats, calls, writing, log, made>>

GetItem ==
  /\ writer = "get" /\ items # <<>>
  /\ writing' = Head(items) /\ items' = Tail(items)
  /\ writer' = "write"
  /\ UNCHANGED <<stopping, stats, calls, log, made>>

(* The tenth of a second is over. *)
GetEmpty ==
  /\ writer = "get" /\ items = <<>>
  /\ writer' = "test"
  /\ UNCHANGED <<items, stopping, stats, calls, writing, log, made>>

WriteItem == writer = "write" /\ WriteRow(writing, "test")

Writer == WriteSession \/ TestLoop \/ GetItem \/ GetEmpty \/ WriteItem

(* close, but for its wait of at most five seconds for the writer.         *)
CloseRecorder ==
  /\ stopping' = TRUE
  /\ UNCHANGED <<items, stats, calls, writer, writing, log, made>>
-----------------------------------------------------------------------------
(* Every call of record, and the session's row, is in exactly one place:   *)
(* written, counted as dropped or as an error, queued, or on its way.      *)
InHand ==
  Len(items) + (IF writer = "write" THEN 1 ELSE 0) + (IF writer = "start" THEN 1 ELSE 0)

Accounted(inside) ==
  made + 1 = stats.written + stats.dropped + stats.errors + InHand + inside
=============================================================================
