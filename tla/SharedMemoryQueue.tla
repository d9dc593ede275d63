-------------------------- MODULE SharedMemoryQueue --------------------------
(***************************************************************************)
(* shared_memory_queue.py: the lock-free queue that carries commands from  *)
(* UmiEnv to a controller process.  One process puts, one gets.  An item   *)
(* is spread over one array per key; two atomic counters say which slots   *)
(* are filled.  Every access to shared memory is a step of its own.        *)
(*                                                                         *)
(* A process's load of its own counter is part of the step that loads the  *)
(* other's, since nobody else writes it.  qsize and empty only read.       *)
(***************************************************************************)
EXTENDS Integers, Sequences, FiniteSets

CONSTANTS
  Items,        \* the commands
  Keys,         \* one array for each
  Given,        \* the keys a command's dict has: put leaves the others alone
  Cmd,          \* the key every command gives
  BufferSize,
  MaxPuts,      \* bound on write_counter
  None

ASSUME QueueAssumption ==
  /\ BufferSize \in Nat \ {0}
  /\ MaxPuts \in Nat
  /\ IsFiniteSet(Keys)
  /\ Given \in [Items -> SUBSET Keys]
  /\ Cmd \in Keys /\ \A item \in Items : Cmd \in Given[item]
  /\ None \notin Items

VARIABLES
  slots,         \* shared_arrays, by slot and key
  writeCounter, readCounter,
  putting,       \* the command put is writing, None between calls
  unwritten,     \* the keys it has yet to write
  refused,       \* the last put raised Full
  getting,       \* how many items a get is copying, 0 between calls
  uncopied,      \* the keys it has yet to copy
  out,           \* what it has copied
  returned,      \* the return value of the last get
  clearing       \* clear has loaded write_counter: its value, None otherwise

writer == <<putting, unwritten, refused>>
reader == <<getting, uncopied, out, returned, clearing>>
vars == <<slots, writeCounter, readCounter, writer, reader>>

Filled == writeCounter - readCounter
Slot(count) == count % BufferSize
Row == [Keys -> Items \union {None}]
Nothing == [key \in Keys |-> None]

Init ==
  /\ slots = [i \in 0..BufferSize - 1 |-> Nothing]
  /\ writeCounter = 0 /\ readCounter = 0
  /\ putting = None /\ unwritten = {} /\ refused = FALSE
  /\ getting = 0 /\ uncopied = {} /\ out = <<>> /\ returned = <<>>
  /\ clearing = None
-----------------------------------------------------------------------------
PutFull ==
  /\ putting = None
  /\ Filled >= BufferSize
  /\ refused' = TRUE
  /\ UNCHANGED <<slots, writeCounter, readCounter, putting, unwritten, reader>>

PutStart(item) ==
  /\ putting = None
  /\ Filled < BufferSize
  /\ writeCounter < MaxPuts
  /\ putting' = item /\ unwritten' = Given[item]
  /\ UNCHANGED <<slots, writeCounter, readCounter, refused, reader>>

PutWrite(key) ==
  /\ key \in unwritten
  /\ slots' = [slots EXCEPT ![Slot(writeCounter)][key] = putting]
  /\ unwritten' = unwritten \ {key}
  /\ UNCHANGED <<writeCounter, readCounter, putting, refused, reader>>

PutCounted ==
  /\ writeCounter' = writeCounter + 1
  /\ putting' = None /\ refused' = FALSE
  /\ UNCHANGED <<slots, readCounter, reader>>

PutDoneEarly ==  \* mutant: the counter is not the last thing put writes
  /\ putting # None
  /\ Cardinality(unwritten) <= 1
  /\ unwritten' = {}
  /\ PutCounted

PutDone ==
  /\ putting # None
  /\ unwritten = {}
  /\ PutCounted
  /\ UNCHANGED unwritten
-----------------------------------------------------------------------------
ReaderIdle == getting = 0 /\ clearing = None

(* get takes one item, get_k some, get_all what is there; on an empty      *)
(* queue they raise Empty and change nothing.                              *)
GetStart(k) ==
  /\ ReaderIdle
  /\ k \in 1..Filled
  /\ getting' = k /\ uncopied' = Keys
  /\ out' = [i \in 1..k |-> Nothing]
  /\ UNCHANGED <<slots, writeCounter, readCounter, writer, returned, clearing>>

(* _get_k_impl copies one array after the other, in two pieces when the    *)
(* items wrap around the end of the buffer.                                *)
GetCopy(key) ==
  /\ key \in uncopied
  /\ out' = [i \in 1..getting |->
               [out[i] EXCEPT ![key] = slots[Slot(readCounter + i - 1)][key]]]
  /\ uncopied' = uncopied \ {key}
  /\ UNCHANGED <<slots, writeCounter, readCounter, writer, getting, returned, clearing>>

GetReturns ==
  /\ returned' = out
  /\ getting' = 0 /\ out' = <<>>
  /\ UNCHANGED <<slots, writeCounter, writer, uncopied, clearing>>

GetDoneUpToDate ==  \* mutant: the reader skips what came while it copied
  /\ getting > 0
  /\ uncopied = {}
  /\ readCounter' = writeCounter
  /\ GetReturns

GetDone ==
  /\ getting > 0
  /\ uncopied = {}
  /\ readCounter' = readCounter + getting
  /\ GetReturns

ClearLoad ==
  /\ ReaderIdle
  /\ clearing' = writeCounter
  /\ UNCHANGED <<slots, writeCounter, readCounter, writer, getting, uncopied, out, returned>>

ClearStoreLast ==  \* mutant: the reader is left on the last filled slot
  /\ clearing # None
  /\ readCounter' = clearing - 1
  /\ clearing' = None
  /\ UNCHANGED <<slots, writeCounter, writer, getting, uncopied, out, returned>>

ClearStore ==
  /\ clearing # None
  /\ readCounter' = clearing
  /\ clearing' = None
  /\ UNCHANGED <<slots, writeCounter, writer, getting, uncopied, out, returned>>

Put ==
  \/ PutFull \/ (\E item \in Items : PutStart(item))
  \/ (\E key \in Keys : PutWrite(key)) \/ PutDone

Get ==
  \/ (\E k \in 1..BufferSize : GetStart(k)) \/ (\E key \in Keys : GetCopy(key))
  \/ GetDone \/ ClearLoad \/ ClearStore

Next == Put \/ Get

Spec == Init /\ [][Next]_vars
-----------------------------------------------------------------------------
(* The shapes of the arrays, the counters and the two processes' copies:   *)
(* shared_memory_queue.py:22-41.                                           *)
QueueTypeOK ==
  /\ slots \in [0..BufferSize - 1 -> Row]
  /\ writeCounter \in Nat /\ readCounter \in Nat
  /\ putting \in Items \union {None} /\ unwritten \in SUBSET Keys
  /\ refused \in BOOLEAN
  /\ getting \in 0..BufferSize /\ uncopied \in SUBSET Keys
  /\ out \in [1..getting -> Row]
  /\ returned \in Seq(Row)
  /\ clearing \in Nat \union {None}

Whole(item) ==
  item[Cmd] \in Items /\ \A key \in Given[item[Cmd]] : item[key] = item[Cmd]

(* A command a get returns is whole: every key its put gave has the value  *)
(* that put gave it, whatever used the slot before and whatever the writer *)
(* does while the reader copies (shared_memory_queue.py:99-128, no lock).  *)
DeliveredWhole == \A i \in DOMAIN returned : Whole(returned[i])

(* The content of the abstract queue: the filled slots, in order.          *)
Content == [i \in 1..Filled |-> slots[Slot(readCounter + i - 1)][Cmd]]

Taken == [i \in DOMAIN returned |-> returned[i][Cmd]]

Fifo == INSTANCE CommandFifo WITH content <- Content, taken <- Taken

(* Seen from outside, the two counters and the arrays are one bounded FIFO *)
(* queue: no command is lost, repeated or overtaken, Full means full and   *)
(* get_all takes a prefix (the class's docstring: "A Lock-Free FIFO Shared *)
(* Memory Data Structure").                                                *)
QueueIsFifo == Fifo!Spec
=============================================================================
