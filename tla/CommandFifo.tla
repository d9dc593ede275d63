----------------------------- MODULE CommandFifo -----------------------------
(***************************************************************************)
(* What shared_memory_queue.py promises its two processes: a bounded queue *)
(* of commands.  A command accepted is taken once, in order and whole; Full*)
(* is raised only when the queue is full.                                  *)
(***************************************************************************)
EXTENDS Integers, Sequences

CONSTANTS
  Items,      \* the commands
  BufferSize

VARIABLES
  content,    \* the commands accepted and not yet taken
  taken,      \* the commands of the reader's last get
  refused     \* the writer's last put raised Full

fifo == <<content, taken, refused>>

Rest(k) == SubSeq(content, k + 1, Len(content))

Init == content = <<>> /\ taken = <<>> /\ refused = FALSE

Accept(item) ==
  /\ Len(content) < BufferSize
  /\ content' = Append(content, item)
  /\ refused' = FALSE
  /\ UNCHANGED taken

Refuse ==
  /\ Len(content) = BufferSize
  /\ refused' = TRUE
  /\ UNCHANGED <<content, taken>>

Take(k) ==
  /\ taken' = SubSeq(content, 1, k)
  /\ content' = Rest(k)
  /\ UNCHANGED refused

Discard(k) ==
  /\ content' = Rest(k)
  /\ UNCHANGED <<taken, refused>>

Next ==
  \/ \E item \in Items : Accept(item)
  \/ Refuse
  \/ \E k \in 1..Len(content) : Take(k) \/ Discard(k)

Spec == Init /\ [][Next]_fifo
=============================================================================
