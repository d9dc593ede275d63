----------------------- MODULE SharedMemoryRingBuffer -----------------------
(***************************************************************************)
(* shared_memory_ring_buffer.py: the newest states of a controller or      *)
(* camera process, read by UmiEnv.get_obs with no lock and no handshake.   *)
(* Only time keeps the reader from slots the writer laps: the buffer is    *)
(* sized for put_desired_frequency, put compares a timestamp and get       *)
(* raises when it took longer than get_time_budget.  The clock is an       *)
(* integer here; every access to shared memory is a step.                  *)
(*                                                                         *)
(* paced is the docstring's promise that put is called at most at          *)
(* put_desired_frequency; without it the writer may burst, as a controller *)
(* loop does when it catches up with its schedule.                         *)
(***************************************************************************)
EXTENDS Integers, Sequences

CONSTANTS
  Keys,           \* one array for each
  GetMaxK,        \* get_max_k
  Budget,         \* get_time_budget, in ticks
  Spacing,        \* 1 / put_desired_frequency, in ticks
  PutTime,        \* bound: the ticks put's writes take
  MaxPuts, MaxNow \* bounds on the counter and the clock

ASSUME RingAssumption ==
  /\ {GetMaxK, Budget, Spacing, MaxPuts, MaxNow} \subseteq Nat \ {0}
  /\ PutTime \in Nat /\ 2 * PutTime < Budget

VARIABLES
  now,
  paced,
  count,          \* counter
  slots, stamps,  \* shared_arrays and timestamp_array
  phase,          \* of put: "idle", "sleeping" or "writing"
  since,          \* when put was called; when it woke, after a sleep
  unwritten,      \* the keys it has yet to write
  throttled,      \* the last put slept or raised
  k,              \* how many items the reader copies, 0 between calls
  seen,           \* the count it loaded
  start,          \* its start_time
  fresh,          \* the newest item was stamped no earlier than that
  uncopied,       \* the keys it has yet to copy
  out             \* what it has copied

writer == <<count, slots, stamps, phase, since, unwritten, throttled>>
reader == <<k, seen, start, fresh, uncopied, out>>
vars == <<now, paced, writer, reader>>

CeilDiv(a, b) == (a + b - 1) \div b

BufferSizeNoMargin ==  \* mutant: the safety margin is lost
  CeilDiv(Budget, Spacing) + GetMaxK

BufferSize == CeilDiv(3 * Budget, 2 * Spacing) + GetMaxK

Slot(i) == i % BufferSize
LongAgo == -Budget
Unset == [key \in Keys |-> -1]

Init ==
  /\ now = 0 /\ paced \in BOOLEAN
  /\ count = 0 /\ phase = "idle" /\ since = -Spacing
  /\ slots = [i \in 0..BufferSize - 1 |-> Unset]
  /\ stamps = [i \in 0..BufferSize - 1 |-> LongAgo]
  /\ unwritten = {} /\ throttled = FALSE
  /\ k = 0 /\ seen = 0 /\ start = 0 /\ fresh = FALSE /\ uncopied = {} /\ out = <<>>

Tick ==
  /\ now < MaxNow
  /\ phase = "writing" => now < since + PutTime
  /\ now' = now + 1
  /\ UNCHANGED <<paced, writer, reader>>
-----------------------------------------------------------------------------
LookaheadShort(i) == Slot(i + GetMaxK - 2)  \* mutant: one slot short

Lookahead(i) == Slot(i + GetMaxK - 1)

TooFast == now - stamps[Lookahead(count)] < Budget

PutCalled ==
  /\ phase = "idle"
  /\ count < MaxPuts
  /\ paced => now >= since + Spacing

StartWriting ==
  /\ phase' = "writing" /\ unwritten' = Keys /\ since' = now

Put ==
  /\ PutCalled /\ ~TooFast
  /\ StartWriting
  /\ throttled' = FALSE
  /\ UNCHANGED <<now, paced, count, slots, stamps, reader>>

PutSleeps ==  \* wait=True
  /\ PutCalled /\ TooFast
  /\ phase' = "sleeping" /\ throttled' = TRUE /\ since' = stamps[Lookahead(count)]
  /\ UNCHANGED <<now, paced, count, slots, stamps, unwritten, reader>>

PutRaises ==  \* wait=False: TimeoutError
  /\ PutCalled /\ TooFast
  /\ throttled' = TRUE /\ since' = now
  /\ UNCHANGED <<now, paced, count, slots, stamps, phase, unwritten, reader>>

PutWakes ==
  /\ phase = "sleeping"
  /\ now >= since + Budget
  /\ StartWriting
  /\ UNCHANGED <<now, paced, count, slots, stamps, throttled, reader>>

PutWrite(key) ==
  /\ key \in unwritten
  /\ slots' = [slots EXCEPT ![Slot(count)][key] = count]
  /\ unwritten' = unwritten \ {key}
  /\ UNCHANGED <<now, paced, count, stamps, phase, since, throttled, reader>>

PutDone ==  \* the stamp is put's own, so it and the counter are one step
  /\ phase = "writing" /\ unwritten = {}
  /\ stamps' = [stamps EXCEPT ![Slot(count)] = now]
  /\ count' = count + 1
  /\ phase' = "idle"
  /\ UNCHANGED <<now, paced, slots, since, unwritten, throttled, reader>>
-----------------------------------------------------------------------------
(* get is the case of one item.  On an empty buffer it would return what   *)
(* the arrays were created with; its callers wait for the first put.       *)
GetLastK(n) ==
  /\ k = 0
  /\ n <= count
  /\ k' = n /\ seen' = count /\ start' = now
  /\ fresh' = (stamps[Slot(count - 1)] = now)
  /\ uncopied' = Keys
  /\ out' = [i \in 1..n |-> Unset]
  /\ UNCHANGED <<now, paced, writer>>

GetCopy(key) ==
  /\ key \in uncopied
  /\ out' = [i \in 1..k |-> [out[i] EXCEPT ![key] = slots[Slot(seen - k + i - 1)][key]]]
  /\ uncopied' = uncopied \ {key}
  /\ UNCHANGED <<now, paced, writer, k, seen, start, fresh>>

GetEnds ==
  /\ k' = 0 /\ seen' = 0 /\ start' = 0 /\ fresh' = FALSE /\ out' = <<>>
  /\ UNCHANGED <<now, paced, writer, uncopied>>

Copied == k > 0 /\ uncopied = {}
Took == now - start

GetTimedOut == Copied /\ Took > Budget /\ GetEnds

GetDone == Copied /\ Took <= Budget /\ GetEnds

Write ==
  \/ Put \/ PutSleeps \/ PutRaises \/ PutWakes
  \/ (\E key \in Keys : PutWrite(key)) \/ PutDone

Read ==
  \/ (\E n \in 1..GetMaxK : GetLastK(n))
  \/ (\E key \in Keys : GetCopy(key)) \/ GetTimedOut \/ GetDone

Next == Write \/ Read \/ Tick

Spec == Init /\ [][Next]_vars
-----------------------------------------------------------------------------
Whole == \A i \in 1..k, key \in Keys : out[i][key] = seen - k + i - 1

(* While puts keep to put_desired_frequency and take less than half the    *)
(* budget, a read that returns holds the items it counted, whole and in    *)
(* order, whatever the two processes' interleaving, and no put has to      *)
(* sleep or to raise: the sizing argument of                               *)
(* shared_memory_ring_buffer.py:40-48 and the throttle of 134-145.         *)
PacedReadWhole == paced => ~throttled /\ (Copied /\ Took <= Budget => Whole)

(* Under a burst the timestamp put compares (lines 124-145) still protects *)
(* a read that began no later than its newest item was stamped: the items  *)
(* stay untouched for the budget after they are written, not after the     *)
(* read begins.                                                            *)
BurstReadWhole == fresh /\ Copied /\ Took < Budget => Whole
=============================================================================
