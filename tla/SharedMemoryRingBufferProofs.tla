--------------------- MODULE SharedMemoryRingBufferProofs ---------------------
(***************************************************************************)
(* Proofs about SharedMemoryRingBuffer, for every get_max_k, budget and    *)
(* put frequency that satisfy RingAssumption: a read that returns in time  *)
(* is whole, and a writer that keeps its frequency is never throttled.     *)
(*                                                                         *)
(* An item is intact while no put has begun that writes its slot again.    *)
(* What a reader has copied of intact items is right; the rest of the      *)
(* invariant is about time.  A paced writer is known by when its last put  *)
(* began, and every put before that began Spacing earlier than the next;   *)
(* a writer that bursts is known by the timestamp it has to compare.       *)
(***************************************************************************)
EXTENDS SharedMemoryRingBuffer, TLAPS

(* The puts that have begun to write. *)
Begun == IF phase = "writing" THEN count + 1 ELSE count
Intact(item) == Begun <= item + BufferSize
Periods(n) == n * Spacing

RingTypes ==
  /\ now \in Nat /\ paced \in BOOLEAN /\ count \in Nat
  /\ slots \in [0..BufferSize - 1 -> [Keys -> Int]]
  /\ stamps \in [0..BufferSize - 1 -> Int]
  /\ phase \in {"idle", "sleeping", "writing"} /\ since \in Int
  /\ unwritten \subseteq Keys /\ (phase # "writing" => unwritten = {})
  /\ throttled \in BOOLEAN
  /\ k \in 0..GetMaxK /\ seen \in Nat /\ start \in Nat
  /\ k <= seen /\ seen <= count /\ start <= now
  /\ fresh \in BOOLEAN /\ uncopied \subseteq Keys
  /\ out \in [1..k -> [Keys -> Int]]

(* A slot holds its item, and as much of the next one as was written.      *)
SlotsHold ==
  /\ \A c \in 0..count - 1 : Intact(c) => \A key \in Keys : slots[Slot(c)][key] = c
  /\ phase = "writing" =>
       \A key \in Keys \ unwritten : slots[Slot(count)][key] = count

CopiesHold ==
  k > 0 /\ Intact(seen - k) =>
    \A i \in 1..k, key \in Keys \ uncopied : out[i][key] = seen - k + i - 1

(* An item is stamped while its put is on, and each put began Spacing or   *)
(* more after the one before.                                              *)
StampedInTime ==
  /\ \A c \in 0..count - 1 :
       count <= c + BufferSize =>
         stamps[Slot(c)] <= since + PutTime - Periods(Begun - 1 - c)
  /\ \A i \in count..BufferSize - 1 : stamps[i] = LongAgo

(* As long as the reader is at work the writer gets no farther than that.  *)
WriterBehind ==
  k > 0 /\ Begun > seen => since >= start - PutTime + Periods(Begun - 1 - seen)

PacedInv ==
  paced => /\ ~throttled /\ phase # "sleeping" /\ since <= now
           /\ phase = "writing" => now <= since + PutTime
           /\ StampedInTime /\ WriterBehind

(* The stamp of the newest item a read began with is what the put compares *)
(* that would overwrite the oldest item it may have asked for.             *)
BurstInv ==
  /\ phase = "sleeping" => since = stamps[Lookahead(count)]
  /\ k > 0 /\ fresh =>
       /\ count < seen + BufferSize => stamps[Slot(seen - 1)] = start
       /\ ~Intact(seen - GetMaxK) => now >= start + Budget

RingInv == RingTypes /\ SlotsHold /\ CopiesHold /\ PacedInv /\ BurstInv
-----------------------------------------------------------------------------
(* The arithmetic modulo the buffer size, and the size of the buffer.      *)
LEMMA DivMod ==
  ASSUME NEW N \in Nat, N > 0, NEW a \in Nat
  PROVE  a = N * (a \div N) + (a % N) /\ a % N \in 0..N - 1 /\ a \div N \in Nat
BY SMT

LEMMA QuotientUnique ==
  ASSUME NEW N \in Nat, N > 0, NEW p \in Int, NEW q \in Int, NEW r \in 0..N - 1,
         NEW s \in 0..N - 1, N * p + r = N * q + s
  PROVE  r = s
<1>1. CASE p < q
  <2>1. N * q >= N * p + N  BY <1>1, SMT
  <2> QED  BY <2>1
<1>2. CASE q < p
  <2>1. N * p >= N * q + N  BY <1>2, SMT
  <2> QED  BY <2>1
<1>3. CASE p = q
  BY <1>3
<1> QED  BY <1>1, <1>2, <1>3

(* Twice the buffer without the reader's items lasts three budgets: the    *)
(* safety margin of one half (shared_memory_ring_buffer.py:40-48).         *)
LEMMA Sizes ==
  /\ GetMaxK \in Nat /\ GetMaxK > 0 /\ Budget \in Nat /\ Budget > 0
  /\ Spacing \in Nat /\ Spacing > 0 /\ PutTime \in Nat /\ 2 * PutTime < Budget
  /\ BufferSize \in Nat /\ BufferSize > GetMaxK
  /\ 2 * Periods(BufferSize - GetMaxK) >= 3 * Budget
<1>1. /\ GetMaxK \in Nat /\ GetMaxK > 0 /\ Budget \in Nat /\ Budget > 0
      /\ Spacing \in Nat /\ Spacing > 0 /\ PutTime \in Nat /\ 2 * PutTime < Budget
  BY RingAssumption
<1> DEFINE N == 2 * Spacing
           a == 3 * Budget + N - 1
           c == a \div N
<1>2. N \in Nat /\ N > 0 /\ a \in Nat
  BY <1>1
<1>3. a = N * c + (a % N) /\ a % N \in 0..N - 1 /\ c \in Nat
  BY <1>2, DivMod
<1>4. N * c >= 3 * Budget
  <2> DEFINE m == N * c
  <2>1. m \in Int
    BY <1>2, <1>3
  <2> HIDE DEF N, c
  <2> QED  BY <1>1, <1>2, <1>3, <2>1
<1>5. c > 0
  <2>1. c = 0 => N * c = 0
    BY <1>2
  <2> QED  BY <1>1, <1>3, <1>4, <2>1
<1>6. BufferSize = c + GetMaxK
  BY DEF BufferSize, CeilDiv
<1>7. 2 * (c * Spacing) = N * c
  BY <1>1, <1>3, SMT
<1> HIDE DEF c
<1>8. BufferSize - GetMaxK = c
  BY <1>1, <1>3, <1>6
<1> QED  BY <1>1, <1>3, <1>4, <1>5, <1>6, <1>7, <1>8 DEF Periods

LEMMA PeriodsAdd ==
  /\ Periods(0) = 0
  /\ \A n \in Int : Periods(n) \in Int /\ Periods(n + 1) = Periods(n) + Spacing
  /\ \A m \in Int, n \in Int : m <= n => Periods(m) <= Periods(n)
<1>1. Spacing \in Nat
  BY Sizes
<1>2. Periods(0) = 0
  BY <1>1 DEF Periods
<1>3. \A n \in Int : Periods(n) \in Int /\ Periods(n + 1) = Periods(n) + Spacing
  BY <1>1, SMT DEF Periods
<1>4. ASSUME NEW m \in Int, NEW n \in Int, m <= n PROVE Periods(m) <= Periods(n)
  BY <1>1, <1>4, SMT DEF Periods
<1> QED  BY <1>2, <1>3, <1>4

LEMMA SlotOf ==
  /\ \A c \in Nat : Slot(c) \in 0..BufferSize - 1 /\ Slot(c + BufferSize) = Slot(c)
  /\ \A a \in Nat, b \in Nat : a < b /\ b < a + BufferSize => Slot(a) # Slot(b)
  /\ \A c \in Nat : c < BufferSize => Slot(c) = c
<1> DEFINE N == BufferSize
<1>1. N \in Nat /\ N > 0
  BY Sizes
<1> HIDE DEF N
<1>2. \A c \in Nat : c = N * (c \div N) + (c % N) /\ c % N \in 0..N - 1 /\ c \div N \in Nat
  BY <1>1, DivMod
<1>3. ASSUME NEW c \in Nat PROVE (c + N) % N = c % N
  <2> DEFINE q == c \div N
             r == (c + N) \div N
  <2>1. /\ c = N * q + (c % N) /\ c % N \in 0..N - 1 /\ q \in Nat
        /\ c + N = N * r + ((c + N) % N) /\ (c + N) % N \in 0..N - 1 /\ r \in Nat
    BY <1>1, <1>2
  <2> HIDE DEF q, r
  <2>2. N * (q + 1) = N * q + N
    BY <1>1, <2>1, SMT
  <2>3. N * (q + 1) + (c % N) = N * r + ((c + N) % N)
    BY <1>1, <2>1, <2>2
  <2> DEFINE x == c % N
             y == (c + N) % N
  <2>4. /\ x \in 0..N - 1 /\ y \in 0..N - 1 /\ q + 1 \in Int /\ r \in Int
        /\ N * (q + 1) + x = N * r + y
    BY <2>1, <2>3
  <2> HIDE DEF x, y
  <2>5. x = y
    BY <1>1, <2>4, QuotientUnique
  <2> QED  BY <2>5 DEF x, y
<1>4. ASSUME NEW a \in Nat, NEW b \in Nat, a < b, b < a + N, a % N = b % N PROVE FALSE
  <2> DEFINE p == a \div N
             q == b \div N
  <2>1. /\ a = N * p + (a % N) /\ b = N * q + (b % N) /\ a % N \in 0..N - 1
        /\ p \in Nat /\ q \in Nat
    BY <1>1, <1>2
  <2> HIDE DEF p, q
  <2>2. N * p < N * q /\ N * q < N * p + N
    BY <1>1, <1>4, <2>1
  <2>3. CASE q <= p
    <3>1. N * q <= N * p  BY <1>1, <2>1, <2>3, SMT
    <3> QED  BY <1>1, <2>1, <2>2, <3>1
  <2>4. CASE q > p
    <3>1. N * q >= N * p + N  BY <1>1, <2>1, <2>4, SMT
    <3> QED  BY <1>1, <2>1, <2>2, <3>1
  <2> QED  BY <2>1, <2>3, <2>4
<1>5. ASSUME NEW c \in Nat, c < N PROVE c % N = c
  <2>1. c = N * 0 + c /\ c \in 0..N - 1
    BY <1>1, <1>5
  <2> QED  BY <1>1, <1>2, <2>1, QuotientUnique
<1> QED  BY <1>2, <1>3, <1>4, <1>5 DEF Slot, N

LEMMA SlotIndex ==
  ASSUME NEW c \in Int, 0 <= c
  PROVE  Slot(c) \in 0..BufferSize - 1
BY SlotOf

LEMMA OwnSlot ==
  ASSUME NEW a \in Int, NEW b \in Int, 0 <= a, a < b, b < a + BufferSize
  PROVE  Slot(a) # Slot(b)
BY SlotOf

LEMMA FirstSlots ==
  ASSUME NEW c \in Int, 0 <= c, c < BufferSize
  PROVE  Slot(c) = c
BY SlotOf

LEMMA LookaheadIndex ==
  ASSUME NEW c \in Nat
  PROVE  Lookahead(c) \in 0..BufferSize - 1
<1> DEFINE last == c + GetMaxK - 1
<1>1. last \in Int /\ 0 <= last
  BY Sizes
<1> HIDE DEF last
<1>2. Slot(last) \in 0..BufferSize - 1
  BY <1>1, SlotIndex
<1> QED  BY <1>2 DEF Lookahead, last

(* The slot whose stamp a put compares is that of the item GetMaxK - 1     *)
(* behind the one it overwrites, or has never been written.                *)
LEMMA LookaheadIs ==
  ASSUME NEW c \in Nat
  PROVE  LET last == c + GetMaxK - 1
         IN IF last >= BufferSize THEN /\ last - BufferSize \in 0..c - 1
                                       /\ Lookahead(c) = Slot(last - BufferSize)
            ELSE last \in c..BufferSize - 1 /\ Lookahead(c) = last
<1> DEFINE last == c + GetMaxK - 1
<1>1. last \in Nat /\ c <= last /\ last - BufferSize < c
  BY Sizes
<1>2. Lookahead(c) = Slot(last)
  BY DEF Lookahead
<1>3. CASE last >= BufferSize
  <2> DEFINE j == last - BufferSize
  <2>1. j \in Nat /\ j + BufferSize = last /\ j <= c - 1
    BY <1>1, <1>3, Sizes
  <2>2. Slot(j + BufferSize) = Slot(j)
    BY <2>1, SlotOf
  <2> QED  BY <1>2, <1>3, <2>1, <2>2
<1>4. CASE ~(last >= BufferSize)
  <2>1. Slot(last) = last
    BY <1>1, <1>4, SlotOf, Sizes
  <2> QED  BY <1>1, <1>2, <1>4, <2>1, Sizes
<1> QED  BY <1>3, <1>4
-----------------------------------------------------------------------------
(* One lemma for each step.                                                *)
LEMMA Initially == Init => RingInv
<1> SUFFICES ASSUME Init PROVE RingInv
  OBVIOUS
<1>1. RingTypes
  <2>1. out \in [1..k -> [Keys -> Int]]
    BY DEF Init
  <2>2. Unset \in [Keys -> Int] /\ LongAgo \in Int
    BY Sizes DEF Unset, LongAgo
  <2> QED  BY <2>1, <2>2, Sizes DEF Init, RingTypes
<1>2. SlotsHold /\ CopiesHold
  BY Sizes DEF Init, SlotsHold, CopiesHold
<1>3. StampedInTime /\ WriterBehind
  BY Sizes DEF Init, StampedInTime, WriterBehind
<1>4. PacedInv /\ BurstInv
  BY <1>3, Sizes DEF Init, PacedInv, BurstInv
<1> QED  BY <1>1, <1>2, <1>4 DEF RingInv

(* Nothing of the writer and the reader changes.                           *)
LEMMA TickStep ==
  ASSUME RingInv, Tick
  PROVE  RingInv'
<1> USE Sizes DEF RingInv, Tick, writer, reader
<1>1. RingTypes'
  BY DEF RingTypes
<1>2. SlotsHold' /\ CopiesHold'
  BY DEF SlotsHold, CopiesHold, Intact, Begun
<1>3. PacedInv'
  BY DEF RingTypes, PacedInv, StampedInTime, WriterBehind, Begun
<1>4. BurstInv'
  BY DEF RingTypes, BurstInv, Intact, Begun
<1> QED  BY <1>1, <1>2, <1>3, <1>4

(* A paced writer never finds the stamp too young.                         *)
LEMMA NeverTooFast ==
  ASSUME RingInv, PutCalled, paced
  PROVE  ~TooFast
<1> DEFINE last == count + GetMaxK - 1
           c == last - BufferSize
<1>1. /\ count \in Nat /\ now \in Nat /\ since \in Int /\ phase = "idle"
      /\ now >= since + Spacing /\ StampedInTime /\ Begun = count
      /\ stamps \in [0..BufferSize - 1 -> Int]
  BY DEF RingInv, RingTypes, PutCalled, PacedInv, Begun
<1>2. CASE last >= BufferSize
  <2>1. c \in 0..count - 1 /\ Lookahead(count) = Slot(c) /\ count <= c + BufferSize
    BY <1>1, <1>2, LookaheadIs, Sizes
  <2>2. stamps[Slot(c)] <= since + PutTime - Periods(count - 1 - c)
    BY <1>1, <2>1 DEF StampedInTime
  <2>3. count - 1 - c = BufferSize - GetMaxK
    BY <1>1, Sizes
  <2>4. Periods(BufferSize - GetMaxK) \in Int
    BY Sizes, PeriodsAdd
  <2>5. Slot(c) \in 0..BufferSize - 1
    <3> HIDE DEF c
    <3> QED  BY <1>1, <2>1, SlotIndex
  <2> HIDE DEF c, last
  <2>6. stamps[Slot(c)] <= since + PutTime - Periods(BufferSize - GetMaxK)
    BY <2>2, <2>3
  <2>7. now - stamps[Slot(c)] >= Budget
    BY <1>1, <2>4, <2>5, <2>6, Sizes
  <2> QED  BY <1>1, <2>1, <2>5, <2>7, Sizes DEF TooFast
<1>3. CASE ~(last >= BufferSize)
  <2>1. last \in count..BufferSize - 1 /\ Lookahead(count) = last
    BY <1>1, <1>3, LookaheadIs
  <2>2. stamps[last] = -Budget
    BY <1>1, <2>1 DEF StampedInTime, LongAgo
  <2> QED  BY <1>1, <2>1, <2>2, Sizes DEF TooFast
<1> QED  BY <1>2, <1>3

(* put has found, or waited for, a stamp that is a budget old.             *)
LEMMA StartStep ==
  ASSUME RingInv, StartWriting, phase # "writing",
         now - stamps[Lookahead(count)] >= Budget,
         paced => now >= since + Spacing /\ throttled' = throttled,
         throttled' \in BOOLEAN,
         UNCHANGED <<now, paced, count, slots, stamps, reader>>
  PROVE  RingInv'
<1> USE Sizes
<1>1. /\ Begun = count /\ Begun' = count + 1 /\ phase' = "writing" /\ unwritten' = Keys
      /\ since' = now /\ UNCHANGED <<now, paced, count, slots, stamps>> /\ UNCHANGED reader
  BY DEF StartWriting, Begun
<1>2. RingTypes /\ RingTypes'
  BY <1>1 DEF RingInv, RingTypes, reader
<1> DEFINE T == /\ count \in Nat /\ now \in Nat /\ since \in Int /\ seen \in Nat
                /\ start \in Nat /\ start <= now /\ k \in Nat /\ k <= seen /\ seen <= count
                /\ stamps \in [0..BufferSize - 1 -> Int]
<1>3. T
  BY <1>2 DEF RingTypes
<1>4. SlotsHold'
  BY <1>1, <1>2 DEF RingInv, RingTypes, SlotsHold, Intact
<1>5. CopiesHold'
  BY <1>1, <1>2 DEF RingInv, RingTypes, CopiesHold, Intact, reader
<1>6. ASSUME paced PROVE StampedInTime'
  <2>1. ASSUME NEW c \in 0..count - 1, count <= c + BufferSize
        PROVE  stamps[Slot(c)] <= now + PutTime - Periods(count - c)
    <3>1. stamps[Slot(c)] <= since + PutTime - Periods(count - 1 - c)
      BY <1>1, <1>6, <2>1 DEF RingInv, PacedInv, StampedInTime
    <3>2. /\ Periods(count - 1 - c) \in Int
          /\ Periods((count - 1 - c) + 1) = Periods(count - 1 - c) + Spacing
      <4>1. count - 1 - c \in Int
        BY <1>3
      <4> QED  BY <4>1, PeriodsAdd, Zenon
    <3>3. (count - 1 - c) + 1 = count - c
      BY <1>3
    <3>4. stamps[Slot(c)] \in Int
      <4>1. c \in Nat
        BY <1>3
      <4>2. Slot(c) \in 0..BufferSize - 1
        BY <4>1, SlotOf
      <4> QED  BY <1>3, <4>2
    <3> QED  BY <1>3, <1>6, <3>1, <3>2, <3>3, <3>4
  <2>2. \A c \in 0..count - 1 : (count + 1) - 1 - c = count - c
    BY <1>3
  <2> QED  BY <1>1, <1>6, <2>1, <2>2 DEF RingInv, PacedInv, StampedInTime
<1>7. ASSUME paced PROVE WriterBehind'
  <2> SUFFICES ASSUME k > 0
               PROVE  now >= start - PutTime + Periods(count - seen)
    <3>1. (count + 1) - 1 - seen = count - seen
      BY <1>3
    <3> QED  BY <1>1, <3>1 DEF WriterBehind, reader
  <2>1. CASE count = seen
    BY <1>3, <2>1, PeriodsAdd
  <2>2. CASE count > seen
    <3>1. since >= start - PutTime + Periods(count - 1 - seen)
      BY <1>1, <1>7, <2>2 DEF RingInv, PacedInv, WriterBehind
    <3>2. /\ Periods(count - 1 - seen) \in Int
          /\ Periods((count - 1 - seen) + 1) = Periods(count - 1 - seen) + Spacing
      <4>1. count - 1 - seen \in Int
        BY <1>3
      <4> QED  BY <4>1, PeriodsAdd, Zenon
    <3>3. (count - 1 - seen) + 1 = count - seen
      BY <1>3
    <3> QED  BY <1>3, <1>7, <3>1, <3>2, <3>3
  <2> QED  BY <1>3, <2>1, <2>2
<1>8. PacedInv'
  BY <1>1, <1>2, <1>6, <1>7 DEF RingInv, RingTypes, PacedInv
<1>9. ASSUME k > 0, fresh, ~Intact(seen - GetMaxK)'
      PROVE  now >= start + Budget
  <2>1. CASE ~Intact(seen - GetMaxK)
    BY <1>9, <2>1 DEF RingInv, BurstInv
  <2>2. CASE Intact(seen - GetMaxK)
    <3>1. count = seen - GetMaxK + BufferSize
      BY <1>1, <1>2, <1>9, <2>2 DEF RingTypes, Intact, reader
    <3>2. count + GetMaxK - 1 >= BufferSize /\ count + GetMaxK - 1 - BufferSize = seen - 1
      BY <1>2, <1>9, <3>1 DEF RingTypes
    <3>3. Lookahead(count) = Slot(seen - 1)
      BY <1>2, <3>2, LookaheadIs DEF RingTypes
    <3>4. count < seen + BufferSize
      BY <1>2, <3>1 DEF RingTypes
    <3>5. stamps[Slot(seen - 1)] = start
      BY <1>9, <3>4 DEF RingInv, BurstInv
    <3> QED  BY <1>2, <3>3, <3>5 DEF RingTypes
  <2> QED  BY <2>1, <2>2
<1>10. BurstInv'
  BY <1>1, <1>2, <1>9 DEF RingInv, BurstInv, reader
<1> QED  BY <1>2, <1>4, <1>5, <1>8, <1>10 DEF RingInv

LEMMA PutStep ==
  ASSUME RingInv, Put \/ PutWakes
  PROVE  RingInv'
<1>1. RingTypes /\ PacedInv
  BY DEF RingInv
<1>2. CASE Put
  <2>1. /\ StartWriting /\ phase # "writing" /\ throttled' = FALSE
        /\ UNCHANGED <<now, paced, count, slots, stamps>> /\ UNCHANGED reader
        /\ (paced => now >= since + Spacing) /\ ~TooFast
    BY <1>2 DEF Put, PutCalled
  <2>2. now - stamps[Lookahead(count)] >= Budget
    <3>1. Lookahead(count) \in 0..BufferSize - 1
      BY <1>1, LookaheadIndex DEF RingTypes
    <3>2. stamps[Lookahead(count)] \in Int
      BY <1>1, <3>1 DEF RingTypes
    <3> QED  BY <1>1, <2>1, <3>2, Sizes DEF RingTypes, TooFast
  <2>3. paced => throttled' = throttled
    BY <1>1, <2>1 DEF RingTypes, PacedInv
  <2> QED  BY <2>1, <2>2, <2>3, StartStep
<1>3. CASE PutWakes
  <2>1. /\ StartWriting /\ phase = "sleeping" /\ now >= since + Budget
        /\ UNCHANGED <<now, paced, count, slots, stamps, throttled>> /\ UNCHANGED reader
    BY <1>3 DEF PutWakes
  <2>2. ~paced /\ since = stamps[Lookahead(count)] /\ throttled' \in BOOLEAN
    BY <1>1, <2>1 DEF RingInv, PacedInv, BurstInv, RingTypes
  <2>3. now - stamps[Lookahead(count)] >= Budget
    BY <1>1, <2>1, <2>2, Sizes DEF RingTypes
  <2> QED  BY <2>1, <2>2, <2>3, StartStep
<1> QED  BY <1>2, <1>3

LEMMA ThrottledStep ==
  ASSUME RingInv, PutSleeps \/ PutRaises
  PROVE  RingInv'
<1> USE Sizes
<1>1. /\ ~paced /\ phase = "idle" /\ phase' \in {"idle", "sleeping"} /\ throttled' = TRUE
      /\ UNCHANGED <<now, paced, count, slots, stamps, unwritten>> /\ UNCHANGED reader
      /\ (phase' = "sleeping" => since' = stamps[Lookahead(count)])
      /\ since' \in {stamps[Lookahead(count)], now}
  BY NeverTooFast DEF PutSleeps, PutRaises, PutCalled, RingInv, RingTypes
<1>2. Begun' = Begun /\ RingTypes
  BY <1>1 DEF Begun, RingInv
<1>3. Lookahead(count) \in 0..BufferSize - 1
  BY <1>2, LookaheadIndex DEF RingTypes
<1>4. RingTypes'
  BY <1>1, <1>2, <1>3 DEF RingTypes, reader
<1>5. SlotsHold' /\ CopiesHold'
  BY <1>1, <1>2 DEF RingInv, SlotsHold, CopiesHold, Intact, reader
<1>6. PacedInv' /\ BurstInv'
  BY <1>1, <1>2 DEF RingInv, PacedInv, BurstInv, Intact, reader
<1> QED  BY <1>4, <1>5, <1>6 DEF RingInv

LEMMA PutWriteStep ==
  ASSUME RingInv, NEW key \in Keys, PutWrite(key)
  PROVE  RingInv'
<1> USE Sizes
<1>1. /\ key \in unwritten /\ phase = "writing" /\ unwritten' = unwritten \ {key}
      /\ slots' = [slots EXCEPT ![Slot(count)][key] = count]
      /\ UNCHANGED <<now, paced, count, stamps, phase, since, throttled>> /\ UNCHANGED reader
  BY DEF PutWrite, RingInv, RingTypes
<1>2. /\ Begun' = Begun /\ Begun = count + 1 /\ RingTypes
  BY <1>1 DEF Begun, RingInv
<1>3. /\ Slot(count) \in 0..BufferSize - 1
      /\ \A c \in 0..count - 1 : Intact(c) => Slot(c) # Slot(count)
  <2>1. count \in Nat
    BY <1>2 DEF RingTypes
  <2>2. Slot(count) \in 0..BufferSize - 1
    BY <2>1, SlotIndex
  <2>3. ASSUME NEW c \in 0..count - 1, Intact(c) PROVE Slot(c) # Slot(count)
    <3>1. c \in Int /\ 0 <= c /\ c < count /\ count < c + BufferSize
      BY <1>2, <2>1, <2>3 DEF Intact
    <3> QED  BY <2>1, <3>1, OwnSlot
  <2> QED  BY <2>2, <2>3
<1>4. /\ slots' \in [0..BufferSize - 1 -> [Keys -> Int]]
      /\ \A i \in 0..BufferSize - 1 : i # Slot(count) => slots'[i] = slots[i]
      /\ slots'[Slot(count)] = [slots[Slot(count)] EXCEPT ![key] = count]
      /\ slots[Slot(count)] \in [Keys -> Int]
  BY <1>1, <1>2, <1>3 DEF RingTypes
<1>5. RingTypes'
  BY <1>1, <1>2, <1>4 DEF RingTypes, reader
<1>6. SlotsHold'
  <2>1. ASSUME NEW c \in 0..count - 1, Intact(c), NEW x \in Keys PROVE slots'[Slot(c)][x] = c
    <3>1. Slot(c) \in 0..BufferSize - 1
      <4>1. c \in Int /\ 0 <= c
        BY <1>2 DEF RingTypes
      <4> QED  BY <4>1, SlotIndex
    <3> QED  BY <1>3, <1>4, <2>1, <3>1 DEF RingInv, SlotsHold
  <2>2. ASSUME NEW x \in Keys \ unwritten' PROVE slots'[Slot(count)][x] = count
    BY <1>1, <1>4, <2>2 DEF RingInv, SlotsHold
  <2> QED  BY <1>1, <1>2, <2>1, <2>2 DEF SlotsHold, Intact
<1>7. CopiesHold'
  BY <1>1, <1>2 DEF RingInv, CopiesHold, Intact, reader
<1>8. PacedInv' /\ BurstInv'
  BY <1>1, <1>2 DEF RingInv, PacedInv, StampedInTime, WriterBehind, BurstInv, Intact, reader
<1> QED  BY <1>5, <1>6, <1>7, <1>8 DEF RingInv

LEMMA PutDoneStep ==
  ASSUME RingInv, PutDone
  PROVE  RingInv'
<1> USE Sizes
<1>1. /\ phase = "writing" /\ unwritten = {} /\ phase' = "idle" /\ count' = count + 1
      /\ stamps' = [stamps EXCEPT ![Slot(count)] = now]
      /\ UNCHANGED <<now, paced, slots, since, unwritten, throttled>> /\ UNCHANGED reader
  BY DEF PutDone
<1>2. Begun' = Begun /\ Begun = count + 1 /\ RingTypes
  BY <1>1 DEF Begun, RingInv
<1>3. /\ count \in Nat /\ now \in Nat /\ since \in Int /\ seen \in Nat /\ k \in 0..GetMaxK
      /\ k <= seen /\ seen <= count /\ stamps \in [0..BufferSize - 1 -> Int]
  BY <1>2 DEF RingTypes
<1>4. /\ Slot(count) \in 0..BufferSize - 1
      /\ \A c \in 0..count - 1 : count < c + BufferSize => Slot(c) # Slot(count)
      /\ \A c \in 0..count : Slot(c) \in 0..BufferSize - 1
  <2>1. Slot(count) \in 0..BufferSize - 1
    <3>1. count \in Int /\ 0 <= count
      BY <1>3
    <3> QED  BY <3>1, SlotIndex
  <2>2. ASSUME NEW c \in 0..count - 1, count < c + BufferSize PROVE Slot(c) # Slot(count)
    <3>1. c \in Int /\ 0 <= c /\ c < count
      BY <1>3
    <3> QED  BY <1>3, <2>2, <3>1, OwnSlot
  <2>3. ASSUME NEW c \in 0..count PROVE Slot(c) \in 0..BufferSize - 1
    <3>1. c \in Int /\ 0 <= c
      BY <1>3
    <3> QED  BY <3>1, SlotIndex
  <2> QED  BY <2>1, <2>2, <2>3
<1>5. /\ stamps'[Slot(count)] = now
      /\ \A i \in 0..BufferSize - 1 : i # Slot(count) => stamps'[i] = stamps[i]
  BY <1>1, <1>3, <1>4
<1>6. RingTypes'
  BY <1>1, <1>2, <1>4 DEF RingTypes, reader
<1>7. SlotsHold'
  <2>1. ASSUME NEW c \in 0..count, Intact(c), NEW x \in Keys PROVE slots[Slot(c)][x] = c
    <3>1. CASE c = count
      BY <1>1, <3>1 DEF RingInv, SlotsHold
    <3>2. CASE c # count
      BY <1>3, <2>1, <3>2 DEF RingInv, SlotsHold
    <3> QED  BY <3>1, <3>2
  <2>2. 0..count' - 1 = 0..count
    BY <1>1, <1>3
  <2> QED  BY <1>1, <1>2, <2>1, <2>2 DEF SlotsHold, Intact
<1>8. CopiesHold'
  BY <1>1, <1>2 DEF RingInv, CopiesHold, Intact, reader
<1>9. ASSUME paced PROVE StampedInTime'
  <2>1. ASSUME NEW c \in 0..count, count + 1 <= c + BufferSize
        PROVE  stamps'[Slot(c)] <= since + PutTime - Periods(count - c)
    <3>1. CASE c = count
      <4>1. now <= since + PutTime /\ count - c = 0
        BY <1>1, <1>3, <1>9, <3>1 DEF RingInv, PacedInv
      <4>2. Periods(count - c) = 0
        BY <4>1, PeriodsAdd
      <4> QED  BY <1>3, <1>5, <3>1, <4>1, <4>2
    <3>2. CASE c # count
      <4>1. c \in 0..count - 1 /\ count <= c + BufferSize /\ count < c + BufferSize
        BY <1>3, <2>1, <3>2
      <4>2. stamps'[Slot(c)] = stamps[Slot(c)]
        BY <1>4, <1>5, <4>1
      <4>3. stamps[Slot(c)] <= since + PutTime - Periods((count + 1) - 1 - c)
        BY <1>2, <1>9, <4>1 DEF RingInv, PacedInv, StampedInTime
      <4>4. (count + 1) - 1 - c = count - c
        BY <1>3
      <4> QED  BY <4>2, <4>3, <4>4
    <3> QED  BY <3>1, <3>2
  <2>2. ASSUME NEW i \in count + 1..BufferSize - 1 PROVE stamps'[i] = LongAgo
    <3>1. Slot(count) = count /\ i \in count..BufferSize - 1 /\ i # count
      BY <1>3, FirstSlots
    <3>2. stamps[i] = LongAgo
      BY <1>9, <3>1 DEF RingInv, PacedInv, StampedInTime
    <3> QED  BY <1>3, <1>5, <3>1, <3>2
  <2>3. 0..count' - 1 = 0..count /\ \A c \in 0..count : (count + 1) - 1 - c = count - c
    BY <1>1, <1>3
  <2> QED  BY <1>1, <1>2, <2>1, <2>2, <2>3 DEF StampedInTime
<1>10. PacedInv'
  BY <1>1, <1>2, <1>9 DEF RingInv, PacedInv, WriterBehind, reader
<1>11. BurstInv'
  <2>1. ASSUME k > 0, fresh, count + 1 < seen + BufferSize PROVE stamps'[Slot(seen - 1)] = start
    <3>1. seen - 1 \in 0..count - 1 /\ count < (seen - 1) + BufferSize /\ count < seen + BufferSize
      BY <1>3, <2>1
    <3>2. Slot(seen - 1) # Slot(count) /\ Slot(seen - 1) \in 0..BufferSize - 1
      <4> DEFINE c == seen - 1
      <4>1. c \in Int /\ 0 <= c /\ c < count /\ count < c + BufferSize
        BY <1>3, <3>1
      <4> HIDE DEF c
      <4>2. Slot(c) # Slot(count) /\ Slot(c) \in 0..BufferSize - 1
        <5>1. count \in Int
          BY <1>3
        <5>2. Slot(c) # Slot(count)
          BY <4>1, <5>1, OwnSlot
        <5>3. Slot(c) \in 0..BufferSize - 1
          BY <4>1, SlotIndex
        <5> QED  BY <5>2, <5>3
      <4> QED  BY <4>2 DEF c
    <3>3. stamps[Slot(seen - 1)] = start
      BY <2>1, <3>1 DEF RingInv, BurstInv
    <3> QED  BY <1>5, <3>2, <3>3
  <2> QED  BY <1>1, <1>2, <2>1 DEF RingInv, BurstInv, Intact, reader
<1> QED  BY <1>6, <1>7, <1>8, <1>10, <1>11 DEF RingInv

LEMMA GetStep ==
  ASSUME RingInv, NEW n \in 1..GetMaxK, GetLastK(n)
  PROVE  RingInv'
<1> USE Sizes
<1>1. /\ k = 0 /\ n <= count /\ k' = n /\ seen' = count /\ start' = now
      /\ fresh' = (stamps[Slot(count - 1)] = now) /\ uncopied' = Keys
      /\ out' = [i \in 1..n |-> Unset]
      /\ UNCHANGED <<now, paced, count, slots, stamps, phase, since, unwritten, throttled>>
  BY DEF GetLastK, writer
<1>2. RingTypes /\ Begun' = Begun
  BY <1>1 DEF RingInv, Begun
<1>3. count \in Nat /\ now \in Nat /\ n \in Nat /\ 0 < n /\ Begun \in {count, count + 1}
  BY <1>2 DEF RingTypes, Begun
<1>4. RingTypes'
  <2>1. Unset \in [Keys -> Int]
    BY DEF Unset
  <2> QED  BY <1>1, <1>2, <1>3, <2>1 DEF RingTypes
<1>5. SlotsHold' /\ CopiesHold'
  BY <1>1, <1>2 DEF RingInv, SlotsHold, CopiesHold, Intact
<1>6. PacedInv'
  <2>1. ASSUME paced, Begun > count PROVE since >= now - PutTime + Periods(Begun - 1 - count)
    <3>1. phase = "writing" /\ Begun - 1 - count = 0
      BY <1>3, <2>1 DEF Begun
    <3>2. now <= since + PutTime /\ since \in Int
      BY <1>2, <2>1, <3>1 DEF RingInv, RingTypes, PacedInv
    <3>3. Periods(Begun - 1 - count) = 0
      BY <3>1, PeriodsAdd
    <3> QED  BY <1>3, <3>2, <3>3
  <2> QED  BY <1>1, <1>2, <2>1 DEF RingInv, PacedInv, StampedInTime, WriterBehind
<1>7. BurstInv'
  <2>1. Intact(count - GetMaxK)
    BY <1>3 DEF Intact
  <2>2. Intact(seen - GetMaxK)'
    BY <1>1, <1>2, <2>1 DEF Intact
  <2>3. (phase = "sleeping" => since = stamps[Lookahead(count)])'
    BY <1>1 DEF RingInv, BurstInv, Lookahead, Slot
  <2>4. fresh' => stamps'[Slot(seen' - 1)] = start'
    BY <1>1 DEF Slot
  <2> QED  BY <2>2, <2>3, <2>4 DEF BurstInv
<1> QED  BY <1>4, <1>5, <1>6, <1>7 DEF RingInv

LEMMA CopyStep ==
  ASSUME RingInv, NEW key \in Keys, GetCopy(key)
  PROVE  RingInv'
<1> USE Sizes
<1>1. /\ key \in uncopied /\ uncopied' = uncopied \ {key}
      /\ out' = [i \in 1..k |-> [out[i] EXCEPT ![key] = slots[Slot(seen - k + i - 1)][key]]]
      /\ UNCHANGED <<now, paced, k, seen, start, fresh>>
      /\ UNCHANGED <<count, slots, stamps, phase, since, unwritten, throttled>>
  BY DEF GetCopy, writer
<1>2. RingTypes /\ Begun' = Begun
  BY <1>1 DEF RingInv, Begun
<1>3. /\ k \in Nat /\ seen \in Nat /\ count \in Nat /\ k <= seen /\ seen <= count
      /\ out \in [1..k -> [Keys -> Int]]
      /\ slots \in [0..BufferSize - 1 -> [Keys -> Int]]
  BY <1>2 DEF RingTypes
<1>4. ASSUME NEW i \in 1..k
      PROVE  /\ seen - k + i - 1 \in 0..count - 1
             /\ slots[Slot(seen - k + i - 1)][key] \in Int
             /\ Intact(seen - k) => Intact(seen - k + i - 1)
  <2> DEFINE c == seen - k + i - 1
  <2>1. c \in Int /\ 0 <= c /\ c <= count - 1 /\ seen - k <= c
    BY <1>3
  <2>2. Slot(c) \in 0..BufferSize - 1
    <3> HIDE DEF c
    <3> QED  BY <2>1, SlotIndex
  <2>3. Begun \in Int
    BY <1>3 DEF Begun
  <2> QED  BY <1>3, <2>1, <2>2, <2>3 DEF Intact
<1>5. RingTypes'
  <2>1. out' \in [1..k -> [Keys -> Int]]
    BY <1>1, <1>3, <1>4
  <2> QED  BY <1>1, <1>2, <2>1 DEF RingTypes
<1>6. SlotsHold'
  BY <1>1, <1>2 DEF RingInv, SlotsHold, Intact
<1>7. CopiesHold'
  <2>1. ASSUME k > 0, Intact(seen - k), NEW i \in 1..k, NEW x \in Keys \ uncopied'
        PROVE  out'[i][x] = seen - k + i - 1
    <3> DEFINE c == seen - k + i - 1
    <3>1. c \in 0..count - 1 /\ Intact(c)
      BY <1>4, <2>1
    <3>2. slots[Slot(c)][key] = c
      BY <3>1 DEF RingInv, SlotsHold
    <3> HIDE DEF c
    <3>3. out'[i] = [out[i] EXCEPT ![key] = slots[Slot(c)][key]] /\ out[i] \in [Keys -> Int]
      BY <1>1, <1>3 DEF c
    <3>4. CASE x = key
      BY <3>2, <3>3, <3>4 DEF c
    <3>5. CASE x # key
      <4>1. out'[i][x] = out[i][x] /\ x \in Keys \ uncopied
        BY <1>1, <2>1, <3>3, <3>5
      <4> QED  BY <2>1, <4>1 DEF RingInv, CopiesHold
    <3> QED  BY <3>4, <3>5 DEF c
  <2> QED  BY <1>1, <1>2, <2>1 DEF CopiesHold, Intact
<1>8. PacedInv' /\ BurstInv'
  BY <1>1, <1>2 DEF RingInv, PacedInv, StampedInTime, WriterBehind, BurstInv, Intact
<1> QED  BY <1>5, <1>6, <1>7, <1>8 DEF RingInv

LEMMA EndStep ==
  ASSUME RingInv, GetEnds, UNCHANGED <<now, paced, count, slots, stamps>>,
         UNCHANGED <<phase, since, unwritten, throttled>>
  PROVE  RingInv'
<1> USE Sizes DEF GetEnds
<1>1. RingTypes /\ Begun' = Begun
  BY DEF RingInv, Begun
<1>2. RingTypes'
  <2>1. out' \in [1..0 -> [Keys -> Int]]
    OBVIOUS
  <2>2. k' = 0 /\ seen' = 0 /\ start' = 0 /\ fresh' = FALSE /\ uncopied' = uncopied
    OBVIOUS
  <2>3. out' \in [1..k' -> [Keys -> Int]]
    BY <2>1, <2>2
  <2> HIDE DEF GetEnds
  <2>4. k' \in 0..GetMaxK /\ fresh' \in BOOLEAN /\ seen' \in Nat /\ start' \in Nat
        /\ k' <= seen' /\ seen' <= count' /\ start' <= now'
    <3>1. count \in Nat /\ now \in Nat
      BY <1>1 DEF RingTypes
    <3>2. fresh' \in BOOLEAN
      BY <2>2
    <3> QED  BY <2>2, <3>1, <3>2
  <2>5. /\ UNCHANGED <<now, paced, count, slots, stamps>>
        /\ UNCHANGED <<phase, since, unwritten, throttled, uncopied>>
    BY <2>2
  <2> QED  BY <1>1, <2>3, <2>4, <2>5, Zenon DEF RingTypes
<1>3. SlotsHold' /\ CopiesHold'
  BY <1>1 DEF RingInv, SlotsHold, CopiesHold, Intact
<1>4. PacedInv' /\ BurstInv'
  BY <1>1 DEF RingInv, PacedInv, StampedInTime, WriterBehind, BurstInv
<1> QED  BY <1>2, <1>3, <1>4 DEF RingInv

LEMMA RingInductive == Spec => []RingInv
<1>1. Init => RingInv
  BY Initially
<1>2. RingInv /\ [Next]_vars => RingInv'
  <2> SUFFICES ASSUME RingInv, [Next]_vars PROVE RingInv'
    OBVIOUS
  <2>1. CASE Write
    BY <2>1, PutStep, ThrottledStep, PutWriteStep, PutDoneStep DEF Write
  <2>2. CASE \E n \in 1..GetMaxK : GetLastK(n)
    BY <2>2, GetStep
  <2>3. CASE \E key \in Keys : GetCopy(key)
    BY <2>3, CopyStep
  <2>4. CASE GetTimedOut \/ GetDone
    BY <2>4, EndStep DEF GetTimedOut, GetDone, GetEnds, writer
  <2>5. CASE Tick
    BY <2>5, TickStep
  <2>6. CASE UNCHANGED vars
    <3>1. UNCHANGED <<now, paced, count, slots, stamps, phase, since, unwritten, throttled>>
          /\ UNCHANGED <<k, seen, start, fresh, uncopied, out>>
      BY <2>6 DEF vars, writer, reader
    <3>2. Begun' = Begun
      BY <3>1 DEF Begun
    <3>3. RingTypes' /\ SlotsHold' /\ CopiesHold'
      BY <3>1, <3>2 DEF RingInv, RingTypes, SlotsHold, CopiesHold, Intact
    <3>4. PacedInv' /\ BurstInv'
      BY <3>1, <3>2 DEF RingInv, PacedInv, StampedInTime, WriterBehind, BurstInv, Intact
    <3> QED  BY <3>3, <3>4 DEF RingInv
  <2> QED  BY <2>1, <2>2, <2>3, <2>4, <2>5, <2>6 DEF Next, Read
<1> QED  BY <1>1, <1>2, PTL DEF Spec

(* A reader within its budget has copied items no put had come near.       *)
LEMMA PacedIntact ==
  ASSUME RingInv, paced, k > 0, Took <= Budget
  PROVE  Intact(seen - k)
<1> USE Sizes
<1> DEFINE C == BufferSize - GetMaxK
<1>1. /\ k \in 1..GetMaxK /\ seen \in Nat /\ start \in Nat /\ now \in Nat /\ since \in Int
      /\ Begun \in Nat /\ since <= now /\ now - start <= Budget
  BY DEF RingInv, RingTypes, PacedInv, Begun, Took
<1>2. ASSUME Begun > seen - k + BufferSize PROVE FALSE
  <2>1. C \in Int /\ C > 0 /\ Begun - 1 - seen \in Int /\ C <= Begun - 1 - seen /\ Begun > seen
    BY <1>1, <1>2
  <2>2. since >= start - PutTime + Periods(Begun - 1 - seen)
    BY <2>1 DEF RingInv, PacedInv, WriterBehind
  <2>3. Periods(C) <= Periods(Begun - 1 - seen) /\ Periods(C) \in Int
        /\ Periods(Begun - 1 - seen) \in Int
    BY <2>1, PeriodsAdd
  <2>4. 2 * Periods(C) >= 3 * Budget
    OBVIOUS
  <2> QED  BY <1>1, <2>2, <2>3, <2>4
<1> QED  BY <1>1, <1>2 DEF Intact

(* shared_memory_ring_buffer.py:40-48,134-145: a writer that keeps to      *)
(* put_desired_frequency is never throttled, and what get_last_k returns   *)
(* within the budget are the newest items, whole and in order - for every  *)
(* get_max_k, budget and frequency.                                        *)
THEOREM PacedReads == Spec => []PacedReadWhole
<1>1. RingInv => PacedReadWhole
  <2> SUFFICES ASSUME RingInv, paced
               PROVE  ~throttled /\ (Copied /\ Took <= Budget => Whole)
    BY DEF PacedReadWhole
  <2>1. ~throttled
    BY DEF RingInv, PacedInv
  <2>2. ASSUME Copied, Took <= Budget PROVE Whole
    <3>1. Intact(seen - k)
      BY <2>2, PacedIntact DEF Copied
    <3> QED  BY <2>2, <3>1 DEF RingInv, CopiesHold, Copied, Whole
  <2> QED  BY <2>1, <2>2
<1> QED  BY <1>1, RingInductive, PTL

(* shared_memory_ring_buffer.py:124-145: however the writer bursts, a read *)
(* whose newest item was stamped when it began is whole for the budget.    *)
THEOREM BurstReads == Spec => []BurstReadWhole
<1>1. RingInv => BurstReadWhole
  <2> SUFFICES ASSUME RingInv, fresh, Copied, Took < Budget PROVE Whole
    BY DEF BurstReadWhole
  <2>1. /\ k \in 1..GetMaxK /\ seen \in Nat /\ start \in Nat /\ now \in Nat /\ Begun \in Nat
        /\ now - start < Budget
    BY Sizes DEF RingInv, RingTypes, Copied, Begun, Took
  <2>2. Intact(seen - GetMaxK)
    BY <2>1, Sizes DEF RingInv, BurstInv
  <2>3. Intact(seen - k)
    BY <2>1, <2>2, Sizes DEF Intact
  <2> QED  BY <2>3 DEF RingInv, CopiesHold, Copied, Whole
<1> QED  BY <1>1, RingInductive, PTL
=============================================================================
