----------------------- MODULE SharedMemoryQueueProofs -----------------------
(***************************************************************************)
(* Proofs about SharedMemoryQueue, for every buffer size, set of commands  *)
(* and number of puts: it implements CommandFifo.                          *)
(*                                                                         *)
(* The inductive invariant says which slots each process may rely on.  The *)
(* slots between the two counters are whole and nobody writes them; the    *)
(* slot at write_counter is the writer's alone, which is where Full and    *)
(* the arithmetic modulo the buffer size (ModDistinct) are needed.         *)
(***************************************************************************)
EXTENDS SharedMemoryQueue, SequenceTheorems, TLAPS

(* What the writer may rely on. *)
WriterInv ==
  /\ putting = None => unwritten = {}
  /\ putting # None =>
       /\ Filled < BufferSize
       /\ \A key \in Given[putting] \ unwritten :
            slots[Slot(writeCounter)][key] = putting

(* What the reader may rely on. *)
ReaderInv ==
  /\ getting <= Filled
  /\ getting > 0 => clearing = None
  /\ getting = 0 => uncopied = {} /\ out = <<>>
  /\ \A i \in 1..getting, key \in Keys \ uncopied :
       out[i][key] = slots[Slot(readCounter + i - 1)][key]
  /\ clearing # None => clearing \in readCounter..writeCounter

FilledWhole == \A c \in readCounter..writeCounter - 1 : Whole(slots[Slot(c)])

QueueInv ==
  /\ QueueTypeOK
  /\ Filled \in 0..BufferSize
  /\ WriterInv
  /\ ReaderInv
  /\ FilledWhole
  /\ DeliveredWhole
-----------------------------------------------------------------------------
(* Two counts less than a buffer apart have slots of their own: the        *)
(* arithmetic behind write_count % buffer_size                             *)
(* (shared_memory_queue.py:97, 121, 157).                                  *)
LEMMA DivMod ==
  ASSUME NEW N \in Nat, N > 0, NEW a \in Nat
  PROVE  a = N * (a \div N) + (a % N) /\ a % N \in 0..N - 1 /\ a \div N \in Nat
BY SMT

LEMMA NoMultipleBetween ==
  ASSUME NEW N \in Nat, N > 0, NEW d \in Int, 0 < N * d, N * d < N
  PROVE  FALSE
<1>1. CASE d <= 0
  <2>1. N * d <= 0  BY <1>1, SMT
  <2> QED  BY <2>1
<1>2. CASE d >= 1
  <2>1. N * d >= N  BY <1>2, SMT
  <2> QED  BY <2>1
<1> QED  BY <1>1, <1>2

LEMMA ModDistinct ==
  ASSUME NEW N \in Nat, N > 0, NEW a \in Nat, NEW b \in Nat, a < b, b < a + N
  PROVE  a % N # b % N
<1> SUFFICES ASSUME a % N = b % N PROVE FALSE
  OBVIOUS
<1> DEFINE qa == a \div N
           qb == b \div N
<1>1. a = N * qa + (a % N) /\ b = N * qb + (b % N) /\ qa \in Nat /\ qb \in Nat
      /\ a % N \in Nat
  BY DivMod
<1> HIDE DEF qa, qb
<1>2. N * qb - N * qa = b - a  BY <1>1, SMT
<1>3. N * (qb - qa) = N * qb - N * qa  BY <1>1, SMT
<1>4. 0 < N * (qb - qa) /\ N * (qb - qa) < N  BY <1>2, <1>3
<1>5. qb - qa \in Int  BY <1>1
<1> QED  BY <1>4, <1>5, NoMultipleBetween
-----------------------------------------------------------------------------
LEMMA SlotIndex ==
  ASSUME NEW c \in Nat
  PROVE  Slot(c) \in 0..BufferSize - 1
BY DivMod, QueueAssumption DEF Slot

(* The writer's slot is none of the filled ones. *)
LEMMA WriterSlotFree ==
  ASSUME QueueTypeOK, Filled \in 0..BufferSize - 1,
         NEW c \in readCounter..writeCounter - 1
  PROVE  Slot(c) # Slot(writeCounter)
<1>1. c \in Nat /\ c < writeCounter /\ writeCounter < c + BufferSize
      /\ BufferSize \in Nat /\ BufferSize > 0 /\ writeCounter \in Nat
  BY QueueAssumption DEF QueueTypeOK, Filled
<1> QED  BY <1>1, ModDistinct DEF Slot
-----------------------------------------------------------------------------
LEMMA InitInv == Init => QueueInv
<1> SUFFICES ASSUME Init PROVE QueueInv
  OBVIOUS
<1> USE QueueAssumption DEF Init
<1>1. QueueTypeOK
  <2>1. slots \in [0..BufferSize - 1 -> Row]
    BY DEF Row, Nothing
  <2>2. out = [i \in 1..getting |-> Nothing]
    OBVIOUS
  <2>3. out \in [1..getting -> Row] /\ returned \in Seq(Row)
    BY <2>2
  <2>4. /\ writeCounter \in Nat /\ readCounter \in Nat
        /\ putting \in Items \union {None} /\ unwritten \in SUBSET Keys
        /\ refused \in BOOLEAN
        /\ getting \in 0..BufferSize /\ uncopied \in SUBSET Keys
        /\ clearing \in Nat \union {None}
    <3>1. BufferSize \in Nat
      OBVIOUS
    <3>2. getting = 0 /\ 0 \in 0..BufferSize
      BY <3>1
    <3>3. putting = None /\ clearing = None /\ refused = FALSE
      OBVIOUS
    <3>4. writeCounter = 0 /\ readCounter = 0 /\ unwritten = {} /\ uncopied = {}
      OBVIOUS
    <3> HIDE DEF Init
    <3> QED  BY <3>2, <3>3, <3>4
  <2> HIDE DEF Init
  <2> QED  BY <2>1, <2>3, <2>4 DEF QueueTypeOK
<1>2. Filled \in 0..BufferSize
  BY DEF Filled
<1>3. WriterInv
  BY DEF WriterInv
<1>4. ReaderInv
  BY DEF ReaderInv, Filled
<1>5. FilledWhole
  BY DEF FilledWhole
<1>6. DeliveredWhole
  BY DEF DeliveredWhole
<1> QED  BY <1>1, <1>2, <1>3, <1>4, <1>5, <1>6 DEF QueueInv

(* Writing a key touches the writer's slot only, so every filled slot and  *)
(* every slot the reader copies stay as they are.                          *)
LEMMA PutWriteInv ==
  ASSUME QueueInv, NEW key \in Keys, PutWrite(key)
  PROVE  QueueInv'
<1> USE QueueAssumption DEF PutWrite, reader
<1>1. putting # None /\ putting \in Items /\ Filled \in 0..BufferSize - 1
  BY DEF QueueInv, QueueTypeOK, WriterInv, Filled
<1>2. writeCounter \in Nat /\ readCounter \in Nat /\ Slot(writeCounter) \in 0..BufferSize - 1
  BY SlotIndex DEF QueueInv, QueueTypeOK
<1>3. QueueTypeOK'
  BY <1>1, <1>2 DEF QueueInv, QueueTypeOK, Row
<1>4. \A c \in readCounter..writeCounter - 1 : slots'[Slot(c)] = slots[Slot(c)]
  <2> TAKE c \in readCounter..writeCounter - 1
  <2>1. Slot(c) # Slot(writeCounter)
    BY <1>1, WriterSlotFree DEF QueueInv
  <2>2. Slot(c) \in 0..BufferSize - 1
    BY <1>2, SlotIndex
  <2> QED  BY <2>1, <2>2 DEF QueueInv, QueueTypeOK
<1>5. WriterInv'
  <2>1. slots'[Slot(writeCounter)] = [slots[Slot(writeCounter)] EXCEPT ![key] = putting]
    BY <1>2 DEF QueueInv, QueueTypeOK
  <2>2. \A k \in Given[putting] \ (unwritten \ {key}) :
          slots'[Slot(writeCounter)][k] = putting
    <3> TAKE k \in Given[putting] \ (unwritten \ {key})
    <3>1. k \in Keys
      BY <1>1
    <3>2. slots[Slot(writeCounter)] \in Row
      BY <1>2 DEF QueueInv, QueueTypeOK
    <3> QED  BY <1>1, <2>1, <3>1, <3>2 DEF QueueInv, WriterInv, Row
  <2> QED  BY <1>1, <2>2 DEF WriterInv, Filled, Slot
<1>6. ReaderInv'
  <2>1. \A i \in 1..getting : readCounter + i - 1 \in readCounter..writeCounter - 1
    BY <1>2 DEF QueueInv, ReaderInv, QueueTypeOK, Filled
  <2>2. \A i \in 1..getting, k \in Keys \ uncopied :
          out[i][k] = slots'[Slot(readCounter + i - 1)][k]
    BY <1>4, <2>1 DEF QueueInv, ReaderInv
  <2> QED  BY <2>2 DEF QueueInv, ReaderInv, Filled, Slot
<1>7. FilledWhole'
  BY <1>4 DEF QueueInv, FilledWhole, Whole, Slot
<1> QED  BY <1>3, <1>5, <1>6, <1>7 DEF QueueInv, Filled, DeliveredWhole, Whole

LEMMA PutDoneInv ==
  ASSUME QueueInv, PutDone
  PROVE  QueueInv'
<1> USE QueueAssumption DEF PutDone, PutCounted, reader
<1>1. putting \in Items /\ Filled \in 0..BufferSize - 1
      /\ writeCounter \in Nat /\ readCounter \in Nat
  BY DEF QueueInv, QueueTypeOK, WriterInv, Filled
<1>2. Whole(slots[Slot(writeCounter)])
  BY <1>1 DEF QueueInv, WriterInv, Whole
<1>3. QueueTypeOK'
  BY <1>1 DEF QueueInv, QueueTypeOK
<1>4. WriterInv'
  BY DEF QueueInv, WriterInv
<1>5. Filled' \in 0..BufferSize /\ Filled' = Filled + 1
  BY <1>1 DEF Filled
<1>6. ReaderInv'
  <2>1. getting <= Filled'
    BY <1>1, <1>5 DEF QueueInv, QueueTypeOK, ReaderInv, Filled
  <2>2. clearing # None => clearing \in readCounter..writeCounter'
    BY <1>1 DEF QueueInv, ReaderInv
  <2> QED  BY <2>1, <2>2 DEF QueueInv, ReaderInv, Filled, Slot
<1>7. FilledWhole'
  <2>1. \A c \in readCounter..writeCounter' - 1 :
          c \in readCounter..writeCounter - 1 \/ c = writeCounter
    BY <1>1
  <2>2. \A c \in readCounter..writeCounter' - 1 : Whole(slots[Slot(c)])
    BY <1>2, <2>1 DEF QueueInv, FilledWhole
  <2> QED  BY <2>2 DEF FilledWhole, Whole, Slot
<1> QED  BY <1>3, <1>4, <1>5, <1>6, <1>7 DEF QueueInv, DeliveredWhole, Whole

LEMMA GetDoneInv ==
  ASSUME QueueInv, GetDone
  PROVE  QueueInv'
<1> USE QueueAssumption DEF GetDone, GetReturns, writer
<1>1. getting \in 1..Filled /\ writeCounter \in Nat /\ readCounter \in Nat
      /\ getting \in Nat
  BY DEF QueueInv, QueueTypeOK, ReaderInv, Filled
<1>2. \A i \in 1..getting : readCounter + i - 1 \in readCounter..writeCounter - 1
  BY <1>1 DEF Filled
<1>3. \A i \in 1..getting : out[i] = slots[Slot(readCounter + i - 1)]
  <2> TAKE i \in 1..getting
  <2>1. Slot(readCounter + i - 1) \in 0..BufferSize - 1
    BY <1>1, SlotIndex
  <2>2. out[i] \in Row /\ slots[Slot(readCounter + i - 1)] \in Row
    BY <2>1 DEF QueueInv, QueueTypeOK
  <2>3. \A key \in Keys : out[i][key] = slots[Slot(readCounter + i - 1)][key]
    BY DEF QueueInv, ReaderInv
  <2> QED  BY <2>2, <2>3 DEF Row
<1>4. QueueTypeOK'
  BY <1>1 DEF QueueInv, QueueTypeOK
<1>5. DeliveredWhole'
  <2>1. DOMAIN out = 1..getting
    BY DEF QueueInv, QueueTypeOK
  <2> QED  BY <1>2, <1>3, <2>1 DEF QueueInv, FilledWhole, DeliveredWhole, Whole
<1>6. ReaderInv'
  BY <1>1 DEF QueueInv, ReaderInv, Filled
<1>7. FilledWhole'
  <2>1. \A c \in readCounter'..writeCounter - 1 : c \in readCounter..writeCounter - 1
    BY <1>1
  <2>2. \A c \in readCounter'..writeCounter - 1 : Whole(slots[Slot(c)])
    BY <2>1 DEF QueueInv, FilledWhole
  <2> QED  BY <2>2 DEF FilledWhole, Whole, Slot
<1>8. WriterInv' /\ Filled' \in 0..BufferSize
  BY <1>1 DEF QueueInv, WriterInv, Filled, Slot
<1> QED  BY <1>4, <1>5, <1>6, <1>7, <1>8 DEF QueueInv

LEMMA NextInv == QueueInv /\ [Next]_vars => QueueInv'
<1> SUFFICES ASSUME QueueInv, [Next]_vars PROVE QueueInv'
  OBVIOUS
<1> USE QueueAssumption
<1>1. CASE PutFull
  BY <1>1 DEF PutFull, reader, QueueInv, QueueTypeOK, WriterInv, ReaderInv, FilledWhole,
     DeliveredWhole, Whole, Filled, Slot
<1>2. ASSUME NEW item \in Items, PutStart(item) PROVE QueueInv'
  <2> USE <1>2 DEF PutStart, reader
  <2>1. QueueTypeOK'
    BY DEF QueueInv, QueueTypeOK
  <2>2. WriterInv'
    BY DEF WriterInv, Filled
  <2> QED  BY <2>1, <2>2 DEF QueueInv, ReaderInv, FilledWhole, DeliveredWhole, Whole, Filled, Slot
<1>3. ASSUME NEW key \in Keys, PutWrite(key) PROVE QueueInv'
  BY <1>3, PutWriteInv
<1>4. CASE PutDone
  BY <1>4, PutDoneInv
<1>5. ASSUME NEW k \in 1..BufferSize, GetStart(k) PROVE QueueInv'
  <2> USE <1>5 DEF GetStart, ReaderIdle, writer
  <2>1. QueueTypeOK'
    BY DEF QueueInv, QueueTypeOK, Nothing, Row
  <2>2. ReaderInv'
    BY DEF QueueInv, QueueTypeOK, ReaderInv, Filled
  <2> QED  BY <2>1, <2>2 DEF QueueInv, WriterInv, FilledWhole, DeliveredWhole, Whole, Filled, Slot
<1>6. ASSUME NEW key \in Keys, GetCopy(key) PROVE QueueInv'
  <2> USE <1>6 DEF GetCopy, writer
  <2>1. \A i \in 1..getting : slots[Slot(readCounter + i - 1)] \in Row /\ out[i] \in Row
    <3> TAKE i \in 1..getting
    <3>1. readCounter + i - 1 \in Nat
      BY DEF QueueInv, QueueTypeOK
    <3> QED  BY <3>1, SlotIndex DEF QueueInv, QueueTypeOK
  <2>2. QueueTypeOK'
    BY <2>1 DEF QueueInv, QueueTypeOK, Row
  <2>3. \A i \in 1..getting, k \in Keys \ (uncopied \ {key}) :
          out'[i][k] = slots[Slot(readCounter + i - 1)][k]
    BY <2>1 DEF QueueInv, ReaderInv, Row
  <2>4. getting > 0
    BY DEF QueueInv, QueueTypeOK, ReaderInv
  <2>5. ReaderInv'
    BY <2>3, <2>4 DEF QueueInv, ReaderInv, Filled, Slot
  <2> QED  BY <2>2, <2>5 DEF QueueInv, WriterInv, FilledWhole, DeliveredWhole, Whole, Filled, Slot
<1>7. CASE GetDone
  BY <1>7, GetDoneInv
<1>8. CASE ClearLoad
  <2> USE <1>8 DEF ClearLoad, ReaderIdle, writer
  <2>1. QueueTypeOK'
    BY DEF QueueInv, QueueTypeOK
  <2>2. ReaderInv'
    BY DEF QueueInv, QueueTypeOK, ReaderInv, Filled
  <2> QED  BY <2>1, <2>2 DEF QueueInv, WriterInv, FilledWhole, DeliveredWhole, Whole, Filled, Slot
<1>9. CASE ClearStore
  <2> USE <1>9 DEF ClearStore, writer
  <2>1. clearing \in readCounter..writeCounter /\ clearing \in Nat /\ getting = 0
        /\ writeCounter \in Nat /\ readCounter \in Nat
    BY DEF QueueInv, QueueTypeOK, ReaderInv
  <2>2. QueueTypeOK'
    BY <2>1 DEF QueueInv, QueueTypeOK
  <2>3. ReaderInv'
    BY <2>1 DEF QueueInv, ReaderInv, Filled
  <2>4. FilledWhole'
    <3>1. \A c \in readCounter'..writeCounter - 1 : c \in readCounter..writeCounter - 1
      BY <2>1
    <3>2. \A c \in readCounter'..writeCounter - 1 : Whole(slots[Slot(c)])
      BY <3>1 DEF QueueInv, FilledWhole
    <3> QED  BY <3>2 DEF FilledWhole, Whole, Slot
  <2>5. WriterInv' /\ Filled' \in 0..BufferSize
    BY <2>1 DEF QueueInv, WriterInv, Filled, Slot
  <2> QED  BY <2>2, <2>3, <2>4, <2>5 DEF QueueInv, DeliveredWhole, Whole
<1>10. CASE UNCHANGED vars
  BY <1>10 DEF vars, writer, reader, QueueInv, QueueTypeOK, WriterInv, ReaderInv, FilledWhole,
     DeliveredWhole, Whole, Filled, Slot
<1> QED
  BY <1>1, <1>2, <1>3, <1>4, <1>5, <1>6, <1>7, <1>8, <1>9, <1>10 DEF Next, Put, Get

LEMMA AlwaysInv == Spec => []QueueInv
BY InitInv, NextInv, PTL DEF Spec

(* Every array access stays inside its array and every value in it is a    *)
(* command or the untouched initial one, whatever the two processes'       *)
(* interleaving (shared_memory_queue.py:22-128).                           *)
THEOREM TypeCorrect == Spec => []QueueTypeOK
<1>1. QueueInv => QueueTypeOK
  BY DEF QueueInv
<1> QED  BY <1>1, AlwaysInv, PTL

(* A get never returns a command the writer was still writing or writing   *)
(* over (shared_memory_queue.py:99-128).                                   *)
THEOREM DeliveredIsWhole == Spec => []DeliveredWhole
<1>1. QueueInv => DeliveredWhole
  BY DEF QueueInv
<1> QED  BY <1>1, AlwaysInv, PTL
-----------------------------------------------------------------------------
(* The refinement.                                                         *)
LEMMA ContentSeq ==
  ASSUME QueueInv
  PROVE  /\ Content \in Seq(Items)
         /\ Len(Content) = Filled
         /\ DOMAIN Content = 1..Filled
         /\ Filled \in Nat /\ Filled <= BufferSize
<1>1. Filled \in 0..BufferSize /\ Filled \in Nat /\ readCounter \in Nat /\ writeCounter \in Nat
  BY QueueAssumption DEF QueueInv, QueueTypeOK
<1>2. \A i \in 1..Filled : readCounter + i - 1 \in readCounter..writeCounter - 1
  BY <1>1 DEF Filled
<1>3. \A i \in 1..Filled : slots[Slot(readCounter + i - 1)][Cmd] \in Items
  BY <1>2 DEF QueueInv, FilledWhole, Whole
<1>4. Content \in [1..Filled -> Items]
  BY <1>3 DEF Content
<1> HIDE DEF Content
<1>5. Content \in Seq(Items) /\ Len(Content) = Filled
  BY <1>1, <1>4
<1> QED  BY <1>1, <1>4, <1>5, QueueAssumption

(* A step that leaves the counters and the filled slots alone is a stutter *)
(* of the abstract queue.                                                  *)
LEMMA ContentKept ==
  ASSUME QueueInv, UNCHANGED <<writeCounter, readCounter>>,
         \A c \in readCounter..writeCounter - 1 : slots'[Slot(c)] = slots[Slot(c)]
  PROVE  Content' = Content
<1>1. readCounter \in Nat /\ writeCounter \in Nat
  BY DEF QueueInv, QueueTypeOK
<1>2. \A i \in 1..Filled : readCounter + i - 1 \in readCounter..writeCounter - 1
  BY <1>1 DEF Filled
<1>3. \A i \in 1..Filled : slots'[Slot(readCounter + i - 1)] = slots[Slot(readCounter + i - 1)]
  BY <1>2
<1> QED  BY <1>3 DEF Content, Filled, Slot

LEMMA WriteStutters ==
  ASSUME QueueInv, NEW key \in Keys, PutWrite(key)
  PROVE  UNCHANGED <<Content, Taken, refused>>
<1> USE QueueAssumption DEF PutWrite, reader
<1>1. putting # None /\ Filled \in 0..BufferSize - 1 /\ readCounter \in Nat
  BY DEF QueueInv, QueueTypeOK, WriterInv, Filled
<1>2. \A c \in readCounter..writeCounter - 1 : slots'[Slot(c)] = slots[Slot(c)]
  <2> TAKE c \in readCounter..writeCounter - 1
  <2>1. Slot(c) # Slot(writeCounter)
    BY <1>1, WriterSlotFree DEF QueueInv
  <2>2. c \in Nat
    BY <1>1
  <2>3. Slot(c) \in 0..BufferSize - 1
    BY <2>2, SlotIndex
  <2> QED  BY <2>1, <2>3 DEF QueueInv, QueueTypeOK
<1> QED  BY <1>2, ContentKept DEF Taken

LEMMA PutDoneAccepts ==
  ASSUME QueueInv, PutDone
  PROVE  Fifo!Accept(putting) /\ putting \in Items
<1> USE QueueAssumption DEF PutDone, PutCounted, reader
<1>1. putting \in Items /\ Filled \in 0..BufferSize - 1
      /\ writeCounter \in Nat /\ readCounter \in Nat /\ Filled' = Filled + 1
  BY DEF QueueInv, QueueTypeOK, WriterInv, Filled
<1>2. slots[Slot(writeCounter)][Cmd] = putting
  BY <1>1 DEF QueueInv, WriterInv
<1>3. readCounter + Filled' - 1 = writeCounter
  BY <1>1 DEF Filled
<1>4. Content' = [i \in 1..Filled + 1 |-> slots[Slot(readCounter + i - 1)][Cmd]]
  BY <1>1 DEF Content, Filled, Slot
<1>5. Append(Content, putting) =
        [i \in 1..Filled + 1 |-> IF i = Filled + 1 THEN putting ELSE Content[i]]
  <2> DEFINE longer == Append(Content, putting)
  <2>1. Content \in Seq(Items) /\ Len(Content) = Filled
    BY ContentSeq
  <2>2. /\ longer \in Seq(Items)
        /\ Len(longer) = Filled + 1
        /\ \A i \in 1..Filled : longer[i] = Content[i]
        /\ longer[Filled + 1] = putting
    <3>1. /\ longer \in Seq(Items)
          /\ Len(longer) = Len(Content) + 1
          /\ \A i \in 1..Len(Content) : longer[i] = Content[i]
          /\ longer[Len(Content) + 1] = putting
      BY <1>1, <2>1, AppendProperties
    <3> QED  BY <2>1, <3>1
  <2> HIDE DEF longer
  <2>3. DOMAIN longer = 1..Filled + 1 /\ longer = [i \in 1..Filled + 1 |-> longer[i]]
    BY <2>2
  <2>4. \A i \in 1..Filled + 1 :
          longer[i] = IF i = Filled + 1 THEN putting ELSE Content[i]
    BY <1>1, <2>2
  <2>5. longer = [i \in 1..Filled + 1 |-> IF i = Filled + 1 THEN putting ELSE Content[i]]
    BY <2>3, <2>4
  <2> QED  BY <2>5 DEF longer
<1>6. \A i \in 1..Filled + 1 :
        slots[Slot(readCounter + i - 1)][Cmd] =
          IF i = Filled + 1 THEN putting ELSE Content[i]
  <2> HIDE QueueAssumption DEF PutDone, PutCounted, reader
  <2>1. \A i \in 1..Filled : Content[i] = slots[Slot(readCounter + i - 1)][Cmd]
    BY DEF Content
  <2>2. readCounter + (Filled + 1) - 1 = writeCounter
    BY <1>1, <1>3
  <2> TAKE i \in 1..Filled + 1
  <2>3. CASE i = Filled + 1
    BY <1>2, <2>2, <2>3
  <2>4. CASE i # Filled + 1
    <3>1. i \in 1..Filled
      BY <1>1, <2>4
    <3> QED  BY <2>1, <2>4, <3>1
  <2> QED  BY <2>3, <2>4
<1>7. Content' = Append(Content, putting)
  BY <1>4, <1>5, <1>6
<1>8. Len(Content) < BufferSize
  BY <1>1, ContentSeq
<1> QED  BY <1>1, <1>7, <1>8 DEF Fifo!Accept, Taken

(* Moving read_counter forward by k drops the first k commands. *)
LEMMA ContentDropped ==
  ASSUME QueueInv, NEW k \in 0..Filled, readCounter' = readCounter + k,
         UNCHANGED <<slots, writeCounter>>
  PROVE  Content' = Fifo!Rest(k)
<1>1. writeCounter \in Nat /\ readCounter \in Nat /\ k \in Nat /\ Filled \in Nat
      /\ Filled' = Filled - k
  BY QueueAssumption DEF QueueInv, QueueTypeOK, Filled
<1>2. Content' = [i \in 1..Filled - k |-> slots[Slot(readCounter + k + i - 1)][Cmd]]
  BY <1>1 DEF Content, Filled, Slot
<1>3. Fifo!Rest(k) = SubSeq(Content, k + 1, Filled)
  BY ContentSeq DEF Fifo!Rest
<1>4. SubSeq(Content, k + 1, Filled) = [i \in 1..Filled - k |-> Content[k + i]]
  BY <1>1, ContentSeq
<1>5. \A i \in 1..Filled - k :
        Content[k + i] = slots[Slot(readCounter + k + i - 1)][Cmd]
  BY <1>1 DEF Content
<1> QED  BY <1>2, <1>3, <1>4, <1>5

LEMMA GetDoneTakes ==
  ASSUME QueueInv, GetDone
  PROVE  getting \in 1..Len(Content) /\ Fifo!Take(getting)
<1> USE DEF GetDone, GetReturns, writer
<1>1. getting \in 1..Filled /\ getting \in Nat /\ readCounter \in Nat
  BY DEF QueueInv, QueueTypeOK, ReaderInv
<1>2. Content' = Fifo!Rest(getting)
  BY <1>1, ContentDropped, ContentSeq
<1>3. Taken' = [i \in 1..getting |-> out[i][Cmd]]
  BY DEF Taken, QueueInv, QueueTypeOK
<1>4. \A i \in 1..getting : out[i][Cmd] = Content[i]
  BY <1>1, QueueAssumption DEF Content, QueueInv, ReaderInv
<1>5. SubSeq(Content, 1, getting) = [i \in 1..getting |-> Content[i]]
  BY <1>1, ContentSeq
<1>6. Taken' = SubSeq(Content, 1, getting)
  BY <1>3, <1>4, <1>5
<1> QED  BY <1>1, <1>2, <1>6, ContentSeq DEF Fifo!Take

LEMMA NextRefines == QueueInv /\ [Next]_vars => [Fifo!Next]_(Fifo!fifo)
<1> SUFFICES ASSUME QueueInv, [Next]_vars
             PROVE  Fifo!Next \/ UNCHANGED <<Content, Taken, refused>>
  BY DEF Fifo!fifo
<1>1. CASE PutFull
  <2>1. Filled = BufferSize
    BY <1>1, QueueAssumption DEF PutFull, QueueInv, Filled
  <2>2. UNCHANGED <<Content, Taken>>
    BY <1>1, ContentKept DEF PutFull, reader, Taken, Slot
  <2>3. Fifo!Refuse
    BY <1>1, <2>1, <2>2, ContentSeq DEF Fifo!Refuse, PutFull
  <2> QED  BY <2>3 DEF Fifo!Next
<1>2. ASSUME NEW item \in Items, PutStart(item)
      PROVE  UNCHANGED <<Content, Taken, refused>>
  BY <1>2, ContentKept DEF PutStart, reader, Taken, Slot
<1>3. ASSUME NEW key \in Keys, PutWrite(key)
      PROVE  UNCHANGED <<Content, Taken, refused>>
  BY <1>3, WriteStutters
<1>4. CASE PutDone
  BY <1>4, PutDoneAccepts DEF Fifo!Next
<1>5. ASSUME NEW k \in 1..BufferSize, GetStart(k)
      PROVE  UNCHANGED <<Content, Taken, refused>>
  BY <1>5, ContentKept DEF GetStart, writer, Taken, Slot
<1>6. ASSUME NEW key \in Keys, GetCopy(key)
      PROVE  UNCHANGED <<Content, Taken, refused>>
  BY <1>6, ContentKept DEF GetCopy, writer, Taken, Slot
<1>7. CASE GetDone
  BY <1>7, GetDoneTakes DEF Fifo!Next
<1>8. CASE ClearLoad
  BY <1>8, ContentKept DEF ClearLoad, writer, Taken, Slot
<1>9. CASE ClearStore
  <2> DEFINE k == clearing - readCounter
  <2>1. k \in 0..Filled /\ readCounter' = readCounter + k
    BY <1>9 DEF ClearStore, QueueInv, QueueTypeOK, ReaderInv, Filled
  <2>2. Content' = Fifo!Rest(k) /\ UNCHANGED <<Taken, refused>>
    <3> HIDE DEF k
    <3> QED  BY <1>9, <2>1, ContentDropped DEF ClearStore, writer, Taken
  <2> HIDE DEF k
  <2>3. CASE k = 0
    <3>1. Content' = Content
      BY <1>9, <2>1, <2>3, ContentKept DEF ClearStore, Slot, QueueInv, QueueTypeOK
    <3> QED  BY <2>2, <3>1
  <2>4. CASE k # 0
    <3>1. k \in 1..Len(Content)
      BY <2>1, <2>4, ContentSeq
    <3> QED  BY <2>2, <3>1 DEF Fifo!Next, Fifo!Discard
  <2> QED  BY <2>3, <2>4
<1>10. CASE UNCHANGED vars
  BY <1>10, ContentKept DEF vars, writer, reader, Taken, Slot
<1> QED
  BY <1>1, <1>2, <1>3, <1>4, <1>5, <1>6, <1>7, <1>8, <1>9, <1>10 DEF Next, Put, Get

LEMMA InitRefines == Init => Fifo!Init
<1> SUFFICES ASSUME Init PROVE Content = <<>> /\ Taken = <<>> /\ refused = FALSE
  BY DEF Fifo!Init
<1>1. Filled = 0
  BY DEF Init, Filled
<1>2. 1..Filled = {} /\ DOMAIN returned = {}
  BY <1>1 DEF Init
<1>3. Content = <<>>
  BY <1>2 DEF Content
<1>4. Taken = <<>>
  BY <1>2 DEF Taken
<1> QED  BY <1>3, <1>4 DEF Init

(* The lock-free queue implements the bounded FIFO queue for every buffer  *)
(* size, set of keys and commands: no command is lost, repeated, torn or   *)
(* overtaken (shared_memory_queue.py:87-177).                              *)
THEOREM ImplementsFifo == Spec => QueueIsFifo
BY InitRefines, NextRefines, AlwaysInv, PTL DEF Spec, QueueIsFifo, Fifo!Spec
=============================================================================
