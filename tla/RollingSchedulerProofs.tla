----------------------- MODULE RollingSchedulerProofs -----------------------
(***************************************************************************)
(* Safety of RollingScheduler for every configuration that satisfies       *)
(* ConfigAssumption: every horizon, commit limit, mode and chunk.  First   *)
(* come lemmas about sequences and about the operators the scheduler is    *)
(* built from, then the safety invariants, the pace and order of what is   *)
(* sent, and the refinement of CommitPipeline.                             *)
(***************************************************************************)
EXTENDS RollingScheduler, TLAPS, WellFoundedInduction, FiniteSetTheorems,
        SequenceTheorems

-----------------------------------------------------------------------------
(* Sequences built as functions.                                           *)

(* A function on 1..n is a sequence of length n.                           *)
LEMMA FunctionIsSequence ==
  ASSUME NEW S, NEW n \in Nat, NEW f \in [1..n -> S]
  PROVE  f \in Seq(S) /\ Len(f) = n /\ DOMAIN f = 1..n
<1>1. f \in Seq(S)
  BY SeqDef
<1>2. Len(f) \in Nat /\ DOMAIN f = 1..Len(f)
  BY <1>1, LenProperties
<1>3. QED
  BY <1>1, <1>2

(* A nonempty set of naturals has a least element.                         *)
LEMMA LeastElement ==
  ASSUME NEW T, T \subseteq Nat, T # {}
  PROVE  \E m \in T : \A n \in T : m <= n
<1> DEFINE R == {ss \in Nat \X Nat : ss[1] < ss[2]}
<1>1. IsWellFoundedOn(R, Nat)
  BY NatLessThanWellFounded DEF OpToRel
<1> HIDE DEF R
<1>2. PICK m \in T : \A n \in T : ~(<<n, m>> \in R)
  BY <1>1, WFMin
<1>3. \A n \in T : ~(n < m)
  BY <1>2 DEF R
<1>4. QED
  BY <1>2, <1>3

(* Induction over the naturals, for a set instead of a predicate.          *)
LEMMA SetInduction ==
  ASSUME NEW S, 0 \in S, \A n \in Nat : n \in S => n + 1 \in S
  PROVE  \A n \in Nat : n \in S
<1>1. SUFFICES ASSUME Nat \ S # {} PROVE FALSE
  OBVIOUS
<1>2. PICK m \in Nat \ S : \A n \in Nat \ S : m <= n
  BY <1>1, LeastElement
<1>3. m # 0 /\ m - 1 \in Nat
  BY <1>2
<1>4. m - 1 \in S
  BY <1>2, <1>3
<1>5. QED
  BY <1>2, <1>3, <1>4

(* A segment of a sequence.                                                *)
LEMMA SegmentOf ==
  ASSUME NEW S, NEW n \in Nat, NEW s \in [1..n -> S],
         NEW a \in 1..(n + 1), NEW b \in (a - 1)..n
  PROVE  /\ SubSeq(s, a, b) \in Seq(S)
         /\ SubSeq(s, a, b) \in [1..(b - a + 1) -> S]
         /\ Len(SubSeq(s, a, b)) = b - a + 1
         /\ \A i \in 1..(b - a + 1) : SubSeq(s, a, b)[i] = s[a + i - 1]
<1>1. \A i \in a..b : s[i] \in S
  OBVIOUS
<1>2. /\ SubSeq(s, a, b) \in Seq(S)
      /\ Len(SubSeq(s, a, b)) = b - a + 1
      /\ \A i \in 1..(b - a + 1) : SubSeq(s, a, b)[i] = s[a + i - 1]
  BY <1>1, SubSeqProperties
<1>3. SubSeq(s, a, b) \in [1..Len(SubSeq(s, a, b)) -> S]
  BY <1>2, LenProperties
<1>4. QED
  BY <1>2, <1>3

LEMMA PrefixOf ==
  ASSUME NEW S, NEW n \in Nat, NEW s \in [1..n -> S], NEW k \in 0..n
  PROVE  /\ SubSeq(s, 1, k) \in Seq(S)
         /\ SubSeq(s, 1, k) \in [1..k -> S]
         /\ Len(SubSeq(s, 1, k)) = k
         /\ \A i \in 1..k : SubSeq(s, 1, k)[i] = s[i]
<1>1. \A i \in 1..k : s[i] \in S
  OBVIOUS
<1>2. /\ SubSeq(s, 1, k) \in Seq(S)
      /\ Len(SubSeq(s, 1, k)) = IF 1 <= k THEN k - 1 + 1 ELSE 0
      /\ \A i \in 1..(k - 1 + 1) : SubSeq(s, 1, k)[i] = s[1 + i - 1]
  BY <1>1, SubSeqProperties
<1>3. Len(SubSeq(s, 1, k)) = k
  BY <1>2
<1>4. ASSUME NEW i \in 1..k PROVE SubSeq(s, 1, k)[i] = s[i]
  BY <1>2
<1>5. SubSeq(s, 1, k) \in [1..k -> S]
  BY <1>2, <1>3, LenProperties
<1>6. QED
  BY <1>2, <1>3, <1>4, <1>5

LEMMA DropIndex ==
  ASSUME NEW S, NEW n \in Nat, NEW s \in [1..n -> S], NEW k \in 0..n
  PROVE  \A i \in 1..(n - k) : Drop(s, k)[i] = s[i + k]
<1>1. Drop(s, k) = SubSeq(s, k + 1, n)
  BY FunctionIsSequence DEF Drop
<1>2. \A i \in (k + 1)..n : s[i] \in S
  OBVIOUS
<1>3. \A i \in 1..(n - (k + 1) + 1) : SubSeq(s, k + 1, n)[i] = s[(k + 1) + i - 1]
  BY <1>2, SubSeqProperties
<1>4. SUFFICES ASSUME NEW i \in 1..(n - k) PROVE Drop(s, k)[i] = s[i + k]
  OBVIOUS
<1>5. i \in 1..(n - (k + 1) + 1) /\ (k + 1) + i - 1 = i + k
  OBVIOUS
<1>6. QED
  BY <1>1, <1>3, <1>5

LEMMA DropOf ==
  ASSUME NEW S, NEW n \in Nat, NEW s \in [1..n -> S], NEW k \in 0..n
  PROVE  /\ Drop(s, k) \in Seq(S)
         /\ Drop(s, k) \in [1..(n - k) -> S]
         /\ Len(Drop(s, k)) = n - k
<1>1. Drop(s, k) = SubSeq(s, k + 1, n)
  BY FunctionIsSequence DEF Drop
<1>2. \A i \in (k + 1)..n : s[i] \in S
  OBVIOUS
<1>3. /\ SubSeq(s, k + 1, n) \in Seq(S)
      /\ Len(SubSeq(s, k + 1, n)) = IF k + 1 <= n THEN n - (k + 1) + 1 ELSE 0
  BY <1>2, SubSeqProperties
<1>4. Drop(s, k) \in Seq(S) /\ Len(Drop(s, k)) = n - k
  BY <1>1, <1>3
<1>5. Drop(s, k) \in [1..(n - k) -> S]
  BY <1>4, LenProperties
<1>6. QED
  BY <1>4, <1>5

LEMMA ConcatOf ==
  ASSUME NEW S, NEW m \in Nat, NEW n \in Nat, NEW s \in [1..m -> S], NEW t \in [1..n -> S]
  PROVE  /\ s \o t \in Seq(S)
         /\ s \o t \in [1..(m + n) -> S]
         /\ Len(s \o t) = m + n
         /\ \A i \in 1..m : (s \o t)[i] = s[i]
         /\ \A i \in (m + 1)..(m + n) : (s \o t)[i] = t[i - m]
<1>1. s \in Seq(S) /\ Len(s) = m /\ t \in Seq(S) /\ Len(t) = n
  BY FunctionIsSequence
<1>2. /\ s \o t \in Seq(S)
      /\ Len(s \o t) = m + n
      /\ \A i \in 1..(m + n) : (s \o t)[i] = IF i <= m THEN s[i] ELSE t[i - m]
  BY <1>1, ConcatProperties
<1>3. s \o t \in [1..(m + n) -> S]
  BY <1>2, LenProperties
<1>4. QED
  BY <1>2, <1>3

(* LeadingRun is well defined: it counts the leading TRUE entries.         *)
LEMMA LeadingRunProperties ==
  ASSUME NEW n \in Nat, NEW flags \in [1..n -> BOOLEAN]
  PROVE  /\ LeadingRun(flags) \in 0..n
         /\ \A i \in 1..LeadingRun(flags) : flags[i]
         /\ LeadingRun(flags) < n => ~flags[LeadingRun(flags) + 1]
<1> DEFINE Is(k) == /\ \A i \in 1..k : flags[i]
                    /\ k < n => ~flags[k + 1]
           F == {i \in 1..n : ~flags[i]}
<1>1. Len(flags) = n
  BY FunctionIsSequence
<1>2. \E k \in 0..n : Is(k)
  <2>1. CASE F = {}
    BY <2>1
  <2>2. CASE F # {}
    <3>1. F \subseteq Nat
      OBVIOUS
    <3>2. \E m \in F : \A i \in F : m <= i
      <4> HIDE DEF F
      <4> QED
        BY <2>2, <3>1, LeastElement
    <3>3. PICK m \in F : \A i \in F : m <= i
      BY <3>2
    <3>4. m - 1 \in 0..n /\ Is(m - 1)
      BY <3>3
    <3>5. QED
      BY <3>4
  <2>3. QED
    BY <2>1, <2>2
<1>3. QED
  BY <1>1, <1>2 DEF LeadingRun

(* When the first k flags are the TRUE ones, both ways of counting give k. *)
LEMMA PrefixCount ==
  ASSUME NEW n \in Nat, NEW flags \in [1..n -> BOOLEAN], NEW k \in 0..n,
         \A i \in 1..n : flags[i] <=> i <= k
  PROVE  /\ LeadingRun(flags) = k
         /\ Cardinality({i \in DOMAIN flags : flags[i]}) = k
<1>1. LeadingRun(flags) = k
  <2>1. /\ LeadingRun(flags) \in 0..n
        /\ \A i \in 1..LeadingRun(flags) : flags[i]
        /\ LeadingRun(flags) < n => ~flags[LeadingRun(flags) + 1]
    BY LeadingRunProperties
  <2>2. LeadingRun(flags) <= k
    BY <2>1
  <2>3. ~(LeadingRun(flags) < k)
    BY <2>1
  <2>4. QED
    BY <2>1, <2>2, <2>3
<1>2. {i \in DOMAIN flags : flags[i]} = 1..k
  OBVIOUS
<1>3. Cardinality(1..k) = k
  BY FS_Interval
<1>4. QED
  BY <1>1, <1>2, <1>3
-----------------------------------------------------------------------------
(* Arithmetic of the helpers.                                              *)

LEMMA DurationType ==
  ASSUME NEW a \in Int, NEW b \in Int
  PROVE  MinimumDuration(a, b) \in Nat
<1>1. Distance(a, b) \in Nat
  BY DEF Distance
<1>2. SlowDown \in Nat
  BY ConfigAssumption
<1>3. \A x, y \in Nat : x * y \in Nat
  OBVIOUS
<1>4. QED
  BY <1>1, <1>2, <1>3 DEF MinimumDuration

(* The recursion of _retime has a solution: the result is a timeline of    *)
(* integers that obeys the loop's recurrence at every index.               *)
LEMMA RetimeProperties ==
  ASSUME NEW n \in Nat, NEW T \in [1..n -> Int], NEW N \in [1..n -> Int],
         NEW c \in Int, NEW t0 \in Int
  PROVE  /\ Retime(T, N, c, t0) \in [1..n -> Int]
         /\ n > 0 => Retime(T, N, c, t0)[1] = Larger(N[1], t0 + MinimumDuration(c, T[1]))
         /\ \A i \in 2..n :
              Retime(T, N, c, t0)[i]
                = Larger(N[i], Retime(T, N, c, t0)[i - 1] + MinimumDuration(T[i - 1], T[i]))
<1> DEFINE D(i) == MinimumDuration(IF i = 1 THEN c ELSE T[i - 1], T[i])
           Good(g, m) == /\ g \in [0..m -> Int]
                         /\ g[0] = t0
                         /\ \A i \in 1..m : g[i] = Larger(N[i], g[i - 1] + D(i))
           S == {m \in Nat : m <= n => \E g : Good(g, m)}
           Body(f) == [i \in 0..n |-> IF i = 0 THEN t0 ELSE Larger(N[i], f[i - 1] + D(i))]
           at == CHOOSE f : f = Body(f)
<1>1. \A i \in 1..n : D(i) \in Nat
  <2> TAKE i \in 1..n
  <2>1. (IF i = 1 THEN c ELSE T[i - 1]) \in Int /\ T[i] \in Int
    OBVIOUS
  <2>2. QED
    BY <2>1, DurationType
<1>2. Len(T) = n
  BY FunctionIsSequence
<1> HIDE DEF D
<1>3. \A m \in Nat : m \in S
  <2>1. 0 \in S
    <3>1. Good([i \in 0..0 |-> t0], 0)
      OBVIOUS
    <3>2. QED
      BY <3>1
  <2>2. ASSUME NEW m \in Nat, m \in S PROVE m + 1 \in S
    <3>1. SUFFICES ASSUME m + 1 <= n PROVE \E g : Good(g, m + 1)
      <4> HIDE DEF Good
      <4> QED
        OBVIOUS
    <3>2. PICK g : Good(g, m)
      BY <2>2, <3>1
    <3> DEFINE v == Larger(N[m + 1], g[m] + D(m + 1))
               h == [i \in 0..(m + 1) |-> IF i <= m THEN g[i] ELSE v]
    <3>3. v \in Int
      BY <1>1, <3>1, <3>2 DEF Larger
    <3> HIDE DEF v
    <3>4. h \in [0..(m + 1) -> Int] /\ h[0] = t0
      BY <3>2, <3>3
    <3>5. ASSUME NEW i \in 1..(m + 1) PROVE h[i] = Larger(N[i], h[i - 1] + D(i))
      <4>1. h[i - 1] = g[i - 1]
        BY <3>2
      <4>2. CASE i <= m
        BY <3>2, <4>1, <4>2
      <4>3. CASE i = m + 1
        BY <4>1, <4>3 DEF v
      <4>4. QED
        BY <4>2, <4>3
    <3>6. QED
      BY <3>4, <3>5
  <2> HIDE DEF S
  <2>3. QED
    BY <2>1, <2>2, SetInduction
<1>4. PICK g : Good(g, n)
  <2>1. n \in S
    <3> HIDE DEF S
    <3> QED
      BY <1>3
  <2> HIDE DEF Good
  <2>2. QED
    BY <2>1
<1>5. g = Body(g)
  BY <1>4
<1>6. at = Body(at)
  BY <1>5
<1>7. \A m \in Nat : m <= n => at[m] \in Int
  <2> DEFINE R == {m \in Nat : m <= n => at[m] \in Int}
  <2> HIDE DEF at
  <2>1. 0 \in R
    BY <1>6
  <2>2. ASSUME NEW m \in Nat, m \in R PROVE m + 1 \in R
    <3>1. SUFFICES ASSUME m + 1 <= n PROVE at[m + 1] \in Int
      OBVIOUS
    <3>2. at[m + 1] = Larger(N[m + 1], at[m] + D(m + 1))
      BY <1>6, <3>1
    <3>3. QED
      BY <1>1, <2>2, <3>1, <3>2 DEF Larger
  <2>3. \A m \in Nat : m \in R
    <3> HIDE DEF R
    <3> QED
      BY <2>1, <2>2, SetInduction
  <2>4. ASSUME NEW m \in Nat, m <= n PROVE at[m] \in Int
    <3>1. m \in R
      <4> HIDE DEF R
      <4> QED
        BY <2>3
    <3>2. QED
      BY <2>4, <3>1
  <2>5. QED
    BY <2>4
<1>8. Retime(T, N, c, t0) = [i \in 1..n |-> at[i]]
  BY <1>2 DEF Retime, D
<1> HIDE DEF at
<1>9. Retime(T, N, c, t0) \in [1..n -> Int]
  BY <1>7, <1>8
<1>10. ASSUME NEW i \in 1..n PROVE Retime(T, N, c, t0)[i] = Larger(N[i], at[i - 1] + D(i))
  BY <1>6, <1>8
<1>11. n > 0 => Retime(T, N, c, t0)[1] = Larger(N[1], t0 + D(1))
  BY <1>6, <1>10
<1>12. \A i \in 2..n : Retime(T, N, c, t0)[i] = Larger(N[i], Retime(T, N, c, t0)[i - 1] + D(i))
  BY <1>8, <1>10
<1>13. D(1) = MinimumDuration(c, T[1])
       /\ \A i \in 2..n : D(i) = MinimumDuration(T[i - 1], T[i])
  BY DEF D
<1>14. QED
  BY <1>9, <1>11, <1>12, <1>13
(* The timeline s of the plan Q: head up to k, then the rest D of the plan *)
(* retimed from where it is told to start.                                 *)
RetimedAfter(n, k, Q, head, D, N, from, start, s) ==
  /\ Q \in [1..n -> Int] /\ head \in [1..k -> Int]
  /\ D \in [1..(n - k) -> Int] /\ N \in [1..(n - k) -> Int]
  /\ \A i \in 1..(n - k) : D[i] = Q[i + k]
  /\ k > 0 => from = Q[k] /\ start >= head[k]
  /\ s = head \o Retime(D, N, from, start)

PacedAfter(n, k, Q, head, from, start, s) ==
  /\ s \in [1..n -> Int]
  /\ \A i \in 1..k : s[i] = head[i]
  /\ \A i \in 2..n : i > k => s[i] - s[i - 1] >= MinimumDuration(Q[i - 1], Q[i])
  /\ k < n => s[k + 1] >= start + MinimumDuration(from, Q[k + 1])

(* Such a timeline leaves the head as it was; its tail starts no earlier   *)
(* than the speed limit allows and goes on within it.                      *)
LEMMA RetimedTail ==
  ASSUME NEW n \in Nat, NEW k \in 0..n, NEW Q, NEW head, NEW D, NEW N,
         NEW from \in Int, NEW start \in Int, NEW s,
         RetimedAfter(n, k, Q, head, D, N, from, start, s)
  PROVE  PacedAfter(n, k, Q, head, from, start, s)
<1> DEFINE tail == Retime(D, N, from, start)
           d == n - k
<1>1. d \in Nat /\ k \in Nat /\ k + d = n
  OBVIOUS
<1> HIDE DEF d
<1>2. /\ Q \in [1..n -> Int] /\ head \in [1..k -> Int]
      /\ D \in [1..d -> Int] /\ N \in [1..d -> Int]
      /\ \A i \in 1..d : D[i] = Q[i + k]
      /\ k > 0 => from = Q[k] /\ start >= head[k]
      /\ s = head \o tail
  BY DEF RetimedAfter, d
<1>3. D \in [1..d -> Int] /\ N \in [1..d -> Int] /\ head \in [1..k -> Int]
  BY <1>2
<1>4. /\ tail \in [1..d -> Int]
      /\ d > 0 => tail[1] = Larger(N[1], start + MinimumDuration(from, D[1]))
      /\ \A i \in 2..d : tail[i] = Larger(N[i], tail[i - 1] + MinimumDuration(D[i - 1], D[i]))
  <2>1. d \in Nat /\ D \in [1..d -> Int] /\ N \in [1..d -> Int]
    BY <1>1, <1>3
  <2>2. tail \in [1..d -> Int]
    BY <2>1, RetimeProperties
  <2>3. d > 0 => tail[1] = Larger(N[1], start + MinimumDuration(from, D[1]))
    BY <2>1, RetimeProperties
  <2>4. \A i \in 2..d : tail[i] = Larger(N[i], tail[i - 1] + MinimumDuration(D[i - 1], D[i]))
    BY <2>1, RetimeProperties
  <2>5. QED
    BY <2>2, <2>3, <2>4
<1> HIDE DEF tail
<1>5. tail \in [1..d -> Int] /\ head \in [1..k -> Int]
  BY <1>3, <1>4
<1>6. /\ head \o tail \in [1..(k + d) -> Int]
      /\ \A i \in 1..k : (head \o tail)[i] = head[i]
      /\ \A i \in (k + 1)..(k + d) : (head \o tail)[i] = tail[i - k]
  <2>1. k \in Nat /\ d \in Nat
    BY <1>1
  <2>2. head \o tail \in [1..(k + d) -> Int]
    BY <2>1, <1>5, ConcatOf, Zenon
  <2>3. \A i \in 1..k : (head \o tail)[i] = head[i]
    BY <2>1, <1>5, ConcatOf
  <2>4. \A i \in (k + 1)..(k + d) : (head \o tail)[i] = tail[i - k]
    BY <2>1, <1>5, ConcatOf
  <2>5. QED
    BY <2>2, <2>3, <2>4
<1>7. /\ s \in [1..n -> Int]
      /\ \A i \in 1..k : s[i] = head[i]
      /\ \A i \in (k + 1)..n : s[i] = tail[i - k]
  <2>1. s = head \o tail
    BY <1>2
  <2>2. k + d = n
    BY <1>1
  <2>3. QED
    BY <1>6, <2>1, <2>2, Zenon
<1>8. ASSUME k < n PROVE s[k + 1] >= start + MinimumDuration(from, Q[k + 1])
  <2>1. k + 1 \in (k + 1)..n /\ (k + 1) - k = 1 /\ 1 \in 1..d /\ 1 + k = k + 1
    BY <1>1, <1>8
  <2>2. s[k + 1] = tail[1] /\ D[1] = Q[k + 1] /\ N[1] \in Int /\ Q[k + 1] \in Int
    <3>1. s[k + 1] = tail[1]
      BY <1>7, <2>1
    <3>2. D[1] = Q[k + 1] /\ N[1] \in Int /\ Q[k + 1] \in Int
      BY <1>2, <2>1
    <3>3. QED
      BY <3>1, <3>2
  <2>3. MinimumDuration(from, Q[k + 1]) \in Nat
    BY <2>2, DurationType
  <2>4. tail[1] = Larger(N[1], start + MinimumDuration(from, Q[k + 1]))
    <3>1. d > 0
      BY <1>1, <2>1
    <3>2. QED
      BY <1>4, <2>2, <3>1, Zenon
  <2> DEFINE far == MinimumDuration(from, Q[k + 1])
  <2>5. tail[1] = Larger(N[1], start + far) /\ far \in Nat
    BY <2>3, <2>4
  <2> HIDE DEF far
  <2>6. tail[1] >= start + far
    BY <2>2, <2>5 DEF Larger
  <2>7. QED
    BY <2>2, <2>6 DEF far
<1>9. ASSUME NEW i \in 2..n, i > k PROVE s[i] - s[i - 1] >= MinimumDuration(Q[i - 1], Q[i])
  <2>1. Q[i - 1] \in Int /\ Q[i] \in Int /\ s[i] \in Int /\ s[i - 1] \in Int
    <3>1. i \in 1..n /\ i - 1 \in 1..n
      BY <1>9
    <3>2. QED
      BY <1>2, <1>7, <3>1
  <2> DEFINE far == MinimumDuration(Q[i - 1], Q[i])
  <2>2. MinimumDuration(Q[i - 1], Q[i]) \in Nat
    BY <2>1, DurationType
  <2> DEFINE last == s[i - 1]
             here == s[i]
  <2>3. far \in Nat /\ last \in Int /\ here \in Int
    BY <2>1, <2>2
  <2>4. CASE i = k + 1
    <3>1. k > 0 /\ k < n /\ k \in 1..k /\ i - 1 = k
      BY <1>9, <2>4
    <3>2. s[i] >= start + MinimumDuration(from, Q[i])
      BY <1>8, <2>4, <3>1
    <3>3. from = Q[i - 1] /\ start >= s[i - 1]
      BY <1>2, <1>7, <3>1
    <3>4. here >= start + far /\ start >= last
      BY <3>2, <3>3
    <3> HIDE DEF far, last, here
    <3>5. here - last >= far
      BY <2>3, <3>4
    <3>6. QED
      BY <3>5 DEF far, last, here
  <2>5. CASE i # k + 1
    <3>1. /\ i \in (k + 1)..n /\ i - 1 \in (k + 1)..n /\ i - k \in 2..d
          /\ i - k \in 1..d /\ (i - k) - 1 \in 1..d
          /\ (i - 1) - k = (i - k) - 1 /\ (i - k) + k = i /\ ((i - k) - 1) + k = i - 1
      BY <1>1, <1>9, <2>5
    <3>2. D[i - k] = Q[i] /\ D[(i - k) - 1] = Q[i - 1]
      BY <1>2, <3>1
    <3>3. s[i] = tail[i - k] /\ s[i - 1] = tail[(i - k) - 1] /\ N[i - k] \in Int
      BY <1>2, <1>7, <3>1
    <3>4. tail[i - k] = Larger(N[i - k], tail[(i - k) - 1]
                                            + MinimumDuration(D[(i - k) - 1], D[i - k]))
      BY <1>4, <3>1
    <3>5. s[i] = Larger(N[i - k], s[i - 1] + MinimumDuration(Q[i - 1], Q[i]))
      BY <3>2, <3>3, <3>4
    <3> DEFINE nom == N[i - k]
    <3>6. here = Larger(nom, last + far) /\ nom \in Int
      BY <3>3, <3>5
    <3> HIDE DEF far, last, here, nom
    <3>7. here - last >= far
      BY <2>3, <3>6 DEF Larger
    <3>8. QED
      BY <3>7 DEF far, last, here
  <2>6. QED
    BY <2>4, <2>5
<1>10. QED
  BY <1>7, <1>8, <1>9 DEF PacedAfter
-----------------------------------------------------------------------------
(* What the operators over the timeline return in a well-formed state.     *)

(* A number of elements that satisfy a test lies between 0 and their count. *)
LEMMA SubsetCount ==
  ASSUME NEW n \in Nat, NEW T, T \subseteq 1..n
  PROVE  Cardinality(T) \in 0..n
<1>1. IsFiniteSet(1..n) /\ Cardinality(1..n) = n
  BY FS_Interval
<1>2. IsFiniteSet(T) /\ Cardinality(T) <= n
  BY <1>1, FS_Subset
<1>3. Cardinality(T) \in Nat
  BY <1>2, FS_CardinalityType
<1>4. QED
  BY <1>2, <1>3

(* Both ways the code counts the committed prefix agree.                   *)
LEMMA CommittedPrefix ==
  ASSUME TypeOK, SentIsPrefix
  PROVE  /\ CommittedSteps \in 0..Len(queue)
         /\ CommittedSteps <= CommitSteps
         /\ CommittedSteps \in Nat
         /\ LeadingRun(sent) = CommittedSteps
         /\ \A i \in 1..Len(queue) : sent[i] <=> i <= CommittedSteps
<1>1. Len(queue) \in Nat /\ sent \in [1..Len(queue) -> BOOLEAN] /\ CommitSteps \in Nat
  BY ConfigAssumption, LenProperties DEF TypeOK
<1>2. PICK k \in 0..CommitSteps :
        /\ k <= Len(queue)
        /\ \A i \in 1..Len(queue) : sent[i] <=> i <= k
  BY DEF SentIsPrefix
<1>3. k \in 0..Len(queue)
  BY <1>1, <1>2
<1>4. LeadingRun(sent) = k /\ CommittedSteps = k
  BY <1>1, <1>2, <1>3, PrefixCount DEF CommittedSteps
<1>5. QED
  BY <1>1, <1>2, <1>3, <1>4

(* Waypoints SafeLength accepts pass both guards of _validate.             *)
LEMMA SafeLengthProperties ==
  ASSUME NEW n \in Nat, NEW T \in [1..n -> Int], NEW anchor \in Int
  PROVE  /\ SafeLength(T, anchor) \in 0..n
         /\ \A i \in 1..SafeLength(T, anchor) :
              /\ floor # None => ~(T[i] < floor)
              /\ i > 1 => ~(Distance(T[i - 1], T[i]) > StepLimit)
<1> DEFINE F == [i \in 1..n |-> ~UnsafeAt(T, anchor, i)]
<1>1. F \in [1..n -> BOOLEAN]
  BY ZenonT(20)
<1>2. Len(T) = n
  BY FunctionIsSequence
<1>3. SafeLength(T, anchor) = LeadingRun(F)
  BY <1>2 DEF SafeLength
<1>4. /\ LeadingRun(F) \in 0..n
      /\ \A i \in 1..LeadingRun(F) : F[i]
  <2> HIDE DEF F
  <2> QED
    BY <1>1, LeadingRunProperties
<1>5. ASSUME NEW i \in 1..LeadingRun(F)
      PROVE  /\ floor # None => ~(T[i] < floor)
             /\ i > 1 => ~(Distance(T[i - 1], T[i]) > StepLimit)
  <2>1. ~UnsafeAt(T, anchor, i)
    <3>1. F[i] /\ i \in 1..n
      <4> HIDE DEF F
      <4> QED
        BY <1>4
    <3>2. F[i] = ~UnsafeAt(T, anchor, i)
      BY <3>1, Zenon
    <3>3. QED
      BY <3>1, <3>2, Zenon
  <2>2. QED
    BY <2>1, <1>4 DEF UnsafeAt
<1>6. QED
  BY <1>3, <1>4, <1>5

LEMMA BlendType ==
  ASSUME NEW r \in Nat, NEW n \in Nat, NEW old \in [1..r -> Int], NEW new \in [1..n -> Int]
  PROVE  Blend(old, new) \in [1..n -> Int]
<1> DEFINE count == Smaller(BlendSteps, Smaller(Len(old), Len(new)))
<1>1. Len(old) = r /\ Len(new) = n
  BY FunctionIsSequence
<1>2. count \in Nat /\ count <= r
  BY <1>1, ConfigAssumption DEF Smaller
<1>3. ASSUME NEW i \in 1..n
      PROVE  (IF i <= count
              THEN ((count + 1 - i) * old[i] + i * new[i]) \div (count + 1)
              ELSE new[i]) \in Int
  <2> HIDE DEF count
  <2>1. CASE i <= count
    <3>1. old[i] \in Int /\ new[i] \in Int
      BY <1>2, <2>1
    <3>2. \A x, y \in Int : x * y \in Int
      OBVIOUS
    <3>3. (count + 1 - i) * old[i] \in Int /\ i * new[i] \in Int
      BY <1>2, <3>1, <3>2
    <3>4. \A x \in Int, y \in Nat \ {0} : x \div y \in Int
      OBVIOUS
    <3>5. QED
      BY <1>2, <2>1, <3>3, <3>4
  <2>2. CASE ~(i <= count)
    BY <2>2
  <2>3. QED
    BY <2>1, <2>2
<1>4. Blend(old, new) = [i \in 1..n |->
         IF i <= count
         THEN ((count + 1 - i) * old[i] + i * new[i]) \div (count + 1)
         ELSE new[i]]
  BY <1>1 DEF Blend
<1>5. QED
  BY <1>3, <1>4

(* The arrays of a well-formed state are functions on one interval.        *)
LEMMA ArrayTypes ==
  ASSUME TypeOK
  PROVE  /\ Len(queue) \in Nat
         /\ queue \in [1..Len(queue) -> Int]
         /\ Len(sent) = Len(queue) /\ DOMAIN sent = 1..Len(queue)
         /\ Len(times) = Len(queue) /\ DOMAIN times = 1..Len(queue)
         /\ InferenceDelay \in Int
         /\ Preserved \in 0..Len(queue)
         /\ Len(requestPrefix) \in Nat
<1>1. Len(queue) \in Nat /\ queue \in [1..Len(queue) -> Int] /\ Len(requestPrefix) \in Nat
  BY LenProperties DEF TypeOK
<1>2. sent \in [1..Len(queue) -> BOOLEAN] /\ times \in [1..Len(queue) -> Int]
  BY DEF TypeOK
<1>3. Len(sent) = Len(queue) /\ Len(times) = Len(queue)
  BY <1>1, <1>2, FunctionIsSequence
<1>4. InferenceDelay \in Int
  BY DEF TypeOK, InferenceDelay
<1>5. Preserved \in 0..Len(queue)
  BY <1>1, <1>4 DEF Preserved, Smaller, Larger
<1>6. QED
  BY <1>1, <1>2, <1>3, <1>4, <1>5

LEMMA BlendReferenceType ==
  ASSUME TypeOK, NEW count \in Nat
  PROVE  \E r \in Nat : BlendReference(count) \in [1..r -> Int]
<1>1. /\ Len(queue) \in Nat /\ queue \in [1..Len(queue) -> Int]
      /\ Preserved \in 0..Len(queue)
  BY ArrayTypes
<1>2. <<>> \in [1..0 -> Int]
  OBVIOUS
<1>3. Drop(queue, Preserved) \in [1..(Len(queue) - Preserved) -> Int]
      /\ Len(queue) - Preserved \in Nat
  <2> DEFINE q == queue
             n == Len(queue)
             k == Preserved
  <2>1. n \in Nat /\ q \in [1..n -> Int] /\ k \in 0..n
    BY <1>1
  <2> HIDE DEF q, n, k
  <2>2. Drop(q, k) \in [1..(n - k) -> Int]
    BY <2>1, DropOf, Zenon
  <2>3. n - k \in Nat
    BY <2>1
  <2>4. QED
    BY <2>2, <2>3 DEF q, n, k
<1>4. CASE Preserved > 0
  <2>1. Smaller(BlendSteps, count) \in Nat
    BY ConfigAssumption DEF Smaller
  <2>2. [i \in 1..Smaller(BlendSteps, count) |-> queue[Preserved]]
          \in [1..Smaller(BlendSteps, count) -> Int]
    BY <1>1, <1>4
  <2>3. QED
    BY <1>2, <1>3, <2>1, <2>2 DEF BlendReference
<1>5. CASE ~(Preserved > 0)
  BY <1>2, <1>3, <1>5 DEF BlendReference
<1>6. QED
  BY <1>4, <1>5

LEMMA ExpiredType ==
  ASSUME TypeOK, NEW n \in Nat, NEW chunk \in [1..n -> Int], NEW observed
  PROVE  Expired(chunk, observed) \in 0..n
<1>1. Len(chunk) = n /\ Len(requestPrefix) \in Nat /\ InferenceDelay \in Int
  BY FunctionIsSequence, ArrayTypes
<1>2. Smaller(n, Larger(Len(requestPrefix), InferenceDelay)) \in 0..n
  BY <1>1 DEF Smaller, Larger
<1>3. Cardinality({i \in 1..n : observed + i * Dt <= now + DispatchLead}) \in 0..n
  <2> DEFINE T == {i \in 1..n : observed + i * Dt <= now + DispatchLead}
  <2>1. T \subseteq 1..n
    OBVIOUS
  <2> HIDE DEF T
  <2>2. Cardinality(T) \in 0..n
    BY <2>1, SubsetCount
  <2>3. QED
    BY <2>2 DEF T
<1>4. QED
  BY <1>1, <1>2, <1>3 DEF Expired

(* The merged plan: the preserved prefix as it was, then the new suffix,   *)
(* with as many nominal times as targets.                                  *)
LEMMA MergedProperties ==
  ASSUME TypeOK, NEW n \in Nat, NEW chunk \in [1..n -> Int], NEW observed \in Int
  PROVE  \E m \in Nat :
           /\ MergedTargets(chunk, observed) \in [1..m -> Int]
           /\ Len(MergedTargets(chunk, observed)) = m
           /\ MergedNominals(chunk, observed) \in [1..m -> Int]
           /\ Preserved <= m
           /\ \A i \in 1..Preserved : MergedTargets(chunk, observed)[i] = queue[i]
<1> DEFINE e == Expired(chunk, observed)
           new == Drop(chunk, e)
           suffix == [i \in 1..(Len(chunk) - e) |-> observed + (e + i) * Dt]
           m == Preserved + (n - e)
<1>1. /\ Len(queue) \in Nat /\ queue \in [1..Len(queue) -> Int]
      /\ Preserved \in 0..Len(queue)
      /\ nominal \in [1..Len(queue) -> Int]
  BY ArrayTypes DEF TypeOK
<1>2. e \in 0..n /\ Len(chunk) = n
  BY ExpiredType, FunctionIsSequence
<1> HIDE DEF e
<1>3. new \in [1..(n - e) -> Int] /\ Len(new) = n - e /\ n - e \in Nat
  <2>1. new \in [1..(n - e) -> Int]
    BY <1>2, DropOf
  <2>2. n - e \in Nat
    BY <1>2
  <2>3. QED
    BY <2>1, <2>2, FunctionIsSequence
<1> HIDE DEF new
<1>4. PICK r \in Nat : BlendReference(Len(new)) \in [1..r -> Int]
  BY <1>3, BlendReferenceType
<1>5. Blend(BlendReference(Len(new)), new) \in [1..(n - e) -> Int]
  BY <1>3, <1>4, BlendType
<1>6. /\ SubSeq(queue, 1, Preserved) \in [1..Preserved -> Int]
      /\ \A i \in 1..Preserved : SubSeq(queue, 1, Preserved)[i] = queue[i]
      /\ SubSeq(nominal, 1, Preserved) \in [1..Preserved -> Int]
  BY <1>1, PrefixOf
<1>7. suffix \in [1..(n - e) -> Int]
  <2>1. \A x, y \in Int : x * y \in Int
    OBVIOUS
  <2>2. Dt \in Int
    BY ConfigAssumption
  <2>3. \A i \in 1..(n - e) : (e + i) * Dt \in Int
    BY <1>2, <2>1, <2>2
  <2>4. \A i \in 1..(n - e) : observed + (e + i) * Dt \in Int
    BY <2>3
  <2>5. QED
    BY <1>2, <2>4
<1> HIDE DEF suffix
<1>8. /\ SubSeq(queue, 1, Preserved) \o Blend(BlendReference(Len(new)), new) \in [1..m -> Int]
      /\ Len(SubSeq(queue, 1, Preserved) \o Blend(BlendReference(Len(new)), new)) = m
      /\ \A i \in 1..Preserved :
           (SubSeq(queue, 1, Preserved) \o Blend(BlendReference(Len(new)), new))[i]
             = SubSeq(queue, 1, Preserved)[i]
  <2> DEFINE s == SubSeq(queue, 1, Preserved)
             t == Blend(BlendReference(Len(new)), new)
             k == Preserved
             d == n - e
  <2>1. s \in [1..k -> Int] /\ t \in [1..d -> Int] /\ k \in Nat /\ d \in Nat
    BY <1>1, <1>3, <1>5, <1>6
  <2> HIDE DEF s, t, k, d
  <2>2. /\ s \o t \in [1..(k + d) -> Int]
        /\ Len(s \o t) = k + d
        /\ \A i \in 1..k : (s \o t)[i] = s[i]
    <3>1. s \o t \in [1..(k + d) -> Int]
      BY <2>1, ConcatOf, Zenon
    <3>2. Len(s \o t) = k + d
      <4>1. k + d \in Nat
        BY <2>1
      <4>2. QED
        BY <3>1, <4>1, FunctionIsSequence
    <3>3. \A i \in 1..k : (s \o t)[i] = s[i]
      BY <2>1, ConcatOf
    <3>4. QED
      BY <3>1, <3>2, <3>3
  <2>3. QED
    BY <2>2 DEF s, t, k, d
<1>9. SubSeq(nominal, 1, Preserved) \o suffix \in [1..m -> Int]
  <2> DEFINE s == SubSeq(nominal, 1, Preserved)
             k == Preserved
             d == n - e
  <2>1. s \in [1..k -> Int] /\ suffix \in [1..d -> Int] /\ k \in Nat /\ d \in Nat
    BY <1>1, <1>3, <1>6, <1>7
  <2> HIDE DEF s, k, d
  <2>2. s \o suffix \in [1..(k + d) -> Int]
    BY <2>1, ConcatOf
  <2>3. QED
    BY <2>2 DEF s, k, d
<1>10. m \in Nat /\ Preserved <= m
  BY <1>1, <1>3
<1>11. /\ MergedTargets(chunk, observed)
            = SubSeq(queue, 1, Preserved) \o Blend(BlendReference(Len(new)), new)
       /\ MergedNominals(chunk, observed) = SubSeq(nominal, 1, Preserved) \o suffix
  BY DEF MergedTargets, MergedNominals, new, e, suffix
<1> HIDE DEF m
<1>12. QED
  BY <1>6, <1>8, <1>9, <1>10, <1>11

(* pop_batch dispatches the waypoints that follow the committed prefix.    *)
LEMMA BatchProperties ==
  ASSUME TypeOK, SentIsPrefix, NEW available \in Int
  PROVE  \A i \in 1..Len(queue) :
           i \in Batch(available) <=> CommittedSteps < i /\ i - CommittedSteps <= available
<1> DEFINE k == CommittedSteps
<1>1. /\ k \in 0..Len(queue)
      /\ \A i \in 1..Len(queue) : sent[i] <=> i <= k
      /\ Len(queue) \in Nat /\ DOMAIN sent = 1..Len(queue)
  BY CommittedPrefix, ArrayTypes
<1> HIDE DEF k
<1>2. ASSUME NEW i \in 1..Len(queue), k < i
      PROVE  Cardinality({j \in 1..i : ~sent[j]}) = i - k
  <2>1. {j \in 1..i : ~sent[j]} = (k + 1)..i
    BY <1>1, <1>2
  <2>2. Cardinality((k + 1)..i) = i - k
    BY <1>1, <1>2, FS_Interval
  <2>3. QED
    BY <2>1, <2>2
<1>3. QED
  BY <1>1, <1>2 DEF Batch, k

(* The plan T, timed by s, keeps the speed limit after the committed part. *)
SuffixPaced(T, s) ==
  /\ \A i \in 2..Len(T) : i > CommittedSteps => s[i] - s[i - 1] >= MinimumDuration(T[i - 1], T[i])
  /\ CommittedSteps = 0 /\ Len(T) > 0 /\ lastScheduled # None =>
       s[1] - lastScheduled.time >= MinimumDuration(lastScheduled.target, T[1])

(* Retiming keeps the times of the committed prefix.  It only happens when *)
(* the tail is late; the tail then starts after now, at the pace the speed *)
(* limit allows.                                                           *)
LEMMA RetimedProperties ==
  ASSUME TypeOK, SentIsPrefix, NEW live \in Int
  PROVE  /\ RetimedTimes(live) \in [1..Len(queue) -> Int]
         /\ \A i \in 1..CommittedSteps : RetimedTimes(live)[i] = times[i]
         /\ \/ /\ RetimedTimes(live) = times
               /\ CommittedSteps < Len(queue) => times[CommittedSteps + 1] > now
            \/ /\ SuffixPaced(queue, RetimedTimes(live))
               /\ CommittedSteps < Len(queue)
               /\ RetimedTimes(live)[CommittedSteps + 1] >= now + DispatchLead
<1> DEFINE n == Len(queue)
           k == CommittedSteps
           lead == now + DispatchLead
           from == IF FirstUnsent > 1 THEN queue[FirstUnsent - 1]
                   ELSE IF lastScheduled = None THEN live ELSE lastScheduled.target
           start == IF FirstUnsent > 1 THEN Larger(times[FirstUnsent - 1], lead)
                    ELSE IF lastScheduled = None THEN lead
                    ELSE Larger(lastScheduled.time, lead)
           head == SubSeq(times, 1, k)
           tail == Retime(Drop(queue, k), Drop(nominal, k), from, start)
<1>1. n \in Nat /\ k \in 0..n /\ FirstUnsent = k + 1
  BY ArrayTypes, CommittedPrefix DEF FirstUnsent
<1>2. /\ queue \in [1..n -> Int] /\ nominal \in [1..n -> Int] /\ times \in [1..n -> Int]
      /\ now \in Int /\ DispatchLead \in Int
      /\ lastScheduled \in {None} \union [target : Int, time : Int]
  BY ArrayTypes, ConfigAssumption DEF TypeOK
<1>3. /\ from \in Int
      /\ k > 0 => from = queue[k]
      /\ k = 0 /\ lastScheduled # None => from = lastScheduled.target
  BY <1>1, <1>2
<1>4. /\ start \in Int /\ start >= lead
      /\ k > 0 => start >= times[k]
      /\ k = 0 /\ lastScheduled # None => start >= lastScheduled.time
  <2>1. lead \in Int
    BY <1>2
  <2>2. k > 0 => times[FirstUnsent - 1] \in Int /\ times[k] = times[FirstUnsent - 1]
    BY <1>1, <1>2
  <2>3. lastScheduled # None => lastScheduled.time \in Int
    BY <1>2
  <2>4. FirstUnsent > 1 <=> k > 0
    BY <1>1
  <2> HIDE DEF lead, k
  <2>5. QED
    BY <1>1, <2>1, <2>2, <2>3, <2>4 DEF Larger
<1>5. k \in Nat /\ n - k \in Nat
  BY <1>1
<1> HIDE DEF n, k, from, start, lead
<1>6. /\ head \in [1..k -> Int]
      /\ \A i \in 1..k : head[i] = times[i]
  BY <1>1, <1>2, PrefixOf
<1>7. /\ Drop(queue, k) \in [1..(n - k) -> Int]
      /\ Drop(nominal, k) \in [1..(n - k) -> Int]
  BY <1>1, <1>2, DropOf, Zenon
<1>8. \A i \in 1..(n - k) : Drop(queue, k)[i] = queue[i + k]
  BY <1>1, <1>2, DropIndex
<1>9. k > 0 => from = queue[k] /\ start >= head[k]
  <2>1. k > 0 => head[k] = times[k]
    BY <1>5, <1>6
  <2> HIDE DEF head
  <2>2. QED
    BY <1>3, <1>4, <2>1
<1> HIDE DEF head
<1>10. RetimedAfter(n, k, queue, head, Drop(queue, k), Drop(nominal, k), from, start, head \o tail)
  BY <1>2, <1>6, <1>7, <1>8, <1>9 DEF RetimedAfter
<1>11. PacedAfter(n, k, queue, head, from, start, head \o tail)
  BY <1>1, <1>3, <1>4, <1>10, RetimedTail
<1>12. IF k < n /\ times[k + 1] <= now
       THEN RetimedTimes(live) = head \o tail
       ELSE RetimedTimes(live) = times
  <2>1. FirstUnsent - 1 = k /\ (FirstUnsent > Len(queue) <=> ~(k < n)) /\ FirstUnsent = k + 1
    BY <1>1 DEF n
  <2>2. k < n => (times[FirstUnsent] > now <=> ~(times[k + 1] <= now))
    BY <1>1, <1>2, <2>1
  <2>3. QED
    BY <2>1, <2>2 DEF RetimedTimes, head, from, start, lead
<1> HIDE DEF tail
<1>13. CASE k < n /\ times[k + 1] <= now
  <2> DEFINE s == RetimedTimes(live)
  <2>1. PacedAfter(n, k, queue, head, from, start, s)
    BY <1>11, <1>12, <1>13
  <2> HIDE DEF s
  <2>2. /\ s \in [1..n -> Int]
        /\ \A i \in 1..k : s[i] = head[i]
        /\ \A i \in 2..n : i > k => s[i] - s[i - 1] >= MinimumDuration(queue[i - 1], queue[i])
        /\ s[k + 1] >= start + MinimumDuration(from, queue[k + 1])
    BY <1>13, <2>1 DEF PacedAfter
  <2> DEFINE next == s[k + 1]
             far == MinimumDuration(from, queue[k + 1])
  <2>3. next \in Int /\ far \in Nat
    <3>1. k + 1 \in 1..n
      BY <1>1, <1>13
    <3>2. queue[k + 1] \in Int
      BY <1>2, <3>1
    <3>3. QED
      BY <1>3, <2>2, <3>1, <3>2, DurationType
  <2>4. next >= start + far
    BY <2>2
  <2>5. next >= lead
    <3> HIDE DEF next, far
    <3>1. QED
      BY <1>2, <1>4, <2>3, <2>4 DEF lead
  <2>6. SuffixPaced(queue, s)
    <3>1. ASSUME k = 0, lastScheduled # None
          PROVE s[1] - lastScheduled.time >= MinimumDuration(lastScheduled.target, queue[1])
      <4>1. next = s[1] /\ far = MinimumDuration(lastScheduled.target, queue[1])
        BY <1>3, <3>1
      <4>2. start >= lastScheduled.time /\ lastScheduled.time \in Int
        BY <1>2, <1>4, <3>1
      <4> HIDE DEF next, far
      <4>3. next - lastScheduled.time >= far
        BY <1>4, <2>3, <2>4, <4>2
      <4>4. QED
        BY <4>1, <4>3
    <3>2. QED
      BY <2>2, <3>1 DEF SuffixPaced, k, n
  <2>7. \A i \in 1..k : s[i] = times[i]
    BY <1>6, <2>2
  <2>8. QED
    BY <1>13, <2>2, <2>5, <2>6, <2>7 DEF s, k, n, lead
<1>14. CASE ~(k < n /\ times[k + 1] <= now)
  <2>1. RetimedTimes(live) = times
    BY <1>12, <1>14
  <2>2. k < n => times[k + 1] > now
    BY <1>1, <1>2, <1>14
  <2>3. QED
    BY <1>2, <2>1, <2>2 DEF k, n
<1>15. QED
  BY <1>13, <1>14
-----------------------------------------------------------------------------
(* The inductive invariant.  PrefixAligned is what makes a merge keep the  *)
(* committed prefix, and SentIsPrefix what makes PrefixAligned survive a   *)
(* retirement; each is used in the proof of the other.                     *)
IndInv ==
  /\ TypeOK
  /\ SentIsPrefix
  /\ PrefixAligned
  /\ QueueSafe
  /\ NothingReplaceableWhilePending

(* What a retirement, a batch and a merge do to the committed prefix and   *)
(* to the pace of the plan.                                                *)
Retired ==
  \E c \in 1..CommittedSteps :
    /\ CommittedSteps' = CommittedSteps - c /\ Len(queue') = Len(queue) - c
    /\ \A i \in 1..Len(queue') : queue'[i] = queue[i + c] /\ times'[i] = times[i + c]
    /\ steps' = steps + c /\ totalCompleted' = totalCompleted + c

Dispatched ==
  /\ CommittedSteps' \in CommittedSteps..CommitSteps /\ CommittedSteps' <= Len(queue)
  /\ \A i \in 1..Len(queue) : sent'[i] <=> i <= CommittedSteps'
  /\ IF CommittedSteps' = CommittedSteps
     THEN lastScheduled' = lastScheduled
     ELSE lastScheduled' = [target |-> queue[CommittedSteps'], time |-> times'[CommittedSteps']]

Spliced ==
  /\ CommittedSteps' = CommittedSteps
  /\ Len(queue') \in CommittedSteps..MaxQueue
  /\ \A i \in 1..CommittedSteps : queue'[i] = queue[i] /\ times'[i] = times[i]
  /\ SuffixPaced(queue', times')
  /\ Len(queue') = 0 => ReplanRemaining = 0

-----------------------------------------------------------------------------
LEMMA InitInv == Init => IndInv
<1> SUFFICES ASSUME Init PROVE IndInv
  OBVIOUS
<1>1. CommitSteps \in Nat /\ MaxQueue \in Nat
  BY ConfigAssumption
<1>2. /\ Len(queue) = 0 /\ queue \in Seq(Int) /\ requestPrefix \in Seq(Int)
      /\ times \in [1..0 -> Int] /\ nominal \in [1..0 -> Int] /\ sent \in [1..0 -> BOOLEAN]
  BY EmptySeq DEF Init
<1>3. TypeOK
  <2>1. /\ times \in [1..Len(queue) -> Int] /\ nominal \in [1..Len(queue) -> Int]
        /\ sent \in [1..Len(queue) -> BOOLEAN]
    BY <1>2, Zenon
  <2>2. Len(queue) <= MaxQueue
    BY <1>1, <1>2
  <2>3. QED
    BY <1>2, <2>1, <2>2 DEF Init, TypeOK
<1>4. SentIsPrefix
  BY <1>1, <1>2 DEF SentIsPrefix
<1>5. PrefixAligned /\ QueueSafe /\ NothingReplaceableWhilePending
  BY <1>2 DEF Init, PrefixAligned, QueueSafe, NothingReplaceableWhilePending
<1>6. QED
  BY <1>3, <1>4, <1>5 DEF IndInv

(* Whatever clears the timeline re-establishes the invariant.              *)
LEMMA ClearStep ==
  ASSUME TypeOK, ClearTimeline, state' \in {"HOLD", "ACTIVE"}, now' = now,
         steps' \in Nat, totalCompleted' \in Nat, startCompleted' \in Nat,
         floor' \in Int \union {None}
  PROVE  IndInv'
<1>1. CommitSteps \in Nat /\ MaxQueue \in Nat
  BY ConfigAssumption
<1>2. /\ queue' = <<>> /\ requestPrefix' = <<>> /\ pending' = FALSE
      /\ times' = <<>> /\ nominal' = <<>> /\ sent' = <<>>
      /\ lastScheduled' = None /\ lastRequested' = None
  BY DEF ClearTimeline
<1>3. /\ Len(queue') = 0 /\ queue' \in Seq(Int) /\ requestPrefix' \in Seq(Int)
      /\ times' \in [1..0 -> Int] /\ nominal' \in [1..0 -> Int] /\ sent' \in [1..0 -> BOOLEAN]
  BY <1>2, EmptySeq
<1>4. TypeOK'
  <2>1. /\ times' \in [1..Len(queue') -> Int] /\ nominal' \in [1..Len(queue') -> Int]
        /\ sent' \in [1..Len(queue') -> BOOLEAN]
    BY <1>3, Zenon
  <2>2. Len(queue') <= MaxQueue
    BY <1>1, <1>3
  <2>3. now' \in Nat
    BY DEF TypeOK
  <2>4. QED
    BY <1>2, <1>3, <2>1, <2>2, <2>3 DEF TypeOK
<1>5. SentIsPrefix'
  BY <1>1, <1>3 DEF SentIsPrefix
<1>6. PrefixAligned' /\ QueueSafe' /\ NothingReplaceableWhilePending'
  BY <1>2, <1>3 DEF PrefixAligned, QueueSafe, NothingReplaceableWhilePending
<1>7. QED
  BY <1>4, <1>5, <1>6 DEF IndInv

LEMMA HoldStep ==
  ASSUME IndInv, EnterHold
  PROVE  IndInv' /\ state' = "HOLD"
<1>1. TypeOK
  BY DEF IndInv
<1>2. /\ ClearTimeline /\ state' = "HOLD" /\ now' = now
      /\ steps' = steps /\ totalCompleted' = totalCompleted
      /\ startCompleted' = startCompleted /\ floor' = None
  BY DEF EnterHold, counters
<1>3. /\ steps' \in Nat /\ totalCompleted' \in Nat /\ startCompleted' \in Nat
      /\ floor' \in Int \union {None} /\ state' \in {"HOLD", "ACTIVE"}
  BY <1>1, <1>2 DEF TypeOK
<1>4. QED
  BY <1>1, <1>2, <1>3, ClearStep

LEMMA ActivateStep ==
  ASSUME IndInv, NEW live \in Int, Activate(live)
  PROVE  IndInv' /\ state = "HOLD"
<1>1. TypeOK
  BY DEF IndInv
<1>2. /\ ClearTimeline /\ state' = "ACTIVE" /\ now' = now
      /\ steps' \in Nat /\ totalCompleted' \in Nat /\ startCompleted' \in Nat
      /\ floor' = WorkspaceFloor(live) /\ state = "HOLD"
  BY ConfigAssumption DEF Activate
<1>3. WorkspaceFloor(live) \in Int \union {None}
  BY ConfigAssumption DEF WorkspaceFloor, Larger
<1>4. state' \in {"HOLD", "ACTIVE"}
  BY <1>2
<1>5. QED
  BY <1>1, <1>2, <1>3, <1>4, ClearStep

(* Waiting and stuttering leave the timeline as it is.                     *)
LEMMA IdleStep ==
  ASSUME IndInv, now' \in Nat,
         UNCHANGED <<state, timeline, pending, counters, lastRequested,
                     requestPrefix, lastScheduled, floor>>
  PROVE  IndInv' /\ CommittedKept
<1>1. /\ UNCHANGED <<state, queue, times, nominal, sent, pending, steps,
                     totalCompleted, startCompleted, lastRequested,
                     requestPrefix, lastScheduled, floor>>
  BY DEF timeline, counters
<1>2. IndInv'
  BY <1>1 DEF IndInv, TypeOK, SentIsPrefix, PrefixAligned, InferenceDelay,
              CommittedSteps, QueueSafe, NothingReplaceableWhilePending
<1>3. /\ CommittedSteps \in 0..Len(queue)
      /\ \A i \in 1..Len(queue) : sent[i] <=> i <= CommittedSteps
      /\ DOMAIN queue = 1..Len(queue)
  BY CommittedPrefix, LenProperties DEF IndInv, TypeOK
<1>4. CommittedKept
  <2> DEFINE k == CommittedSteps
  <2>1. 0 \in 0..k /\ \A i \in 1..0 : times[i] <= now
    BY <1>3
  <2>2. ASSUME NEW i \in (0 + 1)..k
        PROVE  /\ i - 0 \in DOMAIN queue'
               /\ queue'[i - 0] = queue[i]
               /\ times'[i - 0] = times[i]
               /\ sent'[i - 0]
    <3>1. i - 0 = i /\ i \in 1..Len(queue) /\ i <= k
      BY <1>3
    <3> HIDE DEF k
    <3>2. sent[i] /\ i \in DOMAIN queue
      BY <1>3, <3>1 DEF k
    <3>3. QED
      BY <1>1, <3>1, <3>2
  <2>3. QED
    BY <2>1, <2>2 DEF CommittedKept
<1>5. QED
  BY <1>2, <1>4
-----------------------------------------------------------------------------
(* Opening a request records the committed prefix the policy is given.     *)
LEMMA RequestStep ==
  ASSUME IndInv, MarkRequestStarted
  PROVE  IndInv' /\ CommittedKept
<1> DEFINE k == CommittedSteps
<1>1. /\ k \in 0..Len(queue) /\ k \in Nat /\ LeadingRun(sent) = k
      /\ \A i \in 1..Len(queue) : sent[i] <=> i <= k
      /\ Len(queue) \in Nat /\ queue \in [1..Len(queue) -> Int]
      /\ times \in [1..Len(queue) -> Int]
      /\ DOMAIN queue = 1..Len(queue) /\ DOMAIN sent = 1..Len(queue)
  BY CommittedPrefix, ArrayTypes DEF IndInv, TypeOK
<1>2. /\ UNCHANGED <<now, state, queue, times, nominal, sent, totalCompleted,
                     lastScheduled, floor>>
      /\ pending' = TRUE /\ steps' = 0 /\ startCompleted' = totalCompleted
      /\ requestPrefix' = SubSeq(queue, 1, k)
      /\ lastRequested' = IF k = 0 THEN None ELSE times[k]
  BY <1>1 DEF MarkRequestStarted, RtcPrefix, timeline
<1>3. /\ SubSeq(queue, 1, k) \in Seq(Int)
      /\ Len(SubSeq(queue, 1, k)) = k
      /\ \A i \in 1..k : SubSeq(queue, 1, k)[i] = queue[i]
  BY <1>1, PrefixOf
<1>4. lastRequested' \in Int \union {None}
  BY <1>1, <1>2
<1>5. TypeOK'
  BY <1>2, <1>3, <1>4 DEF IndInv, TypeOK
<1>6. SentIsPrefix' /\ QueueSafe'
  BY <1>2 DEF IndInv, SentIsPrefix, QueueSafe
<1>7. CommittedSteps' = k /\ InferenceDelay' = 0
  BY <1>2 DEF CommittedSteps, InferenceDelay, IndInv, TypeOK
<1>8. PrefixAligned'
  <2>1. InferenceDelay' + CommittedSteps' = Len(requestPrefix')
    BY <1>1, <1>2, <1>3, <1>7
  <2>2. ASSUME NEW i \in 1..CommittedSteps'
        PROVE  queue'[i] = requestPrefix'[InferenceDelay' + i]
    <3>1. i \in 1..k /\ InferenceDelay' + i = i
      BY <1>1, <1>7
    <3>2. QED
      BY <1>2, <1>3, <3>1
  <2>3. QED
    BY <1>7, <2>1, <2>2 DEF PrefixAligned
<1>9. NothingReplaceableWhilePending'
  <2>1. CompleteChunk => ChunkNearlyExecuted
    BY DEF MarkRequestStarted, RequestDue
  <2>2. CompleteChunk => \A i \in 1..Len(queue) : sent[i]
    BY <1>1, <2>1 DEF ChunkNearlyExecuted
  <2>3. QED
    BY <1>2, <2>2 DEF NothingReplaceableWhilePending
<1>10. CommittedKept
  <2>1. 0 \in 0..k /\ \A i \in 1..0 : times[i] <= now
    BY <1>1
  <2>2. ASSUME NEW i \in (0 + 1)..k
        PROVE  /\ i - 0 \in DOMAIN queue'
               /\ queue'[i - 0] = queue[i]
               /\ times'[i - 0] = times[i]
               /\ sent'[i - 0]
    <3>1. i - 0 = i /\ i \in 1..Len(queue) /\ i <= k
      BY <1>1
    <3> HIDE DEF k
    <3>2. sent[i] /\ i \in DOMAIN queue
      BY <1>1, <3>1
    <3>3. QED
      BY <1>2, <3>1, <3>2
  <2>3. QED
    BY <2>1, <2>2 DEF CommittedKept
<1>11. QED
  BY <1>5, <1>6, <1>8, <1>9, <1>10 DEF IndInv

(* Retiring the leading due waypoints shifts the prefix and counts them.   *)
LEMMA AdvanceStep ==
  ASSUME IndInv, NEW setpoint, Advance(setpoint), state' # "HOLD"
  PROVE  IndInv' /\ CommittedKept /\ Retired
<1> DEFINE k == CommittedSteps
           n == Len(queue)
           c == LeadingRun(Due)
<1>1. /\ k \in 0..n /\ k \in Nat /\ k <= CommitSteps /\ n \in Nat /\ n <= MaxQueue
      /\ MaxQueue \in Nat /\ CommitSteps \in Nat
      /\ \A i \in 1..n : sent[i] <=> i <= k
      /\ queue \in [1..n -> Int] /\ times \in [1..n -> Int] /\ nominal \in [1..n -> Int]
      /\ sent \in [1..n -> BOOLEAN]
  BY CommittedPrefix, ArrayTypes, ConfigAssumption DEF IndInv, TypeOK
<1>2. /\ queue' = Drop(queue, c) /\ times' = Drop(times, c)
      /\ nominal' = Drop(nominal, c) /\ sent' = Drop(sent, c)
      /\ steps' = steps + c /\ totalCompleted' = totalCompleted + c
      /\ UNCHANGED <<now, state, pending, startCompleted, lastRequested,
                     requestPrefix, lastScheduled, floor>>
  BY DEF Advance, EnterHold
<1>3. c \in 0..n /\ c <= k /\ \A i \in 1..c : sent[i] /\ times[i] <= now
  <2>1. Due \in [1..n -> BOOLEAN]
    BY ZenonT(20) DEF Due
  <2>2. c \in 0..n /\ \A i \in 1..c : Due[i]
    BY <1>1, <2>1, LeadingRunProperties
  <2> HIDE DEF c
  <2>3. \A i \in 1..c : i \in 1..n
    BY <1>1, <2>2
  <2> HIDE DEF n
  <2>4. \A i \in 1..c : sent[i] /\ times[i] <= now
    BY <2>2, <2>3, Zenon DEF Due, n
  <2>5. c <= k
    BY <1>1, <2>2, <2>3, <2>4
  <2>6. QED
    BY <2>2, <2>4, <2>5
<1> HIDE DEF k, n, c
<1>4. /\ queue' \in Seq(Int) /\ Len(queue') = n - c
      /\ \A i \in 1..(n - c) : queue'[i] = queue[i + c]
  <2>1. Drop(queue, c) \in Seq(Int) /\ Drop(queue, c) \in [1..(n - c) -> Int]
    BY <1>1, <1>3, DropOf, Zenon
  <2>2. \A i \in 1..(n - c) : Drop(queue, c)[i] = queue[i + c]
    <3>1. n \in Nat /\ queue \in [1..n -> Int] /\ c \in 0..n
      BY <1>1, <1>3
    <3>2. QED
      BY <3>1, DropIndex
  <2>3. n - c \in Nat
    BY <1>1, <1>3
  <2>4. QED
    BY <1>2, <2>1, <2>2, <2>3, FunctionIsSequence
<1>5. /\ times' \in [1..(n - c) -> Int]
      /\ \A i \in 1..(n - c) : times'[i] = times[i + c]
  <2>1. Drop(times, c) \in [1..(n - c) -> Int]
    BY <1>1, <1>3, DropOf, Zenon
  <2>2. \A i \in 1..(n - c) : Drop(times, c)[i] = times[i + c]
    <3>1. n \in Nat /\ times \in [1..n -> Int] /\ c \in 0..n
      BY <1>1, <1>3
    <3>2. QED
      BY <3>1, DropIndex
  <2>3. QED
    BY <1>2, <2>1, <2>2
<1>6. /\ sent' \in [1..(n - c) -> BOOLEAN]
      /\ \A i \in 1..(n - c) : sent'[i] = sent[i + c]
  <2>1. Drop(sent, c) \in [1..(n - c) -> BOOLEAN]
    BY <1>1, <1>3, DropOf, Zenon
  <2>2. \A i \in 1..(n - c) : Drop(sent, c)[i] = sent[i + c]
    <3>1. n \in Nat /\ sent \in [1..n -> BOOLEAN] /\ c \in 0..n
      BY <1>1, <1>3
    <3>2. QED
      BY <3>1, DropIndex
  <2>3. QED
    BY <1>2, <2>1, <2>2
<1>7. nominal' \in [1..(n - c) -> Int]
  BY <1>1, <1>2, <1>3, DropOf
<1>8. TypeOK'
  <2>1. steps' \in Nat /\ totalCompleted' \in Nat
    BY <1>2, <1>3 DEF IndInv, TypeOK
  <2>2. Len(queue') <= MaxQueue
    BY <1>1, <1>3, <1>4
  <2>3. /\ times' \in [1..Len(queue') -> Int] /\ nominal' \in [1..Len(queue') -> Int]
        /\ sent' \in [1..Len(queue') -> BOOLEAN]
    BY <1>4, <1>5, <1>6, <1>7, Zenon
  <2>4. QED
    BY <1>2, <1>4, <2>1, <2>2, <2>3 DEF IndInv, TypeOK
<1>9. k - c \in 0..(n - c) /\ k - c \in 0..CommitSteps /\ n - c \in Nat
  BY <1>1, <1>3
<1>10. ASSUME NEW i \in 1..(n - c) PROVE sent'[i] <=> i <= k - c
  <2>1. i + c \in 1..n /\ (i + c <= k <=> i <= k - c)
    BY <1>1, <1>3
  <2>2. sent'[i] = sent[i + c] /\ (sent[i + c] <=> i + c <= k)
    BY <1>1, <1>6, <2>1, Zenon
  <2>3. QED
    BY <2>1, <2>2
<1>11. SentIsPrefix'
  BY <1>4, <1>9, <1>10 DEF SentIsPrefix
<1>12. CommittedSteps' = k - c
  BY <1>6, <1>9, <1>10, PrefixCount DEF CommittedSteps
<1>13. PrefixAligned'
  <2>1. SUFFICES ASSUME pending PROVE PrefixAligned'
    BY <1>2 DEF PrefixAligned
  <2>2. /\ InferenceDelay \in Nat
        /\ InferenceDelay + k = Len(requestPrefix)
        /\ \A i \in 1..k : queue[i] = requestPrefix[InferenceDelay + i]
    BY <2>1, ArrayTypes DEF IndInv, PrefixAligned, k
  <2>3. InferenceDelay' = InferenceDelay + c
    BY <1>2, <1>3 DEF InferenceDelay, IndInv, TypeOK
  <2>4. InferenceDelay' >= 0 /\ InferenceDelay' + CommittedSteps' = Len(requestPrefix')
    <3>1. InferenceDelay' \in Nat /\ (InferenceDelay + c) + (k - c) = InferenceDelay + k
      BY <1>1, <1>3, <2>2, <2>3
    <3>2. requestPrefix' = requestPrefix
      BY <1>2
    <3>3. QED
      BY <1>12, <2>2, <2>3, <3>1, <3>2
  <2>5. ASSUME NEW i \in 1..CommittedSteps'
        PROVE  queue'[i] = requestPrefix'[InferenceDelay' + i]
    <3>1. i \in 1..(n - c) /\ i + c \in 1..k /\ InferenceDelay' + i = InferenceDelay + (i + c)
      BY <1>1, <1>3, <1>12, <2>2, <2>3
    <3>2. QED
      BY <1>2, <1>4, <2>2, <3>1
  <2>6. QED
    BY <2>4, <2>5 DEF PrefixAligned
<1>14. QueueSafe'
  <2>1. ASSUME NEW i \in 1..Len(queue')
        PROVE  /\ floor' # None => queue'[i] >= floor'
               /\ i > 1 => Distance(queue'[i - 1], queue'[i]) <= StepLimit
    <3>1. /\ i \in 1..(n - c) /\ i + c \in 1..n /\ queue'[i] = queue[i + c]
          /\ i > 1 => i + c > 1 /\ i - 1 \in 1..(n - c) /\ (i - 1) + c = (i + c) - 1
      BY <1>1, <1>3, <1>4
    <3>2. i > 1 => queue'[i - 1] = queue[(i + c) - 1]
      BY <1>4, <3>1
    <3>3. /\ floor # None => queue[i + c] >= floor
          /\ i + c > 1 => Distance(queue[(i + c) - 1], queue[i + c]) <= StepLimit
      BY <3>1 DEF IndInv, QueueSafe, n
    <3>4. QED
      BY <1>2, <3>1, <3>2, <3>3
  <2>2. QED
    BY <2>1 DEF QueueSafe
<1>15. NothingReplaceableWhilePending'
  <2>1. SUFFICES ASSUME CompleteChunk, pending, NEW i \in 1..Len(queue') PROVE sent'[i]
    BY <1>2 DEF NothingReplaceableWhilePending
  <2>2. i \in 1..(n - c) /\ i + c \in 1..n
    BY <1>1, <1>3, <1>4
  <2>3. sent[i + c]
    BY <2>1, <2>2 DEF IndInv, NothingReplaceableWhilePending, n
  <2>4. QED
    BY <1>6, <2>2, <2>3
<1>16. CommittedKept
  <2>1. c \in 0..k
    BY <1>1, <1>3
  <2>2. ASSUME NEW i \in (c + 1)..k
        PROVE  /\ i - c \in DOMAIN queue'
               /\ queue'[i - c] = queue[i]
               /\ times'[i - c] = times[i]
               /\ sent'[i - c]
    <3>1. i - c \in 1..(n - c) /\ (i - c) + c = i /\ i - c <= k - c
      BY <1>1, <1>3
    <3>2. DOMAIN queue' = 1..(n - c)
      BY <1>4, LenProperties
    <3>3. QED
      BY <1>4, <1>5, <1>10, <3>1, <3>2
  <2>3. QED
    BY <1>3, <2>1, <2>2 DEF CommittedKept, k
<1>17. Retired
  <2>1. c \in 1..k
    <3>1. c > 0
      BY DEF Advance, c
    <3>2. QED
      BY <1>1, <1>3, <3>1
  <2>2. QED
    BY <1>2, <1>4, <1>5, <1>12, <2>1 DEF Retired, k, n
<1>18. QED
  BY <1>8, <1>11, <1>13, <1>14, <1>15, <1>16, <1>17 DEF IndInv

LEMMA CommitLimitBounds ==
  ASSUME TypeOK, NEW nt \in [1..Len(queue) -> Int]
  PROVE  CommitLimit(nt) \in Int /\ CommitLimit(nt) <= CommitSteps /\ CommitLimit(nt) <= Len(queue)
<1> DEFINE within == Cardinality({i \in DOMAIN nt : nt[i] <= now + CommitWindow})
<1>1. Len(queue) \in Nat /\ CommitSteps \in Nat
  BY ArrayTypes, ConfigAssumption
<1>2. within \in Int
  <2> DEFINE T == {i \in DOMAIN nt : nt[i] <= now + CommitWindow}
  <2>1. T \subseteq 1..Len(queue)
    OBVIOUS
  <2> HIDE DEF T
  <2>2. Cardinality(T) \in 0..Len(queue)
    BY <1>1, <2>1, SubsetCount
  <2>3. QED
    BY <1>1, <2>2 DEF T
<1>3. CommittedSteps \in Int
  <2> DEFINE T == {i \in DOMAIN sent : sent[i]}
  <2>1. T \subseteq 1..Len(queue)
    BY ArrayTypes
  <2> HIDE DEF T
  <2>2. Cardinality(T) \in 0..Len(queue)
    BY <1>1, <2>1, SubsetCount
  <2>3. QED
    BY <1>1, <2>2 DEF T, CommittedSteps
<1> HIDE DEF within
<1>4. QED
  BY <1>1, <1>2, <1>3 DEF CommitLimit, Smaller, Larger, within

(* Dispatching a batch lengthens the committed prefix, up to the limit.    *)
LEMMA PopStep ==
  ASSUME IndInv, NEW live \in Int, NEW maxActions \in Nat, PopBatch(live, maxActions)
  PROVE  IndInv' /\ CommittedKept /\ Dispatched
<1> DEFINE k == CommittedSteps
           n == Len(queue)
           nt == RetimedTimes(live)
           available == Smaller(CommitLimit(nt) - k, maxActions)
           batch == Batch(available)
           k1 == IF available > 0 THEN k + available ELSE k
<1>1. /\ k \in 0..n /\ k \in Nat /\ k <= CommitSteps /\ n \in Nat /\ CommitSteps \in Nat
      /\ \A i \in 1..n : sent[i] <=> i <= k
      /\ queue \in [1..n -> Int] /\ sent \in [1..n -> BOOLEAN] /\ DOMAIN sent = 1..n
      /\ DOMAIN queue = 1..n
  BY CommittedPrefix, ArrayTypes, ConfigAssumption DEF IndInv, TypeOK
<1>2. nt \in [1..n -> Int] /\ \A i \in 1..k : nt[i] = times[i]
  BY RetimedProperties DEF IndInv
<1> HIDE DEF nt
<1>3. /\ available \in Int
      /\ k + available <= CommitSteps /\ k + available <= n
  <2>1. /\ CommitLimit(nt) \in Int /\ CommitLimit(nt) <= CommitSteps
        /\ CommitLimit(nt) <= Len(queue)
    BY <1>2, CommitLimitBounds DEF IndInv
  <2> HIDE DEF k
  <2>2. QED
    BY <1>1, <2>1 DEF Smaller
<1> HIDE DEF available
<1>4. \A i \in 1..n : i \in batch <=> k < i /\ i - k <= available
  BY <1>3, BatchProperties DEF IndInv
<1>5. batch \subseteq 1..n
  BY <1>1 DEF Batch
<1>6. /\ UNCHANGED <<now, state, queue, nominal, pending, steps, totalCompleted,
                     startCompleted, lastRequested, requestPrefix, floor>>
      /\ times' = nt
      /\ sent' = [i \in DOMAIN sent |-> sent[i] \/ i \in batch]
      /\ lastScheduled' =
           IF batch = {} THEN lastScheduled
           ELSE LET last == CHOOSE i \in batch : \A j \in batch : j <= i
                IN  [target |-> queue[last], time |-> nt[last]]
      /\ ~pending
  BY DEF PopBatch, counters, nt, available, k
<1> HIDE DEF batch, k, n
<1>7. sent' \in [1..n -> BOOLEAN]
  <2>1. \A i \in 1..n : (sent[i] \/ i \in batch) \in BOOLEAN
    OBVIOUS
  <2>2. QED
    BY <1>1, <1>6, <2>1, Zenon
<1>8. k1 \in 0..n /\ k1 \in 0..CommitSteps /\ k <= k1
  BY <1>1, <1>3
<1>9. ASSUME NEW i \in 1..n PROVE sent'[i] <=> i <= k1
  <2>1. sent'[i] = (sent[i] \/ i \in batch)
    BY <1>1, <1>6, Zenon
  <2>2. (sent[i] \/ i \in batch) <=> i <= k1
    BY <1>1, <1>3, <1>4
  <2>3. QED
    BY <2>1, <2>2, Zenon
<1> HIDE DEF k1
<1>10. SentIsPrefix'
  BY <1>6, <1>8, <1>9 DEF SentIsPrefix, n
<1>11. IF k1 = k THEN lastScheduled' = lastScheduled
                 ELSE lastScheduled' = [target |-> queue[k1], time |-> nt[k1]]
  <2>1. CASE batch = {}
    <3>1. ~(available > 0)
      <4>1. SUFFICES ASSUME available > 0 PROVE FALSE
        OBVIOUS
      <4>2. k + 1 \in 1..n /\ k < k + 1 /\ (k + 1) - k <= available
        BY <1>1, <1>3, <4>1
      <4>3. QED
        BY <1>4, <2>1, <4>2
    <3>2. QED
      BY <1>6, <2>1, <3>1 DEF k1
  <2>2. CASE batch # {}
    <3> DEFINE last == CHOOSE i \in batch : \A j \in batch : j <= i
    <3>1. /\ k + available \in batch /\ \A j \in batch : j <= k + available
          /\ available > 0
      <4>1. \A j \in batch : j \in 1..n /\ k < j /\ j - k <= available
        BY <1>4, <1>5
      <4>2. PICK j \in batch : j \in 1..n /\ k < j /\ j - k <= available
        BY <2>2, <4>1
      <4>3. k + available \in 1..n /\ k < k + available /\ (k + available) - k <= available
        BY <1>1, <1>3, <4>2
      <4>4. k + available \in batch
        BY <1>4, <4>3
      <4>5. \A i \in batch : i <= k + available
        BY <1>1, <1>3, <4>1
      <4>6. QED
        BY <1>1, <1>3, <4>3, <4>4, <4>5
    <3>2. last \in batch /\ \A j \in batch : j <= last
      BY <3>1
    <3> HIDE DEF last
    <3>3. last = k + available
      BY <1>1, <1>3, <1>5, <3>1, <3>2
    <3>4. k1 = k + available /\ k1 # k
      BY <1>1, <1>3, <3>1 DEF k1
    <3>5. lastScheduled' = [target |-> queue[last], time |-> nt[last]]
      BY <1>6, <2>2 DEF last
    <3>6. QED
      BY <3>3, <3>4, <3>5
  <2>3. QED
    BY <2>1, <2>2
<1>12. TypeOK'
  <2>1. lastScheduled' \in {None} \union [target : Int, time : Int]
    <3>1. CASE k1 = k
      BY <1>11, <3>1 DEF IndInv, TypeOK
    <3>2. CASE k1 # k
      <4>1. k1 \in 1..n
        BY <1>1, <1>8, <3>2
      <4>2. queue[k1] \in Int /\ nt[k1] \in Int
        BY <1>1, <1>2, <4>1
      <4>3. QED
        BY <1>11, <3>2, <4>2
    <3>3. QED
      BY <3>1, <3>2
  <2>2. QED
    BY <1>2, <1>6, <1>7, <2>1 DEF IndInv, TypeOK, n
<1>13. PrefixAligned' /\ NothingReplaceableWhilePending'
  BY <1>6 DEF PrefixAligned, NothingReplaceableWhilePending
<1>14. QueueSafe'
  BY <1>6 DEF IndInv, QueueSafe
<1>15. CommittedKept
  <2>1. 0 \in 0..k /\ \A i \in 1..0 : times[i] <= now
    BY <1>1
  <2>2. ASSUME NEW i \in (0 + 1)..k
        PROVE  /\ i - 0 \in DOMAIN queue'
               /\ queue'[i - 0] = queue[i]
               /\ times'[i - 0] = times[i]
               /\ sent'[i - 0]
    <3>1. i - 0 = i /\ i \in 1..n /\ i \in 1..k /\ i <= k1
      BY <1>1, <1>8
    <3>2. sent'[i]
      BY <1>9, <3>1
    <3>3. QED
      BY <1>1, <1>2, <1>6, <3>1, <3>2
  <2>3. QED
    BY <2>1, <2>2 DEF CommittedKept, k
<1>16. Dispatched
  <2>1. CommittedSteps' = k1
    BY <1>1, <1>7, <1>8, <1>9, PrefixCount DEF CommittedSteps
  <2>2. QED
    BY <1>1, <1>6, <1>8, <1>9, <1>11, <2>1 DEF Dispatched, k, n
<1>17. QED
  BY <1>10, <1>12, <1>13, <1>14, <1>15, <1>16 DEF IndInv

(* Where the new suffix starts from is a place and a time.                 *)
LEMMA SpliceTypes ==
  ASSUME TypeOK, NEW m \in Nat, NEW T \in [1..m -> Int], NEW live \in Int,
         NEW prefix \in 0..m, prefix <= Len(queue)
  PROVE  SpliceTarget(T, prefix, live) \in Int /\ SpliceTime(prefix) \in Int
<1>1. /\ Len(queue) \in Nat /\ times \in [1..Len(queue) -> Int] /\ now + DispatchLead \in Int
      /\ lastScheduled \in {None} \union [target : Int, time : Int]
  BY ArrayTypes, ConfigAssumption DEF TypeOK
<1>2. lastScheduled # None => lastScheduled.target \in Int /\ lastScheduled.time \in Int
  BY <1>1
<1>3. prefix > 0 => T[prefix] \in Int /\ times[prefix] \in Int
  BY <1>1
<1>4. QED
  BY <1>1, <1>2, <1>3 DEF SpliceTarget, SpliceTime, Larger

(* An accepted merge keeps the committed prefix, index by index, and plans *)
(* only waypoints that pass the guards.                                    *)
LEMMA MergeStep ==
  ASSUME IndInv, pending, NEW chunk \in [1..Horizon -> Int], NEW observed \in Int,
         NEW live \in Int, MergeAccepted(chunk, observed, live)
  PROVE  IndInv' /\ CommittedKept /\ Spliced
<1> DEFINE k == CommittedSteps
           n == Len(queue)
           T == MergedTargets(chunk, observed)
           N == MergedNominals(chunk, observed)
           safe == Acceptable(T, live)
           kept == Kept(T, live)
           noms == SubSeq(N, 1, kept)
           tail == Retime(SubSeq(T, k + 1, kept), Drop(noms, k),
                          SpliceTarget(T, k, live), SpliceTime(k))
           unsent == [i \in 1..(kept - k) |-> FALSE]
<1>1. /\ k \in 0..n /\ k \in Nat /\ k <= CommitSteps /\ n \in Nat
      /\ \A i \in 1..n : sent[i] <=> i <= k
      /\ queue \in [1..n -> Int] /\ times \in [1..n -> Int] /\ sent \in [1..n -> BOOLEAN]
      /\ InferenceDelay \in Int /\ Len(requestPrefix) \in Nat
      /\ Horizon \in Nat /\ MaxQueue \in Nat /\ CommitSteps \in Nat /\ CommitSteps <= MaxQueue
      /\ ReplanRemaining \in Nat
  BY CommittedPrefix, ArrayTypes, ConfigAssumption DEF IndInv, TypeOK
<1>2. Preserved = k
  <2>1. InferenceDelay + k = Len(requestPrefix)
    BY DEF IndInv, PrefixAligned
  <2>2. Len(requestPrefix) - InferenceDelay = k
    BY <1>1, <2>1
  <2>3. Preserved = Smaller(Larger(0, k), n)
    BY <2>2 DEF Preserved
  <2> HIDE DEF k, n
  <2>4. QED
    BY <1>1, <2>3 DEF Smaller, Larger
<1>3. PICK m \in Nat : /\ T \in [1..m -> Int] /\ Len(T) = m /\ N \in [1..m -> Int]
                       /\ k <= m /\ \A i \in 1..k : T[i] = queue[i]
  BY <1>1, <1>2, MergedProperties DEF IndInv
<1> HIDE DEF T, N
<1>4. /\ safe \in 0..m
      /\ \A i \in 1..safe : /\ floor # None => ~(T[i] < floor)
                            /\ i > 1 => ~(Distance(T[i - 1], T[i]) > StepLimit)
  <2> DEFINE anchor == IF Preserved > 0 THEN T[1] ELSE live
  <2>1. anchor \in Int
    BY <1>1, <1>2, <1>3
  <2> HIDE DEF anchor
  <2>2. safe = SafeLength(T, anchor)
    BY DEF Acceptable, anchor
  <2>3. QED
    BY <1>3, <2>1, <2>2, SafeLengthProperties
<1>5. safe >= Required(T) /\ Required(T) >= k
  <2>1. safe >= Required(T)
    BY DEF MergeAccepted, T
  <2> HIDE DEF k, safe
  <2>2. Required(T) >= k
    BY <1>1, <1>2, <1>3 DEF Required, Smaller, Larger
  <2>3. QED
    BY <2>1, <2>2
<1>6. kept \in 0..m /\ k <= kept /\ kept <= MaxQueue /\ kept <= safe /\ kept - k \in Nat
  <2>1. Required(T) \in Int
    BY <1>1, <1>2, <1>3 DEF Required, Smaller, Larger
  <2> HIDE DEF k, safe
  <2>2. QED
    BY <1>1, <1>3, <1>4, <1>5, <2>1 DEF Smaller, Kept, safe
<1>7. Smaller(Preserved, kept) = k
  <2> HIDE DEF k, kept
  <2>1. QED
    BY <1>1, <1>2, <1>6 DEF Smaller
<1>8. /\ queue' = SubSeq(T, 1, kept)
      /\ nominal' = noms
      /\ sent' = SubSeq(sent, 1, k) \o unsent
      /\ times' = SubSeq(times, 1, k) \o tail
      /\ pending' = FALSE /\ requestPrefix' = <<>>
      /\ UNCHANGED <<now, state, steps, totalCompleted, startCompleted,
                     lastRequested, lastScheduled, floor>>
  <2>1. /\ queue' = SubSeq(T, 1, kept)
        /\ nominal' = noms
        /\ pending' = FALSE /\ requestPrefix' = <<>>
        /\ UNCHANGED <<now, state, steps, totalCompleted, startCompleted,
                       lastRequested, lastScheduled, floor>>
    BY DEF MergeAccepted, T, N, counters
  <2> DEFINE p == Smaller(Preserved, kept)
  <2>2. /\ sent' = SubSeq(sent, 1, p) \o [i \in 1..(kept - p) |-> FALSE]
        /\ times' = SubSeq(times, 1, p)
                      \o Retime(SubSeq(T, p + 1, kept), Drop(noms, p),
                                SpliceTarget(T, p, live), SpliceTime(p))
    BY DEF MergeAccepted, T, N
  <2>3. p = k
    BY <1>7
  <2> HIDE DEF p, k, kept, noms
  <2>4. QED
    BY <2>1, <2>2, <2>3
<1> HIDE DEF k, n, safe, kept
<1>9. /\ queue' \in Seq(Int) /\ queue' \in [1..kept -> Int] /\ Len(queue') = kept
      /\ \A i \in 1..kept : queue'[i] = T[i]
  <2>1. m \in Nat /\ T \in [1..m -> Int] /\ kept \in 0..m
    BY <1>3, <1>6
  <2>2. /\ SubSeq(T, 1, kept) \in Seq(Int)
        /\ SubSeq(T, 1, kept) \in [1..kept -> Int]
        /\ Len(SubSeq(T, 1, kept)) = kept
        /\ \A i \in 1..kept : SubSeq(T, 1, kept)[i] = T[i]
    BY <2>1, PrefixOf
  <2>3. QED
    BY <1>8, <2>2
<1>10. noms \in [1..kept -> Int]
  BY <1>3, <1>6, PrefixOf
<1> HIDE DEF noms
<1>11. /\ SubSeq(T, k + 1, kept) \in [1..(kept - k) -> Int]
       /\ Drop(noms, k) \in [1..(kept - k) -> Int]
       /\ SpliceTarget(T, k, live) \in Int /\ SpliceTime(k) \in Int
       /\ tail \in [1..(kept - k) -> Int]
  <2>1. k \in 0..kept /\ k + 1 \in 1..(m + 1) /\ kept \in (k + 1 - 1)..m
        /\ kept - (k + 1) + 1 = kept - k /\ kept \in Nat /\ k \in 0..m /\ k <= Len(queue)
    BY <1>1, <1>3, <1>6 DEF n
  <2>2. Drop(noms, k) \in [1..(kept - k) -> Int]
    BY <1>10, <2>1, DropOf, Zenon
  <2>3. SubSeq(T, k + 1, kept) \in [1..(kept - (k + 1) + 1) -> Int]
    <3> DEFINE a == k + 1
    <3>1. m \in Nat /\ a \in 1..(m + 1) /\ kept \in (a - 1)..m
      BY <2>1
    <3> HIDE DEF a
    <3>2. SubSeq(T, a, kept) \in [1..(kept - a + 1) -> Int]
      BY <1>3, <3>1, SegmentOf
    <3>3. QED
      BY <3>2 DEF a
  <2>4. SubSeq(T, k + 1, kept) \in [1..(kept - k) -> Int]
    BY <2>1, <2>3
  <2>5. SpliceTarget(T, k, live) \in Int /\ SpliceTime(k) \in Int
    BY <1>3, <2>1, SpliceTypes DEF IndInv
  <2>6. tail \in [1..(kept - k) -> Int]
    BY <1>6, <2>2, <2>4, <2>5, RetimeProperties
  <2> HIDE DEF tail
  <2>7. QED
    BY <2>2, <2>4, <2>5, <2>6
<1> HIDE DEF tail
<1>12. k \in Nat /\ kept - k \in Nat /\ k + (kept - k) = kept
  BY <1>1, <1>6
<1>13. times' \in [1..kept -> Int] /\ \A i \in 1..k : times'[i] = times[i]
  <2>1. SubSeq(times, 1, k) \in [1..k -> Int] /\ \A i \in 1..k : SubSeq(times, 1, k)[i] = times[i]
    BY <1>1, PrefixOf
  <2> DEFINE head == SubSeq(times, 1, k)
  <2> HIDE DEF head
  <2>2. head \in [1..k -> Int] /\ times' = head \o tail
    BY <1>8, <2>1 DEF head
  <2>3. head \o tail \in [1..(k + (kept - k)) -> Int]
    BY <1>11, <1>12, <2>2, ConcatOf, Zenon
  <2>4. \A i \in 1..k : (head \o tail)[i] = head[i]
    BY <1>11, <1>12, <2>2, ConcatOf
  <2>5. QED
    BY <1>12, <2>1, <2>2, <2>3, <2>4 DEF head
<1>14. /\ sent' \in [1..kept -> BOOLEAN]
       /\ \A i \in 1..kept : sent'[i] <=> i <= k
  <2>1. /\ SubSeq(sent, 1, k) \in [1..k -> BOOLEAN]
        /\ \A i \in 1..k : SubSeq(sent, 1, k)[i] = sent[i]
    BY <1>1, PrefixOf
  <2> DEFINE head == SubSeq(sent, 1, k)
  <2> HIDE DEF head
  <2>2. head \in [1..k -> BOOLEAN] /\ sent' = head \o unsent
    BY <1>8, <2>1 DEF head
  <2>3. unsent \in [1..(kept - k) -> BOOLEAN] /\ \A i \in 1..(kept - k) : ~unsent[i]
    OBVIOUS
  <2> HIDE DEF unsent
  <2>4. head \o unsent \in [1..(k + (kept - k)) -> BOOLEAN]
    BY <1>12, <2>2, <2>3, ConcatOf, Zenon
  <2>5. /\ \A i \in 1..k : (head \o unsent)[i] = head[i]
        /\ \A i \in (k + 1)..(k + (kept - k)) : (head \o unsent)[i] = unsent[i - k]
    BY <1>12, <2>2, <2>3, ConcatOf
  <2>6. ASSUME NEW i \in 1..kept PROVE sent'[i] <=> i <= k
    <3>1. CASE i <= k
      <4>1. i \in 1..k /\ i \in 1..n
        BY <1>1, <3>1
      <4>2. sent'[i] = sent[i]
        BY <2>1, <2>2, <2>5, <4>1 DEF head
      <4>3. sent[i]
        BY <1>1, <3>1, <4>1
      <4>4. QED
        BY <3>1, <4>2, <4>3
    <3>2. CASE ~(i <= k)
      <4>1. i \in (k + 1)..(k + (kept - k)) /\ i - k \in 1..(kept - k)
        BY <1>12, <3>2
      <4>2. sent'[i] = unsent[i - k]
        BY <2>2, <2>5, <4>1
      <4>3. ~unsent[i - k]
        BY <2>3, <4>1
      <4>4. QED
        BY <3>2, <4>2, <4>3
    <3>3. QED
      BY <3>1, <3>2
  <2>7. QED
    BY <1>12, <2>2, <2>4, <2>6
<1>15. TypeOK'
  <2>1. requestPrefix' \in Seq(Int)
    BY <1>8, EmptySeq
  <2>2. /\ times' \in [1..Len(queue') -> Int] /\ nominal' \in [1..Len(queue') -> Int]
        /\ sent' \in [1..Len(queue') -> BOOLEAN]
    BY <1>8, <1>9, <1>10, <1>13, <1>14
  <2>3. Len(queue') <= MaxQueue
    BY <1>6, <1>9
  <2>4. QED
    BY <1>8, <1>9, <2>1, <2>2, <2>3 DEF IndInv, TypeOK
<1>16. SentIsPrefix'
  <2>1. k \in 0..CommitSteps /\ k <= kept
    BY <1>1, <1>6
  <2>2. QED
    BY <1>9, <1>14, <2>1 DEF SentIsPrefix
<1>17. PrefixAligned' /\ NothingReplaceableWhilePending'
  BY <1>8 DEF PrefixAligned, NothingReplaceableWhilePending
<1>18. QueueSafe'
  <2>1. ASSUME NEW i \in 1..kept
        PROVE  /\ floor' # None => queue'[i] >= floor'
               /\ i > 1 => Distance(queue'[i - 1], queue'[i]) <= StepLimit
    <3>1. i \in 1..safe /\ i \in 1..m /\ queue'[i] = T[i] /\ T[i] \in Int
      BY <1>3, <1>4, <1>6, <1>9
    <3>2. i > 1 => queue'[i - 1] = T[i - 1] /\ T[i - 1] \in Int
      BY <1>3, <1>6, <1>9
    <3>3. floor # None => floor \in Int
      BY DEF IndInv, TypeOK
    <3>4. StepLimit \in Int
      BY ConfigAssumption
    <3>5. ASSUME floor' # None PROVE queue'[i] >= floor'
      <4>1. floor # None /\ floor' = floor
        BY <1>8, <3>5
      <4>2. ~(T[i] < floor)
        BY <1>4, <3>1, <4>1
      <4>3. QED
        BY <3>1, <3>3, <4>1, <4>2
    <3>6. ASSUME i > 1 PROVE Distance(queue'[i - 1], queue'[i]) <= StepLimit
      <4>1. ~(Distance(T[i - 1], T[i]) > StepLimit)
        BY <1>4, <3>1, <3>6
      <4>2. Distance(T[i - 1], T[i]) \in Int
        BY <3>1, <3>2, <3>6 DEF Distance
      <4>3. queue'[i - 1] = T[i - 1] /\ queue'[i] = T[i]
        BY <3>1, <3>2, <3>6
      <4>4. QED
        BY <3>4, <4>1, <4>2, <4>3
    <3>7. QED
      BY <3>5, <3>6
  <2>2. QED
    BY <1>9, <2>1 DEF QueueSafe
<1>19. CommittedKept
  <2>1. 0 \in 0..k /\ \A i \in 1..0 : times[i] <= now
    BY <1>1
  <2>2. ASSUME NEW i \in (0 + 1)..k
        PROVE  /\ i - 0 \in DOMAIN queue'
               /\ queue'[i - 0] = queue[i]
               /\ times'[i - 0] = times[i]
               /\ sent'[i - 0]
    <3>1. i - 0 = i /\ i \in 1..k /\ i \in 1..kept /\ i <= k
      BY <1>1, <1>6
    <3>2. QED
      BY <1>3, <1>9, <1>13, <1>14, <3>1
  <2>3. QED
    BY <2>1, <2>2 DEF CommittedKept, k
<1>20. Spliced
  <2>1. CommittedSteps' = k
    <3>1. kept \in Nat /\ k \in 0..kept
      BY <1>1, <1>6
    <3>2. QED
      BY <1>14, <3>1, PrefixCount DEF CommittedSteps
  <2>2. Len(queue') \in k..MaxQueue
    BY <1>1, <1>6, <1>9
  <2>3. ASSUME NEW i \in 1..k PROVE queue'[i] = queue[i] /\ times'[i] = times[i]
    <3>1. i \in 1..kept
      BY <1>1, <1>6
    <3>2. QED
      BY <1>3, <1>9, <1>13, <3>1
  <2> DEFINE from == SpliceTarget(T, k, live)
             start == SpliceTime(k)
             head == SubSeq(times, 1, k)
  <2>4. /\ \A i \in 2..kept : i > k => times'[i] - times'[i - 1] >= MinimumDuration(queue'[i - 1], queue'[i])
        /\ k < kept => times'[k + 1] >= start + MinimumDuration(from, queue'[k + 1])
    <3>1. kept \in Nat /\ k \in 0..kept /\ from \in Int /\ start \in Int
      BY <1>1, <1>6, <1>11
    <3>2. head \in [1..k -> Int] /\ \A i \in 1..k : head[i] = times[i]
      BY <1>1, PrefixOf
    <3>3. ASSUME NEW i \in 1..(kept - k) PROVE SubSeq(T, k + 1, kept)[i] = queue'[i + k]
      <4> DEFINE a == k + 1
      <4>1. a \in 1..(m + 1) /\ kept \in (a - 1)..m /\ i \in 1..(kept - a + 1)
            /\ a + i - 1 = i + k /\ i + k \in 1..kept
        BY <1>3, <1>6, <1>12
      <4> HIDE DEF a
      <4>2. SubSeq(T, a, kept)[i] = T[a + i - 1]
        BY <1>3, <4>1, SegmentOf
      <4>3. QED
        BY <1>9, <4>1, <4>2 DEF a
    <3>4. k > 0 => from = queue'[k] /\ start >= head[k]
      <4>1. SUFFICES ASSUME k > 0 PROVE from = queue'[k] /\ start >= head[k]
        OBVIOUS
      <4>2. k \in 1..k /\ k \in 1..kept
        BY <3>1, <4>1
      <4>3. from = T[k] /\ start = times[k]
        BY <4>1 DEF SpliceTarget, SpliceTime
      <4>4. head[k] = times[k] /\ times[k] \in Int
        BY <1>1, <3>2, <4>2
      <4>5. queue'[k] = T[k]
        BY <1>9, <4>2
      <4> HIDE DEF from, start, head
      <4>6. QED
        BY <4>3, <4>4, <4>5
    <3>5. times' = head \o Retime(SubSeq(T, k + 1, kept), Drop(noms, k), from, start)
      BY <1>8 DEF tail
    <3> DEFINE Q == queue'
               D == SubSeq(T, k + 1, kept)
               late == Drop(noms, k)
               s == times'
    <3>6. RetimedAfter(kept, k, Q, head, D, late, from, start, s)
      BY <1>9, <1>11, <3>1, <3>2, <3>3, <3>4, <3>5 DEF RetimedAfter
    <3> HIDE DEF head, from, start, Q, D, late, s
    <3>7. PacedAfter(kept, k, Q, head, from, start, s)
      BY <3>1, <3>6, RetimedTail
    <3>8. QED
      BY <3>7 DEF PacedAfter, Q, s
  <2>5. SuffixPaced(queue', times')
    <3>1. SUFFICES ASSUME k = 0, kept > 0, lastScheduled # None
                   PROVE times'[1] - lastScheduled.time
                           >= MinimumDuration(lastScheduled.target, queue'[1])
      BY <1>9, <2>4 DEF SuffixPaced, k
    <3>2. lastScheduled.target \in Int /\ lastScheduled.time \in Int /\ now + DispatchLead \in Int
      BY <3>1, ConfigAssumption DEF IndInv, TypeOK
    <3>3. from = lastScheduled.target /\ start = Larger(lastScheduled.time, now + DispatchLead)
      BY <3>1 DEF SpliceTarget, SpliceTime
    <3>4. times'[1] >= start + MinimumDuration(from, queue'[1])
      BY <2>4, <3>1
    <3>5. start \in Int /\ start >= lastScheduled.time
      BY <3>2, <3>3 DEF Larger
    <3>6. times'[1] \in Int /\ queue'[1] \in Int
      BY <1>9, <1>13, <3>1
    <3>7. MinimumDuration(from, queue'[1]) \in Nat
      BY <3>2, <3>3, <3>6, DurationType
    <3> HIDE DEF from, start
    <3>8. times'[1] - lastScheduled.time >= MinimumDuration(from, queue'[1])
      BY <3>2, <3>4, <3>5, <3>6, <3>7
    <3>9. QED
      BY <3>3, <3>8
  <2>6. Len(queue') = 0 => ReplanRemaining = 0
    <3>1. SUFFICES ASSUME kept = 0 PROVE ReplanRemaining = 0
      BY <1>9
    <3>2. k = 0 /\ MaxQueue > 0
      BY <1>1, <1>6, <3>1, ConfigAssumption
    <3>3. safe = 0
      BY <1>1, <1>4, <3>1, <3>2 DEF kept, Kept, safe, Smaller
    <3>4. Required(T) = Smaller(m, Larger(0, ReplanRemaining))
      BY <1>2, <1>3, <3>2 DEF Required
    <3>5. m > 0
      <4>1. T # <<>>
        BY DEF MergeAccepted, T
      <4>2. T \in Seq(Int) /\ Len(T) = m
        BY <1>3, FunctionIsSequence
      <4>3. QED
        BY <1>3, <4>1, <4>2, EmptySeq
    <3>6. QED
      BY <1>1, <1>5, <3>2, <3>3, <3>4, <3>5 DEF Smaller, Larger
  <2>7. QED
    BY <2>1, <2>2, <2>3, <2>5, <2>6 DEF Spliced, k
<1>21. QED
  BY <1>15, <1>16, <1>17, <1>18, <1>19, <1>20 DEF IndInv
-----------------------------------------------------------------------------
(* One step of any action, or a stuttering step.                           *)
LEMMA NextStep ==
  ASSUME IndInv, [Next]_vars
  PROVE  IndInv' /\ (state = "ACTIVE" /\ state' = "ACTIVE" => CommittedKept)
<1>1. Heights \subseteq Int /\ Horizon \in Nat
  BY ConfigAssumption
<1>2. CASE EnterHold
  BY <1>2, HoldStep
<1>3. CASE Tick
  <2>1. now' \in Nat
    BY <1>3 DEF Tick, IndInv, TypeOK
  <2>2. QED
    BY <1>3, <2>1, IdleStep DEF Tick
<1>4. CASE \E live \in Heights : Activate(live)
  BY <1>1, <1>4, ActivateStep
<1>5. CASE \E setpoint \in Heights : Advance(setpoint)
  <2>1. PICK setpoint \in Heights : Advance(setpoint)
    BY <1>5
  <2>2. CASE state' = "HOLD"
    <3>1. EnterHold
      BY <2>1, <2>2 DEF Advance
    <3>2. QED
      BY <3>1, <1>2
  <2>3. CASE state' # "HOLD"
    BY <2>1, <2>3, AdvanceStep
  <2>4. QED
    BY <2>2, <2>3
<1>6. CASE MarkRequestStarted
  BY <1>6, RequestStep
<1>7. CASE \E chunk \in Chunks, observed \in Observed, live \in Heights :
             MergeChunk(chunk, observed, live)
  <2>1. PICK chunk \in Chunks, observed \in Observed, live \in Heights :
          MergeChunk(chunk, observed, live)
    BY <1>7
  <2>2. chunk \in [1..Horizon -> Int] /\ observed \in Int /\ live \in Int /\ pending
    <3>1. chunk \in [1..Horizon -> Int]
      BY <1>1 DEF Chunks
    <3>2. observed \in Int
      BY DEF Observed
    <3>3. QED
      BY <1>1, <2>1, <3>1, <3>2 DEF MergeChunk
  <2>3. CASE MergeAccepted(chunk, observed, live)
    BY <2>2, <2>3, MergeStep
  <2>4. CASE MergeRejected(chunk, observed, live)
    BY <2>4, <1>2 DEF MergeRejected
  <2>5. QED
    BY <2>1, <2>3, <2>4 DEF MergeChunk
<1>8. CASE \E live \in Heights, maxActions \in 1..CommitSteps : PopBatch(live, maxActions)
  <2>1. PICK live \in Heights, maxActions \in 1..CommitSteps : PopBatch(live, maxActions)
    BY <1>8
  <2>2. live \in Int /\ maxActions \in Nat
    BY <1>1, ConfigAssumption
  <2>3. QED
    BY <2>1, <2>2, PopStep
<1>9. CASE UNCHANGED vars
  <2>1. now' \in Nat
    BY <1>9 DEF vars, IndInv, TypeOK
  <2>2. UNCHANGED <<state, timeline, pending, counters, lastRequested,
                    requestPrefix, lastScheduled, floor>>
    BY <1>9 DEF vars
  <2>3. QED
    BY <2>1, <2>2, IdleStep
<1>10. CASE Hold \/ QueueExhausted \/ \E actual, setpoint \in Heights : TrackingFault(actual, setpoint)
  BY <1>10, <1>2 DEF Hold, QueueExhausted, TrackingFault
<1>11. QED
  BY <1>3, <1>4, <1>5, <1>6, <1>7, <1>8, <1>9, <1>10 DEF Next

LEMMA Inductive == Spec => []IndInv
<1>1. Init => IndInv
  BY InitInv
<1>2. IndInv /\ [Next]_vars => IndInv'
  BY NextStep
<1>3. QED
  BY <1>1, <1>2, PTL DEF Spec

(* The four arrays stay parallel, whatever chunks the policy answers.      *)
THEOREM TypeCorrect == Spec => []TypeOK
<1>1. IndInv => TypeOK
  BY DEF IndInv
<1>2. QED
  BY <1>1, Inductive, PTL

(* The committed waypoints are a leading part of the queue within the      *)
(* commit limit, so the two ways the code counts them agree.               *)
THEOREM CommittedIsPrefix == Spec => []SentIsPrefix
<1>1. IndInv => SentIsPrefix
  BY DEF IndInv
<1>2. QED
  BY <1>1, Inductive, PTL

(* The delay counted since a request always points at the waypoint of the  *)
(* request's prefix that is still first in the queue.                      *)
THEOREM DelayIsAligned == Spec => []PrefixAligned
<1>1. IndInv => PrefixAligned
  BY DEF IndInv
<1>2. QED
  BY <1>1, Inductive, PTL

(* No plan, however spliced or blended, goes below the floor or exceeds    *)
(* the step limit between neighbours.                                      *)
THEOREM PlanIsSafe == Spec => []QueueSafe
<1>1. IndInv => QueueSafe
  BY DEF IndInv
<1>2. QED
  BY <1>1, Inductive, PTL

(* Complete-chunk mode never replaces a waypoint that was not dispatched.  *)
THEOREM ChunksComplete == Spec => []NothingReplaceableWhilePending
<1>1. IndInv => NothingReplaceableWhilePending
  BY DEF IndInv
<1>2. QED
  BY <1>1, Inductive, PTL

(* No merge, truncation or retiming changes a waypoint that was sent.      *)
THEOREM CommittedIsImmutable == Spec => CommittedImmutable
<1>1. IndInv /\ [Next]_vars
        => [state = "ACTIVE" /\ state' = "ACTIVE" => CommittedKept]_vars
  BY NextStep
<1>2. QED
  BY <1>1, Inductive, PTL DEF Spec, CommittedImmutable
-----------------------------------------------------------------------------
(* Which step of the answer a waypoint of the new plan is.                 *)
LEMMA MergedSteps ==
  ASSUME TypeOK, NEW chunk \in [1..Horizon -> Int], NEW observed \in Int
  PROVE  /\ Expired(chunk, observed) \in 0..Horizon /\ Preserved \in Nat
         /\ Len(MergedTargets(chunk, observed)) = Preserved + (Horizon - Expired(chunk, observed))
         /\ MergedNominals(chunk, observed)
              \in [1..(Preserved + (Horizon - Expired(chunk, observed))) -> Int]
         /\ \A i \in (Preserved + 1)..(Preserved + (Horizon - Expired(chunk, observed))) :
              MergedNominals(chunk, observed)[i]
                = observed + (Expired(chunk, observed) + (i - Preserved)) * Dt
<1> DEFINE n == Horizon
           e == Expired(chunk, observed)
<1>0. n \in Nat /\ chunk \in [1..n -> Int] /\ e = Expired(chunk, observed)
  BY ConfigAssumption
<1> HIDE DEF n, e
<1> DEFINE suffix == [i \in 1..(n - e) |-> observed + (e + i) * Dt]
           head == SubSeq(nominal, 1, Preserved)
           k == Preserved
           d == n - e
<1>1. e \in 0..n /\ Len(chunk) = n
  BY <1>0, ExpiredType, FunctionIsSequence
<1>2. k \in Nat /\ d \in Nat /\ head \in [1..k -> Int]
  <2>1. /\ Len(queue) \in Nat /\ nominal \in [1..Len(queue) -> Int]
        /\ Preserved \in 0..Len(queue)
    BY ArrayTypes DEF TypeOK
  <2>2. head \in [1..Preserved -> Int]
    BY <2>1, PrefixOf, Zenon
  <2>3. QED
    BY <1>1, <2>1, <2>2
<1>3. suffix \in [1..d -> Int]
  <2>1. \A x, y \in Int : x * y \in Int
    OBVIOUS
  <2>2. \A i \in 1..(n - e) : (e + i) * Dt \in Int
    BY <1>1, <2>1, ConfigAssumption
  <2>3. QED
    BY <2>2
<1>4. \A i \in 1..d : suffix[i] = observed + (e + i) * Dt
  OBVIOUS
<1>5. MergedNominals(chunk, observed) = head \o suffix
  BY <1>0, <1>1 DEF MergedNominals
<1>6. Len(MergedTargets(chunk, observed)) = k + d
  <2>1. PICK m \in Nat : /\ Len(MergedTargets(chunk, observed)) = m
                         /\ MergedNominals(chunk, observed) \in [1..m -> Int]
    BY <1>0, MergedProperties
  <2> HIDE DEF head, suffix, k, d
  <2>2. head \o suffix \in [1..(k + d) -> Int]
    BY <1>2, <1>3, ConcatOf, Zenon
  <2>3. m = k + d
    <3>1. k + d \in Nat
      BY <1>2
    <3>2. Len(head \o suffix) = k + d
      BY <2>2, <3>1, FunctionIsSequence
    <3>3. Len(head \o suffix) = m
      BY <1>5, <2>1, FunctionIsSequence
    <3>4. QED
      BY <3>2, <3>3
  <2>4. QED
    BY <2>1, <2>3
<1> HIDE DEF head, suffix
<1>7. /\ head \o suffix \in [1..(k + d) -> Int]
      /\ \A i \in (k + 1)..(k + d) : (head \o suffix)[i] = suffix[i - k]
  <2> HIDE DEF k, d
  <2>1. head \o suffix \in [1..(k + d) -> Int]
    BY <1>2, <1>3, ConcatOf, Zenon
  <2>2. \A i \in (k + 1)..(k + d) : (head \o suffix)[i] = suffix[i - k]
    BY <1>2, <1>3, ConcatOf, SMTT(40)
  <2>3. QED
    BY <2>1, <2>2
<1>8. \A i \in (k + 1)..(k + d) : (head \o suffix)[i] = observed + (e + (i - k)) * Dt
  <2> HIDE DEF k, d
  <2>1. \A i \in (k + 1)..(k + d) : i - k \in 1..d
    BY <1>2
  <2>2. QED
    BY <1>4, <1>7, <2>1
<1>9. /\ e \in 0..n /\ Preserved \in Nat
      /\ Len(MergedTargets(chunk, observed)) = Preserved + (n - e)
      /\ MergedNominals(chunk, observed) \in [1..(Preserved + (n - e)) -> Int]
      /\ \A i \in (Preserved + 1)..(Preserved + (n - e)) :
           MergedNominals(chunk, observed)[i] = observed + (e + (i - Preserved)) * Dt
  BY <1>1, <1>2, <1>5, <1>6, <1>7, <1>8
<1>10. QED
  BY <1>9 DEF n, e

(* Without a prefix, what is left of the answer lies in the future.        *)
LEMMA FreshIsFuture ==
  ASSUME TypeOK, NEW n \in Nat, NEW chunk \in [1..n -> Int], NEW observed \in Int,
         requestPrefix = <<>>, NEW j \in 1..n, j > Expired(chunk, observed)
  PROVE  observed + j * Dt > now + DispatchLead
<1> DEFINE T == {i \in 1..n : observed + i * Dt <= now + DispatchLead}
<1>1. Expired(chunk, observed) = Cardinality(T) /\ T \subseteq 1..n
  <2>1. Len(chunk) = n
    BY FunctionIsSequence
  <2>2. QED
    BY <2>1 DEF Expired
<1>2. SUFFICES ASSUME observed + j * Dt <= now + DispatchLead PROVE FALSE
  <2>1. \A x, y \in Int : x * y \in Int
    OBVIOUS
  <2>2. observed + j * Dt \in Int /\ now + DispatchLead \in Int
    BY <2>1, ConfigAssumption DEF TypeOK
  <2>3. QED
    BY <2>2
<1>3. 1..j \subseteq T
  <2>1. SUFFICES ASSUME NEW i \in 1..j PROVE observed + i * Dt <= now + DispatchLead
    OBVIOUS
  <2>2. i * Dt <= j * Dt
    <3>1. \A x, y, z \in Nat : x <= y => x * z <= y * z
      OBVIOUS
    <3>2. QED
      BY <3>1, ConfigAssumption
  <2>3. i * Dt \in Int /\ j * Dt \in Int
    <3>1. \A x, y \in Int : x * y \in Int
      OBVIOUS
    <3>2. QED
      BY <3>1, ConfigAssumption
  <2>4. QED
    BY <1>2, <2>2, <2>3, ConfigAssumption DEF TypeOK
<1>4. Cardinality(1..j) = j /\ IsFiniteSet(T)
  <2>1. IsFiniteSet(1..n)
    BY FS_Interval
  <2>2. Cardinality(1..j) = j
    BY FS_Interval
  <2>3. QED
    BY <1>1, <2>1, <2>2, FS_Subset
<1> HIDE DEF T
<1>5. j <= Cardinality(T) /\ Cardinality(T) \in Nat
  BY <1>3, <1>4, FS_Subset, FS_CardinalityType
<1>6. QED
  BY <1>1, <1>5

LEMMA MergeInStep ==
  ASSUME IndInv, pending, NEW chunk \in [1..Horizon -> Int], NEW observed \in Int,
         NEW live \in Int, MergeAccepted(chunk, observed, live),
         NEW i \in (CommittedSteps + 1)..Len(queue')
  PROVE  IF requestPrefix # <<>>
         THEN nominal'[i] = observed + (InferenceDelay + i) * Dt
         ELSE nominal'[i] > now + DispatchLead
<1> DEFINE k == CommittedSteps
           e == Expired(chunk, observed)
           T == MergedTargets(chunk, observed)
           N == MergedNominals(chunk, observed)
           kept == Kept(T, live)
<1>1. /\ k \in Nat /\ k <= Len(queue) /\ Len(queue) \in Nat
      /\ InferenceDelay \in Int /\ Len(requestPrefix) \in Nat
      /\ InferenceDelay + k = Len(requestPrefix) /\ InferenceDelay >= 0
      /\ Horizon \in Nat /\ TypeOK
  BY CommittedPrefix, ArrayTypes, ConfigAssumption DEF IndInv, TypeOK, PrefixAligned
<1>2. Preserved = k
  <2>1. Preserved = Smaller(Larger(0, Len(requestPrefix) - InferenceDelay), Len(queue))
    BY DEF Preserved
  <2> HIDE DEF k
  <2>2. QED
    BY <1>1, <2>1 DEF Smaller, Larger
<1>3. /\ e \in 0..Horizon /\ Len(T) = k + (Horizon - e) /\ N \in [1..(k + (Horizon - e)) -> Int]
      /\ \A j \in (k + 1)..(k + (Horizon - e)) : N[j] = observed + (e + (j - k)) * Dt
  <2>1. /\ e \in 0..Horizon /\ Len(T) = Preserved + (Horizon - e)
        /\ N \in [1..(Preserved + (Horizon - e)) -> Int]
        /\ \A j \in (Preserved + 1)..(Preserved + (Horizon - e)) :
             N[j] = observed + (e + (j - Preserved)) * Dt
    <3>1. Horizon \in Nat /\ TypeOK
      BY <1>1
    <3>2. /\ Expired(chunk, observed) \in 0..Horizon
          /\ Len(MergedTargets(chunk, observed)) = Preserved + (Horizon - Expired(chunk, observed))
          /\ MergedNominals(chunk, observed)
               \in [1..(Preserved + (Horizon - Expired(chunk, observed))) -> Int]
          /\ \A j \in (Preserved + 1)..(Preserved + (Horizon - Expired(chunk, observed))) :
               MergedNominals(chunk, observed)[j]
                 = observed + (Expired(chunk, observed) + (j - Preserved)) * Dt
      BY <3>1, MergedSteps
    <3>3. QED
      BY <3>2
  <2> HIDE DEF k, e, T, N
  <2>2. QED
    BY <1>2, <2>1
<1>4. nominal' = SubSeq(N, 1, kept) /\ queue' = SubSeq(T, 1, kept)
  BY DEF MergeAccepted
<1>5. kept \in 0..(k + (Horizon - e))
  <2>1. PICK m \in Nat : T \in [1..m -> Int] /\ Len(T) = m /\ Preserved <= m
    BY <1>1, MergedProperties
  <2> DEFINE anchor == IF Preserved > 0 THEN T[1] ELSE live
  <2>2. anchor \in Int
    BY <1>1, <1>2, <2>1
  <2> HIDE DEF anchor
  <2>3. Acceptable(T, live) = SafeLength(T, anchor)
    BY DEF Acceptable, anchor
  <2>4. Acceptable(T, live) \in 0..m
    BY <2>1, <2>2, <2>3, SafeLengthProperties
  <2>5. MaxQueue \in Nat /\ m = k + (Horizon - e)
    BY <1>3, <2>1, ConfigAssumption
  <2> HIDE DEF T, k, e
  <2>6. QED
    BY <2>4, <2>5 DEF Kept, Smaller
<1> HIDE DEF T, N, kept, k, e
<1>6. Len(queue') = kept /\ nominal'[i] = N[i] /\ i \in (k + 1)..(k + (Horizon - e))
  <2>1. PICK m \in Nat : T \in [1..m -> Int] /\ Len(T) = m
    BY <1>1, MergedProperties DEF T
  <2>2. m = k + (Horizon - e) /\ kept \in 0..m
    BY <1>3, <1>5, <2>1
  <2>3. Len(queue') = kept
    BY <1>4, <2>1, <2>2, PrefixOf
  <2>4. i \in 1..kept /\ i \in (k + 1)..m
    BY <1>1, <2>2, <2>3 DEF k
  <2>5. N \in [1..m -> Int]
    BY <1>3, <2>2
  <2>6. \A j \in 1..kept : SubSeq(N, 1, kept)[j] = N[j]
    BY <2>1, <2>2, <2>5, PrefixOf
  <2>7. QED
    BY <1>4, <2>2, <2>3, <2>4, <2>6
<1>7. nominal'[i] = observed + (e + (i - k)) * Dt /\ e + (i - k) \in 1..Horizon
  BY <1>1, <1>3, <1>6
<1>8. CASE requestPrefix # <<>>
  <2>1. e = Smaller(Horizon, Larger(Len(requestPrefix), InferenceDelay))
    <3>1. Len(chunk) = Horizon
      BY <1>1, FunctionIsSequence
    <3>2. QED
      BY <1>8, <3>1 DEF Expired, e
  <2>2. e = InferenceDelay + k
    <3>1. Larger(Len(requestPrefix), InferenceDelay) = InferenceDelay + k
      BY <1>1 DEF Larger, k
    <3>2. i \in Int /\ i >= k + 1 /\ k \in Int /\ e \in Int /\ e + (i - k) <= Horizon
      BY <1>1, <1>3, <1>6, <1>7 DEF k
    <3>3. e # Horizon
      BY <1>1, <3>2
    <3>4. QED
      BY <2>1, <3>1, <3>3 DEF Smaller
  <2>3. e + (i - k) = InferenceDelay + i
    BY <1>1, <1>6, <2>2
  <2>4. QED
    BY <1>7, <1>8, <2>3
<1>9. CASE requestPrefix = <<>>
  <2>1. e + (i - k) > e
    BY <1>1, <1>3, <1>6
  <2>2. observed + (e + (i - k)) * Dt > now + DispatchLead
    BY <1>1, <1>7, <1>9, <2>1, FreshIsFuture DEF e
  <2>3. QED
    BY <1>7, <1>9, <2>2
<1>10. QED
  BY <1>8, <1>9

(* An answer is planned from the step after those committed and executed   *)
(* since its request, however late it comes, and no step of it twice       *)
(* (scheduler.py:615-655).                                                 *)
THEOREM AnswersInStep == Spec => AnswerInStep
<1>1. ASSUME IndInv, [Next]_vars, state = "ACTIVE", pending, state' = "ACTIVE", ~pending'
      PROVE  \E observed \in Observed : \A i \in (CommittedSteps + 1)..Len(queue') :
               IF requestPrefix # <<>>
               THEN nominal'[i] = observed + (InferenceDelay + i) * Dt
               ELSE nominal'[i] > now + DispatchLead
  <2>1. PICK chunk \in Chunks, observed \in Observed, live \in Heights :
          MergeAccepted(chunk, observed, live)
    BY <1>1 DEF Next, Tick, Hold, Activate, TrackingFault, Advance, MarkRequestStarted, MergeChunk,
      MergeRejected, PopBatch, QueueExhausted, EnterHold, vars
  <2>2. chunk \in [1..Horizon -> Int] /\ live \in Int
    BY ConfigAssumption DEF Chunks
  <2>3. observed \in Int
    BY DEF Observed
  <2>4. QED
    BY <1>1, <2>1, <2>2, <2>3, MergeInStep
<1>2. IndInv /\ [Next]_vars
        => [state = "ACTIVE" /\ pending /\ state' = "ACTIVE" /\ ~pending' =>
              \E observed \in Observed : \A i \in (CommittedSteps + 1)..Len(queue') :
                IF requestPrefix # <<>>
                THEN nominal'[i] = observed + (InferenceDelay + i) * Dt
                ELSE nominal'[i] > now + DispatchLead]_vars
  BY <1>1
<1>3. QED
  BY <1>2, Inductive, PTL DEF Spec, AnswerInStep
-----------------------------------------------------------------------------
(* The pace of the plan.  Paced is SpeedLimited with the committed prefix  *)
(* counted once; LastIsLast, that the waypoint dispatched last is the last *)
(* committed one until it is retired, is what carries the limit over a     *)
(* splice and over a retimed tail.                                         *)
Paced ==
  /\ \A i \in 2..Len(queue) : times[i] - times[i - 1] >= MinimumDuration(queue[i - 1], queue[i])
  /\ lastScheduled # None /\ CommittedSteps < Len(queue) =>
       times[CommittedSteps + 1] - lastScheduled.time
         >= MinimumDuration(lastScheduled.target, queue[CommittedSteps + 1])

LastIsLast ==
  CommittedSteps > 0 /\ lastScheduled # None =>
    /\ lastScheduled.target = queue[CommittedSteps]
    /\ lastScheduled.time = times[CommittedSteps]

(* A round whose first waypoint was not retired yet has asked for its      *)
(* first plan, or has neither a plan nor a request.                        *)
FreshRound ==
  state = "ACTIVE" /\ totalCompleted = 0 =>
    \/ steps = 0
    \/ steps = RequestEvery /\ queue = <<>> /\ ~pending

PaceInv == IndInv /\ Paced /\ LastIsLast /\ FreshRound

(* The kinds of step of the scheduler.                                     *)
Quiet == UNCHANGED <<state, timeline, pending, counters, lastRequested, lastScheduled>>

Retiring ==
  /\ state = "ACTIVE" /\ Retired
  /\ UNCHANGED <<state, pending, lastRequested, lastScheduled>>

Splicing ==
  /\ state = "ACTIVE" /\ pending /\ pending' = FALSE /\ Spliced
  /\ UNCHANGED <<state, counters, lastRequested, lastScheduled>>

Dispatching ==
  /\ state = "ACTIVE" /\ ~pending /\ queue # <<>> /\ Dispatched
  /\ \E live \in Int : times' = RetimedTimes(live)
  /\ UNCHANGED <<state, queue, pending, counters, lastRequested>>

LEMMA StepKinds ==
  ASSUME IndInv, [Next]_vars
  PROVE  \/ EnterHold
         \/ \E live \in Heights : Activate(live)
         \/ Retiring
         \/ MarkRequestStarted
         \/ Splicing
         \/ Dispatching
         \/ Quiet
<1>1. Heights \subseteq Int /\ Horizon \in Nat
  BY ConfigAssumption
<1>2. CASE Tick
  BY <1>2 DEF Tick, Quiet
<1>3. CASE \E setpoint \in Heights : Advance(setpoint)
  <2>1. PICK setpoint \in Heights : Advance(setpoint)
    BY <1>3
  <2>2. CASE EnterHold
    BY <2>2
  <2>3. CASE ~EnterHold
    <3>1. state' # "HOLD" /\ state = "ACTIVE"
          /\ UNCHANGED <<state, pending, lastRequested, lastScheduled>>
      BY <2>1, <2>3 DEF Advance
    <3>2. Retired
      BY <2>1, <3>1, AdvanceStep
    <3>3. QED
      BY <3>1, <3>2 DEF Retiring
  <2>4. QED
    BY <2>2, <2>3
<1>4. CASE \E chunk \in Chunks, observed \in Observed, live \in Heights :
             MergeChunk(chunk, observed, live)
  <2>1. PICK chunk \in Chunks, observed \in Observed, live \in Heights :
          MergeChunk(chunk, observed, live)
    BY <1>4
  <2>2. chunk \in [1..Horizon -> Int] /\ observed \in Int /\ live \in Int
    <3>1. chunk \in [1..Horizon -> Int]
      BY <1>1 DEF Chunks
    <3>2. observed \in Int
      BY DEF Observed
    <3>3. QED
      BY <1>1, <3>1, <3>2
  <2>3. state = "ACTIVE" /\ pending
    BY <2>1 DEF MergeChunk
  <2>4. CASE MergeAccepted(chunk, observed, live)
    <3>1. Spliced
      BY <2>2, <2>3, <2>4, MergeStep
    <3>2. pending' = FALSE /\ UNCHANGED <<state, counters, lastRequested, lastScheduled>>
      BY <2>4 DEF MergeAccepted
    <3>3. QED
      BY <2>3, <3>1, <3>2 DEF Splicing
  <2>5. CASE MergeRejected(chunk, observed, live)
    BY <2>5 DEF MergeRejected
  <2>6. QED
    BY <2>1, <2>4, <2>5 DEF MergeChunk
<1>5. CASE \E live \in Heights, maxActions \in 1..CommitSteps : PopBatch(live, maxActions)
  <2>1. PICK live \in Heights, maxActions \in 1..CommitSteps : PopBatch(live, maxActions)
    BY <1>5
  <2>2. live \in Int /\ maxActions \in Nat
    BY <1>1, ConfigAssumption
  <2>3. Dispatched
    BY <2>1, <2>2, PopStep
  <2>4. /\ state = "ACTIVE" /\ ~pending /\ queue # <<>> /\ times' = RetimedTimes(live)
        /\ UNCHANGED <<state, queue, pending, counters, lastRequested>>
    BY <2>1 DEF PopBatch
  <2>5. QED
    BY <2>2, <2>3, <2>4 DEF Dispatching
<1>6. CASE UNCHANGED vars
  BY <1>6 DEF vars, Quiet
<1>7. CASE Hold \/ QueueExhausted \/ \E actual, setpoint \in Heights : TrackingFault(actual, setpoint)
  BY <1>7 DEF Hold, QueueExhausted, TrackingFault
<1>8. QED
  BY <1>2, <1>3, <1>4, <1>5, <1>6, <1>7 DEF Next

(* A plan T timed by s that keeps the committed waypoints, and the pace    *)
(* after them, keeps the pace from the first waypoint and from the one     *)
(* dispatched last.                                                        *)
LEMMA PaceKept ==
  ASSUME TypeOK, SentIsPrefix, Paced, LastIsLast,
         NEW m \in Nat, NEW T \in [1..m -> Int], NEW s \in [1..m -> Int],
         CommittedSteps <= m, SuffixPaced(T, s),
         \A i \in 1..CommittedSteps : T[i] = queue[i] /\ s[i] = times[i]
  PROVE  /\ \A i \in 2..m : s[i] - s[i - 1] >= MinimumDuration(T[i - 1], T[i])
         /\ lastScheduled # None /\ CommittedSteps < m =>
              s[CommittedSteps + 1] - lastScheduled.time
                >= MinimumDuration(lastScheduled.target, T[CommittedSteps + 1])
<1> DEFINE k == CommittedSteps
           n == Len(queue)
<1>1. k \in Nat /\ k \in 0..n /\ n \in Nat
  BY CommittedPrefix, ArrayTypes
<1>2. /\ \A i \in 2..m : i > k => s[i] - s[i - 1] >= MinimumDuration(T[i - 1], T[i])
      /\ k = 0 /\ m > 0 /\ lastScheduled # None =>
           s[1] - lastScheduled.time >= MinimumDuration(lastScheduled.target, T[1])
  BY FunctionIsSequence DEF SuffixPaced
<1>3. /\ \A i \in 2..n : times[i] - times[i - 1] >= MinimumDuration(queue[i - 1], queue[i])
      /\ k > 0 /\ lastScheduled # None =>
           lastScheduled.target = queue[k] /\ lastScheduled.time = times[k]
      /\ \A i \in 1..k : T[i] = queue[i] /\ s[i] = times[i]
      /\ k <= m
  BY DEF Paced, LastIsLast
<1> HIDE DEF k, n
<1>4. ASSUME NEW i \in 2..m PROVE s[i] - s[i - 1] >= MinimumDuration(T[i - 1], T[i])
  <2>1. CASE i > k
    BY <1>2, <2>1
  <2>2. CASE ~(i > k)
    <3>1. i \in 1..k /\ i - 1 \in 1..k /\ i \in 2..n
      BY <1>1, <2>2
    <3>2. T[i] = queue[i] /\ s[i] = times[i] /\ T[i - 1] = queue[i - 1] /\ s[i - 1] = times[i - 1]
      BY <1>3, <3>1
    <3>3. QED
      BY <1>3, <3>1, <3>2
  <2>3. QED
    BY <2>1, <2>2
<1>5. ASSUME lastScheduled # None, k < m
      PROVE  s[k + 1] - lastScheduled.time >= MinimumDuration(lastScheduled.target, T[k + 1])
  <2>1. CASE k = 0
    BY <1>2, <1>5, <2>1
  <2>2. CASE k > 0
    <3>1. k + 1 \in 2..m /\ (k + 1) - 1 = k /\ k \in 1..k
      BY <1>1, <1>5, <2>2
    <3>2. lastScheduled.target = T[k] /\ lastScheduled.time = s[k]
      BY <1>3, <1>5, <2>2, <3>1
    <3>3. s[k + 1] - s[k] >= MinimumDuration(T[k], T[k + 1])
      BY <1>4, <3>1
    <3>4. QED
      BY <3>2, <3>3
  <2>3. QED
    BY <1>1, <2>1, <2>2
<1>6. QED
  BY <1>4, <1>5 DEF k

LEMMA CommittedOfEmpty == sent' = <<>> => CommittedSteps' = 0
<1>1. SUFFICES ASSUME sent' = <<>> PROVE CommittedSteps' = 0
  OBVIOUS
<1>2. {i \in DOMAIN sent' : sent'[i]} = {}
  BY <1>1
<1>3. QED
  BY <1>2, FS_EmptySet DEF CommittedSteps

(* Every step keeps the pace.                                              *)
LEMMA ClearPace ==
  ASSUME ClearTimeline
  PROVE  Paced' /\ LastIsLast'
<1>1. queue' = <<>> /\ sent' = <<>> /\ lastScheduled' = None /\ Len(queue') = 0
  BY DEF ClearTimeline
<1>2. CommittedSteps' = 0
  BY <1>1, CommittedOfEmpty
<1>3. QED
  BY <1>1, <1>2 DEF Paced, LastIsLast

LEMMA RetirePace ==
  ASSUME IndInv, Paced, LastIsLast, Retiring
  PROVE  Paced' /\ LastIsLast'
<1> DEFINE k == CommittedSteps
           n == Len(queue)
<1>1. k \in Nat /\ k \in 0..n /\ n \in Nat
  BY CommittedPrefix, ArrayTypes DEF IndInv
<1>2. PICK c \in 1..k : /\ CommittedSteps' = k - c /\ Len(queue') = n - c
                        /\ \A i \in 1..Len(queue') : queue'[i] = queue[i + c] /\ times'[i] = times[i + c]
  BY DEF Retiring, Retired
<1>3. lastScheduled' = lastScheduled
  BY DEF Retiring
<1> HIDE DEF k, n
<1>4. \A i \in 1..(n - c) : queue'[i] = queue[i + c] /\ times'[i] = times[i + c]
  BY <1>2
<1>5. ASSUME NEW i \in 2..Len(queue')
      PROVE  times'[i] - times'[i - 1] >= MinimumDuration(queue'[i - 1], queue'[i])
  <2>1. i \in 1..(n - c) /\ i - 1 \in 1..(n - c) /\ i + c \in 2..n /\ (i - 1) + c = (i + c) - 1
    BY <1>1, <1>2
  <2>2. queue'[i] = queue[i + c] /\ queue'[i - 1] = queue[(i + c) - 1]
        /\ times'[i] = times[i + c] /\ times'[i - 1] = times[(i + c) - 1]
    BY <1>4, <2>1
  <2>3. times[i + c] - times[(i + c) - 1] >= MinimumDuration(queue[(i + c) - 1], queue[i + c])
    BY <2>1 DEF Paced, n
  <2>4. QED
    BY <2>2, <2>3
<1>6. ASSUME lastScheduled # None, k - c < n - c
      PROVE  times'[(k - c) + 1] - lastScheduled.time
               >= MinimumDuration(lastScheduled.target, queue'[(k - c) + 1])
  <2>1. (k - c) + 1 \in 1..(n - c) /\ ((k - c) + 1) + c = k + 1 /\ k < n
    BY <1>1, <1>2, <1>6
  <2>2. queue'[(k - c) + 1] = queue[k + 1] /\ times'[(k - c) + 1] = times[k + 1]
    BY <1>4, <2>1
  <2>3. times[k + 1] - lastScheduled.time >= MinimumDuration(lastScheduled.target, queue[k + 1])
    BY <1>6, <2>1 DEF Paced, k, n
  <2>4. QED
    BY <2>2, <2>3
<1>7. Paced'
  BY <1>2, <1>3, <1>5, <1>6 DEF Paced
<1>8. LastIsLast'
  <2>1. SUFFICES ASSUME k - c > 0, lastScheduled # None
                 PROVE  /\ lastScheduled.target = queue'[k - c]
                        /\ lastScheduled.time = times'[k - c]
    BY <1>2, <1>3 DEF LastIsLast
  <2>2. k - c \in 1..(n - c) /\ (k - c) + c = k /\ k > 0
    BY <1>1, <1>2, <2>1
  <2>3. queue'[k - c] = queue[k] /\ times'[k - c] = times[k]
    BY <1>4, <2>2
  <2>4. QED
    BY <2>1, <2>2, <2>3 DEF LastIsLast, k
<1>9. QED
  BY <1>7, <1>8

LEMMA SplicePace ==
  ASSUME IndInv, TypeOK', Paced, LastIsLast, Splicing
  PROVE  Paced' /\ LastIsLast'
<1> DEFINE k == CommittedSteps
           m == Len(queue')
           T == queue'
           s == times'
<1>1. m \in Nat /\ T \in [1..m -> Int] /\ s \in [1..m -> Int] /\ k \in Nat
  BY CommittedPrefix, LenProperties DEF IndInv, TypeOK
<1>2. /\ k <= m /\ SuffixPaced(T, s) /\ CommittedSteps' = k
      /\ \A i \in 1..k : T[i] = queue[i] /\ s[i] = times[i]
      /\ lastScheduled' = lastScheduled
  BY <1>1 DEF Splicing, Spliced
<1> HIDE DEF m, T, s
<1>3. /\ \A i \in 2..m : s[i] - s[i - 1] >= MinimumDuration(T[i - 1], T[i])
      /\ lastScheduled # None /\ k < m =>
           s[k + 1] - lastScheduled.time >= MinimumDuration(lastScheduled.target, T[k + 1])
  BY <1>1, <1>2, PaceKept DEF IndInv
<1> HIDE DEF k
<1>4. Paced'
  BY <1>2, <1>3 DEF Paced, m, T, s
<1>5. LastIsLast'
  <2>1. k > 0 => queue'[k] = queue[k] /\ times'[k] = times[k]
    BY <1>1, <1>2 DEF T, s
  <2>2. QED
    BY <1>2, <2>1 DEF LastIsLast, k
<1>6. QED
  BY <1>4, <1>5

(* What a dispatch leaves: a timeline at the pace, whose undispatched      *)
(* waypoints all lie in the future when the dispatch lead is positive.     *)
LEMMA DispatchPace ==
  ASSUME IndInv, Paced, LastIsLast, Dispatching
  PROVE  /\ Paced' /\ LastIsLast'
         /\ times' \in [1..Len(queue) -> Int]
         /\ \A i \in 1..CommittedSteps : times'[i] = times[i]
         /\ \A i \in 2..Len(queue) :
              times'[i] - times'[i - 1] >= MinimumDuration(queue[i - 1], queue[i])
         /\ lastScheduled # None /\ CommittedSteps < Len(queue) =>
              times'[CommittedSteps + 1] - lastScheduled.time
                >= MinimumDuration(lastScheduled.target, queue[CommittedSteps + 1])
         /\ CommittedSteps < Len(queue) /\ DispatchLead > 0 => times'[CommittedSteps + 1] > now
<1> DEFINE k == CommittedSteps
           n == Len(queue)
           s == times'
<1>1. k \in Nat /\ k \in 0..n /\ n \in Nat /\ queue \in [1..n -> Int] /\ times \in [1..n -> Int]
      /\ now \in Int /\ DispatchLead \in Int
  BY CommittedPrefix, ArrayTypes, ConfigAssumption DEF IndInv, TypeOK
<1>2. PICK live \in Int : s = RetimedTimes(live)
  BY DEF Dispatching
<1>3. /\ s \in [1..n -> Int]
      /\ \A i \in 1..k : s[i] = times[i]
      /\ \/ s = times /\ (k < n => times[k + 1] > now)
         \/ SuffixPaced(queue, s) /\ k < n /\ s[k + 1] >= now + DispatchLead
  BY <1>2, RetimedProperties DEF IndInv
<1>4. /\ queue' = queue /\ CommittedSteps' \in k..CommitSteps /\ CommittedSteps' <= n
      /\ IF CommittedSteps' = k
         THEN lastScheduled' = lastScheduled
         ELSE lastScheduled' = [target |-> queue[CommittedSteps'], time |-> s[CommittedSteps']]
  BY DEF Dispatching, Dispatched
<1>5. SuffixPaced(queue, s)
  <2>1. ASSUME s = times PROVE SuffixPaced(queue, s)
    BY <2>1 DEF SuffixPaced, Paced
  <2>2. QED
    BY <1>3, <2>1
<1> HIDE DEF n, s
<1>6. /\ \A i \in 2..n : s[i] - s[i - 1] >= MinimumDuration(queue[i - 1], queue[i])
      /\ lastScheduled # None /\ k < n =>
           s[k + 1] - lastScheduled.time >= MinimumDuration(lastScheduled.target, queue[k + 1])
  <2>1. CommittedSteps <= n /\ \A i \in 1..CommittedSteps : queue[i] = queue[i] /\ s[i] = times[i]
    BY <1>1, <1>3
  <2>2. n \in Nat /\ queue \in [1..n -> Int] /\ s \in [1..n -> Int]
    BY <1>1, <1>3
  <2>3. TypeOK /\ SentIsPrefix
    BY DEF IndInv
  <2>4. QED
    BY <1>5, <2>1, <2>2, <2>3, PaceKept
<1> HIDE DEF k
<1>7. k < n /\ DispatchLead > 0 => s[k + 1] > now
  <2>1. k < n => s[k + 1] \in Int
    BY <1>1, <1>3
  <2>2. QED
    BY <1>1, <1>3, <2>1
<1> DEFINE k1 == CommittedSteps'
<1>8. k1 <= n /\ k1 \in Int /\ k <= k1
  BY <1>1, <1>4, ConfigAssumption
<1>9. CASE k1 = k
  <2>1. lastScheduled' = lastScheduled
    BY <1>4, <1>9
  <2>2. k > 0 => s[k] = times[k]
    BY <1>1, <1>3
  <2>3. Paced'
    BY <1>4, <1>6, <1>9, <2>1 DEF Paced, n, s
  <2>4. LastIsLast'
    BY <1>4, <1>9, <2>1, <2>2 DEF LastIsLast, k, s
  <2>5. QED
    BY <1>3, <1>6, <1>7, <2>3, <2>4 DEF k, n, s
<1>10. CASE k1 # k
  <2>1. lastScheduled' = [target |-> queue[k1], time |-> s[k1]]
    BY <1>4, <1>10
  <2>2. lastScheduled'.target = queue[k1] /\ lastScheduled'.time = s[k1]
    BY <2>1
  <2>3. k1 < n => s[k1 + 1] - s[k1] >= MinimumDuration(queue[k1], queue[k1 + 1])
    <3> HIDE DEF k1
    <3>1. k1 < n => k1 + 1 \in 2..n /\ (k1 + 1) - 1 = k1
      BY <1>1, <1>8, <1>10
    <3>2. QED
      BY <1>6, <3>1
  <2>4. Paced'
    BY <1>4, <1>6, <2>2, <2>3 DEF Paced, n, s
  <2>5. LastIsLast'
    BY <1>4, <2>2 DEF LastIsLast, s
  <2>6. QED
    BY <1>3, <1>6, <1>7, <2>4, <2>5 DEF k, n, s
<1>11. QED
  BY <1>9, <1>10

LEMMA FreshStep ==
  ASSUME IndInv, FreshRound, [Next]_vars
  PROVE  FreshRound'
<1>1. RequestEvery \in Nat \ {0}
  BY ConfigAssumption
<1>2. steps \in Nat /\ totalCompleted \in Nat /\ CommittedSteps \in 0..Len(queue)
      /\ queue \in Seq(Int) /\ pending \in BOOLEAN
  BY CommittedPrefix DEF IndInv, TypeOK
<1>3. CASE EnterHold
  BY <1>3 DEF EnterHold, FreshRound
<1>4. CASE \E live \in Heights : Activate(live)
  BY <1>4 DEF Activate, ClearTimeline, FreshRound
<1>5. CASE Retiring
  <2>1. totalCompleted' # 0
    <3>1. PICK c \in 1..CommittedSteps : totalCompleted' = totalCompleted + c
      BY <1>5 DEF Retiring, Retired
    <3>2. QED
      BY <1>2, <3>1
  <2>2. QED
    BY <2>1 DEF FreshRound
<1>6. CASE MarkRequestStarted
  BY <1>6 DEF MarkRequestStarted, FreshRound
<1>7. CASE Splicing
  BY <1>7 DEF Splicing, FreshRound, counters
<1>8. CASE Dispatching
  BY <1>8 DEF Dispatching, FreshRound, counters
<1>9. CASE Quiet
  BY <1>9 DEF Quiet, FreshRound, counters, timeline
<1>10. QED
  BY <1>3, <1>4, <1>5, <1>6, <1>7, <1>8, <1>9, StepKinds

LEMMA PaceStep ==
  ASSUME PaceInv, [Next]_vars
  PROVE  PaceInv'
<1>1. IndInv' /\ FreshRound' /\ TypeOK'
  BY NextStep, FreshStep DEF PaceInv, IndInv
<1>2. IndInv /\ Paced /\ LastIsLast
  BY DEF PaceInv
<1>3. Paced' /\ LastIsLast'
  <2>1. CASE EnterHold \/ \E live \in Heights : Activate(live)
    <3>1. ClearTimeline
      BY <2>1 DEF EnterHold, Activate
    <3>2. QED
      BY <3>1, ClearPace
  <2>2. CASE Retiring
    BY <1>2, <2>2, RetirePace
  <2>3. CASE Splicing
    BY <1>1, <1>2, <2>3, SplicePace
  <2>4. CASE Dispatching
    BY <1>2, <2>4, DispatchPace
  <2>5. CASE MarkRequestStarted \/ Quiet
    <3>1. UNCHANGED <<queue, times, sent, lastScheduled>>
      BY <2>5 DEF MarkRequestStarted, Quiet, timeline
    <3>2. CommittedSteps' = CommittedSteps
      BY <3>1 DEF CommittedSteps
    <3>3. QED
      BY <1>2, <3>1, <3>2 DEF Paced, LastIsLast
  <2>6. QED
    BY <1>2, <2>1, <2>2, <2>3, <2>4, <2>5, StepKinds
<1>4. QED
  BY <1>1, <1>3 DEF PaceInv

LEMMA PaceHolds == Spec => []PaceInv
<1>1. Init => PaceInv
  <2>1. SUFFICES ASSUME Init PROVE PaceInv
    OBVIOUS
  <2>2. queue = <<>> /\ sent = <<>> /\ lastScheduled = None /\ Len(queue) = 0 /\ state = "HOLD"
    BY <2>1 DEF Init
  <2>3. Paced /\ LastIsLast /\ FreshRound
    BY <2>2 DEF Paced, LastIsLast, FreshRound
  <2>4. QED
    BY <2>1, <2>3, InitInv DEF PaceInv
<1>2. PaceInv /\ [Next]_vars => PaceInv'
  BY PaceStep
<1>3. QED
  BY <1>1, <1>2, PTL DEF Spec

(* Whatever is merged, retired, retimed or dispatched, consecutive         *)
(* waypoints leave the controller the time the speed limit asks for, also  *)
(* from the waypoint dispatched last to the first undispatched one.        *)
THEOREM PlanIsPaced == Spec => []SpeedLimited
<1>1. PaceInv => SpeedLimited
  <2>1. SUFFICES ASSUME PaceInv PROVE SpeedLimited
    OBVIOUS
  <2>2. FirstUnsent = CommittedSteps + 1 /\ CommittedSteps \in 0..Len(queue) /\ Len(queue) \in Nat
    BY <2>1, CommittedPrefix, ArrayTypes DEF PaceInv, IndInv, FirstUnsent
  <2>3. FirstUnsent <= Len(queue) => CommittedSteps < Len(queue)
    BY <2>2
  <2>4. QED
    BY <2>1, <2>2, <2>3 DEF PaceInv, Paced, SpeedLimited
<1>2. QED
  BY <1>1, PaceHolds, PTL

(* Times that do not decrease after index a stay above the time at a.      *)
LEMMA Monotone ==
  ASSUME NEW n \in Nat, NEW s \in [1..n -> Int], NEW a \in 1..n,
         \A i \in 2..n : i > a => s[i] >= s[i - 1]
  PROVE  \A j \in a..n : s[j] >= s[a]
<1> DEFINE S == {d \in Nat : a + d <= n => s[a + d] >= s[a]}
<1>1. 0 \in S
  OBVIOUS
<1>2. ASSUME NEW d \in Nat, d \in S PROVE d + 1 \in S
  <2>1. SUFFICES ASSUME a + (d + 1) <= n PROVE s[a + (d + 1)] >= s[a]
    OBVIOUS
  <2>2. a + (d + 1) \in 2..n /\ a + (d + 1) > a /\ (a + (d + 1)) - 1 = a + d /\ a + d <= n
    BY <2>1
  <2>3. s[a + (d + 1)] >= s[a + d]
    BY <2>2
  <2>4. s[a + d] >= s[a]
    BY <1>2, <2>2
  <2>5. s[a + (d + 1)] \in Int /\ s[a + d] \in Int /\ s[a] \in Int
    BY <2>2
  <2>6. QED
    BY <2>3, <2>4, <2>5
<1> HIDE DEF S
<1>3. \A d \in Nat : d \in S
  BY <1>1, <1>2, SetInduction
<1>4. ASSUME NEW j \in a..n PROVE s[j] >= s[a]
  <2>1. j - a \in Nat /\ a + (j - a) = j /\ j <= n
    OBVIOUS
  <2>2. QED
    BY <1>3, <2>1 DEF S
<1>5. QED
  BY <1>4

(* A dispatch moves the timeline so that no undispatched waypoint is due   *)
(* before the one at any earlier index.                                    *)
LEMMA DispatchMonotone ==
  ASSUME PaceInv, Dispatching, NEW a \in 1..Len(queue), NEW j \in a..Len(queue)
  PROVE  times'[j] >= times'[a]
<1> DEFINE n == Len(queue)
           s == times'
<1>1. n \in Nat /\ queue \in [1..n -> Int]
  BY ArrayTypes DEF PaceInv, IndInv
<1>2. /\ s \in [1..n -> Int]
      /\ \A i \in 2..n : s[i] - s[i - 1] >= MinimumDuration(queue[i - 1], queue[i])
  BY DispatchPace DEF PaceInv
<1> HIDE DEF s
<1>3. ASSUME NEW i \in 2..n PROVE s[i] >= s[i - 1]
  <2>1. i \in 1..n /\ i - 1 \in 1..n
    BY <1>1
  <2>2. queue[i - 1] \in Int /\ queue[i] \in Int /\ s[i] \in Int /\ s[i - 1] \in Int
    BY <1>1, <1>2, <2>1
  <2>3. MinimumDuration(queue[i - 1], queue[i]) \in Nat
    BY <2>2, DurationType
  <2>4. s[i] - s[i - 1] >= MinimumDuration(queue[i - 1], queue[i])
    BY <1>2
  <2>5. QED
    BY <2>2, <2>3, <2>4
<1>4. QED
  BY <1>1, <1>2, <1>3, Monotone DEF s

(* Every waypoint a dispatch sends lies in the future and not before the   *)
(* one sent last, so that the controllers, which drop what is in the past, *)
(* execute all of it.  Without a dispatch lead a late waypoint would be    *)
(* moved to this very instant.                                             *)
THEOREM DispatchIsInOrder ==
  ASSUME DispatchLead > 0
  PROVE  Spec => DispatchInOrder
<1> DEFINE InOrder ==
      lastScheduled' # lastScheduled /\ lastScheduled' # None =>
        \A i \in DOMAIN sent : sent'[i] /\ ~sent[i] =>
          /\ times'[i] > now
          /\ lastScheduled # None => times'[i] >= lastScheduled.time
<1>1. ASSUME PaceInv, [Next]_vars, lastScheduled' # lastScheduled, lastScheduled' # None
      PROVE  Dispatching
  <2>1. IndInv
    BY <1>1 DEF PaceInv
  <2>2. ~EnterHold /\ ~(\E live \in Heights : Activate(live))
    BY <1>1 DEF EnterHold, Activate, ClearTimeline
  <2>3. ~Retiring /\ ~MarkRequestStarted /\ ~Splicing /\ ~Quiet
    BY <1>1 DEF Retiring, MarkRequestStarted, Splicing, Quiet
  <2>4. QED
    BY <1>1, <2>1, <2>2, <2>3, StepKinds
<1>2. ASSUME PaceInv, Dispatching, NEW i \in DOMAIN sent, sent'[i], ~sent[i]
      PROVE  /\ times'[i] > now
             /\ lastScheduled # None => times'[i] >= lastScheduled.time
  <2> DEFINE k == CommittedSteps
             n == Len(queue)
             s == times'
             first == s[k + 1]
  <2>1. /\ k \in Nat /\ k \in 0..n /\ n \in Nat /\ queue \in [1..n -> Int] /\ now \in Int
        /\ DOMAIN sent = 1..n /\ \A j \in 1..n : sent[j] <=> j <= k
        /\ lastScheduled # None => lastScheduled.time \in Int /\ lastScheduled.target \in Int
    BY <1>2, CommittedPrefix, ArrayTypes DEF PaceInv, IndInv, TypeOK
  <2>2. i \in 1..n /\ k < i /\ k < n /\ k + 1 \in 1..n /\ i \in (k + 1)..n
    BY <1>2, <2>1
  <2>3. s[i] >= s[k + 1]
    BY <1>2, <2>2, DispatchMonotone
  <2>4. /\ s \in [1..n -> Int] /\ first > now
        /\ lastScheduled # None =>
             first - lastScheduled.time >= MinimumDuration(lastScheduled.target, queue[k + 1])
    BY <1>2, <2>2, DispatchPace DEF PaceInv
  <2>5. s[i] \in Int /\ first \in Int /\ queue[k + 1] \in Int
    BY <2>1, <2>2, <2>4
  <2>6. lastScheduled # None => MinimumDuration(lastScheduled.target, queue[k + 1]) \in Nat
    BY <2>1, <2>5, DurationType
  <2>7. first > now /\ (lastScheduled # None => first >= lastScheduled.time)
    BY <2>1, <2>4, <2>5, <2>6
  <2>8. s[i] >= first
    BY <2>3
  <2> HIDE DEF first, s
  <2>9. s[i] > now /\ (lastScheduled # None => s[i] >= lastScheduled.time)
    BY <2>1, <2>5, <2>7, <2>8
  <2>10. QED
    BY <2>9 DEF s
<1>3. PaceInv /\ [Next]_vars => [InOrder]_vars
  BY <1>1, <1>2
<1>4. QED
  BY <1>3, PaceHolds, PTL DEF Spec, DispatchInOrder
-----------------------------------------------------------------------------
(* The refinement.  What CommitPipeline sees of the scheduler, named as in *)
(* the mapping of KeepsPromise.                                            *)
Replaceable == Len(queue) - CommittedSteps

Fresh == Active /\ ~pending /\ totalCompleted = 0 /\ steps = RequestEvery

Progressed ==
  Active /\ (\/ steps > 0
             \/ /\ CommittedSteps > 0
                /\ \/ lastRequested = None
                   \/ times[CommittedSteps] > lastRequested)

Counts ==
  /\ CommittedSteps \in Nat /\ CommittedSteps <= CommitSteps
  /\ Len(queue) \in Nat /\ Len(queue) <= MaxQueue
  /\ Replaceable \in 0..MaxQueue

LEMMA CountsHold == PaceInv => Counts
<1> SUFFICES ASSUME PaceInv PROVE Counts
  OBVIOUS
<1>1. /\ CommittedSteps \in 0..Len(queue) /\ CommittedSteps <= CommitSteps
      /\ Len(queue) \in Nat /\ Len(queue) <= MaxQueue /\ MaxQueue \in Nat
  BY CommittedPrefix, ArrayTypes, ConfigAssumption DEF PaceInv, IndInv, TypeOK
<1>2. QED
  BY <1>1 DEF Counts, Replaceable

(* What empties the timeline empties the pipeline.                         *)
LEMMA ClearCounts ==
  ASSUME ClearTimeline
  PROVE  CommittedSteps' = 0 /\ Replaceable' = 0 /\ pending' = FALSE
<1>1. queue' = <<>> /\ sent' = <<>> /\ Len(queue') = 0 /\ pending' = FALSE
  BY DEF ClearTimeline
<1>2. CommittedSteps' = 0
  BY <1>1, CommittedOfEmpty
<1>3. QED
  BY <1>1, <1>2 DEF Replaceable

LEMMA HoldRefines == EnterHold => Promise!EnterHold
<1> SUFFICES ASSUME EnterHold PROVE Promise!EnterHold
  OBVIOUS
<1>1. ClearTimeline /\ state' = "HOLD"
  BY DEF EnterHold
<1>2. CommittedSteps' = 0 /\ Len(queue') - CommittedSteps' = 0 /\ pending' = FALSE
  BY <1>1, ClearCounts DEF Replaceable
<1>3. QED
  BY <1>1, <1>2 DEF Promise!EnterHold, Promise!Empty, Active

LEMMA ActivateRefines ==
  ASSUME NEW live, Activate(live)
  PROVE  state = "HOLD" /\ Promise!StartRound
<1>1. /\ ClearTimeline /\ state = "HOLD" /\ state' = "ACTIVE"
      /\ steps' = RequestEvery /\ totalCompleted' = 0
  BY DEF Activate
<1>2. CommittedSteps' = 0 /\ Len(queue') - CommittedSteps' = 0 /\ pending' = FALSE
  BY <1>1, ClearCounts DEF Replaceable
<1>3. steps' > 0
  BY <1>1, ConfigAssumption
<1>4. QED
  BY <1>1, <1>2, <1>3 DEF Promise!StartRound, Promise!Empty, Active

(* A retirement is progress, and the round is no longer fresh.             *)
LEMMA RetireRefines ==
  ASSUME PaceInv, Retiring
  PROVE  \E c \in 1..CommitSteps : Promise!Retire(c)
<1>1. Counts /\ steps \in Nat /\ totalCompleted \in Nat /\ RequestEvery \in Nat \ {0}
      /\ CommitSteps \in Nat
  BY CountsHold, ConfigAssumption DEF PaceInv, IndInv, TypeOK
<1>2. PICK c \in 1..CommittedSteps :
        /\ CommittedSteps' = CommittedSteps - c /\ Len(queue') = Len(queue) - c
        /\ steps' = steps + c /\ totalCompleted' = totalCompleted + c
  BY DEF Retiring, Retired
<1>3. state = "ACTIVE" /\ state' = state /\ pending' = pending
  BY DEF Retiring
<1>4. c \in 1..CommitSteps
  BY <1>1, <1>2 DEF Counts
<1>5. Replaceable' = Replaceable
  BY <1>1, <1>2 DEF Replaceable, Counts
<1>6. Progressed' = TRUE
  <2>1. steps' > 0
    BY <1>1, <1>2
  <2>2. QED
    BY <1>3, <2>1 DEF Progressed, Active
<1>7. Fresh = FALSE /\ Fresh' = FALSE
  <2>1. queue # <<>>
    BY <1>1, <1>2 DEF Counts
  <2>2. totalCompleted' # 0
    BY <1>1, <1>2
  <2>3. totalCompleted = 0 => steps = 0
    BY <1>3, <2>1 DEF PaceInv, FreshRound
  <2>4. QED
    BY <1>1, <2>2, <2>3 DEF Fresh
<1>8. Promise!Retire(c)
  BY <1>2, <1>3, <1>5, <1>6, <1>7 DEF Promise!Retire, Fresh, Progressed, Replaceable
<1>9. QED
  BY <1>4, <1>8

(* A request is opened after progress, or when everything planned has been *)
(* sent.                                                                   *)
LEMMA RequestRefines ==
  ASSUME PaceInv, MarkRequestStarted
  PROVE  Promise!OpenRequest
<1>1. /\ Counts /\ steps \in Nat /\ RequestEvery \in Nat \ {0}
      /\ queue \in Seq(Int) /\ DOMAIN sent = 1..Len(queue)
      /\ times \in [1..Len(queue) -> Int]
      /\ \A i \in 1..Len(queue) : sent[i] <=> i <= CommittedSteps
  BY CountsHold, CommittedPrefix, ArrayTypes, ConfigAssumption DEF PaceInv, IndInv, TypeOK
<1>2. /\ RequestDue /\ state = "ACTIVE" /\ ~pending /\ pending' = TRUE /\ steps' = 0
      /\ lastRequested' = IF CommittedSteps = 0 THEN None ELSE times[CommittedSteps]
      /\ UNCHANGED <<state, queue, times, sent>>
  BY DEF MarkRequestStarted, RequestDue, timeline
<1>3. CommittedSteps' = CommittedSteps /\ Replaceable' = Replaceable
  BY <1>2 DEF CommittedSteps, Replaceable
<1>4. Progressed \/ Replaceable = 0
  <2>1. CASE CompleteChunk
    <3>1. queue # <<>> => \A i \in 1..Len(queue) : sent[i]
      BY <1>1, <1>2, <2>1 DEF RequestDue, ChunkNearlyExecuted
    <3>2. CASE queue = <<>>
      BY <1>1, <3>2 DEF Counts, Replaceable
    <3>3. CASE queue # <<>>
      <4>1. Len(queue) \in 1..Len(queue)
        BY <1>1, <3>3, EmptySeq DEF Counts
      <4>2. Len(queue) <= CommittedSteps
        BY <1>1, <3>1, <3>3, <4>1
      <4>3. QED
        BY <1>1, <4>2 DEF Counts, Replaceable
    <3>4. QED
      BY <3>2, <3>3
  <2>2. CASE ~CompleteChunk
    <3>1. \/ ExecutablePrefixDue
          \/ steps >= RequestEvery
          \/ steps > 0
      BY <1>2, <2>2 DEF RequestDue
    <3>2. ExecutablePrefixDue => Progressed
      BY <1>2 DEF ExecutablePrefixDue, Progressed, Active
    <3>3. steps >= RequestEvery => steps > 0
      BY <1>1
    <3>4. steps > 0 => Progressed
      BY <1>2 DEF Progressed, Active
    <3>5. QED
      BY <3>1, <3>2, <3>3, <3>4
  <2>3. QED
    BY <2>1, <2>2
<1>5. Progressed' = FALSE
  <2>1. ~(steps' > 0)
    BY <1>2
  <2>2. ASSUME CommittedSteps' > 0
        PROVE  lastRequested' # None /\ ~(times'[CommittedSteps'] > lastRequested')
    <3>1. CommittedSteps \in 1..Len(queue)
      BY <1>1, <1>3, <2>2 DEF Counts, Replaceable
    <3>2. times[CommittedSteps] \in Int /\ None \notin Int
      BY <1>1, <3>1, ConfigAssumption
    <3>3. lastRequested' = times[CommittedSteps] /\ times'[CommittedSteps'] = times[CommittedSteps]
      BY <1>2, <1>3, <3>1
    <3>4. QED
      BY <3>2, <3>3
  <2>3. QED
    BY <2>1, <2>2 DEF Progressed
<1>6. Fresh' = FALSE
  BY <1>2 DEF Fresh
<1>7. QED
  BY <1>2, <1>3, <1>4, <1>5, <1>6
     DEF Promise!OpenRequest, Promise!MayRequest, Fresh, Progressed, Replaceable

(* An answer changes only how much is replaceable; the round it belongs to *)
(* has asked, so it is not fresh.                                          *)
LEMMA SpliceRefines ==
  ASSUME PaceInv, PaceInv', Splicing
  PROVE  \E d \in 0..MaxQueue : Promise!Merge(d)
<1> DEFINE d == Len(queue') - CommittedSteps
<1>1. Counts /\ MaxQueue \in Nat /\ Len(queue') \in Nat /\ RequestEvery \in Nat \ {0}
  BY CountsHold, ConfigAssumption, LenProperties DEF PaceInv, IndInv, TypeOK
<1>2. /\ state = "ACTIVE" /\ pending /\ pending' = FALSE
      /\ CommittedSteps' = CommittedSteps /\ Len(queue') \in CommittedSteps..MaxQueue
      /\ \A i \in 1..CommittedSteps : times'[i] = times[i]
      /\ Len(queue') = 0 => ReplanRemaining = 0
      /\ state' = state /\ steps' = steps /\ totalCompleted' = totalCompleted
      /\ lastRequested' = lastRequested
  BY DEF Splicing, Spliced, counters
<1>3. d \in 0..MaxQueue /\ CommittedSteps + d <= MaxQueue /\ CommittedSteps + d = Len(queue')
  BY <1>1, <1>2 DEF Counts
<1>4. Replaceable' = d
  BY <1>2 DEF Replaceable
<1>5. Progressed' = Progressed
  <2>1. CommittedSteps > 0 => times'[CommittedSteps'] = times[CommittedSteps]
    <3>1. CommittedSteps > 0 => CommittedSteps \in 1..CommittedSteps
      BY <1>1 DEF Counts
    <3>2. QED
      BY <1>2, <3>1
  <2>2. QED
    BY <1>2, <2>1 DEF Progressed, Active
<1>6. Fresh = FALSE /\ Fresh' = FALSE
  <2>1. totalCompleted = 0 => steps = 0
    BY <1>2 DEF PaceInv, FreshRound
  <2>2. QED
    BY <1>1, <1>2, <2>1 DEF Fresh
<1> HIDE DEF d
<1>7. Promise!Merge(d)
  BY <1>2, <1>3, <1>4, <1>5, <1>6 DEF Promise!Merge, Fresh, Progressed, Replaceable
<1>8. QED
  BY <1>3, <1>7

(* A dispatch commits the next replaceable waypoints; it can only make     *)
(* progress, because the time of the last committed one does not decrease. *)
LEMMA DispatchRefines ==
  ASSUME PaceInv, PaceInv', Dispatching
  PROVE  \/ \E d \in 1..CommitSteps : Promise!Dispatch(d)
         \/ UNCHANGED Promise!pipeline
<1> DEFINE k == CommittedSteps
           k1 == CommittedSteps'
           s == times'
           d == k1 - k
<1>1. /\ Counts /\ CommitSteps \in Nat /\ None \notin Int
      /\ times \in [1..Len(queue) -> Int] /\ lastRequested \in Int \union {None}
  BY CountsHold, ConfigAssumption DEF PaceInv, IndInv, TypeOK
<1>2. /\ k1 \in k..CommitSteps /\ k1 <= Len(queue)
      /\ state = "ACTIVE" /\ ~pending
      /\ state' = state /\ queue' = queue /\ pending' = pending /\ steps' = steps
      /\ totalCompleted' = totalCompleted /\ lastRequested' = lastRequested
  BY DEF Dispatching, Dispatched, counters
<1>3. s \in [1..Len(queue) -> Int] /\ \A i \in 1..k : s[i] = times[i]
  BY DispatchPace DEF PaceInv
<1>4. Fresh' = Fresh
  BY <1>2 DEF Fresh, Active
<1>5. k1 \in Nat /\ k \in Nat /\ k <= k1
  BY <1>1, <1>2 DEF Counts
<1>6. k > 0 => k1 > 0 /\ s[k1] \in Int /\ times[k] \in Int /\ s[k1] >= times[k]
  <2>1. SUFFICES ASSUME k > 0 PROVE k1 > 0 /\ s[k1] \in Int /\ times[k] \in Int /\ s[k1] >= times[k]
    OBVIOUS
  <2>2. k \in 1..Len(queue) /\ k1 \in k..Len(queue) /\ k \in 1..k /\ k1 \in 1..Len(queue)
    BY <1>1, <1>2, <1>5, <2>1 DEF Counts
  <2>3. s[k1] >= s[k]
    BY <2>2, DispatchMonotone
  <2>4. s[k] = times[k]
    BY <1>3, <2>2
  <2> HIDE DEF k, k1, s
  <2>5. QED
    BY <1>1, <1>3, <1>5, <2>1, <2>2, <2>3, <2>4
<1>7. Progressed' \in {Progressed, TRUE}
  <2>1. Progressed => Progressed'
    <3>1. SUFFICES ASSUME Progressed PROVE Progressed'
      OBVIOUS
    <3>2. CASE steps > 0
      BY <1>2, <3>2 DEF Progressed, Active
    <3>3. CASE k > 0 /\ lastRequested = None
      BY <1>2, <1>6, <3>3 DEF Progressed, Active
    <3>4. CASE k > 0 /\ lastRequested # None /\ times[k] > lastRequested
      <4>1. lastRequested \in Int
        BY <1>1, <3>4
      <4>2. s[k1] > lastRequested
        BY <1>6, <3>4, <4>1
      <4>3. QED
        BY <1>2, <1>6, <3>4, <4>2 DEF Progressed, Active
    <3>5. QED
      BY <3>1, <3>2, <3>3, <3>4 DEF Progressed
  <2>2. Progressed \in BOOLEAN /\ Progressed' \in BOOLEAN
    BY DEF Progressed, Active
  <2>3. QED
    BY <2>1, <2>2
<1>8. CASE k1 = k
  <2>1. Replaceable' = Replaceable
    BY <1>2, <1>8 DEF Replaceable
  <2>2. k > 0 => s[k1] = times[k]
    <3>1. k > 0 => k \in 1..k
      BY <1>5
    <3>2. QED
      BY <1>3, <1>8, <3>1
  <2>3. Progressed' = Progressed
    BY <1>2, <1>8, <2>2 DEF Progressed, Active
  <2>4. QED
    BY <1>2, <1>4, <1>8, <2>1, <2>3 DEF Promise!pipeline, Fresh, Progressed, Replaceable
<1>9. CASE k1 # k
  <2>1. /\ d \in 1..CommitSteps /\ d \in 1..Replaceable
        /\ CommittedSteps + d = CommittedSteps' /\ CommittedSteps + d <= CommitSteps
    <3>1. Len(queue) \in Nat
      BY <1>1 DEF Counts
    <3>2. Replaceable = Len(queue) - k
      BY DEF Replaceable
    <3> HIDE DEF k, k1
    <3>3. k1 - k \in 1..CommitSteps /\ k1 - k <= Len(queue) - k /\ k + (k1 - k) = k1 /\ k1 <= CommitSteps
      BY <1>1, <1>2, <1>5, <1>9, <3>1
    <3>4. k1 - k \in 1..Replaceable
      BY <1>5, <3>1, <3>2, <3>3
    <3>5. QED
      BY <3>3, <3>4 DEF k, k1
  <2>2. Replaceable' = Replaceable - d
    BY <1>1, <1>2, <1>5 DEF Replaceable, Counts
  <2> HIDE DEF d
  <2>3. Promise!Dispatch(d)
    BY <1>2, <1>4, <1>7, <2>1, <2>2 DEF Promise!Dispatch, Fresh, Progressed, Replaceable
  <2>4. QED
    BY <2>1, <2>3
<1>10. QED
  BY <1>8, <1>9

LEMMA QuietRefines == Quiet => UNCHANGED Promise!pipeline
<1> SUFFICES ASSUME Quiet PROVE UNCHANGED Promise!pipeline
  OBVIOUS
<1>1. UNCHANGED <<state, queue, times, sent, pending, steps, totalCompleted, lastRequested>>
  BY DEF Quiet, timeline, counters
<1>2. CommittedSteps' = CommittedSteps
  BY <1>1 DEF CommittedSteps
<1>3. QED
  BY <1>1, <1>2 DEF Promise!pipeline, Active

LEMMA StepRefines ==
  ASSUME PaceInv, [Next]_vars
  PROVE  [Promise!PipelineNext]_(Promise!pipeline)
<1>1. IndInv /\ PaceInv'
  BY PaceStep DEF PaceInv
<1>2. CASE EnterHold
  BY <1>2, HoldRefines DEF Promise!PipelineNext
<1>3. CASE \E live \in Heights : Activate(live)
  BY <1>3, ActivateRefines DEF Promise!PipelineNext
<1>4. CASE Retiring
  BY <1>4, RetireRefines DEF Promise!PipelineNext
<1>5. CASE MarkRequestStarted
  BY <1>5, RequestRefines DEF Promise!PipelineNext
<1>6. CASE Splicing
  BY <1>1, <1>6, SpliceRefines DEF Promise!PipelineNext
<1>7. CASE Dispatching
  BY <1>1, <1>7, DispatchRefines DEF Promise!PipelineNext
<1>8. CASE Quiet
  BY <1>8, QuietRefines
<1>9. QED
  BY <1>1, <1>2, <1>3, <1>4, <1>5, <1>6, <1>7, <1>8, StepKinds

(* The scheduler implements CommitPipeline: committed waypoints leave only *)
(* by retirement or HOLD, at most CommitSteps of them exist, nothing is    *)
(* sent while an inference is open, no request is repeated without         *)
(* progress, and a fresh round asks at once.                               *)
THEOREM ImplementsPipeline == Spec => KeepsPromise
<1>1. Init => Promise!PipelineInit
  <2>1. SUFFICES ASSUME Init PROVE Promise!PipelineInit
    OBVIOUS
  <2>2. /\ queue = <<>> /\ sent = <<>> /\ Len(queue) = 0 /\ state = "HOLD" /\ pending = FALSE
    BY <2>1 DEF Init
  <2>3. CommittedSteps = 0
    <3>1. {i \in DOMAIN sent : sent[i]} = {}
      BY <2>2
    <3>2. QED
      BY <3>1, FS_EmptySet DEF CommittedSteps
  <2>4. QED
    BY <2>2, <2>3 DEF Promise!PipelineInit, Active
<1>2. PaceInv /\ [Next]_vars => [Promise!PipelineNext]_(Promise!pipeline)
  BY StepRefines
<1>3. PaceInv => (Promise!MustRequest => RequestDue)
  <2>1. SUFFICES ASSUME PaceInv, Promise!MustRequest PROVE RequestDue
    OBVIOUS
  <2>2. state = "ACTIVE" /\ ~pending /\ totalCompleted = 0 /\ steps = RequestEvery
    BY <2>1 DEF Promise!MustRequest, Active
  <2>3. queue = <<>> /\ RequestEvery \in Nat \ {0}
    BY <2>1, <2>2, ConfigAssumption DEF PaceInv, FreshRound
  <2>4. QED
    BY <2>2, <2>3 DEF RequestDue, ChunkNearlyExecuted
<1>4. QED
  BY <1>1, <1>2, <1>3, PaceHolds, PTL DEF Spec, KeepsPromise, Promise!PipelineSpec
=============================================================================
