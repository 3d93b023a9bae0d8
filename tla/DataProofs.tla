----------------------------- MODULE DataProofs -----------------------------
(* Proofs about what holds data (Data): arrays implement sequences, blocks   *)
(* stay values whatever data they share, what zlib writes is whole, a buffer *)
(* gives out what was put in, and what is counted has that many holders, in  *)
(* containers and in cached sessions. Each part has the inductive invariant  *)
(* of one subject.                                                           *)
EXTENDS Data, FiniteSetTheorems, FunctionTheorems, SequenceTheorems, TLAPS

-----------------------------------------------------------------------------
(* Arithmetic and sequences.                                                 *)

\* The subsets of 1..k are more than its elements.
LEMMA PowersGrow == \A k \in Nat : 2^k \in Nat /\ k <= 2^k
<1> TAKE k \in Nat
<1>1. IsFiniteSet(1..k) /\ Cardinality(1..k) = k
  BY FS_Interval
<1>2. IsFiniteSet(SUBSET (1..k)) /\ Cardinality(SUBSET (1..k)) = 2^k
  BY <1>1, FS_SUBSET
<1>3. 2^k \in Nat
  BY <1>2, FS_CardinalityType
<1> DEFINE f == [i \in 1..k |-> {i}]
<1>4. f \in Injection(1..k, SUBSET (1..k))
  BY DEF Injection, IsInjective
<1>5. Cardinality(1..k) <= Cardinality(SUBSET (1..k))
  BY <1>2, <1>4, FS_Injection
<1> QED BY <1>1, <1>2, <1>3, <1>5

LEMMA MinIsLeast == ASSUME NEW S \in SUBSET Nat, S # {}
                    PROVE  Min(S) \in S /\ \A x \in S : Min(S) <= x
<1>1. PICK x \in S : \A y \in S : ~(<<y, x>> \in OpToRel(<, Nat))
  BY NatLessThanWellFounded, WFMin
<1>2. \A y \in S : x <= y
  <2> TAKE y \in S
  <2>1. <<y, x>> \in Nat \X Nat
    OBVIOUS
  <2>2. ~(y < x)
    BY <1>1, <2>1 DEF OpToRel
  <2> QED BY <2>2
<1> QED BY <1>2 DEF Min

\* A sequence with a run put in, and one with a part cut out.
Inserted(s, pos, run) == SubSeq(s, 1, pos) \o run \o SubSeq(s, pos + 1, Len(s))
Removed(s, pos, count) == SubSeq(s, 1, pos) \o SubSeq(s, pos + count + 1, Len(s))

LEMMA FirstPart ==
  ASSUME NEW V, NEW s \in Seq(V), NEW pos \in 0..Len(s)
  PROVE  /\ SubSeq(s, 1, pos) \in Seq(V) /\ Len(SubSeq(s, 1, pos)) = pos
         /\ \A i \in 1..pos : SubSeq(s, 1, pos)[i] = s[i]
<1>1. Len(s) \in Nat /\ \A i \in 1..Len(s) : s[i] \in V
  BY LenProperties, ElementOfSeq
<1> QED BY <1>1, SubSeqProperties

LEMMA LastPart ==
  ASSUME NEW V, NEW s \in Seq(V), NEW pos \in 0..Len(s)
  PROVE  /\ SubSeq(s, pos + 1, Len(s)) \in Seq(V) /\ Len(SubSeq(s, pos + 1, Len(s))) = Len(s) - pos
         /\ \A i \in 1..Len(s) - pos : SubSeq(s, pos + 1, Len(s))[i] = s[pos + i]
<1>1. Len(s) \in Nat /\ \A i \in 1..Len(s) : s[i] \in V
  BY LenProperties, ElementOfSeq
<1> DEFINE m == pos + 1
           n == Len(s)
           b == SubSeq(s, m, n)
<1>2. m \in Int /\ n \in Int /\ m = pos + 1 /\ n = Len(s) /\ \A i \in m..n : s[i] \in V
  BY <1>1
<1> HIDE DEF m, n
<1>3. /\ b \in Seq(V) /\ Len(b) = IF m <= n THEN n - m + 1 ELSE 0
      /\ \A i \in 1 .. n - m + 1 : b[i] = s[m + i - 1]
  BY <1>2, SubSeqProperties
<1> HIDE DEF b
<1>4. b \in Seq(V) /\ Len(b) = Len(s) - pos /\ \A i \in 1..Len(s) - pos : b[i] = s[pos + i]
  BY <1>1, <1>2, <1>3
<1> QED BY <1>4 DEF b, m, n

LEMMA Joined ==
  ASSUME NEW V, NEW a, NEW b, a \in Seq(V), b \in Seq(V)
  PROVE  /\ a \o b \in Seq(V) /\ Len(a \o b) = Len(a) + Len(b)
         /\ \A i \in 1..Len(a) + Len(b) : (a \o b)[i] = IF i <= Len(a) THEN a[i] ELSE b[i - Len(a)]
BY ConcatProperties

LEMMA InsertedIn ==
  ASSUME NEW V, NEW s \in Seq(V), NEW run \in Seq(V), NEW pos \in 0..Len(s)
  PROVE  /\ Inserted(s, pos, run) \in Seq(V) /\ Len(Inserted(s, pos, run)) = Len(s) + Len(run)
         /\ \A i \in 1..Len(s) + Len(run) :
              Inserted(s, pos, run)[i] = IF i <= pos THEN s[i]
                                         ELSE IF i <= pos + Len(run) THEN run[i - pos]
                                         ELSE s[i - Len(run)]
<1> DEFINE a == SubSeq(s, 1, pos)
           b == SubSeq(s, pos + 1, Len(s))
           c == a \o run
           t == Inserted(s, pos, run)
<1>1. Len(s) \in Nat /\ Len(run) \in Nat
  BY LenProperties
<1>2. a \in Seq(V) /\ Len(a) = pos /\ \A i \in 1..pos : a[i] = s[i]
  BY FirstPart
<1>3. b \in Seq(V) /\ Len(b) = Len(s) - pos /\ \A i \in 1..Len(s) - pos : b[i] = s[pos + i]
  BY LastPart
<1>t. t = c \o b
  BY DEF Inserted
<1> HIDE DEF a, b, t
<1>4. /\ c \in Seq(V) /\ Len(c) = Len(a) + Len(run)
      /\ \A i \in 1..Len(a) + Len(run) : c[i] = IF i <= Len(a) THEN a[i] ELSE run[i - Len(a)]
  BY <1>2, ConcatProperties
<1> HIDE DEF c
<1>5. /\ c \o b \in Seq(V) /\ Len(c \o b) = Len(c) + Len(b)
      /\ \A i \in 1..Len(c) + Len(b) : (c \o b)[i] = IF i <= Len(c) THEN c[i] ELSE b[i - Len(c)]
  <2>1. c \in Seq(V) /\ b \in Seq(V)
    BY <1>3, <1>4
  <2> QED BY ONLY <2>1, Joined
<1>6. /\ t \in Seq(V) /\ Len(t) = Len(s) + Len(run)
      /\ \A i \in 1..Len(s) + Len(run) : t[i] = IF i <= pos + Len(run) THEN c[i]
                                                ELSE b[i - (pos + Len(run))]
  <2>1. Len(c) = pos + Len(run) /\ Len(c) + Len(b) = Len(s) + Len(run)
    BY <1>1, <1>2, <1>3, <1>4
  <2> QED BY <1>5, <1>t, <2>1
<1>7. ASSUME NEW i \in 1..Len(s) + Len(run)
      PROVE  t[i] = IF i <= pos THEN s[i] ELSE IF i <= pos + Len(run) THEN run[i - pos]
                    ELSE s[i - Len(run)]
  <2>1. CASE i <= pos + Len(run)
    <3>1. t[i] = c[i]
      BY <1>1, <1>6, <2>1
    <3>2. c[i] = IF i <= pos THEN a[i] ELSE run[i - pos]
      BY <1>1, <1>2, <1>4, <2>1
    <3> QED BY <1>1, <1>2, <2>1, <3>1, <3>2
  <2>2. CASE ~(i <= pos + Len(run))
    <3> DEFINE j == i - (pos + Len(run))
    <3>1. t[i] = b[j]
      BY <1>1, <1>6, <2>2
    <3>2. j \in 1..Len(s) - pos /\ pos + j = i - Len(run) /\ ~(i <= pos)
      BY <1>1, <2>2
    <3>3. b[j] = s[pos + j]
      BY <1>3, <3>2
    <3> HIDE DEF j
    <3> QED BY <2>2, <3>1, <3>2, <3>3
  <2> QED BY <2>1, <2>2
<1> QED BY <1>6, <1>7 DEF t

LEMMA InsertedAt ==
  ASSUME NEW s \in Seq(Values), NEW run \in Seq(Values), NEW pos \in 0..Len(s)
  PROVE  /\ Inserted(s, pos, run) \in Seq(Values) /\ Len(Inserted(s, pos, run)) = Len(s) + Len(run)
         /\ \A i \in 1..Len(s) + Len(run) :
              Inserted(s, pos, run)[i] = IF i <= pos THEN s[i]
                                         ELSE IF i <= pos + Len(run) THEN run[i - pos]
                                         ELSE s[i - Len(run)]
BY InsertedIn

LEMMA RemovedFrom ==
  ASSUME NEW V, NEW s \in Seq(V), NEW pos \in Nat, NEW count \in Nat, pos + count <= Len(s)
  PROVE  /\ Removed(s, pos, count) \in Seq(V) /\ Len(Removed(s, pos, count)) = Len(s) - count
         /\ \A i \in 1..Len(s) - count :
              Removed(s, pos, count)[i] = IF i <= pos THEN s[i] ELSE s[i + count]
<1> DEFINE a == SubSeq(s, 1, pos)
           k == pos + count
           b == SubSeq(s, k + 1, Len(s))
           t == Removed(s, pos, count)
<1>1. Len(s) \in Nat /\ pos \in 0..Len(s) /\ k \in 0..Len(s)
  BY LenProperties
<1>2. a \in Seq(V) /\ Len(a) = pos /\ \A i \in 1..pos : a[i] = s[i]
  BY <1>1, FirstPart
<1>t. t = a \o b
  BY DEF Removed
<1> HIDE DEF k, t
<1>3. b \in Seq(V) /\ Len(b) = Len(s) - k /\ \A i \in 1..Len(s) - k : b[i] = s[k + i]
  BY <1>1, LastPart
<1> HIDE DEF a, b
<1>4. /\ a \o b \in Seq(V) /\ Len(a \o b) = Len(a) + Len(b)
      /\ \A i \in 1..Len(a) + Len(b) : (a \o b)[i] = IF i <= Len(a) THEN a[i] ELSE b[i - Len(a)]
  <2>1. a \in Seq(V) /\ b \in Seq(V)
    BY <1>2, <1>3
  <2> QED BY ONLY <2>1, Joined
<1>5. /\ t \in Seq(V) /\ Len(t) = pos + Len(b)
      /\ \A i \in 1..pos + Len(b) : t[i] = IF i <= pos THEN a[i] ELSE b[i - pos]
  BY <1>2, <1>4, <1>t
<1>6. k = pos + count
  BY DEF k
<1>7. ASSUME NEW i \in 1..Len(s) - count PROVE t[i] = IF i <= pos THEN s[i] ELSE s[i + count]
  <2>1. CASE i <= pos
    <3>1. i \in 1..pos
      BY <1>1, <2>1
    <3>2. i \in 1..pos + Len(b)
      <4>1. Len(b) \in Nat /\ pos \in Nat
        BY <1>3, LenProperties
      <4> QED BY ONLY <3>1, <4>1
    <3>3. t[i] = a[i] /\ a[i] = s[i]
      BY <1>2, <1>5, <2>1, <3>1, <3>2
    <3> QED BY <2>1, <3>3
  <2>2. CASE ~(i <= pos)
    <3> DEFINE j == i - pos
    <3>1. j \in 1..Len(s) - k /\ k + j = i + count
      BY <1>1, <1>6, <2>2
    <3>2. t[i] = b[j]
      <4>1. i \in 1..pos + Len(b)
        BY <1>1, <1>3, <1>6
      <4> QED BY <1>5, <2>2, <4>1
    <3>3. b[j] = s[k + j]
      BY <1>3, <3>1
    <3> HIDE DEF j
    <3> QED BY <2>2, <3>1, <3>2, <3>3
  <2> QED BY <2>1, <2>2
<1> QED BY <1>1, <1>3, <1>5, <1>6, <1>7 DEF t

LEMMA RemovedAt ==
  ASSUME NEW s \in Seq(Values), NEW pos \in Nat, NEW count \in Nat, pos + count <= Len(s)
  PROVE  /\ Removed(s, pos, count) \in Seq(Values) /\ Len(Removed(s, pos, count)) = Len(s) - count
         /\ \A i \in 1..Len(s) - count :
              Removed(s, pos, count)[i] = IF i <= pos THEN s[i] ELSE s[i + count]
BY RemovedFrom

\* What these are, a position at a time.
PutIn(t, s, pos, run) ==
  /\ t \in Seq(Values) /\ Len(t) = Len(s) + Len(run)
  /\ \A i \in 1..pos : t[i] = s[i]
  /\ \A i \in (pos + 1)..(pos + Len(run)) : t[i] = run[i - pos]
  /\ \A i \in (pos + Len(run) + 1)..(Len(s) + Len(run)) : t[i] = s[i - Len(run)]

CutOut(t, s, pos, count) ==
  /\ t \in Seq(Values) /\ Len(t) = Len(s) - count
  /\ \A i \in 1..pos : t[i] = s[i]
  /\ \A i \in (pos + 1)..(Len(s) - count) : t[i] = s[i + count]

LEMMA InsertedIsPutIn ==
  ASSUME NEW s \in Seq(Values), NEW run \in Seq(Values), NEW pos \in 0..Len(s)
  PROVE  PutIn(Inserted(s, pos, run), s, pos, run)
<1> DEFINE t == Inserted(s, pos, run)
<1>1. Len(s) \in Nat /\ Len(run) \in Nat
  BY LenProperties
<1>2. /\ t \in Seq(Values) /\ Len(t) = Len(s) + Len(run)
      /\ \A i \in 1..Len(s) + Len(run) :
           t[i] = IF i <= pos THEN s[i] ELSE IF i <= pos + Len(run) THEN run[i - pos]
                  ELSE s[i - Len(run)]
  BY InsertedAt
<1> HIDE DEF t
<1>3. \A i \in 1..pos : t[i] = s[i]
  BY <1>1, <1>2
<1>4. \A i \in (pos + 1)..(pos + Len(run)) : t[i] = run[i - pos]
  BY <1>1, <1>2
<1>5. \A i \in (pos + Len(run) + 1)..(Len(s) + Len(run)) : t[i] = s[i - Len(run)]
  BY <1>1, <1>2
<1> QED BY <1>2, <1>3, <1>4, <1>5 DEF PutIn, t

LEMMA RemovedIsCutOut ==
  ASSUME NEW s \in Seq(Values), NEW pos \in Nat, NEW count \in Nat, pos + count <= Len(s)
  PROVE  CutOut(Removed(s, pos, count), s, pos, count)
<1> DEFINE t == Removed(s, pos, count)
<1>1. Len(s) \in Nat
  BY LenProperties
<1>2. /\ t \in Seq(Values) /\ Len(t) = Len(s) - count
      /\ \A i \in 1..Len(s) - count : t[i] = IF i <= pos THEN s[i] ELSE s[i + count]
  <2>1. s \in Seq(Values) /\ pos \in Nat /\ count \in Nat /\ pos + count <= Len(s)
    OBVIOUS
  <2> QED BY ONLY <2>1, RemovedAt
<1> HIDE DEF t
<1>3. pos + count <= Len(s) /\ pos \in Nat /\ count \in Nat
  OBVIOUS
<1>4. ASSUME NEW i \in 1..pos PROVE t[i] = s[i]
  <2>1. i \in 1..Len(s) - count /\ i <= pos
    BY ONLY <1>1, <1>3, i \in 1..pos
  <2> QED BY ONLY <1>2, <2>1
<1>5. ASSUME NEW i \in (pos + 1)..(Len(s) - count) PROVE t[i] = s[i + count]
  <2>1. i \in 1..Len(s) - count /\ ~(i <= pos)
    BY ONLY <1>1, <1>3, i \in (pos + 1)..(Len(s) - count)
  <2> QED BY ONLY <1>2, <2>1
<1> QED BY <1>2, <1>4, <1>5 DEF CutOut, t

-----------------------------------------------------------------------------
(* Memory.                                                                   *)

W == Values \cup {Garbage}

\* The window s..e-1 of memory m, of which there is a, holds the sequence q.
Window(a, s, e, m, q) ==
  /\ a \in Nat /\ s \in Nat /\ e \in Nat /\ s <= e /\ e <= a
  /\ m \in [0..(a - 1) -> W] /\ q \in Seq(Values) /\ Len(q) = e - s
  /\ \A j \in s..(e - 1) : m[j] = q[j - s + 1]

IsMoved(w, a, m, from, to, delta) ==
  /\ w \in [0..(a - 1) -> W]
  /\ \A i \in 0..(a - 1) : IF i - delta \in from..(to - 1) THEN w[i] = m[i - delta] ELSE w[i] = m[i]

LEMMA Moved ==
  ASSUME NEW a \in Nat, NEW m \in [0..(a - 1) -> W], NEW from \in Int, NEW to \in Int,
         from >= 0, to <= a, NEW delta \in Int
  PROVE  IsMoved(moveElements_Array_(m, from, to, delta), a, m, from, to, delta)
BY DEF IsMoved, moveElements_Array_

IsWritten(w, a, m, at, run) ==
  /\ w \in [0..(a - 1) -> W]
  /\ \A i \in 0..(a - 1) : IF i - at + 1 \in 1..Len(run) THEN w[i] = run[i - at + 1] ELSE w[i] = m[i]

LEMMA Written ==
  ASSUME NEW a \in Nat, NEW m \in [0..(a - 1) -> W], NEW at \in Int, NEW run \in Seq(Values)
  PROVE  IsWritten(Write(m, at, run), a, m, at, run)
<1>1. DOMAIN run = 1..Len(run) /\ \A i \in 1..Len(run) : run[i] \in Values
  BY LenProperties, ElementOfSeq
<1> QED BY <1>1 DEF IsWritten, Write, W

LEMMA WindowShifted ==
  ASSUME NEW a, NEW s, NEW e, NEW m, NEW q, Window(a, s, e, m, q),
         NEW delta \in Int, 0 <= s + delta, e + delta <= a
  PROVE  Window(a, s + delta, e + delta, moveElements_Array_(m, s, e, delta), q)
<1> DEFINE w == moveElements_Array_(m, s, e, delta)
<1>1. /\ a \in Nat /\ s \in Nat /\ e \in Nat /\ s <= e /\ e <= a
      /\ m \in [0..(a - 1) -> W] /\ q \in Seq(Values) /\ Len(q) = e - s
      /\ \A j \in s..(e - 1) : m[j] = q[j - s + 1]
  BY DEF Window
<1>2. /\ w \in [0..(a - 1) -> W]
      /\ \A i \in 0..(a - 1) : IF i - delta \in s..(e - 1) THEN w[i] = m[i - delta] ELSE w[i] = m[i]
  <2>1. a \in Nat /\ m \in [0..(a - 1) -> W] /\ s \in Int /\ e \in Int /\ s >= 0 /\ e <= a
        /\ delta \in Int
    BY <1>1
  <2>2. IsMoved(w, a, m, s, e, delta)
    BY ONLY <2>1, Moved
  <2> QED BY <2>2 DEF IsMoved
<1> HIDE DEF w
<1>3. ASSUME NEW j \in (s + delta)..((e + delta) - 1) PROVE w[j] = q[j - (s + delta) + 1]
  <2> DEFINE k == j - delta
  <2>1. j \in 0..(a - 1) /\ k \in s..(e - 1) /\ k - s + 1 = j - (s + delta) + 1
    BY <1>1
  <2>2. w[j] = m[k]
    BY <1>2, <2>1
  <2> HIDE DEF k
  <2> QED BY <1>1, <2>1, <2>2
<1>4. /\ s + delta \in Nat /\ e + delta \in Nat /\ s + delta <= e + delta
      /\ Len(q) = e + delta - (s + delta)
  BY <1>1
<1>5. \A j \in (s + delta)..((e + delta) - 1) : w[j] = q[j - (s + delta) + 1]
  BY <1>3
<1>6. Window(a, s + delta, e + delta, w, q)
  BY <1>1, <1>2, <1>4, <1>5 DEF Window
<1> QED BY <1>6 DEF w

\* More memory, with the old one at its beginning.
LEMMA WindowGrown ==
  ASSUME NEW a, NEW s, NEW e, NEW m, NEW q, Window(a, s, e, m, q), NEW b \in Nat, a <= b,
         NEW w, w = [i \in 0..(b - 1) |-> IF i < a THEN m[i] ELSE Garbage]
  PROVE  Window(b, s, e, w, q)
<1>1. /\ a \in Nat /\ s \in Nat /\ e \in Nat /\ s <= e /\ e <= a
      /\ m \in [0..(a - 1) -> W] /\ q \in Seq(Values) /\ Len(q) = e - s
      /\ \A j \in s..(e - 1) : m[j] = q[j - s + 1]
  BY DEF Window
<1>2. w \in [0..(b - 1) -> W] /\ \A j \in 0..(a - 1) : w[j] = m[j]
  BY <1>1 DEF W
<1>3. \A j \in s..(e - 1) : j \in 0..(a - 1)
  BY <1>1
<1>4. \A j \in s..(e - 1) : w[j] = q[j - s + 1]
  BY <1>1, <1>2, <1>3
<1>5. e <= b
  BY <1>1
<1> QED BY <1>1, <1>2, <1>4, <1>5, Zenon DEF Window

\* A run behind the window, and one before it.
LEMMA WindowAppended ==
  ASSUME NEW a, NEW s, NEW e, NEW m, NEW q, Window(a, s, e, m, q),
         NEW run \in Seq(Values), e + Len(run) <= a
  PROVE  Window(a, s, e + Len(run), Write(m, e, run), Inserted(q, Len(q), run))
<1> DEFINE n == Len(run)
           w == Write(m, e, run)
           t == Inserted(q, Len(q), run)
<1>1. /\ a \in Nat /\ s \in Nat /\ e \in Nat /\ s <= e /\ e <= a
      /\ m \in [0..(a - 1) -> W] /\ q \in Seq(Values) /\ Len(q) = e - s
      /\ \A j \in s..(e - 1) : m[j] = q[j - s + 1]
  BY DEF Window
<1>n. n \in Nat /\ e + n <= a
  BY LenProperties
<1>2. /\ w \in [0..(a - 1) -> W]
      /\ \A i \in 0..(a - 1) : IF i - e + 1 \in 1..n THEN w[i] = run[i - e + 1] ELSE w[i] = m[i]
  <2>1. a \in Nat /\ m \in [0..(a - 1) -> W] /\ e \in Int /\ run \in Seq(Values)
    BY <1>1
  <2>2. IsWritten(w, a, m, e, run)
    BY ONLY <2>1, Written
  <2> QED BY <2>2 DEF IsWritten
<1>3. /\ t \in Seq(Values) /\ Len(t) = Len(q) + n
      /\ \A i \in 1..Len(q) : t[i] = q[i]
      /\ \A i \in (Len(q) + 1)..(Len(q) + n) : t[i] = run[i - Len(q)]
  <2>1. q \in Seq(Values) /\ run \in Seq(Values) /\ Len(q) \in 0..Len(q)
    BY <1>1
  <2>2. PutIn(t, q, Len(q), run)
    BY ONLY <2>1, InsertedIsPutIn
  <2> QED BY <2>2 DEF PutIn
<1> HIDE DEF w, t, n
<1>4. ASSUME NEW j \in s..((e + n) - 1) PROVE w[j] = t[j - s + 1]
  <2>1. CASE j < e
    <3>1. j \in 0..(a - 1) /\ j \in s..(e - 1) /\ j - e + 1 \notin 1..n /\ j - s + 1 \in 1..Len(q)
      BY <1>1, <1>n, <2>1
    <3> QED BY <1>1, <1>2, <1>3, <3>1
  <2>2. CASE j >= e
    <3>1. w[j] = run[j - e + 1]
      <4>1. j \in 0..(a - 1) /\ j - e + 1 \in 1..n
        BY <1>1, <1>n, <2>2
      <4> QED BY <1>2, <4>1
    <3> DEFINE k == j - s + 1
    <3>2. k \in (Len(q) + 1)..(Len(q) + n) /\ k - Len(q) = j - e + 1
      BY <1>1, <1>n, <2>2
    <3> HIDE DEF k
    <3>3. t[k] = run[j - e + 1]
      BY <1>3, <3>2
    <3> QED BY <3>1, <3>3 DEF k
  <2> QED BY <1>1, <1>n, <2>1, <2>2
<1>5. Window(a, s, e + n, w, t)
  BY <1>1, <1>n, <1>2, <1>3, <1>4 DEF Window
<1> QED BY <1>5 DEF n, w, t

LEMMA WindowPrepended ==
  ASSUME NEW a, NEW s, NEW e, NEW m, NEW q, Window(a, s, e, m, q),
         NEW run \in Seq(Values), Len(run) <= s
  PROVE  Window(a, s - Len(run), e, Write(m, s - Len(run), run), Inserted(q, 0, run))
<1> DEFINE n == Len(run)
           b == s - n
           w == Write(m, b, run)
           t == Inserted(q, 0, run)
<1>1. /\ a \in Nat /\ s \in Nat /\ e \in Nat /\ s <= e /\ e <= a
      /\ m \in [0..(a - 1) -> W] /\ q \in Seq(Values) /\ Len(q) = e - s
      /\ \A j \in s..(e - 1) : m[j] = q[j - s + 1]
  BY DEF Window
<1>n. n \in Nat /\ b \in Nat /\ b = s - n
  BY <1>1, LenProperties
<1> HIDE DEF b
<1>2. /\ w \in [0..(a - 1) -> W]
      /\ \A i \in 0..(a - 1) : IF i - b + 1 \in 1..n THEN w[i] = run[i - b + 1] ELSE w[i] = m[i]
  <2>1. a \in Nat /\ m \in [0..(a - 1) -> W] /\ b \in Int /\ run \in Seq(Values)
    BY <1>1, <1>n
  <2>2. IsWritten(w, a, m, b, run)
    BY ONLY <2>1, Written
  <2> QED BY <2>2 DEF IsWritten
<1>3. /\ t \in Seq(Values) /\ Len(t) = Len(q) + n
      /\ \A i \in 1..n : t[i] = run[i]
      /\ \A i \in (n + 1)..(Len(q) + n) : t[i] = q[i - n]
  <2>1. q \in Seq(Values) /\ run \in Seq(Values) /\ 0 \in 0..Len(q)
    BY <1>1
  <2>2. PutIn(t, q, 0, run)
    BY ONLY <2>1, InsertedIsPutIn
  <2>3. \A i \in 1..n : i \in (0 + 1)..(0 + n) /\ i - 0 = i
    BY <1>n
  <2>4. 0 + n + 1 = n + 1
    BY <1>n
  <2> HIDE DEF t
  <2> QED BY <2>2, <2>3, <2>4 DEF PutIn
<1> HIDE DEF w, t, n
<1>4. ASSUME NEW j \in b..(e - 1) PROVE w[j] = t[j - b + 1]
  <2> DEFINE k == j - b + 1
  <2>1. CASE j < s
    <3>1. j \in 0..(a - 1) /\ k \in 1..n
      BY <1>1, <1>n, <2>1
    <3> QED BY <1>2, <1>3, <3>1
  <2>2. CASE j >= s
    <3>1. w[j] = m[j]
      <4>1. j \in 0..(a - 1) /\ j - b + 1 \notin 1..n
        BY <1>1, <1>n, <2>2
      <4> QED BY <1>2, <4>1
    <3>2. m[j] = q[j - s + 1]
      BY <1>1, <1>n, <2>2
    <3>3. k \in (n + 1)..(Len(q) + n) /\ k - n = j - s + 1
      BY <1>1, <1>n, <2>2
    <3> HIDE DEF k
    <3>4. t[k] = q[j - s + 1]
      BY <1>3, <3>3
    <3> QED BY <3>1, <3>2, <3>4 DEF k
  <2> QED BY <1>1, <1>n, <2>1, <2>2
<1>5. Window(a, b, e, w, t)
  BY <1>1, <1>n, <1>2, <1>3, <1>4 DEF Window
<1> QED BY <1>5 DEF n, w, t, b

\* A run between two parts of it, of which one has been moved down by the
\* first shift and the other up by the second.
LEMMA WindowSplit ==
  ASSUME NEW a, NEW s, NEW e, NEW m, NEW q, Window(a, s, e, m, q),
         NEW run \in Seq(Values), NEW split \in s..e,
         NEW left \in Nat, NEW right \in Nat, left + right = Len(run), left <= s, e + right <= a,
         NEW u, u = moveElements_Array_(m, s, split, -left),
         NEW v, v = moveElements_Array_(u, split, e, right)
  PROVE  Window(a, s - left, e + right, Write(v, split - left, run), Inserted(q, split - s, run))
<1> DEFINE n == Len(run)
           pos == split - s
           at == split - left
           w == Write(v, at, run)
           t == Inserted(q, pos, run)
<1>1. /\ a \in Nat /\ s \in Nat /\ e \in Nat /\ s <= e /\ e <= a
      /\ m \in [0..(a - 1) -> W] /\ q \in Seq(Values) /\ Len(q) = e - s
      /\ \A j \in s..(e - 1) : m[j] = q[j - s + 1]
  BY DEF Window
<1>n. n \in Nat /\ left + right = n /\ pos = split - s /\ at = split - left
  BY LenProperties
<1>p. pos \in 0..Len(q) /\ at \in Int /\ split \in Nat /\ split <= e
  BY <1>1
<1>2. /\ u \in [0..(a - 1) -> W]
      /\ \A i \in 0..(a - 1) : IF i - (-left) \in s..(split - 1) THEN u[i] = m[i - (-left)] ELSE u[i] = m[i]
  <2>1. /\ a \in Nat /\ m \in [0..(a - 1) -> W] /\ s \in Int /\ split \in Int /\ s >= 0 /\ split <= a
        /\ -left \in Int
    BY <1>1
  <2>2. IsMoved(u, a, m, s, split, -left)
    BY ONLY <2>1, u = moveElements_Array_(m, s, split, -left), Moved
  <2> QED BY <2>2 DEF IsMoved
<1>3. /\ v \in [0..(a - 1) -> W]
      /\ \A i \in 0..(a - 1) : IF i - right \in split..(e - 1) THEN v[i] = u[i - right] ELSE v[i] = u[i]
  <2>1. /\ a \in Nat /\ u \in [0..(a - 1) -> W] /\ split \in Int /\ e \in Int /\ split >= 0 /\ e <= a
        /\ right \in Int
    BY <1>1, <1>2
  <2>2. IsMoved(v, a, u, split, e, right)
    BY ONLY <2>1, v = moveElements_Array_(u, split, e, right), Moved
  <2> QED BY <2>2 DEF IsMoved
<1>4. /\ w \in [0..(a - 1) -> W]
      /\ \A i \in 0..(a - 1) : IF i - at + 1 \in 1..n THEN w[i] = run[i - at + 1] ELSE w[i] = v[i]
  <2>1. a \in Nat /\ v \in [0..(a - 1) -> W] /\ at \in Int /\ run \in Seq(Values)
    BY <1>1, <1>3
  <2>2. IsWritten(w, a, v, at, run)
    BY ONLY <2>1, Written
  <2> QED BY <2>2 DEF IsWritten
<1>5. /\ t \in Seq(Values) /\ Len(t) = Len(q) + n
      /\ \A i \in 1..pos : t[i] = q[i]
      /\ \A i \in (pos + 1)..(pos + n) : t[i] = run[i - pos]
      /\ \A i \in (pos + n + 1)..(Len(q) + n) : t[i] = q[i - n]
  <2>1. q \in Seq(Values) /\ run \in Seq(Values) /\ pos \in 0..Len(q)
    BY <1>1, <1>p
  <2>2. PutIn(t, q, pos, run)
    BY ONLY <2>1, InsertedIsPutIn
  <2> QED BY <2>2 DEF PutIn
<1> HIDE DEF w, t, n, pos, at
<1>6. ASSUME NEW j \in (s - left)..((e + right) - 1) PROVE w[j] = t[j - (s - left) + 1]
  <2> DEFINE k == j - (s - left) + 1
  <2>0. /\ s \in Nat /\ e \in Nat /\ a \in Nat /\ left \in Nat /\ right \in Nat /\ left <= s /\ e + right <= a
        /\ j \in (s - left)..((e + right) - 1)
    BY <1>1
  <2>k. k = j - (s - left) + 1 /\ j \in 0..(a - 1)
    BY ONLY <2>0
  <2> HIDE DEF k
  <2>1. CASE j < at
    <3> DEFINE i == j + left
    <3>1. /\ j - at + 1 \notin 1..n /\ j - right \notin split..(e - 1)
          /\ j - (-left) = i /\ i \in s..(split - 1) /\ i \in s..(e - 1) /\ k \in 1..pos /\ i - s + 1 = k
      BY <1>1, <1>n, <1>p, <2>k, <2>1
    <3> HIDE DEF i
    <3>2. w[j] = v[j] /\ v[j] = u[j]
      BY <1>3, <1>4, <2>k, <3>1
    <3>3. u[j] = m[i]
      BY <1>2, <2>k, <3>1
    <3>4. m[i] = q[k] /\ t[k] = q[k]
      BY <1>1, <1>5, <3>1
    <3> QED BY <2>k, <3>2, <3>3, <3>4
  <2>2. CASE j >= at /\ j < at + n
    <3>1. j - at + 1 \in 1..n /\ k \in (pos + 1)..(pos + n) /\ k - pos = j - at + 1
      BY <1>1, <1>n, <1>p, <2>k, <2>2
    <3>2. w[j] = run[j - at + 1]
      BY <1>4, <2>k, <3>1
    <3>3. t[k] = run[j - at + 1]
      BY <1>5, <3>1
    <3> QED BY <2>k, <3>2, <3>3
  <2>3. CASE j >= at + n
    <3> DEFINE i == j - right
    <3>1. /\ j - at + 1 \notin 1..n /\ j - right = i /\ i \in split..(e - 1) /\ i \in s..(e - 1)
          /\ i \in 0..(a - 1) /\ i - (-left) = i + left /\ i + left \notin s..(split - 1)
          /\ k \in (pos + n + 1)..(Len(q) + n) /\ i - s + 1 = k - n
      BY <1>1, <1>n, <1>p, <2>k, <2>3
    <3> HIDE DEF i
    <3>2. w[j] = v[j] /\ v[j] = u[i]
      BY <1>3, <1>4, <2>k, <3>1
    <3>3. u[i] = m[i]
      BY <1>2, <3>1
    <3>4. m[i] = q[k - n] /\ t[k] = q[k - n]
      BY <1>1, <1>5, <3>1
    <3> QED BY <2>k, <3>2, <3>3, <3>4
  <2> QED BY <1>1, <1>n, <1>p, <2>k, <2>1, <2>2, <2>3
<1>7. s - left \in Nat /\ e + right \in Nat /\ s - left <= e + right
  <2>1. s \in Nat /\ e \in Nat /\ s <= e /\ left \in Nat /\ right \in Nat /\ left <= s
    BY <1>1
  <2> QED BY ONLY <2>1
<1>8. Len(t) = (e + right) - (s - left)
  <2>1. Len(t) = Len(q) + n /\ Len(q) = e - s /\ left + right = n /\ e \in Nat /\ s \in Nat
    BY <1>1, <1>n, <1>5
  <2> HIDE DEF t
  <2>2. left \in Nat /\ right \in Nat
    OBVIOUS
  <2> QED BY ONLY <2>1, <2>2
<1>9. \A j \in (s - left)..((e + right) - 1) : w[j] = t[j - (s - left) + 1]
  BY <1>6
<1>10. Window(a, s - left, e + right, w, t)
  <2>1. a \in Nat /\ e + right <= a /\ w \in [0..(a - 1) -> W] /\ t \in Seq(Values)
    BY <1>1, <1>4, <1>5
  <2> QED BY <2>1, <1>7, <1>8, <1>9 DEF Window
<1> QED BY <1>10 DEF n, w, t, pos, at

\* A part cut out: at one end, where nothing moves, or with what follows it
\* moved down, or with what precedes it moved up.
LEMMA WindowCutBelow ==
  ASSUME NEW a, NEW s, NEW e, NEW m, NEW q, Window(a, s, e, m, q),
         NEW pos \in Nat, NEW n \in Nat, pos + n <= Len(q),
         NEW w, w \in [0..(a - 1) -> W],
         \A i \in s..((s + pos) - 1) : w[i] = m[i],
         \A i \in (s + pos)..((e - n) - 1) : w[i] = m[i + n]
  PROVE  Window(a, s, e - n, w, Removed(q, pos, n))
<1> DEFINE t == Removed(q, pos, n)
<1>1. /\ a \in Nat /\ s \in Nat /\ e \in Nat /\ s <= e /\ e <= a
      /\ m \in [0..(a - 1) -> W] /\ q \in Seq(Values) /\ Len(q) = e - s
      /\ \A j \in s..(e - 1) : m[j] = q[j - s + 1]
  BY DEF Window
<1>2. /\ t \in Seq(Values) /\ Len(t) = Len(q) - n
      /\ \A i \in 1..pos : t[i] = q[i]
      /\ \A i \in (pos + 1)..(Len(q) - n) : t[i] = q[i + n]
  <2>1. q \in Seq(Values) /\ pos \in Nat /\ n \in Nat /\ pos + n <= Len(q)
    BY <1>1
  <2>2. CutOut(t, q, pos, n)
    BY ONLY <2>1, RemovedIsCutOut
  <2> QED BY <2>2 DEF CutOut
<1> HIDE DEF t
<1>3. ASSUME NEW j \in s..((e - n) - 1) PROVE w[j] = t[j - s + 1]
  <2> DEFINE k == j - s + 1
  <2>k. k = j - s + 1 /\ j \in Nat
    BY <1>1
  <2> HIDE DEF k
  <2>1. CASE j < s + pos
    <3>1. j \in s..((s + pos) - 1) /\ j \in s..(e - 1) /\ k \in 1..pos
      BY <1>1, <2>k, <2>1
    <3> QED BY <1>1, <1>2, <2>k, <3>1
  <2>2. CASE j >= s + pos
    <3> DEFINE i == j + n
    <3>1. /\ j \in (s + pos)..((e - n) - 1) /\ j + n = i /\ i \in s..(e - 1)
          /\ k \in (pos + 1)..(Len(q) - n) /\ i - s + 1 = k + n
      BY <1>1, <2>k, <2>2
    <3> HIDE DEF i
    <3>2. w[j] = m[i] /\ m[i] = q[k + n] /\ t[k] = q[k + n]
      BY <1>1, <1>2, <3>1
    <3> QED BY <2>k, <3>2
  <2> QED BY <1>1, <2>k, <2>1, <2>2
<1>4. e - n \in Nat /\ s <= e - n /\ e - n <= a /\ Len(t) = (e - n) - s
  <2>1. Len(t) = Len(q) - n /\ Len(q) = e - s /\ e \in Nat /\ s \in Nat /\ e <= a /\ a \in Nat
    BY <1>1, <1>2
  <2> HIDE DEF t
  <2> QED BY <2>1
<1>5. \A j \in s..((e - n) - 1) : w[j] = t[j - s + 1]
  BY <1>3
<1>6. t \in Seq(Values)
  BY <1>2
<1>7. Window(a, s, e - n, w, t)
  BY <1>1, <1>4, <1>5, <1>6 DEF Window
<1> QED BY <1>7 DEF t

LEMMA WindowCutAbove ==
  ASSUME NEW a, NEW s, NEW e, NEW m, NEW q, Window(a, s, e, m, q),
         NEW pos \in Nat, NEW n \in Nat, pos + n <= Len(q),
         NEW w, w \in [0..(a - 1) -> W],
         \A i \in (s + n)..((s + pos + n) - 1) : w[i] = m[i - n],
         \A i \in (s + pos + n)..(e - 1) : w[i] = m[i]
  PROVE  Window(a, s + n, e, w, Removed(q, pos, n))
<1> DEFINE t == Removed(q, pos, n)
<1>1. /\ a \in Nat /\ s \in Nat /\ e \in Nat /\ s <= e /\ e <= a
      /\ m \in [0..(a - 1) -> W] /\ q \in Seq(Values) /\ Len(q) = e - s
      /\ \A j \in s..(e - 1) : m[j] = q[j - s + 1]
  BY DEF Window
<1>2. /\ t \in Seq(Values) /\ Len(t) = Len(q) - n
      /\ \A i \in 1..pos : t[i] = q[i]
      /\ \A i \in (pos + 1)..(Len(q) - n) : t[i] = q[i + n]
  <2>1. q \in Seq(Values) /\ pos \in Nat /\ n \in Nat /\ pos + n <= Len(q)
    BY <1>1
  <2>2. CutOut(t, q, pos, n)
    BY ONLY <2>1, RemovedIsCutOut
  <2> QED BY <2>2 DEF CutOut
<1> HIDE DEF t
<1>3. ASSUME NEW j \in (s + n)..(e - 1) PROVE w[j] = t[j - (s + n) + 1]
  <2> DEFINE k == j - (s + n) + 1
  <2>k. k = j - (s + n) + 1 /\ j \in Nat
    BY <1>1
  <2> HIDE DEF k
  <2>1. CASE j < s + pos + n
    <3> DEFINE i == j - n
    <3>1. /\ j \in (s + n)..((s + pos + n) - 1) /\ j - n = i /\ i \in s..(e - 1) /\ k \in 1..pos
          /\ i - s + 1 = k
      BY <1>1, <2>k, <2>1
    <3> HIDE DEF i
    <3>2. w[j] = m[i] /\ m[i] = q[k] /\ t[k] = q[k]
      BY <1>1, <1>2, <3>1
    <3> QED BY <2>k, <3>2
  <2>2. CASE j >= s + pos + n
    <3>1. /\ j \in (s + pos + n)..(e - 1) /\ j \in s..(e - 1)
          /\ k \in (pos + 1)..(Len(q) - n) /\ j - s + 1 = k + n
      BY <1>1, <2>k, <2>2
    <3>2. w[j] = m[j] /\ m[j] = q[k + n] /\ t[k] = q[k + n]
      BY <1>1, <1>2, <3>1
    <3> QED BY <2>k, <3>2
  <2> QED BY <1>1, <2>k, <2>1, <2>2
<1>4. s + n \in Nat /\ s + n <= e /\ Len(t) = e - (s + n)
  <2>1. Len(t) = Len(q) - n /\ Len(q) = e - s /\ e \in Nat /\ s \in Nat
    BY <1>1, <1>2
  <2> HIDE DEF t
  <2> QED BY <2>1
<1>5. \A j \in (s + n)..(e - 1) : w[j] = t[j - (s + n) + 1]
  BY <1>3
<1>6. t \in Seq(Values)
  BY <1>2
<1>7. Window(a, s + n, e, w, t)
  BY <1>1, <1>4, <1>5, <1>6 DEF Window
<1> QED BY <1>7 DEF t

LEMMA WindowMovedDown ==
  ASSUME NEW a, NEW s, NEW e, NEW m, NEW q, Window(a, s, e, m, q),
         NEW pos \in Nat, NEW n \in Nat, pos + n <= Len(q), NEW at, at = s + pos
  PROVE  Window(a, s, e - n, moveElements_Array_(m, at + n, e, -n), Removed(q, pos, n))
<1> DEFINE w == moveElements_Array_(m, at + n, e, -n)
           l == Len(q)
<1>1. /\ a \in Nat /\ s \in Nat /\ e \in Nat /\ s <= e /\ e <= a
      /\ l = e - s /\ pos + n <= l
  BY DEF Window
<1>m. m \in [0..(a - 1) -> W]
  BY DEF Window
<1> HIDE DEF l
<1>2. at + n \in Int /\ at + n >= 0 /\ at \in Nat /\ at + n <= e /\ -n \in Int /\ at = s + pos
  BY <1>1
<1>3. IsMoved(w, a, m, at + n, e, -n)
  BY <1>1, <1>2, <1>m, Moved
<1> HIDE DEF w
<1>4. w \in [0..(a - 1) -> W]
  BY <1>3 DEF IsMoved
<1>5. ASSUME NEW i \in s..((s + pos) - 1) PROVE w[i] = m[i]
  <2>1. i \in 0..(a - 1) /\ i - (-n) \notin (at + n)..(e - 1)
    BY <1>1, <1>2
  <2> QED BY <1>3, <2>1 DEF IsMoved
<1>6. ASSUME NEW i \in (s + pos)..((e - n) - 1) PROVE w[i] = m[i + n]
  <2>1. i \in 0..(a - 1) /\ i - (-n) = i + n /\ i + n \in (at + n)..(e - 1)
    BY <1>1, <1>2
  <2> QED BY <1>3, <2>1 DEF IsMoved
<1>7. Window(a, s, e - n, w, Removed(q, pos, n))
  BY <1>4, <1>5, <1>6, WindowCutBelow
<1> QED BY <1>7 DEF w

LEMMA WindowMovedUp ==
  ASSUME NEW a, NEW s, NEW e, NEW m, NEW q, Window(a, s, e, m, q),
         NEW pos \in Nat, NEW n \in Nat, pos + n <= Len(q), NEW at, at = s + pos
  PROVE  Window(a, s + n, e, moveElements_Array_(m, s, at, n), Removed(q, pos, n))
<1> DEFINE w == moveElements_Array_(m, s, at, n)
           l == Len(q)
<1>1. /\ a \in Nat /\ s \in Nat /\ e \in Nat /\ s <= e /\ e <= a
      /\ l = e - s /\ pos + n <= l
  BY DEF Window
<1>m. m \in [0..(a - 1) -> W]
  BY DEF Window
<1> HIDE DEF l
<1>2. at \in Int /\ at <= a /\ at + n <= e /\ n \in Int /\ at = s + pos
  BY <1>1
<1>3. IsMoved(w, a, m, s, at, n)
  BY <1>1, <1>2, <1>m, Moved
<1> HIDE DEF w
<1>4. w \in [0..(a - 1) -> W]
  BY <1>3 DEF IsMoved
<1>5. ASSUME NEW i \in (s + n)..((s + pos + n) - 1) PROVE w[i] = m[i - n]
  <2>1. i \in 0..(a - 1) /\ i - n \in s..(at - 1)
    BY <1>1, <1>2
  <2> QED BY <1>3, <2>1 DEF IsMoved
<1>6. ASSUME NEW i \in (s + pos + n)..(e - 1) PROVE w[i] = m[i]
  <2>1. i \in 0..(a - 1) /\ i - n \notin s..(at - 1)
    BY <1>1, <1>2
  <2> QED BY <1>3, <2>1 DEF IsMoved
<1>7. Window(a, s + n, e, w, Removed(q, pos, n))
  BY <1>4, <1>5, <1>6, WindowCutAbove
<1> QED BY <1>7 DEF w

\* A run written over the window.
LEMMA WindowOverwritten ==
  ASSUME NEW a, NEW s, NEW e, NEW m, NEW q, Window(a, s, e, m, q),
         NEW pos \in Nat, NEW run \in Seq(Values), pos + Len(run) <= Len(q),
         NEW t, t = [i \in 1..Len(q) |-> IF i - pos \in 1..Len(run) THEN run[i - pos] ELSE q[i]]
  PROVE  Window(a, s, e, Write(m, s + pos, run), t)
<1> DEFINE at == s + pos
           w == Write(m, at, run)
<1>1. /\ a \in Nat /\ s \in Nat /\ e \in Nat /\ s <= e /\ e <= a
      /\ m \in [0..(a - 1) -> W] /\ q \in Seq(Values) /\ Len(q) = e - s
      /\ \A j \in s..(e - 1) : m[j] = q[j - s + 1]
  BY DEF Window
<1>2. Len(run) \in Nat /\ at \in Int /\ at = s + pos /\ Len(q) \in Nat
  BY <1>1, LenProperties
<1> HIDE DEF at
<1>3. /\ w \in [0..(a - 1) -> W]
      /\ \A i \in 0..(a - 1) : IF i - at + 1 \in 1..Len(run) THEN w[i] = run[i - at + 1] ELSE w[i] = m[i]
  <2>1. a \in Nat /\ m \in [0..(a - 1) -> W] /\ at \in Int /\ run \in Seq(Values)
    BY <1>1, <1>2
  <2>2. IsWritten(w, a, m, at, run)
    BY ONLY <2>1, Written
  <2> QED BY <2>2 DEF IsWritten
<1> HIDE DEF w
<1>4. \A i \in 1..Len(q) : q[i] \in Values
  BY <1>1, ElementOfSeq
<1>5. \A i \in 1..Len(run) : run[i] \in Values
  BY ElementOfSeq
<1>6. t \in [1..Len(q) -> Values]
  BY <1>4, <1>5
<1>7. t \in Seq(Values) /\ Len(t) = Len(q)
  BY <1>2, <1>6, SeqDef, LenProperties
<1>8. ASSUME NEW j \in s..(e - 1) PROVE w[j] = t[j - s + 1]
  <2> DEFINE k == j - s + 1
  <2>k. k = j - s + 1 /\ k \in 1..Len(q) /\ j \in 0..(a - 1) /\ k - pos = j - at + 1
    BY <1>1, <1>2
  <2> HIDE DEF k
  <2>1. t[k] = IF k - pos \in 1..Len(run) THEN run[k - pos] ELSE q[k]
    BY <2>k
  <2>2. m[j] = q[k]
    BY <1>1, <2>k
  <2>3. CASE k - pos \in 1..Len(run)
    BY <1>3, <2>k, <2>1, <2>3
  <2>4. CASE k - pos \notin 1..Len(run)
    BY <1>3, <2>k, <2>1, <2>2, <2>4
  <2> QED BY <2>3, <2>4
<1>9. Window(a, s, e, w, t)
  BY <1>1, <1>3, <1>7, <1>8 DEF Window
<1> QED BY <1>9 DEF w, at

\* A sequence cut or padded with zeros.
Sized(q, size) == [i \in 1..size |-> IF i <= Len(q) THEN q[i] ELSE Zero]

LEMMA SizedType ==
  ASSUME NEW q \in Seq(Values), NEW size \in Nat
  PROVE  Sized(q, size) \in Seq(Values) /\ Len(Sized(q, size)) = size
<1>1. \A i \in 1..Len(q) : q[i] \in Values
  BY ElementOfSeq
<1>2. Sized(q, size) \in [1..size -> Values]
  BY <1>1, ArrayAssumption, LenProperties DEF Sized
<1> QED BY <1>2, SeqDef, LenProperties

LEMMA WindowCut ==
  ASSUME NEW a, NEW s, NEW e, NEW m, NEW q, Window(a, s, e, m, q),
         NEW size \in Nat, size <= Len(q)
  PROVE  Window(a, s, s + size, m, Sized(q, size))
<1> DEFINE t == Sized(q, size)
<1>1. /\ a \in Nat /\ s \in Nat /\ e \in Nat /\ s <= e /\ e <= a
      /\ m \in [0..(a - 1) -> W] /\ q \in Seq(Values) /\ Len(q) = e - s
      /\ \A j \in s..(e - 1) : m[j] = q[j - s + 1]
  BY DEF Window
<1>2. t \in Seq(Values) /\ Len(t) = size
  BY <1>1, SizedType
<1>3. ASSUME NEW j \in s..((s + size) - 1) PROVE m[j] = t[j - s + 1]
  <2> DEFINE k == j - s + 1
  <2>1. k = j - s + 1 /\ k \in 1..size /\ k <= Len(q) /\ j \in s..(e - 1)
    BY <1>1
  <2> HIDE DEF k
  <2>2. t[k] = q[k] /\ m[j] = q[k]
    BY <1>1, <2>1 DEF Sized
  <2> QED BY <2>1, <2>2
<1> HIDE DEF t
<1>4. s + size \in Nat /\ s <= s + size /\ s + size <= a /\ size = (s + size) - s
  BY <1>1
<1>5. Len(t) = (s + size) - s
  BY <1>2, <1>4
<1>6. \A j \in s..((s + size) - 1) : m[j] = t[j - s + 1]
  BY <1>3
<1>7. Window(a, s, s + size, m, t)
  BY <1>1, <1>2, <1>4, <1>5, <1>6 DEF Window
<1> QED BY <1>7 DEF t

LEMMA WindowPadded ==
  ASSUME NEW a, NEW s, NEW e, NEW m, NEW q, Window(a, s, e, m, q),
         NEW size \in Nat, size >= Len(q), s + size <= a, NEW old, old = Len(q),
         NEW w, w = [i \in 0..(a - 1) |-> IF i - s \in old..(size - 1) THEN Zero ELSE m[i]]
  PROVE  Window(a, s, s + size, w, Sized(q, size))
<1> DEFINE t == Sized(q, size)
<1>1. /\ a \in Nat /\ s \in Nat /\ e \in Nat /\ s <= e /\ e <= a
      /\ m \in [0..(a - 1) -> W] /\ q \in Seq(Values) /\ Len(q) = e - s
      /\ \A j \in s..(e - 1) : m[j] = q[j - s + 1]
  BY DEF Window
<1>2. t \in Seq(Values) /\ Len(t) = size
  BY <1>1, SizedType
<1>3. w \in [0..(a - 1) -> W]
  BY <1>1, ArrayAssumption DEF W
<1>4. ASSUME NEW j \in s..((s + size) - 1) PROVE w[j] = t[j - s + 1]
  <2> DEFINE k == j - s + 1
  <2>1. k = j - s + 1 /\ k \in 1..size /\ j - s = k - 1 /\ j \in 0..(a - 1)
    BY <1>1
  <2> HIDE DEF k
  <2>2. CASE k <= Len(q)
    <3>1. j - s \notin old..(size - 1) /\ j \in s..(e - 1)
      BY <1>1, <2>1, <2>2
    <3>2. w[j] = m[j] /\ m[j] = q[k] /\ t[k] = q[k]
      BY <1>1, <2>1, <2>2, <3>1 DEF Sized
    <3> QED BY <2>1, <3>2
  <2>3. CASE k > Len(q)
    <3>1. j - s \in old..(size - 1) /\ ~(k <= Len(q))
      BY <1>1, <2>1, <2>3
    <3>2. w[j] = Zero /\ t[k] = Zero
      BY <2>1, <3>1 DEF Sized
    <3> QED BY <2>1, <3>2
  <2> QED BY <1>1, <2>1, <2>2, <2>3
<1> HIDE DEF t
<1>5. s + size \in Nat /\ s <= s + size /\ size = (s + size) - s
  BY <1>1
<1>6. Len(t) = (s + size) - s
  BY <1>2, <1>5
<1>7. \A j \in s..((s + size) - 1) : w[j] = t[j - s + 1]
  BY <1>4
<1>8. Window(a, s, s + size, w, t)
  BY <1>1, <1>2, <1>3, <1>5, <1>6, <1>7 DEF Window
<1> QED BY <1>8 DEF t

\* A run put into a window that has been padded for it.
LEMMA WindowOpened ==
  ASSUME NEW a, NEW s, NEW e, NEW m, NEW p, Window(a, s, e, m, p),
         NEW q \in Seq(Values), NEW run \in Seq(Values), Len(p) = Len(q) + Len(run),
         \A i \in 1..Len(q) : p[i] = q[i], NEW pos \in 0..Len(q),
         NEW v, v = moveElements_Array_(m, s + pos, s + Len(q), Len(run))
  PROVE  Window(a, s, e, Write(v, s + pos, run), Inserted(q, pos, run))
<1> DEFINE n == Len(run)
           at == s + pos
           to == s + Len(q)
           w == Write(v, at, run)
           t == Inserted(q, pos, run)
<1>1. /\ a \in Nat /\ s \in Nat /\ e \in Nat /\ s <= e /\ e <= a
      /\ m \in [0..(a - 1) -> W] /\ p \in Seq(Values) /\ Len(p) = e - s
      /\ \A j \in s..(e - 1) : m[j] = p[j - s + 1]
  BY DEF Window
<1>2. /\ n \in Nat /\ Len(q) \in Nat /\ at = s + pos /\ to = s + Len(q) /\ at \in Int /\ at >= 0
      /\ to \in Int /\ e = to + n /\ Len(p) = Len(q) + n
      /\ a \in Nat /\ s \in Nat /\ e \in Nat /\ s <= at /\ at <= to /\ to <= e /\ e <= a
  <2>1. a \in Nat /\ s \in Nat /\ e \in Nat /\ e <= a /\ Len(p) = e - s
    BY <1>1
  <2>2. n \in Nat /\ Len(q) \in Nat /\ Len(p) = Len(q) + n
    BY LenProperties
  <2> DEFINE l == Len(q)
  <2>3. l \in Nat /\ Len(q) = l /\ pos \in Nat /\ pos <= l
    BY <2>2
  <2> HIDE DEF n, l
  <2>6. e - s = l + n
    BY <2>1, <2>2, <2>3
  <2>4. e = (s + l) + n
    BY <2>1, <2>2, <2>3, <2>6
  <2>5. s + pos \in Int /\ s + pos >= s /\ s + l \in Int /\ s + pos <= s + l
    BY <2>1, <2>3
  <2>7. at = s + pos /\ to = s + l
    BY <2>3
  <2> HIDE DEF at, to
  <2>8. to <= e
    BY <2>1, <2>2, <2>3, <2>4, <2>7
  <2>9. at \in Int /\ at >= 0 /\ s <= at /\ at <= to /\ to \in Int
    BY <2>1, <2>5, <2>7
  <2>10. e = to + n
    BY <2>4, <2>7
  <2>11. at = s + pos /\ to = s + Len(q)
    BY <2>3, <2>7
  <2> QED BY <2>1, <2>2, <2>8, <2>9, <2>10, <2>11
<1>3. /\ t \in Seq(Values) /\ Len(t) = Len(q) + n
      /\ \A i \in 1..pos : t[i] = q[i]
      /\ \A i \in (pos + 1)..(pos + n) : t[i] = run[i - pos]
      /\ \A i \in (pos + n + 1)..(Len(q) + n) : t[i] = q[i - n]
  <2>1. q \in Seq(Values) /\ run \in Seq(Values) /\ pos \in 0..Len(q)
    OBVIOUS
  <2>2. PutIn(t, q, pos, run)
    BY ONLY <2>1, InsertedIsPutIn
  <2> QED BY <2>2 DEF PutIn
<1>v. v = moveElements_Array_(m, at, to, n)
  OBVIOUS
<1> HIDE DEF w, t, n, at, to
<1>4. /\ v \in [0..(a - 1) -> W]
      /\ \A i \in 0..(a - 1) : IF i - n \in at..(to - 1) THEN v[i] = m[i - n] ELSE v[i] = m[i]
  <2>1. /\ a \in Nat /\ m \in [0..(a - 1) -> W] /\ at \in Int /\ to \in Int /\ at >= 0 /\ to <= a
        /\ n \in Int
    <3>1. m \in [0..(a - 1) -> W]
      BY <1>1
    <3> QED BY <1>2, <3>1
  <2>2. IsMoved(v, a, m, at, to, n)
    BY ONLY <2>1, <1>v, Moved
  <2> QED BY <2>2 DEF IsMoved
<1>5. /\ w \in [0..(a - 1) -> W]
      /\ \A i \in 0..(a - 1) : IF i - at + 1 \in 1..n THEN w[i] = run[i - at + 1] ELSE w[i] = v[i]
  <2>1. a \in Nat /\ v \in [0..(a - 1) -> W] /\ at \in Int /\ run \in Seq(Values)
    BY <1>1, <1>2, <1>4
  <2>2. IsWritten(Write(v, at, run), a, v, at, run)
    BY ONLY <2>1, Written
  <2> QED BY <2>2 DEF IsWritten, w, n
<1>6. ASSUME NEW j \in s..(e - 1) PROVE w[j] = t[j - s + 1]
  <2> DEFINE k == j - s + 1
  <2>0. a \in Nat /\ s \in Nat /\ e \in Nat /\ e <= a
    BY <1>1
  <2>k. k = j - s + 1 /\ j \in 0..(a - 1)
    BY ONLY <2>0, j \in s..(e - 1)
  <2> HIDE DEF k
  <2>1. CASE j < at
    <3>1. /\ j - at + 1 \notin 1..n /\ j - n \notin at..(to - 1) /\ k \in 1..pos /\ k \in 1..Len(q)
      BY <1>1, <1>2, <2>k, <2>1
    <3>2. w[j] = v[j] /\ v[j] = m[j]
      BY <1>4, <1>5, <2>k, <3>1
    <3>3. m[j] = p[k]
      BY <1>1, <2>k
    <3>4. p[k] = q[k] /\ t[k] = q[k]
      BY <1>3, <3>1
    <3> QED BY <2>k, <3>2, <3>3, <3>4
  <2>2. CASE j >= at /\ j < at + n
    <3>1. j - at + 1 \in 1..n /\ k \in (pos + 1)..(pos + n) /\ k - pos = j - at + 1
      BY <1>1, <1>2, <2>k, <2>2
    <3>2. w[j] = run[j - at + 1]
      BY <1>5, <2>k, <3>1
    <3>3. t[k] = run[j - at + 1]
      BY <1>3, <3>1
    <3> QED BY <2>k, <3>2, <3>3
  <2>3. CASE j >= at + n
    <3> DEFINE i == j - n
               l == k - n
    <3>1. /\ j - at + 1 \notin 1..n /\ j - n = i /\ i \in at..(to - 1) /\ i \in s..(e - 1)
          /\ k \in (pos + n + 1)..(Len(q) + n) /\ i - s + 1 = l /\ l = k - n /\ l \in 1..Len(q)
      <4>1. j - at + 1 \notin 1..n /\ i \in at..(to - 1) /\ j - n = i
        BY <1>2, <2>k, <2>3
      <4>2. i \in s..(e - 1)
        BY <1>2, <4>1
      <4>3. k \in (pos + n + 1)..(Len(q) + n)
        BY <1>2, <2>k, <2>3
      <4>4. i - s + 1 = l /\ l = k - n
        BY <1>2, <2>k
      <4>5. l \in 1..Len(q)
        BY <1>2, <4>3
      <4> QED BY <4>1, <4>2, <4>3, <4>4, <4>5
    <3> HIDE DEF i, l
    <3>2. w[j] = v[j] /\ v[j] = m[i]
      BY <1>4, <1>5, <2>k, <3>1
    <3>3. m[i] = p[l] /\ p[l] = q[l] /\ t[k] = q[l]
      BY <1>1, <1>3, <3>1
    <3> QED BY <2>k, <3>2, <3>3
  <2>4. j < at \/ (j >= at /\ j < at + n) \/ j >= at + n
    <3>1. j \in Int /\ at \in Int /\ n \in Int
      BY <1>2, <2>k
    <3> QED BY ONLY <3>1
  <2> QED BY ONLY <2>1, <2>2, <2>3, <2>4
<1>7. Len(t) = e - s
  BY <1>1, <1>2, <1>3
<1>8. Window(a, s, e, w, t)
  BY <1>1, <1>3, <1>5, <1>6, <1>7 DEF Window
<1> QED BY <1>8 DEF n, w, t, at, to

-----------------------------------------------------------------------------
(* Arrays.                                                                   *)

\* An array whose elements are the sequence q.
IsArray(d) == d = [alloc |-> d.alloc, start |-> d.start, end |-> d.end, mem |-> d.mem]
Holds(d, q) == IsArray(d) /\ Window(d.alloc, d.start, d.end, d.mem, q)

LEMMA HoldsFacts ==
  ASSUME NEW d, NEW q, Holds(d, q)
  PROVE  /\ d.alloc \in Nat /\ d.start \in Nat /\ d.end \in Nat /\ d.start <= d.end /\ d.end <= d.alloc
         /\ q \in Seq(Values) /\ Len(q) \in Nat /\ Len(q) = d.end - d.start
         /\ size_Array(d) = Len(q) /\ d.mem \in [0..(d.alloc - 1) -> W]
         /\ Window(d.alloc, d.start, d.end, d.mem, q)
<1>1. Window(d.alloc, d.start, d.end, d.mem, q)
  BY DEF Holds
<1>2. /\ d.alloc \in Nat /\ d.start \in Nat /\ d.end \in Nat /\ d.start <= d.end /\ d.end <= d.alloc
      /\ q \in Seq(Values) /\ Len(q) = d.end - d.start /\ d.mem \in [0..(d.alloc - 1) -> W]
  BY <1>1 DEF Window
<1>3. size_Array(d) = Len(q)
  BY <1>2 DEF size_Array
<1>4. Len(q) \in Nat
  BY <1>2, LenProperties
<1> QED BY <1>1, <1>2, <1>3, <1>4

\* Arrays with some of the fields replaced.
Regrown(d, a, m) == [d EXCEPT !.alloc = a, !.mem = m]
Edited(d, s, e, m) == [d EXCEPT !.start = s, !.end = e, !.mem = m]
WithEnd(d, e) == [d EXCEPT !.end = e]
WithStart(d, s) == [d EXCEPT !.start = s]
WithEndAndMemory(d, e, m) == [d EXCEPT !.end = e, !.mem = m]
WithStartAndMemory(d, s, m) == [d EXCEPT !.start = s, !.mem = m]
WithMemory(d, m) == [d EXCEPT !.mem = m]

LEMMA RegrownHolds ==
  ASSUME NEW d, IsArray(d), NEW a, NEW m, NEW q,
         Window(a, d.start, d.end, m, q)
  PROVE  /\ Holds(Regrown(d, a, m), q)
         /\ Regrown(d, a, m).alloc = a /\ Regrown(d, a, m).mem = m
<1> SUFFICES ASSUME NEW t, t = Regrown(d, a, m)
             PROVE  Holds(t, q) /\ t.alloc = a /\ t.mem = m
  OBVIOUS
<1>1. t.alloc = a /\ t.start = d.start /\ t.end = d.end /\ t.mem = m /\ IsArray(t)
  BY DEF IsArray, Regrown
<1>2. Holds(t, q)
  BY <1>1 DEF Holds
<1> QED BY <1>1, <1>2

LEMMA EditedHolds ==
  ASSUME NEW d, IsArray(d), NEW s, NEW e, NEW m, NEW q,
         Window(d.alloc, s, e, m, q)
  PROVE  /\ Holds(Edited(d, s, e, m), q)
         /\ Edited(d, s, e, m).alloc = d.alloc /\ Edited(d, s, e, m).start = s /\ Edited(d, s, e, m).end = e /\ Edited(d, s, e, m).mem = m
<1> SUFFICES ASSUME NEW t, t = Edited(d, s, e, m)
             PROVE  Holds(t, q) /\ t.alloc = d.alloc /\ t.start = s /\ t.end = e /\ t.mem = m
  OBVIOUS
<1>1. t.alloc = d.alloc /\ t.start = s /\ t.end = e /\ t.mem = m /\ IsArray(t)
  BY DEF IsArray, Edited
<1>2. Holds(t, q)
  BY <1>1 DEF Holds
<1> QED BY <1>1, <1>2

LEMMA WithEndHolds ==
  ASSUME NEW d, IsArray(d), NEW e, NEW q,
         Window(d.alloc, d.start, e, d.mem, q)
  PROVE  /\ Holds(WithEnd(d, e), q)
         /\ WithEnd(d, e).alloc = d.alloc /\ WithEnd(d, e).end = e
<1> SUFFICES ASSUME NEW t, t = WithEnd(d, e)
             PROVE  Holds(t, q) /\ t.alloc = d.alloc /\ t.end = e
  OBVIOUS
<1>1. t.alloc = d.alloc /\ t.start = d.start /\ t.end = e /\ t.mem = d.mem /\ IsArray(t)
  BY DEF IsArray, WithEnd
<1>2. Holds(t, q)
  BY <1>1 DEF Holds
<1> QED BY <1>1, <1>2

LEMMA WithStartHolds ==
  ASSUME NEW d, IsArray(d), NEW s, NEW q,
         Window(d.alloc, s, d.end, d.mem, q)
  PROVE  /\ Holds(WithStart(d, s), q)
         /\ WithStart(d, s).alloc = d.alloc /\ WithStart(d, s).start = s
<1> SUFFICES ASSUME NEW t, t = WithStart(d, s)
             PROVE  Holds(t, q) /\ t.alloc = d.alloc /\ t.start = s
  OBVIOUS
<1>1. t.alloc = d.alloc /\ t.start = s /\ t.end = d.end /\ t.mem = d.mem /\ IsArray(t)
  BY DEF IsArray, WithStart
<1>2. Holds(t, q)
  BY <1>1 DEF Holds
<1> QED BY <1>1, <1>2

LEMMA WithEndAndMemoryHolds ==
  ASSUME NEW d, IsArray(d), NEW e, NEW m, NEW q,
         Window(d.alloc, d.start, e, m, q)
  PROVE  /\ Holds(WithEndAndMemory(d, e, m), q)
         /\ WithEndAndMemory(d, e, m).alloc = d.alloc /\ WithEndAndMemory(d, e, m).end = e /\ WithEndAndMemory(d, e, m).mem = m
<1> SUFFICES ASSUME NEW t, t = WithEndAndMemory(d, e, m)
             PROVE  Holds(t, q) /\ t.alloc = d.alloc /\ t.end = e /\ t.mem = m
  OBVIOUS
<1>1. t.alloc = d.alloc /\ t.start = d.start /\ t.end = e /\ t.mem = m /\ IsArray(t)
  BY DEF IsArray, WithEndAndMemory
<1>2. Holds(t, q)
  BY <1>1 DEF Holds
<1> QED BY <1>1, <1>2

LEMMA WithStartAndMemoryHolds ==
  ASSUME NEW d, IsArray(d), NEW s, NEW m, NEW q,
         Window(d.alloc, s, d.end, m, q)
  PROVE  /\ Holds(WithStartAndMemory(d, s, m), q)
         /\ WithStartAndMemory(d, s, m).alloc = d.alloc /\ WithStartAndMemory(d, s, m).start = s /\ WithStartAndMemory(d, s, m).mem = m
<1> SUFFICES ASSUME NEW t, t = WithStartAndMemory(d, s, m)
             PROVE  Holds(t, q) /\ t.alloc = d.alloc /\ t.start = s /\ t.mem = m
  OBVIOUS
<1>1. t.alloc = d.alloc /\ t.start = s /\ t.end = d.end /\ t.mem = m /\ IsArray(t)
  BY DEF IsArray, WithStartAndMemory
<1>2. Holds(t, q)
  BY <1>1 DEF Holds
<1> QED BY <1>1, <1>2

LEMMA WithMemoryHolds ==
  ASSUME NEW d, IsArray(d), NEW m, NEW q,
         Window(d.alloc, d.start, d.end, m, q)
  PROVE  /\ Holds(WithMemory(d, m), q)
         /\ WithMemory(d, m).alloc = d.alloc /\ WithMemory(d, m).mem = m
<1> SUFFICES ASSUME NEW t, t = WithMemory(d, m)
             PROVE  Holds(t, q) /\ t.alloc = d.alloc /\ t.mem = m
  OBVIOUS
<1>1. t.alloc = d.alloc /\ t.start = d.start /\ t.end = d.end /\ t.mem = m /\ IsArray(t)
  BY DEF IsArray, WithMemory
<1>2. Holds(t, q)
  BY <1>1 DEF Holds
<1> QED BY <1>1, <1>2

LEMMA ShapedHolds ==
  ASSUME NEW d, Shaped(d)
  PROVE  Holds(d, Elements(d))
<1> DEFINE q == Elements(d)
<1>1. /\ d.alloc \in Nat /\ d.start \in Nat /\ d.end \in Nat /\ d.start <= d.end /\ d.end <= d.alloc
      /\ d.mem \in [0..(d.alloc - 1) -> W] /\ \A i \in d.start..(d.end - 1) : d.mem[i] \in Values
  BY DEF Shaped, W
<1>2. size_Array(d) = d.end - d.start /\ size_Array(d) \in Nat
  BY <1>1 DEF size_Array
<1>3. ASSUME NEW i \in 1..size_Array(d) PROVE d.mem[d.start + i - 1] \in Values
  <2>1. d.start + i - 1 \in d.start..(d.end - 1)
    BY <1>1, <1>2
  <2> QED BY <1>1, <2>1
<1>4. q \in [1..size_Array(d) -> Values]
  BY <1>3 DEF Elements
<1>5. q \in Seq(Values) /\ Len(q) = size_Array(d)
  BY <1>2, <1>4, SeqDef, LenProperties
<1>6. ASSUME NEW j \in d.start..(d.end - 1) PROVE d.mem[j] = q[j - d.start + 1]
  <2> DEFINE k == j - d.start + 1
  <2>1. k \in 1..size_Array(d) /\ d.start + k - 1 = j
    BY <1>1, <1>2
  <2> HIDE DEF k
  <2>2. q[k] = d.mem[j]
    BY <2>1 DEF Elements
  <2> QED BY <2>2 DEF k
<1> HIDE DEF q
<1>7. Len(q) = d.end - d.start
  BY <1>2, <1>5
<1>8. Window(d.alloc, d.start, d.end, d.mem, q)
  BY <1>1, <1>5, <1>6, <1>7 DEF Window
<1> QED BY <1>8 DEF Holds, IsArray, Shaped, q

LEMMA HoldsShaped ==
  ASSUME NEW d, NEW q, Holds(d, q)
  PROVE  Shaped(d) /\ Elements(d) = q
<1>1. /\ d.alloc \in Nat /\ d.start \in Nat /\ d.end \in Nat /\ d.start <= d.end /\ d.end <= d.alloc
      /\ q \in Seq(Values) /\ Len(q) \in Nat /\ Len(q) = d.end - d.start
      /\ size_Array(d) = Len(q) /\ d.mem \in [0..(d.alloc - 1) -> W]
  BY HoldsFacts
<1>2. \A j \in d.start..(d.end - 1) : d.mem[j] = q[j - d.start + 1]
  BY DEF Holds, Window
<1>3. \A i \in 1..Len(q) : q[i] \in Values
  BY <1>1, ElementOfSeq
<1>4. ASSUME NEW j \in d.start..(d.end - 1) PROVE d.mem[j] \in Values
  <2>1. j - d.start + 1 \in 1..Len(q)
    BY <1>1
  <2> QED BY <1>2, <1>3, <2>1
<1>5. ASSUME NEW i \in 1..Len(q) PROVE d.mem[d.start + i - 1] = q[i]
  <2> DEFINE j == d.start + i - 1
  <2>1. j \in d.start..(d.end - 1) /\ j - d.start + 1 = i
    BY <1>1
  <2> HIDE DEF j
  <2>2. d.mem[j] = q[i]
    BY <1>2, <2>1
  <2> QED BY <2>2 DEF j
<1>6. Elements(d) = [i \in 1..Len(q) |-> q[i]]
  BY <1>1, <1>5 DEF Elements
<1>7. q = [i \in 1..Len(q) |-> q[i]]
  BY <1>1
<1> QED BY <1>1, <1>4, <1>6, <1>7 DEF Shaped, W, Holds, IsArray

LEMMA ReserveHolds ==
  ASSUME NEW d, NEW q, Holds(d, q), NEW n \in Nat
  PROVE  Holds(reserve_Array(d, n), q) /\ n <= reserve_Array(d, n).alloc
<1> DEFINE least == IF d.alloc = 0 THEN iArrayMinAlloc ELSE d.alloc
           sizes == {s \in {least * 2^k : k \in 0..n} : s >= n}
           new == Min(sizes)
           grown == [i \in 0..(new - 1) |-> IF i < d.alloc THEN d.mem[i] ELSE Garbage]
           e == [d EXCEPT !.alloc = new, !.mem = grown]
<1>1. d.alloc \in Nat /\ Window(d.alloc, d.start, d.end, d.mem, q)
  BY HoldsFacts
<1>2. least \in Nat \ {0}
  BY <1>1 DEF iArrayMinAlloc
<1>3. sizes \in SUBSET Nat /\ sizes # {}
  <2> HIDE DEF least
  <2>1. \A a, b \in Nat : a * b \in Nat
    OBVIOUS
  <2>2. sizes \in SUBSET Nat
    BY <1>2, <2>1, PowersGrow
  <2>3. least * 2^n >= n
    <3>1. 2^n \in Nat /\ n <= 2^n
      BY PowersGrow
    <3>2. \A a \in Nat \ {0}, b \in Nat : b <= a * b
      OBVIOUS
    <3>3. least * 2^n \in Nat /\ 2^n <= least * 2^n
      BY <1>2, <2>1, <3>1, <3>2
    <3> QED BY <3>1, <3>3
  <2>4. least * 2^n \in sizes
    BY <2>3
  <2> QED BY <2>2, <2>4
<1>4. new \in Nat /\ n <= new
  <2>1. new \in sizes
    BY <1>3, MinIsLeast
  <2> QED BY <1>3, <2>1
<1>r. reserve_Array(d, n) = IF new > d.alloc THEN e ELSE d
  BY DEF reserve_Array
<1> HIDE DEF new, sizes, least
<1>5. CASE new > d.alloc
  <2>1. d.alloc <= new
    BY <1>1, <1>4, <1>5
  <2>2. Window(new, d.start, d.end, grown, q)
    BY <1>1, <1>4, <2>1, WindowGrown
  <2> HIDE DEF grown
  <2>3. IsArray(d) /\ e = Regrown(d, new, grown)
    BY DEF Holds, Regrown
  <2> HIDE DEF e
  <2>4. Holds(e, q) /\ e.alloc = new
    BY ONLY <2>2, <2>3, RegrownHolds
  <2> QED BY <1>4, <1>5, <1>r, <2>3, <2>4
<1>6. CASE ~(new > d.alloc)
  <2>1. n <= d.alloc
    BY <1>1, <1>4, <1>6
  <2> QED BY <1>6, <1>r, <2>1
<1> QED BY <1>5, <1>6

LEMMA ShiftHolds ==
  ASSUME NEW d, NEW q, Holds(d, q), NEW delta \in Int, 0 <= d.start + delta, d.end + delta <= d.alloc,
         NEW e, e = shift_Array_(d, delta)
  PROVE  Holds(e, q) /\ e.alloc = d.alloc /\ e.start = d.start + delta /\ e.end = d.end + delta
<1> DEFINE m == moveElements_Array_(d.mem, d.start, d.end, delta)
<1>1. Window(d.alloc, d.start, d.end, d.mem, q)
  BY HoldsFacts
<1>2. Window(d.alloc, d.start + delta, d.end + delta, m, q)
  BY <1>1, WindowShifted
<1>3. IsArray(d) /\ e = Edited(d, d.start + delta, d.end + delta, m)
  BY DEF Holds, shift_Array_, Edited
<1> DEFINE s == d.start + delta
           f == d.end + delta
<1>4. Window(d.alloc, s, f, m, q) /\ IsArray(d) /\ e = Edited(d, s, f, m)
  BY <1>2, <1>3
<1> HIDE DEF m, s, f
<1>5. Holds(e, q) /\ e.alloc = d.alloc /\ e.start = s /\ e.end = f
  BY ONLY <1>4, EditedHolds
<1> QED BY <1>5 DEF s, f

LEMMA RebalanceHolds == ASSUME NEW d, NEW q, Holds(d, q) PROVE Holds(rebalance_Array_(d), q)
<1> DEFINE delta == imbalance_Array_(d)
<1>1. d.alloc \in Nat /\ d.start \in Nat /\ d.end \in Nat /\ d.start <= d.end /\ d.end <= d.alloc
  BY HoldsFacts
<1>2. delta \in Int /\ 0 <= d.start + delta /\ d.end + delta <= d.alloc
  BY <1>1 DEF imbalance_Array_, Half
<1> HIDE DEF delta
<1>3. Holds(shift_Array_(d, delta), q)
  BY <1>2, ShiftHolds
<1> QED BY <1>3 DEF rebalance_Array_, delta

LEMMA AppendHolds ==
  ASSUME NEW d, NEW q, Holds(d, q), NEW run \in Seq(Values), Len(q) + Len(run) <= d.alloc
  PROVE  Holds(AppendRun(d, run), Inserted(q, Len(q), run))
<1> DEFINE n == Len(run)
           overrun == d.end + n - d.alloc
           e == IF overrun > 0 THEN shift_Array_(d, -overrun) ELSE d
<1> DEFINE l == Len(q)
<1>0. /\ d.alloc \in Nat /\ d.start \in Nat /\ d.end \in Nat /\ d.start <= d.end /\ d.end <= d.alloc
      /\ l \in Nat /\ l = d.end - d.start
  BY HoldsFacts
<1>1. /\ q \in Seq(Values) /\ d.mem \in [0..(d.alloc - 1) -> W]
      /\ Window(d.alloc, d.start, d.end, d.mem, q) /\ IsArray(d)
  BY HoldsFacts DEF Holds
<1>2. n \in Nat /\ l + n <= d.alloc
  BY LenProperties
<1> HIDE DEF l, n
<1>3. Holds(e, q) /\ e.alloc = d.alloc /\ e.end + n <= d.alloc
  <2>1. CASE overrun > 0
    <3> DEFINE delta == -overrun
    <3>a. delta = -overrun /\ overrun = d.end + n - d.alloc /\ overrun \in Int /\ overrun > 0
      BY <1>0, <1>2, <2>1
    <3>b. overrun <= d.start
      BY ONLY <1>0, <1>2 DEF overrun
    <3> HIDE DEF delta, overrun
    <3>c. delta \in Int /\ 0 <= d.start + delta
      BY ONLY <1>0, <3>a, <3>b
    <3>d. d.end + delta <= d.alloc
      BY ONLY <1>0, <3>a
    <3>e. (d.end + delta) + n = d.alloc
      <4>1. \A a, f, k, x \in Int : x = -(f + k - a) => (f + x) + k = a
        OBVIOUS
      <4>2. d.alloc \in Int /\ d.end \in Int /\ n \in Int /\ delta \in Int
            /\ delta = -(d.end + n - d.alloc)
        BY <1>0, <1>2, <3>a, <3>c
      <4> QED BY ONLY <4>1, <4>2
    <3>1. /\ delta \in Int /\ 0 <= d.start + delta /\ d.end + delta <= d.alloc
          /\ (d.end + delta) + n = d.alloc
      BY <3>c, <3>d, <3>e
    <3> HIDE DEF delta
    <3>2. /\ Holds(shift_Array_(d, delta), q) /\ shift_Array_(d, delta).alloc = d.alloc
          /\ shift_Array_(d, delta).end = d.end + delta
      BY <3>1, ShiftHolds
    <3>3. e = shift_Array_(d, delta)
      BY <2>1 DEF delta
    <3> HIDE DEF e
    <3>4. d.alloc <= d.alloc
      BY <1>0
    <3> QED BY <3>1, <3>2, <3>3, <3>4
  <2>2. CASE ~(overrun > 0)
    <3>1. e = d
      BY <2>2
    <3>2. d.end + n <= d.alloc
      BY ONLY <1>0, <1>2, <2>2 DEF overrun
    <3> QED BY <3>1, <3>2
  <2> QED BY <2>1, <2>2
<1>4. AppendRun(d, run) = WithEndAndMemory(e, e.end + n, Write(e.mem, e.end, run))
  BY DEF AppendRun, WithEndAndMemory, n
<1> HIDE DEF e
<1>5. Window(e.alloc, e.start, e.end, e.mem, q) /\ IsArray(e) /\ e.end + n <= e.alloc
  BY <1>3 DEF Holds
<1>6. Window(e.alloc, e.start, e.end + n, Write(e.mem, e.end, run), Inserted(q, Len(q), run))
  BY <1>5, WindowAppended DEF n
<1> QED BY <1>4, <1>5, <1>6, WithEndAndMemoryHolds

\* Elements shifted by what a run before them lacks end where they and it do.
LEMMA ShiftedFits ==
  ASSUME NEW s \in Int, NEW e \in Int, NEW a \in Int, NEW l \in Int, NEW n \in Int, NEW delta,
         delta = n - s, l = e - s, l + n <= a
  PROVE  e + delta <= a
<1>1. e + delta = l + n
  OBVIOUS
<1> QED BY <1>1

LEMMA PrependHolds ==
  ASSUME NEW d, NEW q, Holds(d, q), NEW run \in Seq(Values), Len(q) + Len(run) <= d.alloc
  PROVE  Holds(PrependRun(d, run), Inserted(q, 0, run))
<1> DEFINE n == Len(run)
           overrun == n - d.start
           e == IF overrun > 0 THEN shift_Array_(d, overrun) ELSE d
<1> DEFINE l == Len(q)
<1>0. /\ d.alloc \in Nat /\ d.start \in Nat /\ d.end \in Nat /\ d.start <= d.end /\ d.end <= d.alloc
      /\ l \in Nat /\ l = d.end - d.start
  BY HoldsFacts
<1>1. /\ q \in Seq(Values) /\ d.mem \in [0..(d.alloc - 1) -> W]
      /\ Window(d.alloc, d.start, d.end, d.mem, q) /\ IsArray(d)
  BY HoldsFacts DEF Holds
<1>2. n \in Nat /\ l + n <= d.alloc
  BY LenProperties
<1> HIDE DEF l, n
<1>3. Holds(e, q) /\ e.alloc = d.alloc /\ n <= e.start
  <2>1. CASE overrun > 0
    <3> DEFINE delta == overrun
    <3>a. delta = n - d.start /\ delta \in Int
      BY <1>0, <1>2, <2>1
    <3>b. delta > 0
      BY <2>1
    <3>3. e = shift_Array_(d, delta)
      BY <2>1
    <3> HIDE DEF delta, overrun
    <3>c. d.start + delta = n /\ 0 <= d.start + delta
      BY ONLY <1>0, <1>2, <3>a
    <3>d. d.end + delta <= d.alloc
      <4>1. /\ d.start \in Int /\ d.end \in Int /\ d.alloc \in Int /\ l \in Int /\ n \in Int
            /\ delta = n - d.start /\ l = d.end - d.start /\ l + n <= d.alloc
        BY ONLY <1>0, <1>2, <3>a
      <4> QED BY ONLY <4>1, ShiftedFits
    <3>1. delta \in Int /\ 0 <= d.start + delta /\ d.end + delta <= d.alloc /\ d.start + delta = n
      BY ONLY <3>a, <3>c, <3>d
    <3>2. /\ Holds(shift_Array_(d, delta), q) /\ shift_Array_(d, delta).alloc = d.alloc
          /\ shift_Array_(d, delta).start = d.start + delta
      BY <3>1, ShiftHolds
    <3> HIDE DEF e
    <3>4. n <= n
      BY <1>2
    <3> QED BY <3>1, <3>2, <3>3, <3>4
  <2>2. CASE ~(overrun > 0)
    <3>1. e = d
      BY <2>2
    <3>2. n <= d.start
      BY ONLY <1>0, <1>2, <2>2 DEF overrun
    <3> QED BY <3>1, <3>2
  <2> QED BY <2>1, <2>2
<1>4. PrependRun(d, run) = WithStartAndMemory(e, e.start - n, Write(e.mem, e.start - n, run))
  BY DEF PrependRun, WithStartAndMemory, n
<1> HIDE DEF e
<1>5. Window(e.alloc, e.start, e.end, e.mem, q) /\ IsArray(e)
  BY <1>3 DEF Holds
<1>6. Window(e.alloc, e.start - n, e.end, Write(e.mem, e.start - n, run), Inserted(q, 0, run))
  BY <1>3, <1>5, WindowPrepended DEF n
<1> QED BY <1>4, <1>5, <1>6, WithStartAndMemoryHolds

LEMMA SplitHolds ==
  ASSUME NEW d, NEW q, Holds(d, q), NEW run \in Seq(Values), Len(q) + Len(run) <= d.alloc,
         NEW pos \in 0..Len(q)
  PROVE  Holds(SplitRun(d, d.start + pos, run), Inserted(q, pos, run))
<1> DEFINE split == d.start + pos
           n == Len(run)
           first == split - d.start <= d.end - split /\ n < d.start
           right == IF first THEN 0 ELSE Min({n, d.alloc - d.end})
           left == Min({n - right, d.start})
           u == moveElements_Array_(d.mem, d.start, split, -left)
           v == moveElements_Array_(u, split, d.end, right)
           m == Write(v, split - left, run)
<1> DEFINE l == Len(q)
<1>0. /\ d.alloc \in Nat /\ d.start \in Nat /\ d.end \in Nat /\ d.start <= d.end /\ d.end <= d.alloc
      /\ l \in Nat /\ l = d.end - d.start
  BY HoldsFacts
<1>1. /\ q \in Seq(Values) /\ d.mem \in [0..(d.alloc - 1) -> W]
      /\ Window(d.alloc, d.start, d.end, d.mem, q) /\ IsArray(d)
  BY HoldsFacts DEF Holds
<1>2. n \in Nat /\ l + n <= d.alloc /\ pos \in 0..l
  BY LenProperties
<1> HIDE DEF l, n
<1>p. pos \in Nat /\ pos <= l
  BY ONLY <1>0, <1>2
<1>3. split \in d.start..d.end /\ split - d.start = pos
  BY ONLY <1>0, <1>p
<1>4. ASSUME NEW x \in Nat, NEW y \in Nat PROVE Min({x, y}) = IF x <= y THEN x ELSE y
  <2>1. Min({x, y}) \in {x, y} /\ \A w \in {x, y} : Min({x, y}) <= w
    BY MinIsLeast
  <2> QED BY <2>1
<1>5. right \in Nat /\ right <= n /\ right <= d.alloc - d.end
      /\ (right = n \/ right = d.alloc - d.end \/ (right = 0 /\ n < d.start))
  <2>1. d.alloc - d.end \in Nat
    BY <1>0
  <2>2. Min({n, d.alloc - d.end}) = IF n <= d.alloc - d.end THEN n ELSE d.alloc - d.end
    BY <1>2, <1>4, <2>1
  <2> HIDE DEF split
  <2>3. CASE first
    BY ONLY <1>0, <1>2, <2>1, <2>3
  <2>4. CASE ~first
    BY ONLY <1>0, <1>2, <2>1, <2>2, <2>4
  <2> QED BY <2>3, <2>4
<1> HIDE DEF right
<1>6. left = IF n - right <= d.start THEN n - right ELSE d.start
  <2>1. n - right \in Nat
    BY <1>2, <1>5
  <2> DEFINE x == n - right
  <2> HIDE DEF x
  <2>2. Min({x, d.start}) = IF x <= d.start THEN x ELSE d.start
    <3>1. x \in Nat /\ d.start \in Nat
      BY <1>0, <2>1 DEF x
    <3> QED BY ONLY <3>1, <1>4
  <2> QED BY <2>2 DEF x
<1> HIDE DEF left
<1>7. n - right <= d.start
  <2>1. CASE right = n
    BY ONLY <1>0, <1>2, <1>5, <2>1
  <2>2. CASE right = d.alloc - d.end
    <3>1. n - right = n - (d.alloc - d.end)
      BY <2>2
    <3>2. n - (d.alloc - d.end) <= d.start
      BY ONLY <1>0, <1>2
    <3> QED BY <3>1, <3>2
  <2>3. CASE right = 0 /\ n < d.start
    BY ONLY <1>0, <1>2, <1>5, <2>3
  <2> QED BY <1>5, <2>1, <2>2, <2>3
<1>8. left \in Nat /\ left + right = n /\ left <= d.start /\ d.end + right <= d.alloc
  BY ONLY <1>0, <1>2, <1>5, <1>6, <1>7
<1>r. SplitRun(d, split, run) = Edited(d, d.start - left, d.end + right, m)
  BY DEF SplitRun, Edited, left, right, n
<1> HIDE DEF split
<1>9. Window(d.alloc, d.start - left, d.end + right, m, Inserted(q, split - d.start, run))
  <2>1. Window(d.alloc, d.start, d.end, d.mem, q) /\ run \in Seq(Values) /\ left + right = Len(run)
    BY <1>1, <1>8 DEF n
  <2>2. u = moveElements_Array_(d.mem, d.start, split, -left)
    OBVIOUS
  <2> HIDE DEF u
  <2>3. v = moveElements_Array_(u, split, d.end, right)
    OBVIOUS
  <2> HIDE DEF v
  <2>4. /\ split \in d.start..d.end /\ left \in Nat /\ right \in Nat
        /\ left <= d.start /\ d.end + right <= d.alloc
    BY <1>3, <1>5, <1>8
  <2> HIDE DEF split
  <2> QED BY ONLY <2>1, <2>2, <2>3, <2>4, WindowSplit
<1>10. Holds(Edited(d, d.start - left, d.end + right, m), Inserted(q, split - d.start, run))
  <2> HIDE DEF m
  <2> QED BY <1>1, <1>9, EditedHolds
<1> QED BY <1>3, <1>10, <1>r DEF split

LEMMA InsertNHolds ==
  ASSUME NEW d, NEW q, Holds(d, q), NEW run \in Seq(Values), NEW pos \in 0..Len(q)
  PROVE  Holds(insertN_Array(d, pos, run), Inserted(q, pos, run))
<1> DEFINE e == reserve_Array(d, size_Array(d) + Len(run))
           split == e.start + pos
           t == IF split = e.end THEN AppendRun(e, run)
                ELSE IF split = e.start THEN PrependRun(e, run)
                ELSE SplitRun(e, split, run)
<1>1. size_Array(d) = Len(q) /\ Len(q) + Len(run) \in Nat
  BY HoldsFacts, LenProperties
<1>2. Holds(e, q) /\ Len(q) + Len(run) <= e.alloc
  BY <1>1, ReserveHolds
<1>r. insertN_Array(d, pos, run) = rebalance_Array_(t)
  BY DEF insertN_Array
<1> HIDE DEF e
<1>3. e.start \in Nat /\ e.end \in Nat /\ Len(q) \in Nat /\ Len(q) = e.end - e.start
  BY <1>2, HoldsFacts
<1>4. Holds(t, Inserted(q, pos, run))
  <2>1. CASE split = e.end
    <3>1. pos = Len(q)
      BY <1>3, <2>1
    <3> QED BY <1>2, <2>1, <3>1, AppendHolds
  <2>2. CASE split # e.end /\ split = e.start
    <3>1. pos = 0
      BY <1>3, <2>2
    <3> QED BY <1>2, <2>2, <3>1, PrependHolds
  <2>3. CASE split # e.end /\ split # e.start
    BY <1>2, <2>3, SplitHolds
  <2> QED BY <2>1, <2>2, <2>3
<1> HIDE DEF t
<1> QED BY <1>4, <1>r, RebalanceHolds

LEMMA RemoveNHolds ==
  ASSUME NEW d, NEW q, Holds(d, q), NEW pos \in Nat, NEW count \in Nat, pos + count <= Len(q)
  PROVE  Holds(removeN_Array(d, pos, count), Removed(q, pos, count))
<1> DEFINE at == d.start + pos
           l == Len(q)
           t == Removed(q, pos, count)
<1>0. /\ d.alloc \in Nat /\ d.start \in Nat /\ d.end \in Nat /\ d.start <= d.end /\ d.end <= d.alloc
      /\ l \in Nat /\ l = d.end - d.start /\ pos + count <= l
  BY HoldsFacts
<1>1. /\ q \in Seq(Values) /\ d.mem \in [0..(d.alloc - 1) -> W]
      /\ Window(d.alloc, d.start, d.end, d.mem, q) /\ IsArray(d)
  BY HoldsFacts DEF Holds
<1> HIDE DEF l, t
<1>2. at \in Nat /\ d.start <= at /\ at + count <= d.end /\ at = d.start + pos
  BY ONLY <1>0, pos \in Nat, count \in Nat DEF at
<1>3. CASE count = 0
  <2>1. t = q
    <3>1. CutOut(t, q, pos, 0)
      BY <1>1, <1>3, RemovedIsCutOut DEF t
    <3>2. t \in Seq(Values) /\ Len(t) = l /\ (\A i \in 1..pos : t[i] = q[i])
          /\ (\A i \in (pos + 1)..l : t[i] = q[i])
      <4>1. l - 0 = l /\ \A i \in (pos + 1)..l : i + 0 = i
        BY ONLY <1>0, pos \in Nat
      <4> QED BY <3>1, <4>1 DEF CutOut, l
    <3>3. \A i \in 1..l : i \in 1..pos \/ i \in (pos + 1)..l
      BY ONLY <1>0, pos \in Nat
    <3>4. t = [i \in 1..l |-> t[i]] /\ q = [i \in 1..l |-> q[i]]
      BY <1>1, <3>2 DEF l
    <3>5. \A i \in 1..l : t[i] = q[i]
      BY <3>2, <3>3
    <3> QED BY <3>4, <3>5
  <2>2. removeN_Array(d, pos, count) = d
    BY <1>3 DEF removeN_Array
  <2> QED BY <2>1, <2>2 DEF t
<1>4. CASE count # 0 /\ at = d.end - count
  <2>1. removeN_Array(d, pos, count) = WithEnd(d, d.end - count)
    BY <1>4 DEF removeN_Array, WithEnd
  <2>2. \A i \in (d.start + pos)..((d.end - count) - 1) : d.mem[i] = d.mem[i + count]
    BY <1>0, <1>2, <1>4
  <2>3. Window(d.alloc, d.start, d.end - count, d.mem, t)
    BY <1>1, <2>2, WindowCutBelow DEF t
  <2> QED BY <1>1, <2>1, <2>3, WithEndHolds DEF t
<1>5. CASE count # 0 /\ at # d.end - count /\ at = d.start
  <2>1. removeN_Array(d, pos, count) = WithStart(d, d.start + count)
    BY <1>5 DEF removeN_Array, WithStart
  <2>2. pos = 0
    BY <1>0, <1>2, <1>5
  <2>3. \A i \in (d.start + count)..((d.start + pos + count) - 1) : d.mem[i] = d.mem[i - count]
    BY <1>0, <2>2
  <2>4. Window(d.alloc, d.start + count, d.end, d.mem, t)
    BY <1>1, <2>3, WindowCutAbove DEF t
  <2> QED BY <1>1, <2>1, <2>4, WithStartHolds DEF t
<1>6. CASE count # 0 /\ at # d.end - count /\ at # d.start /\ pos > d.end - at
  <2> DEFINE m == moveElements_Array_(d.mem, at + count, d.end, -count)
  <2>1. removeN_Array(d, pos, count) = WithEndAndMemory(d, d.end - count, m)
    BY <1>6 DEF removeN_Array, WithEndAndMemory
  <2>2. Window(d.alloc, d.start, d.end - count, m, t)
    BY <1>1, WindowMovedDown DEF t
  <2> HIDE DEF m
  <2> QED BY <1>1, <2>1, <2>2, WithEndAndMemoryHolds DEF t
<1>7. CASE count # 0 /\ at # d.end - count /\ at # d.start /\ ~(pos > d.end - at)
  <2> DEFINE m == moveElements_Array_(d.mem, d.start, at, count)
  <2>1. removeN_Array(d, pos, count) = WithStartAndMemory(d, d.start + count, m)
    BY <1>7 DEF removeN_Array, WithStartAndMemory
  <2>2. Window(d.alloc, d.start + count, d.end, m, t)
    BY <1>1, WindowMovedUp DEF t
  <2> HIDE DEF m
  <2> QED BY <1>1, <2>1, <2>2, WithStartAndMemoryHolds DEF t
<1> QED BY <1>3, <1>4, <1>5, <1>6, <1>7

LEMMA ResizeHolds ==
  ASSUME NEW d, NEW q, Holds(d, q), NEW size \in Nat
  PROVE  /\ Holds(resize_Array(d, size), Sized(q, size))
         /\ size <= resize_Array(d, size).alloc
<1> DEFINE t == Sized(q, size)
           old == size_Array(d)
           e == reserve_Array(d, size)
           c == IF e.start + size > e.alloc
                  THEN shift_Array_(e, (e.alloc - size) \div 2 - e.start) ELSE e
           m == [i \in DOMAIN c.mem |-> IF i - c.start \in old..(size - 1) THEN Zero ELSE c.mem[i]]
           f == c.start + size
           g == d.start + size
<1>1. old = Len(q) /\ q \in Seq(Values) /\ Len(q) \in Nat
  BY HoldsFacts
<1>r. resize_Array(d, size) = IF size <= old THEN WithEnd(d, g) ELSE WithEndAndMemory(c, f, m)
  <2> HIDE DEF c, e, old
  <2> QED BY DEF resize_Array, WithEnd, WithEndAndMemory, c, e, old
<1>2. CASE size <= old
  <2>1. Window(d.alloc, d.start, d.end, d.mem, q) /\ IsArray(d)
    BY HoldsFacts DEF Holds
  <2>2. size <= Len(q)
    BY <1>1, <1>2
  <2>3. Window(d.alloc, d.start, g, d.mem, t)
    BY <2>1, <2>2, WindowCut
  <2> HIDE DEF t, g, old
  <2>4. Holds(WithEnd(d, g), t) /\ WithEnd(d, g).alloc = d.alloc
    BY <2>1, <2>3, WithEndHolds
  <2>5. size <= d.alloc
    BY <2>2, HoldsFacts
  <2> QED BY <1>2, <1>r, <2>4, <2>5 DEF t
<1>3. CASE ~(size <= old)
  <2>1. Holds(e, q) /\ size <= e.alloc
    BY ReserveHolds
  <2> HIDE DEF e
  <2>2. e.alloc \in Nat /\ e.start \in Nat /\ e.end \in Nat /\ e.start <= e.end /\ e.end <= e.alloc
        /\ Len(q) = e.end - e.start
    BY <2>1, HoldsFacts
  <2>3. Holds(c, q) /\ c.alloc = e.alloc /\ c.start + size <= c.alloc
    <3>1. CASE e.start + size > e.alloc
      <4> DEFINE half == (e.alloc - size) \div 2
                 delta == half - e.start
      <4>1. half \in Nat /\ half + size <= e.alloc
        <5>1. e.alloc \in Nat /\ size \in Nat /\ size <= e.alloc
          BY <2>1, <2>2
        <5>2. e.alloc - size \in Nat
          BY ONLY <5>1
        <5>3. half \in Nat /\ half <= e.alloc - size
          BY ONLY <5>2
        <5> QED BY ONLY <5>1, <5>3
      <4> HIDE DEF half
      <4>2. delta \in Int /\ e.start + delta = half /\ 0 <= e.start + delta
        BY <2>2, <4>1
      <4>3. e.end + delta <= e.alloc
        <5>1. e.end + delta = half + Len(q)
          BY <2>2, <4>1
        <5>2. Len(q) <= size /\ Len(q) \in Nat
          BY <1>1, <1>3
        <5> HIDE DEF delta
        <5> QED BY <2>2, <4>1, <5>1, <5>2
      <4>4. c = shift_Array_(e, delta)
        BY <3>1 DEF half
      <4> HIDE DEF delta, c
      <4>5. Holds(c, q) /\ c.alloc = e.alloc /\ c.start = e.start + delta
        BY <2>1, <4>2, <4>3, <4>4, ShiftHolds
      <4> QED BY <4>1, <4>2, <4>5
    <3>2. CASE ~(e.start + size > e.alloc)
      <4>1. e.start + size <= e.alloc
        BY <2>2, <3>2
      <4> QED BY <2>1, <3>2, <4>1
    <3> QED BY <3>1, <3>2
  <2> HIDE DEF c, old
  <2>4. Window(c.alloc, c.start, c.end, c.mem, q) /\ IsArray(c) /\ DOMAIN c.mem = 0..(c.alloc - 1)
    BY <2>3, HoldsFacts DEF Holds
  <2>5. m = [i \in 0..(c.alloc - 1) |-> IF i - c.start \in old..(size - 1) THEN Zero ELSE c.mem[i]]
    BY <2>4
  <2>6. size >= Len(q)
    BY <1>1, <1>3
  <2> HIDE DEF m
  <2>7. Window(c.alloc, c.start, f, m, t)
    BY <1>1, <2>3, <2>4, <2>5, <2>6, WindowPadded
  <2> HIDE DEF t, f
  <2>8. Holds(WithEndAndMemory(c, f, m), t) /\ WithEndAndMemory(c, f, m).alloc = c.alloc
    BY <2>4, <2>7, WithEndAndMemoryHolds
  <2> QED BY <1>3, <1>r, <2>1, <2>3, <2>8 DEF t
<1> QED BY <1>2, <1>3

LEMMA MoveHolds ==
  ASSUME NEW d, NEW q, Holds(d, q), NEW run \in Seq(Values), NEW pos \in 0..Len(q)
  PROVE  Holds(move_Array(d, pos, run), Inserted(q, pos, run))
<1> DEFINE n == Len(run)
           old == size_Array(d)
           size == old + n
           e == resize_Array(d, size)
           p == Sized(q, size)
           v == moveElements_Array_(e.mem, e.start + pos, e.start + old, n)
           m == Write(v, e.start + pos, run)
<1>1. old = Len(q) /\ q \in Seq(Values) /\ Len(q) \in Nat /\ n \in Nat /\ size \in Nat
  BY HoldsFacts, LenProperties
<1>r. move_Array(d, pos, run) = WithMemory(e, m)
  BY DEF move_Array, WithMemory
<1> HIDE DEF e
<1>2. Holds(e, p)
  BY <1>1, ResizeHolds DEF e
<1>3. Window(e.alloc, e.start, e.end, e.mem, p) /\ IsArray(e)
  BY <1>2, HoldsFacts DEF Holds
<1>4. Len(p) = Len(q) + n
  BY <1>1, SizedType
<1>5. ASSUME NEW i \in 1..Len(q) PROVE p[i] = q[i]
  <2>1. i \in 1..size /\ i <= Len(q)
    BY <1>1
  <2> QED BY <2>1 DEF Sized
<1>6. v = moveElements_Array_(e.mem, e.start + pos, e.start + Len(q), n)
  BY <1>1
<1> HIDE DEF v, p, old
<1>7. Window(e.alloc, e.start, e.end, m, Inserted(q, pos, run))
  BY <1>1, <1>3, <1>4, <1>5, <1>6, WindowOpened
<1> HIDE DEF m
<1> QED BY <1>3, <1>7, <1>r, WithMemoryHolds

\* A run written over the elements.
Over(q, pos, run) == [i \in 1..Len(q) |-> IF i - pos \in 1..Len(run) THEN run[i - pos] ELSE q[i]]

LEMMA SetHolds ==
  ASSUME NEW d, NEW q, Holds(d, q), NEW run \in Seq(Values), NEW pos \in Nat,
         pos + Len(run) <= Len(q)
  PROVE  Holds([d EXCEPT !.mem = Write(@, d.start + pos, run)], Over(q, pos, run))
<1> DEFINE m == Write(d.mem, d.start + pos, run)
<1>1. Window(d.alloc, d.start, d.end, d.mem, q) /\ IsArray(d)
  BY HoldsFacts DEF Holds
<1>2. Window(d.alloc, d.start, d.end, m, Over(q, pos, run))
  BY <1>1, WindowOverwritten DEF Over
<1>3. [d EXCEPT !.mem = Write(@, d.start + pos, run)] = WithMemory(d, m)
  BY DEF WithMemory
<1> HIDE DEF m
<1> QED BY <1>1, <1>2, <1>3, WithMemoryHolds

LEMMA ClearHolds ==
  ASSUME NEW d, NEW q, Holds(d, q) PROVE Holds(clear_Array(d), Sized(q, 0))
<1> SUFFICES ASSUME NEW t, t = clear_Array(d) PROVE Holds(t, Sized(q, 0))
  OBVIOUS
<1> DEFINE h == d.alloc \div 2
           none == Sized(q, 0)
<1>1. d.alloc \in Nat /\ d.mem \in [0..(d.alloc - 1) -> W] /\ q \in Seq(Values) /\ IsArray(d)
  BY HoldsFacts DEF Holds
<1>2. t = [d EXCEPT !.start = h, !.end = h]
  BY DEF clear_Array
<1>3. h \in Nat /\ h <= d.alloc
  BY <1>1
<1>4. none \in Seq(Values) /\ Len(none) = 0
  BY <1>1, SizedType
<1> HIDE DEF h, none
<1>5. t.alloc = d.alloc /\ t.start = h /\ t.end = h /\ t.mem = d.mem /\ IsArray(t)
  BY <1>1, <1>2 DEF IsArray
<1>6. h <= h /\ h - h = 0 /\ h..(h - 1) = {}
  BY <1>3
<1>7. Window(d.alloc, h, h, d.mem, none)
  BY <1>1, <1>3, <1>4, <1>6 DEF Window
<1> QED BY <1>5, <1>7 DEF Holds, none

-----------------------------------------------------------------------------
(* The specification.                                                        *)

Kept(e) == [e EXCEPT !.mem = [i \in DOMAIN @ |->
                                IF i \in e.start..(e.end - 1) THEN @[i] ELSE Garbage]]

LEMMA KeptHolds == ASSUME NEW e, NEW q, Holds(e, q) PROVE Holds(Kept(e), q)
<1> DEFINE m == [i \in DOMAIN e.mem |-> IF i \in e.start..(e.end - 1) THEN e.mem[i] ELSE Garbage]
<1>1. Window(e.alloc, e.start, e.end, e.mem, q) /\ IsArray(e)
  BY HoldsFacts DEF Holds
<1>2. Kept(e) = WithMemory(e, m)
  BY DEF Kept, WithMemory
<1>3. /\ e.alloc \in Nat /\ e.start \in Nat /\ e.end \in Nat /\ e.start <= e.end /\ e.end <= e.alloc
      /\ e.mem \in [0..(e.alloc - 1) -> W] /\ q \in Seq(Values) /\ Len(q) = e.end - e.start
  BY HoldsFacts
<1>4. \A j \in e.start..(e.end - 1) : e.mem[j] = q[j - e.start + 1]
  BY <1>1 DEF Window
<1>5. m \in [0..(e.alloc - 1) -> W]
  BY <1>3 DEF W
<1>6. \A j \in e.start..(e.end - 1) : m[j] = e.mem[j]
  BY <1>3
<1> HIDE DEF m
<1>7. \A j \in e.start..(e.end - 1) : m[j] = q[j - e.start + 1]
  BY <1>4, <1>6
<1>8. Window(e.alloc, e.start, e.end, m, q)
  BY <1>3, <1>5, <1>7 DEF Window
<1> QED BY <1>1, <1>2, <1>8, WithMemoryHolds

LEMMA RunsAreSequences == \A run \in Runs : run \in Seq(Values)
<1> TAKE run \in Runs
<1>1. PICK n \in 1..MaxRun : run \in [1..n -> Values]
  BY DEF Runs
<1> QED BY <1>1, ArrayAssumption, SeqDef

\* What an operation that leaves the sequence q does to the state.
LEMMA BecomesHolds ==
  ASSUME NEW e, NEW q, Holds(e, q), Becomes(e)
  PROVE  WindowIsInside' /\ Elements(array)' = q
<1>1. array' = Kept(e)
  BY DEF Becomes, Kept
<1>2. Holds(array', q)
  BY <1>1, KeptHolds
<1>3. Shaped(array') /\ Elements(array') = q
  BY <1>2, HoldsShaped
<1> QED BY <1>3 DEF WindowIsInside

LEMMA InitHolds == Init => WindowIsInside /\ Promise!Init
<1> SUFFICES ASSUME Init PROVE WindowIsInside /\ Promise!Init
  OBVIOUS
<1>1. array = [alloc |-> 0, start |-> 0, end |-> 0, mem |-> <<>>]
  BY DEF Init
<1>2. array.alloc = 0 /\ array.start = 0 /\ array.end = 0 /\ array.mem = <<>>
  BY <1>1
<1>3. array.mem \in [0..(0 - 1) -> W]
  BY <1>2
<1>4. WindowIsInside
  BY <1>1, <1>2, <1>3 DEF WindowIsInside, Shaped, W
<1>5. Elements(array) = <<>>
  BY <1>2 DEF Elements, size_Array
<1> QED BY <1>4, <1>5 DEF Promise!Init

LEMMA StepHolds ==
  WindowIsInside /\ [Next]_array => WindowIsInside' /\ [Promise!Next]_(Elements(array))
<1> SUFFICES ASSUME WindowIsInside, [Next]_array
             PROVE  WindowIsInside' /\ [Promise!Next]_(Elements(array))
  OBVIOUS
<1> DEFINE q == Elements(array)
<1>1. Holds(array, q)
  BY ShapedHolds DEF WindowIsInside
<1>2. q \in Seq(Values) /\ Len(q) \in Nat /\ size_Array(array) = Len(q)
  BY <1>1, HoldsFacts
<1>3. CASE Grow
  <2>1. PICK pos \in 0..size_Array(array), run \in Runs :
          Becomes(insertN_Array(array, pos, run)) \/ Becomes(move_Array(array, pos, run))
    BY <1>3 DEF Grow
  <2>2. pos \in 0..Len(q) /\ run \in Seq(Values)
    BY <1>2, RunsAreSequences
  <2>3. /\ Holds(insertN_Array(array, pos, run), Inserted(q, pos, run))
        /\ Holds(move_Array(array, pos, run), Inserted(q, pos, run))
    BY <1>1, <2>2, InsertNHolds, MoveHolds
  <2>4. WindowIsInside' /\ q' = Inserted(q, pos, run)
    BY <2>1, <2>3, BecomesHolds
  <2>5. Promise!Insert(pos, run) /\ pos \in Promise!Positions
    BY <2>2, <2>4 DEF Promise!Insert, Promise!Positions, Inserted
  <2> QED BY <2>4, <2>5 DEF Promise!Next
<1>4. CASE Shrink
  <2>1. PICK pos \in 0..size_Array(array), count \in 0..size_Array(array) :
          pos + count <= size_Array(array) /\ Becomes(removeN_Array(array, pos, count))
    BY <1>4 DEF Shrink
  <2>2. pos \in 0..Len(q) /\ count \in 0..Len(q) /\ pos + count <= Len(q)
    BY <1>2, <2>1
  <2>3. Holds(removeN_Array(array, pos, count), Removed(q, pos, count))
    BY <1>1, <1>2, <2>2, RemoveNHolds
  <2>4. WindowIsInside' /\ q' = Removed(q, pos, count)
    BY <2>1, <2>3, BecomesHolds
  <2>5. Promise!Remove(pos, count) /\ pos \in Promise!Positions /\ count \in Promise!Positions
    BY <2>2, <2>4 DEF Promise!Remove, Promise!Positions, Removed
  <2> QED BY <2>4, <2>5 DEF Promise!Next
<1>5. CASE Set
  <2>1. PICK pos \in 0..size_Array(array), run \in Runs :
          /\ pos + Len(run) <= size_Array(array)
          /\ Becomes([array EXCEPT !.mem = Write(@, array.start + pos, run)])
    BY <1>5 DEF Set
  <2>2. pos \in 0..Len(q) /\ pos \in Nat /\ run \in Seq(Values) /\ pos + Len(run) <= Len(q)
    BY <1>2, <2>1, RunsAreSequences
  <2>3. Holds([array EXCEPT !.mem = Write(@, array.start + pos, run)], Over(q, pos, run))
    BY <1>1, <2>2, SetHolds
  <2>4. WindowIsInside' /\ q' = Over(q, pos, run)
    BY <2>1, <2>3, BecomesHolds
  <2>5. Promise!Overwrite(pos, run) /\ pos \in Promise!Positions
    BY <2>2, <2>4 DEF Promise!Overwrite, Promise!Positions, Over
  <2> QED BY <2>4, <2>5 DEF Promise!Next
<1>6. CASE Resize
  <2>1. PICK size \in 0..MaxSize : Becomes(resize_Array(array, size))
    BY <1>6 DEF Resize
  <2>2. Holds(resize_Array(array, size), Sized(q, size))
    BY <1>1, ArrayAssumption, ResizeHolds
  <2>3. WindowIsInside' /\ q' = Sized(q, size)
    BY <2>1, <2>2, BecomesHolds
  <2>4. Promise!Resize(size)
    BY <2>3 DEF Promise!Resize, Sized
  <2> QED BY <2>3, <2>4 DEF Promise!Next
<1>7. CASE Clear
  <2>1. Holds(clear_Array(array), Sized(q, 0))
    BY <1>1, ClearHolds
  <2>2. WindowIsInside' /\ q' = Sized(q, 0)
    BY <1>7, <2>1, BecomesHolds DEF Clear
  <2>3. Promise!Resize(0) /\ 0 \in 0..MaxSize
    BY <2>2, ArrayAssumption DEF Promise!Resize, Sized
  <2> QED BY <2>2, <2>3 DEF Promise!Next
<1>8. CASE UNCHANGED array
  BY <1>8 DEF WindowIsInside, Elements, size_Array
<1> QED BY <1>3, <1>4, <1>5, <1>6, <1>7, <1>8 DEF Next

(* Every behaviour of an array (array.c) is one of a sequence of elements with *)
(* the operations of array.h: what is inserted, removed, moved in, set and     *)
(* resized is found where it was put, the rest stays in its order, and no      *)
(* memory outside the window ever shows; for any elements, any runs of them    *)
(* and any size.                                                               *)
THEOREM ArrayIsASequence == Spec => ImplementsSequence
<1>1. Init => WindowIsInside /\ Promise!Init
  BY InitHolds
<1>2. WindowIsInside /\ [Next]_array => WindowIsInside' /\ [Promise!Next]_(Elements(array))
  BY StepHolds
<1> QED BY <1>1, <1>2, PTL DEF Spec, ImplementsSequence, Promise!Spec

-----------------------------------------------------------------------------
(* The certificates that cached sessions and their requests share.           *)

\* What the code takes for granted: a null pointer is not an object, and there
\* are finitely many requests and hosts.
Sensible == /\ IsFiniteSet(TlsRequests) /\ IsFiniteSet(TlsHosts)
            /\ null \notin Nat /\ null \notin R!AllSessions /\ null \notin R!Entries
            /\ maxSessionAge \in Int

\* Two parts of a finite set that differ in x at most.
Apart(S, A, C, x) == /\ IsFiniteSet(S) /\ A \in SUBSET S /\ C \in SUBSET S
                     /\ \A y \in S : y # x => (y \in A <=> y \in C)

LEMMA ApartIn ==
  ASSUME NEW S, NEW A, NEW C, NEW x, Apart(S, A, C, x)
  PROVE  /\ R!Cardinality(A) \in Nat /\ R!Cardinality(C) \in Nat
         /\ R!Cardinality(C) = R!Cardinality(A) - (IF x \in A THEN 1 ELSE 0) + (IF x \in C THEN 1 ELSE 0)
<1>0. R!Cardinality(A) = Cardinality(A) /\ R!Cardinality(C) = Cardinality(C)
  BY DEF R!Cardinality, Cardinality
<1>1. IsFiniteSet(A) /\ IsFiniteSet(C)
  BY FS_Subset DEF Apart
<1>2. Cardinality(A) \in Nat /\ Cardinality(C) \in Nat
  BY <1>1, FS_CardinalityType
<1>3. A \ {x} = C \ {x}
  BY DEF Apart
<1>4. Cardinality(A \ {x}) = IF x \in A THEN Cardinality(A) - 1 ELSE Cardinality(A)
  BY <1>1, FS_RemoveElement
<1>5. Cardinality(C \ {x}) = IF x \in C THEN Cardinality(C) - 1 ELSE Cardinality(C)
  BY <1>1, FS_RemoveElement
<1> HIDE DEF R!Cardinality
<1> QED BY <1>0, <1>2, <1>3, <1>4, <1>5

\* The conjuncts of the invariant about one entry and one request, for any
\* certificates sv of the servers.
CachedAs(sv, h, e) == e # null => /\ e.session.client = e.clientHash
                                  /\ e.cert <= e.session.cert /\ e.session.cert <= sv[h]

Fits(sv, q) ==
  IF q.status = "initialized" THEN q = R!New
  ELSE /\ q.hostName \in TlsHosts
       /\ q.status = "submitted" => ~q.certVerifyFailed
       /\ q.peer = null => ~q.reused /\ (q.cert = null <=> q.offered = null)
       /\ q.offered # null => /\ q.offered.client = q.clientCert
                              /\ q.offered.cert <= sv[q.hostName]
                              /\ q.peer = null => q.cert <= q.offered.cert
       /\ q.peer # null => q.cert # null /\ q.cert <= q.peer /\ q.peer <= sv[q.hostName]
       /\ q.peer # null /\ q.offered = null => q.cert = q.peer
       /\ q.reused => ~q.certVerifyFailed

Holding(rs) == {r \in TlsRequests : rs[r].cert # null}
Filled(c) == {h \in TlsHosts : c[h] # null}

LEMMA SessionsRestated ==
  /\ R!IInv <=> /\ R!TypeOK /\ R!Owned
                /\ \A h \in TlsHosts : CachedAs(server, h, cache[h])
                /\ \A r \in TlsRequests : Fits(server, requests[r])
  /\ R!IInv' <=> /\ R!TypeOK' /\ R!Owned'
                 /\ \A h \in TlsHosts : CachedAs(server', h, cache'[h])
                 /\ \A r \in TlsRequests : Fits(server', requests'[r])
<1>1. \A h \in TlsHosts : /\ R!Cached(h) <=> CachedAs(server, h, cache[h])
                          /\ R!Cached(h)' <=> CachedAs(server', h, cache'[h])
  BY DEF R!Cached, CachedAs
<1>2. \A r \in TlsRequests : /\ R!Submitted(requests[r]) <=> Fits(server, requests[r])
                             /\ R!Submitted(requests[r])' <=> Fits(server', requests'[r])
  BY DEF R!Submitted, Fits, R!New
<1> QED BY <1>1, <1>2 DEF R!IInv

LEMMA HoldingMoves ==
  ASSUME Sensible, NEW rs, NEW ts, NEW r \in TlsRequests, \A p \in TlsRequests : p # r => ts[p] = rs[p]
  PROVE  /\ R!Cardinality(Holding(rs)) \in Nat /\ R!Cardinality(Holding(ts)) \in Nat
         /\ R!Cardinality(Holding(ts)) = R!Cardinality(Holding(rs)) - R!Copies(rs[r].cert)
                                         + R!Copies(ts[r].cert)
<1>1. Holding(rs) \in SUBSET TlsRequests /\ Holding(ts) \in SUBSET TlsRequests /\ IsFiniteSet(TlsRequests)
  BY DEF Holding, Sensible
<1>2. \A p \in TlsRequests : p # r => (p \in Holding(rs) <=> p \in Holding(ts))
  BY DEF Holding
<1>3. /\ R!Cardinality(Holding(rs)) \in Nat /\ R!Cardinality(Holding(ts)) \in Nat
      /\ R!Cardinality(Holding(ts)) = R!Cardinality(Holding(rs)) - (IF r \in Holding(rs) THEN 1 ELSE 0)
                                      + (IF r \in Holding(ts) THEN 1 ELSE 0)
  <2>1. Apart(TlsRequests, Holding(rs), Holding(ts), r)
    BY <1>1, <1>2 DEF Apart
  <2> QED BY <2>1, ApartIn
<1>4. R!Copies(rs[r].cert) = IF r \in Holding(rs) THEN 1 ELSE 0
  BY DEF Holding, R!Copies
<1>5. R!Copies(ts[r].cert) = IF r \in Holding(ts) THEN 1 ELSE 0
  BY DEF Holding, R!Copies
<1> QED BY <1>3, <1>4, <1>5

LEMMA SizeType == ASSUME Sensible, NEW c PROVE R!Size(c) \in Nat
<1>1. Filled(c) \in SUBSET TlsHosts /\ IsFiniteSet(TlsHosts) /\ R!Size(c) = R!Cardinality(Filled(c))
  BY DEF Filled, R!Size, Sensible
<1>2. Apart(TlsHosts, Filled(c), Filled(c), null)
  BY <1>1 DEF Apart
<1> QED BY <1>1, <1>2, ApartIn

\* b is the cache c with the entry e for the host h.
Stored(c, b, h, e) == /\ c \in [TlsHosts -> R!Entries \cup {null}] /\ h \in TlsHosts /\ e # null
                      /\ b = [c EXCEPT ![h] = e]

LEMMA SizeMoves ==
  ASSUME Sensible, NEW c, NEW b, NEW h, NEW e, Stored(c, b, h, e)
  PROVE  R!Size(b) = R!Size(c) - R!Copies(c[h]) + 1
<1>0. b[h] = e /\ e # null /\ h \in TlsHosts /\ \A g \in TlsHosts : g # h => b[g] = c[g]
  BY DEF Stored
<1>1. /\ Filled(c) \in SUBSET TlsHosts /\ Filled(b) \in SUBSET TlsHosts /\ IsFiniteSet(TlsHosts)
      /\ R!Size(c) = R!Cardinality(Filled(c)) /\ R!Size(b) = R!Cardinality(Filled(b))
  BY DEF Filled, R!Size, Sensible
<1>2. \A g \in TlsHosts : g # h => (g \in Filled(c) <=> g \in Filled(b))
  BY <1>0 DEF Filled
<1>3. R!Cardinality(Filled(b)) = R!Cardinality(Filled(c)) - (IF h \in Filled(c) THEN 1 ELSE 0)
                                 + (IF h \in Filled(b) THEN 1 ELSE 0)
  <2>1. Apart(TlsHosts, Filled(c), Filled(b), h)
    BY <1>0, <1>1, <1>2 DEF Apart
  <2> QED BY <2>1, ApartIn
<1>4. R!Copies(c[h]) = (IF h \in Filled(c) THEN 1 ELSE 0) /\ h \in Filled(b)
  BY <1>0 DEF Filled, R!Copies
<1>5. R!Size(c) \in Nat
  BY SizeType
<1> QED BY <1>1, <1>3, <1>4, <1>5

\* A step of request r that leaves it q, whatever it does to the cache.
Moves(r, q, more) ==
  /\ q \in R!States /\ Fits(server, q) /\ requests' = [requests EXCEPT ![r] = q]
  /\ UNCHANGED <<clock, server>>
  /\ cache' \in [TlsHosts -> R!Entries \cup {null}]
  /\ \A h \in TlsHosts : CachedAs(server, h, cache'[h])
  /\ overwritten' = overwritten + more
  /\ certs' = certs + (R!Size(cache') - R!Size(cache))
              + (R!Copies(q.cert) - R!Copies(requests[r].cert)) + more

LEMMA RequestMoves ==
  ASSUME Sensible, R!IInv, NEW r \in TlsRequests, NEW q, NEW more \in Nat, Moves(r, q, more)
  PROVE  R!IInv'
<1>0. /\ q \in R!States /\ Fits(server, q) /\ requests' = [requests EXCEPT ![r] = q]
      /\ clock' = clock /\ server' = server
      /\ cache' \in [TlsHosts -> R!Entries \cup {null}]
      /\ \A h \in TlsHosts : CachedAs(server, h, cache'[h])
      /\ overwritten' = overwritten + more
      /\ certs' = certs + (R!Size(cache') - R!Size(cache))
                  + (R!Copies(q.cert) - R!Copies(requests[r].cert)) + more
  BY DEF Moves
<1>1. R!TypeOK /\ R!Owned /\ \A p \in TlsRequests : Fits(server, requests[p])
  BY SessionsRestated
<1>2. /\ requests \in [TlsRequests -> R!States] /\ requests' \in [TlsRequests -> R!States]
      /\ requests'[r] = q /\ \A p \in TlsRequests : p # r => requests'[p] = requests[p]
  BY <1>0, <1>1 DEF R!TypeOK
<1>3. /\ R!Size(cache) \in Nat /\ R!Size(cache') \in Nat
      /\ R!Copies(q.cert) \in Int /\ R!Copies(requests[r].cert) \in Int
      /\ certs \in Int /\ overwritten \in Nat
  BY <1>1, SizeType DEF R!TypeOK, R!Copies
<1>4. R!TypeOK'
  <2>1. certs' \in Int /\ overwritten' \in Nat
    BY <1>0, <1>3
  <2> QED BY <1>0, <1>1, <1>2, <2>1 DEF R!TypeOK
<1>5. R!Owned'
  <2>1. /\ R!Cardinality(Holding(requests)) \in Nat /\ R!Cardinality(Holding(requests')) \in Nat
        /\ R!Cardinality(Holding(requests')) = R!Cardinality(Holding(requests))
                                  - R!Copies(requests[r].cert) + R!Copies(requests'[r].cert)
    BY <1>2, HoldingMoves
  <2>2. certs = R!Size(cache) + R!Cardinality(Holding(requests)) + overwritten
    BY <1>1 DEF R!Owned, Holding
  <2>3. certs' = R!Size(cache') + R!Cardinality(Holding(requests')) + overwritten'
    BY <1>0, <1>2, <1>3, <2>1, <2>2
  <2> QED BY <2>3 DEF R!Owned, Holding
<1>6. \A p \in TlsRequests : Fits(server', requests'[p])
  BY <1>0, <1>1, <1>2
<1> QED BY <1>0, <1>4, <1>5, <1>6, SessionsRestated

LEMMA RequestFacts ==
  ASSUME Sensible, R!IInv, NEW r \in TlsRequests, NEW q, q = requests[r]
  PROVE  /\ q \in R!States /\ Fits(server, q)
         /\ q.cert \in Nat \cup {null} /\ q.peer \in Nat \cup {null}
         /\ q.offered # null => q.offered \in R!AllSessions /\ q.offered.cert \in Nat
         /\ q.status # "initialized" => q.hostName \in TlsHosts
         /\ \A h \in TlsHosts : server[h] \in Nat
         /\ clock \in Nat /\ cache \in [TlsHosts -> R!Entries \cup {null}]
         /\ \A h \in TlsHosts : CachedAs(server, h, cache[h])
         /\ overwritten \in Nat /\ certs \in Int /\ R!Size(cache) \in Nat
         /\ R!Copies(q.cert) \in Int
<1>1. R!TypeOK /\ (\A h \in TlsHosts : CachedAs(server, h, cache[h])) /\ Fits(server, q)
  BY SessionsRestated
<1>2. q \in R!States
  BY <1>1 DEF R!TypeOK
<1>3. /\ q.cert \in Nat \cup {null} /\ q.peer \in Nat \cup {null}
      /\ q.offered # null => q.offered \in R!AllSessions /\ q.offered.cert \in Nat
  BY <1>2 DEF R!States, R!AllSessions
<1>4. q.status # "initialized" => q.hostName \in TlsHosts
  BY <1>1 DEF Fits
<1> QED BY <1>1, <1>2, <1>3, <1>4, SizeType DEF R!TypeOK, R!Copies

\* A step that leaves the cache alone.
MovesAlone(r, q, more) ==
  /\ q \in R!States /\ Fits(server, q) /\ requests' = [requests EXCEPT ![r] = q]
  /\ UNCHANGED <<clock, server, cache>>
  /\ overwritten' = overwritten + more
  /\ certs' = certs + (R!Copies(q.cert) - R!Copies(requests[r].cert)) + more

LEMMA RequestMovesAlone ==
  ASSUME Sensible, R!IInv, NEW r \in TlsRequests, NEW q, NEW more \in Nat, MovesAlone(r, q, more)
  PROVE  R!IInv'
<1>1. /\ overwritten \in Nat /\ certs \in Int /\ R!Size(cache) \in Nat
      /\ cache \in [TlsHosts -> R!Entries \cup {null}]
      /\ \A h \in TlsHosts : CachedAs(server, h, cache[h])
      /\ R!Copies(requests[r].cert) \in Int
  BY RequestFacts
<1>2. R!Copies(q.cert) \in Int
  BY DEF R!Copies
<1>3. cache' = cache /\ R!Size(cache') = R!Size(cache)
  BY DEF MovesAlone
<1>4. certs' = certs + (R!Size(cache') - R!Size(cache))
              + (R!Copies(q.cert) - R!Copies(requests[r].cert)) + more
  BY <1>1, <1>2, <1>3 DEF MovesAlone
<1>5. Moves(r, q, more)
  BY <1>1, <1>3, <1>4 DEF Moves, MovesAlone
<1> QED BY <1>5, RequestMoves

LEMMA ResumeKeeps == ASSUME Sensible, R!IInv, NEW r \in TlsRequests, R!Resume(r) PROVE R!IInv'
<1> DEFINE q == requests[r]
           t == [q EXCEPT !.reused = TRUE, !.peer = q.offered.cert]
<1>1. /\ q \in R!States /\ Fits(server, q) /\ R!Shaking(q)
      /\ q.offered # null /\ q.offered \in R!AllSessions /\ q.offered.cert \in Nat
      /\ q.cert \in Nat \cup {null}
  BY RequestFacts DEF R!Resume
<1>2. t \in R!States
  BY <1>1 DEF R!States
<1>3. Fits(server, t)
  BY <1>1 DEF Fits, R!Shaking, R!States, Sensible
<1>4. requests' = [requests EXCEPT ![r] = t] /\ UNCHANGED <<clock, server, cache, certs, overwritten>>
  BY DEF R!Resume, R!Becomes
<1>5. t.cert = q.cert
  BY <1>1 DEF R!States
<1>6. certs' = certs + (R!Copies(t.cert) - R!Copies(requests[r].cert)) + 0 /\ overwritten' = overwritten + 0
  BY <1>4, <1>5, RequestFacts
<1> HIDE DEF t
<1>7. MovesAlone(r, t, 0)
  BY <1>2, <1>3, <1>4, <1>6 DEF MovesAlone
<1> QED BY <1>7, RequestMovesAlone

LEMMA HandshakeKeeps == ASSUME Sensible, R!IInv, NEW r \in TlsRequests, R!Handshake(r) PROVE R!IInv'
<1> DEFINE q == requests[r]
           peer == server[q.hostName]
           t == [q EXCEPT !.peer = peer, !.cert = IF q.cert = null THEN peer ELSE q.cert]
<1>1. /\ q \in R!States /\ Fits(server, q) /\ R!Shaking(q) /\ q.hostName \in TlsHosts
      /\ q.cert \in Nat \cup {null} /\ peer \in Nat
      /\ q.offered # null => q.offered.cert \in Nat
      /\ certs \in Int /\ overwritten \in Nat
  BY RequestFacts DEF R!Handshake, R!Shaking
<1>2. t \in R!States
  BY <1>1 DEF R!States
<1>3. t.cert = (IF q.cert = null THEN peer ELSE q.cert) /\ t.peer = peer /\ t.status = "submitted"
      /\ t.hostName = q.hostName /\ t.offered = q.offered /\ t.reused = q.reused
      /\ t.certVerifyFailed = q.certVerifyFailed /\ t.clientCert = q.clientCert
  BY <1>1 DEF R!States, R!Shaking
<1>4. Fits(server, t)
  BY <1>1, <1>3 DEF Fits, R!Shaking, Sensible
<1>5. requests' = [requests EXCEPT ![r] = t] /\ UNCHANGED <<clock, server, cache, overwritten>>
      /\ certs' = certs + 1 - R!Copies(q.cert)
  BY DEF R!Handshake, R!Becomes
<1>6. R!Copies(t.cert) = 1 /\ R!Copies(q.cert) \in Int
  BY <1>1, <1>3 DEF R!Copies, Sensible
<1> HIDE DEF t
<1>7. certs' = certs + (R!Copies(t.cert) - R!Copies(requests[r].cert)) + 0 /\ overwritten' = overwritten + 0
  BY <1>1, <1>5, <1>6
<1>8. MovesAlone(r, t, 0)
  BY <1>2, <1>4, <1>5, <1>7 DEF MovesAlone
<1> QED BY <1>8, RequestMovesAlone

LEMMA RejectKeeps ==
  ASSUME Sensible, R!IInv, NEW r \in TlsRequests, R!certificateVerifyFailed_TlsRequest_(r) PROVE R!IInv'
<1> DEFINE q == requests[r]
           peer == server[q.hostName]
           t == [q EXCEPT !.peer = peer, !.cert = peer, !.certVerifyFailed = TRUE, !.status = "error"]
<1>1. /\ q \in R!States /\ Fits(server, q) /\ R!Shaking(q) /\ q.hostName \in TlsHosts /\ peer \in Nat
      /\ certs \in Int /\ overwritten \in Nat
  BY RequestFacts DEF R!certificateVerifyFailed_TlsRequest_, R!Shaking
<1>2. t \in R!States
  BY <1>1 DEF R!States
<1>3. /\ t.cert = peer /\ t.peer = peer /\ t.status = "error" /\ t.certVerifyFailed = TRUE
      /\ t.hostName = q.hostName /\ t.offered = q.offered /\ t.reused = q.reused
      /\ t.clientCert = q.clientCert
  BY <1>1 DEF R!States
<1>4. Fits(server, t)
  BY <1>1, <1>3 DEF Fits, R!Shaking, Sensible
<1>5. /\ requests' = [requests EXCEPT ![r] = t] /\ UNCHANGED <<clock, server, cache>>
      /\ certs' = certs + 1 /\ overwritten' = overwritten + R!Copies(q.cert)
  BY DEF R!certificateVerifyFailed_TlsRequest_, R!Becomes
<1>6. R!Copies(t.cert) = 1 /\ R!Copies(q.cert) \in Nat
  BY <1>1, <1>3 DEF R!Copies, Sensible
<1> DEFINE more == R!Copies(q.cert)
<1> HIDE DEF t
<1>7. /\ certs' = certs + (R!Copies(t.cert) - R!Copies(requests[r].cert)) + more
      /\ more \in Nat /\ overwritten' = overwritten + more
  BY <1>1, <1>5, <1>6
<1> HIDE DEF more
<1>8. MovesAlone(r, t, more)
  BY <1>2, <1>4, <1>5, <1>7 DEF MovesAlone
<1> QED BY <1>7, <1>8, RequestMovesAlone

LEMMA ReleaseKeeps == ASSUME Sensible, R!IInv, NEW r \in TlsRequests, R!deinit_TlsRequest(r) PROVE R!IInv'
<1>1. /\ requests' = [requests EXCEPT ![r] = R!New] /\ UNCHANGED <<clock, server, cache, overwritten>>
      /\ certs' = certs - R!Copies(requests[r].cert)
  BY DEF R!deinit_TlsRequest, R!Becomes
<1>2. R!New \in R!States /\ R!New.cert = null /\ R!New.status = "initialized"
  BY DEF R!New, R!States, R!Clients
<1>3. Fits(server, R!New) /\ R!Copies(R!New.cert) = 0
  BY <1>2 DEF Fits, R!Copies
<1>4. certs \in Int /\ overwritten \in Nat /\ R!Copies(requests[r].cert) \in Int
  BY RequestFacts
<1>5. certs' = certs + (R!Copies(R!New.cert) - R!Copies(requests[r].cert)) + 0 /\ overwritten' = overwritten + 0
  BY <1>1, <1>3, <1>4
<1>6. MovesAlone(r, R!New, 0)
  BY <1>1, <1>2, <1>3, <1>5 DEF MovesAlone
<1> QED BY <1>6, RequestMovesAlone

LEMMA UnexpiredFacts ==
  ASSUME Sensible, R!IInv
  PROVE  /\ R!Unexpired \in [TlsHosts -> R!Entries \cup {null}]
         /\ \A h \in TlsHosts : R!Unexpired[h] = null \/ R!Unexpired[h] = cache[h]
         /\ \A h \in TlsHosts : CachedAs(server, h, R!Unexpired[h])
<1>1. cache \in [TlsHosts -> R!Entries \cup {null}] /\ \A h \in TlsHosts : CachedAs(server, h, cache[h])
  BY SessionsRestated DEF R!TypeOK
<1>2. \A h \in TlsHosts : R!Unexpired[h] = null \/ R!Unexpired[h] = cache[h]
  BY DEF R!Unexpired
<1>3. R!Unexpired \in [TlsHosts -> R!Entries \cup {null}]
  BY <1>1 DEF R!Unexpired
<1> QED BY <1>1, <1>2, <1>3 DEF CachedAs

LEMMA SubmitKeeps ==
  ASSUME Sensible, R!IInv, NEW r \in TlsRequests, NEW h \in TlsHosts, NEW enabled \in BOOLEAN,
         R!submit_TlsRequest(r, h, enabled)
  PROVE  R!IInv'
<1> DEFINE q == [R!New EXCEPT !.status = "submitted", !.hostName = h, !.clientCert = ClientOf[r]]
<1>1. requests[r].status = "initialized" /\ Fits(server, requests[r])
  BY RequestFacts DEF R!submit_TlsRequest
<1>2. requests[r] = R!New /\ R!Copies(requests[r].cert) = 0
  BY <1>1 DEF Fits, R!New, R!Copies
<1>3. /\ q \in R!States /\ q.status = "submitted" /\ q.hostName = h /\ q.clientCert = ClientOf[r]
      /\ q.cert = null /\ q.peer = null /\ q.offered = null /\ q.reused = FALSE
      /\ q.certVerifyFailed = FALSE
  BY DEF R!New, R!States, R!Clients
<1>4. certs \in Int /\ overwritten \in Nat /\ R!Size(cache) \in Nat /\ \A g \in TlsHosts : server[g] \in Nat
  BY RequestFacts
<1>5. UNCHANGED <<clock, server, overwritten>>
  BY DEF R!submit_TlsRequest
<1> HIDE DEF q
<1>6. CASE ~enabled
  <2>1. requests' = [requests EXCEPT ![r] = q] /\ UNCHANGED <<cache, certs>>
    BY <1>6 DEF R!submit_TlsRequest, R!Becomes, q
  <2>2. Fits(server, q) /\ R!Copies(q.cert) = 0
    BY <1>3 DEF Fits, R!Copies
  <2>3. certs' = certs + (R!Copies(q.cert) - R!Copies(requests[r].cert)) + 0 /\ overwritten' = overwritten + 0
    BY <1>2, <1>4, <1>5, <2>1, <2>2
  <2>4. MovesAlone(r, q, 0)
    BY <1>3, <1>5, <2>1, <2>2, <2>3 DEF MovesAlone
  <2> QED BY <2>4, RequestMovesAlone
<1>7. CASE enabled
  <2>1. R!maybeReuseSession_Context_(r, q)
    BY <1>7 DEF R!submit_TlsRequest, q
  <2>2. /\ cache' = R!Unexpired /\ cache' \in [TlsHosts -> R!Entries \cup {null}]
        /\ \A g \in TlsHosts : CachedAs(server, g, cache'[g])
        /\ R!Size(cache') \in Nat
    BY <2>1, UnexpiredFacts, SizeType DEF R!maybeReuseSession_Context_
  <2>3. CASE ~R!Reusable(h, ClientOf[r])
    <3>1. /\ requests' = [requests EXCEPT ![r] = q]
          /\ certs' = certs - (R!Size(cache) - R!Size(cache')) + 0
      BY <1>3, <2>1, <2>2, <2>3 DEF R!maybeReuseSession_Context_, R!Becomes
    <3>2. Fits(server, q) /\ R!Copies(q.cert) = 0
      BY <1>3 DEF Fits, R!Copies
    <3>3. /\ overwritten' = overwritten + 0 /\ overwritten' \in Nat
          /\ certs' = certs + (R!Size(cache') - R!Size(cache))
                      + (R!Copies(q.cert) - R!Copies(requests[r].cert)) + 0
      BY <1>2, <1>4, <1>5, <2>2, <3>1, <3>2
    <3>4. Moves(r, q, 0)
      BY <1>3, <1>5, <2>2, <3>1, <3>2, <3>3 DEF Moves
    <3> QED BY <3>4, RequestMoves
  <2>4. CASE R!Reusable(h, ClientOf[r])
    <3> DEFINE t == [q EXCEPT !.offered = cache[h].session, !.cert = cache[h].cert]
    <3>1. /\ requests' = [requests EXCEPT ![r] = t]
          /\ certs' = certs - (R!Size(cache) - R!Size(cache')) + 1
      BY <1>3, <2>1, <2>2, <2>4 DEF R!maybeReuseSession_Context_, R!Becomes
    <3>2. cache[h] \in R!Entries /\ CachedAs(server, h, cache[h]) /\ cache[h].clientHash = ClientOf[r]
          /\ cache[h] # null
      BY <2>4, UnexpiredFacts, RequestFacts DEF R!Reusable
    <3>3. cache[h].session \in R!AllSessions /\ cache[h].cert \in Nat /\ cache[h].session.cert \in Nat
      BY <3>2 DEF R!Entries, R!AllSessions
    <3>4. t \in R!States
      BY <1>3, <3>3 DEF R!States
    <3>5. /\ t.status = "submitted" /\ t.hostName = h /\ t.clientCert = ClientOf[r]
          /\ t.cert = cache[h].cert /\ t.peer = null /\ t.offered = cache[h].session
          /\ t.reused = FALSE /\ t.certVerifyFailed = FALSE
      BY <1>3 DEF R!States
    <3>6. Fits(server, t)
      BY <3>2, <3>3, <3>5 DEF Fits, CachedAs, Sensible
    <3>7. R!Copies(t.cert) = 1
      BY <3>3, <3>5 DEF R!Copies, Sensible
    <3> HIDE DEF t
    <3>8. /\ overwritten' = overwritten + 0 /\ overwritten' \in Nat
          /\ certs' = certs + (R!Size(cache') - R!Size(cache))
                      + (R!Copies(t.cert) - R!Copies(requests[r].cert)) + 0
      BY <1>2, <1>4, <1>5, <2>2, <3>1, <3>7
    <3>9. Moves(r, t, 0)
      BY <1>5, <2>2, <3>1, <3>4, <3>6, <3>8 DEF Moves
    <3> QED BY <3>9, RequestMoves
  <2> QED BY <2>3, <2>4
<1> QED BY <1>6, <1>7

LEMMA FinishKeeps == ASSUME Sensible, R!IInv, NEW r \in TlsRequests, R!Finish(r) PROVE R!IInv'
<1> DEFINE q == requests[r]
<1>1. /\ q \in R!States /\ Fits(server, q) /\ q.status \in {"submitted", "error"}
      /\ q.hostName \in TlsHosts /\ q.cert \in Nat \cup {null} /\ q.peer \in Nat \cup {null}
      /\ q.offered # null => q.offered \in R!AllSessions /\ q.offered.cert \in Nat
      /\ certs \in Int /\ overwritten \in Nat /\ R!Size(cache) \in Nat /\ clock \in Nat
      /\ R!Copies(q.cert) \in Int
  BY RequestFacts DEF R!Finish
<1>2. UNCHANGED <<clock, server, overwritten>>
  BY DEF R!Finish
<1>3. ASSUME NEW st \in {"failed", "finished"}, NEW t, t = [q EXCEPT !.status = st]
      PROVE  t \in R!States /\ Fits(server, t) /\ t.cert = q.cert
  <2>1. t \in R!States
    BY <1>1, <1>3 DEF R!States
  <2>2. /\ t.cert = q.cert /\ t.peer = q.peer /\ t.status = st /\ t.certVerifyFailed = q.certVerifyFailed
        /\ t.hostName = q.hostName /\ t.offered = q.offered /\ t.reused = q.reused
        /\ t.clientCert = q.clientCert
    BY <1>1, <1>3 DEF R!States
  <2>3. Fits(server, t)
    BY <1>1, <2>2 DEF Fits
  <2> QED BY <2>1, <2>2, <2>3
<1>4. ASSUME NEW st \in {"failed", "finished"}, R!Becomes(r, [q EXCEPT !.status = st]),
             UNCHANGED <<cache, certs>>
      PROVE  R!IInv'
  <2> DEFINE t == [q EXCEPT !.status = st]
  <2>1. t \in R!States /\ Fits(server, t) /\ t.cert = q.cert
    BY <1>3
  <2>2. requests' = [requests EXCEPT ![r] = t]
    BY <1>4 DEF R!Becomes
  <2>3. certs' = certs + (R!Copies(t.cert) - R!Copies(requests[r].cert)) + 0 /\ overwritten' = overwritten + 0
    BY <1>1, <1>2, <1>4, <2>1
  <2> HIDE DEF t
  <2>4. MovesAlone(r, t, 0)
    BY <1>2, <1>4, <2>1, <2>2, <2>3 DEF MovesAlone
  <2> QED BY <2>4, RequestMovesAlone
<1>5. ASSUME R!Becomes(r, [q EXCEPT !.status = "finished"]), ~q.reused, R!SessionOf(q) # null,
             q.cert # null, R!saveSession_Context_(q)
      PROVE  R!IInv'
  <2> DEFINE t == [q EXCEPT !.status = "finished"]
             h == q.hostName
             e == [session |-> R!SessionOf(q), cert |-> q.cert, timestamp |-> clock,
                   clientHash |-> q.clientCert]
  <2>1. t \in R!States /\ Fits(server, t) /\ t.cert = q.cert
    BY <1>3
  <2>2. requests' = [requests EXCEPT ![r] = t]
    BY <1>5 DEF R!Becomes
  <2>3. /\ R!SessionOf(q) \in R!AllSessions /\ R!SessionOf(q).client = q.clientCert
        /\ q.cert <= R!SessionOf(q).cert /\ R!SessionOf(q).cert <= server[h]
    <3>1. CASE q.peer = null
      BY <1>1, <1>5, <3>1 DEF R!SessionOf, Fits
    <3>2. CASE q.peer # null
      <4>1. R!SessionOf(q) = [cert |-> q.peer, client |-> q.clientCert, resumable |-> ~q.certVerifyFailed]
        BY <3>2 DEF R!SessionOf
      <4>2. q.peer \in Nat /\ q.clientCert \in R!Clients /\ (~q.certVerifyFailed) \in BOOLEAN
        BY <1>1, <3>2 DEF R!States
      <4> QED BY <1>1, <3>2, <4>1, <4>2 DEF R!AllSessions, Fits
    <3> QED BY <3>1, <3>2
  <2>4. e \in R!Entries
    BY <1>1, <1>5, <2>3 DEF R!Entries, R!States
  <2>5. /\ cache' = [cache EXCEPT ![h] = e] /\ certs' = certs + 1 - R!Copies(cache[h])
        /\ h \in TlsHosts
    BY <1>1, <1>5 DEF R!saveSession_Context_
  <2>6. CachedAs(server, h, e)
    BY <2>3 DEF CachedAs
  <2> HIDE DEF e, t, h
  <2>7. /\ cache' \in [TlsHosts -> R!Entries \cup {null}] /\ cache \in [TlsHosts -> R!Entries \cup {null}]
        /\ e # null
        /\ \A g \in TlsHosts : g # h => cache'[g] = cache[g]
        /\ \A g \in TlsHosts : CachedAs(server, g, cache'[g])
    BY <2>4, <2>5, <2>6, RequestFacts DEF Sensible
  <2>8. R!Copies(cache[h]) \in Int /\ R!Size(cache') = R!Size(cache) - R!Copies(cache[h]) + 1
    <3>1. Stored(cache, cache', h, e)
      BY <2>5, <2>7 DEF Stored
    <3>2. R!Copies(cache[h]) \in Int
      BY DEF R!Copies
    <3>3. R!Size(cache') = R!Size(cache) - R!Copies(cache[h]) + 1
      BY <3>1, SizeMoves
    <3> QED BY <3>2, <3>3
  <2>9. /\ overwritten' = overwritten + 0 /\ overwritten' \in Nat
        /\ certs' = certs + (R!Size(cache') - R!Size(cache))
                    + (R!Copies(t.cert) - R!Copies(requests[r].cert)) + 0
    BY <1>1, <1>2, <2>1, <2>5, <2>8
  <2>10. Moves(r, t, 0)
    BY <1>2, <2>1, <2>2, <2>7, <2>9 DEF Moves
  <2> QED BY <2>10, RequestMoves
<1> QED BY <1>4, <1>5 DEF R!Finish

LEMMA SessionsInit == Sensible /\ R!Init => R!IInv
<1> SUFFICES ASSUME Sensible, R!Init PROVE R!IInv
  OBVIOUS
<1>1. R!New \in R!States /\ R!New.cert = null /\ R!New.status = "initialized"
  BY DEF R!New, R!States, R!Clients
<1>2. R!TypeOK
  BY <1>1 DEF R!Init, R!TypeOK
<1>3. Holding(requests) = {} /\ Filled(cache) = {}
  BY <1>1 DEF R!Init, Holding, Filled
<1>4. R!Cardinality({}) = 0
  BY FS_EmptySet DEF R!Cardinality, Cardinality
<1>5. R!Owned
  BY <1>3, <1>4 DEF R!Owned, R!Size, R!Init, Holding, Filled
<1>6. \A h \in TlsHosts : CachedAs(server, h, cache[h])
  BY DEF R!Init, CachedAs
<1>7. \A r \in TlsRequests : Fits(server, requests[r])
  BY <1>1 DEF R!Init, Fits
<1> QED BY <1>2, <1>5, <1>6, <1>7, SessionsRestated

LEMMA SessionsStep == Sensible /\ R!IInv /\ [R!Next]_(R!sessionVars) => R!IInv'
<1> SUFFICES ASSUME Sensible, R!IInv, [R!Next]_(R!sessionVars) PROVE R!IInv'
  OBVIOUS
<1>i. /\ R!TypeOK /\ R!Owned /\ \A h \in TlsHosts : CachedAs(server, h, cache[h])
      /\ \A r \in TlsRequests : Fits(server, requests[r])
  BY SessionsRestated
<1>1. CASE R!Tick
  <2>1. clock' \in Nat /\ UNCHANGED <<server, cache, requests, certs, overwritten>>
    BY <1>1, <1>i DEF R!Tick, R!TypeOK
  <2> QED BY <1>i, <2>1, SessionsRestated DEF R!TypeOK, R!Owned, R!Size
<1>2. ASSUME NEW h \in TlsHosts, R!Renew(h) PROVE R!IInv'
  <2>1. /\ server' \in [TlsHosts -> Nat] /\ UNCHANGED <<clock, cache, requests, certs, overwritten>>
        /\ \A g \in TlsHosts : server[g] \in Nat /\ server'[g] \in Nat /\ server[g] <= server'[g]
    BY <1>2, <1>i DEF R!Renew, R!TypeOK
  <2>2. ASSUME NEW g \in TlsHosts PROVE CachedAs(server', g, cache'[g])
    <3>1. cache[g] # null => cache[g].session.cert \in Nat
      BY <1>i DEF R!TypeOK, R!Entries, R!AllSessions
    <3>2. CachedAs(server, g, cache[g])
      BY <1>i
    <3> QED BY <2>1, <3>1, <3>2 DEF CachedAs
  <2>3. ASSUME NEW r \in TlsRequests PROVE Fits(server', requests'[r])
    <3> DEFINE q == requests[r]
    <3>1. /\ Fits(server, q) /\ q.peer \in Nat \cup {null}
          /\ q.offered # null => q.offered.cert \in Nat
      BY RequestFacts
    <3> HIDE DEF q
    <3>2. Fits(server', q)
      BY <2>1, <3>1 DEF Fits
    <3> QED BY <2>1, <3>2 DEF q
  <2>4. R!TypeOK' /\ R!Owned'
    BY <1>i, <2>1 DEF R!TypeOK, R!Owned, R!Size
  <2> QED BY <2>2, <2>3, <2>4, SessionsRestated
<1>3. CASE UNCHANGED R!sessionVars
  BY <1>3, <1>i, SessionsRestated DEF R!sessionVars, R!TypeOK, R!Owned, R!Size
<1> QED BY <1>1, <1>2, <1>3, ResumeKeeps, HandshakeKeeps, RejectKeeps, FinishKeeps, ReleaseKeeps,
           SubmitKeeps DEF R!Next

LEMMA SessionsSafe ==
  ASSUME R!IInv
  PROVE  R!SessionsAreTheirs
<1>1. R!Owned /\ \A r \in TlsRequests : Fits(server, requests[r])
  BY SessionsRestated
<1> QED BY <1>1 DEF R!SessionsAreTheirs, R!Owned, Fits, R!New

-----------------------------------------------------------------------------
(* The blocks that zlib writes.                                              *)

\* A working stream reads and writes natural numbers of bytes; one that is over
\* has none of its fields.
Streams == [process : {"deflate", "inflate"}, finish : BOOLEAN, availIn : Nat, nextOut : Nat,
            availOut : Nat]

Streaming == /\ wrote \in Seq(OutBytes) /\ out \in Seq(OutBytes \cup {0})
             /\ z \in Streams \cup [process : {"none", "done", "failed"}]

CInv == Streaming /\ Q!OutputIsWhole

LEMMA SameSequence ==
  ASSUME NEW V, NEW s \in Seq(V), NEW T, NEW t \in Seq(T), NEW n \in Nat, Len(s) = n, Len(t) = n,
         \A i \in 1..n : s[i] = t[i]
  PROVE  s = t
<1>1. s \in Seq(V \cup T) /\ t \in Seq(V \cup T)
  BY SeqMonotonic
<1> QED BY <1>1, SeqEqual

\* zlib is given r bytes of run to write at the end of what it wrote in s.
PutAt(s, at, run) == [i \in DOMAIN s |-> IF i - at \in DOMAIN run THEN run[i - at] ELSE s[i]]

LEMMA PutHolds ==
  ASSUME NEW s \in Seq(OutBytes \cup {0}), NEW w \in Seq(OutBytes), NEW run \in Seq(OutBytes),
         SubSeq(s, 1, Len(w)) = w, Len(w) + Len(run) <= Len(s)
  PROVE  /\ PutAt(s, Len(w), run) \in Seq(OutBytes \cup {0}) /\ Len(PutAt(s, Len(w), run)) = Len(s)
         /\ w \o run \in Seq(OutBytes) /\ Len(w \o run) = Len(w) + Len(run)
         /\ SubSeq(PutAt(s, Len(w), run), 1, Len(w \o run)) = w \o run
<1> DEFINE V == OutBytes \cup {0}
           n == Len(w)
           k == Len(run)
           l == Len(s)
           t == PutAt(s, n, run)
<1>1. n \in Nat /\ k \in Nat /\ l \in Nat /\ n + k <= l
  BY LenProperties
<1>2. /\ w \o run \in Seq(OutBytes) /\ Len(w \o run) = n + k
      /\ \A i \in 1..n + k : (w \o run)[i] = IF i <= n THEN w[i] ELSE run[i - n]
  BY ConcatProperties
<1>3. /\ DOMAIN s = 1..l /\ DOMAIN run = 1..k
      /\ (\A i \in 1..l : s[i] \in V) /\ \A i \in 1..k : run[i] \in V
  BY LenProperties, ElementOfSeq
<1>4. \A i \in 1..n : s[i] = w[i]
  <2>1. n \in 0..Len(s)
    BY <1>1
  <2>2. \A i \in 1..n : SubSeq(s, 1, n)[i] = s[i]
    BY <2>1, FirstPart
  <2> QED BY <2>2
<1> HIDE DEF n, k, l, V
<1>5. t = [i \in 1..l |-> IF i - n \in 1..k THEN run[i - n] ELSE s[i]]
  BY <1>3 DEF PutAt
<1>6. t \in Seq(V) /\ Len(t) = l
  <2>1. t \in [1..l -> V]
    BY <1>3, <1>5
  <2> QED BY <1>1, <2>1
<1>7. \A i \in 1..n + k : t[i] = (w \o run)[i]
  <2> TAKE i \in 1..n + k
  <2>1. i \in 1..l
    BY <1>1
  <2>2. CASE i <= n
    <3>1. i - n \notin 1..k /\ i \in 1..n
      BY <1>1, <2>2
    <3> QED BY <1>2, <1>4, <1>5, <2>1, <2>2, <3>1
  <2>3. CASE ~(i <= n)
    <3>1. i - n \in 1..k
      BY <1>1, <2>3
    <3> QED BY <1>2, <1>5, <2>1, <2>3, <3>1
  <2> QED BY <2>2, <2>3
<1>8. SubSeq(t, 1, n + k) = w \o run
  <2>1. n + k \in 0..Len(t) /\ n + k \in Nat
    BY <1>1, <1>6
  <2> HIDE DEF t
  <2>2. /\ SubSeq(t, 1, n + k) \in Seq(V) /\ Len(SubSeq(t, 1, n + k)) = n + k
        /\ \A i \in 1..n + k : SubSeq(t, 1, n + k)[i] = t[i]
    BY <1>6, <2>1, FirstPart
  <2>3. \A i \in 1..n + k : SubSeq(t, 1, n + k)[i] = (w \o run)[i]
    BY <1>7, <2>2
  <2> QED BY <1>2, <2>1, <2>2, <2>3, SameSequence
<1> QED BY <1>1, <1>2, <1>6, <1>8 DEF n, k, l, V

\* A block of twice the size begins with what it was.
LEMMA ResizedHolds ==
  ASSUME NEW s \in Seq(OutBytes \cup {0})
  PROVE  /\ Q!resize_Block(s, 2 * Len(s)) \in Seq(OutBytes \cup {0})
         /\ Len(Q!resize_Block(s, 2 * Len(s))) = 2 * Len(s)
         /\ SubSeq(Q!resize_Block(s, 2 * Len(s)), 1, Len(s)) = s
<1> DEFINE V == OutBytes \cup {0}
           l == Len(s)
           t == Q!resize_Block(s, 2 * l)
<1>1. l \in Nat /\ DOMAIN s = 1..l /\ \A i \in 1..l : s[i] \in V
  BY LenProperties, ElementOfSeq
<1>2. s \in Seq(V) /\ Len(s) = l
  OBVIOUS
<1> HIDE DEF l
<1>3. t = [i \in 1..(2 * l) |-> IF i \in 1..l THEN s[i] ELSE 0]
  BY <1>1 DEF Q!resize_Block
<1>4. t \in Seq(V) /\ Len(t) = 2 * l
  <2>1. 2 * l \in Nat
    BY <1>1
  <2>2. t \in [1..(2 * l) -> V]
    BY <1>1, <1>3
  <2> QED BY <2>1, <2>2
<1> HIDE DEF V
<1>5. SubSeq(t, 1, l) = s
  <2>1. l \in 0..Len(t)
    BY <1>1, <1>4
  <2>2. \A i \in 1..l : t[i] = s[i]
    BY <1>1, <1>3
  <2> HIDE DEF t
  <2>3. /\ SubSeq(t, 1, l) \in Seq(V) /\ Len(SubSeq(t, 1, l)) = l
        /\ \A i \in 1..l : SubSeq(t, 1, l)[i] = t[i]
    BY <1>4, <2>1, FirstPart
  <2> QED BY <1>1, <1>2, <2>2, <2>3, SameSequence
<1> QED BY <1>4, <1>5 DEF l, V

LEMMA StreamInit == ASSUME Q!Init PROVE CInv
<1>1. wrote = <<>> /\ out = <<>> /\ z = [process |-> "none"]
  BY DEF Q!Init
<1>2. wrote \in Seq(OutBytes) /\ out \in Seq(OutBytes \cup {0})
  BY <1>1, EmptySeq
<1> QED BY <1>1, <1>2 DEF CInv, Streaming, Q!OutputIsWhole, Q!Running

LEMMA StreamBegins == ASSUME CInv, Q!init_ZStream_ PROVE CInv'
<1>1. PICK process \in {"deflate", "inflate"}, n \in 0..MaxIn :
        /\ wrote' = <<>> /\ out' = Q!new_Block(Room)
        /\ z' = [process |-> process, finish |-> FALSE, availIn |-> n, nextOut |-> 0, availOut |-> Room]
  BY DEF Q!init_ZStream_
<1>2. Room \in Nat \ {0} /\ n \in Nat
  BY DataAssumption
<1>3. wrote' \in Seq(OutBytes) /\ Len(wrote') = 0
  BY <1>1, EmptySeq
<1>4. out' \in Seq(OutBytes \cup {0}) /\ Len(out') = Room
  <2>1. out' \in [1..Room -> OutBytes \cup {0}]
    BY <1>1 DEF Q!new_Block
  <2> QED BY <1>2, <2>1
<1>5. SubSeq(out', 1, 0) = <<>>
  BY SubSeqEmpty
<1>6. z' \in Streams
  BY <1>1, <1>2 DEF Streams
<1> QED BY <1>1, <1>2, <1>3, <1>4, <1>5, <1>6 DEF CInv, Streaming, Q!OutputIsWhole, Q!Running,
           Q!truncate_Block

LEMMA StreamGoesOn == ASSUME CInv, Q!process_ZStream_ PROVE CInv'
<1> DEFINE V == OutBytes \cup {0}
<1>1. PICK rc \in {"Z_OK", "Z_BUF_ERROR", "Z_DATA_ERROR", "Z_STREAM_END"}, read \in 0..z.availIn,
           run \in {s \in Q!Data(MaxOut - Len(wrote)) : Len(s) <= z.availOut} :
        LET put == [i \in DOMAIN out |-> IF i - z.nextOut \in DOMAIN run THEN run[i - z.nextOut]
                                         ELSE out[i]]
            d == [z EXCEPT !.availIn = @ - read, !.nextOut = @ + Len(run), !.availOut = @ - Len(run)]
            grown == Q!Grown(d, put)
        IN  /\ Q!MayReturn(rc, read, run) /\ wrote' = wrote \o run
            /\ CASE rc = "Z_STREAM_END" -> /\ z' = [process |-> "done"]
                                           /\ out' = Q!truncate_Block(put, Len(put) - d.availOut)
                 [] rc = "Z_DATA_ERROR" -> z' = [process |-> "failed"] /\ out' = <<>>
                 [] OTHER -> /\ z' = [grown[1] EXCEPT !.finish = @ \/ d.availIn = 0]
                             /\ out' = grown[2]
  BY DEF Q!process_ZStream_
<1> DEFINE n == Len(wrote)
           k == Len(run)
           l == Len(out)
           put == PutAt(out, z.nextOut, run)
           d == [z EXCEPT !.availIn = @ - read, !.nextOut = @ + k, !.availOut = @ - k]
<1>2. /\ z \in Streams /\ wrote \in Seq(OutBytes) /\ out \in Seq(V)
      /\ SubSeq(out, 1, n) = wrote /\ z.nextOut = n /\ n + z.availOut = l /\ z.availOut > 0
  <2>1. Q!Running
    BY DEF Q!process_ZStream_
  <2>2. z \in Streams
    BY <2>1 DEF CInv, Streaming, Q!Running
  <2> QED BY <2>1, <2>2 DEF CInv, Streaming, Q!OutputIsWhole, Q!truncate_Block
<1>3. /\ z.availIn \in Nat /\ z.availOut \in Nat /\ n \in Nat /\ l \in Nat
      /\ z.process \in {"deflate", "inflate"} /\ z.finish \in BOOLEAN
  BY <1>2, LenProperties DEF Streams
<1>4. run \in Seq(OutBytes) /\ k \in Nat /\ k <= z.availOut
  <2>1. PICK m \in 0..(MaxOut - n) : run \in [1..m -> OutBytes]
    BY DEF Q!Data
  <2>2. m \in Nat
    BY <1>3, DataAssumption
  <2>3. run \in Seq(OutBytes)
    BY <2>1, <2>2
  <2> QED BY <2>3, LenProperties
<1>5. /\ put \in Seq(V) /\ Len(put) = l /\ wrote' \in Seq(OutBytes) /\ Len(wrote') = n + k
      /\ SubSeq(put, 1, n + k) = wrote' /\ wrote' = wrote \o run
  <2>1. wrote' = wrote \o run
    BY <1>1
  <2>2. Len(wrote) + Len(run) <= Len(out)
    BY <1>2, <1>3, <1>4
  <2>3. put = PutAt(out, Len(wrote), run)
    BY <1>2
  <2> HIDE DEF put
  <2>4. out \in Seq(V) /\ wrote \in Seq(OutBytes) /\ run \in Seq(OutBytes) /\ SubSeq(out, 1, Len(wrote)) = wrote
    BY <1>2, <1>4
  <2>5. /\ PutAt(out, Len(wrote), run) \in Seq(V) /\ Len(PutAt(out, Len(wrote), run)) = Len(out)
        /\ wrote \o run \in Seq(OutBytes) /\ Len(wrote \o run) = Len(wrote) + Len(run)
        /\ SubSeq(PutAt(out, Len(wrote), run), 1, Len(wrote \o run)) = wrote \o run
    BY ONLY <2>2, <2>4, PutHolds
  <2> QED BY <2>1, <2>3, <2>5
<1> HIDE DEF n, k, l
<1>6. /\ d \in Streams /\ d.availIn \in Nat /\ d.nextOut = n + k /\ d.availOut = z.availOut - k
      /\ d.availOut \in Nat /\ d.nextOut + d.availOut = l /\ d.process = z.process
  <2>1. z.availIn - read \in Nat /\ n + k \in Nat /\ z.availOut - k \in Nat /\ n + k + (z.availOut - k) = l
    <3>1. z.availIn - read \in Nat
      BY <1>3
    <3>2. /\ z.availOut \in Nat /\ n \in Nat /\ k \in Nat /\ l \in Nat /\ k <= z.availOut
          /\ n + z.availOut = l
      BY <1>2, <1>3, <1>4
    <3>3. n + k \in Nat /\ z.availOut - k \in Nat /\ n + k + (z.availOut - k) = l
      BY ONLY <3>2
    <3> QED BY <3>1, <3>3
  <2>2. d = [z EXCEPT !.availIn = z.availIn - read, !.nextOut = n + k, !.availOut = z.availOut - k]
    BY <1>2
  <2>3. d \in Streams
    BY <1>2, <2>1, <2>2 DEF Streams
  <2>4. /\ d.availIn = z.availIn - read /\ d.nextOut = n + k /\ d.availOut = z.availOut - k
        /\ d.process = z.process
    BY <1>2, <2>2 DEF Streams
  <2> QED BY <2>1, <2>3, <2>4
<1>c. CASE rc = "Z_STREAM_END"
  <2>1. z' = [process |-> "done"] /\ out' = Q!truncate_Block(put, Len(put) - d.availOut)
    BY <1>1, <1>c DEF PutAt, k
  <2> HIDE DEF put, d
  <2>2. Len(put) - d.availOut = n + k
    BY <1>2, <1>3, <1>4, <1>5, <1>6
  <2>3. out' = wrote'
    BY <1>5, <2>1, <2>2 DEF Q!truncate_Block
  <2>4. out' \in Seq(V)
    BY <1>5, <2>3, SeqMonotonic
  <2> QED BY <1>5, <2>1, <2>3, <2>4 DEF CInv, Streaming, Q!OutputIsWhole, Q!Running
<1>d. CASE rc = "Z_DATA_ERROR"
  <2>1. z' = [process |-> "failed"] /\ out' = <<>>
    BY <1>1, <1>d
  <2>2. out' \in Seq(V)
    BY <2>1, EmptySeq
  <2> QED BY <1>5, <2>1, <2>2 DEF CInv, Streaming, Q!OutputIsWhole, Q!Running
<1>e. CASE rc \notin {"Z_STREAM_END", "Z_DATA_ERROR"}
  <2>1. /\ z' = [Q!Grown(d, put)[1] EXCEPT !.finish = @ \/ d.availIn = 0]
        /\ out' = Q!Grown(d, put)[2]
    BY <1>1, <1>e DEF PutAt, k
  <2> HIDE DEF put, d
  <2>2. ASSUME NEW c \in Streams, NEW b \in BOOLEAN, z' = [c EXCEPT !.finish = b]
        PROVE  z' \in Streams /\ z'.nextOut = c.nextOut /\ z'.availOut = c.availOut
    BY <2>2 DEF Streams
  <2>3. ASSUME NEW c \in Streams, z' = [c EXCEPT !.finish = @ \/ d.availIn = 0], out' \in Seq(V),
               SubSeq(out', 1, n + k) = wrote', c.nextOut = n + k, n + k + c.availOut = Len(out'),
               c.availOut > 0
        PROVE  CInv'
    <3>1. (c.finish \/ d.availIn = 0) \in BOOLEAN
      OBVIOUS
    <3>2. z' \in Streams /\ z'.nextOut = c.nextOut /\ z'.availOut = c.availOut
      BY <2>2, <2>3, <3>1
    <3>3. z'.process \notin {"done", "failed"}
      BY <3>2 DEF Streams
    <3> QED BY <1>5, <2>3, <3>2, <3>3 DEF CInv, Streaming, Q!OutputIsWhole, Q!Running, Q!truncate_Block
  <2>4. CASE d.availOut > 0
    <3>1. Q!Grown(d, put)[1] = d /\ Q!Grown(d, put)[2] = put
      BY <2>4 DEF Q!Grown
    <3>2. n + k + d.availOut = Len(put)
      BY <1>3, <1>4, <1>5, <1>6
    <3> QED BY <1>5, <1>6, <2>1, <2>3, <2>4, <3>1, <3>2
  <2>5. CASE ~(d.availOut > 0)
    <3> DEFINE c == [d EXCEPT !.nextOut = Len(put), !.availOut = Len(put)]
               t == Q!resize_Block(put, 2 * Len(put))
    <3>1. Q!Grown(d, put)[1] = c /\ Q!Grown(d, put)[2] = t
      BY <2>5 DEF Q!Grown
    <3>2. l = n + k /\ l > 0
      BY <1>2, <1>3, <1>4, <1>6, <2>5
    <3>3. c \in Streams /\ c.nextOut = l /\ c.availOut = l
      BY <1>3, <1>5, <1>6 DEF Streams
    <3>4. t \in Seq(V) /\ Len(t) = 2 * l /\ SubSeq(t, 1, l) = put
      BY <1>5, ResizedHolds
    <3>5. SubSeq(put, 1, l) = put
      BY <1>5, SubSeqFull
    <3> HIDE DEF c, t, l
    <3>6. SubSeq(t, 1, n + k) = wrote'
      BY <1>5, <3>2, <3>4, <3>5
    <3>7. n + k + c.availOut = Len(t)
      BY <1>3, <3>2, <3>3, <3>4
    <3> QED BY <1>3, <2>1, <2>3, <3>1, <3>2, <3>3, <3>4, <3>6, <3>7
  <2> QED BY <2>4, <2>5
<1> QED BY <1>c, <1>d, <1>e

LEMMA StreamStep == CInv /\ [Q!Next]_compressionVars => CInv'
<1>1. ASSUME CInv, UNCHANGED compressionVars PROVE CInv'
  BY <1>1 DEF CInv, Streaming, Q!OutputIsWhole, Q!Running, compressionVars
<1> QED BY <1>1, StreamBegins, StreamGoesOn DEF Q!Next

-----------------------------------------------------------------------------
(* Blocks. A memory m is Sound when the blocks in it have the values v.      *)

Cell == [refs : Nat, bytes : Seq(BlockBytes), alloc : Nat]
Places == {0} \cup B!Cells

Users(m, c) == {h \in Handles : m.handle[h] = c}
UsersOf(m, c) == B!Cardinality(Users(m, c))

Memory == [cell : [Places -> Cell], handle : [Handles -> Places \cup {B!Dead}]]

\* The static cell has a reference of its own.
Sound(m, v) ==
  /\ m \in Memory /\ v \in [Handles -> Seq(BlockBytes)]
  /\ \A h \in Handles : v[h] = IF m.handle[h] = B!Dead THEN <<>> ELSE m.cell[m.handle[h]].bytes
  /\ m.cell[0].bytes = <<>> /\ m.cell[0].refs = UsersOf(m, 0) + 1
  /\ \A c \in B!Cells : /\ m.cell[c].refs = UsersOf(m, c)
                        /\ Len(m.cell[c].bytes) < m.cell[c].alloc

LEMMA CellFacts == /\ 0 \notin B!Cells /\ B!Dead \notin Places /\ B!Cells \subseteq Places /\ 0 \in Places
                   /\ IsFiniteSet(B!Cells) /\ Cardinality(B!Cells) = Cardinality(Handles)
<1>1. B!Cardinality(Handles) = Cardinality(Handles)
  BY DEF B!Cardinality, Cardinality
<1>2. Cardinality(Handles) \in Nat
  BY FS_CardinalityType, DataAssumption
<1>3. B!Cells = 1..Cardinality(Handles) /\ B!Dead = Cardinality(Handles) + 1
  BY <1>1 DEF B!Cells, B!Dead
<1> DEFINE n == Cardinality(Handles)
<1>4. n \in Nat /\ B!Cells = 1..n /\ B!Dead = n + 1
  BY <1>2, <1>3
<1> HIDE DEF n
<1>5. IsFiniteSet(1..n) /\ Cardinality(1..n) = n
  BY <1>4, FS_Interval
<1>6. 0 \notin B!Cells /\ B!Dead \notin Places /\ B!Cells \subseteq Places /\ 0 \in Places
  BY <1>4 DEF Places
<1> QED BY <1>4, <1>5, <1>6 DEF n

LEMMA UsersFacts ==
  ASSUME NEW m, NEW c
  PROVE  /\ IsFiniteSet(Users(m, c)) /\ UsersOf(m, c) = Cardinality(Users(m, c)) /\ UsersOf(m, c) \in Nat
         /\ UsersOf(m, c) = 0 <=> Users(m, c) = {}
<1>1. IsFiniteSet(Users(m, c))
  BY FS_Subset, DataAssumption DEF Users
<1>2. UsersOf(m, c) = Cardinality(Users(m, c))
  BY DEF UsersOf, B!Cardinality, Cardinality
<1> QED BY <1>1, <1>2, FS_CardinalityType, FS_EmptySet

\* A handle that comes or goes changes the users of its cell, and of no other.
Rehoused(m, t, h, k) == /\ m.handle \in [Handles -> Places \cup {B!Dead}] /\ m.handle[h] # k
                        /\ t.handle = [m.handle EXCEPT ![h] = k]

LEMMA UsersChange ==
  ASSUME NEW m, NEW t, NEW h \in Handles, NEW k, Rehoused(m, t, h, k)
  PROVE  /\ UsersOf(t, k) = UsersOf(m, k) + 1
         /\ UsersOf(t, m.handle[h]) = UsersOf(m, m.handle[h]) - 1
         /\ \A c : c # k /\ c # m.handle[h] => UsersOf(t, c) = UsersOf(m, c)
<1>1. Users(t, k) = Users(m, k) \cup {h} /\ h \notin Users(m, k)
  BY DEF Users, Rehoused
<1>2. Users(t, m.handle[h]) = Users(m, m.handle[h]) \ {h} /\ h \in Users(m, m.handle[h])
  BY DEF Users, Rehoused
<1>3. \A c : c # k /\ c # m.handle[h] => Users(t, c) = Users(m, c)
  BY DEF Users, Rehoused
<1>4. UsersOf(t, k) = UsersOf(m, k) + 1
  BY <1>1, FS_AddElement, UsersFacts
<1>5. UsersOf(t, m.handle[h]) = UsersOf(m, m.handle[h]) - 1
  BY <1>2, FS_RemoveElement, UsersFacts
<1> QED BY <1>3, <1>4, <1>5 DEF UsersOf

LEMMA SoundFacts ==
  ASSUME NEW m, NEW v, Sound(m, v), NEW h \in Handles
  PROVE  /\ m.handle[h] \in Places \cup {B!Dead}
         /\ m.cell \in [Places -> Cell] /\ m.handle \in [Handles -> Places \cup {B!Dead}]
         /\ B!ValueOf(m, h) = v[h] /\ v[h] \in Seq(BlockBytes) /\ Len(v[h]) \in Nat
         /\ m.handle[h] # B!Dead =>
              /\ m.handle[h] \in Places /\ m.cell[m.handle[h]] \in Cell
              /\ m.cell[m.handle[h]].bytes = v[h] /\ m.cell[m.handle[h]].refs \in Nat \ {0}
              /\ ~(m.cell[m.handle[h]].refs > 1) => m.handle[h] \in B!Cells /\ m.cell[m.handle[h]].refs = 1
              /\ m.handle[h] \in B!Cells => Len(v[h]) < m.cell[m.handle[h]].alloc
<1>1. /\ m.cell \in [Places -> Cell] /\ m.handle \in [Handles -> Places \cup {B!Dead}]
      /\ v[h] \in Seq(BlockBytes)
  BY DEF Sound, Memory
<1>2. B!ValueOf(m, h) = v[h]
  BY DEF Sound, B!ValueOf, B!CellOf
<1>3. ASSUME m.handle[h] # B!Dead
      PROVE  /\ m.handle[h] \in Places /\ m.cell[m.handle[h]] \in Cell
             /\ m.cell[m.handle[h]].bytes = v[h] /\ m.cell[m.handle[h]].refs \in Nat \ {0}
             /\ ~(m.cell[m.handle[h]].refs > 1) => m.handle[h] \in B!Cells /\ m.cell[m.handle[h]].refs = 1
             /\ m.handle[h] \in B!Cells => Len(v[h]) < m.cell[m.handle[h]].alloc
  <2> DEFINE c == m.handle[h]
  <2>1. c \in Places /\ m.cell[c] \in Cell /\ m.cell[c].bytes = v[h] /\ m.cell[c].refs \in Nat
    BY <1>1, <1>3 DEF Sound, Cell
  <2>2. UsersOf(m, c) \in Nat \ {0}
    <3>1. h \in Users(m, c)
      BY DEF Users
    <3> QED BY <3>1, UsersFacts
  <2>3. c \in B!Cells => m.cell[c].refs = UsersOf(m, c) /\ Len(m.cell[c].bytes) < m.cell[c].alloc
    BY DEF Sound
  <2>4. c = 0 => m.cell[c].refs = UsersOf(m, c) + 1
    BY DEF Sound
  <2>5. c = 0 \/ c \in B!Cells
    BY <2>1 DEF Places
  <2> HIDE DEF c
  <2>6. m.cell[c].refs \in Nat \ {0} /\ (~(m.cell[c].refs > 1) => c \in B!Cells /\ m.cell[c].refs = 1)
    BY <2>1, <2>2, <2>3, <2>4, <2>5
  <2>7. c \in B!Cells => Len(v[h]) < m.cell[c].alloc
    BY <2>1, <2>3
  <2> QED BY <2>1, <2>6, <2>7 DEF c
<1>4. Len(v[h]) \in Nat
  BY <1>1, LenProperties
<1> QED BY <1>1, <1>2, <1>3, <1>4

\* The powers of two: each is more than its exponent, and twice the one before.
LEMMA PowersDouble == \A k \in Nat : 2^k \in Nat /\ k < 2^k /\ 2^(k + 1) = 2 * 2^k
<1> TAKE k \in Nat
<1> DEFINE S == SUBSET (1..k)
           T == SUBSET (1..k + 1)
           new == {s \cup {k + 1} : s \in S}
<1>1. IsFiniteSet(1..k) /\ Cardinality(1..k) = k /\ IsFiniteSet(1..k + 1) /\ Cardinality(1..k + 1) = k + 1
  BY FS_Interval
<1>2. IsFiniteSet(S) /\ Cardinality(S) = 2^k /\ IsFiniteSet(T) /\ Cardinality(T) = 2^(k + 1)
  BY <1>1, FS_SUBSET
<1>3. k < 2^k
  <2> DEFINE f == [i \in 1..k |-> {i}]
  <2>1. f \in Injection(1..k, S)
    BY DEF Injection, IsInjective
  <2>2. f \notin Surjection(1..k, S)
    <3>1. {} \in S /\ \A i \in 1..k : f[i] # {}
      OBVIOUS
    <3> QED BY <3>1 DEF Surjection
  <2> HIDE DEF f, S
  <2>3. Cardinality(1..k) <= Cardinality(S) /\ Cardinality(1..k) # Cardinality(S)
    BY <1>2, <2>1, <2>2, FS_Injection
  <2> QED BY <1>1, <1>2, <2>3, FS_CardinalityType
<1>4. T = S \cup new /\ S \cap new = {}
  <2>1. \A t \in T : t \in S \/ t \in new
    <3> SUFFICES ASSUME NEW t \in T, t \notin S PROVE t \in new
      OBVIOUS
    <3>1. k + 1 \in t /\ t \ {k + 1} \in S
      OBVIOUS
    <3>2. t = (t \ {k + 1}) \cup {k + 1}
      BY <3>1
    <3> QED BY <3>1, <3>2
  <2>2. S \subseteq T /\ new \subseteq T
    <3>1. \A i \in 1..k : i \in 1..k + 1
      OBVIOUS
    <3>2. k + 1 \in 1..k + 1
      OBVIOUS
    <3> QED BY <3>1, <3>2
  <2>3. \A s \in S : s \notin new
    OBVIOUS
  <2> QED BY <2>1, <2>2, <2>3
<1>5. ExistsBijection(S, new)
  <2> DEFINE f == [s \in S |-> s \cup {k + 1}]
  <2>1. \A s \in S : k + 1 \notin s
    OBVIOUS
  <2>2. \A a, b \in S : a \cup {k + 1} = b \cup {k + 1} => a = b
    <3> TAKE a, b \in S
    <3> HAVE a \cup {k + 1} = b \cup {k + 1}
    <3>1. \A e : e \in a <=> e \in b
      BY <2>1
    <3> QED BY <3>1
  <2>3. f \in [S -> new] /\ \A a, b \in S : f[a] = f[b] => a = b
    <3>1. \A s \in S : f[s] = s \cup {k + 1} /\ s \cup {k + 1} \in new
      OBVIOUS
    <3>2. f \in [S -> new]
      BY <3>1
    <3> HIDE DEF f
    <3> QED BY <2>2, <3>1, <3>2
  <2>4. f \in Injection(S, new)
    BY <2>3 DEF Injection, IsInjective
  <2>5. f \in Surjection(S, new)
    BY DEF Surjection
  <2> QED BY <2>4, <2>5 DEF ExistsBijection, Bijection
<1> HIDE DEF S, T, new
<1>6. IsFiniteSet(new) /\ Cardinality(new) = Cardinality(S)
  BY <1>2, <1>5, FS_Bijection
<1>7. Cardinality(T) = Cardinality(S) + Cardinality(S) - 0
  <2>1. Cardinality(S \cup new) = Cardinality(S) + Cardinality(new) - Cardinality(S \cap new)
    BY <1>2, <1>6, FS_Union
  <2> QED BY <1>4, <1>6, <2>1, FS_EmptySet
<1> QED BY <1>2, <1>3, <1>7, FS_CardinalityType

LEMMA AllocFacts ==
  ASSUME NEW n \in 0..MaxBlock
  PROVE  B!allocSize_(n) \in Nat /\ n < B!allocSize_(n)
<1> DEFINE size(k) == FirstAlloc * 2^k
           Good(s) == s > n /\ (s = FirstAlloc \/ s \div 2 <= n)
           Large == {k \in 0..MaxBlock : size(k) > n}
<1>1. FirstAlloc \in Nat \ {0} /\ MaxBlock \in Nat /\ n \in Nat /\ n <= MaxBlock
  BY DataAssumption
<1>2. \A a \in Nat \ {0}, b \in Nat : a * b \in Nat /\ b <= a * b /\ a * (2 * b) = 2 * (a * b)
  OBVIOUS
<1>3. \A k \in Nat : size(k) \in Nat /\ size(k + 1) = 2 * size(k) /\ k < size(k)
  <2> TAKE k \in Nat
  <2>1. 2^k \in Nat /\ k < 2^k /\ 2^(k + 1) = 2 * 2^k
    BY PowersDouble
  <2> QED BY <1>1, <1>2, <2>1
<1>4. 2^0 = 1
  <2>1. Cardinality(SUBSET {}) = 2^0
    BY FS_EmptySet, FS_SUBSET
  <2>2. SUBSET {} = {{}}
    OBVIOUS
  <2> QED BY <2>1, <2>2, FS_Singleton
<1>5. size(0) = FirstAlloc
  BY <1>1, <1>4
<1> HIDE DEF size
<1>6. n \in Large
  BY <1>1, <1>3
<1>7. Large \in SUBSET Nat
  BY <1>1
<1>8. PICK k \in Large : \A j \in Large : k <= j
  BY <1>6, <1>7, MinIsLeast
<1>9. Good(size(k))
  <2>1. CASE k = 0
    BY <1>5, <1>8, <2>1
  <2>2. CASE k # 0
    <3>1. k - 1 \in Nat /\ k - 1 \in 0..MaxBlock /\ k - 1 \notin Large /\ (k - 1) + 1 = k
      BY <1>1, <1>8, <2>2
    <3>2. ~(size(k - 1) > n) /\ size(k) = 2 * size(k - 1) /\ size(k - 1) \in Nat
      BY <1>3, <3>1
    <3> QED BY <1>1, <1>8, <3>2
  <2> QED BY <2>1, <2>2
<1>a. \E s \in {size(j) : j \in 0..MaxBlock} : Good(s)
  BY <1>8, <1>9
<1>b. B!allocSize_(n) = CHOOSE s \in {size(j) : j \in 0..MaxBlock} : Good(s)
  BY DEF B!allocSize_, size
<1> HIDE DEF Good
<1>c. B!allocSize_(n) \in {size(j) : j \in 0..MaxBlock} /\ Good(B!allocSize_(n))
  BY <1>a, <1>b
<1>d. B!allocSize_(n) \in Nat
  BY <1>3, <1>c
<1> QED BY <1>c, <1>d DEF Good

\* In t the cell c of m is x, and the block h has the cell k, which holds s.
Assigned(m, h, k, c, x, s, t) ==
  /\ h \in Handles /\ k \in Places \cup {B!Dead} /\ c \in Places /\ x \in Cell /\ s \in Seq(BlockBytes)
  /\ t \in Memory /\ t.cell[c] = x /\ (\A d \in Places \ {c} : t.cell[d] = m.cell[d])
  /\ t.handle = [m.handle EXCEPT ![h] = k]
  /\ s = IF k = B!Dead THEN <<>> ELSE t.cell[k].bytes
  /\ \A g \in Handles \ {h} : m.handle[g] = c => x.bytes = m.cell[c].bytes
  /\ c = 0 => x.bytes = <<>> /\ x.refs = UsersOf(t, c) + 1
  /\ c # 0 => x.refs = UsersOf(t, c) /\ Len(x.bytes) < x.alloc
  /\ \A d \in Places \ {c} : UsersOf(t, d) = UsersOf(m, d)

LEMMA AssignedIsSound ==
  ASSUME NEW m, NEW v, Sound(m, v), NEW h, NEW k, NEW c, NEW x, NEW s, NEW t, Assigned(m, h, k, c, x, s, t)
  PROVE  Sound(t, [v EXCEPT ![h] = s])
<1> DEFINE w == [v EXCEPT ![h] = s]
<1>1. m.cell \in [Places -> Cell] /\ m.handle \in [Handles -> Places \cup {B!Dead}]
      /\ v \in [Handles -> Seq(BlockBytes)]
  BY DEF Sound, Memory
<1>0. /\ h \in Handles /\ k \in Places \cup {B!Dead} /\ c \in Places /\ x \in Cell /\ s \in Seq(BlockBytes)
      /\ s = IF k = B!Dead THEN <<>> ELSE t.cell[k].bytes
      /\ \A g \in Handles \ {h} : m.handle[g] = c => x.bytes = m.cell[c].bytes
      /\ c = 0 => x.bytes = <<>> /\ x.refs = UsersOf(t, c) + 1
      /\ c # 0 => x.refs = UsersOf(t, c) /\ Len(x.bytes) < x.alloc
      /\ \A d \in Places \ {c} : UsersOf(t, d) = UsersOf(m, d)
  BY DEF Assigned
<1>2. t.handle = [m.handle EXCEPT ![h] = k]
  BY DEF Assigned
<1>3. t \in Memory
  BY DEF Assigned
<1>4. w \in [Handles -> Seq(BlockBytes)] /\ w[h] = s /\ \A g \in Handles \ {h} : w[g] = v[g]
  BY <1>0, <1>1
<1>5. t.cell[c] = x /\ \A d \in Places \ {c} : t.cell[d] = m.cell[d]
  BY DEF Assigned
<1>6. t.handle[h] = k /\ \A g \in Handles \ {h} : t.handle[g] = m.handle[g]
  BY <1>0, <1>1, <1>2
<1> HIDE DEF w
<1>7. ASSUME NEW g \in Handles
      PROVE  w[g] = IF t.handle[g] = B!Dead THEN <<>> ELSE t.cell[t.handle[g]].bytes
  <2>1. CASE g = h
    BY <1>0, <1>4, <1>6, <2>1
  <2>2. CASE g # h
    <3>1. v[g] = IF m.handle[g] = B!Dead THEN <<>> ELSE m.cell[m.handle[g]].bytes
      BY DEF Sound
    <3>2. m.handle[g] \in Places \cup {B!Dead}
      BY <1>0, <1>1
    <3>3. m.handle[g] # B!Dead => t.cell[m.handle[g]].bytes = m.cell[m.handle[g]].bytes
      BY <1>0, <1>5, <2>2, <3>2
    <3> QED BY <1>4, <1>6, <2>2, <3>1, <3>3
  <2> QED BY <2>1, <2>2
<1>8. t.cell[0].bytes = <<>> /\ t.cell[0].refs = UsersOf(t, 0) + 1
  BY <1>0, <1>5, CellFacts DEF Sound
<1>9. ASSUME NEW d \in B!Cells
      PROVE  t.cell[d].refs = UsersOf(t, d) /\ Len(t.cell[d].bytes) < t.cell[d].alloc
  BY <1>0, <1>5, CellFacts DEF Sound
<1>a. Sound(t, w)
  BY <1>3, <1>4, <1>7, <1>8, <1>9 DEF Sound
<1> QED BY <1>a DEF w

\* A dead block gets a cell, with what it holds already or anew.
LEMMA AddRefIsSound ==
  ASSUME NEW m, NEW v, Sound(m, v), NEW h \in Handles, m.handle[h] = B!Dead, NEW c \in Places
  PROVE  Sound(B!addRef(m, h, c), [v EXCEPT ![h] = m.cell[c].bytes])
<1> DEFINE y == m.cell[c]
           x == [y EXCEPT !.refs = @ + 1]
<1> SUFFICES ASSUME NEW t, t = B!addRef(m, h, c)
             PROVE  Sound(t, [v EXCEPT ![h] = y.bytes])
  OBVIOUS
<1>1. m.cell \in [Places -> Cell] /\ m.handle \in [Handles -> Places \cup {B!Dead}] /\ m \in Memory
  BY DEF Sound, Memory
<1>2. y \in Cell /\ y.refs \in Nat
      /\ y.bytes \in Seq(BlockBytes) /\ y.alloc \in Nat
  BY <1>1 DEF Cell
<1>3. x \in Cell /\ x.refs = y.refs + 1 /\ x.bytes = y.bytes /\ x.alloc = y.alloc
  BY <1>2 DEF Cell
<1>6. t.cell = [m.cell EXCEPT ![c] = x] /\ t.handle = [m.handle EXCEPT ![h] = c]
  BY <1>1 DEF B!addRef, Memory
<1>4. t \in Memory
  <2>1. t.cell \in [Places -> Cell] /\ t.handle \in [Handles -> Places \cup {B!Dead}]
    BY <1>1, <1>3, <1>6
  <2> HIDE DEF x
  <2> QED BY <1>1, <2>1 DEF B!addRef, Memory
<1>7. t.cell[c] = x /\ \A d \in Places \ {c} : t.cell[d] = m.cell[d]
  BY <1>1, <1>6
<1>8. c # B!Dead
  BY CellFacts
<1>9. UsersOf(t, c) = UsersOf(m, c) + 1 /\ \A d \in Places \ {c} : UsersOf(t, d) = UsersOf(m, d)
  <2>0. Rehoused(m, t, h, c)
    BY <1>1, <1>6, <1>8 DEF Rehoused
  <2>1. UsersOf(t, c) = UsersOf(m, c) + 1
    BY <2>0, UsersChange
  <2>2. ASSUME NEW d \in Places \ {c} PROVE UsersOf(t, d) = UsersOf(m, d)
    <3>1. d # m.handle[h]
      BY CellFacts
    <3> QED BY <2>0, <3>1, UsersChange
  <2> QED BY <2>1, <2>2
<1>a. c = 0 => y.bytes = <<>> /\ y.refs = UsersOf(m, c) + 1
  BY DEF Sound
<1>b. c # 0 => y.refs = UsersOf(m, c) /\ Len(y.bytes) < y.alloc
  BY DEF Sound, Places
<1>c. UsersOf(m, c) \in Nat
  BY UsersFacts
<1> HIDE DEF x, y
<1>d. c = 0 => x.bytes = <<>> /\ x.refs = UsersOf(t, c) + 1
  BY <1>2, <1>3, <1>9, <1>a, <1>c
<1>e. c # 0 => x.refs = UsersOf(t, c) /\ Len(x.bytes) < x.alloc
  BY <1>2, <1>3, <1>9, <1>b, <1>c
<1>f. \A g \in Handles \ {h} : m.handle[g] = c => x.bytes = m.cell[c].bytes
  BY <1>3 DEF y
<1>g. y.bytes = IF c = B!Dead THEN <<>> ELSE t.cell[c].bytes
  BY <1>3, <1>7, <1>8
<1>h. c \in Places \cup {B!Dead} /\ \A d \in Places \ {c} : UsersOf(t, d) = UsersOf(m, d)
  BY <1>9
<1>i. Assigned(m, h, c, c, x, y.bytes, t)
  BY <1>2, <1>3, <1>4, <1>6, <1>7, <1>d, <1>e, <1>f, <1>g, <1>h DEF Assigned
<1> QED BY <1>i, AssignedIsSound

\* There is a cell for every block: what a dead one needs is free.
LEMMA FreeFacts ==
  ASSUME NEW m, NEW v, Sound(m, v), NEW h \in Handles, m.handle[h] = B!Dead
  PROVE  B!Free(m) \in B!Cells /\ m.cell[B!Free(m)].refs = 0 /\ UsersOf(m, B!Free(m)) = 0
<1>1. SUFFICES \E c \in B!Cells : m.cell[c].refs = 0
  <2>1. B!Free(m) \in B!Cells /\ m.cell[B!Free(m)].refs = 0
    BY <1>1 DEF B!Free
  <2> QED BY <2>1 DEF Sound
<1>2. SUFFICES ASSUME \A c \in B!Cells : Users(m, c) # {} PROVE FALSE
  <2>1. ASSUME NEW c \in B!Cells, Users(m, c) = {} PROVE m.cell[c].refs = 0
    BY <2>1, UsersFacts DEF Sound
  <2> QED BY <1>2, <2>1
<1> DEFINE f == [c \in B!Cells |-> CHOOSE g \in Handles : m.handle[g] = c]
<1>3. \A c \in B!Cells : f[c] \in Handles /\ m.handle[f[c]] = c
  BY <1>2 DEF Users
<1>4. \A c \in B!Cells : f[c] # h
  BY <1>3, CellFacts
<1>5. f \in [B!Cells -> Handles \ {h}]
  BY <1>3, <1>4
<1>6. f \in Injection(B!Cells, Handles \ {h})
  <2> HIDE DEF f
  <2> QED BY <1>3, <1>5 DEF Injection, IsInjective
<1>7. IsFiniteSet(Handles) /\ IsFiniteSet(Handles \ {h}) /\ Cardinality(Handles \ {h}) = Cardinality(Handles) - 1
  BY DataAssumption, FS_RemoveElement
<1> HIDE DEF f
<1>8. Cardinality(B!Cells) <= Cardinality(Handles \ {h})
  BY <1>6, <1>7, FS_Injection
<1> QED BY <1>7, <1>8, CellFacts, FS_CardinalityType

\* A block lets go of its cell, which the last one frees.
LEMMA DerefIsSound ==
  ASSUME NEW m, NEW v, Sound(m, v), NEW h \in Handles, m.handle[h] # B!Dead,
         NEW t, t = B!deref_BlockData_(m, h)
  PROVE  /\ Sound(t, [v EXCEPT ![h] = <<>>]) /\ t.handle = [m.handle EXCEPT ![h] = B!Dead]
         /\ m.cell[m.handle[h]].refs > 1 =>
              t.cell[m.handle[h]].bytes = m.cell[m.handle[h]].bytes /\ t.cell[m.handle[h]].refs > 0
<1> DEFINE c == m.handle[h]
           y == m.cell[c]
           one == [m EXCEPT !.cell[c].refs = @ - 1, !.handle[h] = B!Dead]
           x == t.cell[c]
<1>1. m.cell \in [Places -> Cell] /\ m.handle \in [Handles -> Places \cup {B!Dead}] /\ m \in Memory
  BY DEF Sound, Memory
<1>2. c \in Places /\ y \in Cell /\ y.refs \in Nat \ {0} /\ y.bytes \in Seq(BlockBytes) /\ y.alloc \in Nat
  BY SoundFacts DEF Cell
<1>3. t = IF one.cell[c].refs = 0 THEN [one EXCEPT !.cell[c].bytes = <<>>, !.cell[c].alloc = 1] ELSE one
  BY DEF B!deref_BlockData_
<1>4. /\ one \in Memory /\ one.handle = [m.handle EXCEPT ![h] = B!Dead]
      /\ one.cell[c].refs = y.refs - 1 /\ one.cell[c].bytes = y.bytes /\ one.cell[c].alloc = y.alloc
      /\ \A d \in Places \ {c} : one.cell[d] = m.cell[d]
  <2> DEFINE w == [y EXCEPT !.refs = @ - 1]
  <2>1. one.cell = [m.cell EXCEPT ![c] = w] /\ one.handle = [m.handle EXCEPT ![h] = B!Dead]
    BY <1>1 DEF Memory
  <2>2. w \in Cell /\ w.refs = y.refs - 1 /\ w.bytes = y.bytes /\ w.alloc = y.alloc
    BY <1>2 DEF Cell
  <2> HIDE DEF w
  <2>3. one.cell \in [Places -> Cell] /\ one.handle \in [Handles -> Places \cup {B!Dead}]
    BY <1>1, <2>1, <2>2
  <2>4. one.cell[c] = w /\ \A d \in Places \ {c} : one.cell[d] = m.cell[d]
    BY <1>1, <1>2, <2>1
  <2>5. one \in Memory
    BY <1>1, <2>3 DEF Memory
  <2> QED BY <2>1, <2>2, <2>4, <2>5
<1> HIDE DEF one
<1>5. /\ t \in Memory /\ t.handle = [m.handle EXCEPT ![h] = B!Dead]
      /\ x \in Cell /\ x.refs = y.refs - 1
      /\ y.refs > 1 => x.bytes = y.bytes /\ x.alloc = y.alloc
      /\ y.refs = 1 => x.bytes = <<>> /\ x.alloc = 1
      /\ \A d \in Places \ {c} : t.cell[d] = m.cell[d]
  <2>1. CASE y.refs = 1
    <3> DEFINE e == one.cell[c]
               w == [[e EXCEPT !.bytes = <<>>] EXCEPT !.alloc = 1]
    <3>1. t = [one EXCEPT !.cell[c].bytes = <<>>, !.cell[c].alloc = 1]
      BY <1>2, <1>3, <1>4, <2>1
    <3>2. one.cell \in [Places -> Cell] /\ one.handle \in [Handles -> Places \cup {B!Dead}]
      BY <1>4 DEF Memory
    <3>3. e \in Cell
      BY <1>2, <3>2
    <3>4. <<>> \in Seq(BlockBytes)
      BY EmptySeq
    <3>5. w \in Cell /\ w.refs = e.refs /\ w.bytes = <<>> /\ w.alloc = 1
      BY <3>3, <3>4 DEF Cell
    <3> DEFINE mid == [one EXCEPT !.cell[c].bytes = <<>>]
               u == [e EXCEPT !.bytes = <<>>]
    <3>a. t = [mid EXCEPT !.cell[c].alloc = 1]
      BY <3>1
    <3>b. mid.cell = [one.cell EXCEPT ![c] = u] /\ mid.handle = one.handle
      BY <1>4 DEF Memory
    <3>c. u \in Cell
      BY <3>3, <3>4 DEF Cell
    <3> HIDE DEF u, e
    <3>d. mid.cell \in [Places -> Cell] /\ mid.cell[c] = u /\ \A d \in Places \ {c} : mid.cell[d] = one.cell[d]
      BY <1>2, <3>2, <3>b, <3>c
    <3>e. mid \in Memory
      BY <1>4, <3>2, <3>b, <3>d DEF Memory
    <3> HIDE DEF mid
    <3>f. w = [u EXCEPT !.alloc = 1]
      BY DEF u
    <3> HIDE DEF w
    <3>6. t.cell = [mid.cell EXCEPT ![c] = w] /\ t.handle = one.handle
      BY <3>a, <3>b, <3>d, <3>e, <3>f DEF Memory
    <3>7. t.cell \in [Places -> Cell]
      BY <1>2, <3>d, <3>5, <3>6
    <3>8. t.cell[c] = w /\ \A d \in Places \ {c} : t.cell[d] = one.cell[d]
      BY <1>2, <3>d, <3>6
    <3>9. t \in Memory
      BY <3>2, <3>6, <3>7, <3>a, <3>e DEF Memory
    <3> QED BY <1>4, <2>1, <3>5, <3>6, <3>8, <3>9 DEF e
  <2>2. CASE y.refs > 1
    <3>1. t = one
      BY <1>2, <1>3, <1>4, <2>2
    <3>2. x \in Cell
      BY <1>2, <1>4, <3>1 DEF Memory
    <3> QED BY <1>4, <2>2, <3>1, <3>2
  <2> QED BY <1>2, <2>1, <2>2
<1>6. UsersOf(t, c) = UsersOf(m, c) - 1 /\ \A d \in Places \ {c} : UsersOf(t, d) = UsersOf(m, d)
  <2>1. c # B!Dead /\ B!Dead \notin Places
    BY CellFacts
  <2>0. Rehoused(m, t, h, B!Dead)
    BY <1>1, <1>5, <2>1 DEF Rehoused
  <2>2. UsersOf(t, c) = UsersOf(m, c) - 1
    BY <2>0, UsersChange
  <2>3. ASSUME NEW d \in Places \ {c} PROVE UsersOf(t, d) = UsersOf(m, d)
    <3>1. d # m.handle[h] /\ d # B!Dead
      BY <2>1
    <3> QED BY <2>0, <3>1, UsersChange
  <2> QED BY <2>2, <2>3
<1>7. c = 0 => y.bytes = <<>> /\ y.refs = UsersOf(m, c) + 1
  BY DEF Sound
<1>8. c # 0 => y.refs = UsersOf(m, c) /\ Len(y.bytes) < y.alloc
  BY <1>2 DEF Sound, Places
<1>9. UsersOf(m, c) \in Nat
  BY UsersFacts
<1> HIDE DEF c, x, y
<1>a. c = 0 => x.bytes = <<>> /\ x.refs = UsersOf(t, c) + 1
  BY <1>2, <1>5, <1>6, <1>7, <1>9
<1>b. c # 0 => x.refs = UsersOf(t, c) /\ Len(x.bytes) < x.alloc
  <2>1. Len(<<>>) = 0
    BY EmptySeq
  <2> QED BY <1>2, <1>5, <1>6, <1>8, <1>9, <2>1
<1>c. \A g \in Handles \ {h} : m.handle[g] = c => x.bytes = m.cell[c].bytes
  <2> SUFFICES ASSUME NEW g \in Handles \ {h}, m.handle[g] = c PROVE y.refs > 1
    BY <1>2, <1>5 DEF y
  <2>1. t.handle[g] = c
    BY <1>1, <1>5
  <2>2. Users(t, c) # {}
    BY <2>1 DEF Users
  <2>3. UsersOf(t, c) \in Nat \ {0}
    BY <2>2, UsersFacts
  <2> QED BY <1>2, <1>6, <1>7, <1>8, <1>9, <2>3
<1>d. Assigned(m, h, B!Dead, c, x, <<>>, t)
  BY <1>2, <1>5, <1>6, <1>a, <1>b, <1>c, EmptySeq DEF Assigned, x
<1>e. Sound(t, [v EXCEPT ![h] = <<>>])
  BY <1>d, AssignedIsSound
<1> QED BY <1>2, <1>5, <1>e DEF c, x, y

\* A dead block gets a cell of its own.
LEMMA NewIsSound ==
  ASSUME NEW m, NEW v, Sound(m, v), NEW h \in Handles, m.handle[h] = B!Dead,
         NEW s \in Seq(BlockBytes), NEW a \in Nat, NEW t, t = B!new_BlockData_(m, h, s, a)
  PROVE  /\ Sound(t, [v EXCEPT ![h] = s]) /\ t.handle = [m.handle EXCEPT ![h] = B!Free(m)]
         /\ B!Free(m) \in B!Cells /\ m.cell[B!Free(m)].refs = 0
         /\ t.cell[B!Free(m)].refs = 1 /\ t.cell[B!Free(m)].alloc >= a
         /\ \A d \in Places \ {B!Free(m)} : t.cell[d] = m.cell[d]
<1> DEFINE c == B!Free(m)
           x == [refs |-> 1, bytes |-> s, alloc |-> B!Most(Len(s) + 1, a)]
<1>1. m.cell \in [Places -> Cell] /\ m.handle \in [Handles -> Places \cup {B!Dead}] /\ m \in Memory
  BY DEF Sound, Memory
<1>2. c \in B!Cells /\ m.cell[c].refs = 0 /\ UsersOf(m, c) = 0
  BY FreeFacts
<1>3. c \in Places /\ c # 0 /\ c # B!Dead
  BY <1>2, CellFacts
<1>4. Len(s) \in Nat
  BY LenProperties
<1> HIDE DEF c
<1>5. x \in Cell /\ x.refs = 1 /\ x.bytes = s /\ Len(s) < x.alloc /\ x.alloc >= a
  BY <1>4 DEF Cell, B!Most
<1>6. t = [m EXCEPT !.handle[h] = c, !.cell[c] = x]
  BY DEF B!new_BlockData_, c
<1> HIDE DEF x
<1>7. t.cell = [m.cell EXCEPT ![c] = x] /\ t.handle = [m.handle EXCEPT ![h] = c]
  BY <1>1, <1>6 DEF Memory
<1>8. t.cell \in [Places -> Cell] /\ t.handle \in [Handles -> Places \cup {B!Dead}]
  BY <1>1, <1>3, <1>5, <1>7
<1>9. t \in Memory
  BY <1>1, <1>6, <1>8 DEF Memory
<1>a. t.cell[c] = x /\ \A d \in Places \ {c} : t.cell[d] = m.cell[d]
  BY <1>1, <1>3, <1>7
<1>b. UsersOf(t, c) = 1 /\ \A d \in Places \ {c} : UsersOf(t, d) = UsersOf(m, d)
  <2>1. Rehoused(m, t, h, c)
    BY <1>1, <1>3, <1>7 DEF Rehoused
  <2>2. UsersOf(t, c) = UsersOf(m, c) + 1
    BY <2>1, UsersChange
  <2>3. ASSUME NEW d \in Places \ {c} PROVE UsersOf(t, d) = UsersOf(m, d)
    <3>1. d # m.handle[h] /\ d # c
      BY CellFacts
    <3> QED BY <2>1, <3>1, UsersChange
  <2> QED BY <1>2, <2>2, <2>3
<1>c. \A g \in Handles \ {h} : m.handle[g] # c
  <2>1. Users(m, c) = {}
    BY <1>2, UsersFacts
  <2> QED BY <2>1 DEF Users
<1>d. Assigned(m, h, c, c, x, s, t)
  BY <1>3, <1>5, <1>7, <1>9, <1>a, <1>b, <1>c DEF Assigned
<1>e. Sound(t, [v EXCEPT ![h] = s])
  BY <1>d, AssignedIsSound
<1> QED BY <1>2, <1>5, <1>7, <1>a, <1>e DEF c

LEMMA InitIsSound ==
  ASSUME NEW m, NEW v, Sound(m, v), NEW h \in Handles, m.handle[h] = B!Dead, NEW s \in Seq(BlockBytes)
  PROVE  Sound(B!init_Block(m, h, s), [v EXCEPT ![h] = s])
<1>1. CASE s = <<>>
  <2>1. 0 \in Places /\ m.cell[0].bytes = s
    BY <1>1, CellFacts DEF Sound
  <2>2. Sound(B!addRef(m, h, 0), [v EXCEPT ![h] = m.cell[0].bytes])
    BY <2>1, AddRefIsSound
  <2> QED BY <1>1, <2>1, <2>2 DEF B!init_Block, B!Empty
<1>2. CASE s # <<>>
  <2>1. B!init_Block(m, h, s) = B!new_BlockData_(m, h, s, 0)
    BY <1>2 DEF B!init_Block
  <2>2. \A t : t = B!new_BlockData_(m, h, s, 0) => Sound(t, [v EXCEPT ![h] = s])
    <3>1. 0 \in Nat
      OBVIOUS
    <3> TAKE t
    <3> HAVE t = B!new_BlockData_(m, h, s, 0)
    <3> QED BY <3>1, NewIsSound
  <2> QED BY <2>1, <2>2
<1> QED BY <1>1, <1>2

\* A block that has its cell to itself, and still the bytes it had in m.
Own(m, t, h) ==
  /\ t.handle[h] \in B!Cells /\ t.cell[t.handle[h]].refs = 1
  /\ \A g \in Handles \ {h} : t.handle[g] = m.handle[g]
  /\ t.cell[m.handle[h]].bytes = m.cell[m.handle[h]].bytes

LEMMA DetachIsSound ==
  ASSUME NEW m, NEW v, Sound(m, v), NEW h \in Handles, m.handle[h] # B!Dead,
         NEW a \in Nat, NEW t, t = B!detach_Block_(m, h, a)
  PROVE  Sound(t, v) /\ Own(m, t, h)
<1> DEFINE c == m.handle[h]
           s == m.cell[c].bytes
           e == B!deref_BlockData_(m, h)
           w == [v EXCEPT ![h] = <<>>]
<1>1. /\ c \in Places /\ s = v[h] /\ v[h] \in Seq(BlockBytes) /\ m.cell[c].refs \in Nat \ {0}
      /\ ~(m.cell[c].refs > 1) => c \in B!Cells /\ m.cell[c].refs = 1
  BY SoundFacts
<1>2. t = IF m.cell[c].refs > 1 THEN B!new_BlockData_(e, h, s, a) ELSE m
  BY DEF B!detach_Block_, B!CellOf
<1>3. CASE m.cell[c].refs > 1
  <2>1. /\ Sound(e, w) /\ e.handle = [m.handle EXCEPT ![h] = B!Dead]
        /\ e.cell[c].bytes = m.cell[c].bytes /\ e.cell[c].refs > 0
    BY <1>3, DerefIsSound
  <2>2. m.handle \in [Handles -> Places \cup {B!Dead}] /\ v \in [Handles -> Seq(BlockBytes)]
    BY DEF Sound, Memory
  <2>3. e.handle[h] = B!Dead /\ \A g \in Handles \ {h} : e.handle[g] = m.handle[g]
    BY <2>1, <2>2
  <2> DEFINE f == B!Free(e)
  <2>4. t = B!new_BlockData_(e, h, s, a)
    BY <1>2, <1>3
  <2> HIDE DEF e, w
  <2>5. /\ Sound(t, [w EXCEPT ![h] = s]) /\ t.handle = [e.handle EXCEPT ![h] = f]
        /\ f \in B!Cells /\ e.cell[f].refs = 0 /\ t.cell[f].refs = 1
        /\ \A d \in Places \ {f} : t.cell[d] = e.cell[d]
    BY <1>1, <2>1, <2>3, <2>4, NewIsSound
  <2> HIDE DEF f
  <2>6. [w EXCEPT ![h] = s] = v
    BY <1>1, <2>2 DEF w
  <2>7. t.handle[h] = f /\ \A g \in Handles \ {h} : t.handle[g] = e.handle[g]
    <3>1. h \in DOMAIN e.handle
      BY <2>1, <2>2
    <3> QED BY <2>5, <3>1
  <2>8. c # f
    BY <2>1, <2>5
  <2>9. t.cell[c].bytes = s
    BY <1>1, <2>1, <2>5, <2>8
  <2> QED BY <2>3, <2>5, <2>6, <2>7, <2>9 DEF Own
<1>4. CASE ~(m.cell[c].refs > 1)
  BY <1>1, <1>2, <1>4 DEF Own
<1> QED BY <1>3, <1>4

\* The room of a block that has its cell to itself may change, and its bytes.
LEMMA OwnIsSound ==
  ASSUME NEW m, NEW v, Sound(m, v), NEW h \in Handles, m.handle[h] \in B!Cells, m.cell[m.handle[h]].refs = 1,
         NEW t \in Memory, t.handle = m.handle, \A d \in Places \ {m.handle[h]} : t.cell[d] = m.cell[d],
         t.cell[m.handle[h]].refs = 1, NEW s \in Seq(BlockBytes), t.cell[m.handle[h]].bytes = s,
         Len(s) < t.cell[m.handle[h]].alloc
  PROVE  Sound(t, [v EXCEPT ![h] = s])
<1> DEFINE c == m.handle[h]
           x == t.cell[c]
<1>1. c \in Places /\ c # 0 /\ c # B!Dead /\ x \in Cell
  BY CellFacts DEF Memory
<1>2. \A d : UsersOf(t, d) = UsersOf(m, d)
  BY DEF UsersOf, Users
<1>3. UsersOf(m, c) = 1
  BY DEF Sound
<1>4. \A g \in Handles \ {h} : m.handle[g] # c
  <2>1. IsFiniteSet(Users(m, c)) /\ Cardinality(Users(m, c)) = 1
    BY <1>3, UsersFacts
  <2>2. PICK g : Users(m, c) = {g}
    BY <2>1, FS_Singleton
  <2>3. h \in Users(m, c)
    BY DEF Users
  <2>4. Users(m, c) = {h}
    BY <2>2, <2>3
  <2> QED BY <2>4 DEF Users
<1>5. m.handle = [m.handle EXCEPT ![h] = c]
  BY DEF Sound, Memory
<1> HIDE DEF c
<1>6. Assigned(m, h, c, c, x, s, t)
  BY <1>1, <1>2, <1>3, <1>4, <1>5 DEF Assigned, c
<1> QED BY <1>6, AssignedIsSound

LEMMA WriteIsSound ==
  ASSUME NEW m, NEW v, Sound(m, v), NEW h \in Handles, m.handle[h] \in B!Cells, m.cell[m.handle[h]].refs = 1,
         NEW s \in Seq(BlockBytes), Len(s) < m.cell[m.handle[h]].alloc
  PROVE  Sound(B!Write(m, h, s), [v EXCEPT ![h] = s])
<1> DEFINE c == m.handle[h]
           y == m.cell[c]
           x == [y EXCEPT !.bytes = s]
<1> SUFFICES ASSUME NEW t, t = B!Write(m, h, s)
             PROVE  Sound(t, [v EXCEPT ![h] = s])
  OBVIOUS
<1>1. m \in Memory /\ m.cell \in [Places -> Cell] /\ m.handle \in [Handles -> Places \cup {B!Dead}]
  BY DEF Sound, Memory
<1>2. c \in Places /\ y \in Cell
  BY <1>1, CellFacts
<1>3. x \in Cell /\ x.refs = y.refs /\ x.bytes = s /\ x.alloc = y.alloc
  BY <1>2 DEF Cell
<1>4. t.cell = [m.cell EXCEPT ![c] = x] /\ t.handle = m.handle
  BY <1>1 DEF B!Write, Memory
<1> HIDE DEF x
<1>5. t.cell \in [Places -> Cell] /\ t.cell[c] = x /\ \A d \in Places \ {c} : t.cell[d] = m.cell[d]
  BY <1>1, <1>2, <1>3, <1>4
<1>6. t \in Memory
  BY <1>1, <1>4, <1>5 DEF B!Write, Memory
<1> HIDE DEF c
<1> QED BY <1>3, <1>4, <1>5, <1>6, OwnIsSound DEF c

LEMMA ReserveIsSound ==
  ASSUME NEW m, NEW v, Sound(m, v), NEW h \in Handles, m.handle[h] # B!Dead,
         NEW n \in 0..MaxBlock, NEW t, t = B!reserve_Block(m, h, n)
  PROVE  Sound(t, v) /\ Own(m, t, h) /\ n < t.cell[t.handle[h]].alloc
<1> DEFINE a == B!allocSize_(n)
           e == B!detach_Block_(m, h, a)
           c == e.handle[h]
           y == e.cell[c]
           x == [y EXCEPT !.alloc = a]
<1>1. a \in Nat /\ n < a /\ n \in Nat
  BY AllocFacts
<1> HIDE DEF a
<1>2. Sound(e, v) /\ Own(m, e, h)
  BY <1>1, DetachIsSound
<1>3. t = IF y.alloc >= n + 1 THEN e ELSE [e EXCEPT !.cell[c].alloc = a]
  BY DEF B!reserve_Block, B!CellOf, a
<1> HIDE DEF e
<1>4. e \in Memory /\ e.cell \in [Places -> Cell] /\ e.handle \in [Handles -> Places \cup {B!Dead}]
  BY <1>2 DEF Sound, Memory
<1>5. c \in B!Cells /\ c \in Places /\ y \in Cell /\ y.alloc \in Nat /\ y.refs = 1 /\ Len(y.bytes) < y.alloc
      /\ y.bytes = v[h] /\ v[h] \in Seq(BlockBytes) /\ Len(v[h]) \in Nat
  <2>1. c \in B!Cells /\ y.refs = 1 /\ c # B!Dead /\ c \in Places
    BY <1>2, CellFacts DEF Own
  <2> HIDE DEF c
  <2>2. y \in Cell
    BY <1>4, <2>1
  <2>3. y.alloc \in Nat
    BY <2>2 DEF Cell
  <2>4. v[h] \in Seq(BlockBytes) /\ Len(v[h]) \in Nat /\ y.bytes = v[h] /\ Len(v[h]) < y.alloc
    BY <1>2, <2>1, SoundFacts DEF c
  <2> QED BY <2>1, <2>2, <2>3, <2>4 DEF c
<1>6. CASE y.alloc >= n + 1
  <2>1. n < y.alloc
    BY <1>1, <1>5, <1>6
  <2> QED BY <1>2, <1>3, <1>6, <2>1
<1>7. CASE ~(y.alloc >= n + 1)
  <2>1. t = [e EXCEPT !.cell[c].alloc = a]
    BY <1>3, <1>7
  <2>2. x \in Cell /\ x.refs = y.refs /\ x.bytes = y.bytes /\ x.alloc = a
    BY <1>1, <1>5 DEF Cell
  <2>3. t.cell = [e.cell EXCEPT ![c] = x] /\ t.handle = e.handle
    BY <1>4, <2>1 DEF Memory
  <2> HIDE DEF x
  <2>4. t.cell \in [Places -> Cell] /\ t.cell[c] = x /\ \A d \in Places \ {c} : t.cell[d] = e.cell[d]
    BY <1>4, <1>5, <2>2, <2>3
  <2>5. t \in Memory
    BY <1>4, <2>1, <2>3, <2>4 DEF Memory
  <2> DEFINE l == Len(v[h])
             b == y.alloc
  <2>6. l < a
    <3>1. l \in Nat /\ b \in Nat /\ l < b /\ ~(b >= n + 1)
      BY <1>5, <1>7
    <3> HIDE DEF l, b
    <3> QED BY <1>1, <3>1
  <2> HIDE DEF c
  <2>7. Sound(t, [v EXCEPT ![h] = v[h]])
    BY <1>2, <1>5, <2>2, <2>3, <2>4, <2>5, <2>6, OwnIsSound DEF c
  <2>8. [v EXCEPT ![h] = v[h]] = v
    BY DEF Sound
  <2>9. Own(m, t, h)
    <3>1. t.cell[m.handle[h]].bytes = e.cell[m.handle[h]].bytes
      <4>1. m.handle[h] \in Places
        BY SoundFacts
      <4> QED BY <2>2, <2>4, <4>1
    <3> QED BY <1>2, <1>5, <2>2, <2>3, <2>4, <3>1 DEF Own, c
  <2>a. n < t.cell[t.handle[h]].alloc
    BY <1>1, <2>2, <2>3, <2>4 DEF c
  <2> QED BY <2>7, <2>8, <2>9, <2>a
<1> QED BY <1>6, <1>7

\* What the functions make of the bytes of blocks.
LEMMA RestAfter ==
  ASSUME NEW V, NEW s \in Seq(V), NEW k \in Nat
  PROVE  /\ SubSeq(s, k + 1, Len(s)) \in Seq(V)
         /\ Len(SubSeq(s, k + 1, Len(s))) = IF k <= Len(s) THEN Len(s) - k ELSE 0
<1>1. Len(s) \in Nat
  BY LenProperties
<1>2. CASE k <= Len(s)
  <2>1. k \in 0..Len(s)
    BY <1>1, <1>2
  <2> QED BY <1>2, <2>1, LastPart
<1>3. CASE ~(k <= Len(s))
  <2>1. SubSeq(s, k + 1, Len(s)) = <<>>
    <3>1. Len(s) \in Int /\ k + 1 \in Int /\ Len(s) < k + 1
      BY <1>1, <1>3
    <3> QED BY <3>1, SubSeqEmpty
  <2> QED BY <1>3, <2>1, EmptySeq
<1> QED BY <1>2, <1>3

LEMMA Spliced ==
  ASSUME NEW V, NEW s \in Seq(V), NEW run \in Seq(V), NEW pos \in 0..Len(s), NEW k \in Nat
  PROVE  /\ SubSeq(s, 1, pos) \o run \o SubSeq(s, k + 1, Len(s)) \in Seq(V)
         /\ Len(SubSeq(s, 1, pos) \o run \o SubSeq(s, k + 1, Len(s))) =
              (pos + Len(run)) + (IF k <= Len(s) THEN Len(s) - k ELSE 0)
<1> DEFINE a == SubSeq(s, 1, pos)
           b == SubSeq(s, k + 1, Len(s))
           c == a \o run
<1>1. a \in Seq(V) /\ Len(a) = pos
  BY FirstPart
<1>2. b \in Seq(V) /\ Len(b) = IF k <= Len(s) THEN Len(s) - k ELSE 0
  BY RestAfter
<1> HIDE DEF a, b
<1>3. c \in Seq(V) /\ Len(c) = pos + Len(run)
  BY <1>1, Joined
<1> HIDE DEF c
<1>4. c \o b \in Seq(V) /\ Len(c \o b) = Len(c) + Len(b)
  BY <1>2, <1>3, Joined
<1> QED BY <1>2, <1>3, <1>4 DEF a, b, c

LEMMA Mapped ==
  ASSUME NEW V, NEW s \in Seq(V), NEW f \in [V -> V]
  PROVE  /\ [i \in DOMAIN s |-> f[s[i]]] \in Seq(V) /\ Len([i \in DOMAIN s |-> f[s[i]]]) = Len(s)
<1> DEFINE n == Len(s)
           t == [i \in DOMAIN s |-> f[s[i]]]
<1>1. n \in Nat /\ DOMAIN s = 1..n /\ \A i \in 1..n : s[i] \in V
  BY LenProperties, ElementOfSeq
<1>2. t \in [1..n -> V]
  BY <1>1
<1> HIDE DEF n, t
<1>3. t \in Seq(V)
  BY <1>1, <1>2, SeqDef
<1>4. Len(t) \in Nat /\ DOMAIN t = 1..Len(t)
  BY <1>3, LenProperties
<1>5. 1..n = 1..Len(t)
  BY <1>2, <1>4
<1>6. Len(t) = n
  <2> DEFINE k == Len(t)
  <2>1. n \in Nat /\ k \in Nat /\ 1..n = 1..k
    BY <1>1, <1>4, <1>5
  <2> HIDE DEF k
  <2>2. k = n
    BY ONLY <2>1
  <2> QED BY <2>2 DEF k
<1> QED BY <1>3, <1>6 DEF n, t

LEMMA ZerosAre == ASSUME NEW n \in Nat PROVE B!Zeros(n) \in Seq(BlockBytes) /\ Len(B!Zeros(n)) = n
<1> DEFINE t == B!Zeros(n)
<1>1. t \in [1..n -> BlockBytes]
  BY DataAssumption DEF B!Zeros
<1> HIDE DEF t
<1>2. t \in Seq(BlockBytes)
  BY <1>1, SeqDef
<1>3. Len(t) \in Nat /\ 1..n = 1..Len(t)
  BY <1>1, <1>2, LenProperties
<1>4. Len(t) = n
  BY <1>3
<1> QED BY <1>2, <1>4 DEF t

LEMMA DataFacts == ASSUME NEW s \in B!Data PROVE s \in Seq(BlockBytes) /\ Len(s) \in Nat /\ Len(s) <= MaxBlock
<1>1. PICK n \in 0..MaxBlock : s \in [1..n -> BlockBytes]
  BY DEF B!Data
<1>2. n \in Nat /\ n <= MaxBlock
  BY DataAssumption
<1>3. s \in Seq(BlockBytes)
  BY <1>1, <1>2, SeqDef
<1>4. Len(s) \in Nat /\ 1..n = 1..Len(s)
  BY <1>1, <1>3, LenProperties
<1>5. Len(s) = n
  BY <1>2, <1>4
<1> QED BY <1>2, <1>3, <1>5

\* What mid_Block copies is a part of the block.
Middle(s, start, count) ==
  [i \in 1..IF start >= Len(s) THEN 0 ELSE B!Least(count, Len(s) - start) |-> s[start + i]]

LEMMA MiddleIs ==
  ASSUME NEW V, NEW s \in Seq(V), NEW start \in Nat, NEW count \in Nat
  PROVE  /\ Middle(s, start, count) \in Seq(V)
         /\ SubSeq(s, start + 1, B!Least(start + count, Len(s))) = Middle(s, start, count)
<1> DEFINE n == Len(s)
           size == IF start >= n THEN 0 ELSE B!Least(count, n - start)
           t == Middle(s, start, count)
           b == start + 1
           e == B!Least(start + count, n)
           u == SubSeq(s, b, e)
<1>1. n \in Nat /\ \A i \in 1..n : s[i] \in V
  BY LenProperties, ElementOfSeq
<1>2. t = [i \in 1..size |-> s[start + i]]
  BY DEF Middle
<1> HIDE DEF n, t
<1>3. /\ size \in Nat /\ e \in Nat /\ e <= n
      /\ size = (IF b <= e THEN e - b + 1 ELSE 0) /\ (size # 0 => size = e - b + 1)
  BY <1>1 DEF B!Least
<1> HIDE DEF size
<1>4. b \in Int /\ e \in Int /\ \A i \in b..e : s[i] \in V
  BY <1>1, <1>3
<1>5. b = start + 1 /\ b \in Nat
  OBVIOUS
<1> HIDE DEF b, e
<1>6. /\ u \in Seq(V) /\ Len(u) = IF b <= e THEN e - b + 1 ELSE 0
      /\ \A i \in 1 .. e - b + 1 : u[i] = s[b + i - 1]
  BY <1>4, SubSeqProperties
<1> HIDE DEF u
<1>7. Len(u) = size /\ \A i \in 1..size : u[i] = s[b + i - 1]
  BY <1>3, <1>6
<1>8. \A i \in 1..size : start + i \in Nat /\ start + i = b + i - 1 /\ start + i \in b..e
  BY <1>3, <1>4, <1>5
<1>9. \A i \in 1..size : t[i] = s[start + i] /\ s[start + i] \in V
  BY <1>2, <1>4, <1>8
<1>a. t \in [1..size -> V]
  BY <1>2, <1>9
<1>b. t \in Seq(V)
  BY <1>3, <1>a, SeqDef
<1>c. Len(t) = size
  <2>1. Len(t) \in Nat /\ 1..size = 1..Len(t)
    BY <1>a, <1>b, LenProperties
  <2> QED BY <1>3, <2>1
<1>d. \A i \in 1..size : u[i] = t[i]
  BY <1>7, <1>8, <1>9
<1>e. u = t
  BY <1>3, <1>6, <1>7, <1>b, <1>c, <1>d, SeqEqual
<1> QED BY <1>b, <1>e DEF u, b, e, n, t

-----------------------------------------------------------------------------
(* Every operation leaves the memory sound.                                  *)

BInv == Sound(mem, want)

LEMMA Outcome ==
  ASSUME NEW h, NEW s, NEW m, B!Becomes(h, s, m), Sound(m, [want EXCEPT ![h] = s])
  PROVE  BInv'
BY DEF B!Becomes, BInv

LEMMA BlockFacts ==
  ASSUME BInv, NEW h \in Handles
  PROVE  /\ B!Value(h) = want[h] /\ want[h] \in Seq(BlockBytes) /\ Len(want[h]) \in Nat
         /\ [want EXCEPT ![h] = want[h]] = want
<1>1. want \in [Handles -> Seq(BlockBytes)]
  BY DEF BInv, Sound
<1>2. [want EXCEPT ![h] = want[h]] = want
  BY <1>1
<1> QED BY <1>2, SoundFacts DEF BInv, B!Value

\* Written after room was made for n bytes, or in place, the block holds s.
LEMMA ReservedWrite ==
  ASSUME BInv, NEW h \in Handles, B!Live(h), NEW n \in 0..MaxBlock, NEW s \in Seq(BlockBytes),
         Len(s) <= n \/ Len(s) <= Len(want[h])
  PROVE  Sound(B!Write(B!reserve_Block(mem, h, n), h, s), [want EXCEPT ![h] = s])
<1> DEFINE m == B!reserve_Block(mem, h, n)
           k == Len(s)
           l == Len(want[h])
           a == m.cell[m.handle[h]].alloc
<1>1. mem.handle[h] # B!Dead /\ Sound(mem, want)
  BY DEF B!Live, BInv
<1>2. Sound(m, want) /\ Own(mem, m, h) /\ n < a
  BY <1>1, ReserveIsSound
<1> HIDE DEF m
<1>3. m.handle[h] \in B!Cells /\ m.cell[m.handle[h]].refs = 1
  BY <1>2 DEF Own
<1>4. l < a /\ a \in Nat
  <2>1. m.handle[h] # B!Dead
    BY <1>3, CellFacts
  <2> QED BY <1>2, <1>3, <2>1, SoundFacts DEF Cell
<1>5. k \in Nat /\ l \in Nat /\ n \in Nat /\ (k <= n \/ k <= l)
  BY BlockFacts, LenProperties
<1> HIDE DEF k, l, a
<1>6. k < a
  BY <1>2, <1>4, <1>5
<1> QED BY <1>2, <1>3, <1>6, WriteIsSound DEF m, k, a

LEMMA DetachedWrite ==
  ASSUME BInv, NEW h \in Handles, B!Live(h), NEW s \in Seq(BlockBytes), Len(s) <= Len(want[h])
  PROVE  Sound(B!Write(B!detach_Block_(mem, h, 0), h, s), [want EXCEPT ![h] = s])
<1> DEFINE m == B!detach_Block_(mem, h, 0)
           k == Len(s)
           l == Len(want[h])
           a == m.cell[m.handle[h]].alloc
<1>1. mem.handle[h] # B!Dead /\ Sound(mem, want) /\ 0 \in Nat
  BY DEF B!Live, BInv
<1>2. Sound(m, want) /\ Own(mem, m, h)
  BY <1>1, DetachIsSound
<1> HIDE DEF m
<1>3. m.handle[h] \in B!Cells /\ m.cell[m.handle[h]].refs = 1
  BY <1>2 DEF Own
<1>4. l < a /\ a \in Nat
  <2>1. m.handle[h] # B!Dead
    BY <1>3, CellFacts
  <2> QED BY <1>2, <1>3, <2>1, SoundFacts DEF Cell
<1>5. k \in Nat /\ l \in Nat /\ k <= l
  BY BlockFacts, LenProperties
<1> HIDE DEF k, l, a
<1>6. k < a
  BY <1>4, <1>5
<1> QED BY <1>2, <1>3, <1>6, WriteIsSound DEF m, k, a

LEMMA InitDataKeeps == ASSUME BInv, NEW h \in Handles, NEW s \in B!Data, B!initData_Block(h, s) PROVE BInv'
<1>1. mem.handle[h] = B!Dead /\ Sound(mem, want) /\ s \in Seq(BlockBytes)
  BY DataFacts DEF B!initData_Block, B!Live, BInv
<1>2. Sound(B!init_Block(mem, h, s), [want EXCEPT ![h] = s])
  BY <1>1, InitIsSound
<1> QED BY <1>2, Outcome DEF B!initData_Block

LEMMA InitCopyKeeps ==
  ASSUME BInv, NEW h \in Handles, NEW g \in Handles, B!initCopy_Block(h, g) PROVE BInv'
<1>1. mem.handle[h] = B!Dead /\ mem.handle[g] # B!Dead /\ Sound(mem, want)
  BY DEF B!initCopy_Block, B!Live, BInv
<1>2. mem.handle[g] \in Places /\ mem.cell[mem.handle[g]].bytes = want[g]
  BY <1>1, SoundFacts
<1>3. Sound(B!addRef(mem, h, mem.handle[g]), [want EXCEPT ![h] = want[g]])
  BY <1>1, <1>2, AddRefIsSound
<1> QED BY <1>3, Outcome DEF B!initCopy_Block

LEMMA DeinitKeeps == ASSUME BInv, NEW h \in Handles, B!deinit_Block(h) PROVE BInv'
<1> DEFINE t == B!deref_BlockData_(mem, h)
<1>1. mem.handle[h] # B!Dead /\ Sound(mem, want)
  BY DEF B!deinit_Block, B!Live, BInv
<1>2. Sound(t, [want EXCEPT ![h] = <<>>])
  BY <1>1, DerefIsSound
<1> QED BY <1>2, Outcome DEF B!deinit_Block

LEMMA MidKeeps ==
  ASSUME BInv, NEW h \in Handles, NEW g \in Handles, NEW start \in 0..MaxBlock, NEW count \in 0..MaxBlock,
         B!mid_Block(h, g, start, count)
  PROVE  BInv'
<1> DEFINE s == want[g]
           t == Middle(s, start, count)
           u == SubSeq(s, start + 1, B!Least(start + count, Len(s)))
<1>1. mem.handle[h] = B!Dead /\ Sound(mem, want) /\ B!Value(g) = s /\ s \in Seq(BlockBytes)
  BY BlockFacts DEF B!mid_Block, B!Live, BInv
<1>2. B!Becomes(h, u, B!init_Block(mem, h, t))
  BY <1>1 DEF B!mid_Block, Middle
<1>3. t \in Seq(BlockBytes) /\ u = t
  <2>1. start \in Nat /\ count \in Nat
    BY DataAssumption
  <2> QED BY <1>1, <2>1, MiddleIs
<1> HIDE DEF s, t, u
<1>4. Sound(B!init_Block(mem, h, t), [want EXCEPT ![h] = t])
  BY <1>1, <1>3, InitIsSound
<1> QED BY <1>2, <1>3, <1>4, Outcome

LEMMA ConcatKeeps ==
  ASSUME BInv, NEW h \in Handles, NEW f \in Handles, NEW g \in Handles, B!concat_Block(h, f, g)
  PROVE  BInv'
<1> DEFINE s == want[f] \o want[g]
<1>1. mem.handle[h] = B!Dead /\ Sound(mem, want) /\ s \in Seq(BlockBytes)
      /\ B!Value(f) = want[f] /\ B!Value(g) = want[g]
  BY BlockFacts, Joined DEF B!concat_Block, B!Live, BInv
<1>2. B!Becomes(h, s, B!init_Block(mem, h, s))
  BY <1>1 DEF B!concat_Block
<1> HIDE DEF s
<1>3. Sound(B!init_Block(mem, h, s), [want EXCEPT ![h] = s])
  BY <1>1, InitIsSound
<1> QED BY <1>2, <1>3, Outcome

LEMMA SetKeeps == ASSUME BInv, NEW h \in Handles, NEW g \in Handles, B!set_Block(h, g) PROVE BInv'
<1> DEFINE c == mem.handle[g]
           e == B!deref_BlockData_(mem, h)
           w == [want EXCEPT ![h] = <<>>]
<1>1. mem.handle[h] # B!Dead /\ c # B!Dead /\ Sound(mem, want)
  BY DEF B!set_Block, B!Live, BInv
<1>2. /\ want \in [Handles -> Seq(BlockBytes)] /\ mem.handle \in [Handles -> Places \cup {B!Dead}]
      /\ c \in Places /\ mem.cell[c].bytes = want[g] /\ mem.cell[mem.handle[h]].bytes = want[h]
  <2>1. want \in [Handles -> Seq(BlockBytes)] /\ mem.handle \in [Handles -> Places \cup {B!Dead}]
    BY <1>1 DEF Sound, Memory
  <2>2. c \in Places /\ mem.cell[c].bytes = want[g]
    BY <1>1, SoundFacts
  <2>3. mem.cell[mem.handle[h]].bytes = want[h]
    BY <1>1, SoundFacts
  <2> QED BY <2>1, <2>2, <2>3
<1>3. CASE mem.handle[h] = c
  <2>1. B!Becomes(h, want[g], mem)
    BY <1>3 DEF B!set_Block
  <2>2. [want EXCEPT ![h] = want[g]] = want
    BY <1>2, <1>3
  <2> QED BY <1>1, <2>1, <2>2, Outcome
<1>4. CASE mem.handle[h] # c
  <2>1. B!Becomes(h, want[g], B!addRef(e, h, c))
    BY <1>4 DEF B!set_Block
  <2>2. Sound(e, w) /\ e.handle = [mem.handle EXCEPT ![h] = B!Dead]
    BY <1>1, DerefIsSound
  <2>3. g # h
    BY <1>4
  <2>4. e.handle[h] = B!Dead /\ e.handle[g] = c /\ w[g] = want[g]
    BY <1>2, <2>2, <2>3
  <2> HIDE DEF e, w, c
  <2>5. e.cell[c].bytes = want[g]
    BY <1>1, <2>2, <2>4, SoundFacts
  <2>6. Sound(B!addRef(e, h, c), [w EXCEPT ![h] = want[g]])
    BY <1>2, <2>2, <2>4, <2>5, AddRefIsSound
  <2>7. [w EXCEPT ![h] = want[g]] = [want EXCEPT ![h] = want[g]]
    BY <1>2 DEF w
  <2> QED BY <2>1, <2>6, <2>7, Outcome
<1> QED BY <1>3, <1>4

LEMMA ClearKeeps == ASSUME BInv, NEW h \in Handles, B!clear_Block(h) PROVE BInv'
<1> DEFINE e == B!deref_BlockData_(mem, h)
           w == [want EXCEPT ![h] = <<>>]
<1>1. mem.handle[h] # B!Dead /\ Sound(mem, want) /\ B!Becomes(h, <<>>, B!addRef(e, h, 0))
  BY DEF B!clear_Block, B!Live, B!Empty, BInv
<1>2. /\ want \in [Handles -> Seq(BlockBytes)] /\ mem.handle \in [Handles -> Places \cup {B!Dead}]
  BY <1>1 DEF Sound, Memory
<1>3. Sound(e, w) /\ e.handle = [mem.handle EXCEPT ![h] = B!Dead]
  BY <1>1, DerefIsSound
<1>4. e.handle[h] = B!Dead
  BY <1>2, <1>3
<1> HIDE DEF e, w
<1>5. e.cell[0].bytes = <<>> /\ 0 \in Places
  BY <1>3, CellFacts DEF Sound
<1>6. Sound(B!addRef(e, h, 0), [w EXCEPT ![h] = <<>>])
  <2>1. Sound(B!addRef(e, h, 0), [w EXCEPT ![h] = e.cell[0].bytes])
    BY <1>3, <1>4, <1>5, AddRefIsSound
  <2> QED BY <1>5, <2>1
<1>7. [w EXCEPT ![h] = <<>>] = [want EXCEPT ![h] = <<>>]
  BY <1>2 DEF w
<1> QED BY <1>1, <1>6, <1>7, Outcome

LEMMA SetDataKeeps == ASSUME BInv, NEW h \in Handles, NEW s \in B!Data, B!setData_Block(h, s) PROVE BInv'
<1>1. s \in Seq(BlockBytes) /\ Len(s) \in 0..MaxBlock /\ Len(s) <= Len(s)
  BY DataFacts, DataAssumption
<1>2. Sound(B!Write(B!reserve_Block(mem, h, Len(s)), h, s), [want EXCEPT ![h] = s])
  BY <1>1, ReservedWrite DEF B!setData_Block
<1> QED BY <1>2, Outcome DEF B!setData_Block

LEMMA TruncateKeeps ==
  ASSUME BInv, NEW h \in Handles, NEW n \in 0..MaxBlock, B!truncate_Block(h, n) PROVE BInv'
<1> DEFINE s == want[h]
           l == Len(s)
           u == SubSeq(s, 1, B!Least(n, l))
<1>1. B!Value(h) = s /\ s \in Seq(BlockBytes) /\ l \in Nat /\ [want EXCEPT ![h] = s] = want
  BY BlockFacts
<1>2. n \in Nat
  BY DataAssumption
<1>3. CASE n >= l
  <2>1. B!Least(n, l) = l
    BY <1>1, <1>2, <1>3 DEF B!Least
  <2>2. u = s
    BY <1>1, <2>1, SubSeqFull
  <2>3. B!Becomes(h, u, mem)
    BY <1>1, <1>3 DEF B!truncate_Block
  <2> HIDE DEF s, u
  <2> QED BY <1>1, <2>2, <2>3, Outcome DEF BInv
<1>4. CASE ~(n >= l)
  <2>1. B!Least(n, l) = n
    BY <1>1, <1>2, <1>4 DEF B!Least
  <2>2. n \in 0..l /\ n <= l
    BY <1>1, <1>2, <1>4
  <2>3. u = SubSeq(s, 1, n) /\ u \in Seq(BlockBytes) /\ Len(u) = n
    BY <1>1, <2>1, <2>2, FirstPart
  <2>4. B!Becomes(h, u, B!Write(B!detach_Block_(mem, h, 0), h, u))
    BY <1>1, <1>4, <2>1 DEF B!truncate_Block
  <2> HIDE DEF u
  <2>5. Sound(B!Write(B!detach_Block_(mem, h, 0), h, u), [want EXCEPT ![h] = u])
    BY <2>2, <2>3, DetachedWrite DEF B!truncate_Block
  <2> QED BY <2>4, <2>5, Outcome
<1> QED BY <1>3, <1>4

LEMMA ResizeKeeps == ASSUME BInv, NEW h \in Handles, NEW n \in 0..MaxBlock, B!resize_Block(h, n) PROVE BInv'
<1> DEFINE s == want[h]
           l == Len(s)
           u == s \o B!Zeros(n - l)
<1>1. B!Value(h) = s /\ s \in Seq(BlockBytes) /\ l \in Nat /\ n >= l
  BY BlockFacts DEF B!resize_Block
<1>2. n \in Nat /\ n - l \in Nat /\ l + (n - l) = n
  BY <1>1, DataAssumption
<1>3. B!Zeros(n - l) \in Seq(BlockBytes) /\ Len(B!Zeros(n - l)) = n - l
  BY <1>2, ZerosAre
<1>4. u \in Seq(BlockBytes) /\ Len(u) = l + (n - l)
  <2> DEFINE t == B!Zeros(n - l)
  <2>1. t \in Seq(BlockBytes) /\ Len(t) = n - l
    BY <1>3
  <2> HIDE DEF s, t
  <2>2. Len(s \o t) = l + Len(t) /\ s \o t \in Seq(BlockBytes)
    BY <1>1, <2>1, Joined
  <2> QED BY <2>1, <2>2 DEF t
<1>5. B!Becomes(h, u, B!Write(B!reserve_Block(mem, h, n), h, u)) /\ B!Live(h)
  BY <1>1 DEF B!resize_Block
<1> HIDE DEF u, l
<1>6. Len(u) <= n
  BY <1>2, <1>4
<1>7. Sound(B!Write(B!reserve_Block(mem, h, n), h, u), [want EXCEPT ![h] = u])
  BY <1>4, <1>5, <1>6, ReservedWrite
<1> QED BY <1>5, <1>7, Outcome

LEMMA RemoveKeeps ==
  ASSUME BInv, NEW h \in Handles, NEW start \in 0..MaxBlock, NEW count \in 0..MaxBlock,
         B!remove_Block(h, start, count)
  PROVE  BInv'
<1> DEFINE s == want[h]
           l == Len(s)
           end == B!Least(start + count, l)
           a == SubSeq(s, 1, start)
           b == SubSeq(s, end + 1, l)
           u == a \o b
<1>1. B!Value(h) = s /\ s \in Seq(BlockBytes) /\ l \in Nat /\ start <= l /\ B!Live(h)
  BY BlockFacts DEF B!remove_Block
<1>2. start \in Nat /\ count \in Nat
  BY DataAssumption
<1>3. end \in Nat /\ end <= l /\ start <= end
  <2> HIDE DEF l
  <2> QED BY <1>1, <1>2 DEF B!Least
<1>4. B!Becomes(h, u, B!Write(B!detach_Block_(mem, h, 0), h, u))
  BY <1>1 DEF B!remove_Block
<1> HIDE DEF end
<1>5. a \in Seq(BlockBytes) /\ Len(a) = start
  <2>1. start \in 0..l
    BY <1>1, <1>2
  <2> QED BY <1>1, <2>1, FirstPart
<1>6. b \in Seq(BlockBytes) /\ Len(b) = l - end
  BY <1>1, <1>3, RestAfter
<1> HIDE DEF a, b
<1>7. u \in Seq(BlockBytes) /\ Len(u) = Len(a) + Len(b)
  BY <1>5, <1>6, Joined
<1> HIDE DEF u
<1>8. Len(u) <= l
  <2> HIDE DEF l
  <2> QED BY <1>1, <1>2, <1>3, <1>5, <1>6, <1>7
<1>9. Sound(B!Write(B!detach_Block_(mem, h, 0), h, u), [want EXCEPT ![h] = u])
  BY <1>1, <1>7, <1>8, DetachedWrite
<1> QED BY <1>4, <1>9, Outcome

LEMMA MapBytesKeeps ==
  ASSUME BInv, NEW h \in Handles, NEW f \in [BlockBytes -> BlockBytes], B!MapBytes(h, f) PROVE BInv'
<1> DEFINE s == want[h]
           u == [i \in DOMAIN s |-> f[s[i]]]
<1>1. B!Value(h) = s /\ s \in Seq(BlockBytes) /\ Len(s) \in Nat /\ B!Live(h)
  BY BlockFacts DEF B!MapBytes
<1>2. u \in Seq(BlockBytes) /\ Len(u) = Len(s)
  BY <1>1, Mapped
<1>3. B!Becomes(h, u, B!Write(B!detach_Block_(mem, h, 0), h, u))
  BY <1>1 DEF B!MapBytes
<1> HIDE DEF u
<1>4. Len(u) <= Len(want[h])
  BY <1>1, <1>2
<1>5. Sound(B!Write(B!detach_Block_(mem, h, 0), h, u), [want EXCEPT ![h] = u])
  BY <1>1, <1>2, <1>4, DetachedWrite
<1> QED BY <1>3, <1>5, Outcome

LEMMA InsertDataKeeps ==
  ASSUME BInv, NEW h \in Handles, NEW pos \in 0..MaxBlock, NEW s \in B!Data, B!insertData_Block(h, pos, s)
  PROVE  BInv'
<1> DEFINE v == want[h]
           l == Len(v)
           k == Len(s)
           u == SubSeq(v, 1, pos) \o s \o SubSeq(v, pos + 1, l)
<1>1. B!Value(h) = v /\ v \in Seq(BlockBytes) /\ l \in Nat /\ pos <= l /\ B!Live(h) /\ Len(u) <= MaxBlock
  BY BlockFacts DEF B!insertData_Block, B!Fits
<1>2. pos \in Nat /\ pos \in 0..l /\ s \in Seq(BlockBytes) /\ k \in Nat /\ MaxBlock \in Nat
  BY <1>1, DataAssumption, DataFacts
<1>3. u \in Seq(BlockBytes) /\ Len(u) = (pos + k) + (IF pos <= l THEN l - pos ELSE 0)
  <2>1. v \in Seq(BlockBytes) /\ s \in Seq(BlockBytes) /\ pos \in 0..Len(v) /\ pos \in Nat
    BY <1>1, <1>2
  <2> HIDE DEF v
  <2> QED BY ONLY <2>1, Spliced
<1>4. B!Becomes(h, u, B!Write(B!reserve_Block(mem, h, l + k), h, u))
  BY <1>1 DEF B!insertData_Block
<1> HIDE DEF u
<1>5. Len(u) = l + k /\ l + k \in 0..MaxBlock /\ Len(u) <= l + k
  <2> HIDE DEF k, l
  <2> QED BY <1>1, <1>2, <1>3
<1> HIDE DEF l, k
<1>6. Sound(B!Write(B!reserve_Block(mem, h, l + k), h, u), [want EXCEPT ![h] = u])
  BY <1>1, <1>3, <1>5, ReservedWrite
<1> QED BY <1>4, <1>6, Outcome

LEMMA SetSubDataKeeps ==
  ASSUME BInv, NEW h \in Handles, NEW pos \in 0..MaxBlock, NEW s \in B!Data, B!setSubData_Block(h, pos, s)
  PROVE  BInv'
<1> DEFINE v == want[h]
           l == Len(v)
           k == Len(s)
           end == pos + k
           u == SubSeq(v, 1, pos) \o s \o SubSeq(v, end + 1, l)
<1>1. B!Value(h) = v /\ v \in Seq(BlockBytes) /\ l \in Nat /\ pos <= l /\ B!Live(h) /\ end <= MaxBlock
  BY BlockFacts DEF B!setSubData_Block
<1>2. pos \in Nat /\ pos \in 0..l /\ s \in Seq(BlockBytes) /\ k \in Nat /\ MaxBlock \in Nat
  BY <1>1, DataAssumption, DataFacts
<1>3. end \in Nat /\ end \in 0..MaxBlock
  BY <1>1, <1>2
<1>4. B!Becomes(h, u, B!Write(B!reserve_Block(mem, h, end), h, u))
  BY <1>1 DEF B!setSubData_Block
<1> HIDE DEF end
<1>5. u \in Seq(BlockBytes) /\ Len(u) = (pos + k) + (IF end <= l THEN l - end ELSE 0)
  <2>1. v \in Seq(BlockBytes) /\ s \in Seq(BlockBytes) /\ pos \in 0..Len(v) /\ end \in Nat
    BY <1>1, <1>2, <1>3
  <2> HIDE DEF v
  <2> QED BY ONLY <2>1, Spliced
<1> HIDE DEF u
<1>6. Len(u) <= end \/ Len(u) <= l
  <2>1. end = pos + k
    BY DEF end
  <2> HIDE DEF k, l
  <2> QED BY <1>1, <1>2, <1>3, <1>5, <2>1
<1>7. Sound(B!Write(B!reserve_Block(mem, h, end), h, u), [want EXCEPT ![h] = u])
  BY <1>1, <1>3, <1>5, <1>6, ReservedWrite
<1> QED BY <1>4, <1>7, Outcome

LEMMA AppendKeeps == ASSUME BInv, NEW h \in Handles, NEW g \in Handles, B!append_Block(h, g) PROVE BInv'
<1> DEFINE v == want[h]
           s == want[g]
           n == Len(v) + Len(s)
           m == B!reserve_Block(mem, h, n)
           u == v \o s
<1>1. /\ B!Value(h) = v /\ v \in Seq(BlockBytes) /\ Len(v) \in Nat /\ B!Live(h) /\ mem.handle[h] # B!Dead
      /\ Sound(mem, want)
  BY BlockFacts DEF B!append_Block, BInv, B!Live
<1>2. B!Value(g) = s /\ s \in Seq(BlockBytes) /\ Len(s) \in Nat /\ mem.handle[g] # B!Dead
  BY BlockFacts DEF B!append_Block, B!Live
<1>3. n \in 0..MaxBlock
  <2>1. n <= MaxBlock
    BY <1>1, <1>2 DEF B!append_Block
  <2> DEFINE i == Len(v)
             j == Len(s)
  <2>2. i \in Nat /\ j \in Nat /\ MaxBlock \in Nat /\ i + j <= MaxBlock
    BY <1>1, <1>2, <2>1, DataAssumption
  <2> HIDE DEF i, j
  <2>3. i + j \in 0..MaxBlock
    BY ONLY <2>2
  <2> QED BY <2>3 DEF i, j
<1>4. B!Becomes(h, u, B!Write(m, h, B!CellOf(m, h).bytes \o m.cell[mem.handle[g]].bytes))
  BY <1>1, <1>2 DEF B!append_Block
<1>5. u \in Seq(BlockBytes) /\ Len(u) = n
  BY <1>1, <1>2, Joined
<1> HIDE DEF n
<1>6. Sound(m, want) /\ Own(mem, m, h)
  BY <1>1, <1>3, ReserveIsSound
<1>7. Sound(B!Write(m, h, u), [want EXCEPT ![h] = u])
  <2>1. Len(u) <= n
    BY <1>3, <1>5, DataAssumption
  <2> HIDE DEF u
  <2> QED BY <1>1, <1>3, <1>5, <2>1, ReservedWrite
<1> HIDE DEF m
<1>8. B!CellOf(m, h).bytes = v
  <2>1. m.handle[h] # B!Dead
    BY <1>6, CellFacts DEF Own
  <2> QED BY <1>6, <2>1, SoundFacts DEF B!CellOf
<1>9. m.cell[mem.handle[g]].bytes = s
  <2>1. CASE g = h
    <3>1. mem.cell[mem.handle[h]].bytes = v
      BY <1>1, SoundFacts
    <3> QED BY <1>6, <2>1, <3>1 DEF Own
  <2>2. CASE g # h
    <3>1. m.handle[g] = mem.handle[g]
      BY <1>6, <2>2 DEF Own
    <3> QED BY <1>2, <1>6, <3>1, SoundFacts
  <2> QED BY <2>1, <2>2
<1> QED BY <1>4, <1>7, <1>8, <1>9, Outcome

LEMMA BlockInit == ASSUME B!Init PROVE BInv
<1> DEFINE e == [c \in {0} \cup B!Cells |-> [refs |-> IF c = 0 THEN 1 ELSE 0, bytes |-> <<>>, alloc |-> 1]]
           q == [h \in Handles |-> B!Dead]
<1>1. mem = [cell |-> e, handle |-> q] /\ want = [h \in Handles |-> <<>>]
  BY DEF B!Init, B!Empty
<1>2. <<>> \in Seq(BlockBytes) /\ Len(<<>>) = 0
  BY EmptySeq
<1>3. \A c \in Places : /\ e[c] \in Cell /\ e[c].bytes = <<>> /\ e[c].alloc = 1
                        /\ e[c].refs = IF c = 0 THEN 1 ELSE 0
  BY <1>2 DEF Cell, Places
<1>4. e \in [Places -> Cell] /\ q \in [Handles -> Places \cup {B!Dead}]
  BY <1>3 DEF Places
<1> HIDE DEF e
<1>5. mem \in Memory /\ mem.cell = e /\ mem.handle = q
  BY <1>1, <1>4 DEF Memory
<1>6. \A c \in Places : UsersOf(mem, c) = 0
  <2> TAKE c \in Places
  <2>1. Users(mem, c) = {}
    BY <1>5, CellFacts DEF Users
  <2> QED BY <2>1, UsersFacts
<1>7. want \in [Handles -> Seq(BlockBytes)] /\ \A h \in Handles : want[h] = <<>> /\ mem.handle[h] = B!Dead
  BY <1>1, <1>2, <1>5
<1>8. mem.cell[0].bytes = <<>> /\ mem.cell[0].refs = UsersOf(mem, 0) + 1
  BY <1>3, <1>5, <1>6, CellFacts
<1>9. \A c \in B!Cells : mem.cell[c].refs = UsersOf(mem, c) /\ Len(mem.cell[c].bytes) < mem.cell[c].alloc
  BY <1>2, <1>3, <1>5, <1>6, CellFacts
<1> QED BY <1>5, <1>7, <1>8, <1>9 DEF BInv, Sound

LEMMA BlockStep == ASSUME BInv, [B!Next]_blockVars PROVE BInv'
<1>1. CASE UNCHANGED blockVars
  BY <1>1 DEF blockVars, BInv
<1>2. CASE B!Next
  <2>1. PICK h \in Handles :
          \/ B!deinit_Block(h) \/ B!clear_Block(h)
          \/ \E s \in B!Data : \/ B!initData_Block(h, s) \/ B!setData_Block(h, s)
                             \/ \E pos \in 0..MaxBlock : B!insertData_Block(h, pos, s)
                                                         \/ B!setSubData_Block(h, pos, s)
          \/ \E n \in 0..MaxBlock : \/ B!truncate_Block(h, n) \/ B!resize_Block(h, n)
                                    \/ \E k \in 0..MaxBlock : B!remove_Block(h, n, k)
          \/ \E b \in BlockBytes : B!fill_Block(h, b) \/ \E a \in BlockBytes : B!replace_Block(h, a, b)
          \/ \E g \in Handles : \/ B!initCopy_Block(h, g) \/ B!set_Block(h, g) \/ B!append_Block(h, g)
                                \/ \E f \in Handles : B!concat_Block(h, f, g)
                                \/ \E n, k \in 0..MaxBlock : B!mid_Block(h, g, n, k)
    BY <1>2 DEF B!Next
  <2>2. ASSUME NEW s \in B!Data, B!initData_Block(h, s) \/ B!setData_Block(h, s) PROVE BInv'
    BY <2>2, InitDataKeeps, SetDataKeeps
  <2>3. ASSUME NEW s \in B!Data, NEW pos \in 0..MaxBlock,
               B!insertData_Block(h, pos, s) \/ B!setSubData_Block(h, pos, s)
        PROVE  BInv'
    BY <2>3, InsertDataKeeps, SetSubDataKeeps
  <2>4. ASSUME NEW n \in 0..MaxBlock, B!truncate_Block(h, n) \/ B!resize_Block(h, n) PROVE BInv'
    BY <2>4, TruncateKeeps, ResizeKeeps
  <2>5. ASSUME NEW n \in 0..MaxBlock, NEW k \in 0..MaxBlock, B!remove_Block(h, n, k) PROVE BInv'
    BY <2>5, RemoveKeeps
  <2>6. ASSUME NEW b \in BlockBytes, B!fill_Block(h, b) PROVE BInv'
    BY <2>6, MapBytesKeeps DEF B!fill_Block
  <2>7. ASSUME NEW a \in BlockBytes, NEW b \in BlockBytes, B!replace_Block(h, a, b) PROVE BInv'
    BY <2>7, MapBytesKeeps DEF B!replace_Block
  <2>8. ASSUME NEW g \in Handles, B!initCopy_Block(h, g) \/ B!set_Block(h, g) \/ B!append_Block(h, g)
        PROVE  BInv'
    BY <2>8, InitCopyKeeps, SetKeeps, AppendKeeps
  <2>9. ASSUME NEW g \in Handles, NEW f \in Handles, B!concat_Block(h, f, g) PROVE BInv'
    BY <2>9, ConcatKeeps
  <2>a. ASSUME NEW g \in Handles, NEW n \in 0..MaxBlock, NEW k \in 0..MaxBlock, B!mid_Block(h, g, n, k)
        PROVE  BInv'
    BY <2>a, MidKeeps
  <2> QED BY <2>1, <2>2, <2>3, <2>4, <2>5, <2>6, <2>7, <2>8, <2>9, <2>a, DeinitKeeps, ClearKeeps
<1> QED BY <1>1, <1>2

LEMMA BlockSafe == ASSUME BInv PROVE B!BlocksAreValues
<1>1. \A h \in Handles : B!Value(h) = want[h]
  BY BlockFacts
<1>2. \A c \in B!Cells : mem.cell[c].refs = B!Cardinality({h \in Handles : mem.handle[h] = c})
  BY DEF BInv, Sound, UsersOf, Users
<1>3. \A c \in B!Cells : mem.cell[c].alloc > Len(mem.cell[c].bytes)
  <2> TAKE c \in B!Cells
  <2> DEFINE a == mem.cell[c].alloc
             l == Len(mem.cell[c].bytes)
  <2>1. mem.cell[c] \in Cell
    BY CellFacts DEF BInv, Sound, Memory
  <2>2. a \in Nat /\ l \in Nat
    BY <2>1, LenProperties DEF Cell
  <2>3. l < a
    BY DEF BInv, Sound
  <2> HIDE DEF a, l
  <2>4. a > l
    BY <2>2, <2>3
  <2> QED BY <2>4 DEF a, l
<1>4. mem.cell[0].bytes = <<>>
  BY DEF BInv, Sound
<1> QED BY <1>1, <1>2, <1>3, <1>4 DEF B!BlocksAreValues, B!Empty

-----------------------------------------------------------------------------
(* Buffers. The integers that are written are of two bytes that need not be  *)
(* among those that are tried, so a cell holds either.                       *)

BufferCells == BufferBytes \cup Int

\* Where the buffer is in what its user sees, while it is open.
Aligned(b, v) == b.open => /\ v.consumed \o b.block = v.written
                           /\ v.at = Len(v.consumed) + b.pos
                           /\ b.pos <= Len(b.block) /\ b.size = Len(b.block)

BufferTyped(b, v) ==
  /\ b \in [open : BOOLEAN, readOnly : BOOLEAN, block : Seq(BufferCells), pos : Nat, size : Nat,
            order : U!Orders]
  /\ v \in [written : Seq(BufferCells), consumed : Seq(BufferCells), at : Nat]

UInv == BufferTyped(buffer, log) /\ Aligned(buffer, log)

LEMMA Smaller == \A i, j \in Nat : /\ U!Least(i, j) \in Nat /\ U!Least(i, j) = IF i < j THEN i ELSE j
                                   /\ U!Most(i, j) \in Nat /\ U!Most(i, j) = IF i > j THEN i ELSE j
BY DEF U!Least, U!Most

\* What overwriting from p leaves: what was before, what is written, and what
\* was behind, if anything.
LEMMA OverwrittenIn ==
  ASSUME NEW V, NEW s \in Seq(V), NEW run \in Seq(V), NEW p \in 0..Len(s)
  PROVE  /\ U!Overwrite(s, p, run) \in Seq(V)
         /\ Len(U!Overwrite(s, p, run)) = IF p + Len(run) < Len(s) THEN Len(s) ELSE p + Len(run)
         /\ \A i \in 1..Len(U!Overwrite(s, p, run)) :
              U!Overwrite(s, p, run)[i] = IF i <= p THEN s[i] ELSE IF i <= p + Len(run) THEN run[i - p] ELSE s[i]
<1> DEFINE n == Len(s)
           k == Len(run)
           a == SubSeq(s, 1, p)
           b == SubSeq(s, p + k + 1, n)
           c == a \o run
           t == U!Overwrite(s, p, run)
<1>1. n \in Nat /\ k \in Nat /\ p \in Nat /\ p <= n
  <2>1. n \in Nat /\ k \in Nat
    BY LenProperties
  <2> QED BY <2>1
<1>2. a \in Seq(V) /\ Len(a) = p /\ \A i \in 1..p : a[i] = s[i]
  BY FirstPart
<1>3. /\ b \in Seq(V) /\ Len(b) = (IF p + k < n THEN n - (p + k) ELSE 0)
      /\ \A i \in 1..n - (p + k) : b[i] = s[(p + k) + i]
  <2>1. p + k + 1 \in Int /\ n \in Int /\ \A i \in p + k + 1..n : s[i] \in V
    <3>1. \A i \in p + k + 1..n : i \in 1..n
      BY <1>1
    <3> QED BY <1>1, <3>1, ElementOfSeq
  <2> DEFINE m == p + k + 1
  <2>2. /\ b \in Seq(V) /\ Len(b) = (IF m <= n THEN n - m + 1 ELSE 0)
        /\ \A i \in 1..n - m + 1 : b[i] = s[m + i - 1]
    <3>1. m \in Int /\ n \in Int /\ (\A i \in m..n : s[i] \in V) /\ b = SubSeq(s, m, n)
      BY <2>1
    <3> HIDE DEF b, m, n, k
    <3> DEFINE h == SubSeq(s, m, n)
    <3>2. /\ h \in Seq(V) /\ Len(h) = (IF m <= n THEN n - m + 1 ELSE 0)
          /\ \A i \in 1..n - m + 1 : h[i] = s[m + i - 1]
      BY ONLY <3>1, SubSeqProperties
    <3> QED BY <3>1, <3>2
  <2> HIDE DEF n, k, b
  <2>3. \A i \in 1..n - (p + k) : i \in 1..n - m + 1 /\ m + i - 1 = (p + k) + i
    BY <1>1
  <2> QED BY <1>1, <2>2, <2>3
<1>4. c \in Seq(V) /\ Len(c) = p + k /\ \A i \in 1..p + k : c[i] = IF i <= p THEN a[i] ELSE run[i - p]
  <2> HIDE DEF a
  <2>1. a \in Seq(V) /\ run \in Seq(V)
    BY <1>2
  <2>2. /\ a \o run \in Seq(V) /\ Len(a \o run) = Len(a) + Len(run)
        /\ \A i \in 1..Len(a) + Len(run) : (a \o run)[i] = IF i <= Len(a) THEN a[i] ELSE run[i - Len(a)]
    BY ONLY <2>1, Joined
  <2> QED BY <1>2, <2>2
<1>5. t = c \o b
  BY DEF U!Overwrite
<1> HIDE DEF n, k, a, b, c
<1>6. /\ t \in Seq(V) /\ Len(t) = (p + k) + Len(b)
      /\ \A i \in 1..(p + k) + Len(b) : t[i] = IF i <= p + k THEN c[i] ELSE b[i - (p + k)]
  <2> HIDE DEF t
  <2>1. /\ c \o b \in Seq(V) /\ Len(c \o b) = Len(c) + Len(b)
        /\ \A i \in 1..Len(c) + Len(b) : (c \o b)[i] = IF i <= Len(c) THEN c[i] ELSE b[i - Len(c)]
    <3>1. c \in Seq(V) /\ b \in Seq(V)
      BY <1>3, <1>4
    <3> QED BY ONLY <3>1, Joined
  <2> QED BY <1>4, <1>5, <2>1
<1> HIDE DEF t
<1>7. Len(t) = IF p + k < n THEN n ELSE p + k
  BY <1>1, <1>3, <1>6
<1>8. ASSUME NEW i \in 1..Len(t)
      PROVE  t[i] = IF i <= p THEN s[i] ELSE IF i <= p + k THEN run[i - p] ELSE s[i]
  <2>0. i \in 1..(p + k) + Len(b)
    BY <1>6
  <2>1. CASE i <= p + k
    <3>1. t[i] = c[i] /\ i \in 1..p + k
      BY <1>1, <1>6, <2>0, <2>1
    <3>2. i <= p => i \in 1..p
      BY <1>1, <2>0
    <3> QED BY <1>2, <1>4, <2>1, <3>1, <3>2
  <2>2. CASE ~(i <= p + k)
    <3>1. t[i] = b[i - (p + k)] /\ i - (p + k) \in 1..n - (p + k) /\ (p + k) + (i - (p + k)) = i /\ ~(i <= p)
      BY <1>1, <1>3, <1>6, <2>0, <2>2
    <3> QED BY <1>3, <2>2, <3>1
  <2> QED BY <2>1, <2>2
<1> QED BY <1>6, <1>7, <1>8 DEF t, n, k

\* Overwriting behind c is overwriting what is behind it.
LEMMA OverwriteBehind ==
  ASSUME NEW V, NEW c \in Seq(V), NEW s \in Seq(V), NEW run \in Seq(V), NEW p \in 0..Len(s)
  PROVE  c \o U!Overwrite(s, p, run) = U!Overwrite(c \o s, Len(c) + p, run)
<1> DEFINE m == Len(c)
           n == Len(s)
           k == Len(run)
           w == U!Overwrite(s, p, run)
           u == c \o s
           x == c \o w
           y == U!Overwrite(u, m + p, run)
<1>1. m \in Nat /\ n \in Nat /\ k \in Nat /\ p \in Nat /\ p <= n
  <2>1. m \in Nat /\ n \in Nat /\ k \in Nat
    BY LenProperties
  <2> QED BY <2>1
<1>2. /\ w \in Seq(V) /\ Len(w) = (IF p + k < n THEN n ELSE p + k)
      /\ \A i \in 1..Len(w) : w[i] = IF i <= p THEN s[i] ELSE IF i <= p + k THEN run[i - p] ELSE s[i]
  BY OverwrittenIn
<1>3. u \in Seq(V) /\ Len(u) = m + n /\ \A i \in 1..m + n : u[i] = IF i <= m THEN c[i] ELSE s[i - m]
  BY Joined
<1> HIDE DEF w, u
<1>4. x \in Seq(V) /\ Len(x) = m + Len(w) /\ \A i \in 1..m + Len(w) : x[i] = IF i <= m THEN c[i] ELSE w[i - m]
  <2>1. c \in Seq(V) /\ w \in Seq(V)
    BY <1>2
  <2> QED BY ONLY <2>1, Joined
<1> HIDE DEF m, n, k
<1>5. m + p \in 0..Len(u)
  BY <1>1, <1>3
<1>6. /\ y \in Seq(V) /\ Len(y) = (IF (m + p) + k < m + n THEN m + n ELSE (m + p) + k)
      /\ \A i \in 1..Len(y) : y[i] = IF i <= m + p THEN u[i]
                                     ELSE IF i <= (m + p) + k THEN run[i - (m + p)] ELSE u[i]
  <2> DEFINE q == m + p
  <2> HIDE DEF q
  <2>1. /\ U!Overwrite(u, q, run) \in Seq(V)
        /\ Len(U!Overwrite(u, q, run)) = (IF q + Len(run) < Len(u) THEN Len(u) ELSE q + Len(run))
        /\ \A i \in 1..Len(U!Overwrite(u, q, run)) :
             U!Overwrite(u, q, run)[i] = IF i <= q THEN u[i] ELSE IF i <= q + Len(run) THEN run[i - q] ELSE u[i]
    BY <1>3, <1>5, OverwrittenIn DEF q
  <2> QED BY <1>3, <2>1 DEF q, k
<1> HIDE DEF x, y
<1>7. Len(x) = Len(y)
  BY <1>1, <1>2, <1>4, <1>6
<1>8. ASSUME NEW i \in 1..Len(x) PROVE x[i] = y[i]
  <2>0. i \in 1..m + Len(w) /\ i \in 1..Len(y) /\ Len(w) \in Nat
    <3>1. i \in 1..Len(x) /\ Len(x) = m + Len(w) /\ Len(x) = Len(y)
      BY <1>4, <1>7
    <3>2. Len(w) \in Nat
      BY <1>1, <1>2
    <3> QED BY <3>1, <3>2
  <2>1. CASE i <= m
    <3>1. i \in 1..m + n /\ i <= m + p
      BY <1>1, <2>0, <2>1
    <3> QED BY <1>3, <1>4, <1>6, <2>0, <2>1, <3>1
  <2>2. CASE ~(i <= m)
    <3>1. i - m \in 1..Len(w) /\ x[i] = w[i - m]
      BY <1>1, <1>4, <2>0, <2>2
    <3>2. CASE i - m <= p
      <4>1. i <= m + p /\ i \in 1..m + n
        BY <1>1, <2>0, <3>2
      <4> QED BY <1>2, <1>3, <1>6, <2>0, <2>2, <3>1, <3>2, <4>1
    <3>3. CASE ~(i - m <= p) /\ i - m <= p + k
      <4>1. ~(i <= m + p) /\ i <= (m + p) + k /\ i - (m + p) = (i - m) - p
        BY <1>1, <2>0, <3>3
      <4> QED BY <1>2, <1>6, <2>0, <3>1, <3>3, <4>1
    <3>4. CASE ~(i - m <= p + k)
      <4>1. ~(i <= m + p) /\ ~(i <= (m + p) + k) /\ ~(i - m <= p) /\ i \in 1..m + n
        <5>1. Len(w) = (IF p + k < n THEN n ELSE p + k) /\ i - m \in 1..Len(w) /\ i \in Nat
          BY <1>2, <2>0, <3>1
        <5> QED BY ONLY <1>1, <5>1, <3>4
      <4> QED BY <1>2, <1>3, <1>6, <2>0, <2>2, <3>1, <3>4, <4>1
    <3> QED BY <3>2, <3>3, <3>4
  <2> QED BY <2>1, <2>2
<1>9. x = y
  <2>1. x \in Seq(V) /\ y \in Seq(V) /\ Len(x) = Len(y) /\ \A i \in 1..Len(x) : x[i] = y[i]
    BY <1>4, <1>6, <1>7, <1>8
  <2> QED BY ONLY <2>1, SeqEqual
<1> QED BY <1>9 DEF x, y, w, u, m

LEMMA TriedAreCells == \A s \in U!Data : s \in Seq(BufferCells)
<1> TAKE s \in U!Data
<1>1. PICK n \in 0..2 : s \in [1..n -> BufferBytes]
  BY DEF U!Data
<1>2. s \in [1..n -> BufferCells] /\ n \in Nat
  BY <1>1 DEF BufferCells
<1> QED BY <1>2, SeqDef

\* What every step needs of the state before it.
LEMMA BufferFacts ==
  ASSUME UInv
  PROVE  /\ buffer.open \in BOOLEAN /\ buffer.readOnly \in BOOLEAN /\ buffer.order \in U!Orders
         /\ buffer.block \in Seq(BufferCells) /\ buffer.pos \in Nat /\ buffer.size \in Nat
         /\ log.written \in Seq(BufferCells) /\ log.consumed \in Seq(BufferCells) /\ log.at \in Nat
         /\ Len(buffer.block) \in Nat /\ Len(log.written) \in Nat /\ Len(log.consumed) \in Nat
         /\ buffer.open => /\ log.consumed \o buffer.block = log.written
                           /\ Len(log.written) = Len(log.consumed) + Len(buffer.block)
                           /\ log.at = Len(log.consumed) + buffer.pos
                           /\ buffer.pos <= Len(buffer.block) /\ buffer.size = Len(buffer.block)
<1>1. /\ buffer.open \in BOOLEAN /\ buffer.readOnly \in BOOLEAN /\ buffer.order \in U!Orders
      /\ buffer.block \in Seq(BufferCells) /\ buffer.pos \in Nat /\ buffer.size \in Nat
      /\ log.written \in Seq(BufferCells) /\ log.consumed \in Seq(BufferCells) /\ log.at \in Nat
  BY DEF UInv, BufferTyped
<1>2. Len(buffer.block) \in Nat /\ Len(log.written) \in Nat /\ Len(log.consumed) \in Nat
  BY <1>1, LenProperties
<1>3. Len(log.consumed \o buffer.block) = Len(log.consumed) + Len(buffer.block)
  BY <1>1, ConcatProperties
<1>4. buffer.open => /\ log.consumed \o buffer.block = log.written
                     /\ log.at = Len(log.consumed) + buffer.pos
                     /\ buffer.pos <= Len(buffer.block) /\ buffer.size = Len(buffer.block)
  BY DEF UInv, Aligned
<1> QED BY <1>1, <1>2, <1>3, <1>4

LEMMA OpensBuffer ==
  ASSUME UInv, NEW readOnly \in BOOLEAN, NEW s \in Seq(BufferCells), U!Opened(buffer, readOnly, s)
  PROVE  UInv'
<1> DEFINE n == Len(s)
<1>1. /\ buffer' = [[buffer EXCEPT !.open = TRUE, !.readOnly = readOnly, !.block = s]
                      EXCEPT !.size = n, !.pos = U!Least(@, n)]
      /\ log' = [written |-> s, consumed |-> <<>>, at |-> buffer'.pos]
  BY DEF U!Opened, U!setSize_Stream
<1>2. n \in Nat /\ <<>> \in Seq(BufferCells) /\ Len(<<>>) = 0 /\ <<>> \o s = s
  BY LenProperties, EmptySeq, ConcatEmptySeq
<1> HIDE DEF n
<1>3. U!Least(buffer.pos, n) \in Nat /\ U!Least(buffer.pos, n) <= n
  <2>1. buffer.pos \in Nat
    BY BufferFacts
  <2>2. U!Least(buffer.pos, n) = IF buffer.pos < n THEN buffer.pos ELSE n
    BY <1>2, <2>1, Smaller
  <2> HIDE DEF U!Least
  <2> QED BY <1>2, <2>1, <2>2
<1> HIDE DEF U!Least
<1>4. BufferTyped(buffer', log')
  BY <1>1, <1>2, <1>3 DEF UInv, BufferTyped
<1>5. /\ buffer'.block = s /\ buffer'.pos = U!Least(buffer.pos, n) /\ buffer'.size = n
      /\ log'.written = s /\ log'.consumed = <<>> /\ log'.at = buffer'.pos
  BY <1>1 DEF UInv, BufferTyped
<1>6. Aligned(buffer', log')
  BY <1>2, <1>3, <1>5 DEF Aligned, n
<1> QED BY <1>4, <1>6 DEF UInv

LEMMA ClosesBuffer ==
  ASSUME UInv, U!close_Buffer
  PROVE  UInv'
<1>1. buffer' = [buffer EXCEPT !.open = FALSE, !.block = <<>>] /\ log' = log
  BY DEF U!close_Buffer
<1>2. <<>> \in Seq(BufferCells)
  BY EmptySeq
<1>3. BufferTyped(buffer', log') /\ ~buffer'.open
  BY <1>1, <1>2 DEF UInv, BufferTyped
<1> QED BY <1>3 DEF UInv, Aligned

\* Nothing is left behind what was consumed, and the position is there.
LEMMA EmptiesBuffer ==
  ASSUME UInv, NEW c \in Seq(BufferCells),
         buffer' = U!setSize_Stream([buffer EXCEPT !.block = <<>>], 0),
         log' \in [written : {c}, consumed : {c}, at : {Len(c)}]
  PROVE  UInv'
<1>1. buffer' = [[buffer EXCEPT !.block = <<>>] EXCEPT !.size = 0, !.pos = U!Least(@, 0)]
  BY DEF U!setSize_Stream
<1>2. <<>> \in Seq(BufferCells) /\ Len(<<>>) = 0 /\ c \o <<>> = c /\ Len(c) \in Nat
  BY LenProperties, EmptySeq, ConcatEmptySeq
<1>3. U!Least(buffer.pos, 0) = 0
  <2>1. buffer.pos \in Nat
    BY BufferFacts
  <2> QED BY <2>1, Smaller
<1> HIDE DEF U!Least
<1>4. BufferTyped(buffer', log')
  <2>1. log' \in [written : Seq(BufferCells), consumed : Seq(BufferCells), at : Nat]
    BY <1>2
  <2>2. buffer' = [buffer EXCEPT !.block = <<>>, !.size = 0, !.pos = 0]
    BY <1>1, <1>3 DEF UInv, BufferTyped
  <2>3. buffer' \in [open : BOOLEAN, readOnly : BOOLEAN, block : Seq(BufferCells), pos : Nat, size : Nat,
                     order : U!Orders]
    <3> DEFINE e == <<>>
    <3>1. e \in Seq(BufferCells) /\ buffer' = [buffer EXCEPT !.block = e, !.size = 0, !.pos = 0]
      BY <1>2, <2>2
    <3>2. buffer \in [open : BOOLEAN, readOnly : BOOLEAN, block : Seq(BufferCells), pos : Nat, size : Nat,
                      order : U!Orders]
      BY DEF UInv, BufferTyped
    <3> HIDE DEF e
    <3> QED BY ONLY <3>1, <3>2
  <2> QED BY <2>1, <2>3 DEF BufferTyped
<1>5. /\ buffer'.block = <<>> /\ buffer'.pos = 0 /\ buffer'.size = 0
      /\ log'.written = c /\ log'.consumed = c /\ log'.at = Len(c)
  BY <1>1, <1>3 DEF UInv, BufferTyped
<1> QED BY <1>2, <1>4, <1>5 DEF UInv, Aligned

LEMMA ClearsBuffer ==
  ASSUME UInv, U!clear_Buffer
  PROVE  UInv'
<1>1. /\ buffer' = U!setSize_Stream([buffer EXCEPT !.block = <<>>], 0)
      /\ log' = [written |-> log.consumed, consumed |-> log.consumed, at |-> Len(log.consumed)]
  BY DEF U!clear_Buffer
<1> QED BY <1>1, BufferFacts, EmptiesBuffer

LEMMA ConsumesAll ==
  ASSUME UInv, U!consumeAll_Buffer
  PROVE  UInv'
<1>1. /\ buffer' = U!setSize_Stream([buffer EXCEPT !.block = <<>>], 0)
      /\ log' = [log EXCEPT !.consumed = @ \o buffer.block, !.at = Len(log.written)]
      /\ buffer.open
  BY DEF U!consumeAll_Buffer
<1>2. log.written \in Seq(BufferCells) /\ log.consumed \o buffer.block = log.written
  BY <1>1, BufferFacts
<1>3. log' \in [written : {log.written}, consumed : {log.written}, at : {Len(log.written)}]
  BY <1>1, <1>2 DEF UInv, BufferTyped
<1> QED BY <1>1, <1>2, <1>3, EmptiesBuffer

LEMMA SeeksBuffer ==
  ASSUME UInv, NEW offset \in Nat, U!seek_Stream(offset)
  PROVE  UInv'
<1> DEFINE n == Len(buffer.block)
           m == Len(log.consumed)
           w == Len(log.written)
           p == U!Least(offset, n)
           q == U!Least(m + offset, w)
<1>1. buffer.open /\ buffer' = [buffer EXCEPT !.pos = p] /\ log' = [log EXCEPT !.at = q]
  BY DEF U!seek_Stream
<1>2. n \in Nat /\ m \in Nat /\ w = m + n /\ log.consumed \o buffer.block = log.written /\ buffer.size = n
  BY <1>1, BufferFacts
<1>3. p \in Nat /\ q \in Nat /\ p <= n /\ q = m + p
  <2> HIDE DEF n, m, w
  <2>1. m + offset \in Nat /\ w \in Nat
    BY <1>2
  <2>2. p = (IF offset < n THEN offset ELSE n) /\ q = (IF m + offset < w THEN m + offset ELSE w)
    BY <1>2, <2>1, Smaller
  <2> HIDE DEF p, q
  <2> QED BY <1>2, <2>2
<1> HIDE DEF p, q
<1>4. BufferTyped(buffer', log')
  BY <1>1, <1>3 DEF UInv, BufferTyped
<1>5. /\ buffer'.block = buffer.block /\ buffer'.pos = p /\ buffer'.size = buffer.size
      /\ log'.written = log.written /\ log'.consumed = log.consumed /\ log'.at = q
  BY <1>1 DEF UInv, BufferTyped
<1> QED BY <1>2, <1>3, <1>4, <1>5 DEF UInv, Aligned

LEMMA ReadsBuffer ==
  ASSUME UInv, NEW count \in Nat, U!Read(count)
  PROVE  UInv'
<1> DEFINE n == Len(buffer.block)
           m == Len(log.consumed)
           w == Len(log.written)
           k == Len(U!read_Buffer_(buffer, count))
           q == U!Least(log.at + count, w)
           g == U!Most(buffer.size, buffer.pos + k)
<1>1. /\ buffer.open /\ log' = [log EXCEPT !.at = q]
      /\ buffer' = [buffer EXCEPT !.pos = @ + k, !.size = U!Most(@, buffer.pos + k)]
  BY DEF U!Read, U!readData_Stream, U!Moved
<1>2. /\ n \in Nat /\ m \in Nat /\ w = m + n /\ log.consumed \o buffer.block = log.written
      /\ buffer.size = n /\ buffer.pos \in Nat /\ buffer.pos <= n /\ log.at = m + buffer.pos
  BY <1>1, BufferFacts
<1>n. /\ n \in Nat /\ m \in Nat /\ w = m + n /\ count \in Nat
      /\ buffer.size = n /\ buffer.pos \in Nat /\ buffer.pos <= n /\ log.at = m + buffer.pos
  BY <1>2
<1>3. k \in Nat /\ k = IF buffer.pos + count < n THEN count ELSE n - buffer.pos
  <2> DEFINE p == buffer.pos
             e == U!Least(p + count, n)
             t == SubSeq(buffer.block, p + 1, e)
  <2>1. e \in Nat /\ e = IF p + count < n THEN p + count ELSE n
    <3>1. p + count \in Nat /\ n \in Nat
      BY <1>2
    <3> HIDE DEF p, n
    <3> QED BY <3>1, Smaller
  <2>2. Len(t) = IF p + 1 <= e THEN e - (p + 1) + 1 ELSE 0
    <3>1. \A i \in (p + 1)..e : buffer.block[i] \in BufferCells
      <4>1. buffer.block \in Seq(BufferCells)
        BY BufferFacts
      <4>2. \A i \in (p + 1)..e : i \in 1..n
        <5> HIDE DEF e, n
        <5> QED BY <1>2, <2>1
      <4> QED BY <4>1, <4>2, ElementOfSeq
    <3> DEFINE f == p + 1
    <3>2. f \in Int /\ e \in Int /\ \A i \in f..e : buffer.block[i] \in BufferCells
      BY <1>2, <2>1, <3>1
    <3> HIDE DEF f, e
    <3>3. Len(SubSeq(buffer.block, f, e)) = IF f <= e THEN e - f + 1 ELSE 0
      BY <3>2, SubSeqProperties
    <3> QED BY <3>3 DEF f
  <2>3. U!read_Buffer_(buffer, count) = IF p = n THEN <<>> ELSE t
    BY <1>2 DEF U!read_Buffer_
  <2>4. k = IF p = n THEN 0 ELSE Len(t)
    BY <2>3, EmptySeq
  <2> DEFINE j == buffer.pos
  <2>6. /\ j \in Nat /\ n \in Nat /\ j <= n /\ count \in Nat /\ e = (IF j + count < n THEN j + count ELSE n)
        /\ k = IF j = n THEN 0 ELSE IF j + 1 <= e THEN e - (j + 1) + 1 ELSE 0
    BY <1>n, <2>1, <2>2, <2>4
  <2> HIDE DEF t, e, n, k, j, p
  <2>7. k \in Nat /\ k = IF j + count < n THEN count ELSE n - j
    BY ONLY <2>6
  <2> QED BY <2>7 DEF j
<1>4. q = m + (buffer.pos + k) /\ g = n /\ q \in Nat /\ g \in Nat /\ buffer.pos + k \in Nat /\ buffer.pos + k <= n
  <2> HIDE DEF n, m, w, k
  <2>1. log.at + count \in Nat /\ w \in Nat /\ buffer.size \in Nat /\ buffer.pos + k \in Nat
    BY ONLY <1>n, <1>3
  <2>2. /\ q = (IF log.at + count < w THEN log.at + count ELSE w)
        /\ g = (IF buffer.size > buffer.pos + k THEN buffer.size ELSE buffer.pos + k)
    BY <2>1, Smaller
  <2> HIDE DEF q, g
  <2> QED BY ONLY <1>n, <1>3, <2>2
<1>5. buffer' = [buffer EXCEPT !.pos = @ + k, !.size = g]
  BY <1>1 DEF UInv, BufferTyped
<1> HIDE DEF q, k, g
<1>6. BufferTyped(buffer', log')
  BY <1>1, <1>4, <1>5 DEF UInv, BufferTyped
<1>7. /\ buffer'.block = buffer.block /\ buffer'.pos = buffer.pos + k /\ buffer'.size = g
      /\ log'.written = log.written /\ log'.consumed = log.consumed /\ log'.at = q
  BY <1>1, <1>5 DEF UInv, BufferTyped
<1> QED BY <1>2, <1>4, <1>6, <1>7 DEF UInv, Aligned

LEMMA WritesBuffer ==
  ASSUME UInv, NEW s \in Seq(BufferCells), U!writeData_Stream(s)
  PROVE  UInv'
<1> DEFINE n == Len(buffer.block)
           m == Len(log.consumed)
           p == buffer.pos
           k == Len(s)
           t == U!Overwrite(buffer.block, p, s)
           v == U!Overwrite(log.written, log.at, s)
           c == U!Most(buffer.size, p + k)
<1>1. buffer.open
  BY DEF U!writeData_Stream
<1>2. /\ n \in Nat /\ m \in Nat /\ Len(log.written) = m + n /\ log.consumed \o buffer.block = log.written
      /\ buffer.size = n /\ p \in Nat /\ p <= n /\ log.at = m + p /\ k \in Nat
      /\ buffer.block \in Seq(BufferCells) /\ log.written \in Seq(BufferCells)
      /\ log.consumed \in Seq(BufferCells)
  BY <1>1, BufferFacts, LenProperties
<1>3. CASE buffer.readOnly
  <2>1. buffer' = buffer /\ log' = log
    BY <1>3 DEF U!writeData_Stream, U!bufferVars
  <2> QED BY <2>1 DEF UInv
<1>4. CASE ~buffer.readOnly
  <2>1. /\ buffer' = [[buffer EXCEPT !.block = U!Overwrite(@, buffer.pos, s)]
                        EXCEPT !.pos = @ + k, !.size = U!Most(@, buffer.pos + k)]
        /\ log' = [log EXCEPT !.written = U!Overwrite(@, log.at, s), !.at = @ + k]
    BY <1>4 DEF U!writeData_Stream, U!Moved, UInv, BufferTyped
  <2>2. t \in Seq(BufferCells) /\ Len(t) = IF p + k < n THEN n ELSE p + k
    <3>1. p \in 0..Len(buffer.block)
      BY <1>2
    <3> QED BY <1>2, <3>1, OverwrittenIn
  <2>3. v = log.consumed \o t
    <3>1. p \in 0..Len(buffer.block)
      BY <1>2
    <3> HIDE DEF p
    <3>2. log.consumed \o t = U!Overwrite(log.consumed \o buffer.block, m + p, s)
      <4>1. log.consumed \in Seq(BufferCells) /\ buffer.block \in Seq(BufferCells)
        BY <1>2
      <4> HIDE DEF U!Overwrite
      <4> QED BY <3>1, <4>1, OverwriteBehind
    <3> HIDE DEF U!Overwrite
    <3> QED BY <1>2, <3>2
  <2>4. v \in Seq(BufferCells)
    <3> HIDE DEF t, v
    <3> QED BY <1>2, <2>2, <2>3, ConcatProperties
  <2>5. c \in Nat /\ c = Len(t)
    <3> HIDE DEF n, k, p, t
    <3>1. buffer.size \in Nat /\ p + k \in Nat
      BY <1>2
    <3>2. c = IF buffer.size > p + k THEN buffer.size ELSE p + k
      BY <3>1, Smaller
    <3> HIDE DEF c
    <3> QED BY <1>2, <2>2, <3>1, <3>2
  <2>6. /\ buffer' = [buffer EXCEPT !.block = t, !.pos = p + k, !.size = c]
        /\ log' = [log EXCEPT !.written = v, !.at = log.at + k]
    <3> HIDE DEF U!Overwrite, U!Most
    <3> QED BY <2>1 DEF UInv, BufferTyped
  <2>7. p + k \in Nat /\ log.at + k \in Nat /\ p + k <= Len(t) /\ log.at + k = m + (p + k)
    <3> HIDE DEF n, k, m, p, t
    <3> QED BY <1>2, <2>2
  <2> HIDE DEF t, v, c, k, p
  <2>8. BufferTyped(buffer', log')
    BY <2>2, <2>4, <2>5, <2>6, <2>7 DEF UInv, BufferTyped
  <2>9. /\ buffer'.block = t /\ buffer'.pos = p + k /\ buffer'.size = c
        /\ log'.written = v /\ log'.consumed = log.consumed /\ log'.at = log.at + k
    BY <2>6 DEF UInv, BufferTyped
  <2> QED BY <2>3, <2>5, <2>7, <2>8, <2>9 DEF UInv, Aligned
<1> QED BY <1>3, <1>4, BufferFacts

LEMMA WritesInteger ==
  ASSUME UInv, NEW i \in 0..U!Base * U!Base - 1, U!write16_Stream(i)
  PROVE  UInv'
<1>1. U!Base \in Nat
  <2>1. U!Base = Cardinality(BufferBytes)
    BY DEF U!Base, U!Cardinality, Cardinality
  <2> QED BY <2>1, FS_CardinalityType, DataAssumption
<1>2. i % U!Base \in Int /\ i \div U!Base \in Int
  <2> DEFINE b == U!Base
  <2> HIDE DEF U!Base
  <2>1. b \in Nat /\ i \in 0..b * b - 1
    BY <1>1
  <2>2. b # 0
    BY <2>1
  <2> HIDE DEF b
  <2>3. i % b \in Int /\ i \div b \in Int
    BY <2>1, <2>2
  <2> QED BY <2>3 DEF b
<1>3. U!order16(i, buffer.order) \in Seq(BufferCells)
  <2> DEFINE x == i % U!Base
             y == i \div U!Base
  <2>1. x \in BufferCells /\ y \in BufferCells
    BY <1>2 DEF BufferCells
  <2>2. U!order16(i, buffer.order) = <<x, y>> \/ U!order16(i, buffer.order) = <<y, x>>
    BY DEF U!order16
  <2> HIDE DEF x, y
  <2>3. <<x, y>> \in Seq(BufferCells) /\ <<y, x>> \in Seq(BufferCells)
    BY <2>1
  <2> QED BY <2>2, <2>3
<1> QED BY <1>3, WritesBuffer DEF U!write16_Stream

LEMMA SetsOrder ==
  ASSUME UInv, NEW order \in U!Orders, U!setByteOrder_Stream(order)
  PROVE  UInv'
<1>1. buffer' = [buffer EXCEPT !.order = order] /\ log' = log
  BY DEF U!setByteOrder_Stream
<1>2. BufferTyped(buffer', log')
  BY <1>1 DEF UInv, BufferTyped
<1>3. /\ buffer'.open = buffer.open /\ buffer'.block = buffer.block /\ buffer'.pos = buffer.pos
      /\ buffer'.size = buffer.size
  BY <1>1 DEF UInv, BufferTyped
<1>4. Aligned(buffer', log')
  BY <1>1, <1>3 DEF UInv, Aligned
<1> QED BY <1>2, <1>4 DEF UInv

LEMMA Consumes ==
  ASSUME UInv, NEW count \in Nat, U!consume_Buffer(count)
  PROVE  UInv'
<1> DEFINE n == Len(buffer.block)
           m == Len(log.consumed)
           k == U!Least(count, n)
           a == SubSeq(buffer.block, 1, k)
           b == SubSeq(buffer.block, k + 1, n)
           c == log.consumed \o a
<1>1. buffer.open /\ buffer.pos >= k /\ log' = [log EXCEPT !.consumed = c] /\ buffer' = U!consumed_(buffer, count)
  BY DEF U!consume_Buffer, UInv, BufferTyped
<1>2. /\ n \in Nat /\ m \in Nat /\ log.consumed \o buffer.block = log.written
      /\ buffer.size = n /\ buffer.pos \in Nat /\ buffer.pos <= n /\ log.at = m + buffer.pos
      /\ buffer.block \in Seq(BufferCells) /\ log.consumed \in Seq(BufferCells)
  BY <1>1, BufferFacts
<1>3. k \in Nat /\ k <= n
  <2> HIDE DEF n
  <2>1. k = IF count < n THEN count ELSE n
    BY <1>2, Smaller
  <2> HIDE DEF k
  <2> QED BY <1>2, <2>1
<1>4. a \in Seq(BufferCells) /\ Len(a) = k /\ b \in Seq(BufferCells) /\ Len(b) = n - k
  <2>1. k \in 0..Len(buffer.block) /\ buffer.block \in Seq(BufferCells)
    BY <1>2, <1>3
  <2> HIDE DEF k
  <2> QED BY <2>1, FirstPart, LastPart
<1>5. a \o b = buffer.block
  <2>1. k \in 0..Len(buffer.block) /\ buffer.block \in Seq(BufferCells)
    BY <1>2, <1>3
  <2> HIDE DEF k
  <2> DEFINE x == a \o b
             s == buffer.block
  <2>2. /\ \A i \in 1..k : a[i] = s[i]
        /\ \A i \in 1..n - k : b[i] = s[k + i]
    <3> HIDE DEF k
    <3> QED BY <2>1, FirstPart, LastPart
  <2> HIDE DEF a, b, s
  <2>3. /\ x \in Seq(BufferCells) /\ Len(x) = Len(a) + Len(b)
        /\ \A i \in 1..Len(a) + Len(b) : x[i] = IF i <= Len(a) THEN a[i] ELSE b[i - Len(a)]
    <3>1. a \in Seq(BufferCells) /\ b \in Seq(BufferCells)
      BY <1>4
    <3> QED BY ONLY <3>1, Joined
  <2> HIDE DEF x, k
  <2>4. s \in Seq(BufferCells) /\ Len(s) = n
    BY <1>2 DEF s
  <2> HIDE DEF n
  <2>5. Len(x) = n
    BY <1>2, <1>3, <1>4, <2>3
  <2>6. ASSUME NEW i \in 1..n PROVE x[i] = s[i]
    <3>1. i \in 1..Len(a) + Len(b) /\ Len(a) = k
      BY <1>2, <1>3, <1>4
    <3>2. CASE i <= k
      <4>1. i \in 1..k
        BY <1>3, <3>2
      <4> QED BY <2>2, <2>3, <3>1, <3>2, <4>1
    <3>3. CASE ~(i <= k)
      <4>1. i - k \in 1..n - k /\ k + (i - k) = i
        BY <1>2, <1>3, <3>3
      <4> QED BY <2>2, <2>3, <3>1, <3>3, <4>1
    <3> QED BY <3>2, <3>3
  <2>7. x = s
    <3>1. x \in Seq(BufferCells) /\ s \in Seq(BufferCells) /\ Len(x) = Len(s) /\ \A i \in 1..Len(x) : x[i] = s[i]
      BY <2>3, <2>4, <2>5, <2>6
    <3> QED BY ONLY <3>1, SeqEqual
  <2> QED BY <2>7 DEF x, s
<1>6. c \in Seq(BufferCells) /\ Len(c) = m + k /\ c \o b = log.written
  <2> HIDE DEF a, b
  <2>1. c \in Seq(BufferCells) /\ Len(c) = m + Len(a)
    <3>1. log.consumed \in Seq(BufferCells) /\ a \in Seq(BufferCells)
      BY <1>2, <1>4
    <3> QED BY ONLY <3>1, Joined
  <2>2. c = log.consumed \o a
    OBVIOUS
  <2>3. log.consumed \in Seq(BufferCells) /\ a \in Seq(BufferCells) /\ b \in Seq(BufferCells)
    BY <1>2, <1>4
  <2> DEFINE l == log.consumed
  <2>4. l \in Seq(BufferCells) /\ c = l \o a
    BY <2>2, <2>3
  <2> HIDE DEF c, l
  <2>5. (l \o a) \o b = l \o (a \o b)
    BY <2>3, <2>4, ConcatAssociative
  <2>6. c \o b = l \o (a \o b)
    BY ONLY <2>4, <2>5
  <2>7. c \o b = log.consumed \o (a \o b)
    BY <2>6 DEF l
  <2> QED BY <1>2, <1>4, <1>5, <2>1, <2>7
<1>7. buffer' = [buffer EXCEPT !.block = b, !.size = n - k, !.pos = buffer.pos - k]
  <2> DEFINE d == [buffer EXCEPT !.pos = 0]
  <2>1. d.pos = 0 /\ d.size = n /\ d.block = buffer.block
    BY <1>2 DEF UInv, BufferTyped
  <2>2. 0 + count = count
    OBVIOUS
  <2>3. U!read_Buffer_(d, count) = IF n = 0 THEN <<>> ELSE a
    <3>1. d.pos + 1 = 1 /\ d.pos + count = count /\ (d.pos = d.size <=> n = 0)
      BY <2>1
    <3> HIDE DEF d
    <3> QED BY <2>1, <3>1 DEF U!read_Buffer_
  <2>4. Len(U!read_Buffer_(d, count)) = k
    <3> HIDE DEF a, d
    <3>1. n = 0 => k = 0
      <4> HIDE DEF k, n
      <4> QED BY <1>2, <1>3
    <3> QED BY <1>4, <2>3, <3>1, EmptySeq
  <2>5. buffer' = [U!setSize_Stream([buffer EXCEPT !.block = SubSeq(@, k + 1, Len(@))], Len(buffer.block) - k)
                     EXCEPT !.pos = buffer.pos - k]
    <3> HIDE DEF k
    <3> QED BY <1>1, <2>4 DEF U!consumed_, d
  <2> HIDE DEF k
  <2> QED BY <2>5 DEF U!setSize_Stream, UInv, BufferTyped
<1>8. n - k \in Nat /\ buffer.pos - k \in Nat /\ buffer.pos - k <= n - k /\ log.at = (m + k) + (buffer.pos - k)
  <2> HIDE DEF n, m, k
  <2> DEFINE p == buffer.pos
             t == log.at
  <2>1. n \in Nat /\ m \in Nat /\ p \in Nat /\ k \in Nat /\ k <= n /\ p >= k /\ p <= n /\ t = m + p
    BY <1>1, <1>2, <1>3
  <2> HIDE DEF p, t
  <2>2. n - k \in Nat /\ p - k \in Nat /\ p - k <= n - k /\ t = (m + k) + (p - k)
    BY ONLY <2>1
  <2> QED BY <2>2 DEF p, t
<1> HIDE DEF b, c, k, n
<1>9. BufferTyped(buffer', log')
  BY <1>1, <1>4, <1>6, <1>7, <1>8 DEF UInv, BufferTyped
<1>10. /\ buffer'.block = b /\ buffer'.pos = buffer.pos - k /\ buffer'.size = n - k
       /\ log'.written = log.written /\ log'.consumed = c /\ log'.at = log.at
  BY <1>1, <1>7 DEF UInv, BufferTyped
<1> QED BY <1>4, <1>6, <1>8, <1>9, <1>10 DEF UInv, Aligned

LEMMA BufferInit == U!Init => UInv
<1> SUFFICES ASSUME U!Init PROVE UInv
  OBVIOUS
<1>1. /\ buffer = [open |-> FALSE, readOnly |-> FALSE, block |-> <<>>, pos |-> 0, size |-> 0, order |-> "little"]
      /\ log = [written |-> <<>>, consumed |-> <<>>, at |-> 0]
  BY DEF U!Init
<1>2. <<>> \in Seq(BufferCells) /\ "little" \in U!Orders
  BY EmptySeq DEF U!Orders
<1>3. BufferTyped(buffer, log) /\ ~buffer.open
  BY <1>1, <1>2 DEF BufferTyped
<1> QED BY <1>3 DEF UInv, Aligned

LEMMA BufferStep ==
  ASSUME UInv, [U!Next]_bufferVars
  PROVE  UInv'
<1>1. CASE UNCHANGED bufferVars
  BY <1>1 DEF bufferVars, UInv
<1>2. CASE U!Next
  <2>1. ASSUME NEW s \in U!Data, U!open_Buffer(s) \/ U!openData_Buffer(s) \/ U!writeData_Stream(s) PROVE UInv'
    <3>1. s \in Seq(BufferCells)
      BY TriedAreCells
    <3> QED BY <2>1, <3>1, OpensBuffer, WritesBuffer DEF U!open_Buffer, U!openData_Buffer
  <2>2. ASSUME U!openEmpty_Buffer PROVE UInv'
    <3>1. <<>> \in Seq(BufferCells)
      BY EmptySeq
    <3> QED BY <2>2, <3>1, OpensBuffer DEF U!openEmpty_Buffer
  <2>3. ASSUME NEW n \in 0..MaxPos, U!seek_Stream(n) \/ U!Read(n) \/ U!consume_Buffer(n) PROVE UInv'
    <3>1. n \in Nat
      BY DataAssumption
    <3> QED BY <2>3, <3>1, SeeksBuffer, ReadsBuffer, Consumes
  <2>4. ASSUME NEW i \in 0..U!Base * U!Base - 1, U!write16_Stream(i) PROVE UInv'
    BY <2>4, WritesInteger
  <2>5. ASSUME NEW order \in U!Orders, U!setByteOrder_Stream(order) PROVE UInv'
    BY <2>5, SetsOrder
  <2> QED BY <1>2, <2>1, <2>2, <2>3, <2>4, <2>5, ClosesBuffer, ClearsBuffer, ConsumesAll DEF U!Next
<1> QED BY <1>1, <1>2

LEMMA BufferSafe ==
  ASSUME UInv
  PROVE  U!BufferIsAQueue
<1>1. buffer.open => /\ log.consumed \o buffer.block = log.written
                     /\ buffer.pos = log.at - Len(log.consumed)
                     /\ buffer.size = Len(buffer.block)
  <2> SUFFICES ASSUME buffer.open PROVE buffer.pos = log.at - Len(log.consumed)
    BY BufferFacts
  <2>1. buffer.pos \in Nat /\ Len(log.consumed) \in Nat /\ log.at = Len(log.consumed) + buffer.pos
    BY BufferFacts
  <2> QED BY <2>1
<1>2. ASSUME NEW i \in 0..U!Base * U!Base - 1 PROVE U!value16(U!order16(i, buffer.order), buffer.order) = i
  <2> DEFINE b == U!Base
             x == i % b
             y == i \div b
  <2>1. U!Base = Cardinality(BufferBytes)
    BY DEF U!Base, U!Cardinality, Cardinality
  <2> HIDE DEF U!Base
  <2>2. b \in Nat
    BY <2>1, FS_CardinalityType, DataAssumption
  <2>3. b # 0 /\ i \in Nat
    BY <2>2
  <2> HIDE DEF b
  <2>4. x + b * y = i /\ b * y + x = i
    BY <2>2, <2>3
  <2>5. buffer.order = "little" \/ buffer.order = "big"
    BY BufferFacts DEF U!Orders
  <2>6. /\ buffer.order = "little" => U!value16(U!order16(i, buffer.order), buffer.order) = x + b * y
        /\ buffer.order = "big" => U!value16(U!order16(i, buffer.order), buffer.order) = b * y + x
    <3> HIDE DEF x, y
    <3>1. /\ buffer.order = "little" => U!order16(i, buffer.order) = <<x, y>>
          /\ buffer.order = "big" => U!order16(i, buffer.order) = <<y, x>>
      BY DEF U!order16, x, y, b
    <3>2. \A u, v : <<u, v>>[1] = u /\ <<u, v>>[2] = v
      OBVIOUS
    <3> QED BY <3>1, <3>2 DEF U!value16, b
  <2> QED BY <2>4, <2>5, <2>6
<1> QED BY <1>1, <1>2 DEF U!BufferIsAQueue

-----------------------------------------------------------------------------
(* Containers that hold references to objects.                               *)

Buckets == {Crc(x) : x \in Keys}
HashNodes == [key : Keys, object : Objects]
ListNodes == [id : 1..MaxItems, object : Objects]

HashHeld(h, o) == O!Cardinality({c \in DOMAIN h : h[c] # O!Free /\ h[c].object = o})
ListHeld(s, o) == O!Cardinality({i \in DOMAIN s : s[i].object = o})
SetHeld(e, o) == O!Cardinality(e \cap {o})
Spare(r, l, h, s, e, o) == r[o] - (HashHeld(h, o) + ListHeld(s, o) + SetHeld(e, o)) - l[o]

\* No two nodes of a list are the same; and what is next for an iterator comes
\* after the node that it stands on.
Unique(s) == \A i, j \in DOMAIN s : s[i].id = s[j].id => i = j

Bound(s, c, i) == c.next # O!End => \E j \in DOMAIN s : i < j /\ s[j] = c.next

Ordered(s, c) == /\ c.value = O!End => c.next = O!End
                 /\ c.value # O!End => \E i \in DOMAIN s : s[i] = c.value /\ Bound(s, c, i)

HTyped == /\ refs \in [Objects -> Int] /\ lost \in [Objects -> Int]
          /\ hash \in [Buckets -> HashNodes \cup {O!Free}]
          /\ objects \in Seq(ListNodes) /\ set \in SUBSET Objects

HInv == /\ HTyped /\ Unique(objects) /\ Ordered(objects, standing)
        /\ \A o \in Objects : Spare(refs, lost, hash, objects, set, o) \in {0, 1}

LEMMA BucketsAreFinite == IsFiniteSet(Buckets)
<1> DEFINE f == [x \in Keys |-> Crc(x)]
<1>1. f \in Surjection(Keys, Buckets)
  BY DEF Surjection, Buckets
<1> HIDE DEF f
<1> QED BY <1>1, FS_Surjection, DataAssumption

LEMMA NotANode ==
  /\ \A n \in HashNodes : n # O!Free
  /\ \A n \in ListNodes : n # O!End
<1>1. ASSUME NEW n \in HashNodes PROVE n # O!Free
  <2>1. DOMAIN n = {"key", "object"} /\ DOMAIN O!Free = {"object"}
    BY DEF HashNodes, O!Free
  <2>2. "key" \in DOMAIN n /\ "key" \notin DOMAIN O!Free
    BY <2>1
  <2> QED BY <2>2
<1>2. ASSUME NEW n \in ListNodes PROVE n # O!End
  <2>1. DOMAIN n = {"id", "object"} /\ DOMAIN O!End = {"at"}
    BY DEF ListNodes, O!End
  <2>2. "id" \in DOMAIN n /\ "id" \notin DOMAIN O!End
    BY <2>1
  <2> QED BY <2>2
<1> QED BY <1>1, <1>2

LEMMA HeldTypes ==
  ASSUME NEW h \in [Buckets -> HashNodes \cup {O!Free}], NEW s \in Seq(ListNodes), NEW e, NEW o
  PROVE  HashHeld(h, o) \in Nat /\ ListHeld(s, o) \in Nat /\ SetHeld(e, o) = IF o \in e THEN 1 ELSE 0
<1> DEFINE a == {c \in DOMAIN h : h[c] # O!Free /\ h[c].object = o}
           b == {i \in DOMAIN s : s[i].object = o}
<1>1. IsFiniteSet(a)
  <2>1. a \in SUBSET Buckets
    OBVIOUS
  <2> QED BY <2>1, BucketsAreFinite, FS_Subset
<1>2. IsFiniteSet(b)
  <2>1. Len(s) \in Nat /\ DOMAIN s = 1..Len(s)
    BY LenProperties
  <2>2. b \in SUBSET (1..Len(s)) /\ IsFiniteSet(1..Len(s))
    BY <2>1, FS_Interval
  <2> QED BY <2>2, FS_Subset
<1> HIDE DEF a, b
<1>3. Cardinality(a) \in Nat /\ Cardinality(b) \in Nat
  BY <1>1, <1>2, FS_CardinalityType
<1>4. O!Cardinality(a) = Cardinality(a) /\ O!Cardinality(b) = Cardinality(b)
      /\ O!Cardinality(e \cap {o}) = Cardinality(e \cap {o})
  BY DEF O!Cardinality, Cardinality
<1>5. Cardinality(e \cap {o}) = IF o \in e THEN 1 ELSE 0
  <2>1. CASE o \in e
    <3>1. e \cap {o} = {o}
      BY <2>1
    <3> QED BY <2>1, <3>1, FS_Singleton
  <2>2. CASE o \notin e
    <3>1. e \cap {o} = {}
      BY <2>2
    <3> QED BY <2>2, <3>1, FS_EmptySet
  <2> QED BY <2>1, <2>2
<1> HIDE DEF O!Cardinality
<1> QED BY <1>3, <1>4, <1>5 DEF HashHeld, ListHeld, SetHeld, a, b

\* What one node of the hash holds.
Held(n, o) == IF n # O!Free /\ n.object = o THEN 1 ELSE 0

\* g is the hash h with the node n in the bucket c.
Bucketed(h, g, c, n) == /\ h \in [Buckets -> HashNodes \cup {O!Free}] /\ c \in Buckets
                        /\ n \in HashNodes \cup {O!Free} /\ g = [h EXCEPT ![c] = n]

LEMMA HashMoves ==
  ASSUME NEW h, NEW g, NEW c, NEW n, NEW o, Bucketed(h, g, c, n)
  PROVE  HashHeld(g, o) = (HashHeld(h, o) - Held(h[c], o)) + Held(n, o)
<1> DEFINE a == {x \in Buckets : h[x] # O!Free /\ h[x].object = o}
           b == {x \in Buckets : g[x] # O!Free /\ g[x].object = o}
<1>1. /\ h \in [Buckets -> HashNodes \cup {O!Free}] /\ c \in Buckets /\ n \in HashNodes \cup {O!Free}
      /\ g \in [Buckets -> HashNodes \cup {O!Free}] /\ g[c] = n /\ \A x \in Buckets : x # c => g[x] = h[x]
  BY DEF Bucketed
<1>2. HashHeld(h, o) = O!Cardinality(a) /\ HashHeld(g, o) = O!Cardinality(b)
  BY <1>1 DEF HashHeld
<1>3. Apart(Buckets, a, b, c)
  BY <1>1, BucketsAreFinite DEF Apart
<1>4. Held(h[c], o) = (IF c \in a THEN 1 ELSE 0) /\ Held(n, o) = (IF c \in b THEN 1 ELSE 0)
  BY <1>1 DEF Held
<1> HIDE DEF a, b
<1>5. O!Cardinality(a) = R!Cardinality(a) /\ O!Cardinality(b) = R!Cardinality(b)
  BY DEF O!Cardinality, R!Cardinality
<1> HIDE DEF O!Cardinality, R!Cardinality
<1>6. /\ R!Cardinality(a) \in Nat /\ R!Cardinality(b) \in Nat
      /\ R!Cardinality(b) = R!Cardinality(a) - (IF c \in a THEN 1 ELSE 0) + (IF c \in b THEN 1 ELSE 0)
  BY <1>3, ApartIn
<1> QED BY <1>2, <1>4, <1>5, <1>6

\* t is the list s with the node e put at pos; s is t with what is there taken
\* out.
OneMore(s, t, pos, e) ==
  /\ s \in Seq(ListNodes) /\ t \in Seq(ListNodes) /\ Len(t) = Len(s) + 1 /\ pos \in 1..Len(s) + 1
  /\ t[pos] = e
  /\ \A i \in 1..pos - 1 : t[i] = s[i]
  /\ \A i \in pos..Len(s) : t[i + 1] = s[i]

LEMMA ListMoves ==
  ASSUME NEW s, NEW t, NEW pos, NEW e, NEW o, OneMore(s, t, pos, e)
  PROVE  ListHeld(t, o) = ListHeld(s, o) + (IF e.object = o THEN 1 ELSE 0)
<1> DEFINE n == Len(s)
           a == {i \in 1..n : s[i].object = o}
           b == {i \in 1..n + 1 : t[i].object = o}
           f == [i \in a |-> IF i < pos THEN i ELSE i + 1]
<1>1. /\ n \in Nat /\ DOMAIN s = 1..n /\ DOMAIN t = 1..n + 1 /\ pos \in 1..n + 1 /\ t[pos] = e
      /\ \A i \in 1..pos - 1 : t[i] = s[i]
      /\ \A i \in pos..n : t[i + 1] = s[i]
  BY LenProperties DEF OneMore
<1>2. ListHeld(s, o) = O!Cardinality(a) /\ ListHeld(t, o) = O!Cardinality(b)
  BY <1>1 DEF ListHeld
<1> HIDE DEF n
<1>3. \A i \in a : /\ f[i] \in b \ {pos} /\ f[i] = IF i < pos THEN i ELSE i + 1
  <2> TAKE i \in a
  <2>1. CASE i < pos
    <3>1. i \in 1..pos - 1 /\ i \in 1..n + 1 /\ i # pos
      BY <1>1, <2>1
    <3> QED BY <1>1, <2>1, <3>1
  <2>2. CASE ~(i < pos)
    <3>1. i \in pos..n /\ i + 1 \in 1..n + 1 /\ i + 1 # pos
      BY <1>1, <2>2
    <3> QED BY <1>1, <2>2, <3>1
  <2> QED BY <2>1, <2>2
<1>4. \A j \in b \ {pos} : \E i \in a : f[i] = j
  <2> TAKE j \in b \ {pos}
  <2>1. CASE j < pos
    <3>1. j \in 1..pos - 1 /\ j \in 1..n
      BY <1>1, <2>1
    <3>2. j \in a
      BY <1>1, <3>1
    <3> QED BY <2>1, <3>2
  <2>2. CASE ~(j < pos)
    <3>1. j - 1 \in pos..n /\ j - 1 \in 1..n /\ (j - 1) + 1 = j /\ ~(j - 1 < pos)
      BY <1>1, <2>2
    <3>2. j - 1 \in a
      BY <1>1, <3>1
    <3> QED BY <3>1, <3>2
  <2> QED BY <2>1, <2>2
<1>5. a \subseteq Int /\ pos \in Int
  BY <1>1
<1>6. IsFiniteSet(a) /\ IsFiniteSet(b)
  <2>1. a \in SUBSET (1..n) /\ b \in SUBSET (1..n + 1)
    OBVIOUS
  <2>2. IsFiniteSet(1..n) /\ IsFiniteSet(1..n + 1)
    BY <1>1, FS_Interval
  <2> QED BY <2>1, <2>2, FS_Subset
<1>7. DOMAIN f = a /\ f \in [a -> b \ {pos}]
  BY <1>3
<1>8. pos \in b <=> e.object = o
  BY <1>1
<1> HIDE DEF a, b, f
<1>9. f \in Injection(a, b \ {pos})
  <2>1. \A i, j \in a : f[i] = f[j] => i = j
    BY <1>3, <1>5
  <2> QED BY <1>7, <2>1 DEF Injection, IsInjective
<1>10. f \in Surjection(a, b \ {pos})
  BY <1>4, <1>7 DEF Surjection
<1>11. ExistsBijection(a, b \ {pos})
  BY <1>9, <1>10 DEF ExistsBijection, Bijection
<1>12. Cardinality(b \ {pos}) = Cardinality(a) /\ Cardinality(a) \in Nat
  BY <1>6, <1>11, FS_Bijection, FS_CardinalityType
<1>13. Cardinality(b \ {pos}) = (IF pos \in b THEN Cardinality(b) - 1 ELSE Cardinality(b))
       /\ Cardinality(b) \in Nat
  BY <1>6, FS_RemoveElement, FS_CardinalityType
<1>14. O!Cardinality(a) = Cardinality(a) /\ O!Cardinality(b) = Cardinality(b)
  BY DEF O!Cardinality, Cardinality
<1> HIDE DEF O!Cardinality
<1> QED BY <1>2, <1>8, <1>12, <1>13, <1>14

\* Where the nodes of s are in t, and those of t in s.
LEMMA OneMoreFacts ==
  ASSUME NEW s, NEW t, NEW pos, NEW e, OneMore(s, t, pos, e)
  PROVE  /\ Len(s) \in Nat /\ DOMAIN s = 1..Len(s) /\ DOMAIN t = 1..Len(s) + 1
         /\ pos \in 1..Len(s) + 1 /\ t[pos] = e
         /\ \A i \in 1..pos - 1 : t[i] = s[i]
         /\ \A i \in pos..Len(s) : t[i + 1] = s[i]
         /\ \A i \in (pos + 1)..(Len(s) + 1) : s[i - 1] = t[i]
         /\ \A i \in 1..Len(s) : s[i] \in ListNodes
         /\ \A i \in 1..Len(s) + 1 : t[i] \in ListNodes
<1> DEFINE n == Len(s)
<1>1. /\ n \in Nat /\ DOMAIN s = 1..n /\ DOMAIN t = 1..n + 1 /\ pos \in 1..n + 1 /\ t[pos] = e
      /\ \A i \in 1..pos - 1 : t[i] = s[i]
      /\ \A i \in pos..n : t[i + 1] = s[i]
  BY LenProperties DEF OneMore
<1>2. (\A i \in 1..n : s[i] \in ListNodes) /\ (\A i \in 1..n + 1 : t[i] \in ListNodes)
  BY <1>1, ElementOfSeq DEF OneMore
<1> HIDE DEF n
<1>3. \A i \in (pos + 1)..(n + 1) : s[i - 1] = t[i]
  <2> TAKE i \in (pos + 1)..(n + 1)
  <2>1. i - 1 \in pos..n /\ (i - 1) + 1 = i
    BY <1>1
  <2> QED BY <1>1, <2>1
<1> QED BY <1>1, <1>2, <1>3 DEF n

LEMMA UniqueMoves ==
  ASSUME NEW s, NEW t, NEW pos, NEW e, OneMore(s, t, pos, e)
  PROVE  /\ Unique(t) => Unique(s)
         /\ Unique(s) /\ (\A i \in DOMAIN s : s[i].id # e.id) => Unique(t)
<1> DEFINE n == Len(s)
           up(i) == IF i < pos THEN i ELSE i + 1
           down(j) == IF j < pos THEN j ELSE j - 1
<1>1. /\ n \in Nat /\ DOMAIN s = 1..n /\ DOMAIN t = 1..n + 1 /\ pos \in 1..n + 1 /\ t[pos] = e
      /\ \A i \in 1..pos - 1 : t[i] = s[i]
      /\ \A i \in pos..n : t[i + 1] = s[i]
      /\ \A i \in (pos + 1)..(n + 1) : s[i - 1] = t[i]
  BY OneMoreFacts
<1> HIDE DEF n
<1>2. \A i \in 1..n : up(i) \in 1..n + 1 /\ t[up(i)] = s[i]
  <2> TAKE i \in 1..n
  <2>1. CASE i < pos
    <3>1. i \in 1..pos - 1 /\ i \in 1..n + 1
      BY <1>1, <2>1
    <3> QED BY <1>1, <2>1, <3>1
  <2>2. CASE ~(i < pos)
    <3>1. i \in pos..n /\ i + 1 \in 1..n + 1
      BY <1>1, <2>2
    <3> QED BY <1>1, <2>2, <3>1
  <2> QED BY <2>1, <2>2
<1>3. \A j \in 1..n + 1 : j # pos => down(j) \in 1..n /\ s[down(j)] = t[j]
  <2> TAKE j \in 1..n + 1
  <2> HAVE j # pos
  <2>1. CASE j < pos
    <3>1. j \in 1..pos - 1 /\ j \in 1..n
      BY <1>1, <2>1
    <3> QED BY <1>1, <2>1, <3>1
  <2>2. CASE ~(j < pos)
    <3>1. j \in (pos + 1)..(n + 1) /\ j - 1 \in 1..n
      BY <1>1, <2>2
    <3> QED BY <1>1, <2>2, <3>1
  <2> QED BY <2>1, <2>2
<1>4. \A i, j \in 1..n : up(i) = up(j) => i = j
  BY <1>1
<1>5. \A i, j \in 1..n + 1 : i # pos /\ j # pos /\ down(i) = down(j) => i = j
  BY <1>1
<1> HIDE DEF up, down
<1>6. ASSUME Unique(t) PROVE Unique(s)
  BY <1>1, <1>2, <1>4, <1>6 DEF Unique
<1>7. ASSUME Unique(s), \A i \in DOMAIN s : s[i].id # e.id PROVE Unique(t)
  <2> SUFFICES ASSUME NEW i \in 1..n + 1, NEW j \in 1..n + 1, t[i].id = t[j].id PROVE i = j
    BY <1>1 DEF Unique
  <2>1. \A x \in 1..n + 1 : x # pos => t[x].id # e.id
    BY <1>1, <1>3, <1>7
  <2>2. CASE i = pos \/ j = pos
    BY <1>1, <2>1, <2>2
  <2>3. CASE i # pos /\ j # pos
    BY <1>1, <1>3, <1>5, <1>7, <2>3 DEF Unique
  <2> QED BY <2>2, <2>3
<1> QED BY <1>6, <1>7

\* A node more leaves those of an iterator in their order; one less does, unless
\* it is one of them.
LEMMA OrderMoves ==
  ASSUME NEW s, NEW t, NEW pos, NEW e, OneMore(s, t, pos, e), NEW c
  PROVE  /\ Ordered(s, c) => Ordered(t, c)
         /\ Ordered(t, c) /\ e # c.value /\ e # c.next => Ordered(s, c)
<1> DEFINE n == Len(s)
           up(i) == IF i < pos THEN i ELSE i + 1
           down(j) == IF j < pos THEN j ELSE j - 1
<1>1. /\ n \in Nat /\ DOMAIN s = 1..n /\ DOMAIN t = 1..n + 1 /\ pos \in 1..n + 1 /\ t[pos] = e
      /\ \A i \in 1..pos - 1 : t[i] = s[i]
      /\ \A i \in pos..n : t[i + 1] = s[i]
      /\ \A i \in (pos + 1)..(n + 1) : s[i - 1] = t[i]
  BY OneMoreFacts
<1> HIDE DEF n
<1>2. \A i \in 1..n : up(i) \in 1..n + 1 /\ t[up(i)] = s[i]
  <2> TAKE i \in 1..n
  <2>1. CASE i < pos
    <3>1. i \in 1..pos - 1 /\ i \in 1..n + 1
      BY <1>1, <2>1
    <3> QED BY <1>1, <2>1, <3>1
  <2>2. CASE ~(i < pos)
    <3>1. i \in pos..n /\ i + 1 \in 1..n + 1
      BY <1>1, <2>2
    <3> QED BY <1>1, <2>2, <3>1
  <2> QED BY <2>1, <2>2
<1>3. \A j \in 1..n + 1 : j # pos => down(j) \in 1..n /\ s[down(j)] = t[j]
  <2> TAKE j \in 1..n + 1
  <2> HAVE j # pos
  <2>1. CASE j < pos
    <3>1. j \in 1..pos - 1 /\ j \in 1..n
      BY <1>1, <2>1
    <3> QED BY <1>1, <2>1, <3>1
  <2>2. CASE ~(j < pos)
    <3>1. j \in (pos + 1)..(n + 1) /\ j - 1 \in 1..n
      BY <1>1, <2>2
    <3> QED BY <1>1, <2>2, <3>1
  <2> QED BY <2>1, <2>2
<1>4. \A i, j \in 1..n : i < j => up(i) < up(j)
  BY <1>1
<1>5. \A i, j \in 1..n + 1 : i # pos /\ j # pos /\ i < j => down(i) < down(j)
  BY <1>1
<1> HIDE DEF up, down
<1>6. ASSUME Ordered(s, c) PROVE Ordered(t, c)
  <2>1. CASE c.value = O!End
    BY <1>6, <2>1 DEF Ordered
  <2>2. CASE c.value # O!End
    <3>1. PICK i \in 1..n : s[i] = c.value /\ Bound(s, c, i)
      BY <1>1, <1>6, <2>2 DEF Ordered
    <3>2. ASSUME c.next # O!End PROVE \E j \in 1..n + 1 : up(i) < j /\ t[j] = c.next
      <4>1. PICK j \in 1..n : i < j /\ s[j] = c.next
        BY <1>1, <3>1, <3>2 DEF Bound
      <4> QED BY <1>2, <1>4, <4>1
    <3>3. Bound(t, c, up(i))
      BY <1>1, <3>2 DEF Bound
    <3> QED BY <1>1, <1>2, <2>2, <3>1, <3>3 DEF Ordered
  <2> QED BY <2>1, <2>2
<1>7. ASSUME Ordered(t, c), e # c.value, e # c.next PROVE Ordered(s, c)
  <2>1. CASE c.value = O!End
    BY <1>7, <2>1 DEF Ordered
  <2>2. CASE c.value # O!End
    <3>1. PICK i \in 1..n + 1 : t[i] = c.value /\ Bound(t, c, i)
      BY <1>1, <1>7, <2>2 DEF Ordered
    <3>2. i # pos
      BY <1>1, <1>7, <3>1
    <3>3. ASSUME c.next # O!End PROVE \E j \in 1..n : down(i) < j /\ s[j] = c.next
      <4>1. PICK j \in 1..n + 1 : i < j /\ t[j] = c.next
        BY <1>1, <3>1, <3>3 DEF Bound
      <4>2. j # pos
        BY <1>1, <1>7, <4>1
      <4> QED BY <1>3, <1>5, <3>2, <4>1, <4>2
    <3>4. Bound(s, c, down(i))
      BY <1>1, <3>3 DEF Bound
    <3> QED BY <1>1, <1>3, <2>2, <3>1, <3>2, <3>4 DEF Ordered
  <2> QED BY <2>1, <2>2
<1> QED BY <1>6, <1>7

LEMMA InsertAtIs ==
  ASSUME NEW s \in Seq(ListNodes), NEW pos \in 1..Len(s) + 1, NEW e \in ListNodes
  PROVE  OneMore(s, O!InsertAt(s, pos, e), pos, e)
<1> DEFINE n == Len(s)
           p == pos - 1
           run == <<e>>
           t == Inserted(s, p, run)
<1>1. n \in Nat /\ p \in 0..n /\ p + 1 = pos /\ run \in Seq(ListNodes) /\ Len(run) = 1 /\ run[1] = e
  <2>1. Len(s) \in Nat
    BY LenProperties
  <2> QED BY <2>1
<1>2. O!InsertAt(s, pos, e) = t
  BY <1>1 DEF O!InsertAt, Inserted
<1> HIDE DEF p, run, t
<1>3. /\ t \in Seq(ListNodes) /\ Len(t) = n + Len(run)
      /\ \A i \in 1..n + Len(run) : t[i] = IF i <= p THEN s[i]
                                           ELSE IF i <= p + Len(run) THEN run[i - p]
                                           ELSE s[i - Len(run)]
  <2>1. s \in Seq(ListNodes) /\ run \in Seq(ListNodes) /\ p \in 0..Len(s)
    BY <1>1
  <2> QED BY ONLY <2>1, InsertedIn DEF t
<1> HIDE DEF n
<1>4. /\ t \in Seq(ListNodes) /\ Len(t) = n + 1
      /\ \A i \in 1..n + 1 : t[i] = IF i <= p THEN s[i] ELSE IF i <= p + 1 THEN run[i - p] ELSE s[i - 1]
  BY <1>1, <1>3
<1>5. t[pos] = e
  <2>1. pos \in 1..n + 1 /\ ~(pos <= p) /\ pos <= p + 1 /\ pos - p = 1
    BY <1>1
  <2> QED BY <1>1, <1>4, <2>1
<1>6. \A i \in 1..pos - 1 : t[i] = s[i]
  <2> TAKE i \in 1..pos - 1
  <2>1. i \in 1..n + 1 /\ i <= p
    BY <1>1
  <2> QED BY <1>4, <2>1
<1>7. \A i \in pos..n : t[i + 1] = s[i]
  <2> TAKE i \in pos..n
  <2>1. i + 1 \in 1..n + 1 /\ ~(i + 1 <= p) /\ ~(i + 1 <= p + 1) /\ (i + 1) - 1 = i
    BY <1>1
  <2> QED BY <1>4, <2>1
<1> QED BY <1>1, <1>2, <1>4, <1>5, <1>6, <1>7 DEF OneMore, n

LEMMA RemoveAtIs ==
  ASSUME NEW s \in Seq(ListNodes), NEW pos \in DOMAIN s
  PROVE  OneMore(O!RemoveAt(s, pos), s, pos, s[pos])
<1> DEFINE n == Len(s)
           p == pos - 1
           t == Removed(s, p, 1)
<1>1. n \in Nat /\ pos \in 1..n /\ p \in Nat /\ p + 1 <= n /\ p = pos - 1 /\ (p + 1) + 1 = pos + 1
  <2>1. Len(s) \in Nat /\ DOMAIN s = 1..Len(s)
    BY LenProperties
  <2> QED BY <2>1
<1>2. O!RemoveAt(s, pos) = t
  BY <1>1 DEF O!RemoveAt, Removed
<1> HIDE DEF p, t
<1>3. /\ t \in Seq(ListNodes) /\ Len(t) = n - 1
      /\ \A i \in 1..n - 1 : t[i] = IF i <= p THEN s[i] ELSE s[i + 1]
  <2>1. s \in Seq(ListNodes) /\ p \in Nat /\ 1 \in Nat /\ p + 1 <= Len(s)
    BY <1>1
  <2> QED BY ONLY <2>1, RemovedFrom DEF t
<1> HIDE DEF n
<1>4. Len(t) + 1 = n /\ pos \in 1..Len(t) + 1
  BY <1>1, <1>3
<1>5. \A i \in 1..pos - 1 : s[i] = t[i]
  <2> TAKE i \in 1..pos - 1
  <2>1. i \in 1..n - 1 /\ i <= p
    BY <1>1
  <2> QED BY <1>3, <2>1
<1>6. \A i \in pos..Len(t) : s[i + 1] = t[i]
  <2> TAKE i \in pos..Len(t)
  <2>1. i \in 1..n - 1 /\ ~(i <= p)
    BY <1>1, <1>3
  <2> QED BY <1>3, <2>1
<1> QED BY <1>2, <1>3, <1>4, <1>5, <1>6 DEF OneMore, n

\* A list that is not full leaves a node to be had.
LEMMA NewNode ==
  ASSUME HInv, Len(objects) < MaxItems, NEW o \in Objects
  PROVE  O!Node(o) \in ListNodes /\ O!Node(o).object = o /\ \A i \in DOMAIN objects : objects[i].id # O!Node(o).id
<1> DEFINE n == Len(objects)
<1>1. n \in Nat /\ DOMAIN objects = 1..n /\ n < MaxItems /\ MaxItems \in Nat
  BY LenProperties, DataAssumption DEF HInv, HTyped
<1> HIDE DEF n
<1>2. SUFFICES \E id \in 1..MaxItems : \A i \in DOMAIN objects : objects[i].id # id
  <2>1. O!NewId \in 1..MaxItems /\ \A i \in DOMAIN objects : objects[i].id # O!NewId
    BY <1>2 DEF O!NewId
  <2> QED BY <2>1 DEF O!Node, ListNodes
<1>3. SUFFICES ASSUME \A id \in 1..MaxItems : \E i \in 1..n : objects[i].id = id
               PROVE  FALSE
  BY <1>1
<1> DEFINE f == [id \in 1..MaxItems |-> CHOOSE i \in 1..n : objects[i].id = id]
<1>4. \A id \in 1..MaxItems : f[id] \in 1..n /\ objects[f[id]].id = id
  BY <1>3
<1>5. f \in [1..MaxItems -> 1..n]
  BY <1>4
<1> HIDE DEF f
<1>6. f \in Injection(1..MaxItems, 1..n)
  BY <1>4, <1>5 DEF Injection, IsInjective
<1>7. IsFiniteSet(1..n) /\ Cardinality(1..n) = n /\ Cardinality(1..MaxItems) = MaxItems
  <2>1. IsFiniteSet(1..n) /\ Cardinality(1..n) = IF 1 > n THEN 0 ELSE n - 1 + 1
    BY <1>1, FS_Interval
  <2>2. Cardinality(1..MaxItems) = IF 1 > MaxItems THEN 0 ELSE MaxItems - 1 + 1
    BY <1>1, FS_Interval
  <2>3. (IF 1 > n THEN 0 ELSE n - 1 + 1) = n /\ (IF 1 > MaxItems THEN 0 ELSE MaxItems - 1 + 1) = MaxItems
    BY <1>1
  <2> QED BY <2>1, <2>2, <2>3
<1>8. Cardinality(1..MaxItems) <= Cardinality(1..n)
  BY <1>6, <1>7, FS_Injection
<1> QED BY <1>1, <1>7, <1>8

LEMMA HeldAreNumbers ==
  ASSUME HTyped, NEW o \in Objects
  PROVE  /\ HashHeld(hash, o) \in Nat /\ ListHeld(objects, o) \in Nat /\ SetHeld(set, o) \in Nat
         /\ SetHeld(set, o) = (IF o \in set THEN 1 ELSE 0)
         /\ refs[o] \in Int /\ lost[o] \in Int
<1>1. hash \in [Buckets -> HashNodes \cup {O!Free}] /\ objects \in Seq(ListNodes)
  BY DEF HTyped
<1>2. /\ HashHeld(hash, o) \in Nat /\ ListHeld(objects, o) \in Nat
      /\ SetHeld(set, o) = (IF o \in set THEN 1 ELSE 0)
  BY <1>1, HeldTypes
<1> QED BY <1>2 DEF HTyped

\* What is held changes by as much as what is counted.
LEMMA SpareStays ==
  ASSUME HInv, HTyped', NEW o \in Objects,
         ((HashHeld(hash', o) - HashHeld(hash, o)) + (ListHeld(objects', o) - ListHeld(objects, o)))
            + (SetHeld(set', o) - SetHeld(set, o)) = (refs'[o] - refs[o]) - (lost'[o] - lost[o])
  PROVE  Spare(refs', lost', hash', objects', set', o) \in {0, 1}
<1>1. Spare(refs, lost, hash, objects, set, o) \in {0, 1}
  BY DEF HInv
<1>2. /\ HashHeld(hash, o) \in Nat /\ ListHeld(objects, o) \in Nat /\ SetHeld(set, o) \in Nat
      /\ refs[o] \in Int /\ lost[o] \in Int
  BY HeldAreNumbers DEF HInv
<1>3. /\ HashHeld(hash', o) \in Nat /\ ListHeld(objects', o) \in Nat /\ SetHeld(set', o) \in Nat
      /\ refs'[o] \in Int /\ lost'[o] \in Int
  <2>1. hash' \in [Buckets -> HashNodes \cup {O!Free}] /\ objects' \in Seq(ListNodes)
    BY DEF HTyped
  <2>2. /\ HashHeld(hash', o) \in Nat /\ ListHeld(objects', o) \in Nat
        /\ SetHeld(set', o) = (IF o \in set' THEN 1 ELSE 0)
    BY <2>1, HeldTypes
  <2> QED BY <2>2 DEF HTyped
<1> QED BY <1>1, <1>2, <1>3 DEF Spare

LEMMA InsertsInHash ==
  ASSUME HInv, NEW k \in Keys, NEW o \in Objects, O!insert_BlockHash(k, o)
  PROVE  HInv'
<1> DEFINE c == Crc(k)
           old == hash[c]
           n == [key |-> k, object |-> o]
<1>1. /\ hash' = [hash EXCEPT ![c] = n] /\ UNCHANGED <<objects, standing, set, lost>>
      /\ refs' = IF old = O!Free THEN [refs EXCEPT ![o] = @ + 1]
                 ELSE [[refs EXCEPT ![o] = @ + 1] EXCEPT ![old.object] = @ - 1]
  BY DEF O!insert_BlockHash
<1>2. /\ c \in Buckets /\ n \in HashNodes /\ n.object = o /\ n # O!Free
      /\ old \in HashNodes \cup {O!Free} /\ hash \in [Buckets -> HashNodes \cup {O!Free}]
      /\ refs \in [Objects -> Int]
  BY NotANode DEF Buckets, HashNodes, HInv, HTyped
<1> HIDE DEF n, c
<1>3. Bucketed(hash, hash', c, n)
  BY <1>1, <1>2 DEF Bucketed
<1>4. refs' \in [Objects -> Int] /\ \A q \in Objects : refs'[q] = (refs[q] - Held(old, q)) + Held(n, q)
  <2>1. CASE old = O!Free
    BY <1>1, <1>2, <2>1 DEF Held
  <2>2. CASE old # O!Free
    <3>1. old.object \in Objects
      BY <1>2, <2>2 DEF HashNodes
    <3> HIDE DEF old
    <3> QED BY <1>1, <1>2, <2>2, <3>1 DEF Held
  <2> QED BY <2>1, <2>2
<1>5. HTyped'
  BY <1>1, <1>2, <1>4 DEF HInv, HTyped
<1>6. ASSUME NEW q \in Objects PROVE Spare(refs', lost', hash', objects', set', q) \in {0, 1}
  <2>1. HashHeld(hash', q) = (HashHeld(hash, q) - Held(old, q)) + Held(n, q)
    BY <1>3, HashMoves
  <2>2. HashHeld(hash, q) \in Nat /\ ListHeld(objects, q) \in Nat /\ SetHeld(set, q) \in Nat
        /\ refs[q] \in Int /\ lost[q] \in Int /\ Held(old, q) \in Nat /\ Held(n, q) \in Nat
    BY HeldAreNumbers DEF HInv, Held
  <2>3. refs'[q] = (refs[q] - Held(old, q)) + Held(n, q)
    BY <1>4
  <2>4. ((HashHeld(hash', q) - HashHeld(hash, q)) + (ListHeld(objects', q) - ListHeld(objects, q)))
            + (SetHeld(set', q) - SetHeld(set, q)) = (refs'[q] - refs[q]) - (lost'[q] - lost[q])
    BY <1>1, <2>1, <2>2, <2>3
  <2> QED BY <1>5, <2>4, SpareStays
<1> QED BY <1>1, <1>5, <1>6 DEF HInv

LEMMA RemovesFromHash ==
  ASSUME HInv, NEW k \in Keys, O!remove_BlockHash(k)
  PROVE  HInv'
<1> DEFINE c == Crc(k)
           old == hash[c]
           n == O!Free
<1>1. /\ hash' = [hash EXCEPT ![c] = n] /\ UNCHANGED <<objects, standing, set, lost>>
      /\ refs' = [refs EXCEPT ![old.object] = @ + (-1)] /\ old # O!Free
  BY DEF O!remove_BlockHash, O!Plus
<1>2. /\ c \in Buckets /\ n \in {O!Free}
      /\ old \in HashNodes \cup {O!Free} /\ hash \in [Buckets -> HashNodes \cup {O!Free}]
      /\ refs \in [Objects -> Int]
  BY DEF Buckets, HInv, HTyped
<1> HIDE DEF c
<1>3. Bucketed(hash, hash', c, n)
  BY <1>1, <1>2 DEF Bucketed
<1>4. refs' \in [Objects -> Int] /\ \A q \in Objects : refs'[q] = refs[q] - Held(old, q)
  <2>1. old.object \in Objects
    BY <1>1, <1>2 DEF HashNodes
  <2> HIDE DEF old
  <2> QED BY <1>1, <1>2, <2>1 DEF Held
<1>5. HTyped'
  BY <1>1, <1>2, <1>4 DEF HInv, HTyped
<1>6. ASSUME NEW q \in Objects PROVE Spare(refs', lost', hash', objects', set', q) \in {0, 1}
  <2>1. HashHeld(hash', q) = (HashHeld(hash, q) - Held(old, q)) + Held(n, q) /\ Held(n, q) = 0
    BY <1>3, HashMoves DEF Held
  <2>2. HashHeld(hash, q) \in Nat /\ ListHeld(objects, q) \in Nat /\ SetHeld(set, q) \in Nat
        /\ refs[q] \in Int /\ lost[q] \in Int /\ Held(old, q) \in Nat
    BY HeldAreNumbers DEF HInv, Held
  <2>3. refs'[q] = refs[q] - Held(old, q)
    BY <1>4
  <2> HIDE DEF n, old
  <2>4. ((HashHeld(hash', q) - HashHeld(hash, q)) + (ListHeld(objects', q) - ListHeld(objects, q)))
            + (SetHeld(set', q) - SetHeld(set, q)) = (refs'[q] - refs[q]) - (lost'[q] - lost[q])
    <3>1. ListHeld(objects', q) = ListHeld(objects, q) /\ SetHeld(set', q) = SetHeld(set, q) /\ lost'[q] = lost[q]
      BY <1>1
    <3>2. HashHeld(hash', q) = HashHeld(hash, q) - Held(old, q)
      BY <2>1, <2>2
    <3> QED BY ONLY <2>2, <2>3, <3>1, <3>2
  <2> QED BY <1>5, <2>4, SpareStays
<1> QED BY <1>1, <1>5, <1>6 DEF HInv

LEMMA NothingHeld ==
  /\ \A h, o : (\A c \in DOMAIN h : h[c] = O!Free) => HashHeld(h, o) = 0
  /\ \A o : ListHeld(<<>>, o) = 0
<1>1. O!Cardinality({}) = 0
  <2>1. O!Cardinality({}) = Cardinality({})
    BY DEF O!Cardinality, Cardinality
  <2> QED BY <2>1, FS_EmptySet
<1>2. ASSUME NEW h, NEW o, \A c \in DOMAIN h : h[c] = O!Free PROVE HashHeld(h, o) = 0
  <2>1. {c \in DOMAIN h : h[c] # O!Free /\ h[c].object = o} = {}
    BY <1>2
  <2> HIDE DEF O!Cardinality
  <2> QED BY <1>1, <2>1 DEF HashHeld
<1>3. ASSUME NEW o PROVE ListHeld(<<>>, o) = 0
  <2> DEFINE s == <<>>
  <2>1. {i \in DOMAIN s : s[i].object = o} = {}
    OBVIOUS
  <2> HIDE DEF O!Cardinality
  <2> QED BY <1>1, <2>1 DEF ListHeld
<1> QED BY <1>2, <1>3

LEMMA ClearsHash ==
  ASSUME HInv, O!clear_BlockHash
  PROVE  HInv'
<1>1. /\ hash' = [c \in DOMAIN hash |-> O!Free] /\ UNCHANGED <<objects, standing, set, lost>>
      /\ refs' = [o \in Objects |-> refs[o] - HashHeld(hash, o)]
  BY DEF O!clear_BlockHash, HashHeld
<1>2. hash \in [Buckets -> HashNodes \cup {O!Free}] /\ refs \in [Objects -> Int]
  BY DEF HInv, HTyped
<1>3. refs' \in [Objects -> Int]
  <2>1. \A q \in Objects : HashHeld(hash, q) \in Nat /\ refs[q] \in Int
    BY HeldAreNumbers DEF HInv
  <2> QED BY <1>1, <2>1
<1>4. HTyped'
  BY <1>1, <1>2, <1>3 DEF HInv, HTyped
<1>5. ASSUME NEW q \in Objects PROVE Spare(refs', lost', hash', objects', set', q) \in {0, 1}
  <2>1. HashHeld(hash', q) = 0
    BY <1>1, NothingHeld
  <2>2. HashHeld(hash, q) \in Nat /\ ListHeld(objects, q) \in Nat /\ SetHeld(set, q) \in Nat
        /\ refs[q] \in Int /\ lost[q] \in Int
    BY HeldAreNumbers DEF HInv
  <2>3. refs'[q] = refs[q] - HashHeld(hash, q)
    BY <1>1
  <2>4. ((HashHeld(hash', q) - HashHeld(hash, q)) + (ListHeld(objects', q) - ListHeld(objects, q)))
            + (SetHeld(set', q) - SetHeld(set, q)) = (refs'[q] - refs[q]) - (lost'[q] - lost[q])
    BY <1>1, <2>1, <2>2, <2>3
  <2> QED BY <1>4, <2>4, SpareStays
<1> QED BY <1>1, <1>4, <1>5 DEF HInv


\* Where a node of the list is.
LEMMA TheIndex ==
  ASSUME HTyped, Unique(objects), NEW i \in DOMAIN objects
  PROVE  O!IndexOf(objects[i]) = i
<1>1. \A j \in DOMAIN objects : objects[j] = objects[i] => j = i
  BY DEF Unique
<1> QED BY <1>1 DEF O!IndexOf

LEMMA TheNext ==
  ASSUME HTyped, Unique(objects), NEW i \in DOMAIN objects
  PROVE  O!After(objects, objects[i]) = IF i = Len(objects) THEN O!End ELSE objects[i + 1]
<1>1. \A j \in DOMAIN objects : objects[j] = objects[i] => j = i
  BY DEF Unique
<1> DEFINE x == CHOOSE j \in DOMAIN objects : objects[j] = objects[i]
<1>2. x = i
  BY <1>1
<1> HIDE DEF x
<1> QED BY <1>2 DEF O!After, x

LEMMA ListFacts ==
  ASSUME HTyped
  PROVE  /\ objects \in Seq(ListNodes) /\ Len(objects) \in Nat /\ DOMAIN objects = 1..Len(objects)
         /\ \A i \in DOMAIN objects : objects[i] \in ListNodes /\ objects[i] # O!End
<1>1. objects \in Seq(ListNodes) /\ Len(objects) \in Nat /\ DOMAIN objects = 1..Len(objects)
  BY LenProperties DEF HTyped
<1>2. \A i \in DOMAIN objects : objects[i] \in ListNodes
  BY <1>1, ElementOfSeq
<1> QED BY <1>1, <1>2, NotANode

LEMMA PutsInList ==
  ASSUME HInv, NEW pos \in 1..Len(objects) + 1, NEW o \in Objects, O!Put(pos, o)
  PROVE  HInv'
<1> DEFINE e == O!Node(o)
           s == objects
           t == objects'
<1>1. /\ t = O!InsertAt(s, pos, e) /\ UNCHANGED <<hash, standing, set, lost>>
      /\ refs' = [refs EXCEPT ![o] = @ + 1] /\ Len(s) < MaxItems
  BY DEF O!Put, O!Plus
<1>2. /\ e \in ListNodes /\ e.object = o /\ \A i \in DOMAIN s : s[i].id # e.id
  BY <1>1, NewNode
<1> HIDE DEF e
<1>3. OneMore(s, t, pos, e)
  <2>1. s \in Seq(ListNodes)
    BY DEF HInv, HTyped
  <2> HIDE DEF s, t
  <2>2. OneMore(s, O!InsertAt(s, pos, e), pos, e)
    BY <1>2, <2>1, InsertAtIs DEF s
  <2> QED BY <1>1, <2>2
<1>4. HTyped'
  BY <1>1, <1>3 DEF HInv, HTyped, OneMore
<1>5. Unique(t) /\ Ordered(t, standing)
  BY <1>2, <1>3, UniqueMoves, OrderMoves DEF HInv
<1>6. ASSUME NEW q \in Objects PROVE Spare(refs', lost', hash', objects', set', q) \in {0, 1}
  <2>1. ListHeld(t, q) = ListHeld(s, q) + (IF o = q THEN 1 ELSE 0)
    BY <1>2, <1>3, ListMoves
  <2>2. HashHeld(hash, q) \in Nat /\ ListHeld(s, q) \in Nat /\ SetHeld(set, q) \in Nat
        /\ refs[q] \in Int /\ lost[q] \in Int
    BY HeldAreNumbers DEF HInv
  <2>3. refs'[q] = refs[q] + (IF o = q THEN 1 ELSE 0)
    BY <1>1, <2>2 DEF HInv, HTyped
  <2>4. HashHeld(hash', q) = HashHeld(hash, q) /\ SetHeld(set', q) = SetHeld(set, q) /\ lost'[q] = lost[q]
    BY <1>1
  <2>5. ((HashHeld(hash', q) - HashHeld(hash, q)) + (ListHeld(t, q) - ListHeld(s, q)))
            + (SetHeld(set', q) - SetHeld(set, q)) = (refs'[q] - refs[q]) - (lost'[q] - lost[q])
    BY ONLY <2>1, <2>2, <2>3, <2>4
  <2> QED BY <1>4, <2>5, SpareStays
<1>7. UNCHANGED standing
  BY <1>1
<1> QED BY <1>4, <1>5, <1>6, <1>7 DEF HInv

\* What removing a node does, whatever becomes of the iterator.
LEMMA Removes ==
  ASSUME HInv, NEW i \in DOMAIN objects, O!Removed(objects[i]), UNCHANGED <<hash, set, lost>>
  PROVE  /\ OneMore(objects', objects, i, objects[i])
         /\ HTyped' /\ Unique(objects')
         /\ \A q \in Objects : Spare(refs', lost', hash', objects', set', q) \in {0, 1}
<1> DEFINE e == objects[i]
           s == objects
           t == objects'
           o == e.object
<1>1. HTyped /\ Unique(s)
  BY DEF HInv
<1>2. t = O!RemoveAt(s, i) /\ refs' = [refs EXCEPT ![o] = @ + (-1)]
  <2>1. O!IndexOf(objects[i]) = i
    BY <1>1, TheIndex
  <2> QED BY <2>1 DEF O!Removed, O!Plus
<1>3. e \in ListNodes /\ o \in Objects
  BY <1>1, ListFacts DEF ListNodes
<1>4. OneMore(t, s, i, e)
  <2>1. s \in Seq(ListNodes)
    BY <1>1, ListFacts
  <2>2. OneMore(O!RemoveAt(s, i), s, i, s[i])
    BY <2>1, RemoveAtIs
  <2> QED BY <1>2, <2>2
<1> HIDE DEF e, o
<1>5. HTyped'
  BY <1>1, <1>2, <1>3, <1>4 DEF HTyped, OneMore
<1>6. Unique(t)
  BY <1>1, <1>4, UniqueMoves
<1>7. ASSUME NEW q \in Objects PROVE Spare(refs', lost', hash', objects', set', q) \in {0, 1}
  <2>1. ListHeld(s, q) = ListHeld(t, q) + (IF o = q THEN 1 ELSE 0)
    BY <1>4, ListMoves DEF o
  <2>2. HashHeld(hash, q) \in Nat /\ ListHeld(s, q) \in Nat /\ SetHeld(set, q) \in Nat
        /\ refs[q] \in Int /\ lost[q] \in Int
    BY HeldAreNumbers DEF HInv
  <2>3. refs'[q] = refs[q] - (IF o = q THEN 1 ELSE 0)
    BY <1>2, <2>2 DEF HInv, HTyped
  <2>4. HashHeld(hash', q) = HashHeld(hash, q) /\ SetHeld(set', q) = SetHeld(set, q) /\ lost'[q] = lost[q]
    OBVIOUS
  <2>5. ListHeld(t, q) \in Nat
    <3>1. t \in Seq(ListNodes) /\ hash \in [Buckets -> HashNodes \cup {O!Free}]
      BY <1>1, <1>5 DEF HTyped
    <3> QED BY <3>1, HeldTypes
  <2>6. ((HashHeld(hash', q) - HashHeld(hash, q)) + (ListHeld(t, q) - ListHeld(s, q)))
            + (SetHeld(set', q) - SetHeld(set, q)) = (refs'[q] - refs[q]) - (lost'[q] - lost[q])
    BY ONLY <2>1, <2>2, <2>3, <2>4, <2>5
  <2> QED BY <1>5, <2>6, SpareStays
<1> QED BY <1>4, <1>5, <1>6, <1>7 DEF e

LEMMA RemovesFromList ==
  ASSUME HInv, NEW i \in DOMAIN objects, O!removeNode_ObjectList(objects[i])
  PROVE  HInv'
<1>1. /\ objects[i] # standing.value /\ objects[i] # standing.next
      /\ O!Removed(objects[i]) /\ UNCHANGED <<hash, standing, set, lost>>
  BY DEF O!removeNode_ObjectList
<1>2. /\ OneMore(objects', objects, i, objects[i])
      /\ HTyped' /\ Unique(objects')
      /\ \A q \in Objects : Spare(refs', lost', hash', objects', set', q) \in {0, 1}
  BY <1>1, Removes
<1>3. Ordered(objects', standing)
  BY <1>1, <1>2, OrderMoves DEF HInv
<1> QED BY <1>1, <1>2, <1>3 DEF HInv

LEMMA ClearsList ==
  ASSUME HInv, O!clear_ObjectList
  PROVE  HInv'
<1>1. /\ objects' = <<>> /\ standing' = [value |-> O!End, next |-> O!End] /\ UNCHANGED <<hash, set, lost>>
      /\ refs' = [o \in Objects |-> refs[o] - ListHeld(objects, o)]
  BY DEF O!clear_ObjectList, ListHeld
<1>2. \A q \in Objects : /\ HashHeld(hash, q) \in Nat /\ ListHeld(objects, q) \in Nat /\ SetHeld(set, q) \in Nat
                         /\ refs[q] \in Int /\ lost[q] \in Int
  BY HeldAreNumbers DEF HInv
<1>3. refs' \in [Objects -> Int]
  BY <1>1, <1>2
<1>4. HTyped' /\ Unique(objects') /\ Ordered(objects', standing')
  <2>1. Unique(objects')
    BY <1>1 DEF Unique
  <2>2. Ordered(objects', standing')
    BY <1>1 DEF Ordered
  <2> QED BY <1>1, <1>3, <2>1, <2>2 DEF HInv, HTyped
<1>5. ASSUME NEW q \in Objects PROVE Spare(refs', lost', hash', objects', set', q) \in {0, 1}
  <2>1. ListHeld(objects', q) = 0
    BY <1>1, NothingHeld
  <2>2. refs'[q] = refs[q] - ListHeld(objects, q)
    BY <1>1
  <2>3. HashHeld(hash', q) = HashHeld(hash, q) /\ SetHeld(set', q) = SetHeld(set, q) /\ lost'[q] = lost[q]
    BY <1>1
  <2>4. ((HashHeld(hash', q) - HashHeld(hash, q)) + (ListHeld(objects', q) - ListHeld(objects, q)))
            + (SetHeld(set', q) - SetHeld(set, q)) = (refs'[q] - refs[q]) - (lost'[q] - lost[q])
    <3>1. /\ HashHeld(hash, q) \in Nat /\ ListHeld(objects, q) \in Nat /\ SetHeld(set, q) \in Nat
          /\ refs[q] \in Int /\ lost[q] \in Int
      BY <1>2
    <3> QED BY ONLY <2>1, <2>2, <2>3, <3>1
  <2> QED BY <1>4, <2>4, SpareStays
<1> QED BY <1>4, <1>5 DEF HInv

\* An iterator put on a node is bound for the one after it.
LEMMA StandsOn ==
  ASSUME HTyped, Unique(objects), NEW i \in DOMAIN objects, NEW c,
         c = [value |-> objects[i], next |-> O!After(objects, objects[i])]
  PROVE  /\ Ordered(objects, c)
         /\ c.next # O!End => i + 1 \in DOMAIN objects /\ c.next = objects[i + 1]
<1> DEFINE n == Len(objects)
<1>1. /\ n \in Nat /\ DOMAIN objects = 1..n /\ i \in 1..n
      /\ \A j \in 1..n : objects[j] # O!End
  BY ListFacts
<1>2. c.value = objects[i] /\ c.next = IF i = n THEN O!End ELSE objects[i + 1]
  BY TheNext
<1> HIDE DEF n
<1>3. c.next # O!End => /\ i < i + 1 /\ i + 1 \in 1..n /\ c.next = objects[i + 1]
  BY <1>1, <1>2
<1>4. Bound(objects, c, i)
  BY <1>1, <1>3 DEF Bound
<1> QED BY <1>1, <1>2, <1>3, <1>4 DEF Ordered

LEMMA NothingChanges ==
  ASSUME HInv, UNCHANGED <<refs, hash, objects, set, lost>>, Ordered(objects, standing')
  PROVE  HInv'
BY DEF HInv, HTyped

LEMMA StartsIterator ==
  ASSUME HInv, O!init_ObjectListIterator
  PROVE  HInv'
<1>1. /\ objects # <<>> /\ standing' = [value |-> objects[1], next |-> O!After(objects, objects[1])]
      /\ UNCHANGED <<refs, hash, objects, set, lost>>
  BY DEF O!init_ObjectListIterator
<1>2. 1 \in DOMAIN objects
  <2>1. objects \in Seq(ListNodes)
    BY DEF HInv, HTyped
  <2>2. Len(objects) \in Nat /\ Len(objects) # 0 /\ DOMAIN objects = 1..Len(objects)
    BY <1>1, <2>1, LenProperties, EmptySeq
  <2> QED BY <2>2
<1>3. Ordered(objects, standing')
  BY <1>1, <1>2, StandsOn DEF HInv
<1> QED BY <1>1, <1>3, NothingChanges

\* What is noted as the next node is one further on than that of the iterator.
LEMMA NextIsAhead ==
  ASSUME HInv, standing.value # O!End
  PROVE  \E i \in DOMAIN objects :
           /\ objects[i] = standing.value
           /\ standing.next # O!End => \E j \in DOMAIN objects : i < j /\ objects[j] = standing.next
BY DEF HInv, Ordered, Bound

LEMMA StepsIterator ==
  ASSUME HInv, O!next_ObjectListIterator
  PROVE  HInv'
<1>1. /\ standing.value # O!End /\ UNCHANGED <<refs, hash, objects, set, lost>>
      /\ standing' = [value |-> standing.next,
                      next |-> IF standing.next = O!End THEN O!End ELSE O!After(objects, standing.next)]
  BY DEF O!next_ObjectListIterator
<1>2. Ordered(objects, standing')
  <2>1. CASE standing.next = O!End
    <3>1. standing'.value = O!End /\ standing'.next = O!End
      BY <1>1, <2>1
    <3> QED BY <3>1 DEF Ordered
  <2>2. CASE standing.next # O!End
    <3>1. PICK j \in DOMAIN objects : objects[j] = standing.next
      BY <1>1, <2>2, NextIsAhead
    <3>2. standing' = [value |-> objects[j], next |-> O!After(objects, objects[j])]
      BY <1>1, <2>2, <3>1
    <3> QED BY <3>2, StandsOn DEF HInv
  <2> QED BY <2>1, <2>2
<1> QED BY <1>1, <1>2, NothingChanges

\* A node is at one place.
LEMMA NodesDiffer ==
  ASSUME HTyped, Unique(objects), NEW i \in DOMAIN objects, NEW j \in DOMAIN objects, i # j
  PROVE  objects[i] # objects[j]
BY DEF Unique

LEMMA RemovesAtIterator ==
  ASSUME HInv, O!remove_ObjectListIterator
  PROVE  HInv'
<1>1. /\ standing.value # O!End /\ O!Removed(standing.value) /\ UNCHANGED <<hash, set, lost>>
      /\ standing' = [value |-> standing.next,
                      next |-> IF standing.next = O!End THEN O!End ELSE O!After(objects, standing.next)]
  BY DEF O!remove_ObjectListIterator
<1>2. PICK i \in DOMAIN objects :
           /\ objects[i] = standing.value
           /\ standing.next # O!End => \E j \in DOMAIN objects : i < j /\ objects[j] = standing.next
  BY <1>1, NextIsAhead
<1>3. /\ OneMore(objects', objects, i, objects[i])
      /\ HTyped' /\ Unique(objects')
      /\ \A q \in Objects : Spare(refs', lost', hash', objects', set', q) \in {0, 1}
  BY <1>1, <1>2, Removes
<1>4. Ordered(objects', standing')
  <2>1. CASE standing.next = O!End
    <3>1. standing'.value = O!End /\ standing'.next = O!End
      BY <1>1, <2>1
    <3> QED BY <3>1 DEF Ordered
  <2>2. CASE standing.next # O!End
    <3>1. PICK j \in DOMAIN objects : i < j /\ objects[j] = standing.next
      BY <1>2, <2>2
    <3>2. standing' = [value |-> objects[j], next |-> O!After(objects, objects[j])]
      BY <1>1, <2>2, <3>1
    <3>3. HTyped /\ Unique(objects)
      BY DEF HInv
    <3>4. /\ Ordered(objects, standing')
          /\ standing'.next # O!End => j + 1 \in DOMAIN objects /\ standing'.next = objects[j + 1]
      BY <3>2, <3>3, StandsOn
    <3>5. i \in Int /\ j \in Int /\ objects[i] # O!End
      BY <3>3, ListFacts
    <3>6. objects[i] # standing'.value
      BY <3>1, <3>2, <3>3, <3>5, NodesDiffer
    <3>7. objects[i] # standing'.next
      <4>1. CASE standing'.next = O!End
        BY <3>5, <4>1
      <4>2. CASE standing'.next # O!End
        <5>1. j + 1 \in DOMAIN objects /\ standing'.next = objects[j + 1] /\ i # j + 1
          BY <3>1, <3>4, <3>5, <4>2
        <5> QED BY <3>3, <5>1, NodesDiffer
      <4> QED BY <4>1, <4>2
    <3> QED BY <1>3, <3>4, <3>6, <3>7, OrderMoves
  <2> QED BY <2>1, <2>2
<1> QED BY <1>3, <1>4 DEF HInv

LEMMA InsertsInSet ==
  ASSUME HInv, NEW o \in Objects, O!insert_StringSet(o)
  PROVE  HInv'
<1>1. /\ refs' = [refs EXCEPT ![o] = @ + 1] /\ set' = (set \ O!Same(o)) \cup {o}
      /\ lost' = [p \in Objects |-> IF p \in O!Same(o) THEN lost[p] + 1 ELSE lost[p]]
      /\ UNCHANGED <<hash, objects, standing>>
  BY DEF O!insert_StringSet, O!Plus
<1>2. O!Same(o) \subseteq set /\ (o \in set => o \in O!Same(o))
  BY DEF O!Same
<1>3. HTyped'
  BY <1>1 DEF HInv, HTyped
<1>4. ASSUME NEW q \in Objects PROVE Spare(refs', lost', hash', objects', set', q) \in {0, 1}
  <2>1. /\ HashHeld(hash, q) \in Nat /\ ListHeld(objects, q) \in Nat
        /\ SetHeld(set, q) = (IF q \in set THEN 1 ELSE 0)
        /\ refs[q] \in Int /\ lost[q] \in Int
    BY HeldAreNumbers DEF HInv
  <2>2. SetHeld(set', q) = (IF q \in set' THEN 1 ELSE 0)
    <3>1. hash \in [Buckets -> HashNodes \cup {O!Free}] /\ objects \in Seq(ListNodes)
      BY DEF HInv, HTyped
    <3> QED BY <3>1, HeldTypes
  <2>3. /\ refs'[q] = refs[q] + (IF q = o THEN 1 ELSE 0)
        /\ lost'[q] = lost[q] + (IF q \in O!Same(o) THEN 1 ELSE 0)
    BY <1>1, <2>1 DEF HInv, HTyped
  <2>4. (IF q \in set' THEN 1 ELSE 0) - (IF q \in set THEN 1 ELSE 0)
          = (IF q = o THEN 1 ELSE 0) - (IF q \in O!Same(o) THEN 1 ELSE 0)
    <3> HIDE DEF O!Same
    <3>1. CASE q = o
      BY <1>1, <1>2, <3>1
    <3>2. CASE q # o
      BY <1>1, <1>2, <3>2
    <3> QED BY <3>1, <3>2
  <2>5. HashHeld(hash', q) = HashHeld(hash, q) /\ ListHeld(objects', q) = ListHeld(objects, q)
    BY <1>1
  <2>6. ((HashHeld(hash', q) - HashHeld(hash, q)) + (ListHeld(objects', q) - ListHeld(objects, q)))
            + (SetHeld(set', q) - SetHeld(set, q)) = (refs'[q] - refs[q]) - (lost'[q] - lost[q])
    BY ONLY <2>1, <2>2, <2>3, <2>4, <2>5
  <2> QED BY <1>3, <2>6, SpareStays
<1> QED BY <1>1, <1>3, <1>4 DEF HInv

LEMMA RemovesFromSet ==
  ASSUME HInv, NEW o \in Objects, O!remove_StringSet(o)
  PROVE  HInv'
<1>1. /\ set' = set \ O!Same(o) /\ UNCHANGED <<hash, objects, standing, lost>>
      /\ refs' = [p \in Objects |-> IF p \in O!Same(o) THEN refs[p] - 1 ELSE refs[p]]
  BY DEF O!remove_StringSet
<1>2. O!Same(o) \subseteq set
  BY DEF O!Same
<1>3. HTyped'
  BY <1>1 DEF HInv, HTyped
<1>4. ASSUME NEW q \in Objects PROVE Spare(refs', lost', hash', objects', set', q) \in {0, 1}
  <2>1. /\ HashHeld(hash, q) \in Nat /\ ListHeld(objects, q) \in Nat
        /\ SetHeld(set, q) = (IF q \in set THEN 1 ELSE 0)
        /\ refs[q] \in Int /\ lost[q] \in Int
    BY HeldAreNumbers DEF HInv
  <2>2. SetHeld(set', q) = (IF q \in set' THEN 1 ELSE 0)
    <3>1. hash \in [Buckets -> HashNodes \cup {O!Free}] /\ objects \in Seq(ListNodes)
      BY DEF HInv, HTyped
    <3> QED BY <3>1, HeldTypes
  <2>3. refs'[q] = refs[q] - (IF q \in O!Same(o) THEN 1 ELSE 0) /\ lost'[q] = lost[q]
    BY <1>1, <2>1
  <2>4. (IF q \in set' THEN 1 ELSE 0) - (IF q \in set THEN 1 ELSE 0) = - (IF q \in O!Same(o) THEN 1 ELSE 0)
    <3> HIDE DEF O!Same
    <3> QED BY <1>1, <1>2
  <2>5. HashHeld(hash', q) = HashHeld(hash, q) /\ ListHeld(objects', q) = ListHeld(objects, q)
    BY <1>1
  <2>6. ((HashHeld(hash', q) - HashHeld(hash, q)) + (ListHeld(objects', q) - ListHeld(objects, q)))
            + (SetHeld(set', q) - SetHeld(set, q)) = (refs'[q] - refs[q]) - (lost'[q] - lost[q])
    BY ONLY <2>1, <2>2, <2>3, <2>4, <2>5
  <2> QED BY <1>3, <2>6, SpareStays
<1> QED BY <1>1, <1>3, <1>4 DEF HInv

LEMMA DropsOne ==
  ASSUME HInv, NEW o \in Objects, O!deref_Object(o)
  PROVE  HInv'
<1>1. /\ refs[o] = O!HeldBy(o) + lost[o] + 1 /\ refs' = [refs EXCEPT ![o] = @ + (-1)]
      /\ UNCHANGED <<hash, objects, standing, set, lost>>
  BY DEF O!deref_Object, O!Plus
<1>2. O!HeldBy(o) = HashHeld(hash, o) + ListHeld(objects, o) + SetHeld(set, o)
  <2> HIDE DEF O!Cardinality
  <2> QED BY DEF O!HeldBy, HashHeld, ListHeld, SetHeld
<1>3. HTyped'
  BY <1>1 DEF HInv, HTyped
<1>4. ASSUME NEW q \in Objects PROVE Spare(refs', lost', hash', objects', set', q) \in {0, 1}
  <2>1. /\ HashHeld(hash, q) \in Nat /\ ListHeld(objects, q) \in Nat /\ SetHeld(set, q) \in Nat
        /\ refs[q] \in Int /\ lost[q] \in Int
    BY HeldAreNumbers DEF HInv
  <2>2. Spare(refs', lost', hash', objects', set', q)
          = refs'[q] - (HashHeld(hash, q) + ListHeld(objects, q) + SetHeld(set, q)) - lost[q]
    BY <1>1 DEF Spare
  <2>3. CASE q = o
    <3>1. refs'[q] = refs[q] - 1
      BY <1>1, <2>1, <2>3 DEF HInv, HTyped
    <3>2. refs[q] = HashHeld(hash, q) + ListHeld(objects, q) + SetHeld(set, q) + lost[q] + 1
      BY <1>1, <1>2, <2>3
    <3>3. refs'[q] - (HashHeld(hash, q) + ListHeld(objects, q) + SetHeld(set, q)) - lost[q] = 0
      BY ONLY <2>1, <3>1, <3>2
    <3> QED BY <2>2, <3>3
  <2>4. CASE q # o
    <3>1. refs'[q] = refs[q]
      BY <1>1, <2>4 DEF HInv, HTyped
    <3>2. Spare(refs', lost', hash', objects', set', q) = Spare(refs, lost, hash, objects, set, q)
      BY <2>2, <3>1 DEF Spare
    <3> QED BY <3>2 DEF HInv
  <2> QED BY <2>3, <2>4
<1> QED BY <1>1, <1>3, <1>4 DEF HInv


LEMMA HolderInit == O!Init => HInv
<1> SUFFICES ASSUME O!Init PROVE HInv
  OBVIOUS
<1>1. /\ refs = [o \in Objects |-> 1] /\ hash = [k \in Buckets |-> O!Free] /\ objects = <<>>
      /\ standing = [value |-> O!End, next |-> O!End] /\ set = {} /\ lost = [o \in Objects |-> 0]
  BY DEF O!Init, Buckets
<1>2. HTyped
  BY <1>1 DEF HTyped
<1>3. Unique(objects) /\ Ordered(objects, standing)
  BY <1>1 DEF Unique, Ordered
<1>4. ASSUME NEW o \in Objects PROVE Spare(refs, lost, hash, objects, set, o) = 1
  <2>1. HashHeld(hash, o) = 0 /\ ListHeld(objects, o) = 0
    BY <1>1, NothingHeld
  <2>2. SetHeld(set, o) = 0 /\ refs[o] = 1 /\ lost[o] = 0
    BY <1>1, <1>2, HeldAreNumbers
  <2> QED BY <2>1, <2>2 DEF Spare
<1> QED BY <1>2, <1>3, <1>4 DEF HInv

LEMMA HolderStep ==
  ASSUME HInv, [O!Next]_holderVars
  PROVE  HInv'
<1>1. CASE UNCHANGED holderVars
  BY <1>1 DEF holderVars, HInv, HTyped
<1>2. CASE O!Next
  <2>1. ASSUME NEW k \in Keys, O!remove_BlockHash(k) \/ \E o \in Objects : O!insert_BlockHash(k, o) PROVE HInv'
    BY <2>1, RemovesFromHash, InsertsInHash
  <2>2. ASSUME NEW i \in DOMAIN objects, O!removeNode_ObjectList(objects[i]) PROVE HInv'
    BY <2>2, RemovesFromList
  <2>3. ASSUME NEW o \in Objects,
               \/ O!insert_StringSet(o) \/ O!remove_StringSet(o) \/ O!deref_Object(o)
               \/ \E pos \in 1..Len(objects) + 1 : O!Put(pos, o)
        PROVE  HInv'
    BY <2>3, InsertsInSet, RemovesFromSet, DropsOne, PutsInList
  <2> QED BY <1>2, <2>1, <2>2, <2>3, ClearsHash, ClearsList, StartsIterator, StepsIterator, RemovesAtIterator
          DEF O!Next
<1> QED BY <1>1, <1>2

LEMMA HolderSafe ==
  ASSUME HInv
  PROVE  O!HoldersBalance
<1>1. ASSUME NEW o \in Objects PROVE refs[o] - O!HeldBy(o) - lost[o] \in {0, 1}
  <2>1. O!HeldBy(o) = HashHeld(hash, o) + ListHeld(objects, o) + SetHeld(set, o)
    <3> HIDE DEF O!Cardinality
    <3> QED BY DEF O!HeldBy, HashHeld, ListHeld, SetHeld
  <2>2. Spare(refs, lost, hash, objects, set, o) = refs[o] - O!HeldBy(o) - lost[o]
    BY <2>1 DEF Spare
  <2> QED BY <2>2 DEF HInv
<1>2. ASSUME NEW n \in {standing.value, standing.next} \ {O!End} PROVE O!Contains(objects, n)
  <2>1. standing.value # O!End
    BY <1>2 DEF HInv, Ordered
  <2>2. \E i \in DOMAIN objects : objects[i] = n
    BY <1>2, <2>1, NextIsAhead
  <2>3. DOMAIN objects = 1..Len(objects)
    BY ListFacts DEF HInv
  <2> QED BY <2>2, <2>3 DEF O!Contains
<1> QED BY <1>1, <1>2 DEF O!HoldersBalance

-----------------------------------------------------------------------------
(* What each behaviour of the data does, to one of them and not the others.  *)

LEMMA DataSteps ==
  ASSUME [DataNext]_dataVars
  PROVE  /\ [B!Next]_blockVars /\ [Q!Next]_compressionVars /\ [U!Next]_bufferVars
         /\ [O!Next]_holderVars /\ [R!Next]_sessionVars /\ subject' = subject
BY DEF DataNext, dataVars

(* Blocks are values, whatever data they share and whatever is done to them; *)
(* what is written to a compressed or decompressed block is whole, however   *)
(* often it had to grow.                                                     *)
THEOREM BlocksStayValues == DataSpec => []BlocksAreValues
<1>1. DataInit => BInv /\ CInv
  BY BlockInit, StreamInit DEF DataInit
<1>2. BInv /\ CInv /\ [DataNext]_dataVars => (BInv /\ CInv)'
  BY BlockStep, StreamStep, DataSteps
<1>3. BInv /\ CInv => BlocksAreValues
  BY BlockSafe DEF BlocksAreValues, CInv
<1> QED BY <1>1, <1>2, <1>3, PTL DEF DataSpec

(* What is read from a buffer, and what is consumed from its start, is what   *)
(* was written there and in that order, wherever its user went on reading or *)
(* overwriting, and its position is where its user is.                       *)
THEOREM BuffersAreQueues == DataSpec => []StreamsAreExact
<1>1. DataInit => UInv
  BY BufferInit DEF DataInit
<1>2. UInv /\ [DataNext]_dataVars => UInv'
  BY BufferStep, DataSteps
<1>3. UInv => StreamsAreExact
  BY BufferSafe DEF StreamsAreExact
<1> QED BY <1>1, <1>2, <1>3, PTL DEF DataSpec

(* An object in a hash, a list or a string set has a reference for each place *)
(* that holds it and no reference but those and the program's own, except for *)
(* the strings that a set overwrote; an iterator stands on, and is bound for, *)
(* nodes that are there. A certificate of a TLS server is that of a request   *)
(* or of a cached session, and a request is offered only what belongs to its  *)
(* client and shows what its connection allows.                               *)
THEOREM HoldersAlwaysBalance == DataSpec => []HoldersBalance
<1>0. Sensible
  BY DataAssumption DEF Sensible
<1>1. DataInit => HInv /\ R!IInv
  BY <1>0, HolderInit, SessionsInit DEF DataInit
<1>2. HInv /\ R!IInv /\ [DataNext]_dataVars => (HInv /\ R!IInv)'
  <2> SUFFICES ASSUME HInv, R!IInv, [DataNext]_dataVars PROVE HInv' /\ R!IInv'
    OBVIOUS
  <2>1. HInv'
    BY HolderStep, DataSteps
  <2>2. [R!Next]_(R!sessionVars)
    BY DataSteps DEF sessionVars, R!sessionVars
  <2>3. R!IInv'
    BY <1>0, <2>2, SessionsStep
  <2> QED BY <2>1, <2>3
<1>3. HInv /\ R!IInv => HoldersBalance
  BY HolderSafe, SessionsSafe DEF HoldersBalance
<1> QED BY <1>1, <1>2, <1>3, PTL DEF DataSpec
=============================================================================
