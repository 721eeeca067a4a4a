---------------------------- MODULE Mysock_proofs ----------------------------
(***************************************************************************)
(* Theorems about module Mysock, for every list of files, every size of a  *)
(* buffer, of a line and of a segment.                                     *)
(***************************************************************************)
EXTENDS MysockInvariant, SequenceTheorems, FiniteSetTheorems, WellFoundedInduction, TLAPS

-----------------------------------------------------------------------------
(* Induction. *)

(* Every non-empty set of naturals has a least element. *)
LEMMA LeastOf ==
  ASSUME NEW T, T \subseteq Nat, T # {}
  PROVE  \E x \in T : \A y \in T : x <= y
<1>1. IsWellFoundedOn({ss \in Nat \X Nat : ss[1] < ss[2]}, Nat)
  BY NatLessThanWellFounded DEF OpToRel
<1>2. PICK x \in T :
        \A y \in T : ~(<<y, x>> \in {ss \in Nat \X Nat : ss[1] < ss[2]})
  BY <1>1, WFMin
<1>3. \A y \in T : /\ <<y, x>> \in Nat \X Nat
                   /\ <<y, x>>[1] = y /\ <<y, x>>[2] = x
  OBVIOUS
<1>4. \A y \in T : ~ (y < x)
  BY <1>2, <1>3
<1>. QED  BY <1>4

(* A set with m, and with i + 1 if it has i < n, has every i from m to n.  *)
LEMMA Through ==
  ASSUME NEW m \in Nat, NEW n \in Nat, NEW T, m <= n => m \in T,
         \A i \in m .. (n - 1) : i \in T => i + 1 \in T
  PROVE  \A i \in m .. n : i \in T
<1>. DEFINE M == (m .. n) \ T
<1>1. SUFFICES ASSUME M # {} PROVE FALSE
  OBVIOUS
<1>2. PICK x \in M : \A y \in M : x <= y
  <2>1. M \subseteq Nat
    OBVIOUS
  <2>. HIDE DEF M
  <2>. QED  BY <1>1, <2>1, LeastOf
<1>3. x \in Nat /\ x # m /\ x - 1 \in m .. (n - 1) /\ (x - 1) + 1 = x /\ ~ x <= x - 1
  BY <1>2
<1>. QED  BY <1>2, <1>3

-----------------------------------------------------------------------------
(* The bytes of a sequence of segments. *)

(* f[i] is what the first i segments of s have.                            *)
IsFold(f, s) ==
  f = [i \in 1 .. Len(s) |-> IF i = 1 THEN s[i] ELSE f[i - 1] \o s[i]]

FoldsTo(f, s, n) ==
  /\ f \in [1 .. n -> Seq(Int)]
  /\ \A i \in 1 .. n : f[i] = IF i = 1 THEN s[i] ELSE f[i - 1] \o s[i]

(* What the library's theorems say of a sequence of segments.              *)
LEMMA SegmentFacts ==
  ASSUME NEW s \in Segments
  PROVE  /\ Len(s) \in Nat /\ DOMAIN s = 1 .. Len(s) /\ \A i \in 1 .. Len(s) : s[i] \in Seq(Int)
         /\ s = <<>> <=> Len(s) = 0
         /\ s # <<>> => Len(s) \in 1 .. Len(s) /\ 1 \in 1 .. Len(s)
<1>1. /\ Len(s) \in Nat /\ DOMAIN s = 1 .. Len(s) /\ \A i \in 1 .. Len(s) : s[i] \in Seq(Int)
  BY DEF Segments
<1>2. s = <<>> <=> Len(s) = 0
  BY EmptySeq DEF Segments
<1>. QED  BY <1>1, <1>2

(* Bytes put together stay bytes, and the order of putting them together   *)
(* does not matter.                                                        *)
LEMMA Associative ==
  \A x, y, z \in Seq(Int) :
    (x \o y) \o z = x \o (y \o z) /\ x \o y \in Seq(Int) /\ y \o z \in Seq(Int)
BY ConcatAssociative, ConcatProperties

(* The empty sequence, which is no bytes and no segments.                  *)
LEMMA NoBytes == <<>> \in Seq(Int) /\ <<>> \in Segments /\ Len(<<>>) = 0
BY EmptySeq DEF Segments

(* A fold over a sequence exists, built one element at a time.             *)
LEMMA FoldExists ==
  ASSUME NEW s \in Segments
  PROVE  \E f : FoldsTo(f, s, Len(s))
<1>. PICK n : n = Len(s) /\ n \in Nat
  BY SegmentFacts
<1>. DEFINE T == {m \in Nat : \E f : FoldsTo(f, s, m)}
<1>1. 0 \in T
  <2>. DEFINE h == [i \in 1 .. 0 |-> <<>>]
  <2>1. \A i \in 1 .. 0 : FALSE
    OBVIOUS
  <2>2. FoldsTo(h, s, 0)
    BY <2>1 DEF FoldsTo
  <2>. QED  BY <2>2
<1>2. ASSUME NEW m \in 0 .. (n - 1), m \in T PROVE m + 1 \in T
  <2>1. PICK g : FoldsTo(g, s, m)
    BY <1>2
  <2>. DEFINE x == IF m = 0 THEN s[m + 1] ELSE g[m] \o s[m + 1]
              h == [i \in 1 .. (m + 1) |-> IF i = m + 1 THEN x ELSE g[i]]
  <2>2. m \in Nat /\ (m # 0 => m \in 1 .. m) /\ m + 1 \in 1 .. Len(s) /\ (m + 1 = 1 <=> m = 0)
        /\ (m + 1) - 1 = m
    OBVIOUS
  <2>3. s[m + 1] \in Seq(Int)
    BY <2>2, SegmentFacts
  <2>4. g \in [1 .. m -> Seq(Int)]
    BY <2>1 DEF FoldsTo
  <2>5. x \in Seq(Int)
    <3>1. m # 0 => g[m] \in Seq(Int)
      BY <2>2, <2>4
    <3>. QED  BY <2>3, <3>1, ConcatProperties
  <2>. HIDE DEF x
  <2>6. \A i \in 1 .. (m + 1) : i = m + 1 \/ i \in 1 .. m
    BY <2>2
  <2>7. h \in [1 .. (m + 1) -> Seq(Int)]
    BY <2>4, <2>5, <2>6
  <2>8. ASSUME NEW i \in 1 .. (m + 1)
        PROVE  h[i] = IF i = 1 THEN s[i] ELSE h[i - 1] \o s[i]
    <3>1. CASE i = m + 1
      <4>1. h[i] = x
        BY <3>1
      <4>2. m # 0 => h[m] = g[m]
        BY <2>2
      <4>. QED  BY <2>2, <3>1, <4>1, <4>2 DEF x
    <3>2. CASE i # m + 1
      <4>1. i \in 1 .. m /\ (i # 1 => i - 1 \in 1 .. (m + 1) /\ i - 1 # m + 1)
        BY <2>2, <3>2
      <4>2. h[i] = g[i] /\ (i # 1 => h[i - 1] = g[i - 1])
        BY <3>2, <4>1
      <4>3. g[i] = IF i = 1 THEN s[i] ELSE g[i - 1] \o s[i]
        BY <2>1, <4>1, Zenon DEF FoldsTo
      <4>. QED  BY <4>2, <4>3
    <3>. QED  BY <3>1, <3>2
  <2>. HIDE DEF h
  <2>9. FoldsTo(h, s, m + 1)
    BY <2>7, <2>8 DEF FoldsTo
  <2>. QED  BY <2>2, <2>9
<1>. HIDE DEF T
<1>3. \A i \in 0 .. n : i \in T
  BY <1>1, <1>2, Through
<1>4. n \in T
  BY <1>3
<1>. QED  BY <1>4 DEF T

(* Two sequences that begin alike have the same bytes as far.              *)
LEMMA FoldsAgree ==
  ASSUME NEW s, NEW t, NEW f, NEW g, NEW m \in Nat, NEW n \in Nat, NEW k \in Nat, k <= m, k <= n,
         FoldsTo(f, s, m), FoldsTo(g, t, n), \A i \in 1 .. k : s[i] = t[i]
  PROVE  \A i \in 1 .. k : f[i] = g[i]
<1>. DEFINE T == {i \in 1 .. k : f[i] = g[i]}
<1>0. ASSUME 1 <= k PROVE f[1] = s[1] /\ g[1] = t[1] /\ s[1] = t[1] /\ 1 \in 1 .. k
  <2>1. 1 \in 1 .. m /\ 1 \in 1 .. n /\ 1 \in 1 .. k
    BY <1>0
  <2>. QED  BY <2>1, Zenon DEF FoldsTo
<1>1. 1 <= k => 1 \in T
  BY <1>0
<1>2. ASSUME NEW i \in 1 .. (k - 1), i \in T PROVE i + 1 \in T
  <2>1. i + 1 \in 1 .. k /\ i + 1 \in 1 .. m /\ i + 1 \in 1 .. n /\ i + 1 # 1 /\ (i + 1) - 1 = i
    OBVIOUS
  <2>2. f[i + 1] = f[i] \o s[i + 1] /\ g[i + 1] = g[i] \o t[i + 1]
    BY <2>1 DEF FoldsTo
  <2>3. f[i] = g[i]
    BY <1>2
  <2>. QED  BY <2>1, <2>2, <2>3
<1>. HIDE DEF T
<1>3. \A i \in 1 .. k : i \in T
  BY <1>1, <1>2, Through
<1>. QED  BY <1>3 DEF T

(* No segments hold no bytes.                                              *)
LEMMA FlattenEmpty == FlattenSeq(<<>>) = <<>>
BY DEF FlattenSeq

(* FlattenSeq is the end of such a fold.                                   *)
LEMMA FlattenFold ==
  ASSUME NEW s \in Segments, s # <<>>, NEW f, FoldsTo(f, s, Len(s))
  PROVE  FlattenSeq(s) = f[Len(s)]
<1>. DEFINE g == CHOOSE g : IsFold(g, s)
<1>0. Len(s) \in Nat /\ Len(s) # 0 /\ Len(s) \in 1 .. Len(s)
  BY SegmentFacts, EmptySeq DEF Segments
<1>1. \E h : IsFold(h, s)
  <2>1. f = [i \in 1 .. Len(s) |-> IF i = 1 THEN s[i] ELSE f[i - 1] \o s[i]]
    BY Zenon DEF FoldsTo
  <2>. QED  BY <2>1, Zenon DEF IsFold
<1>2. IsFold(g, s)
  BY <1>1, Zenon
<1>3. FlattenSeq(s) = g[Len(s)]
  BY <1>0, Zenon DEF FlattenSeq, IsFold
<1>. HIDE DEF g
<1>4. \A i \in 1 .. Len(s) : g[i] = IF i = 1 THEN s[i] ELSE g[i - 1] \o s[i]
  BY <1>2, Zenon DEF IsFold
<1>. DEFINE T == {i \in 1 .. Len(s) : f[i] = g[i]}
<1>5. 1 \in T
  <2>1. 1 \in 1 .. Len(s)
    BY <1>0
  <2>2. f[1] = s[1] /\ g[1] = s[1]
    BY <1>4, <2>1, Zenon DEF FoldsTo
  <2>. QED  BY <2>1, <2>2
<1>6. ASSUME NEW i \in 1 .. (Len(s) - 1), i \in T PROVE i + 1 \in T
  <2>1. i + 1 \in 1 .. Len(s) /\ i + 1 # 1 /\ (i + 1) - 1 = i
    BY <1>0
  <2>2. f[i + 1] = f[i] \o s[i + 1] /\ g[i + 1] = g[i] \o s[i + 1]
    BY <1>4, <2>1 DEF FoldsTo
  <2>3. f[i] = g[i]
    BY <1>6
  <2>. QED  BY <2>1, <2>2, <2>3
<1>. HIDE DEF T
<1>7. \A i \in 1 .. Len(s) : i \in T
  BY <1>0, <1>5, <1>6, Through
<1>. QED  BY <1>0, <1>3, <1>7 DEF T

(* The bytes of segments are bytes.                                        *)
LEMMA FlattenType ==
  ASSUME NEW s \in Segments
  PROVE  FlattenSeq(s) \in Seq(Int)
<1>1. CASE s = <<>>
  BY <1>1, FlattenEmpty, NoBytes
<1>2. CASE s # <<>>
  <2>1. PICK f : FoldsTo(f, s, Len(s))
    BY FoldExists
  <2>2. Len(s) \in 1 .. Len(s)
    BY <1>2, SegmentFacts
  <2>3. f[Len(s)] \in Seq(Int)
    BY <2>1, <2>2 DEF FoldsTo
  <2>. QED  BY <1>2, <2>1, <2>3, FlattenFold
<1>. QED  BY <1>1, <1>2

(* Enqueue: a segment put behind the others puts its bytes behind theirs.  *)
LEMMA FlattenAppend ==
  ASSUME NEW s \in Segments, NEW x \in Seq(Int)
  PROVE  Append(s, x) \in Segments /\ FlattenSeq(Append(s, x)) = FlattenSeq(s) \o x
<1>. PICK t : t = Append(s, x)
  OBVIOUS
<1>. PICK n : n = Len(s) /\ n \in Nat
  BY SegmentFacts
<1>1. t \in Segments /\ t # <<>> /\ Len(t) = n + 1 /\ t[n + 1] = x /\ \A i \in 1 .. n : t[i] = s[i]
  BY AppendProperties DEF Segments
<1>2. PICK g : FoldsTo(g, t, n + 1)
  BY <1>1, FoldExists
<1>3. FlattenSeq(t) = g[n + 1]
  BY <1>1, <1>2, FlattenFold
<1>4. n + 1 \in 1 .. (n + 1) /\ (n + 1 = 1 <=> n = 0) /\ (n + 1) - 1 = n /\ (n # 0 => n \in 1 .. n)
  OBVIOUS
<1>5. g[n + 1] = IF n = 0 THEN x ELSE g[n] \o x
  BY <1>1, <1>2, <1>4, Zenon DEF FoldsTo
<1>6. CASE s = <<>>
  <2>1. n = 0 /\ <<>> \o x = x
    BY <1>6, ConcatEmptySeq
  <2>. QED  BY <1>1, <1>3, <1>5, <1>6, <2>1, FlattenEmpty
<1>7. CASE s # <<>>
  <2>1. n # 0
    BY <1>7, EmptySeq DEF Segments
  <2>2. PICK f : FoldsTo(f, s, n)
    BY FoldExists
  <2>3. \A i \in 1 .. n : f[i] = g[i]
    <3>1. n <= n /\ n <= n + 1 /\ n + 1 \in Nat /\ \A i \in 1 .. n : s[i] = t[i]
      BY <1>1
    <3>. QED  BY ONLY <1>2, <2>2, <3>1, n \in Nat, FoldsAgree
  <2>4. FlattenSeq(s) = f[n]
    BY <1>7, <2>2, FlattenFold
  <2>. QED  BY <1>1, <1>3, <1>4, <1>5, <2>1, <2>3, <2>4
<1>. QED  BY <1>6, <1>7

(* The bytes of a queue are those of its head and then of the others.      *)
LEMMA FlattenHead ==
  ASSUME NEW s \in Segments, s # <<>>
  PROVE  /\ Head(s) \in Seq(Int) /\ Tail(s) \in Segments
         /\ FlattenSeq(s) = Head(s) \o FlattenSeq(Tail(s))
<1>. PICK x, t, n : x = Head(s) /\ t = Tail(s) /\ n = Len(t)
  OBVIOUS
<1>1. /\ x \in Seq(Int) /\ t \in Segments /\ Len(s) = n + 1 /\ n \in Nat
      /\ \A i \in 1 .. n : t[i] = s[i + 1]
  <2>1. Len(s) \in Nat /\ Len(s) # 0
    BY SegmentFacts, EmptySeq DEF Segments
  <2>2. x \in Seq(Int) /\ t \in Segments /\ n = Len(s) - 1 /\ \A i \in 1 .. n : t[i] = s[i + 1]
    BY HeadTailProperties DEF Segments
  <2>. QED  BY <2>1, <2>2
<1>2. s[1] = x
  OBVIOUS
<1>3. PICK f : FoldsTo(f, s, n + 1)
  BY <1>1, FoldExists
<1>4. PICK g : FoldsTo(g, t, n)
  BY <1>1, FoldExists
<1>5. FlattenSeq(s) = f[n + 1]
  BY <1>1, <1>3, FlattenFold
<1>6. f[1] = x
  <2>1. 1 \in 1 .. (n + 1)
    BY <1>1
  <2>. QED  BY <1>2, <1>3, <2>1, Zenon DEF FoldsTo
<1>7. CASE t = <<>>
  <2>1. n = 0 /\ x \o <<>> = x /\ n + 1 = 1
    BY <1>1, <1>7, ConcatEmptySeq
  <2>. QED  BY <1>1, <1>5, <1>6, <1>7, <2>1, FlattenEmpty
<1>8. CASE t # <<>>
  <2>1. n # 0 /\ n \in 1 .. n
    BY <1>1, <1>8, SegmentFacts
  <2>. DEFINE T == {i \in 1 .. n : f[i + 1] = x \o g[i]}
  <2>2. 1 \in T
    <3>1. 1 \in 1 .. n /\ 1 + 1 \in 1 .. (n + 1) /\ 1 + 1 # 1 /\ (1 + 1) - 1 = 1
      BY <1>1, <2>1
    <3>2. f[1 + 1] = f[1] \o s[1 + 1]
      BY <1>3, <3>1, Zenon DEF FoldsTo
    <3>3. g[1] = t[1] /\ t[1] = s[1 + 1]
      BY <1>1, <1>4, <3>1, Zenon DEF FoldsTo
    <3>. QED  BY <1>6, <3>1, <3>2, <3>3
  <2>3. ASSUME NEW i \in 1 .. (n - 1), i \in T PROVE i + 1 \in T
    <3>1. /\ i \in 1 .. n /\ i + 1 \in 1 .. n /\ (i + 1) + 1 \in 1 .. (n + 1)
          /\ i + 1 # 1 /\ (i + 1) + 1 # 1 /\ ((i + 1) + 1) - 1 = i + 1 /\ (i + 1) - 1 = i
      BY <1>1
    <3>2. f[(i + 1) + 1] = f[i + 1] \o s[(i + 1) + 1] /\ s[(i + 1) + 1] = t[i + 1]
      <4>1. f[(i + 1) + 1] = f[i + 1] \o s[(i + 1) + 1]
        BY <1>3, <3>1, Zenon DEF FoldsTo
      <4>. QED  BY <1>1, <3>1, <4>1, Zenon
    <3>3. g[i + 1] = g[i] \o t[i + 1]
      BY <1>4, <3>1, Zenon DEF FoldsTo
    <3>4. f[i + 1] = x \o g[i]
      BY <2>3
    <3>5. g[i] \in Seq(Int) /\ t[i + 1] \in Seq(Int)
      BY <1>1, <1>4, <3>1, SegmentFacts DEF FoldsTo
    <3>6. (x \o g[i]) \o t[i + 1] = x \o (g[i] \o t[i + 1])
      <4>1. x \in Seq(Int)
        BY <1>1
      <4>. QED  BY ONLY <3>5, <4>1, Associative
    <3>. QED  BY <3>1, <3>2, <3>3, <3>4, <3>6
  <2>. HIDE DEF T
  <2>4. \A i \in 1 .. n : i \in T
    BY <1>1, <2>2, <2>3, Through
  <2>5. f[n + 1] = x \o g[n]
    BY <2>1, <2>4 DEF T
  <2>6. FlattenSeq(t) = g[n]
    BY <1>1, <1>4, <1>8, FlattenFold
  <2>. QED  BY <1>1, <1>5, <2>5, <2>6
<1>. QED  BY <1>7, <1>8

(* Segments without a byte have none together.                             *)
LEMMA FlattenBlank ==
  ASSUME NEW s \in Segments, Blank(s)
  PROVE  FlattenSeq(s) = <<>>
<1>1. CASE s = <<>>
  BY <1>1, FlattenEmpty
<1>2. CASE s # <<>>
  <2>. PICK n : n = Len(s) /\ n \in Nat
    BY SegmentFacts
  <2>1. n \in 1 .. n /\ \A i \in 1 .. n : s[i] = <<>>
    BY <1>2, SegmentFacts DEF Blank
  <2>2. PICK f : FoldsTo(f, s, n)
    BY FoldExists
  <2>. DEFINE T == {i \in 1 .. n : f[i] = <<>>}
  <2>3. 1 \in T
    <3>1. 1 \in 1 .. n
      BY <2>1
    <3>2. f[1] = s[1]
      BY <2>2, <3>1, Zenon DEF FoldsTo
    <3>. QED  BY <2>1, <3>1, <3>2
  <2>4. ASSUME NEW i \in 1 .. (n - 1), i \in T PROVE i + 1 \in T
    <3>1. i + 1 \in 1 .. n /\ i + 1 # 1 /\ (i + 1) - 1 = i
      OBVIOUS
    <3>2. f[i + 1] = f[i] \o s[i + 1]
      BY <2>2, <3>1, Zenon DEF FoldsTo
    <3>3. f[i] = <<>> /\ s[i + 1] = <<>> /\ <<>> \o <<>> = <<>>
      BY <2>1, <2>4, <3>1, ConcatEmptySeq
    <3>. QED  BY <3>1, <3>2, <3>3
  <2>. HIDE DEF T
  <2>5. \A i \in 1 .. n : i \in T
    BY <2>3, <2>4, Through
  <2>6. FlattenSeq(s) = f[n]
    BY <1>2, <2>2, FlattenFold
  <2>. QED  BY <2>1, <2>5, <2>6 DEF T
<1>. QED  BY <1>1, <1>2

(* What is taken from a queue, with what is left, is what it had.  What is *)
(* taken is empty, and then a whole segment, only when the head is.        *)
LEMMA DequeueKeeps ==
  ASSUME NEW s \in Segments, s # <<>>, NEW n \in Nat \ {0}
  PROVE  /\ Taken(s, n) \in Seq(Int) /\ Dequeued(s, n) \in Segments
         /\ FlattenSeq(s) = Taken(s, n) \o FlattenSeq(Dequeued(s, n))
         /\ Len(Taken(s, n)) <= n
         /\ IF Head(s) = <<>> THEN Taken(s, n) = <<>> /\ Dequeued(s, n) = Tail(s)
            ELSE /\ Taken(s, n) # <<>>
                 /\ \/ Dequeued(s, n) = Tail(s)
                    \/ \E x \in Seq(Int) : x # <<>> /\ Dequeued(s, n) = <<x>> \o Tail(s)
<1>. PICK h, t : h = Head(s) /\ t = Tail(s)
  OBVIOUS
<1>1. h \in Seq(Int) /\ t \in Segments /\ FlattenSeq(s) = h \o FlattenSeq(t) /\ Len(h) \in Nat
  BY FlattenHead
<1>2. CASE Len(h) > n
  <2>. PICK a, b, m : a = SubSeq(h, 1, n) /\ b = SubSeq(h, n + 1, m) /\ m = Len(h) /\ m \in Nat
    BY <1>1
  <2>1. /\ a \in Seq(Int) /\ Len(a) = n /\ b \in Seq(Int) /\ Len(b) = m - n
    BY <1>1, <1>2
  <2>2. a \o b = h
    <3>1. /\ 1 \in 1 .. m + 1 /\ n \in 1 - 1 .. m /\ m \in n .. m
      BY <1>2
    <3>2. a \o b = SubSeq(h, 1, m)
      BY <1>1, <3>1, ConcatAdjacentSubSeq
    <3>. QED  BY <1>1, <3>2, SubSeqFull
  <2>3. a # <<>> /\ b # <<>> /\ h # <<>>
    <3>1. Len(a) # 0 /\ Len(b) # 0 /\ Len(h) # 0
      BY <1>2, <2>1
    <3>. QED  BY ONLY <3>1, NoBytes
  <2>4. Taken(s, n) = a /\ Dequeued(s, n) = <<b>> \o t
    BY <1>2 DEF Taken, Dequeued
  <2>. PICK d : d = <<b>> \o t
    OBVIOUS
  <2>5. d \in Segments /\ d # <<>> /\ Head(d) = b /\ Tail(d) = t
    <3>1. <<b>> \in Seq(Seq(Int)) /\ Len(<<b>>) = 1 /\ <<b>>[1] = b /\ t \in Seq(Seq(Int))
      BY SMTT(30), <1>1, <2>1 DEF Segments
    <3>2. /\ d \in Seq(Seq(Int)) /\ Len(d) = 1 + Len(t)
          /\ \A i \in 1 .. 1 + Len(t) : d[i] = IF i <= 1 THEN <<b>>[i] ELSE t[i - 1]
      BY ONLY <3>1, d = <<b>> \o t, ConcatProperties
    <3>3. Len(t) \in Nat
      BY <1>1, SegmentFacts
    <3>4. d # <<>> /\ d[1] = b
      BY <3>1, <3>2, <3>3, EmptySeq
    <3>5. Tail(d) \in Seq(Seq(Int)) /\ Len(Tail(d)) = Len(t) /\ \A i \in 1 .. Len(t) : Tail(d)[i] = d[i + 1]
      BY <3>2, <3>3, <3>4, HeadTailProperties
    <3>6. \A i \in 1 .. Len(t) : d[i + 1] = t[i]
      BY <3>2, <3>3
    <3>7. Tail(d) = t
      <4>1. Tail(d) \in Seq(Seq(Int)) /\ t \in Seq(Seq(Int)) /\ Len(Tail(d)) = Len(t)
        BY <3>1, <3>5
      <4>2. \A i \in 1 .. Len(Tail(d)) : Tail(d)[i] = t[i]
        BY <3>5, <3>6
      <4>. QED  BY ONLY <4>1, <4>2, SeqEqual
    <3>8. Head(d) = b
      BY <3>4
    <3>. QED  BY ONLY <3>2, <3>4, <3>7, <3>8 DEF Segments
  <2>6. FlattenSeq(d) = b \o FlattenSeq(t)
    BY <2>5, FlattenHead
  <2>7. FlattenSeq(s) = a \o FlattenSeq(d)
    <3>1. FlattenSeq(t) \in Seq(Int)
      BY <1>1, FlattenType
    <3>2. (a \o b) \o FlattenSeq(t) = a \o (b \o FlattenSeq(t))
      BY ONLY SMTT(30), <2>1, <3>1, Associative
    <3>. QED  BY <1>1, <2>2, <2>6, <3>2
  <2>8. Taken(s, n) \in Seq(Int) /\ Dequeued(s, n) \in Segments /\ Len(Taken(s, n)) <= n
    BY <2>1, <2>4, <2>5
  <2>9. FlattenSeq(s) = Taken(s, n) \o FlattenSeq(Dequeued(s, n))
    BY <2>4, <2>7
  <2>10. Taken(s, n) # <<>> /\ Head(s) # <<>>
    BY <2>3, <2>4
  <2>11. \E x \in Seq(Int) : x # <<>> /\ Dequeued(s, n) = <<x>> \o Tail(s)
    BY <2>1, <2>3, <2>4
  <2>. QED  BY ONLY <2>8, <2>9, <2>10, <2>11
<1>3. CASE ~ (Len(h) > n)
  <2>1. Taken(s, n) = h /\ Dequeued(s, n) = t
    BY <1>3 DEF Taken, Dequeued
  <2>2. Len(h) <= n
    BY <1>1, <1>3
  <2>. QED  BY <1>1, <2>1, <2>2
<1>. QED  BY <1>2, <1>3

-----------------------------------------------------------------------------
(* The two sides, and what an action of a side can reach. *)

(* There are two sides, and each is the other's peer.                      *)
LEMMA Sides ==
  /\ Side = {"client", "server"} /\ Client \in Side /\ Server \in Side
  /\ Client = "client" /\ Server = "server" /\ "client" # "server"
  /\ Peer("client") = "server" /\ Peer("server") = "client"
<1>1. Side = {"client", "server"} /\ "client" # "server"
  BY DEF Side
<1>2. ASSUME NEW s, NEW r, s \in Side, Side = {s, r}, s # r PROVE Peer(s) = r
  <2>1. \A x \in Side : x # s <=> x = r
    BY <1>2
  <2>. QED  BY <1>2, <2>1, Zenon DEF Peer
<1>. QED  BY <1>1, <1>2 DEF Client, Server

(* A side has one peer, whose peer it is.                                  *)
LEMMA OtherSide ==
  ASSUME NEW s \in Side
  PROVE  /\ Peer(s) \in Side /\ Peer(s) # s /\ Peer(Peer(s)) = s
         /\ \A t \in Side : t = s \/ t = Peer(s)
BY Sides

-----------------------------------------------------------------------------
(* Types and threads. *)

Control ==
  Types /\ (\A t \in Side : Threads(t) /\ Requests(t)) /\ Opening

(* A SYN is sent, or its connect() refused.                                *)
LEMMA SendSynControl ==
  ASSUME Control, NEW s \in Side, SendSyn(s)
  PROVE  Control'
<1>0. Types /\ Threads(s) /\ Requests(s) /\ Opening
  BY DEF Control
<1>1. Types'
  <2>1. tr' \in [Side -> TransportRecord]
    <3>. PICK x : x \in {0, ECONNREFUSED} /\ tr' = [tr EXCEPT ![s].pc = "handshake", ![s].errno = x]
      <4>1. tr[s].errno \in {0, ECONNREFUSED} /\ tr \in [Side -> TransportRecord]
        BY <1>0 DEF Types, TransportRecord
      <4>2. CASE tr' = [tr EXCEPT ![s].pc = "handshake"]
        <5>1. tr' = [tr EXCEPT ![s].pc = "handshake", ![s].errno = tr[s].errno]
          BY ONLY <4>1, <4>2, s \in Side DEF TransportRecord
        <5>. QED  BY <4>1, <5>1
      <4>3. CASE tr' = [tr EXCEPT ![s].pc = "handshake", ![s].errno = ECONNREFUSED]
        BY <4>3
      <4>. QED  BY <4>2, <4>3 DEF SendSyn
    <3>. PICK r : r = [tr[s] EXCEPT !.pc = "handshake", !.errno = x]
      OBVIOUS
    <3>1. tr \in [Side -> TransportRecord] /\ tr[s] \in TransportRecord
      BY <1>0 DEF Types
    <3>2. r \in TransportRecord
      BY <3>1 DEF TransportRecord
    <3>3. tr' = [tr EXCEPT ![s] = r]
      OBVIOUS
    <3>. QED  BY ONLY <3>1, <3>2, <3>3, s \in Side
  <2>2. tcp' \in [Side -> {"unconnected", "connected", "closed"}]
    BY <1>0 DEF Types, SendSyn, Runs
  <2>3. hist' \in HistRecord
    BY <1>0 DEF Types, HistRecord, SendSyn, Runs
  <2>4. UNCHANGED <<app, rv, sock, q, net, waiting, signal>>
    BY DEF SendSyn, Runs
  <2>. QED  BY <1>0, <2>1, <2>2, <2>3, <2>4 DEF Types
<1>2. ASSUME NEW t \in Side, t # s PROVE Threads(t)' /\ Requests(t)'
  <2>1. /\ app'[t] = app[t] /\ tr'[t] = tr[t] /\ rv'[t] = rv[t] /\ sock'[t] = sock[t]
        /\ q'[t] = q[t] /\ waiting'[t] = waiting[t] /\ signal'[t] = signal[t]
    BY <1>0, <1>2 DEF Types, SendSyn, Runs
  <2>. QED  BY <2>1 DEF Control, Threads, Requests
<1>3. Threads(s)'
  BY <1>0 DEF Types, TransportRecord, Threads, Requests, SendSyn, Runs
<1>4. Requests(s)'
  BY <1>0 DEF Types, TransportRecord, Threads, Requests, Ending, SendSyn, Runs
<1>5. Opening'
  BY <1>0, Sides DEF Types, Opening, AppRecord, TransportRecord, SendSyn, Runs
<1>. QED  BY <1>1, <1>2, <1>3, <1>4, <1>5 DEF Control

(* The handshake is given up: nobody has asked to close yet.               *)
LEMMA HandshakeFailsControl ==
  ASSUME Control, NEW s \in Side, HandshakeFails(s)
  PROVE  Control'
<1>0. Types /\ Threads(s) /\ Requests(s) /\ Opening
  BY DEF Control
<1>1. Types'
  <2>1. tr' \in [Side -> TransportRecord]
    <3>. PICK r : r = [tr[s] EXCEPT !.pc = "final", !.errno = ECONNREFUSED]
      OBVIOUS
    <3>1. tr \in [Side -> TransportRecord] /\ tr[s] \in TransportRecord
      BY <1>0 DEF Types
    <3>2. r \in TransportRecord
      BY <3>1 DEF TransportRecord, ECONNREFUSED
    <3>3. tr' = [tr EXCEPT ![s] = r]
      BY DEF HandshakeFails, Unblock
    <3>. QED  BY ONLY <3>1, <3>2, <3>3, s \in Side
  <2>2. sock' \in [Side -> SockRecord]
    <3>. PICK r : r = [sock[s] EXCEPT !.blocking = FALSE, !.stcp_errno = ECONNREFUSED]
      OBVIOUS
    <3>1. sock \in [Side -> SockRecord] /\ sock[s] \in SockRecord
      BY <1>0 DEF Types
    <3>2. r \in SockRecord
      BY <3>1 DEF SockRecord, ECONNREFUSED
    <3>3. sock' = [sock EXCEPT ![s] = r]
      <4>1. tr'[s].errno = ECONNREFUSED
        BY <1>0 DEF Types, TransportRecord, HandshakeFails
      <4>2. sock' = [sock EXCEPT ![s].blocking = FALSE, ![s].stcp_errno = ECONNREFUSED]
        BY <4>1 DEF HandshakeFails, Unblock
      <4>. QED  BY <4>2
    <3>. QED  BY ONLY <3>1, <3>2, <3>3, s \in Side
  <2>3. hist' \in HistRecord
    <3>1. hist' = [hist EXCEPT !.trouble = TRUE]
      BY DEF HandshakeFails, Unblock
    <3>2. hist \in HistRecord
      BY <1>0 DEF Types
    <3>. QED  BY ONLY <3>1, <3>2, s \in Side DEF HistRecord
  <2>4. UNCHANGED <<app, rv, q, net, tcp, waiting, signal>>
    BY DEF HandshakeFails, Unblock
  <2>. QED  BY <1>0, <2>1, <2>2, <2>3, <2>4 DEF Types
<1>2. ASSUME NEW t \in Side, t # s PROVE Threads(t)' /\ Requests(t)'
  <2>1. /\ app'[t] = app[t] /\ tr'[t] = tr[t] /\ rv'[t] = rv[t] /\ sock'[t] = sock[t]
        /\ q'[t] = q[t] /\ waiting'[t] = waiting[t] /\ signal'[t] = signal[t]
    BY <1>0, <1>2 DEF Types, HandshakeFails, Unblock
  <2>. QED  BY <2>1 DEF Control, Threads, Requests
<1>3. Threads(s)'
  BY <1>0 DEF Types, TransportRecord, SockRecord, Threads, Requests, HandshakeFails, Unblock
<1>4. Requests(s)'
  BY <1>0 DEF Types, TransportRecord, SockRecord, Threads, Requests, Ending, HandshakeFails, Unblock
<1>5. Opening'
  BY <1>0, Sides DEF Types, Opening, AppRecord, TransportRecord, HandshakeFails, Unblock
<1>. QED  BY <1>1, <1>2, <1>3, <1>4, <1>5 DEF Control

(* A FIN is sent: the request to close is on its last stage.               *)
LEMMA HandleAppCloseControl ==
  ASSUME Control, NEW s \in Side, HandleAppClose(s)
  PROVE  Control'
<1>0. Types /\ Threads(s) /\ Requests(s) /\ Opening
  BY DEF Control
<1>1. Types'
  <2>1. tr' \in [Side -> TransportRecord]
    <3>. PICK r : r = [tr[s] EXCEPT !.events = {}, !.fin_sent = TRUE]
      OBVIOUS
    <3>1. tr \in [Side -> TransportRecord] /\ tr[s] \in TransportRecord
      BY <1>0 DEF Types
    <3>2. r \in TransportRecord
      BY <3>1 DEF TransportRecord, ECONNREFUSED
    <3>3. tr' = [tr EXCEPT ![s] = r]
      BY DEF HandleAppClose, Handles
    <3>. QED  BY ONLY <3>1, <3>2, <3>3, s \in Side
  <2>2. net' \in [Side -> Segments]
    <3>. PICK n : n = Append(net[Peer(s)], <<>>)
      OBVIOUS
    <3>1. net' = [net EXCEPT ![Peer(s)] = n]
      BY DEF HandleAppClose
    <3>2. net \in [Side -> Segments] /\ Peer(s) \in Side
      BY <1>0, OtherSide DEF Types
    <3>3. n \in Segments
      BY <3>2, FlattenAppend, NoBytes
    <3>. QED  BY ONLY <3>1, <3>2, <3>3
  <2>3. UNCHANGED <<app, rv, sock, q, tcp, waiting, signal, hist>>
    BY DEF HandleAppClose, Handles
  <2>. QED  BY <1>0, <2>1, <2>2, <2>3 DEF Types
<1>2. ASSUME NEW t \in Side, t # s PROVE Threads(t)' /\ Requests(t)'
  <2>1. /\ app'[t] = app[t] /\ tr'[t] = tr[t] /\ rv'[t] = rv[t] /\ sock'[t] = sock[t]
        /\ q'[t] = q[t] /\ waiting'[t] = waiting[t] /\ signal'[t] = signal[t]
    BY <1>0, <1>2 DEF Types, HandleAppClose, Handles
  <2>. QED  BY <2>1 DEF Control, Threads, Requests
<1>3. Threads(s)'
  BY <1>0 DEF Types, TransportRecord, Threads, Requests, HandleAppClose, Handles
<1>4. Requests(s)'
  BY <1>0 DEF Types, TransportRecord, Threads, Requests, Ending, HandleAppClose, Handles
<1>5. Opening'
  BY SMTT(30), <1>0, Sides DEF Types, Opening, AppRecord, TransportRecord, HandleAppClose, Handles
<1>. QED  BY <1>1, <1>2, <1>3, <1>4, <1>5 DEF Control

(* The transport thread has handled what it was told of.                   *)
LEMMA EndOfTurnControl ==
  ASSUME Control, NEW s \in Side, EndOfTurn(s)
  PROVE  Control'
<1>0. Types /\ Threads(s) /\ Requests(s) /\ Opening
  BY DEF Control
<1>1. Types'
  <2>1. tr' \in [Side -> TransportRecord]
    <3>1. tr' = [tr EXCEPT ![s].pc = IF tr[s].fin_sent /\ tr[s].fin_received
                                    THEN "final" ELSE "wait"]
      BY DEF EndOfTurn
    <3>2. tr \in [Side -> TransportRecord]
      BY <1>0 DEF Types
    <3>. QED  BY ONLY <3>1, <3>2, s \in Side DEF TransportRecord
  <2>2. UNCHANGED <<app, rv, sock, q, net, tcp, waiting, signal, hist>>
    BY DEF EndOfTurn
  <2>. QED  BY <1>0, <2>1, <2>2 DEF Types
<1>2. ASSUME NEW t \in Side, t # s PROVE Threads(t)' /\ Requests(t)'
  <2>1. /\ app'[t] = app[t] /\ tr'[t] = tr[t] /\ rv'[t] = rv[t] /\ sock'[t] = sock[t]
        /\ q'[t] = q[t] /\ waiting'[t] = waiting[t] /\ signal'[t] = signal[t]
    BY <1>0, <1>2 DEF Types, EndOfTurn
  <2>. QED  BY <2>1 DEF Control, Threads, Requests
<1>3. Threads(s)'
  BY <1>0 DEF Types, TransportRecord, Threads, Requests, EndOfTurn
<1>4. Requests(s)'
  BY <1>0 DEF Types, TransportRecord, Threads, Requests, Ending, EndOfTurn
<1>5. Opening'
  BY <1>0, Sides DEF Types, Opening, AppRecord, TransportRecord, EndOfTurn
<1>. QED  BY <1>1, <1>2, <1>3, <1>4, <1>5 DEF Control

(* The connection is given up.                                             *)
LEMMA GiveUpControl ==
  ASSUME Control, NEW s \in Side, GiveUp(s)
  PROVE  Control'
<1>0. Types /\ Threads(s) /\ Requests(s) /\ Opening
  BY DEF Control
<1>1. Types'
  <2>1. tr' \in [Side -> TransportRecord]
    <3>. PICK r : r = [tr[s] EXCEPT !.pc = "final"]
      OBVIOUS
    <3>1. tr \in [Side -> TransportRecord] /\ tr[s] \in TransportRecord
      BY <1>0 DEF Types
    <3>2. r \in TransportRecord
      BY <3>1 DEF TransportRecord, ECONNREFUSED
    <3>3. tr' = [tr EXCEPT ![s] = r]
      BY DEF GiveUp
    <3>. QED  BY ONLY <3>1, <3>2, <3>3, s \in Side
  <2>2. waiting' \in [Side -> SUBSET {"app", "transport"}]
    BY <1>0 DEF Types, GiveUp
  <2>3. hist' \in HistRecord
    <3>1. hist' = [hist EXCEPT !.trouble = TRUE]
      BY DEF GiveUp
    <3>2. hist \in HistRecord
      BY <1>0 DEF Types
    <3>. QED  BY ONLY <3>1, <3>2, s \in Side DEF HistRecord
  <2>4. UNCHANGED <<app, rv, sock, q, net, tcp, signal>>
    BY DEF GiveUp
  <2>. QED  BY <1>0, <2>1, <2>2, <2>3, <2>4 DEF Types
<1>2. ASSUME NEW t \in Side, t # s PROVE Threads(t)' /\ Requests(t)'
  <2>1. /\ app'[t] = app[t] /\ tr'[t] = tr[t] /\ rv'[t] = rv[t] /\ sock'[t] = sock[t]
        /\ q'[t] = q[t] /\ waiting'[t] = waiting[t] /\ signal'[t] = signal[t]
    BY <1>0, <1>2 DEF Types, GiveUp
  <2>. QED  BY <2>1 DEF Control, Threads, Requests
<1>3. Threads(s)'
  BY <1>0 DEF Types, TransportRecord, Threads, Requests, GiveUp
<1>4. Requests(s)'
  BY <1>0 DEF Types, TransportRecord, Threads, Requests, Ending, GiveUp
<1>5. Opening'
  BY <1>0, Sides DEF Types, Opening, AppRecord, TransportRecord, GiveUp
<1>. QED  BY <1>1, <1>2, <1>3, <1>4, <1>5 DEF Control

(* The receive thread makes the TCP connection, or ends.                   *)
LEMMA RecvConnectsControl ==
  ASSUME Control, NEW s \in Side, RecvConnects(s)
  PROVE  Control'
<1>0. Types /\ Threads(s) /\ Requests(s) /\ Opening
  BY DEF Control
<1>1. Types'
  <2>1. rv' \in [Side -> {"none", "poll", "ended"}]
    BY <1>0 DEF Types, RecvConnects, Runs
  <2>2. tcp' \in [Side -> {"unconnected", "connected", "closed"}]
    BY <1>0 DEF Types, RecvConnects, Runs
  <2>3. hist' \in HistRecord
    BY <1>0 DEF Types, HistRecord, RecvConnects, Runs
  <2>4. UNCHANGED <<app, tr, sock, q, net, waiting, signal>>
    BY DEF RecvConnects, Runs
  <2>. QED  BY <1>0, <2>1, <2>2, <2>3, <2>4 DEF Types
<1>2. ASSUME NEW t \in Side, t # s PROVE Threads(t)' /\ Requests(t)'
  <2>1. /\ app'[t] = app[t] /\ tr'[t] = tr[t] /\ rv'[t] = rv[t] /\ sock'[t] = sock[t]
        /\ q'[t] = q[t] /\ waiting'[t] = waiting[t] /\ signal'[t] = signal[t]
    BY <1>0, <1>2 DEF Types, RecvConnects, Runs
  <2>. QED  BY <2>1 DEF Control, Threads, Requests
<1>3. Threads(s)'
  BY <1>0 DEF Types, Threads, Requests, RecvConnects, Runs
<1>4. Requests(s)'
  BY <1>0 DEF Types, Threads, Requests, Ending, RecvConnects, Runs
<1>5. Opening'
  BY <1>0, Sides DEF Types, Opening, AppRecord, TransportRecord, RecvConnects, Runs
<1>. QED  BY <1>1, <1>2, <1>3, <1>4, <1>5 DEF Control

(* The receive thread ends.                                                *)
LEMMA RecvEndsControl ==
  ASSUME Control, NEW s \in Side, RecvEnds(s)
  PROVE  Control'
<1>0. Types /\ Threads(s) /\ Requests(s) /\ Opening
  BY DEF Control
<1>1. Types'
  <2>1. rv' \in [Side -> {"none", "poll", "ended"}]
    BY <1>0 DEF Types, RecvEnds, Runs
  <2>2. UNCHANGED <<app, tr, sock, q, net, tcp, waiting, signal, hist>>
    BY DEF RecvEnds, Runs
  <2>. QED  BY <1>0, <2>1, <2>2 DEF Types
<1>2. ASSUME NEW t \in Side, t # s PROVE Threads(t)' /\ Requests(t)'
  <2>1. /\ app'[t] = app[t] /\ tr'[t] = tr[t] /\ rv'[t] = rv[t] /\ sock'[t] = sock[t]
        /\ q'[t] = q[t] /\ waiting'[t] = waiting[t] /\ signal'[t] = signal[t]
    BY <1>0, <1>2 DEF Types, RecvEnds, Runs
  <2>. QED  BY <2>1 DEF Control, Threads, Requests
<1>3. Threads(s)'
  BY <1>0 DEF Types, Threads, Requests, RecvEnds, Runs
<1>4. Requests(s)'
  BY <1>0 DEF Types, Threads, Requests, Ending, RecvEnds, Runs
<1>5. Opening'
  BY <1>0, Sides DEF Types, Opening, AppRecord, TransportRecord, RecvEnds, Runs
<1>. QED  BY <1>1, <1>2, <1>3, <1>4, <1>5 DEF Control

(* myclose() asks the transport thread to close: a first and only time.    *)
LEMMA RequestCloseControl ==
  ASSUME Control, NEW s \in Side, RequestClose(s)
  PROVE  Control'
<1>0. Types /\ Threads(s) /\ Requests(s) /\ Opening
  BY DEF Control
<1>1. Types'
  <2>1. app' \in [Side -> AppRecord]
    <3>1. app' = [app EXCEPT ![s].pc = "join"]
      BY DEF RequestClose, Calling, Runs, At, ToSignal
    <3>2. app \in [Side -> AppRecord]
      BY <1>0 DEF Types
    <3>. QED  BY ONLY <3>1, <3>2, s \in Side DEF AppRecord, Ending
  <2>2. sock' \in [Side -> SockRecord]
    <3>1. sock' = [sock EXCEPT ![s].close_requested = TRUE]
      BY DEF RequestClose, Calling, Runs, At, ToSignal
    <3>2. sock \in [Side -> SockRecord]
      BY <1>0 DEF Types
    <3>. QED  BY ONLY <3>1, <3>2, s \in Side DEF SockRecord
  <2>3. signal' \in [Side -> SUBSET {"app", "transport", "recv"}]
    BY <1>0 DEF Types, RequestClose, Calling, Runs, At, ToSignal
  <2>4. UNCHANGED <<tr, rv, q, net, tcp, waiting, hist>>
    BY DEF RequestClose, Calling, Runs, At, ToSignal
  <2>. QED  BY <1>0, <2>1, <2>2, <2>3, <2>4 DEF Types
<1>2. ASSUME NEW t \in Side, t # s PROVE Threads(t)' /\ Requests(t)'
  <2>1. /\ app'[t] = app[t] /\ tr'[t] = tr[t] /\ rv'[t] = rv[t] /\ sock'[t] = sock[t]
        /\ q'[t] = q[t] /\ waiting'[t] = waiting[t] /\ signal'[t] = signal[t]
    BY <1>0, <1>2 DEF Types, RequestClose, Calling, Runs, At, ToSignal
  <2>. QED  BY <2>1 DEF Control, Threads, Requests
<1>3. Threads(s)'
  BY <1>0 DEF Types, AppRecord, SockRecord, Threads, Requests, RequestClose, Calling, Runs, At, ToSignal
<1>4. Requests(s)'
  BY <1>0 DEF Types, AppRecord, SockRecord, Threads, Requests, Ending, RequestClose, Calling, Runs, At, ToSignal
<1>5. Opening'
  BY <1>0, Sides DEF Types, Opening, AppRecord, TransportRecord, RequestClose, Calling, Runs, At, ToSignal
<1>. QED  BY <1>1, <1>2, <1>3, <1>4, <1>5 DEF Control

(* myclose() goes on when the transport thread has ended.                  *)
LEMMA TransportJoinedControl ==
  ASSUME Control, NEW s \in Side, TransportJoined(s)
  PROVE  Control'
<1>0. Types /\ Threads(s) /\ Requests(s) /\ Opening
  BY DEF Control
<1>1. Types'
  <2>1. app' \in [Side -> AppRecord]
    <3>1. app' = [app EXCEPT ![s].pc = "joinrecv"]
      BY DEF TransportJoined, Calling, Runs, At
    <3>2. app \in [Side -> AppRecord]
      BY <1>0 DEF Types
    <3>. QED  BY ONLY <3>1, <3>2, s \in Side DEF AppRecord, Ending
  <2>2. sock' \in [Side -> SockRecord]
    <3>1. sock' = [sock EXCEPT ![s].exit_pipe = TRUE]
      BY DEF TransportJoined, Calling, Runs, At
    <3>2. sock \in [Side -> SockRecord]
      BY <1>0 DEF Types
    <3>. QED  BY ONLY <3>1, <3>2, s \in Side DEF SockRecord
  <2>3. UNCHANGED <<tr, rv, q, net, tcp, waiting, signal, hist>>
    BY DEF TransportJoined, Calling, Runs, At
  <2>. QED  BY <1>0, <2>1, <2>2, <2>3 DEF Types
<1>2. ASSUME NEW t \in Side, t # s PROVE Threads(t)' /\ Requests(t)'
  <2>1. /\ app'[t] = app[t] /\ tr'[t] = tr[t] /\ rv'[t] = rv[t] /\ sock'[t] = sock[t]
        /\ q'[t] = q[t] /\ waiting'[t] = waiting[t] /\ signal'[t] = signal[t]
    BY <1>0, <1>2 DEF Types, TransportJoined, Calling, Runs, At
  <2>. QED  BY <2>1 DEF Control, Threads, Requests
<1>3. Threads(s)'
  BY <1>0 DEF Types, AppRecord, SockRecord, Threads, Requests, TransportJoined, Calling, Runs, At
<1>4. Requests(s)'
  BY <1>0 DEF Types, AppRecord, SockRecord, Threads, Requests, Ending, TransportJoined, Calling, Runs, At
<1>5. Opening'
  BY <1>0, Sides DEF Types, Opening, AppRecord, TransportRecord, TransportJoined, Calling, Runs, At
<1>. QED  BY <1>1, <1>2, <1>3, <1>4, <1>5 DEF Control

(* myclose() frees the context: both threads have ended, and nobody waits  *)
(* or is to broadcast.                                                     *)
LEMMA FreeContextControl ==
  ASSUME Control, NEW s \in Side, FreeContext(s)
  PROVE  Control'
<1>0. Types /\ Threads(s) /\ Requests(s) /\ Opening
  BY DEF Control
<1>1. Types'
  <2>1. app' \in [Side -> AppRecord]
    <3>1. app' = [app EXCEPT ![s].pc = "closed"]
      BY DEF FreeContext, Calling, Runs, At
    <3>2. app \in [Side -> AppRecord]
      BY <1>0 DEF Types
    <3>. QED  BY ONLY <3>1, <3>2, s \in Side, NoBytes DEF AppRecord, Ending
  <2>2. q' \in [Side -> QueueRecord]
    <3>1. q' = [q EXCEPT ![s] = [app_recv |-> <<>>, app_send |-> <<>>, network |-> <<>>]]
      BY DEF FreeContext, Calling, Runs, At
    <3>2. q \in [Side -> QueueRecord]
      BY <1>0 DEF Types
    <3>. QED  BY ONLY <3>1, <3>2, s \in Side, NoBytes DEF QueueRecord
  <2>3. tcp' \in [Side -> {"unconnected", "connected", "closed"}]
    BY <1>0, NoBytes DEF Types, FreeContext, Calling, Runs, At
  <2>4. UNCHANGED <<tr, rv, sock, net, waiting, signal, hist>>
    BY DEF FreeContext, Calling, Runs, At
  <2>. QED  BY <1>0, <2>1, <2>2, <2>3, <2>4 DEF Types
<1>2. ASSUME NEW t \in Side, t # s PROVE Threads(t)' /\ Requests(t)'
  <2>1. /\ app'[t] = app[t] /\ tr'[t] = tr[t] /\ rv'[t] = rv[t] /\ sock'[t] = sock[t]
        /\ q'[t] = q[t] /\ waiting'[t] = waiting[t] /\ signal'[t] = signal[t]
    BY <1>0, <1>2 DEF Types, FreeContext, Calling, Runs, At
  <2>. QED  BY <2>1 DEF Control, Threads, Requests
<1>3. Threads(s)'
  <2>1. /\ app[s].pc = "joinrecv" /\ rv[s] = "ended" /\ "recv" \notin signal[s]
        /\ "app" \notin waiting[s] /\ "app" \notin signal[s] /\ app'[s].pc = "closed"
        /\ tr' = tr /\ rv' = rv /\ waiting' = waiting /\ signal' = signal
    BY <1>0 DEF Types, AppRecord, FreeContext, Calling, Runs, At
  <2>2. /\ tr[s].pc = "ended" /\ "transport" \notin signal[s] /\ tr[s].events = {}
        /\ "transport" \notin waiting[s]
    BY <1>0, <2>1 DEF Threads
  <2>3. signal[s] = {} /\ waiting[s] = {}
    BY <1>0, <2>1, <2>2 DEF Types
  <2>. QED  BY <2>1, <2>2, <2>3 DEF Threads
<1>4. Requests(s)'
  BY <1>0, NoBytes DEF Types, AppRecord, QueueRecord, Threads, Requests, Ending, FreeContext, Calling, Runs, At
<1>5. Opening'
  BY <1>0, Sides DEF Types, Opening, AppRecord, TransportRecord, FreeContext, Calling, Runs, At
<1>. QED  BY <1>1, <1>2, <1>3, <1>4, <1>5 DEF Control

(* A wait, or the events that are ready; a request to close is one once.   *)
LEMMA WaitForEventControl ==
  ASSUME Control, NEW s \in Side, WaitForEvent(s)
  PROVE  Control'
<1>0. Types /\ Threads(s) /\ Requests(s) /\ Opening /\ tr[s].pc = "wait"
  BY DEF Control, WaitForEvent
<1>. PICK E : E = Events(s)
  OBVIOUS
<1>e. /\ E \subseteq {"APP_DATA", "NETWORK_DATA", "APP_CLOSE"}
      /\ "APP_DATA" \in E => q[s].app_recv # <<>>
      /\ "NETWORK_DATA" \in E => q[s].network # <<>>
      /\ "APP_CLOSE" \in E <=> sock[s].close_requested /\ q[s].app_recv = <<>>
  BY DEF Events, Ready
<1>u. UNCHANGED <<app, rv, q, net, tcp, signal, hist>>
  BY DEF WaitForEvent
<1>1. CASE E = {}
  <2>1. UNCHANGED <<tr, sock>> /\ waiting' = [waiting EXCEPT ![s] = @ \cup {"transport"}]
    BY <1>1 DEF WaitForEvent, Wait
  <2>2. Types'
    BY <1>0, <1>u, <2>1 DEF Types
  <2>3. ASSUME NEW t \in Side PROVE Threads(t)' /\ Requests(t)'
    <3>1. Threads(t) /\ Requests(t)
      BY DEF Control
    <3>2. waiting'[t] = waiting[t] \/ (t = s /\ waiting'[t] = waiting[t] \cup {"transport"})
      BY <1>0, <2>1 DEF Types
    <3>. QED  BY <1>0, <1>u, <2>1, <3>1, <3>2 DEF Threads, Requests
  <2>4. Opening'
    BY <1>0, <1>u, <2>1 DEF Opening
  <2>. QED  BY <2>2, <2>3, <2>4 DEF Control
<1>2. CASE E # {}
  <2>. PICK r, c : /\ r = [tr[s] EXCEPT !.pc = "handle", !.events = E]
                   /\ c = [sock[s] EXCEPT !.close_requested = @ /\ "APP_CLOSE" \notin E]
    OBVIOUS
  <2>1. tr' = [tr EXCEPT ![s] = r] /\ sock' = [sock EXCEPT ![s] = c] /\ waiting' = waiting
    BY <1>2 DEF WaitForEvent
  <2>2. tr[s] \in TransportRecord /\ sock[s] \in SockRecord
    BY <1>0 DEF Types
  <2>3. r \in TransportRecord /\ r.pc = "handle" /\ r.events = E /\ r.fin_sent = tr[s].fin_sent
    BY <1>e, <2>2 DEF TransportRecord
  <2>4. c \in SockRecord /\ (c.close_requested <=> sock[s].close_requested /\ "APP_CLOSE" \notin E)
    BY <2>2 DEF SockRecord
  <2>5. tr'[s] = r /\ sock'[s] = c
    BY <1>0, <2>1 DEF Types
  <2>6. Types'
    BY <1>0, <1>u, <2>1, <2>3, <2>4 DEF Types
  <2>7. ASSUME NEW t \in Side PROVE Threads(t)' /\ Requests(t)'
    <3>1. Threads(t) /\ Requests(t)
      BY DEF Control
    <3>2. CASE t # s
      <4>1. tr'[t] = tr[t] /\ sock'[t] = sock[t]
        BY <1>0, <2>1, <3>2 DEF Types
      <4>. QED  BY <1>u, <2>1, <3>1, <4>1 DEF Threads, Requests
    <3>3. CASE t = s
      <4>0. "transport" \notin waiting[s]
        BY DEF WaitForEvent, Runs
      <4>1. Threads(s)'
        BY <1>0, <1>e, <1>u, <2>1, <2>3, <2>5, <4>0 DEF Threads
      <4>2. "APP_CLOSE" \in E => app[s].pc = "join" /\ ~ tr[s].fin_sent /\ q[s].app_recv = <<>>
        <5>1. sock[s].close_requested => app[s].pc \in Ending /\ ~ tr[s].fin_sent
          BY <1>0 DEF Requests
        <5>2. app[s].pc \notin {"joinrecv", "closed"}
          BY <1>0 DEF Threads
        <5>. QED  BY <1>e, <5>1, <5>2 DEF Ending
      <4>3. Requests(s)'
        BY <1>0, <1>e, <1>u, <2>3, <2>4, <2>5, <4>2 DEF Requests
      <4>. QED  BY <3>3, <4>1, <4>3
    <3>. QED  BY <3>2, <3>3
  <2>8. Opening'
    <3>1. \A t \in Side : tr'[t].pc = tr[t].pc \/ (tr[t].pc = "wait" /\ tr'[t].pc = "handle")
      BY <1>0, <2>1, <2>3 DEF Types
    <3>. QED  BY <1>0, <1>u, <3>1, Sides DEF Opening
  <2>. QED  BY <2>6, <2>7, <2>8 DEF Control
<1>. QED  BY <1>1, <1>2

(* The handshake ends on both sides at once: the server's was not there.   *)
LEMMA EstablishedControl ==
  ASSUME Control, NEW s \in Side, Established(s)
  PROVE  Control'
<1>. USE Sides
<1>0. /\ Types /\ Threads("client") /\ Requests("client") /\ Threads("server") /\ Requests("server")
      /\ Opening /\ s = "client" /\ tr["client"].pc = "handshake" /\ Peer(s) = "server"
      /\ "transport" \notin waiting["client"]
  BY DEF Control, Established, Runs
<1>. PICK c, d, k : /\ c = [tr["client"] EXCEPT !.pc = "wait"] /\ d = [tr["server"] EXCEPT !.pc = "wait"]
                    /\ k = [sock["client"] EXCEPT !.blocking = FALSE, !.stcp_errno = tr["client"].errno]
  OBVIOUS
<1>t. tr["client"] \in TransportRecord /\ tr["server"] \in TransportRecord /\ sock["client"] \in SockRecord
  BY <1>0 DEF Types
<1>c. /\ c \in TransportRecord /\ c.pc = "wait" /\ c.events = tr["client"].events
      /\ c.fin_sent = tr["client"].fin_sent /\ c.errno = tr["client"].errno
  BY <1>t DEF TransportRecord
<1>d. /\ d \in TransportRecord /\ d.pc = "wait" /\ d.events = tr["server"].events
      /\ d.fin_sent = tr["server"].fin_sent
  BY <1>t DEF TransportRecord
<1>1. tr' = [tr EXCEPT !["client"] = c, !["server"] = d] /\ tr'["client"] = c /\ tr'["server"] = d
  <2>1. tr' = [tr EXCEPT !["client"].pc = "wait", !["server"].pc = "wait"]
    BY <1>0 DEF Established
  <2>. QED  BY <1>0, <2>1 DEF Types
<1>k. k \in SockRecord /\ k.close_requested = sock["client"].close_requested
  BY <1>t DEF SockRecord, TransportRecord
<1>2. sock' = [sock EXCEPT !["client"] = k] /\ sock'["client"] = k /\ sock'["server"] = sock["server"]
  <2>1. sock' = [sock EXCEPT !["client"].blocking = FALSE, !["client"].stcp_errno = tr["client"].errno]
    <3>1. sock' = [sock EXCEPT ![s].blocking = FALSE, ![s].stcp_errno = tr'[s].errno]
      BY Zenon DEF Established, Unblock
    <3>2. s = "client" /\ tr'["client"].errno = tr["client"].errno
      BY <1>0, <1>1, <1>c
    <3>. QED  BY ONLY <3>1, <3>2
  <2>2. sock' = [sock EXCEPT !["client"] = k]
    BY ONLY <2>1, k = [sock["client"] EXCEPT !.blocking = FALSE, !.stcp_errno = tr["client"].errno]
  <2>. QED  BY <1>0, <2>2 DEF Types
<1>3. /\ rv' = [rv EXCEPT !["server"] = "poll"] /\ tcp' = [tcp EXCEPT !["server"] = "connected"]
      /\ UNCHANGED <<app, q, net, waiting, signal, hist>>
  BY <1>0 DEF Established
<1>4. Types'
  <2>1. tr' \in [Side -> TransportRecord] /\ sock' \in [Side -> SockRecord]
    BY <1>0, <1>1, <1>2, <1>c, <1>d, <1>k DEF Types
  <2>. QED  BY <1>0, <1>3, <2>1 DEF Types
<1>5. tr["server"].pc = "none" /\ app["server"].pc = "accept"
  BY <1>0 DEF Opening
<1>6. Threads("client")' /\ Requests("client")'
  <2>1. rv'["client"] = rv["client"] /\ tr["client"].events = {} /\ app["client"].pc \notin {"joinrecv", "closed"}
    BY <1>0, <1>3 DEF Types, Threads
  <2>. QED  BY <1>0, <1>1, <1>2, <1>3, <1>c, <1>k, <2>1 DEF Threads, Requests
<1>7. Threads("server")' /\ Requests("server")'
  <2>1. tr["server"].events = {} /\ app["server"].pc \notin {"joinrecv", "closed"}
    BY <1>0, <1>5 DEF Threads
  <2>. QED  BY <1>0, <1>1, <1>2, <1>3, <1>d, <2>1 DEF Threads, Requests
<1>8. Opening'
  BY <1>0, <1>1, <1>3, <1>c, <1>d DEF Opening
<1>. QED  BY <1>4, <1>6, <1>7, <1>8 DEF Control

(* A step of an application that does not end: what it writes is behind    *)
(* what it wrote, and it asks nobody to close.                             *)
LEMMA WorkControl ==
  ASSUME Control, NEW s \in Side, app[s].pc \notin Ending,
         s = Server /\ app[s].pc = "accept" => tr[s].pc # "none",
         NEW a \in AppRecord, a.pc \notin Ending \cup {"start"}, app' = [app EXCEPT ![s] = a],
         NEW u \in QueueRecord, q' = [q EXCEPT ![s] = u], u.network = q[s].network,
         u.app_recv = <<>> => q[s].app_recv = <<>>,
         NEW c \in SockRecord, sock' = [sock EXCEPT ![s] = c],
         c.close_requested = sock[s].close_requested,
         waiting' = waiting \/ waiting' = [waiting EXCEPT ![s] = @ \cup {"app"}],
         signal' = signal \/ signal' = [signal EXCEPT ![s] = @ \cup {"app"}],
         tcp' \in [Side -> {"unconnected", "connected", "closed"}],
         hist' \in HistRecord, UNCHANGED <<tr, rv, net>>
  PROVE  Control'
<1>0. Types /\ Threads(s) /\ Requests(s) /\ Opening
  BY DEF Control
<1>1. app'[s] = a /\ q'[s] = u /\ sock'[s] = c
  BY <1>0 DEF Types
<1>2. Types'
  <2>1. app' \in [Side -> AppRecord] /\ q' \in [Side -> QueueRecord] /\ sock' \in [Side -> SockRecord]
    BY <1>0 DEF Types
  <2>2. waiting' \in [Side -> SUBSET {"app", "transport"}]
    BY <1>0 DEF Types
  <2>3. signal' \in [Side -> SUBSET {"app", "transport", "recv"}]
    BY <1>0 DEF Types
  <2>. QED  BY <1>0, <2>1, <2>2, <2>3 DEF Types
<1>3. ASSUME NEW t \in Side, t # s PROVE Threads(t)' /\ Requests(t)'
  <2>1. /\ app'[t] = app[t] /\ tr'[t] = tr[t] /\ rv'[t] = rv[t] /\ sock'[t] = sock[t]
        /\ q'[t] = q[t] /\ waiting'[t] = waiting[t] /\ signal'[t] = signal[t]
    BY <1>0, <1>3 DEF Types
  <2>. QED  BY <2>1 DEF Control, Threads, Requests
<1>4. ~ sock[s].close_requested /\ "APP_CLOSE" \notin tr[s].events /\ ~ tr[s].fin_sent
  BY <1>0 DEF Requests, Ending
<1>5. Requests(s)'
  BY <1>1, <1>4 DEF Requests
<1>6. Threads(s)'
  <2>1. "transport" \in waiting'[s] => "transport" \in waiting[s]
    BY <1>0 DEF Types
  <2>2. a.pc \notin {"joinrecv", "closed"}
    BY DEF Ending
  <2>. QED  BY <1>0, <1>1, <2>1, <2>2 DEF Threads
<1>7. Opening'
  <2>1. \A t \in Side : t # s => app'[t] = app[t]
    BY <1>0 DEF Types
  <2>2. a.pc # "start"
    OBVIOUS
  <2>. QED  BY <1>0, <1>1, <2>1, <2>2, Sides DEF Opening
<1>. QED  BY <1>2, <1>3, <1>5, <1>6, <1>7 DEF Control

(* What the transport thread and the receive thread do with the queues.    *)
LEMMA HandleAppDataControl ==
  ASSUME Control, NEW s \in Side, HandleAppData(s)
  PROVE  Control'
<1>0. Types /\ Threads(s) /\ Requests(s) /\ Opening /\ "APP_DATA" \in tr[s].events
  BY DEF Control, HandleAppData, Handles
<1>. PICK h, x, d : h = q[s].app_recv /\ x = Append(net[Peer(s)], Taken(h, MSS)) /\ d = Dequeued(h, MSS)
  OBVIOUS
<1>q. q[s] \in QueueRecord /\ h \in Segments /\ tr[s] \in TransportRecord /\ Peer(s) \in Side
      /\ net[Peer(s)] \in Segments
  BY <1>0, OtherSide DEF Types, QueueRecord
<1>h. h # <<>>
  BY <1>0 DEF Threads
<1>d. d \in Segments /\ x \in Segments
  <2>1. d \in Segments /\ Taken(h, MSS) \in Seq(Int)
    BY <1>q, <1>h, DequeueKeeps, MysockAssumption
  <2>. QED  BY <1>q, <2>1, FlattenAppend
<1>. PICK r, u : /\ r = [tr[s] EXCEPT !.events = @ \ {"APP_DATA"}]
                 /\ u = [q[s] EXCEPT !.app_recv = d]
  OBVIOUS
<1>r. /\ r \in TransportRecord /\ r.pc = tr[s].pc /\ r.events = tr[s].events \ {"APP_DATA"}
      /\ r.fin_sent = tr[s].fin_sent
  BY <1>q DEF TransportRecord
<1>u. u \in QueueRecord /\ u.network = q[s].network /\ u.app_recv = d
  BY <1>q, <1>d DEF QueueRecord
<1>1. tr' = [tr EXCEPT ![s] = r] /\ UNCHANGED <<app, rv, sock, tcp, waiting, signal, hist>>
  BY DEF HandleAppData
<1>2. \/ q' = q /\ net' = net
      \/ /\ q' = [q EXCEPT ![s] = u] /\ ~ tr[s].fin_sent
         /\ net' = net \/ net' = [net EXCEPT ![Peer(s)] = x]
  <2>1. CASE tr[s].fin_sent
    BY <2>1 DEF HandleAppData
  <2>2. CASE ~ tr[s].fin_sent
    <3>1. q' = [q EXCEPT ![s].app_recv = d]
      BY <2>2 DEF HandleAppData
    <3>2. net' = [net EXCEPT ![Peer(s)] = IF Head(h) = <<>> THEN @ ELSE x]
      BY <2>2 DEF HandleAppData
    <3>3. net' = net \/ net' = [net EXCEPT ![Peer(s)] = x]
      BY <1>0, <3>2 DEF Types
    <3>. QED  BY <2>2, <3>1, <3>3
  <2>. QED  BY <2>1, <2>2
<1>3. Types'
  <2>1. tr' \in [Side -> TransportRecord]
    BY <1>0, <1>1, <1>r DEF Types
  <2>2. q' \in [Side -> QueueRecord]
    BY <1>0, <1>2, <1>u DEF Types
  <2>3. net' \in [Side -> Segments]
    BY <1>0, <1>2, <1>d, <1>q DEF Types
  <2>. QED  BY <1>0, <1>1, <2>1, <2>2, <2>3 DEF Types
<1>4. tr'[s] = r /\ (q'[s] = q[s] \/ (q'[s] = u /\ ~ tr[s].fin_sent))
  BY <1>0, <1>1, <1>2 DEF Types
<1>5. ASSUME NEW t \in Side, t # s PROVE Threads(t)' /\ Requests(t)'
  <2>1. tr'[t] = tr[t] /\ q'[t] = q[t]
    BY <1>0, <1>1, <1>2, <1>5 DEF Types
  <2>. QED  BY <1>1, <2>1 DEF Control, Threads, Requests
<1>6. "APP_CLOSE" \notin tr[s].events
  BY <1>0, <1>h DEF Requests
<1>7. Threads(s)' /\ Requests(s)'
  BY <1>0, <1>1, <1>4, <1>6, <1>r, <1>u DEF Threads, Requests
<1>8. Opening'
  <2>1. \A t \in Side : tr'[t].pc = tr[t].pc
    BY <1>0, <1>1, <1>r DEF Types
  <2>. QED  BY <1>0, <1>1, <2>1, Sides DEF Opening
<1>. QED  BY <1>3, <1>5, <1>7, <1>8 DEF Control

(* A segment goes from the transport thread to the application's queue.    *)
LEMMA HandleNetworkDataControl ==
  ASSUME Control, NEW s \in Side, HandleNetworkData(s)
  PROVE  Control'
<1>0. /\ Types /\ Threads(s) /\ Requests(s) /\ Opening /\ "NETWORK_DATA" \in tr[s].events
      /\ tr[s].pc = "handle"
  BY DEF Control, HandleNetworkData, Handles
<1>. PICK h, x, y, f : /\ h = q[s].network /\ x = Append(q[s].app_send, Head(h)) /\ y = Tail(h)
                       /\ f = (tr[s].fin_received \/ Head(h) = <<>>)
  OBVIOUS
<1>q. /\ q[s] \in QueueRecord /\ h \in Segments /\ tr[s] \in TransportRecord
      /\ q[s].app_send \in Segments /\ h # <<>>
  BY <1>0 DEF Types, QueueRecord, Threads
<1>d. x \in Segments /\ y \in Segments /\ f \in BOOLEAN
  <2>1. Head(h) \in Seq(Int) /\ y \in Segments
    BY <1>q, FlattenHead
  <2>. QED  BY <1>q, <2>1, FlattenAppend
<1>. PICK r, u : /\ r = [tr[s] EXCEPT !.events = @ \ {"NETWORK_DATA"}, !.fin_received = f]
                 /\ u = [q[s] EXCEPT !.network = y, !.app_send = x]
  OBVIOUS
<1>r. /\ r \in TransportRecord /\ r.pc = tr[s].pc /\ r.events = tr[s].events \ {"NETWORK_DATA"}
      /\ r.fin_sent = tr[s].fin_sent
  BY <1>q, <1>d DEF TransportRecord
<1>u. u \in QueueRecord /\ u.app_recv = q[s].app_recv
  BY <1>q, <1>d DEF QueueRecord
<1>1. /\ tr' = [tr EXCEPT ![s] = r] /\ q' = [q EXCEPT ![s] = u]
      /\ signal' = [signal EXCEPT ![s] = @ \cup {"transport"}]
      /\ UNCHANGED <<app, rv, sock, net, tcp, waiting, hist>>
  BY DEF HandleNetworkData, ToSignal, Enqueue
<1>3. Types'
  <2>1. tr' \in [Side -> TransportRecord] /\ q' \in [Side -> QueueRecord]
        /\ signal' \in [Side -> SUBSET {"app", "transport", "recv"}]
    BY <1>0, <1>1, <1>r, <1>u DEF Types
  <2>. QED  BY <1>0, <1>1, <2>1 DEF Types
<1>4. tr'[s] = r /\ q'[s] = u
  BY <1>0, <1>1 DEF Types
<1>5. ASSUME NEW t \in Side, t # s PROVE Threads(t)' /\ Requests(t)'
  <2>1. tr'[t] = tr[t] /\ q'[t] = q[t] /\ signal'[t] = signal[t]
    BY <1>0, <1>1, <1>5 DEF Types
  <2>. QED  BY <1>1, <2>1 DEF Control, Threads, Requests
<1>6. app[s].pc \notin {"joinrecv", "closed"}
  BY <1>0 DEF Threads
<1>7. Threads(s)' /\ Requests(s)'
  BY <1>0, <1>1, <1>4, <1>6, <1>r, <1>u DEF Threads, Requests
<1>8. Opening'
  <2>1. \A t \in Side : tr'[t].pc = tr[t].pc
    BY <1>0, <1>1, <1>r DEF Types
  <2>. QED  BY <1>0, <1>1, <2>1, Sides DEF Opening
<1>. QED  BY <1>3, <1>5, <1>7, <1>8 DEF Control

(* The transport thread ends with an end of file for the application.      *)
LEMMA TransportEndsControl ==
  ASSUME Control, NEW s \in Side, TransportEnds(s)
  PROVE  Control'
<1>0. /\ Types /\ Threads(s) /\ Requests(s) /\ Opening /\ tr[s].pc = "final"
      /\ "transport" \notin waiting[s]
  BY DEF Control, TransportEnds, Runs
<1>. PICK x : x = Append(q[s].app_send, <<>>)
  OBVIOUS
<1>q. q[s] \in QueueRecord /\ tr[s] \in TransportRecord /\ x \in Segments
  BY <1>0, FlattenAppend, NoBytes DEF Types, QueueRecord
<1>. PICK r, u : r = [tr[s] EXCEPT !.pc = "ended"] /\ u = [q[s] EXCEPT !.app_send = x]
  OBVIOUS
<1>r. r \in TransportRecord /\ r.pc = "ended" /\ r.events = tr[s].events /\ r.fin_sent = tr[s].fin_sent
  BY <1>q DEF TransportRecord
<1>u. u \in QueueRecord /\ u.app_recv = q[s].app_recv /\ u.network = q[s].network
  BY <1>q DEF QueueRecord
<1>1. /\ tr' = [tr EXCEPT ![s] = r] /\ q' = [q EXCEPT ![s] = u]
      /\ signal' = [signal EXCEPT ![s] = @ \cup {"transport"}]
      /\ UNCHANGED <<app, rv, sock, net, tcp, waiting, hist>>
  BY DEF TransportEnds, ToSignal, Enqueue
<1>3. Types'
  <2>1. tr' \in [Side -> TransportRecord] /\ q' \in [Side -> QueueRecord]
        /\ signal' \in [Side -> SUBSET {"app", "transport", "recv"}]
    BY <1>0, <1>1, <1>r, <1>u DEF Types
  <2>. QED  BY <1>0, <1>1, <2>1 DEF Types
<1>4. tr'[s] = r /\ q'[s] = u
  BY <1>0, <1>1 DEF Types
<1>5. ASSUME NEW t \in Side, t # s PROVE Threads(t)' /\ Requests(t)'
  <2>1. tr'[t] = tr[t] /\ q'[t] = q[t] /\ signal'[t] = signal[t]
    BY <1>0, <1>1, <1>5 DEF Types
  <2>. QED  BY <1>1, <2>1 DEF Control, Threads, Requests
<1>6. app[s].pc \notin {"joinrecv", "closed"}
  BY <1>0 DEF Threads
<1>7. Threads(s)' /\ Requests(s)'
  BY <1>0, <1>1, <1>4, <1>6, <1>r, <1>u DEF Threads, Requests
<1>8. Opening'
  <2>1. \A t \in Side : tr'[t].pc = tr[t].pc \/ (tr[t].pc = "final" /\ tr'[t].pc = "ended")
    BY <1>0, <1>1, <1>r DEF Types
  <2>. QED  BY <1>0, <1>1, <2>1, Sides DEF Opening
<1>. QED  BY <1>3, <1>5, <1>7, <1>8 DEF Control

(* A segment is taken from the network.                                    *)
LEMMA RecvPacketControl ==
  ASSUME Control, NEW s \in Side, RecvPacket(s)
  PROVE  Control'
<1>0. Types /\ Threads(s) /\ Requests(s) /\ Opening /\ rv[s] = "poll" /\ net[s] # <<>>
  BY DEF Control, RecvPacket
<1>. PICK x, y : x = Append(q[s].network, Head(net[s])) /\ y = Tail(net[s])
  OBVIOUS
<1>q. q[s] \in QueueRecord /\ x \in Segments /\ y \in Segments /\ x # <<>>
  <2>1. q[s] \in QueueRecord /\ q[s].network \in Segments /\ net[s] \in Segments
    BY <1>0 DEF Types, QueueRecord
  <2>2. Head(net[s]) \in Seq(Int) /\ y \in Segments
    BY <1>0, <2>1, FlattenHead
  <2>3. x # <<>>
    <3>. PICK v, h : v = q[s].network /\ h = Head(net[s])
      OBVIOUS
    <3>1. v \in Seq(Seq(Int)) /\ h \in Seq(Int)
      BY <2>1, <2>2 DEF Segments
    <3>2. Append(v, h) # <<>>
      BY ONLY <3>1, AppendProperties
    <3>. QED  BY <3>2
  <2>. QED  BY <2>1, <2>2, <2>3, FlattenAppend
<1>. PICK u : u = [q[s] EXCEPT !.network = x]
  OBVIOUS
<1>u. u \in QueueRecord /\ u.app_recv = q[s].app_recv /\ u.network = x
  BY <1>q DEF QueueRecord
<1>1. /\ q' = [q EXCEPT ![s] = u] /\ net' = [net EXCEPT ![s] = y]
      /\ signal' = [signal EXCEPT ![s] = @ \cup {"recv"}]
      /\ UNCHANGED <<app, tr, rv, sock, tcp, waiting, hist>>
  BY DEF RecvPacket, ToSignal, Enqueue
<1>3. Types'
  <2>1. q' \in [Side -> QueueRecord] /\ net' \in [Side -> Segments]
        /\ signal' \in [Side -> SUBSET {"app", "transport", "recv"}]
    BY <1>0, <1>1, <1>q, <1>u DEF Types
  <2>. QED  BY <1>0, <1>1, <2>1 DEF Types
<1>4. q'[s] = u /\ signal'[s] = signal[s] \cup {"recv"}
  BY <1>0, <1>1 DEF Types
<1>5. ASSUME NEW t \in Side, t # s PROVE Threads(t)' /\ Requests(t)'
  <2>1. q'[t] = q[t] /\ signal'[t] = signal[t]
    BY <1>0, <1>1, <1>5 DEF Types
  <2>. QED  BY <1>1, <2>1 DEF Control, Threads, Requests
<1>6. app[s].pc # "closed"
  BY <1>0 DEF Threads
<1>7. Threads(s)' /\ Requests(s)'
  BY <1>0, <1>1, <1>4, <1>6, <1>q, <1>u DEF Threads, Requests
<1>8. Opening'
  BY <1>0, <1>1 DEF Opening
<1>. QED  BY <1>3, <1>5, <1>7, <1>8 DEF Control

(* A thread broadcasts: those that wait run again.                         *)
LEMMA BroadcastControl ==
  ASSUME Control, NEW s \in Side, NEW thread, Broadcast(s, thread)
  PROVE  Control'
<1>0. Types /\ Opening
  BY DEF Control
<1>1. /\ signal' = [signal EXCEPT ![s] = @ \ {thread}] /\ waiting' = [waiting EXCEPT ![s] = {}]
      /\ UNCHANGED <<app, tr, rv, sock, q, net, tcp, hist>>
  BY DEF Broadcast
<1>2. Types'
  BY <1>0, <1>1 DEF Types
<1>3. ASSUME NEW t \in Side PROVE Threads(t)' /\ Requests(t)'
  <2>1. signal'[t] \subseteq signal[t] /\ waiting'[t] \subseteq waiting[t]
    BY <1>0, <1>1 DEF Types
  <2>2. Threads(t) /\ Requests(t)
    BY DEF Control
  <2>. QED  BY <1>1, <2>1, <2>2 DEF Threads, Requests
<1>4. Opening'
  BY <1>0, <1>1 DEF Opening
<1>. QED  BY <1>2, <1>3, <1>4 DEF Control

(* What a write and a read do to the records of a side.                    *)
LEMMA WriteShape ==
  ASSUME Types, NEW s \in Side, NEW buf \in Seq(Int), Write(s, buf)
  PROVE  /\ \E u \in QueueRecord :
              /\ q' = [q EXCEPT ![s] = u] /\ q'[s] = u
              /\ u.app_recv = Append(q[s].app_recv, buf) /\ u.app_recv # <<>>
              /\ u.app_send = q[s].app_send /\ u.network = q[s].network
         /\ hist' \in HistRecord /\ hist'.trouble = hist.trouble /\ hist'.unread = hist.unread
         /\ hist'.got = hist.got
         /\ hist'.written = [hist.written EXCEPT ![s] = @ \o buf]
         /\ hist'.written[s] = hist.written[s] \o buf
         /\ \A t \in Side : t # s => hist'.written[t] = hist.written[t]
         /\ signal' = [signal EXCEPT ![s] = @ \cup {"app"}]
         /\ UNCHANGED <<tr, rv, sock, net, tcp, waiting>>
<1>. PICK x, w : x = Append(q[s].app_recv, buf) /\ w = hist.written[s] \o buf
  OBVIOUS
<1>1. q[s] \in QueueRecord /\ q[s].app_recv \in Segments
  BY DEF Types, QueueRecord
<1>2. x \in Segments /\ x # <<>>
  <2>1. x \in Segments
    BY <1>1, FlattenAppend
  <2>2. x # <<>>
    BY <1>1, AppendProperties DEF Segments
  <2>. QED  BY <2>1, <2>2
<1>. PICK u : u = [q[s] EXCEPT !.app_recv = x]
  OBVIOUS
<1>3. u \in QueueRecord /\ u.app_recv = x /\ u.app_send = q[s].app_send /\ u.network = q[s].network
  BY <1>1, <1>2 DEF QueueRecord
<1>4. q' = [q EXCEPT ![s] = u] /\ q'[s] = u
  <2>1. q' = [q EXCEPT ![s] = u]
    BY DEF Write, Enqueue
  <2>. QED  BY <2>1 DEF Types
<1>5. w \in Seq(Int)
  BY ConcatProperties DEF Types, HistRecord
<1>6. hist' = [hist EXCEPT !.written[s] = w]
  BY DEF Write
<1>7. hist \in HistRecord
  BY DEF Types
<1>8. /\ hist' \in HistRecord /\ hist'.trouble = hist.trouble /\ hist'.unread = hist.unread
      /\ hist'.got = hist.got /\ hist'.written = [hist.written EXCEPT ![s] = w]
  BY ONLY <1>5, <1>6, <1>7, s \in Side DEF HistRecord
<1>9. hist'.written[s] = w /\ \A t \in Side : t # s => hist'.written[t] = hist.written[t]
  BY ONLY <1>7, <1>8, s \in Side DEF HistRecord
<1>10. /\ signal' = [signal EXCEPT ![s] = @ \cup {"app"}]
       /\ UNCHANGED <<tr, rv, sock, net, tcp, waiting>>
  BY DEF Write, ToSignal
<1>. QED  BY <1>2, <1>3, <1>4, <1>8, <1>9, <1>10

Consumes(s, n, data) ==
  /\ ~ sock[s].eof /\ q[s].app_send # <<>> /\ data = Taken(q[s].app_send, n)
  /\ \E c \in SockRecord :
       /\ sock' = [sock EXCEPT ![s] = c] /\ sock'[s] = c
       /\ (c.eof <=> data = <<>>) /\ c.close_requested = sock[s].close_requested
  /\ \E u \in QueueRecord :
       /\ q' = [q EXCEPT ![s] = u] /\ q'[s] = u
       /\ u.app_send = Dequeued(q[s].app_send, n)
       /\ u.app_recv = q[s].app_recv /\ u.network = q[s].network
  /\ hist' \in HistRecord /\ hist'.trouble = hist.trouble
  /\ hist'.unread = hist.unread /\ hist'.written = hist.written
  /\ hist'.got = [hist.got EXCEPT ![s] = @ \o data]
  /\ hist'.got[s] = hist.got[s] \o data
  /\ \A t \in Side : t # s => hist'.got[t] = hist.got[t]

(* A read after the end of file changes nothing; any other takes from the  *)
(* head of the queue.                                                      *)
LEMMA ReadShape ==
  ASSUME Types, NEW s \in Side, NEW n \in Nat \ {0}, Read(s, n), NEW data, data = Received(s, n)
  PROVE  /\ data \in Seq(Int) /\ Len(data) \in Nat /\ Len(data) <= n
         /\ \/ sock[s].eof /\ data = <<>> /\ UNCHANGED <<sock, q, hist>>
            \/ Consumes(s, n, data)
         /\ UNCHANGED <<tr, rv, net, tcp, waiting, signal>>
<1>u. UNCHANGED <<tr, rv, net, tcp, waiting, signal>>
  BY DEF Read
<1>t. /\ q[s] \in QueueRecord /\ q[s].app_send \in Segments /\ sock[s] \in SockRecord
      /\ hist \in HistRecord /\ hist.got[s] \in Seq(Int)
  BY DEF Types, QueueRecord, HistRecord
<1>1. CASE sock[s].eof
  <2>1. data = <<>> /\ UNCHANGED <<sock, q, hist>>
    BY <1>1 DEF Read, Received
  <2>2. Len(data) = 0 /\ data \in Seq(Int)
    BY <2>1, NoBytes
  <2>. QED  BY <1>1, <1>u, <2>1, <2>2
<1>2. CASE ~ sock[s].eof
  <2>1. q[s].app_send # <<>> /\ data = Taken(q[s].app_send, n)
    BY <1>2 DEF Read, Received
  <2>. PICK d, w, e : d = Dequeued(q[s].app_send, n) /\ w = hist.got[s] \o data /\ e = (data = <<>>)
    OBVIOUS
  <2>2. data \in Seq(Int) /\ Len(data) \in Nat /\ Len(data) <= n /\ d \in Segments /\ w \in Seq(Int)
    <3>1. data \in Seq(Int) /\ Len(data) <= n /\ d \in Segments
      BY <1>t, <2>1, DequeueKeeps
    <3>. QED  BY <1>t, <3>1, ConcatProperties
  <2>. PICK c, u : c = [sock[s] EXCEPT !.eof = e] /\ u = [q[s] EXCEPT !.app_send = d]
    OBVIOUS
  <2>3. /\ u \in QueueRecord /\ u.app_send = d /\ u.app_recv = q[s].app_recv
        /\ u.network = q[s].network
    BY <1>t, <2>2 DEF QueueRecord
  <2>4. c \in SockRecord /\ (c.eof <=> data = <<>>) /\ c.close_requested = sock[s].close_requested
    BY <1>t DEF SockRecord
  <2>5. /\ sock' = [sock EXCEPT ![s] = c] /\ q' = [q EXCEPT ![s] = u]
        /\ hist' = [hist EXCEPT !.got[s] = w]
    BY <1>2 DEF Read
  <2>6. sock'[s] = c /\ q'[s] = u
    BY <2>5 DEF Types
  <2>7. /\ hist' \in HistRecord /\ hist'.trouble = hist.trouble /\ hist'.unread = hist.unread
        /\ hist'.written = hist.written /\ hist'.got = [hist.got EXCEPT ![s] = w]
    BY ONLY <1>t, <2>2, <2>5, s \in Side DEF HistRecord
  <2>8. hist'.got[s] = w /\ \A t \in Side : t # s => hist'.got[t] = hist.got[t]
    BY ONLY <1>t, <2>7, s \in Side DEF HistRecord
  <2>9. Consumes(s, n, data)
    BY <1>2, <2>1, <2>3, <2>4, <2>5, <2>6, <2>7, <2>8 DEF Consumes
  <2>. QED  BY <1>u, <2>2, <2>9
<1>. QED  BY <1>1, <1>2

(* The applications.                                                       *)
LEMMA ConnectControl ==
  ASSUME Control, Connect
  PROVE  Control'
<1>. USE Sides
<1>0. /\ Types /\ Threads("client") /\ Requests("client") /\ Opening /\ app["client"].pc = "start"
      /\ tr["client"].pc = "none"
  BY DEF Control, Connect, Opening
<1>. PICK a, r : a = [app["client"] EXCEPT !.pc = "connecting"] /\ r = [tr["client"] EXCEPT !.pc = "syn"]
  OBVIOUS
<1>t. app["client"] \in AppRecord /\ tr["client"] \in TransportRecord
  BY <1>0 DEF Types
<1>a. a \in AppRecord /\ a.pc = "connecting"
  BY <1>t DEF AppRecord
<1>r. /\ r \in TransportRecord /\ r.pc = "syn" /\ r.events = tr["client"].events
      /\ r.fin_sent = tr["client"].fin_sent
  BY <1>t DEF TransportRecord
<1>1. /\ app' = [app EXCEPT !["client"] = a] /\ tr' = [tr EXCEPT !["client"] = r]
      /\ rv' = [rv EXCEPT !["client"] = "poll"]
      /\ UNCHANGED <<sock, q, net, tcp, waiting, signal, hist>>
  BY DEF Connect, At
<1>2. Types'
  <2>1. app' \in [Side -> AppRecord] /\ tr' \in [Side -> TransportRecord]
    BY <1>0, <1>1, <1>a, <1>r DEF Types
  <2>. QED  BY <1>0, <1>1, <2>1 DEF Types
<1>3. app'["client"] = a /\ tr'["client"] = r /\ app'["server"] = app["server"] /\ tr'["server"] = tr["server"]
      /\ rv'["server"] = rv["server"]
  BY <1>0, <1>1 DEF Types
<1>4. Threads("server")' /\ Requests("server")'
  BY <1>1, <1>3 DEF Control, Threads, Requests
<1>5. Threads("client")' /\ Requests("client")'
  BY <1>0, <1>1, <1>3, <1>a, <1>r DEF Threads, Requests, Ending
<1>6. Opening'
  BY <1>0, <1>3, <1>a, <1>r DEF Opening
<1>. QED  BY <1>2, <1>4, <1>5, <1>6 DEF Control

(* Of a step that changes no queue, and of its application only the record.*)
LEMMA AloneControl ==
  ASSUME Control, NEW s \in Side, app[s].pc \notin Ending,
         s = Server /\ app[s].pc = "accept" => tr[s].pc # "none",
         NEW a \in AppRecord, a.pc \notin Ending \cup {"start"}, app' = [app EXCEPT ![s] = a],
         waiting' = waiting \/ waiting' = [waiting EXCEPT ![s] = @ \cup {"app"}],
         tcp' \in [Side -> {"unconnected", "connected", "closed"}],
         hist' \in HistRecord, UNCHANGED <<tr, rv, sock, q, net, signal>>
  PROVE  Control'
<1>. PICK u, c : u = q[s] /\ c = sock[s]
  OBVIOUS
<1>1. Types
  BY DEF Control
<1>2. u \in QueueRecord /\ c \in SockRecord /\ q' = [q EXCEPT ![s] = u] /\ sock' = [sock EXCEPT ![s] = c]
  BY <1>1 DEF Types
<1>. QED  BY <1>2, WorkControl

(* myconnect() returns.                                                    *)
LEMMA ConnectReturnsControl ==
  ASSUME Control, ConnectReturns
  PROVE  Control'
<1>. USE Sides
<1>0. Types /\ app["client"].pc = "connecting" /\ app["client"] \in AppRecord /\ hist \in HistRecord
  BY DEF Control, ConnectReturns, Types
<1>. PICK p : p \in {"ask", "exited"} /\ app' = [app EXCEPT !["client"].pc = p]
  BY DEF ConnectReturns, At
<1>. PICK a : a = [app["client"] EXCEPT !.pc = p]
  OBVIOUS
<1>1. a \in AppRecord /\ a.pc = p /\ app' = [app EXCEPT !["client"] = a]
  BY <1>0 DEF AppRecord
<1>2. UNCHANGED <<tr, rv, sock, q, net, waiting, signal, hist>>
      /\ tcp' \in [Side -> {"unconnected", "connected", "closed"}]
  BY <1>0 DEF ConnectReturns, Types
<1>3. app["client"].pc \notin Ending /\ a.pc \notin Ending \cup {"start"}
  BY <1>0, <1>1 DEF Ending
<1>. QED  BY <1>0, <1>1, <1>2, <1>3, AloneControl

(* myaccept() returns: the transport thread of the connection runs.        *)
LEMMA AcceptControl ==
  ASSUME Control, Accept
  PROVE  Control'
<1>. USE Sides
<1>0. /\ Types /\ app["server"].pc = "accept" /\ app["server"] \in AppRecord /\ hist \in HistRecord
      /\ tr["server"].pc # "none"
  BY DEF Control, Accept, Types
<1>. PICK a : a = [app["server"] EXCEPT !.pc = "line"]
  OBVIOUS
<1>1. a \in AppRecord /\ a.pc = "line" /\ app' = [app EXCEPT !["server"] = a]
  BY <1>0 DEF AppRecord, Accept, At
<1>2. UNCHANGED <<tr, rv, sock, q, net, waiting, signal, hist>>
      /\ tcp' \in [Side -> {"unconnected", "connected", "closed"}]
  BY <1>0 DEF Accept, Types
<1>3. app["server"].pc \notin Ending /\ a.pc \notin Ending \cup {"start"}
  BY <1>0, <1>1 DEF Ending
<1>. QED  BY <1>0, <1>1, <1>2, <1>3, AloneControl

(* What a reading and a writing application does to the threads.           *)
LEMMA ReadControl ==
  ASSUME Control, NEW s \in Side, app[s].pc \notin Ending \cup {"accept"},
         NEW n \in Nat \ {0}, Read(s, n),
         NEW a \in AppRecord, a.pc \notin Ending \cup {"start"}, app' = [app EXCEPT ![s] = a]
  PROVE  Control'
<1>0. Types
  BY DEF Control
<1>1. /\ UNCHANGED <<tr, rv, net, tcp, waiting, signal>>
      /\ tcp' \in [Side -> {"unconnected", "connected", "closed"}]
  BY <1>0 DEF Read, Types
<1>. PICK data : data = Received(s, n)
  OBVIOUS
<1>2. CASE UNCHANGED <<sock, q, hist>>
  BY <1>0, <1>1, <1>2, AloneControl DEF Types
<1>3. CASE ~ UNCHANGED <<sock, q, hist>>
  <2>1. Consumes(s, n, data)
    BY <1>0, <1>3, ReadShape
  <2>2. PICK c \in SockRecord : sock' = [sock EXCEPT ![s] = c] /\ c.close_requested = sock[s].close_requested
    BY <2>1 DEF Consumes
  <2>3. PICK u \in QueueRecord : /\ q' = [q EXCEPT ![s] = u] /\ u.app_recv = q[s].app_recv
                                 /\ u.network = q[s].network
    BY <2>1 DEF Consumes
  <2>4. signal' = signal /\ waiting' = waiting /\ UNCHANGED <<tr, rv, net>> /\ app[s].pc \notin Ending
        /\ app[s].pc # "accept" /\ (u.app_recv = <<>> => q[s].app_recv = <<>>)
    BY <1>1, <2>3
  <2>5. hist' \in HistRecord
    BY <2>1 DEF Consumes
  <2>. QED  BY <1>1, <2>2, <2>3, <2>4, <2>5, WorkControl
<1>. QED  BY <1>2, <1>3

(* A write puts bytes behind the queue to the transport thread.            *)
LEMMA WriteControl ==
  ASSUME Control, NEW s \in Side, app[s].pc \notin Ending \cup {"accept"},
         NEW buf \in Seq(Int), Write(s, buf),
         NEW a \in AppRecord, a.pc \notin Ending \cup {"start"}, app' = [app EXCEPT ![s] = a]
  PROVE  Control'
<1>0. Types
  BY DEF Control
<1>1. PICK u \in QueueRecord : /\ q' = [q EXCEPT ![s] = u] /\ u.app_recv # <<>>
                               /\ u.network = q[s].network
  BY <1>0, WriteShape
<1>2. /\ hist' \in HistRecord /\ signal' = [signal EXCEPT ![s] = @ \cup {"app"}]
      /\ UNCHANGED <<tr, rv, sock, net, tcp, waiting>>
  BY <1>0, WriteShape
<1>. PICK c : c = sock[s]
  OBVIOUS
<1>3. /\ c \in SockRecord /\ sock' = [sock EXCEPT ![s] = c]
      /\ tcp' \in [Side -> {"unconnected", "connected", "closed"}]
  BY <1>0, <1>2 DEF Types
<1>4. app[s].pc \notin Ending /\ app[s].pc # "accept" /\ c.close_requested = sock[s].close_requested
  OBVIOUS
<1>. QED  BY <1>1, <1>2, <1>3, <1>4, WorkControl

(* A read that finds no data waits.                                        *)
LEMMA WaitControl ==
  ASSUME Control, NEW s \in Side, app[s].pc \notin Ending \cup {"accept", "start"}, ReadWaits(s)
  PROVE  Control'
<1>0. Types
  BY DEF Control
<1>1. /\ waiting' = [waiting EXCEPT ![s] = @ \cup {"app"}]
      /\ UNCHANGED <<app, tr, rv, sock, q, net, tcp, signal, hist>>
  BY DEF ReadWaits, Wait
<1>. PICK a : a = app[s]
  OBVIOUS
<1>2. /\ a \in AppRecord /\ app' = [app EXCEPT ![s] = a] /\ hist' \in HistRecord
      /\ tcp' \in [Side -> {"unconnected", "connected", "closed"}]
      /\ a.pc \notin Ending \cup {"start"} /\ app[s].pc \notin Ending /\ app[s].pc # "accept"
  BY <1>0, <1>1 DEF Types
<1>. QED  BY <1>1, <1>2, AloneControl

-----------------------------------------------------------------------------
(* What is on its way. *)

(* A sequence begins another one that is it with something behind it.      *)
LEMMA PrefixIff ==
  ASSUME NEW x \in Seq(Int), NEW y \in Seq(Int)
  PROVE  IsPrefix(x, y) <=> \E z \in Seq(Int) : y = x \o z
<1>. PICK m, n : m = Len(x) /\ n = Len(y) /\ m \in Nat /\ n \in Nat
  OBVIOUS
<1>1. SubSeq(x, 1, m) = x
  BY SubSeqFull
<1>2. ASSUME IsPrefix(x, y) PROVE \E z \in Seq(Int) : y = x \o z
  <2>1. m <= n /\ SubSeq(y, 1, m) = x
    BY <1>1, <1>2 DEF IsPrefix
  <2>. PICK z : z = SubSeq(y, m + 1, n)
    OBVIOUS
  <2>2. z \in Seq(Int)
    <3>1. \A i \in (m + 1) .. n : i \in 1 .. n
      OBVIOUS
    <3>2. \A i \in (m + 1) .. n : y[i] \in Int
      BY <3>1
    <3>. QED  BY <3>2, SubSeqProperties
  <2>3. SubSeq(y, 1, m) \o z = SubSeq(y, 1, n)
    <3>1. 1 \in 1 .. Len(y) + 1 /\ m \in 1 - 1 .. Len(y) /\ n \in m .. Len(y)
      BY <2>1
    <3>2. SubSeq(y, 1, m) \o SubSeq(y, m + 1, n) = SubSeq(y, 1, n)
      BY ONLY <3>1, y \in Seq(Int), ConcatAdjacentSubSeq
    <3>. QED  BY <3>2
  <2>4. SubSeq(y, 1, n) = y
    BY SubSeqFull
  <2>. QED  BY ONLY <2>1, <2>2, <2>3, <2>4
<1>3. ASSUME NEW z \in Seq(Int), y = x \o z PROVE IsPrefix(x, y)
  <2>1. Len(y) = m + Len(z) /\ Len(z) \in Nat /\ \A i \in 1 .. m : y[i] = x[i]
    BY <1>3, ConcatProperties
  <2>2. m <= n
    BY <2>1
  <2>3. SubSeq(y, 1, m) = SubSeq(x, 1, m)
    <3>1. /\ SubSeq(y, 1, m) \in Seq(Int) /\ Len(SubSeq(y, 1, m)) = m
          /\ \A i \in 1 .. m : SubSeq(y, 1, m)[i] = y[i]
      <4>1. \A i \in 1 .. m : y[i] \in Int
        BY <2>2
      <4>. QED  BY <2>2, <4>1, SubSeqProperties
    <3>2. \A i \in 1 .. m : SubSeq(y, 1, m)[i] = x[i]
      BY <2>1, <3>1
    <3>3. SubSeq(y, 1, m) = x
      BY <3>1, <3>2, SeqEqual
    <3>. QED  BY <1>1, <3>3
  <2>. QED  BY <2>2, <2>3 DEF IsPrefix
<1>. QED  BY <1>2, <1>3

(* The elements of a prefix are those of the whole, and one as long is the *)
(* whole.                                                                  *)
LEMMA PrefixAt ==
  ASSUME NEW x \in Seq(Int), NEW y \in Seq(Int), IsPrefix(x, y)
  PROVE  /\ Len(x) <= Len(y) /\ \A i \in 1 .. Len(x) : x[i] = y[i]
         /\ Len(x) = Len(y) => x = y
<1>1. PICK z \in Seq(Int) : y = x \o z
  BY PrefixIff
<1>2. Len(y) = Len(x) + Len(z) /\ Len(z) \in Nat /\ \A i \in 1 .. Len(x) : x[i] = y[i]
  BY <1>1, ConcatProperties
<1>3. Len(x) = Len(y) => x = y
  BY <1>2, SeqEqual
<1>. QED  BY <1>2, <1>3

(* A prefix of a prefix is a prefix.                                       *)
LEMMA PrefixTrans ==
  ASSUME NEW x \in Seq(Int), NEW y \in Seq(Int), NEW z \in Seq(Int),
         IsPrefix(x, y), IsPrefix(y, z)
  PROVE  IsPrefix(x, z)
<1>1. PICK a \in Seq(Int) : y = x \o a
  BY PrefixIff
<1>2. PICK b \in Seq(Int) : z = y \o b
  BY PrefixIff
<1>. PICK c : c = a \o b
  OBVIOUS
<1>3. z = x \o c /\ c \in Seq(Int)
  <2>1. (x \o a) \o b = x \o (a \o b) /\ a \o b \in Seq(Int)
    BY ONLY SMTT(30), x \in Seq(Int), a \in Seq(Int), b \in Seq(Int), Associative
  <2>. QED  BY <1>1, <1>2, <2>1
<1>. QED  BY <1>3, PrefixIff

Cat(x, y) == x \o y

(* Bytes that leave the head of one queue for the end of the next stay     *)
(* where they are in the stream.                                           *)
LEMMA Moved ==
  \A a, b, h, z \in Seq(Int) : Cat(Cat(a, Cat(b, h)), z) = Cat(Cat(a, b), Cat(h, z))
<1>. SUFFICES ASSUME NEW a \in Seq(Int), NEW b \in Seq(Int), NEW h \in Seq(Int), NEW z \in Seq(Int)
              PROVE  (a \o (b \o h)) \o z = (a \o b) \o (h \o z)
  BY DEF Cat
<1>. PICK u : u = a \o b
  OBVIOUS
<1>1. a \o (b \o h) = u \o h /\ u \in Seq(Int)
  BY SMTT(30), Associative
<1>2. (u \o h) \o z = u \o (h \o z)
  BY ZenonT(40), <1>1, Associative
<1>. QED  BY ONLY <1>1, <1>2, u = a \o b

FlowTyped(s) ==
  /\ hist.got[s] \in Seq(Int) /\ hist.written[s] \in Seq(Int)
  /\ q[s].app_send \in Segments /\ q[s].network \in Segments /\ q[s].app_recv \in Segments
  /\ net[s] \in Segments
  /\ FlattenSeq(q[s].app_send) \in Seq(Int) /\ FlattenSeq(q[s].network) \in Seq(Int)
  /\ FlattenSeq(q[s].app_recv) \in Seq(Int) /\ FlattenSeq(net[s]) \in Seq(Int)
  /\ Under(s) \in Seq(Int) /\ Bytes(s) \in Seq(Int)
  /\ Bytes(s) = Under(s) \o FlattenSeq(q[Peer(s)].app_recv)
  /\ IsPrefix(hist.got[s], Under(s))

AllFlowTyped == \A s \in Side : FlowTyped(s)

(* What is under way is sequences of bytes, and what was read a beginning  *)
(* of it.                                                                  *)
LEMMA FlowTypes == Types => AllFlowTyped
<1>. SUFFICES ASSUME Types, NEW s \in Side PROVE FlowTyped(s)
  BY DEF AllFlowTyped
<1>1. \A r \in Side : q[r].app_send \in Segments /\ q[r].network \in Segments /\ q[r].app_recv \in Segments
                      /\ net[r] \in Segments /\ hist.got[r] \in Seq(Int) /\ hist.written[r] \in Seq(Int)
  BY DEF Types, QueueRecord, HistRecord
<1>2. \A r \in Side : FlattenSeq(q[r].app_send) \in Seq(Int) /\ FlattenSeq(q[r].network) \in Seq(Int)
                      /\ FlattenSeq(q[r].app_recv) \in Seq(Int) /\ FlattenSeq(net[r]) \in Seq(Int)
  BY <1>1, FlattenType
<1>. PICK g, a, b, c, d : /\ g = hist.got[s] /\ a = FlattenSeq(q[s].app_send)
                          /\ b = FlattenSeq(q[s].network) /\ c = FlattenSeq(net[s])
                          /\ d = FlattenSeq(q[Peer(s)].app_recv)
  OBVIOUS
<1>3. g \in Seq(Int) /\ a \in Seq(Int) /\ b \in Seq(Int) /\ c \in Seq(Int) /\ d \in Seq(Int)
  BY <1>1, <1>2, OtherSide
<1>4. g \o a \in Seq(Int) /\ (g \o a) \o b \in Seq(Int) /\ ((g \o a) \o b) \o c \in Seq(Int)
      /\ (((g \o a) \o b) \o c) \o d \in Seq(Int)
  <2>1. g \o a \in Seq(Int)
    BY ONLY <1>3, Associative
  <2>2. (g \o a) \o b \in Seq(Int)
    BY ONLY <1>3, <2>1, Associative
  <2>3. ((g \o a) \o b) \o c \in Seq(Int)
    BY ONLY <1>3, <2>2, Associative
  <2>4. (((g \o a) \o b) \o c) \o d \in Seq(Int)
    BY ONLY <1>3, <2>3, Associative
  <2>. QED  BY <2>1, <2>2, <2>3, <2>4
<1>5. Under(s) = ((g \o a) \o b) \o c /\ Bytes(s) = (((g \o a) \o b) \o c) \o d
  BY DEF Under, Bytes
<1>6. IsPrefix(g, ((g \o a) \o b) \o c)
  <2>1. IsPrefix(g, g \o a)
    BY <1>3, <1>4, PrefixIff
  <2>2. IsPrefix(g \o a, (g \o a) \o b)
    BY <1>3, <1>4, PrefixIff
  <2>3. IsPrefix((g \o a) \o b, ((g \o a) \o b) \o c)
    BY <1>3, <1>4, PrefixIff
  <2>4. IsPrefix(g, (g \o a) \o b)
    BY ONLY <1>3, <1>4, <2>1, <2>2, PrefixTrans
  <2>. QED  BY ONLY <1>3, <1>4, <2>3, <2>4, PrefixTrans
<1>. QED  BY <1>1, <1>2, <1>4, <1>5, <1>6 DEF FlowTyped

(* The same after a step.                                                  *)
LEMMA FlowTypesNext == Types' => AllFlowTyped'
BY FlowTypes, PTL

(* A step that moves bytes on and closes nothing.                          *)
LEMMA FlowKeeps ==
  ASSUME Types, Types', NEW r \in Side, Flow(r),
         Bytes(r)' = Bytes(r), hist'.written[Peer(r)] = hist.written[Peer(r)],
         Under(r)' = Under(r) \/ app[Peer(r)].pc # "closed",
         hist'.got[r] = hist.got[r] \/ app[r].pc # "closed",
         hist.trouble => hist'.trouble, BrokeOff(r) => BrokeOff(r)',
         app'[r].pc = "closed" <=> app[r].pc = "closed",
         app'[Peer(r)].pc = "closed" <=> app[Peer(r)].pc = "closed"
  PROVE  Flow(r)'
<1>. PICK w, B, U, U1, g1, d1 :
         /\ w = hist.written[Peer(r)] /\ B = Bytes(r) /\ U = Under(r) /\ U1 = Under(r)'
         /\ g1 = hist'.got[r] /\ d1 = FlattenSeq(q'[Peer(r)].app_recv)
  OBVIOUS
<1>1. /\ w \in Seq(Int) /\ B \in Seq(Int) /\ U \in Seq(Int) /\ U1 \in Seq(Int) /\ g1 \in Seq(Int)
      /\ d1 \in Seq(Int) /\ B = U1 \o d1 /\ IsPrefix(g1, U1)
  <2>1. w \in Seq(Int) /\ B \in Seq(Int) /\ U \in Seq(Int)
    BY FlowTypes, OtherSide DEF AllFlowTyped, FlowTyped
  <2>2. U1 \in Seq(Int) /\ g1 \in Seq(Int) /\ d1 \in Seq(Int) /\ Bytes(r)' = U1 \o d1 /\ IsPrefix(g1, U1)
    <3>1. FlowTyped(r)' /\ FlowTyped(Peer(r))'
      BY FlowTypesNext, OtherSide DEF AllFlowTyped
    <3>. QED  BY <3>1 DEF FlowTyped
  <2>. QED  BY <2>1, <2>2
<1>2. app[r].pc # "closed" => IsPrefix(U1, w)
  <2>1. CASE app[Peer(r)].pc # "closed"
    <3>1. app[r].pc # "closed" => B = w
      BY <2>1 DEF Flow
    <3>. QED  BY <1>1, <3>1, PrefixIff
  <2>2. CASE U1 = U
    BY <2>2 DEF Flow
  <2>. QED  BY <2>1, <2>2
<1>3. IsPrefix(g1, w)
  <2>1. CASE g1 = hist.got[r]
    BY <2>1 DEF Flow
  <2>2. CASE app[r].pc # "closed"
    BY <1>1, <1>2, <2>2, PrefixTrans
  <2>. QED  BY <2>1, <2>2
<1>. QED  BY <1>2, <1>3 DEF Flow

(* A write adds the same bytes to what was written and to the first queue. *)
LEMMA FlowAdds ==
  ASSUME Types, Types', NEW r \in Side, Flow(r), NEW buf \in Seq(Int),
         FlattenSeq(q'[Peer(r)].app_recv) = FlattenSeq(q[Peer(r)].app_recv) \o buf,
         hist'.written[Peer(r)] = hist.written[Peer(r)] \o buf,
         Under(r)' = Under(r), hist'.got[r] = hist.got[r],
         hist.trouble => hist'.trouble, BrokeOff(r) => BrokeOff(r)',
         app'[r].pc = "closed" <=> app[r].pc = "closed",
         app'[Peer(r)].pc = "closed" <=> app[Peer(r)].pc = "closed"
  PROVE  Flow(r)'
<1>. PICK w, w1, U, g, d :
         /\ w = hist.written[Peer(r)] /\ w1 = w \o buf /\ U = Under(r) /\ g = hist.got[r]
         /\ d = FlattenSeq(q[Peer(r)].app_recv)
  OBVIOUS
<1>1. /\ w \in Seq(Int) /\ w1 \in Seq(Int) /\ U \in Seq(Int) /\ g \in Seq(Int) /\ d \in Seq(Int)
      /\ Bytes(r) = U \o d
  <2>1. FlowTyped(r) /\ FlowTyped(Peer(r))
    BY FlowTypes, OtherSide DEF AllFlowTyped
  <2>. QED  BY <2>1, ConcatProperties DEF FlowTyped
<1>2. Bytes(r)' = Bytes(r) \o buf
  <2>1. FlowTyped(r)'
    BY FlowTypesNext, OtherSide DEF AllFlowTyped
  <2>2. Bytes(r)' = U \o (d \o buf)
    BY <2>1 DEF FlowTyped
  <2>3. (U \o d) \o buf = U \o (d \o buf)
    <3>1. U \in Seq(Int) /\ d \in Seq(Int) /\ buf \in Seq(Int)
      BY <1>1
    <3>. QED  BY ONLY <3>1, Associative
  <2>. QED  BY <1>1, <2>2, <2>3
<1>3. IsPrefix(w, w1)
  BY <1>1, PrefixIff
<1>4. \A x \in Seq(Int) : IsPrefix(x, w) => IsPrefix(x, w1)
  BY <1>1, <1>3, PrefixTrans
<1>5. Bytes(r) = w => Bytes(r)' = w1
  BY <1>2
<1>6. hist'.written[Peer(r)] = w1
  OBVIOUS
<1>. QED  BY <1>1, <1>4, <1>5, <1>6 DEF Flow

(* Where the FINs of a queue are when it changes.                          *)
LEMMA FinsAppended ==
  ASSUME NEW s \in Segments, NEW x \in Seq(Int)
  PROVE  /\ FinLast(s) /\ (HasFin(s) => x = <<>>) => FinLast(Append(s, x))
         /\ HasFin(Append(s, x)) <=> HasFin(s) \/ x = <<>>
         /\ Blank(Append(s, x)) <=> Blank(s) /\ x = <<>>
<1>. PICK t, n : t = Append(s, x) /\ n = Len(s)
  OBVIOUS
<1>1. /\ n \in Nat /\ DOMAIN s = 1 .. n /\ DOMAIN t = 1 .. n + 1 /\ t[n + 1] = x
      /\ \A i \in 1 .. n : t[i] = s[i]
  <2>1. Len(t) = n + 1 /\ t \in Segments /\ t[n + 1] = x /\ \A i \in 1 .. n : t[i] = s[i]
    BY AppendProperties DEF Segments
  <2>. QED  BY <2>1, SegmentFacts
<1>2. \A i \in 1 .. n + 1 : i \in 1 .. n \/ i = n + 1
  BY <1>1
<1>3. HasFin(t) <=> HasFin(s) \/ x = <<>>
  <2>1. n + 1 \in 1 .. n + 1 /\ \A i \in 1 .. n : i \in 1 .. n + 1
    BY <1>1
  <2>. QED  BY <1>1, <1>2, <2>1 DEF HasFin
<1>4. Blank(t) <=> Blank(s) /\ x = <<>>
  <2>1. n + 1 \in 1 .. n + 1 /\ \A i \in 1 .. n : i \in 1 .. n + 1
    BY <1>1
  <2>. QED  BY <1>1, <1>2, <2>1 DEF Blank
<1>5. ASSUME FinLast(s), HasFin(s) => x = <<>> PROVE FinLast(t)
  <2>1. SUFFICES ASSUME NEW i \in 1 .. n + 1, NEW j \in 1 .. n + 1, i < j, t[i] = <<>>
                 PROVE  t[j] = <<>>
    BY <1>1 DEF FinLast
  <2>2. i \in 1 .. n /\ s[i] = <<>> /\ HasFin(s)
    BY <1>1, <2>1 DEF HasFin
  <2>3. CASE j = n + 1
    BY <1>1, <1>5, <2>2, <2>3
  <2>4. CASE j # n + 1
    BY <1>1, <1>2, <1>5, <2>1, <2>2, <2>4 DEF FinLast
  <2>. QED  BY <2>3, <2>4
<1>. QED  BY <1>3, <1>4, <1>5

(* What a queue has of FINs when its head is gone.                         *)
LEMMA FinsAfterHead ==
  ASSUME NEW s \in Segments, s # <<>>
  PROVE  /\ FinLast(s) => FinLast(Tail(s))
         /\ HasFin(Tail(s)) => HasFin(s)
         /\ Blank(s) => Head(s) = <<>> /\ Blank(Tail(s))
         /\ Head(s) = <<>> => HasFin(s) /\ (FinLast(s) => Blank(s))
<1>. PICK t, n : t = Tail(s) /\ n = Len(t)
  OBVIOUS
<1>1. /\ n \in Nat /\ DOMAIN t = 1 .. n /\ DOMAIN s = 1 .. n + 1 /\ Head(s) = s[1]
      /\ \A i \in 1 .. n : t[i] = s[i + 1]
  <2>1. Len(s) \in Nat /\ Len(s) # 0 /\ DOMAIN s = 1 .. Len(s)
    BY SegmentFacts
  <2>2. t \in Seq(Seq(Int)) /\ Len(t) = Len(s) - 1 /\ \A i \in 1 .. Len(t) : t[i] = s[i + 1]
    BY HeadTailProperties DEF Segments
  <2>. QED  BY <2>1, <2>2
<1>2. 1 \in 1 .. n + 1 /\ \A i \in 1 .. n : i + 1 \in 1 .. n + 1
  BY <1>1
<1>3. FinLast(s) => FinLast(t)
  <2>1. \A i, j \in 1 .. n : i < j => i + 1 < j + 1
    BY <1>1
  <2>. QED  BY <1>1, <1>2, <2>1 DEF FinLast
<1>4. (HasFin(t) => HasFin(s)) /\ (Blank(s) => s[1] = <<>> /\ Blank(t))
  BY <1>1, <1>2 DEF HasFin, Blank
<1>5. ASSUME s[1] = <<>> PROVE HasFin(s) /\ (FinLast(s) => Blank(s))
  <2>1. HasFin(s)
    BY <1>1, <1>2, <1>5 DEF HasFin
  <2>2. \A i \in 1 .. n + 1 : i = 1 \/ 1 < i
    BY <1>1
  <2>3. FinLast(s) => Blank(s)
    BY <1>1, <1>2, <1>5, <2>2 DEF FinLast, Blank
  <2>. QED  BY <2>1, <2>3
<1>. QED  BY <1>1, <1>3, <1>4, <1>5

(* What a queue has of FINs when a read has taken from its head.           *)
LEMMA FinsDequeued ==
  ASSUME NEW s \in Segments, s # <<>>, NEW n \in Nat \ {0}
  PROVE  /\ FinLast(s) => FinLast(Dequeued(s, n))
         /\ HasFin(Dequeued(s, n)) => HasFin(s)
         /\ Blank(s) => Blank(Dequeued(s, n))
<1>. PICK d : d = Dequeued(s, n)
  OBVIOUS
<1>1. CASE d = Tail(s)
  BY <1>1, FinsAfterHead
<1>2. CASE d # Tail(s)
  <2>1. PICK x \in Seq(Int) : x # <<>> /\ Head(s) # <<>> /\ d = <<x>> \o Tail(s)
    BY <1>2, DequeueKeeps
  <2>. PICK t, m : t = Tail(s) /\ m = Len(t)
    OBVIOUS
  <2>2. /\ m \in Nat /\ DOMAIN s = 1 .. m + 1 /\ Head(s) = s[1] /\ t \in Seq(Seq(Int))
        /\ \A i \in 1 .. m : t[i] = s[i + 1]
    <3>1. Len(s) \in Nat /\ Len(s) # 0 /\ DOMAIN s = 1 .. Len(s)
      BY SegmentFacts
    <3>2. t \in Seq(Seq(Int)) /\ Len(t) = Len(s) - 1 /\ \A i \in 1 .. Len(t) : t[i] = s[i + 1]
      BY HeadTailProperties DEF Segments
    <3>. QED  BY <3>1, <3>2
  <2>3. /\ DOMAIN d = 1 .. m + 1 /\ d[1] = x /\ \A i \in 1 .. m + 1 : i # 1 => d[i] = s[i]
    <3>1. <<x>> \in Seq(Seq(Int)) /\ Len(<<x>>) = 1 /\ <<x>>[1] = x
      OBVIOUS
    <3>2. /\ d \in Seq(Seq(Int)) /\ Len(d) = 1 + m
          /\ \A i \in 1 .. 1 + m : d[i] = IF i <= 1 THEN <<x>>[i] ELSE t[i - 1]
      BY ONLY <2>1, <2>2, <3>1, t = Tail(s), m = Len(t), ConcatProperties
    <3>3. \A i \in 1 .. m + 1 : i # 1 => ~ i <= 1 /\ i - 1 \in 1 .. m /\ (i - 1) + 1 = i
      BY <2>2
    <3>. QED  BY <2>2, <3>1, <3>2, <3>3
  <2>4. s[1] # <<>> /\ x # <<>> /\ 1 \in 1 .. m + 1
    BY <2>1, <2>2
  <2>5. FinLast(s) => FinLast(d)
    <3>1. \A i, j \in 1 .. m + 1 : i < j => j # 1
      BY <2>2
    <3>. QED  BY ZenonT(40), <2>2, <2>3, <2>4, <3>1 DEF FinLast
  <2>6. (HasFin(d) => HasFin(s)) /\ ~ Blank(s)
    BY <2>2, <2>3, <2>4 DEF HasFin, Blank
  <2>. QED  BY <2>5, <2>6
<1>. QED  BY <1>1, <1>2

-----------------------------------------------------------------------------
(* Threads, bytes and FINs together. *)

Base == Control /\ \A t \in Side : Flow(t) /\ Fins(t)

(* A step that moves no byte and no FIN.                                   *)
Still ==
  /\ UNCHANGED <<q, net>> /\ hist'.got = hist.got /\ hist'.written = hist.written
  /\ hist.trouble => hist'.trouble
  /\ \A t \in Side :
       /\ sock'[t].eof = sock[t].eof
       /\ tr'[t].fin_sent = tr[t].fin_sent /\ tr'[t].fin_received = tr[t].fin_received
       /\ tr'[t].pc \in {"final", "ended"} =>
            hist'.trouble \/ tr[t].pc \in {"final", "ended"} \/ (tr[t].fin_sent /\ tr[t].fin_received)
       /\ app'[t].pc = "closed" <=> app[t].pc = "closed"
       /\ BrokeOff(t) => BrokeOff(t)'

(* A step that moves no byte and no FIN leaves the FINs in order.          *)
LEMMA StillFins ==
  ASSUME Still, NEW r \in Side, Fins(r)
  PROVE  Fins(r)'
<1>1. /\ q' = q /\ net' = net /\ hist'.got = hist.got /\ hist'.written = hist.written
      /\ hist.trouble => hist'.trouble
      /\ sock'[r].eof = sock[r].eof /\ tr'[Peer(r)].fin_sent = tr[Peer(r)].fin_sent
      /\ tr'[r].fin_sent = tr[r].fin_sent /\ tr'[r].fin_received = tr[r].fin_received
      /\ tr'[r].pc \in {"final", "ended"} =>
           hist'.trouble \/ tr[r].pc \in {"final", "ended"} \/ (tr[r].fin_sent /\ tr[r].fin_received)
  BY OtherSide DEF Still
<1>. QED  BY <1>1 DEF Fins

(* A step that moves no byte and no FIN leaves the bytes in order as well. *)
LEMMA StillBase ==
  ASSUME Base, Control', Still
  PROVE  Base'
<1>1. ASSUME NEW r \in Side PROVE Flow(r)'
  <2>1. Types /\ Types' /\ Flow(r)
    BY DEF Base, Control
  <2>2. Bytes(r)' = Bytes(r) /\ Under(r)' = Under(r)
    BY DEF Still, Bytes, Under
  <2>3. /\ hist'.got[r] = hist.got[r] /\ hist'.written[Peer(r)] = hist.written[Peer(r)]
        /\ hist.trouble => hist'.trouble
        /\ BrokeOff(r) => BrokeOff(r)'
        /\ app'[r].pc = "closed" <=> app[r].pc = "closed"
        /\ app'[Peer(r)].pc = "closed" <=> app[Peer(r)].pc = "closed"
    BY OtherSide DEF Still
  <2>. QED  BY ONLY <2>1, <2>2, <2>3, FlowKeeps, r \in Side
<1>2. ASSUME NEW r \in Side PROVE Fins(r)'
  BY StillFins DEF Base
<1>. QED  BY <1>1, <1>2 DEF Base

(* What a step that changes only the queues of a side leaves to the other: *)
(* FINs that are where they were.                                          *)
LEMMA FinsApart ==
  ASSUME NEW r \in Side, Fins(r), hist.trouble => hist'.trouble,
         q'[r].app_send = q[r].app_send, q'[r].network = q[r].network, net'[r] = net[r],
         sock'[r].eof = sock[r].eof, tr'[r].fin_sent = tr[r].fin_sent,
         tr'[r].fin_received = tr[r].fin_received, tr'[Peer(r)].fin_sent = tr[Peer(r)].fin_sent,
         tr'[r].pc \in {"final", "ended"} => tr[r].pc \in {"final", "ended"},
         hist'.got[r] = hist.got[r],
         hist'.written[Peer(r)] = hist.written[Peer(r)] \/ ~ tr[Peer(r)].fin_sent
  PROVE  Fins(r)'
<1>1. CASE hist'.trouble
  BY <1>1 DEF Fins
<1>2. CASE ~ hist'.trouble
  <2>1. sock[r].eof => tr[Peer(r)].fin_sent
    BY <1>2 DEF Fins
  <2>2. sock[r].eof => hist'.written[Peer(r)] = hist.written[Peer(r)]
    BY <2>1
  <2>. QED  BY <1>2, <2>2 DEF Fins
<1>. QED  BY <1>1, <1>2

(* One queue of a side, or two of them.                                    *)
LEMMA QueueFields ==
  ASSUME Types, NEW s \in Side, NEW d, NEW e
  PROVE  /\ q' = [q EXCEPT ![s].app_recv = d] =>
              /\ q'[s].app_recv = d /\ q'[s].app_send = q[s].app_send /\ q'[s].network = q[s].network
              /\ \A t \in Side : t # s => q'[t] = q[t]
         /\ q' = [q EXCEPT ![s].app_send = d] =>
              /\ q'[s].app_send = d /\ q'[s].app_recv = q[s].app_recv /\ q'[s].network = q[s].network
              /\ \A t \in Side : t # s => q'[t] = q[t]
         /\ q' = [q EXCEPT ![s].network = d] =>
              /\ q'[s].network = d /\ q'[s].app_recv = q[s].app_recv /\ q'[s].app_send = q[s].app_send
              /\ \A t \in Side : t # s => q'[t] = q[t]
         /\ q' = [q EXCEPT ![s].network = d, ![s].app_send = e] =>
              /\ q'[s].network = d /\ q'[s].app_send = e /\ q'[s].app_recv = q[s].app_recv
              /\ \A t \in Side : t # s => q'[t] = q[t]
<1>1. q \in [Side -> QueueRecord] /\ q[s] \in QueueRecord
  BY DEF Types
<1>. QED  BY <1>1 DEF QueueRecord

ClosesNone ==
  \A t \in Side : (app'[t].pc = "closed" <=> app[t].pc = "closed") /\ (BrokeOff(t) => BrokeOff(t)')

(* A step of an application that does not free a context.                  *)
LEMMA ClosesNoneIf ==
  ASSUME Types, hist.unread => hist'.unread,
         app' = app \/ \E s \in Side, a \in AppRecord : /\ app[s].pc # "closed" /\ a.pc # "closed"
                                                        /\ app' = [app EXCEPT ![s] = a]
  PROVE  ClosesNone
<1>1. \A t \in Side : app'[t].pc = "closed" <=> app[t].pc = "closed"
  BY DEF Types
<1>. QED  BY <1>1 DEF ClosesNone, BrokeOff

(* A segment is sent: its bytes leave the first queue for the network.     *)
LEMMA HandleAppDataBase ==
  ASSUME Base, NEW s \in Side, HandleAppData(s)
  PROVE  Base'
<1>0. Types /\ Threads(s) /\ Requests(s) /\ Control' /\ Types' /\ tr[s] \in TransportRecord
  BY HandleAppDataControl DEF Base, Control, Types
<1>. PICK p, h : p = Peer(s) /\ h = q[s].app_recv
  OBVIOUS
<1>p. p \in Side /\ p # s /\ Peer(p) = s /\ \A t \in Side : t = s \/ t = p
  BY OtherSide
<1>1. /\ tr' = [tr EXCEPT ![s].events = @ \ {"APP_DATA"}] /\ tr[s].pc = "handle"
      /\ UNCHANGED <<app, rv, sock, tcp, waiting, signal, hist>> /\ "APP_DATA" \in tr[s].events
  BY DEF HandleAppData, Handles
<1>2. \A t \in Side : /\ tr'[t].pc = tr[t].pc /\ tr'[t].fin_sent = tr[t].fin_sent
                      /\ tr'[t].fin_received = tr[t].fin_received
  <2>1. tr \in [Side -> TransportRecord]
    BY <1>0 DEF Types
  <2>. QED  BY <1>1, <2>1 DEF TransportRecord
<1>3. ClosesNone
  BY <1>0, <1>1, ClosesNoneIf
<1>4. CASE tr[s].fin_sent
  <2>1. q' = q /\ net' = net
    BY <1>4 DEF HandleAppData
  <2>2. Still
    BY <1>1, <1>2, <1>3, <2>1 DEF Still, ClosesNone
  <2>. QED  BY <1>0, <2>2, StillBase
<1>5. CASE ~ tr[s].fin_sent
  <2>. PICK x, d, y : /\ x = Taken(h, MSS) /\ d = Dequeued(h, MSS)
                      /\ y = (IF Head(h) = <<>> THEN net[p] ELSE Append(net[p], x))
    OBVIOUS
  <2>1. h # <<>> /\ h \in Segments /\ net[p] \in Segments
    BY <1>0, <1>1, <1>p DEF Threads, Types, QueueRecord
  <2>2. /\ x \in Seq(Int) /\ d \in Segments /\ FlattenSeq(h) = x \o FlattenSeq(d)
        /\ IF Head(h) = <<>> THEN x = <<>> ELSE x # <<>>
    BY <2>1, MysockAssumption, DequeueKeeps
  <2>3. q' = [q EXCEPT ![s].app_recv = d] /\ net' = [net EXCEPT ![p] = y]
    BY <1>5, <1>p DEF HandleAppData
  <2>4. /\ q'[s].app_recv = d /\ q'[s].app_send = q[s].app_send /\ q'[s].network = q[s].network
        /\ q'[p] = q[p] /\ net'[p] = y /\ net'[s] = net[s]
    <3>1. q'[p] = q[p] /\ q'[s].app_recv = d /\ q'[s].app_send = q[s].app_send /\ q'[s].network = q[s].network
      BY ZenonT(40), <1>0, <1>p, <2>3, QueueFields
    <3>2. net'[p] = y /\ net'[s] = net[s]
      BY <1>0, <1>p, <2>3 DEF Types
    <3>. QED  BY <3>1, <3>2
  <2>5. FlattenSeq(y) = FlattenSeq(net[p]) \o x
    <3>1. FlattenSeq(net[p]) \in Seq(Int)
      BY <2>1, FlattenType
    <3>2. FlattenSeq(net[p]) \o <<>> = FlattenSeq(net[p])
      BY <3>1, ConcatEmptySeq
    <3>3. FlattenSeq(Append(net[p], x)) = FlattenSeq(net[p]) \o x
      BY <2>1, <2>2, FlattenAppend
    <3>. QED  BY <2>2, <3>2, <3>3
  <2>6. ASSUME NEW r \in Side PROVE Flow(r)'
    <3>1. /\ Flow(r) /\ hist'.got[r] = hist.got[r] /\ hist'.written[Peer(r)] = hist.written[Peer(r)]
          /\ hist.trouble => hist'.trouble
          /\ BrokeOff(r) => BrokeOff(r)'
          /\ app'[r].pc = "closed" <=> app[r].pc = "closed"
          /\ app'[Peer(r)].pc = "closed" <=> app[Peer(r)].pc = "closed"
      BY <1>1, <1>3, OtherSide DEF Base, ClosesNone
    <3>2. Bytes(r)' = Bytes(r)
      <4>1. CASE r = s
        BY <1>1, <1>p, <2>4, <4>1 DEF Bytes
      <4>2. CASE r = p
        <5>. PICK X, c, z : /\ X = hist.got[p] \o FlattenSeq(q[p].app_send) \o FlattenSeq(q[p].network)
                            /\ c = FlattenSeq(net[p]) /\ z = FlattenSeq(d)
          OBVIOUS
        <5>1. X \in Seq(Int) /\ c \in Seq(Int) /\ z \in Seq(Int)
          <6>1. FlowTyped(p)
            BY <1>0, <1>p, FlowTypes DEF AllFlowTyped
          <6>2. z \in Seq(Int)
            BY <2>2, FlattenType
          <6>. QED  BY <6>1, <6>2, ConcatProperties DEF FlowTyped
        <5>2. Bytes(p) = (X \o c) \o (x \o z)
          BY <1>p, <2>2 DEF Bytes
        <5>3. Bytes(p)' = (X \o (c \o x)) \o z
          BY <1>1, <1>p, <2>4, <2>5 DEF Bytes
        <5>4. (X \o (c \o x)) \o z = (X \o c) \o (x \o z)
          <6>1. x \in Seq(Int)
            BY <2>2
          <6>2. Cat(Cat(X, Cat(c, x)), z) = Cat(Cat(X, c), Cat(x, z))
            BY ONLY <5>1, <6>1, Moved
          <6>. QED  BY ONLY <6>2 DEF Cat
        <5>. QED  BY <4>2, <5>2, <5>3, <5>4
      <4>. QED  BY <1>p, <4>1, <4>2
    <3>3. Under(r)' = Under(r) \/ app[Peer(r)].pc # "closed"
      <4>1. CASE r = s
        BY <1>1, <2>4, <4>1 DEF Under
      <4>2. CASE r = p
        BY <1>0, <1>1, <1>p, <4>2 DEF Threads
      <4>. QED  BY <1>p, <4>1, <4>2
    <3>. QED  BY ONLY <1>0, <3>1, <3>2, <3>3, FlowKeeps, r \in Side
  <2>7. Fins(s)'
    <3>1. Fins(s) /\ ~ tr[p].fin_sent => hist'.written[p] = hist.written[p]
      BY <1>1
    <3>. QED  BY <1>1, <1>2, <1>p, <2>4, FinsApart DEF Base
  <2>8. Fins(p)'
    <3>1. ~ hist'.trouble =>
            /\ FinLast(q[p].app_send) /\ FinLast(q[p].network) /\ FinLast(net[p])
            /\ ~ HasFin(q[p].app_send) /\ ~ tr[p].fin_received /\ ~ sock[p].eof
            /\ ~ HasFin(q[p].network) /\ ~ HasFin(net[p])
            /\ tr[p].pc \in {"final", "ended"} => tr[p].fin_sent /\ tr[p].fin_received
      BY <1>1, <1>5, <1>p DEF Base, Fins
    <3>2. FinLast(net[p]) /\ ~ HasFin(net[p]) => FinLast(y) /\ ~ HasFin(y)
      BY <2>1, <2>2, FinsAppended
    <3>. QED  BY <1>1, <1>2, <1>p, <2>4, <3>1, <3>2 DEF Fins
  <2>. QED  BY <1>0, <1>p, <2>6, <2>7, <2>8 DEF Base
<1>. QED  BY <1>4, <1>5

(* A step that writes and reads nothing and keeps the bytes where they go. *)
LEMMA FlowSame ==
  ASSUME Types, Types', NEW r \in Side, Flow(r), UNCHANGED hist, ClosesNone,
         Under(r)' = Under(r),
         FlattenSeq(q'[Peer(r)].app_recv) = FlattenSeq(q[Peer(r)].app_recv)
  PROVE  Flow(r)'
<1>1. FlowTyped(r) /\ FlowTyped(r)'
  BY FlowTypes, FlowTypesNext DEF AllFlowTyped
<1>2. Bytes(r)' = Bytes(r)
  BY <1>1 DEF FlowTyped
<1>3. /\ hist'.got[r] = hist.got[r] /\ hist'.written[Peer(r)] = hist.written[Peer(r)]
      /\ hist.trouble => hist'.trouble
      /\ BrokeOff(r) => BrokeOff(r)'
      /\ app'[r].pc = "closed" <=> app[r].pc = "closed"
      /\ app'[Peer(r)].pc = "closed" <=> app[Peer(r)].pc = "closed"
  BY OtherSide DEF ClosesNone
<1>4. Under(r)' = Under(r) \/ app[Peer(r)].pc # "closed"
  OBVIOUS
<1>. QED  BY <1>2, <1>3, <1>4, FlowKeeps

(* A segment is handed on to the application's queue, its FIN is noted.    *)
LEMMA HandleNetworkDataBase ==
  ASSUME Base, NEW s \in Side, HandleNetworkData(s)
  PROVE  Base'
<1>0. Types /\ Threads(s) /\ Requests(s) /\ Control' /\ Types' /\ tr[s] \in TransportRecord /\ Fins(s)
  BY HandleNetworkDataControl DEF Base, Control, Types
<1>. PICK p, h, k, x, y, f :
         /\ p = Peer(s) /\ h = q[s].network /\ k = Head(h) /\ x = Append(q[s].app_send, k) /\ y = Tail(h)
         /\ f = (tr[s].fin_received \/ k = <<>>)
  OBVIOUS
<1>p. p \in Side /\ p # s /\ Peer(p) = s /\ \A t \in Side : t = s \/ t = p
  BY OtherSide
<1>1. /\ tr' = [tr EXCEPT ![s].events = @ \ {"NETWORK_DATA"}, ![s].fin_received = f]
      /\ q' = [q EXCEPT ![s].network = y, ![s].app_send = x]
      /\ tr[s].pc = "handle" /\ "NETWORK_DATA" \in tr[s].events
      /\ UNCHANGED <<app, rv, sock, net, tcp, waiting, hist>>
  <2>1. q' = [q EXCEPT ![s].network = Tail(@), ![s].app_send = Append(@, k)]
    BY DEF HandleNetworkData, Enqueue
  <2>2. tr' = [tr EXCEPT ![s].events = @ \ {"NETWORK_DATA"}, ![s].fin_received = @ \/ k = <<>>]
    BY DEF HandleNetworkData
  <2>3. q' = [q EXCEPT ![s].network = y, ![s].app_send = x]
    BY <1>0, <2>1 DEF Types, QueueRecord
  <2>4. tr' = [tr EXCEPT ![s].events = @ \ {"NETWORK_DATA"}, ![s].fin_received = f]
    BY <1>0, <2>2 DEF Types, TransportRecord
  <2>. QED  BY <2>3, <2>4 DEF HandleNetworkData, Handles
<1>2. /\ tr'[s].fin_received = f /\ tr'[s].fin_sent = tr[s].fin_sent /\ tr'[s].pc = tr[s].pc
      /\ tr'[p] = tr[p]
  <2>1. tr \in [Side -> TransportRecord]
    BY <1>0 DEF Types
  <2>. QED  BY <1>0, <1>1, <1>p, <2>1 DEF TransportRecord
<1>3. ClosesNone
  BY <1>0, <1>1, ClosesNoneIf
<1>4. /\ q'[s].app_recv = q[s].app_recv /\ q'[s].app_send = x /\ q'[s].network = y
      /\ q'[p] = q[p] /\ net' = net
  <2>1. /\ q'[s].network = y /\ q'[s].app_send = x /\ q'[s].app_recv = q[s].app_recv
        /\ \A t \in Side : t # s => q'[t] = q[t]
    <3>1. q' = [q EXCEPT ![s].network = y, ![s].app_send = x]
      BY <1>1
    <3>. QED  BY ONLY <1>0, <3>1, s \in Side, QueueFields
  <2>. QED  BY <1>1, <1>p, <2>1
<1>5. h # <<>> /\ h \in Segments /\ q[s].app_send \in Segments
  BY <1>0, <1>1 DEF Threads, Types, QueueRecord
<1>6. /\ k \in Seq(Int) /\ y \in Segments /\ FlattenSeq(h) = k \o FlattenSeq(y)
      /\ FlattenSeq(x) = FlattenSeq(q[s].app_send) \o k
  <2>1. k \in Seq(Int) /\ y \in Segments /\ FlattenSeq(h) = k \o FlattenSeq(y)
    BY <1>5, FlattenHead
  <2>. QED  BY <1>5, <2>1, FlattenAppend
<1>7. Under(s)' = Under(s)
  <2>. PICK g, a, z : g = hist.got[s] /\ a = FlattenSeq(q[s].app_send) /\ z = FlattenSeq(y)
    OBVIOUS
  <2>1. g \in Seq(Int) /\ a \in Seq(Int) /\ z \in Seq(Int)
    <3>1. FlowTyped(s)
      BY <1>0, FlowTypes DEF AllFlowTyped
    <3>2. z \in Seq(Int)
      BY <1>6, FlattenType
    <3>. QED  BY <3>1, <3>2 DEF FlowTyped
  <2>2. (g \o (a \o k)) \o z = (g \o a) \o (k \o z)
    <3>1. k \in Seq(Int)
      BY <1>6
    <3>2. Cat(Cat(g, Cat(a, k)), z) = Cat(Cat(g, a), Cat(k, z))
      BY ONLY <2>1, <3>1, Moved
    <3>. QED  BY ONLY <3>2 DEF Cat
  <2>3. /\ Under(s) = ((g \o a) \o (k \o z)) \o FlattenSeq(net[s])
        /\ Under(s)' = ((g \o (a \o k)) \o z) \o FlattenSeq(net[s])
    BY <1>1, <1>4, <1>6 DEF Under
  <2>. QED  BY <2>2, <2>3
<1>8. Flow(s)' /\ Flow(p)'
  <2>1. Flow(s)'
    BY <1>0, <1>1, <1>3, <1>4, <1>7, FlowSame DEF Base
  <2>2. Under(p)' = Under(p)
    BY <1>1, <1>4 DEF Under
  <2>3. Flow(p)'
    BY <1>0, <1>1, <1>3, <1>4, <1>p, <2>2, FlowSame DEF Base
  <2>. QED  BY <2>1, <2>3
<1>9. Fins(p)'
  <2>1. Fins(p) /\ q'[p].app_send = q[p].app_send /\ q'[p].network = q[p].network
    BY <1>4, <1>p DEF Base
  <2>. QED  BY <1>1, <1>2, <1>4, <1>p, <2>1, FinsApart
<1>10. Fins(s)'
  <2>. SUFFICES ASSUME ~ hist.trouble PROVE Fins(s)'
    BY <1>1 DEF Fins
  <2>1. /\ FinLast(q[s].app_send) /\ FinLast(h) /\ FinLast(net[s])
        /\ HasFin(q[s].app_send) \/ tr[s].fin_received \/ sock[s].eof =>
             Blank(h) /\ Blank(net[s]) /\ tr[p].fin_sent
        /\ HasFin(h) => Blank(net[s]) /\ tr[p].fin_sent
        /\ HasFin(net[s]) => tr[p].fin_sent
        /\ sock[s].eof => Blank(q[s].app_send) /\ hist.got[s] = hist.written[p]
    BY <1>0 DEF Fins
  <2>2. /\ FinLast(h) => FinLast(y)
        /\ HasFin(y) => HasFin(h)
        /\ Blank(h) => k = <<>> /\ Blank(y)
        /\ k = <<>> => HasFin(h) /\ (FinLast(h) => Blank(h))
    BY <1>5, FinsAfterHead
  <2>3. /\ FinLast(q[s].app_send) /\ (HasFin(q[s].app_send) => k = <<>>) => FinLast(x)
        /\ HasFin(x) <=> HasFin(q[s].app_send) \/ k = <<>>
        /\ Blank(x) <=> Blank(q[s].app_send) /\ k = <<>>
    BY <1>5, <1>6, FinsAppended
  <2>4. FinLast(x) /\ FinLast(y)
    BY <2>1, <2>2, <2>3
  <2>5. HasFin(x) \/ f \/ sock[s].eof => Blank(y) /\ Blank(net[s]) /\ tr[p].fin_sent
    BY <2>1, <2>2, <2>3
  <2>6. HasFin(y) => Blank(net[s]) /\ tr[p].fin_sent
    BY <2>1, <2>2
  <2>7. sock[s].eof => Blank(x) /\ hist.got[s] = hist.written[p]
    BY <2>1, <2>2, <2>3
  <2>. QED  BY <1>1, <1>2, <1>4, <2>1, <2>4, <2>5, <2>6, <2>7 DEF Fins
<1>. QED  BY <1>0, <1>p, <1>8, <1>9, <1>10 DEF Base

(* A segment leaves the network for the queue of the transport thread.     *)
LEMMA RecvPacketBase ==
  ASSUME Base, NEW s \in Side, RecvPacket(s)
  PROVE  Base'
<1>0. Types /\ Threads(s) /\ Control' /\ Types' /\ Fins(s)
  BY RecvPacketControl DEF Base, Control
<1>. PICK p, h, k, x, y :
         p = Peer(s) /\ h = net[s] /\ k = Head(h) /\ x = Append(q[s].network, k) /\ y = Tail(h)
  OBVIOUS
<1>p. p \in Side /\ p # s /\ Peer(p) = s /\ \A t \in Side : t = s \/ t = p
  BY OtherSide
<1>1. /\ q' = [q EXCEPT ![s].network = x] /\ net' = [net EXCEPT ![s] = y] /\ h # <<>>
      /\ UNCHANGED <<app, tr, rv, sock, tcp, waiting, hist>>
  <2>1. q' = [q EXCEPT ![s].network = Append(@, k)] /\ net' = [net EXCEPT ![s] = Tail(@)]
    BY DEF RecvPacket, Enqueue
  <2>2. q' = [q EXCEPT ![s].network = x] /\ net' = [net EXCEPT ![s] = y]
    BY <1>0, <2>1 DEF Types, QueueRecord
  <2>. QED  BY <2>2 DEF RecvPacket
<1>3. ClosesNone
  BY <1>0, <1>1, ClosesNoneIf
<1>4. /\ q'[s].network = x /\ q'[s].app_send = q[s].app_send /\ q'[s].app_recv = q[s].app_recv
      /\ q'[p] = q[p] /\ net'[s] = y /\ net'[p] = net[p]
  <2>1. /\ q'[s].network = x /\ q'[s].app_send = q[s].app_send /\ q'[s].app_recv = q[s].app_recv
        /\ \A t \in Side : t # s => q'[t] = q[t]
    BY <1>0, <1>1, QueueFields
  <2>2. net'[s] = y /\ net'[p] = net[p]
    BY <1>0, <1>1, <1>p DEF Types
  <2>. QED  BY <1>p, <2>1, <2>2
<1>5. h \in Segments /\ q[s].network \in Segments
  BY <1>0 DEF Types, QueueRecord
<1>6. /\ k \in Seq(Int) /\ y \in Segments /\ FlattenSeq(h) = k \o FlattenSeq(y)
      /\ FlattenSeq(x) = FlattenSeq(q[s].network) \o k
  <2>1. k \in Seq(Int) /\ y \in Segments /\ FlattenSeq(h) = k \o FlattenSeq(y)
    BY <1>1, <1>5, FlattenHead
  <2>. QED  BY <1>5, <2>1, FlattenAppend
<1>7. Under(s)' = Under(s)
  <2>. PICK g, a, z : /\ g = hist.got[s] \o FlattenSeq(q[s].app_send)
                      /\ a = FlattenSeq(q[s].network) /\ z = FlattenSeq(y)
    OBVIOUS
  <2>1. g \in Seq(Int) /\ a \in Seq(Int) /\ z \in Seq(Int)
    <3>1. FlowTyped(s)
      BY <1>0, FlowTypes DEF AllFlowTyped
    <3>2. z \in Seq(Int)
      BY <1>6, FlattenType
    <3>. QED  BY <3>1, <3>2, ConcatProperties DEF FlowTyped
  <2>2. (g \o (a \o k)) \o z = (g \o a) \o (k \o z)
    <3>1. k \in Seq(Int)
      BY <1>6
    <3>2. Cat(Cat(g, Cat(a, k)), z) = Cat(Cat(g, a), Cat(k, z))
      BY ONLY <2>1, <3>1, Moved
    <3>. QED  BY ONLY <3>2 DEF Cat
  <2>3. Under(s) = (g \o a) \o (k \o z) /\ Under(s)' = (g \o (a \o k)) \o z
    BY <1>1, <1>4, <1>6 DEF Under
  <2>. QED  BY <2>2, <2>3
<1>8. Flow(s)' /\ Flow(p)'
  <2>1. Flow(s)'
    BY <1>0, <1>1, <1>3, <1>4, <1>7, FlowSame DEF Base
  <2>2. Under(p)' = Under(p)
    BY <1>1, <1>4 DEF Under
  <2>3. Flow(p)'
    BY <1>0, <1>1, <1>3, <1>4, <1>p, <2>2, FlowSame DEF Base
  <2>. QED  BY <2>1, <2>3
<1>9. Fins(p)'
  <2>1. Fins(p) /\ q'[p].app_send = q[p].app_send /\ q'[p].network = q[p].network
    BY <1>4, <1>p DEF Base
  <2>. QED  BY <1>1, <1>4, <1>p, <2>1, FinsApart
<1>10. Fins(s)'
  <2>. SUFFICES ASSUME ~ hist.trouble PROVE Fins(s)'
    BY <1>1 DEF Fins
  <2>1. /\ FinLast(q[s].app_send) /\ FinLast(q[s].network) /\ FinLast(h)
        /\ HasFin(q[s].app_send) \/ tr[s].fin_received \/ sock[s].eof =>
             Blank(q[s].network) /\ Blank(h) /\ tr[p].fin_sent
        /\ HasFin(q[s].network) => Blank(h) /\ tr[p].fin_sent
        /\ HasFin(h) => tr[p].fin_sent
    BY <1>0 DEF Fins
  <2>2. /\ FinLast(h) => FinLast(y)
        /\ HasFin(y) => HasFin(h)
        /\ Blank(h) => k = <<>> /\ Blank(y)
        /\ k = <<>> => HasFin(h) /\ (FinLast(h) => Blank(h))
    BY <1>1, <1>5, FinsAfterHead
  <2>3. /\ FinLast(q[s].network) /\ (HasFin(q[s].network) => k = <<>>) => FinLast(x)
        /\ HasFin(x) <=> HasFin(q[s].network) \/ k = <<>>
        /\ Blank(x) <=> Blank(q[s].network) /\ k = <<>>
    BY <1>5, <1>6, FinsAppended
  <2>4. FinLast(x) /\ FinLast(y)
    BY <2>1, <2>2, <2>3
  <2>5. HasFin(q[s].app_send) \/ tr[s].fin_received \/ sock[s].eof =>
          Blank(x) /\ Blank(y) /\ tr[p].fin_sent
    BY <2>1, <2>2, <2>3
  <2>6. HasFin(x) => Blank(y) /\ tr[p].fin_sent
    BY <2>1, <2>2, <2>3
  <2>7. HasFin(y) => tr[p].fin_sent
    BY <2>1, <2>2
  <2>. QED  BY <1>0, <1>1, <1>4, <2>1, <2>4, <2>5, <2>6, <2>7 DEF Fins
<1>. QED  BY <1>0, <1>p, <1>8, <1>9, <1>10 DEF Base

(* A FIN is sent behind everything that was written.                       *)
LEMMA HandleAppCloseBase ==
  ASSUME Base, NEW s \in Side, HandleAppClose(s)
  PROVE  Base'
<1>0. Types /\ Threads(s) /\ Requests(s) /\ Control' /\ Types'
  BY HandleAppCloseControl DEF Base, Control
<1>. PICK p, y : p = Peer(s) /\ y = Append(net[p], <<>>)
  OBVIOUS
<1>p. p \in Side /\ p # s /\ Peer(p) = s /\ \A t \in Side : t = s \/ t = p
  BY OtherSide
<1>1. /\ tr' = [tr EXCEPT ![s].events = {}, ![s].fin_sent = TRUE] /\ tr[s].pc = "handle"
      /\ net' = [net EXCEPT ![p] = y]
      /\ UNCHANGED <<app, rv, sock, q, tcp, waiting, signal, hist>>
  <2>1. net' = [net EXCEPT ![p] = Append(@, <<>>)]
    BY DEF HandleAppClose
  <2>2. net' = [net EXCEPT ![p] = y]
    BY <1>0, <1>p, <2>1 DEF Types
  <2>. QED  BY <2>2 DEF HandleAppClose, Handles
<1>2. /\ tr'[s].fin_received = tr[s].fin_received /\ tr'[s].fin_sent /\ tr'[s].pc = tr[s].pc
      /\ tr'[p] = tr[p]
  <2>1. tr \in [Side -> TransportRecord]
    BY <1>0 DEF Types
  <2>. QED  BY <1>0, <1>1, <1>p, <2>1 DEF TransportRecord
<1>3. ClosesNone
  BY <1>0, <1>1, ClosesNoneIf
<1>4. net'[p] = y /\ net'[s] = net[s] /\ net[p] \in Segments
  BY <1>0, <1>1, <1>p DEF Types
<1>5. FlattenSeq(y) = FlattenSeq(net[p])
  <2>1. FlattenSeq(y) = FlattenSeq(net[p]) \o <<>> /\ FlattenSeq(net[p]) \in Seq(Int)
    BY <1>4, NoBytes, FlattenAppend, FlattenType
  <2>. QED  BY <2>1, ConcatEmptySeq
<1>6. Under(p)' = Under(p) /\ Under(s)' = Under(s)
  BY <1>1, <1>4, <1>5 DEF Under
<1>7. Flow(s)' /\ Flow(p)'
  BY <1>0, <1>1, <1>3, <1>6, <1>p, FlowSame DEF Base
<1>8. Fins(s)'
  <2>1. ~ hist.trouble => Fins(s) /\ tr'[s].pc \notin {"final", "ended"}
    BY <1>1, <1>2 DEF Base
  <2>. QED  BY <1>1, <1>2, <1>4, <1>p, <2>1 DEF Fins
<1>9. Fins(p)'
  <2>1. /\ FinLast(net[p]) => FinLast(y)
        /\ Blank(net[p]) => Blank(y)
    <3>1. \A e \in Seq(Int) :
            e = <<>> => /\ FinLast(net[p]) => FinLast(Append(net[p], e))
                        /\ Blank(net[p]) => Blank(Append(net[p], e))
      BY <1>4, FinsAppended
    <3>. PICK e : e = <<>>
      OBVIOUS
    <3>2. e \in Seq(Int) /\ y = Append(net[p], e)
      BY NoBytes
    <3>. QED  BY ONLY <3>1, <3>2, e = <<>>
  <2>2. Fins(p)
    BY <1>p DEF Base
  <2>. QED  BY <1>1, <1>2, <1>4, <1>p, <2>1, <2>2 DEF Fins
<1>. QED  BY <1>0, <1>p, <1>7, <1>8, <1>9 DEF Base

(* The last end of file is behind the data and the FIN of the other side,  *)
(* unless the connection broke.                                            *)
LEMMA TransportEndsBase ==
  ASSUME Base, NEW s \in Side, TransportEnds(s)
  PROVE  Base'
<1>0. Types /\ Threads(s) /\ Requests(s) /\ Control' /\ Types'
  BY TransportEndsControl DEF Base, Control
<1>. PICK p, y : p = Peer(s) /\ y = Append(q[s].app_send, <<>>)
  OBVIOUS
<1>p. p \in Side /\ p # s /\ Peer(p) = s /\ \A t \in Side : t = s \/ t = p
  BY OtherSide
<1>1. /\ tr' = [tr EXCEPT ![s].pc = "ended"] /\ tr[s].pc = "final"
      /\ q' = [q EXCEPT ![s].app_send = y]
      /\ UNCHANGED <<app, rv, sock, net, tcp, waiting, hist>>
  <2>1. q' = [q EXCEPT ![s].app_send = Append(@, <<>>)]
    BY DEF TransportEnds, Enqueue
  <2>2. q' = [q EXCEPT ![s].app_send = y]
    BY <1>0, <2>1 DEF Types, QueueRecord
  <2>. QED  BY <2>2 DEF TransportEnds
<1>2. /\ tr'[s].fin_received = tr[s].fin_received /\ tr'[s].fin_sent = tr[s].fin_sent
      /\ tr'[p] = tr[p]
  <2>1. tr \in [Side -> TransportRecord]
    BY <1>0 DEF Types
  <2>. QED  BY <1>0, <1>1, <1>p, <2>1 DEF TransportRecord
<1>3. ClosesNone
  BY <1>0, <1>1, ClosesNoneIf
<1>4. /\ q'[s].app_send = y /\ q'[s].app_recv = q[s].app_recv /\ q'[s].network = q[s].network
      /\ q'[p] = q[p] /\ q[s].app_send \in Segments
  <2>1. q[s].app_send \in Segments
    BY <1>0 DEF Types, QueueRecord
  <2>2. /\ q'[s].app_send = y /\ q'[s].app_recv = q[s].app_recv /\ q'[s].network = q[s].network
        /\ \A t \in Side : t # s => q'[t] = q[t]
    BY ZenonT(40), <1>0, <1>1, QueueFields
  <2>. QED  BY <1>p, <2>1, <2>2
<1>5. FlattenSeq(y) = FlattenSeq(q[s].app_send)
  <2>1. FlattenSeq(y) = FlattenSeq(q[s].app_send) \o <<>> /\ FlattenSeq(q[s].app_send) \in Seq(Int)
    BY <1>4, NoBytes, FlattenAppend, FlattenType
  <2>. QED  BY <2>1, ConcatEmptySeq
<1>6. Under(p)' = Under(p) /\ Under(s)' = Under(s)
  BY <1>1, <1>4, <1>5 DEF Under
<1>7. Flow(s)' /\ Flow(p)'
  BY <1>0, <1>1, <1>3, <1>4, <1>6, <1>p, FlowSame DEF Base
<1>8. Fins(p)'
  <2>1. Fins(p) /\ q'[p].app_send = q[p].app_send /\ q'[p].network = q[p].network
    BY <1>4, <1>p DEF Base
  <2>. QED  BY <1>1, <1>2, <1>p, <2>1, FinsApart
<1>9. Fins(s)'
  <2>1. /\ FinLast(q[s].app_send) => FinLast(y)
        /\ Blank(q[s].app_send) => Blank(y)
    <3>1. \A e \in Seq(Int) :
            e = <<>> => /\ FinLast(q[s].app_send) => FinLast(Append(q[s].app_send, e))
                        /\ Blank(q[s].app_send) => Blank(Append(q[s].app_send, e))
      BY <1>4, FinsAppended
    <3>. QED  BY <3>1, NoBytes
  <2>2. Fins(s)
    BY DEF Base
  <2>. QED  BY <1>1, <1>2, <1>4, <1>p, <2>1, <2>2 DEF Fins
<1>. QED  BY <1>0, <1>p, <1>7, <1>8, <1>9 DEF Base

(* The context is freed with what is in its queues: nothing, without       *)
(* trouble, unless the server broke off.                                   *)
LEMMA FreeContextBase ==
  ASSUME Base, NEW s \in Side, FreeContext(s),
         hist.trouble \/ (s = Server /\ hist.unread) \/ hist.got[s] = hist.written[Peer(s)]
  PROVE  Base'
<1>0. /\ Types /\ Threads(s) /\ Requests(s) /\ Control' /\ Types' /\ Flow(s) /\ Fins(s)
      /\ app[s].pc = "joinrecv"
  BY FreeContextControl DEF Base, Control, FreeContext, Calling
<1>. PICK p, e : p = Peer(s) /\ e = [app_recv |-> <<>>, app_send |-> <<>>, network |-> <<>>]
  OBVIOUS
<1>p. p \in Side /\ p # s /\ Peer(p) = s /\ \A t \in Side : t = s \/ t = p
  BY OtherSide
<1>1. /\ app' = [app EXCEPT ![s].pc = "closed"] /\ q' = [q EXCEPT ![s] = e]
      /\ UNCHANGED <<tr, rv, sock, net, waiting, signal, hist>>
  BY DEF FreeContext, At
<1>2. app'[s].pc = "closed" /\ app'[p] = app[p]
  <2>1. app[s] \in AppRecord
    BY <1>0 DEF Types
  <2>. QED  BY <1>0, <1>1, <1>p, <2>1 DEF Types, AppRecord
<1>3. q'[s].app_recv = <<>> /\ q'[s].app_send = <<>> /\ q'[s].network = <<>> /\ q'[p] = q[p]
  BY <1>0, <1>1, <1>p DEF Types
<1>4. Flow(p)'
  <2>1. Flow(p) /\ Under(p)' = Under(p)
    BY <1>1, <1>3, <1>p DEF Base, Under
  <2>2. BrokeOff(p)' = BrokeOff(p)
    BY <1>1, <1>2 DEF BrokeOff
  <2>3. ~ hist.trouble => q[s].app_recv = <<>>
    <3>1. ~ hist.trouble => tr[s].fin_sent
      BY <1>0 DEF Fins, Threads
    <3>. QED  BY <1>0, <3>1 DEF Requests
  <2>4. ~ hist.trouble => Bytes(p)' = Bytes(p)
    <3>1. FlowTyped(p) /\ FlowTyped(p)'
      BY <1>0, <1>p, FlowTypes, FlowTypesNext DEF AllFlowTyped
    <3>. QED  BY <1>3, <1>p, <2>1, <2>3, <3>1 DEF FlowTyped
  <2>. QED  BY <1>1, <1>2, <1>p, <2>1, <2>2, <2>4 DEF Flow
<1>5. Flow(s)'
  <2>1. IsPrefix(hist.got[s], hist.written[p])
    BY <1>0 DEF Flow
  <2>2. ASSUME ~ hist.trouble, ~ BrokeOff(s)' PROVE Bytes(s)' = hist.written[p]
    <3>1. hist.got[s] = hist.written[p]
      BY <1>1, <1>2, <2>2 DEF BrokeOff
    <3>2. Bytes(s) = hist.written[p]
      BY <1>0, <2>2 DEF Flow, BrokeOff
    <3>. PICK g, a, b, c, d :
           /\ g = hist.got[s] /\ a = FlattenSeq(q[s].app_send) /\ b = FlattenSeq(q[s].network)
           /\ c = FlattenSeq(net[s]) /\ d = FlattenSeq(q[p].app_recv)
      OBVIOUS
    <3>3. /\ g \in Seq(Int) /\ a \in Seq(Int) /\ b \in Seq(Int) /\ c \in Seq(Int) /\ d \in Seq(Int)
      BY <1>0, <1>p, FlowTypes DEF AllFlowTyped, FlowTyped
    <3>4. (((g \o a) \o b) \o c) \o d = g
      BY <3>1, <3>2 DEF Bytes
    <3>5. c = <<>> /\ d = <<>>
      <4>. PICK u, v, w : u = g \o a /\ v = u \o b /\ w = v \o c
        OBVIOUS
      <4>1. u \in Seq(Int) /\ Len(u) = Len(g) + Len(a)
        BY <3>3, ConcatProperties
      <4>2. v \in Seq(Int) /\ Len(v) = Len(u) + Len(b)
        BY <3>3, <4>1, ConcatProperties
      <4>3. w \in Seq(Int) /\ Len(w) = Len(v) + Len(c)
        BY <3>3, <4>2, ConcatProperties
      <4>4. Len(w \o d) = Len(w) + Len(d)
        BY <3>3, <4>3, ConcatProperties
      <4>5. w \o d = g
        BY <3>4
      <4>6. Len(g) \in Nat /\ Len(a) \in Nat /\ Len(b) \in Nat /\ Len(c) \in Nat /\ Len(d) \in Nat
        BY <3>3
      <4>7. Len(c) = 0 /\ Len(d) = 0
        <5>1. Len(g) = Len(w) + Len(d)
          BY <4>4, <4>5
        <5>2. Len(g) = Len(g) + Len(a) + Len(b) + Len(c) + Len(d)
          BY <4>1, <4>2, <4>3, <4>6, <5>1
        <5>. QED  BY ONLY <4>6, <5>2
      <4>. QED  BY <3>3, <4>7, EmptySeq
    <3>6. Bytes(s)' = (((g \o <<>>) \o <<>>) \o c) \o d
      BY <1>1, <1>3, FlattenEmpty DEF Bytes
    <3>7. g \o <<>> = g
      BY <3>3, ConcatEmptySeq
    <3>. QED  BY <3>1, <3>5, <3>6, <3>7
  <2>. QED  BY <1>1, <1>2, <2>1, <2>2 DEF Flow
<1>6. Fins(p)'
  <2>1. Fins(p) /\ q'[p].app_send = q[p].app_send /\ q'[p].network = q[p].network
    BY <1>3, <1>p DEF Base
  <2>. QED  BY <1>1, <1>p, <2>1, FinsApart
<1>7. Fins(s)'
  <2>1. FinLast(<<>>) /\ Blank(<<>>) /\ ~ HasFin(<<>>)
    BY DEF FinLast, Blank, HasFin
  <2>. QED  BY <1>0, <1>1, <1>3, <2>1 DEF Fins
<1>. QED  BY <1>0, <1>p, <1>4, <1>5, <1>6, <1>7 DEF Base

(* What an application writes, and what it reads.                          *)
LEMMA WriteBase ==
  ASSUME Base, NEW s \in Side, app[s].pc \notin Ending \cup {"accept"},
         NEW buf \in Seq(Int), Write(s, buf),
         NEW a \in AppRecord, a.pc \notin Ending \cup {"start"}, app' = [app EXCEPT ![s] = a]
  PROVE  Base'
<1>0. Types /\ Requests(s) /\ Control' /\ Types'
  BY WriteControl DEF Base, Control
<1>. PICK p : p = Peer(s)
  OBVIOUS
<1>p. p \in Side /\ p # s /\ Peer(p) = s /\ \A t \in Side : t = s \/ t = p
  BY OtherSide
<1>1. /\ q'[s].app_recv = Append(q[s].app_recv, buf) /\ q'[s].app_send = q[s].app_send
      /\ q'[s].network = q[s].network /\ q'[p] = q[p]
  <2>1. PICK u \in QueueRecord :
              /\ q' = [q EXCEPT ![s] = u] /\ q'[s] = u
              /\ u.app_recv = Append(q[s].app_recv, buf) /\ u.app_recv # <<>>
              /\ u.app_send = q[s].app_send /\ u.network = q[s].network
    BY ONLY <1>0, WriteShape, s \in Side, buf \in Seq(Int), Write(s, buf)
  <2>2. q'[p] = q[p]
    BY <1>0, <1>p, <2>1 DEF Types
  <2>. QED  BY <2>1, <2>2
<1>2. /\ hist'.trouble = hist.trouble /\ hist'.unread = hist.unread /\ hist'.got = hist.got
      /\ hist'.written[s] = hist.written[s] \o buf /\ hist'.written[p] = hist.written[p]
      /\ UNCHANGED <<tr, rv, sock, net, tcp, waiting>>
  BY <1>0, <1>p, WriteShape
<1>3. ClosesNone
  <2>1. app[s].pc # "closed" /\ a.pc # "closed"
    BY DEF Ending
  <2>. QED  BY <1>0, <1>2, <2>1, ClosesNoneIf
<1>4. Under(s)' = Under(s) /\ Under(p)' = Under(p)
  BY <1>1, <1>2 DEF Under
<1>5. \A r \in Side : /\ Flow(r) /\ Fins(r)
                      /\ hist.trouble => hist'.trouble
                      /\ BrokeOff(r) => BrokeOff(r)'
                      /\ app'[r].pc = "closed" <=> app[r].pc = "closed"
                      /\ app'[Peer(r)].pc = "closed" <=> app[Peer(r)].pc = "closed"
  BY <1>2, <1>3, OtherSide DEF Base, ClosesNone
<1>6. Flow(s)'
  <2>1. Bytes(s)' = Bytes(s)
    BY <1>1, <1>2, <1>p, <1>4 DEF Bytes
  <2>2. /\ hist'.written[Peer(s)] = hist.written[Peer(s)] /\ hist'.got[s] = hist.got[s]
    BY <1>2
  <2>. QED  BY ONLY <1>0, <1>4, <1>5, <2>1, <2>2, FlowKeeps, s \in Side
<1>7. Flow(p)'
  <2>1. FlattenSeq(q'[s].app_recv) = FlattenSeq(q[s].app_recv) \o buf
    <3>1. q[s].app_recv \in Segments
      BY <1>0 DEF Types, QueueRecord
    <3>. QED  BY <1>1, <3>1, FlattenAppend
  <2>2. /\ FlattenSeq(q'[Peer(p)].app_recv) = FlattenSeq(q[Peer(p)].app_recv) \o buf
        /\ hist'.written[Peer(p)] = hist.written[Peer(p)] \o buf /\ hist'.got[p] = hist.got[p]
    BY <1>2, <1>p, <2>1
  <2>. QED  BY ONLY <1>0, <1>4, <1>5, <1>p, <2>2, FlowAdds, buf \in Seq(Int)
<1>8. ~ tr[s].fin_sent
  BY <1>0 DEF Requests
<1>9. Fins(s)' /\ Fins(p)'
  <2>1. /\ q'[p].app_send = q[p].app_send /\ q'[p].network = q[p].network
        /\ hist'.written[Peer(s)] = hist.written[Peer(s)] /\ ~ tr[Peer(p)].fin_sent
    BY <1>1, <1>2, <1>8, <1>p
  <2>2. \A t \in Side : /\ net'[t] = net[t] /\ sock'[t].eof = sock[t].eof /\ tr'[t] = tr[t]
                        /\ tr'[Peer(t)].fin_sent = tr[Peer(t)].fin_sent /\ hist'.got[t] = hist.got[t]
    BY <1>2
  <2>3. Fins(s)'
    BY <1>1, <1>5, <2>1, <2>2, FinsApart
  <2>4. Fins(p)'
    BY <1>5, <1>p, <2>1, <2>2, FinsApart
  <2>. QED  BY <2>3, <2>4
<1>. QED  BY <1>0, <1>p, <1>6, <1>7, <1>9 DEF Base

(* A read takes the bytes behind those that were read, and an end of file  *)
(* only when there are none.                                               *)
LEMMA ReadBase ==
  ASSUME Base, NEW s \in Side, app[s].pc \notin Ending \cup {"accept"},
         NEW n \in Nat \ {0}, Read(s, n),
         NEW a \in AppRecord, a.pc \notin Ending \cup {"start"}, app' = [app EXCEPT ![s] = a]
  PROVE  Base'
<1>0. Types /\ Control' /\ Types' /\ Flow(s) /\ Fins(s)
  BY ReadControl DEF Base, Control
<1>. PICK p, x : p = Peer(s) /\ x = Received(s, n)
  OBVIOUS
<1>p. p \in Side /\ p # s /\ Peer(p) = s /\ \A t \in Side : t = s \/ t = p
  BY OtherSide
<1>1. /\ x \in Seq(Int)
      /\ (sock[s].eof /\ x = <<>> /\ UNCHANGED <<sock, q, hist>>) \/ Consumes(s, n, x)
      /\ UNCHANGED <<tr, rv, net, tcp, waiting, signal>>
  BY <1>0, ReadShape
<1>2. app[s].pc # "closed" /\ a.pc # "closed"
  BY DEF Ending
<1>3. CASE UNCHANGED <<sock, q, hist>>
  <2>1. ClosesNone
    BY <1>0, <1>2, <1>3, ClosesNoneIf
  <2>2. Still
    BY <1>1, <1>3, <2>1 DEF Still, ClosesNone
  <2>. QED  BY <1>0, <2>2, StillBase
<1>4. CASE Consumes(s, n, x)
  <2>. PICK h, y : h = q[s].app_send /\ y = Dequeued(h, n)
    OBVIOUS
  <2>1. /\ q'[s].app_send = y /\ q'[s].app_recv = q[s].app_recv
        /\ q'[s].network = q[s].network /\ q'[p] = q[p]
    <3>1. PICK u \in QueueRecord :
                /\ q' = [q EXCEPT ![s] = u] /\ q'[s] = u
                /\ u.app_send = y /\ u.app_recv = q[s].app_recv /\ u.network = q[s].network
      BY <1>4 DEF Consumes
    <3>2. q'[p] = q[p]
      BY <1>0, <1>p, <3>1 DEF Types
    <3>. QED  BY <3>1, <3>2
  <2>2. ~ sock[s].eof /\ (sock'[s].eof <=> x = <<>>) /\ sock'[p] = sock[p]
    <3>1. PICK c \in SockRecord :
                sock' = [sock EXCEPT ![s] = c] /\ sock'[s] = c /\ (c.eof <=> x = <<>>)
      BY <1>4 DEF Consumes
    <3>. QED  BY <1>0, <1>4, <1>p, <3>1 DEF Types, Consumes
  <2>3. /\ h # <<>> /\ x = Taken(h, n)
        /\ hist'.trouble = hist.trouble /\ hist'.unread = hist.unread /\ hist'.written = hist.written
        /\ hist'.got[s] = hist.got[s] \o x /\ hist'.got[p] = hist.got[p]
    BY <1>4, <1>p DEF Consumes
  <2>4. h \in Segments
    BY <1>0 DEF Types, QueueRecord
  <2>5. /\ y \in Segments /\ FlattenSeq(h) = x \o FlattenSeq(y)
        /\ IF Head(h) = <<>> THEN x = <<>> /\ y = Tail(h) ELSE x # <<>>
    BY <2>3, <2>4, DequeueKeeps
  <2>6. ClosesNone
    BY <1>0, <1>2, <2>3, ClosesNoneIf
  <2>7. \A r \in Side : /\ Flow(r) /\ Fins(r)
                        /\ hist.trouble => hist'.trouble
                        /\ BrokeOff(r) => BrokeOff(r)'
                        /\ app'[r].pc = "closed" <=> app[r].pc = "closed"
                        /\ app'[Peer(r)].pc = "closed" <=> app[Peer(r)].pc = "closed"
    BY <2>3, <2>6, OtherSide DEF Base, ClosesNone
  <2>8. Under(s)' = Under(s)
    <3>. PICK g, z : g = hist.got[s] /\ z = FlattenSeq(y)
      OBVIOUS
    <3>1. g \in Seq(Int) /\ z \in Seq(Int)
      BY <1>0, <2>5, FlattenType, FlowTypes DEF AllFlowTyped, FlowTyped
    <3>2. (g \o x) \o z = g \o (x \o z)
      BY ONLY SMTT(30), <1>1, <3>1, Associative
    <3>3. /\ Under(s) = ((g \o (x \o z)) \o FlattenSeq(q[s].network)) \o FlattenSeq(net[s])
          /\ Under(s)' = (((g \o x) \o z) \o FlattenSeq(q[s].network)) \o FlattenSeq(net[s])
      BY <1>1, <2>1, <2>3, <2>5 DEF Under
    <3>. QED  BY <3>2, <3>3
  <2>9. Flow(s)'
    <3>1. Bytes(s)' = Bytes(s) /\ hist'.written[Peer(s)] = hist.written[Peer(s)]
      <4>1. FlowTyped(s) /\ FlowTyped(s)'
        BY <1>0, FlowTypes, FlowTypesNext DEF AllFlowTyped
      <4>. QED  BY <2>1, <2>3, <2>8, <4>1 DEF FlowTyped
    <3>. QED  BY ONLY <1>0, <1>2, <2>7, <2>8, <3>1, FlowKeeps, s \in Side
  <2>10. Flow(p)'
    <3>1. Under(p)' = Under(p)
      BY <1>1, <2>1, <2>3 DEF Under
    <3>2. Bytes(p)' = Bytes(p) /\ hist'.written[Peer(p)] = hist.written[Peer(p)]
          /\ hist'.got[p] = hist.got[p]
      <4>1. FlowTyped(p) /\ FlowTyped(p)'
        BY <1>0, <1>p, FlowTypes, FlowTypesNext DEF AllFlowTyped
      <4>. QED  BY <1>p, <2>1, <2>3, <3>1, <4>1 DEF FlowTyped
    <3>. QED  BY ONLY <1>0, <1>p, <2>7, <3>1, <3>2, FlowKeeps
  <2>11. Fins(p)'
    <3>1. Fins(p) /\ q'[p].app_send = q[p].app_send /\ q'[p].network = q[p].network
      BY <1>p, <2>1 DEF Base
    <3>. QED  BY <1>1, <1>p, <2>2, <2>3, <3>1, FinsApart
  <2>12. Fins(s)'
    <3>. SUFFICES ASSUME ~ hist.trouble PROVE Fins(s)'
      BY <2>3 DEF Fins
    <3>1. /\ FinLast(h) /\ FinLast(q[s].network) /\ FinLast(net[s])
          /\ HasFin(h) \/ tr[s].fin_received =>
               Blank(q[s].network) /\ Blank(net[s]) /\ tr[p].fin_sent
          /\ HasFin(q[s].network) => Blank(net[s]) /\ tr[p].fin_sent
          /\ HasFin(net[s]) => tr[p].fin_sent
          /\ tr[s].pc \in {"final", "ended"} => tr[s].fin_sent /\ tr[s].fin_received
      BY <1>0 DEF Fins
    <3>2. /\ FinLast(h) => FinLast(y)
          /\ HasFin(y) => HasFin(h)
          /\ Blank(h) => Blank(y)
          /\ Head(h) = <<>> => HasFin(h) /\ (FinLast(h) => Blank(h))
      BY <2>3, <2>4, FinsDequeued, FinsAfterHead
    <3>3. ASSUME x = <<>> PROVE HasFin(h) /\ Blank(y) /\ hist'.got[s] = hist.written[p]
      <4>1. HasFin(h) /\ Blank(h) /\ Blank(y)
        BY <2>5, <3>1, <3>2, <3>3
      <4>2. q[p].app_recv = <<>>
        BY <1>p, <3>1, <4>1 DEF Base, Control, Requests
      <4>3. Blank(q[s].network) /\ Blank(net[s])
        BY <3>1, <4>1
      <4>4. /\ FlattenSeq(q[s].app_send) = <<>> /\ FlattenSeq(q[s].network) = <<>>
            /\ FlattenSeq(net[s]) = <<>> /\ FlattenSeq(q[p].app_recv) = <<>>
        <5>1. q[s].network \in Segments /\ net[s] \in Segments
          BY <1>0 DEF Types, QueueRecord
        <5>. QED  BY <2>4, <4>1, <4>2, <4>3, <5>1, FlattenBlank, FlattenEmpty
      <4>5. Bytes(s) = hist.written[p]
        BY <1>0, <1>2 DEF Flow, BrokeOff
      <4>6. hist.got[s] \in Seq(Int)
        BY <1>0, FlowTypes DEF AllFlowTyped, FlowTyped
      <4>7. hist.got[s] \o <<>> = hist.got[s]
        BY <4>6, ConcatEmptySeq
      <4>8. hist.got[s] = hist.written[p]
        <5>1. Bytes(s) = (((hist.got[s] \o <<>>) \o <<>>) \o <<>>) \o <<>>
          BY <4>4 DEF Bytes
        <5>. QED  BY <4>5, <4>7, <5>1
      <4>. QED  BY <2>3, <3>3, <4>1, <4>7, <4>8
    <3>. QED  BY <1>1, <2>1, <2>2, <2>3, <3>1, <3>2, <3>3 DEF Fins
  <2>. QED  BY <1>0, <1>p, <2>9, <2>10, <2>11, <2>12 DEF Base
<1>. QED  BY <1>1, <1>3, <1>4

(* What the threads do beside the application.                             *)
Outside ==
  /\ app' = app /\ hist'.got = hist.got /\ hist'.written = hist.written
  /\ hist'.unread = hist.unread /\ (hist.trouble => hist'.trouble)
  /\ \A t \in Side : sock'[t].eof = sock[t].eof

(* Of the history, a thread can only note that the connection broke.       *)
LEMMA Breaks ==
  ASSUME Types, UNCHANGED hist \/ hist' = [hist EXCEPT !.trouble = TRUE]
  PROVE  /\ hist'.got = hist.got /\ hist'.written = hist.written /\ hist'.unread = hist.unread
         /\ hist.trouble => hist'.trouble
         /\ hist' = [hist EXCEPT !.trouble = TRUE] => hist'.trouble
<1>1. hist \in HistRecord
  BY DEF Types
<1>. QED  BY ONLY <1>1, UNCHANGED hist \/ hist' = [hist EXCEPT !.trouble = TRUE] DEF HistRecord

(* A step that changes no queue and no application, but maybe breaks the   *)
(* connection.                                                             *)
LEMMA StillOutside ==
  ASSUME Types, UNCHANGED <<app, q, net>>,
         UNCHANGED hist \/ hist' = [hist EXCEPT !.trouble = TRUE],
         \A t \in Side :
           /\ sock'[t].eof = sock[t].eof
           /\ tr'[t].fin_sent = tr[t].fin_sent /\ tr'[t].fin_received = tr[t].fin_received
           /\ tr'[t].pc \in {"final", "ended"} =>
                \/ hist' = [hist EXCEPT !.trouble = TRUE]
                \/ tr[t].pc \in {"final", "ended"}
                \/ tr[t].fin_sent /\ tr[t].fin_received
  PROVE  Still /\ Outside
<1>1. /\ hist'.got = hist.got /\ hist'.written = hist.written /\ hist'.unread = hist.unread
      /\ hist.trouble => hist'.trouble
      /\ hist' = [hist EXCEPT !.trouble = TRUE] => hist'.trouble
  BY Breaks
<1>2. ClosesNone
  BY <1>1, ClosesNoneIf
<1>. QED  BY <1>1, <1>2 DEF Still, Outside, ClosesNone

(* The steps that move neither a byte nor a FIN and are none of the        *)
(* applications'.                                                          *)
LEMMA ThreadsStill ==
  ASSUME Types, NEW s \in Side,
         \/ SendSyn(s) \/ Established(s) \/ HandshakeFails(s) \/ WaitForEvent(s) \/ EndOfTurn(s)
         \/ GiveUp(s) \/ RecvConnects(s) \/ RecvEnds(s) \/ ReadWaits(s)
         \/ \E thread : Broadcast(s, thread)
  PROVE  Still /\ Outside
<1>t. tr \in [Side -> TransportRecord] /\ sock \in [Side -> SockRecord]
  BY DEF Types
<1>1. CASE SendSyn(s)
  <2>1. \A t \in Side : /\ tr'[t].fin_sent = tr[t].fin_sent /\ tr'[t].fin_received = tr[t].fin_received
                        /\ tr'[t].pc \in {"final", "ended"} => tr[t].pc \in {"final", "ended"}
    <3>1. \/ tr' = [tr EXCEPT ![s].pc = "handshake"]
          \/ tr' = [tr EXCEPT ![s].pc = "handshake", ![s].errno = ECONNREFUSED]
      BY <1>1 DEF SendSyn
    <3>. QED  BY <1>t, <3>1 DEF TransportRecord
  <2>2. /\ UNCHANGED <<app, q, net, sock>>
        /\ UNCHANGED hist \/ hist' = [hist EXCEPT !.trouble = TRUE]
    BY <1>1 DEF SendSyn
  <2>. QED  BY <2>1, <2>2, StillOutside
<1>2. CASE Established(s)
  <2>1. \A t \in Side : /\ tr'[t].fin_sent = tr[t].fin_sent /\ tr'[t].fin_received = tr[t].fin_received
                        /\ tr'[t].pc \in {"final", "ended"} => tr[t].pc \in {"final", "ended"}
    <3>1. tr' = [tr EXCEPT ![s].pc = "wait", ![Peer(s)].pc = "wait"]
      BY <1>2 DEF Established
    <3>. QED  BY <1>t, <3>1, OtherSide DEF TransportRecord
  <2>2. \A t \in Side : sock'[t].eof = sock[t].eof
    <3>1. sock' = [sock EXCEPT ![s].blocking = FALSE, ![s].stcp_errno = tr'[s].errno]
      BY <1>2, Zenon DEF Established, Unblock
    <3>. PICK e : e = tr'[s].errno
      OBVIOUS
    <3>2. sock' = [sock EXCEPT ![s].blocking = FALSE, ![s].stcp_errno = e]
      BY <3>1
    <3>. QED  BY ONLY <1>t, <3>2, s \in Side DEF SockRecord
  <2>3. UNCHANGED <<app, q, net, hist>>
    BY <1>2 DEF Established
  <2>. QED  BY <2>1, <2>2, <2>3, StillOutside
<1>3. CASE HandshakeFails(s)
  <2>1. \A t \in Side : tr'[t].fin_sent = tr[t].fin_sent /\ tr'[t].fin_received = tr[t].fin_received
    <3>1. tr' = [tr EXCEPT ![s].pc = "final", ![s].errno = ECONNREFUSED]
      BY <1>3 DEF HandshakeFails
    <3>. QED  BY <1>t, <3>1 DEF TransportRecord
  <2>2. \A t \in Side : sock'[t].eof = sock[t].eof
    <3>1. sock' = [sock EXCEPT ![s].blocking = FALSE, ![s].stcp_errno = tr'[s].errno]
      BY <1>3, Zenon DEF HandshakeFails, Unblock
    <3>. PICK e : e = tr'[s].errno
      OBVIOUS
    <3>2. sock' = [sock EXCEPT ![s].blocking = FALSE, ![s].stcp_errno = e]
      BY <3>1
    <3>. QED  BY ONLY <1>t, <3>2, s \in Side DEF SockRecord
  <2>3. UNCHANGED <<app, q, net>> /\ hist' = [hist EXCEPT !.trouble = TRUE]
    BY <1>3 DEF HandshakeFails
  <2>. QED  BY <2>1, <2>2, <2>3, StillOutside
<1>4. CASE WaitForEvent(s)
  <2>1. \A t \in Side : /\ tr'[t].fin_sent = tr[t].fin_sent /\ tr'[t].fin_received = tr[t].fin_received
                        /\ tr'[t].pc \in {"final", "ended"} => tr[t].pc \in {"final", "ended"}
    <3>. PICK E : E = Events(s)
      OBVIOUS
    <3>1. tr' = tr \/ tr' = [tr EXCEPT ![s].pc = "handle", ![s].events = E]
      BY <1>4 DEF WaitForEvent
    <3>. QED  BY ONLY <1>t, <3>1, s \in Side DEF TransportRecord
  <2>2. \A t \in Side : sock'[t].eof = sock[t].eof
    <3>1. sock' = sock \/ \E e : sock' = [sock EXCEPT ![s].close_requested = e]
      <4>1. CASE Events(s) = {}
        BY <1>4, <4>1 DEF WaitForEvent
      <4>2. CASE Events(s) # {}
        <5>1. sock' = [sock EXCEPT ![s].close_requested = @ /\ "APP_CLOSE" \notin Events(s)]
          BY <1>4, <4>2 DEF WaitForEvent
        <5>. QED  BY <1>t, <5>1
      <4>. QED  BY <4>1, <4>2
    <3>. QED  BY ONLY <1>t, <3>1, s \in Side DEF SockRecord
  <2>3. UNCHANGED <<app, q, net, hist>>
    BY <1>4 DEF WaitForEvent
  <2>. QED  BY <2>1, <2>2, <2>3, StillOutside
<1>5. CASE EndOfTurn(s)
  <2>1. \A t \in Side : /\ tr'[t].fin_sent = tr[t].fin_sent /\ tr'[t].fin_received = tr[t].fin_received
                        /\ tr'[t].pc \in {"final", "ended"} =>
                             tr[t].pc \in {"final", "ended"} \/ (tr[t].fin_sent /\ tr[t].fin_received)
    <3>. PICK c : c = (IF tr[s].fin_sent /\ tr[s].fin_received THEN "final" ELSE "wait")
      OBVIOUS
    <3>1. tr' = [tr EXCEPT ![s].pc = c]
      BY <1>5 DEF EndOfTurn
    <3>. QED  BY <1>t, <3>1 DEF TransportRecord
  <2>2. UNCHANGED <<app, q, net, sock, hist>>
    BY <1>5 DEF EndOfTurn
  <2>. QED  BY <2>1, <2>2, StillOutside
<1>6. CASE GiveUp(s)
  <2>1. \A t \in Side : tr'[t].fin_sent = tr[t].fin_sent /\ tr'[t].fin_received = tr[t].fin_received
    <3>1. tr' = [tr EXCEPT ![s].pc = "final"]
      BY <1>6 DEF GiveUp
    <3>. QED  BY <1>t, <3>1 DEF TransportRecord
  <2>2. UNCHANGED <<app, q, net, sock>> /\ hist' = [hist EXCEPT !.trouble = TRUE]
    BY <1>6 DEF GiveUp
  <2>. QED  BY <2>1, <2>2, StillOutside
<1>7. CASE \/ RecvConnects(s) \/ RecvEnds(s) \/ ReadWaits(s) \/ \E thread : Broadcast(s, thread)
  <2>1. /\ UNCHANGED <<app, tr, q, net, sock>>
        /\ UNCHANGED hist \/ hist' = [hist EXCEPT !.trouble = TRUE]
    BY <1>7 DEF RecvConnects, RecvEnds, ReadWaits, Broadcast
  <2>. QED  BY <2>1, StillOutside
<1>. QED  BY <1>1, <1>2, <1>3, <1>4, <1>5, <1>6, <1>7

-----------------------------------------------------------------------------
(* Requests and answers. *)

Long(i) == 2 + (IF Files[i] = -1 THEN 0 ELSE Files[i])

IsEnds(f) ==
  f = [i \in 0 .. Len(Files) |-> IF i = 0 THEN 0
                               ELSE f[i - 1] + 2 + (IF Files[i] = -1 THEN 0 ELSE Files[i])]

EndsTo(f, n) ==
  /\ f \in [0 .. n -> Nat]
  /\ \A i \in 0 .. n : f[i] = IF i = 0 THEN 0 ELSE f[i - 1] + Long(i)

(* The answer to a request is two bytes long at least, and its length is   *)
(* none of the end of a line.                                              *)
LEMMA FilesFacts ==
  /\ Len(Files) \in Nat /\ DOMAIN Files = 1 .. Len(Files)
  /\ \A i \in 1 .. Len(Files) :
       Files[i] \in Int /\ Files[i] >= -1 /\ Files[i] # EOL /\ Long(i) \in Nat /\ Long(i) >= 2
<1>1. Len(Files) \in Nat /\ DOMAIN Files = 1 .. Len(Files)
  BY MysockAssumption
<1>2. \A i \in 1 .. Len(Files) : Files[i] \in Int /\ Files[i] >= -1
  BY <1>1, MysockAssumption
<1>. QED  BY <1>1, <1>2 DEF EOL, Long

(* The function that says where the answers end exists, built one file at  *)
(* a time.                                                                 *)
LEMMA EndsExist ==
  \E f : EndsTo(f, Len(Files))
<1>. PICK n : n = Len(Files) /\ n \in Nat
  BY FilesFacts
<1>. DEFINE T == {m \in Nat : \E f : EndsTo(f, m)}
<1>1. 0 \in T
  <2>. DEFINE h == [i \in 0 .. 0 |-> 0]
  <2>1. \A i \in 0 .. 0 : i = 0
    OBVIOUS
  <2>2. EndsTo(h, 0)
    BY <2>1 DEF EndsTo
  <2>. QED  BY <2>2
<1>2. ASSUME NEW m \in 0 .. (n - 1), m \in T PROVE m + 1 \in T
  <2>1. PICK g : EndsTo(g, m)
    BY <1>2
  <2>. DEFINE x == g[m] + Long(m + 1)
              h == [i \in 0 .. (m + 1) |-> IF i = m + 1 THEN x ELSE g[i]]
  <2>2. m \in Nat /\ m \in 0 .. m /\ m + 1 \in 1 .. Len(Files) /\ m + 1 # 0 /\ (m + 1) - 1 = m
        /\ m \in 0 .. (m + 1) /\ m # m + 1
    OBVIOUS
  <2>3. g \in [0 .. m -> Nat]
    BY <2>1 DEF EndsTo
  <2>4. x \in Nat
    <3>1. g[m] \in Nat /\ Long(m + 1) \in Nat
      BY <2>2, <2>3, FilesFacts
    <3>. QED  BY <3>1
  <2>5. \A i \in 0 .. (m + 1) : i = m + 1 \/ i \in 0 .. m
    BY <2>2
  <2>. HIDE DEF x
  <2>6. h \in [0 .. (m + 1) -> Nat]
    BY <2>3, <2>4, <2>5
  <2>7. ASSUME NEW i \in 0 .. (m + 1)
        PROVE  h[i] = IF i = 0 THEN 0 ELSE h[i - 1] + Long(i)
    <3>1. CASE i = m + 1
      <4>1. h[i] = x /\ h[m] = g[m]
        BY <2>2, <3>1
      <4>. QED  BY <2>2, <3>1, <4>1 DEF x
    <3>2. CASE i # m + 1
      <4>1. i \in 0 .. m /\ (i # 0 => i - 1 \in 0 .. (m + 1) /\ i - 1 # m + 1)
        BY <2>2, <3>2
      <4>2. h[i] = g[i] /\ (i # 0 => h[i - 1] = g[i - 1])
        BY <3>2, <4>1
      <4>3. g[i] = IF i = 0 THEN 0 ELSE g[i - 1] + Long(i)
        BY <2>1, <4>1, Zenon DEF EndsTo
      <4>. QED  BY <4>2, <4>3
    <3>. QED  BY <3>1, <3>2
  <2>. HIDE DEF h
  <2>8. EndsTo(h, m + 1)
    BY <2>6, <2>7 DEF EndsTo
  <2>. QED  BY <2>2, <2>8
<1>. HIDE DEF T
<1>3. \A i \in 0 .. n : i \in T
  BY <1>1, <1>2, Through
<1>4. n \in T
  BY <1>3
<1>. QED  BY <1>4 DEF T

(* Where an answer ends: as far behind the one before as it is long.       *)
LEMMA AnswerEnds ==
  /\ \A i \in 0 .. Len(Files) : AnswerEnd[i] \in Nat
  /\ AnswerEnd[0] = 0
  /\ \A i \in 1 .. Len(Files) : AnswerEnd[i] = AnswerEnd[i - 1] + Long(i)
<1>. PICK n : n = Len(Files) /\ n \in Nat
  BY FilesFacts
<1>1. PICK f : EndsTo(f, n)
  BY EndsExist
<1>2. \E h : IsEnds(h)
  <2>1. ASSUME NEW i \in 0 .. n
        PROVE  f[i] = IF i = 0 THEN 0 ELSE f[i - 1] + 2 + (IF Files[i] = -1 THEN 0 ELSE Files[i])
    <3>1. i # 0 => i - 1 \in 0 .. n /\ i \in 1 .. n
      OBVIOUS
    <3>2. i # 0 => f[i - 1] \in Nat /\ Files[i] \in Int
      BY <1>1, <3>1, FilesFacts DEF EndsTo
    <3>3. f[i] = IF i = 0 THEN 0 ELSE f[i - 1] + Long(i)
      BY <1>1, Zenon DEF EndsTo
    <3>. QED  BY <3>2, <3>3 DEF Long
  <2>2. f = [i \in 0 .. n |-> IF i = 0 THEN 0
                             ELSE f[i - 1] + 2 + (IF Files[i] = -1 THEN 0 ELSE Files[i])]
    <3>1. f \in [0 .. n -> Nat]
      BY <1>1 DEF EndsTo
    <3>. QED  BY <2>1, <3>1, Zenon
  <2>. QED  BY <2>2, Zenon DEF IsEnds
<1>. PICK g : g = AnswerEnd
  OBVIOUS
<1>3. IsEnds(g)
  <2>1. IsEnds(CHOOSE h : IsEnds(h))
    BY <1>2, Zenon
  <2>2. g = CHOOSE h : IsEnds(h)
    BY DEF AnswerEnd, IsEnds
  <2>. QED  BY <2>1, <2>2
<1>4. \A i \in 0 .. n :
        g[i] = IF i = 0 THEN 0 ELSE g[i - 1] + 2 + (IF Files[i] = -1 THEN 0 ELSE Files[i])
  BY <1>3, Zenon DEF IsEnds
<1>. DEFINE T == {i \in 0 .. n : g[i] = f[i]}
<1>5. 0 \in T
  <2>1. 0 \in 0 .. n
    OBVIOUS
  <2>2. f[0] = 0 /\ g[0] = 0
    BY <1>1, <1>4, <2>1, Zenon DEF EndsTo
  <2>. QED  BY <2>1, <2>2
<1>6. ASSUME NEW i \in 0 .. (n - 1), i \in T PROVE i + 1 \in T
  <2>1. i + 1 \in 0 .. n /\ i + 1 \in 1 .. n /\ i + 1 # 0 /\ (i + 1) - 1 = i /\ i \in 0 .. n
    OBVIOUS
  <2>2. f[i + 1] = f[i] + Long(i + 1) /\ f[i] \in Nat /\ Files[i + 1] \in Int
    BY <1>1, <2>1, FilesFacts DEF EndsTo
  <2>3. g[i + 1] = g[i] + 2 + (IF Files[i + 1] = -1 THEN 0 ELSE Files[i + 1])
    BY <1>4, <2>1
  <2>. QED  BY <1>6, <2>1, <2>2, <2>3 DEF Long
<1>. HIDE DEF T
<1>7. \A i \in 0 .. n : i \in T
  BY <1>5, <1>6, Through
<1>8. \A i \in 0 .. n : g[i] \in Nat
  BY <1>1, <1>7 DEF T, EndsTo
<1>9. g[0] = 0
  <2>1. 0 \in 0 .. n
    OBVIOUS
  <2>. QED  BY <1>4, <2>1, Zenon
<1>10. \A i \in 1 .. n : g[i] = g[i - 1] + Long(i)
  <2>1. \A i \in 1 .. n : i \in 0 .. n /\ i # 0 /\ i - 1 \in 0 .. n
    OBVIOUS
  <2>2. \A i \in 1 .. n : g[i - 1] \in Nat /\ Files[i] \in Int
    BY <1>8, <2>1, FilesFacts
  <2>. QED  BY SMTT(30), <1>4, <2>1, <2>2 DEF Long
<1>. QED  BY <1>8, <1>9, <1>10

(* Of two answers the later one ends two bytes later at least.             *)
LEMMA EndsGrow ==
  ASSUME NEW i \in 0 .. Len(Files), NEW j \in i .. Len(Files)
  PROVE  AnswerEnd[i] <= AnswerEnd[j] /\ (i < j => AnswerEnd[i] + 2 <= AnswerEnd[j])
<1>. PICK n, g : n = Len(Files) /\ n \in Nat /\ g = AnswerEnd
  BY FilesFacts
<1>1. (\A k \in 0 .. n : g[k] \in Nat) /\ \A k \in 1 .. n : g[k] = g[k - 1] + Long(k)
  BY AnswerEnds
<1>2. \A k \in 1 .. n : Long(k) \in Nat /\ Long(k) >= 2
  BY FilesFacts
<1>. DEFINE T == {k \in i .. n : g[i] <= g[k] /\ (i < k => g[i] + 2 <= g[k])}
<1>3. i \in T
  BY <1>1
<1>4. ASSUME NEW k \in i .. (n - 1), k \in T PROVE k + 1 \in T
  <2>1. k + 1 \in 1 .. n /\ k + 1 \in i .. n /\ (k + 1) - 1 = k /\ k \in 0 .. n /\ i \in 0 .. n
        /\ k + 1 \in 0 .. n
    OBVIOUS
  <2>2. g[k + 1] = g[k] + Long(k + 1) /\ Long(k + 1) \in Nat /\ Long(k + 1) >= 2
        /\ g[k] \in Nat /\ g[i] \in Nat
    BY <1>1, <1>2, <2>1
  <2>3. g[i] <= g[k]
    BY <1>4
  <2>4. g[i] + 2 <= g[k + 1]
    BY ONLY <2>2, <2>3
  <2>5. g[i] <= g[k + 1]
    BY ONLY <2>2, <2>3
  <2>. QED  BY <2>1, <2>4, <2>5
<1>. HIDE DEF T
<1>5. i \in Nat /\ (i <= n => i \in T)
  BY <1>3
<1>6. \A k \in i .. n : k \in T
  BY <1>4, <1>5, Through
<1>. QED  BY <1>6 DEF T

(* One more request, one more file unless it does not exist.               *)
LEMMA ThereFacts ==
  ASSUME NEW n \in Nat
  PROVE  /\ IsFiniteSet(There(n)) /\ Cardinality(There(n)) \in Nat
         /\ IF Files[n + 1] = -1 THEN There(n + 1) = There(n)
            ELSE Cardinality(There(n + 1)) = Cardinality(There(n)) + 1
<1>1. IsFiniteSet(There(n)) /\ Cardinality(There(n)) \in Nat
  <2>1. IsFiniteSet(1 .. n)
    BY FS_Interval
  <2>2. There(n) \subseteq 1 .. n
    BY DEF There
  <2>. QED  BY <2>1, <2>2, FS_Subset, FS_CardinalityType
<1>2. n + 1 \notin 1 .. n /\ 1 .. (n + 1) = (1 .. n) \cup {n + 1}
  OBVIOUS
<1>3. Files[n + 1] = -1 => There(n + 1) = There(n)
  BY <1>2 DEF There
<1>4. Files[n + 1] # -1 => There(n + 1) = There(n) \cup {n + 1} /\ n + 1 \notin There(n)
  BY <1>2 DEF There
<1>. QED  BY <1>1, <1>3, <1>4, FS_AddElement

(* A step that does not touch the requests, or the answers, or the loop of *)
(* the client, or that of the server.                                      *)
LEMMA AskingStays ==
  ASSUME Asking, app'["client"] = app["client"], hist'.got["client"] = hist.got["client"],
         sock'["client"].eof = sock["client"].eof, hist.trouble => hist'.trouble,
         hist.unread => hist'.unread
  PROVE  Asking'
BY DEF Asking, Asked

(* A step that does not touch the loop of the server; the client may ask.  *)
LEMMA ServingStays ==
  ASSUME NEW k, Serving(k), app'["server"] = app["server"],
         hist'.got["server"] = hist.got["server"],
         hist'.written["server"] = hist.written["server"],
         sock'["server"].eof = sock["server"].eof, hist.trouble => hist'.trouble,
         hist.unread => hist'.unread, Asked \in Nat, Asked' \in Nat, Asked <= Asked', k \in Nat
  PROVE  Serving(k)'
BY DEF Serving

(* A step that writes nothing.                                             *)
LEMMA WrittenStays ==
  ASSUME hist'.written = hist.written, Asked' = Asked, RequestsWritten, AnswersWritten
  PROVE  RequestsWritten' /\ AnswersWritten'
BY DEF RequestsWritten, AnswersWritten

(* A step that is none of the applications' leaves requests and answers as *)
(* they are.                                                               *)
LEMMA OutsideProtocol ==
  ASSUME Types, Protocol, Outside
  PROVE  Protocol'
<1>1. /\ app' = app /\ hist'.got = hist.got /\ hist'.written = hist.written
      /\ hist'.unread = hist.unread /\ (hist.trouble => hist'.trouble)
      /\ sock'["client"].eof = sock["client"].eof /\ sock'["server"].eof = sock["server"].eof
  BY Sides DEF Outside
<1>2. Asked' = Asked /\ Asked \in Nat
  BY <1>1, Sides DEF Asked, Types, AppRecord
<1>3. RequestsWritten' /\ AnswersWritten'
  BY <1>1, <1>2, WrittenStays DEF Protocol
<1>4. Asking'
  BY <1>1, AskingStays DEF Protocol
<1>5. PICK k \in 0 .. Len(Files) : Serving(k)
  BY DEF Protocol
<1>6. Serving(k)'
  BY <1>1, <1>2, <1>5, ServingStays
<1>. QED  BY <1>3, <1>4, <1>6 DEF Protocol

(* A step of myclose(). *)
LEMMA EndingProtocol ==
  ASSUME Types, Protocol, NEW s \in Side, app[s].pc \in {"close"} \cup Ending,
         NEW pc \in Ending, app' = [app EXCEPT ![s].pc = pc], UNCHANGED hist,
         \A t \in Side : sock'[t].eof = sock[t].eof
  PROVE  Protocol'
<1>. USE Sides
<1>1. app \in [Side -> AppRecord]
  BY DEF Types
<1>2. /\ app'[s].pc = pc /\ app'[s].line = app[s].line /\ app'[s].left = app[s].left
      /\ app'[s].asked = app[s].asked /\ app'[s].received = app[s].received
      /\ \A t \in Side : t # s => app'[t] = app[t]
  BY <1>1 DEF AppRecord
<1>3. Asked' = Asked /\ Asked \in Nat
  BY <1>1, <1>2 DEF Asked, AppRecord
<1>4. RequestsWritten' /\ AnswersWritten'
  BY <1>3, WrittenStays DEF Protocol
<1>5. Asking'
  <2>1. CASE s = "server"
    BY <1>2, <2>1, AskingStays DEF Protocol
  <2>2. CASE s = "client"
    <3>1. Asking
      BY DEF Protocol
    <3>2. pc \notin {"start", "connecting", "ask", "answer", "parse", "file"}
      BY DEF Ending
    <3>. QED  BY <1>2, <1>3, <2>2, <3>1, <3>2 DEF Asking, Asked
  <2>. QED  BY <2>1, <2>2
<1>6. PICK k \in 0 .. Len(Files) : Serving(k)
  BY DEF Protocol
<1>7. Serving(k)'
  <2>1. CASE s = "client"
    <3>1. app'["server"] = app["server"]
      BY <1>2, <2>1
    <3>. QED  BY <1>3, <1>6, <3>1, ServingStays
  <2>2. CASE s = "server"
    <3>1. pc \notin {"accept", "line", "process", "body"}
      BY DEF Ending
    <3>. QED  BY <1>2, <1>3, <1>6, <2>2, <3>1 DEF Serving
  <2>. QED  BY <2>1, <2>2
<1>. QED  BY <1>4, <1>5, <1>7 DEF Protocol

(* What a read gives: nothing after the end of file, the end of file when  *)
(* all was read and the other side has ended, or the next bytes.           *)
ReadOutcome(s, x) ==
  /\ hist'.trouble = hist.trouble /\ hist'.unread = hist.unread /\ hist'.written = hist.written
  /\ hist'.got[Peer(s)] = hist.got[Peer(s)] /\ sock'[Peer(s)].eof = sock[Peer(s)].eof
  /\ x \in Seq(Int) /\ Len(x) \in Nat /\ Len(hist.got[s]) \in Nat
  /\ \/ sock[s].eof /\ x = <<>> /\ sock'[s].eof /\ hist'.got[s] = hist.got[s]
     \/ /\ ~ sock[s].eof /\ x = <<>> /\ sock'[s].eof /\ hist'.got[s] = hist.got[s]
        /\ hist.trouble \/ (hist.got[s] = hist.written[Peer(s)] /\ app[Peer(s)].pc \in Ending)
     \/ /\ ~ sock[s].eof /\ x # <<>> /\ ~ sock'[s].eof
        /\ Len(hist'.got[s]) = Len(hist.got[s]) + Len(x)
        /\ Len(hist.got[s]) + Len(x) <= Len(hist.written[Peer(s)])
        /\ \A i \in 1 .. Len(x) : x[i] = hist.written[Peer(s)][Len(hist.got[s]) + i]

(* A read of an application that is in its loop, by what it gives.         *)
LEMMA ReadGives ==
  ASSUME Base, NEW s \in Side, app[s].pc \notin Ending \cup {"accept"},
         NEW n \in Nat \ {0}, Read(s, n), NEW x, x = Received(s, n),
         NEW a \in AppRecord, a.pc \notin Ending \cup {"start"}, app' = [app EXCEPT ![s] = a]
  PROVE  Base' /\ ReadOutcome(s, x) /\ Len(x) <= n /\ app'[s] = a /\ app'[Peer(s)] = app[Peer(s)]
<1>0. Types /\ Types' /\ Base'
  BY ReadBase DEF Base, Control
<1>. PICK p : p = Peer(s)
  OBVIOUS
<1>p. p \in Side /\ p # s /\ Peer(p) = s
  BY OtherSide
<1>1. /\ x \in Seq(Int) /\ Len(x) \in Nat /\ Len(x) <= n
      /\ (sock[s].eof /\ x = <<>> /\ UNCHANGED <<sock, q, hist>>) \/ Consumes(s, n, x)
      /\ UNCHANGED <<tr, rv, net, tcp, waiting, signal>>
  BY <1>0, ReadShape
<1>2. app'[s] = a /\ app'[p] = app[p]
  BY <1>0, <1>p DEF Types
<1>3. hist.got[s] \in Seq(Int) /\ hist.written[p] \in Seq(Int) /\ hist'.got[s] \in Seq(Int)
  BY <1>0, <1>p DEF Types, HistRecord
<1>4. CASE sock[s].eof /\ x = <<>> /\ UNCHANGED <<sock, q, hist>>
  <2>1. ReadOutcome(s, x)
    BY <1>1, <1>3, <1>4 DEF ReadOutcome
  <2>. QED  BY <1>0, <1>1, <1>2, <2>1
<1>5. CASE Consumes(s, n, x)
  <2>1. ~ sock[s].eof /\ (sock'[s].eof <=> x = <<>>) /\ sock'[p] = sock[p]
    <3>1. PICK c \in SockRecord :
                sock' = [sock EXCEPT ![s] = c] /\ sock'[s] = c /\ (c.eof <=> x = <<>>)
      BY <1>5 DEF Consumes
    <3>. QED  BY <1>0, <1>5, <1>p, <3>1 DEF Types, Consumes
  <2>2. /\ hist'.trouble = hist.trouble /\ hist'.unread = hist.unread /\ hist'.written = hist.written
        /\ hist'.got[s] = hist.got[s] \o x /\ hist'.got[p] = hist.got[p]
    BY <1>5, <1>p DEF Consumes
  <2>3. CASE x = <<>>
    <3>1. hist'.got[s] = hist.got[s]
      BY <1>3, <2>2, <2>3, ConcatEmptySeq
    <3>2. ~ hist.trouble => hist.got[s] = hist.written[p] /\ tr'[p].fin_sent
      <4>1. Fins(s)'
        BY <1>0 DEF Base
      <4>. QED  BY <2>1, <2>2, <2>3, <3>1, <4>1 DEF Fins
    <3>3. tr'[p].fin_sent => app[p].pc \in Ending
      <4>1. Requests(p)'
        BY <1>0, <1>p DEF Base, Control
      <4>. QED  BY <1>2, <4>1 DEF Requests
    <3>4. ReadOutcome(s, x)
      BY <1>1, <1>3, <2>1, <2>2, <2>3, <3>1, <3>2, <3>3 DEF ReadOutcome
    <3>. QED  BY <1>0, <1>1, <1>2, <3>4
  <2>4. CASE x # <<>>
    <3>1. IsPrefix(hist'.got[s], hist.written[p])
      <4>1. Flow(s)'
        BY <1>0 DEF Base
      <4>. QED  BY <2>2, <4>1 DEF Flow
    <3>. PICK g, h, w : g = hist.got[s] /\ h = hist'.got[s] /\ w = hist.written[p]
      OBVIOUS
    <3>2. Len(h) <= Len(w) /\ \A i \in 1 .. Len(h) : h[i] = w[i]
      BY <1>3, <3>1, PrefixAt
    <3>3. Len(h) = Len(g) + Len(x) /\ \A i \in Len(g) + 1 .. Len(g) + Len(x) : h[i] = x[i - Len(g)]
      <4>1. h = g \o x
        BY <2>2
      <4>2. g \in Seq(Int) /\ x \in Seq(Int)
        BY <1>1, <1>3
      <4>. QED  BY <4>1, <4>2, ConcatProperties
    <3>4. Len(g) \in Nat /\ Len(x) \in Nat
      BY <1>1, <1>3
    <3>5. ASSUME NEW i \in 1 .. Len(x) PROVE x[i] = w[Len(g) + i]
      <4>1. Len(g) + i \in Len(g) + 1 .. Len(g) + Len(x) /\ Len(g) + i \in 1 .. Len(g) + Len(x)
            /\ (Len(g) + i) - Len(g) = i
        BY <3>4
      <4>. QED  BY <3>2, <3>3, <4>1
    <3>6. ReadOutcome(s, x)
      BY <1>1, <2>1, <2>2, <2>4, <3>2, <3>3, <3>4, <3>5 DEF ReadOutcome
    <3>. QED  BY <1>0, <1>1, <1>2, <3>6
  <2>. QED  BY <2>3, <2>4
<1>. QED  BY <1>1, <1>4, <1>5

(* When the server has ended and the client has not, the server could not  *)
(* read a file.                                                            *)
LEMMA ServerBrokeOff ==
  ASSUME Base, Protocol, app["client"].pc \notin Ending, app["server"].pc \in Ending, ~ hist.trouble
  PROVE  hist.unread
<1>. USE Sides
<1>1. PICK k \in 0 .. Len(Files) : Serving(k)
  BY DEF Protocol
<1>2. sock["server"].eof \/ hist.unread
  BY <1>1 DEF Serving
<1>3. sock["server"].eof => tr["client"].fin_sent
  BY DEF Base, Fins
<1>4. ~ tr["client"].fin_sent
  BY DEF Base, Control, Requests
<1>. QED  BY <1>2, <1>3, <1>4

(* The server writes no half of a line.                                    *)
LEMMA WholeLines ==
  ASSUME Protocol, NEW i \in 1 .. Len(Files)
  PROVE  Len(hist.written["server"]) # AnswerEnd[i - 1] + 1
<1>1. PICK k \in 0 .. Len(Files) : Serving(k)
  BY DEF Protocol
<1>. PICK w : w = Len(hist.written["server"])
  OBVIOUS
<1>2. \/ w = AnswerEnd[k]
      \/ k < Len(Files) /\ AnswerEnd[k] + 2 <= w /\ w <= AnswerEnd[k + 1]
  BY <1>1 DEF Serving
<1>3. Len(Files) \in Nat /\ i - 1 \in 0 .. Len(Files) /\ i \in 0 .. Len(Files) /\ i - 1 < i
  BY FilesFacts
<1>4. /\ \A j \in 0 .. Len(Files) : AnswerEnd[j] \in Nat
      /\ \A j, m \in 0 .. Len(Files) : j <= m => AnswerEnd[j] <= AnswerEnd[m]
      /\ AnswerEnd[i - 1] + 2 <= AnswerEnd[i]
  <2>1. \A j, m \in 0 .. Len(Files) : j <= m => m \in j .. Len(Files)
    BY <1>3
  <2>2. i \in i - 1 .. Len(Files)
    BY <1>3
  <2>. QED  BY <1>3, <2>1, <2>2, AnswerEnds, EndsGrow
<1>5. CASE k <= i - 1
  <2>1. CASE w = AnswerEnd[k]
    <3>1. AnswerEnd[k] <= AnswerEnd[i - 1] /\ AnswerEnd[k] \in Nat /\ AnswerEnd[i - 1] \in Nat
      BY <1>3, <1>4, <1>5
    <3>. QED  BY <2>1, <3>1
  <2>2. CASE k < Len(Files) /\ AnswerEnd[k] + 2 <= w /\ w <= AnswerEnd[k + 1] /\ k = i - 1
    <3>1. AnswerEnd[k] \in Nat
      BY <1>4
    <3>2. AnswerEnd[i - 1] + 2 <= w
      BY <2>2
    <3>. QED  BY <2>2, <3>1, <3>2
  <2>3. CASE k < Len(Files) /\ AnswerEnd[k] + 2 <= w /\ w <= AnswerEnd[k + 1] /\ k # i - 1
    <3>1. k + 1 \in 0 .. Len(Files) /\ k + 1 <= i - 1
      BY <1>3, <1>5, <2>3
    <3>2. AnswerEnd[k + 1] <= AnswerEnd[i - 1] /\ AnswerEnd[k + 1] \in Nat /\ AnswerEnd[i - 1] \in Nat
      BY <1>3, <1>4, <3>1
    <3>. QED  BY <2>3, <3>2
  <2>. QED  BY <1>2, <2>1, <2>2, <2>3
<1>6. CASE ~ k <= i - 1
  <2>1. i <= k
    BY <1>3, <1>6
  <2>2. AnswerEnd[i] <= AnswerEnd[k] /\ AnswerEnd[i] \in Nat /\ AnswerEnd[k] \in Nat /\ AnswerEnd[i - 1] \in Nat
    BY <1>3, <1>4, <2>1
  <2>3. w = AnswerEnd[k] \/ AnswerEnd[k] + 2 <= w
    BY <1>2
  <2>. QED  BY <1>4, <2>2, <2>3
<1>. QED  BY <1>5, <1>6

(* A read that waits keeps everything.                                     *)
LEMMA ReadWaitsKeeps ==
  ASSUME Base, Protocol, NEW s \in Side, app[s].pc \notin Ending \cup {"accept", "start"}, ReadWaits(s)
  PROVE  Base' /\ Protocol'
<1>1. Control /\ Types
  BY DEF Base, Control
<1>2. Control'
  BY <1>1, WaitControl
<1>3. Still /\ Outside
  BY <1>1, ThreadsStill
<1>. QED  BY <1>1, <1>2, <1>3, StillBase, OutsideProtocol

(* A byte of a line, or its end.                                           *)
LineOutcome(s, then, a, x) ==
  /\ app'[s] = a /\ app'[Peer(s)] = app[Peer(s)]
  /\ ReadOutcome(s, x) /\ Len(x) \in {0, 1}
  /\ a.left = app[s].left /\ a.asked = app[s].asked /\ a.received = app[s].received
  /\ x = <<>> \/ x = <<EOL>> => a.pc = then /\ a.line = app[s].line
  /\ ~ (x = <<>> \/ x = <<EOL>>) => a.pc = app[s].pc /\ a.line = app[s].line \o x

(* A step of get_nvt_line() waits, or gives a byte of the line or its end. *)
LEMMA GetLineGives ==
  ASSUME Base, Protocol, NEW s \in Side, app[s].pc \notin Ending \cup {"accept", "start"},
         NEW then \in {"parse", "process"}, GetLine(s, then)
  PROVE  Base' /\ (Protocol' \/ \E a \in AppRecord : \E x : LineOutcome(s, then, a, x))
<1>0. Types /\ app[s] \in AppRecord
  BY DEF Base, Control, Types
<1>1. CASE ReadWaits(s)
  BY <1>1, ReadWaitsKeeps
<1>2. CASE ~ ReadWaits(s)
  <2>. PICK x, l, c : /\ x = Received(s, 1)
                      /\ l = (IF x = <<EOL>> THEN app[s].line ELSE app[s].line \o x)
                      /\ c = (IF x \in {<<>>, <<EOL>>} THEN then ELSE app[s].pc)
    OBVIOUS
  <2>1. Read(s, 1) /\ app' = [app EXCEPT ![s].line = l, ![s].pc = c]
    BY <1>0, <1>2 DEF GetLine, Types, AppRecord
  <2>2. x \in Seq(Int) /\ 1 \in Nat \ {0}
    BY <1>0, <2>1, ReadShape
  <2>3. l \in Seq(Int)
    <3>1. app[s].line \in Seq(Int)
      BY <1>0 DEF AppRecord
    <3>. QED  BY <2>2, <3>1, ConcatProperties
  <2>4. c = app[s].pc \/ c \in {"parse", "process"}
    OBVIOUS
  <2>. PICK a : a = [app[s] EXCEPT !.line = l, !.pc = c]
    OBVIOUS
  <2>5. /\ a \in AppRecord /\ a.pc = c /\ a.line = l /\ a.left = app[s].left
        /\ a.asked = app[s].asked /\ a.received = app[s].received
    BY ONLY <1>0, <2>3, <2>4, a = [app[s] EXCEPT !.line = l, !.pc = c] DEF AppRecord
  <2>6. app' = [app EXCEPT ![s] = a]
    BY <2>1
  <2>7. a.pc \notin Ending \cup {"start"} /\ app[s].pc \notin Ending \cup {"accept"}
    BY <2>4, <2>5 DEF Ending
  <2>. PICK n : n = 1
    OBVIOUS
  <2>8. Base' /\ ReadOutcome(s, x) /\ Len(x) <= n /\ app'[s] = a /\ app'[Peer(s)] = app[Peer(s)]
    <3>1. n \in Nat \ {0} /\ Read(s, n) /\ x = Received(s, n)
      BY ONLY <2>1, n = 1, x = Received(s, 1)
    <3>. QED  BY ONLY <2>5, <2>6, <2>7, <3>1, ReadGives, Base, s \in Side
  <2>11. Len(x) \in {0, 1}
    <3>. PICK m : m = Len(x)
      OBVIOUS
    <3>1. m \in Nat /\ m <= n
      BY <2>2, <2>8
    <3>2. m \in {0, 1}
      BY ONLY <3>1, n = 1
    <3>. QED  BY <3>2
  <2>9. x = <<>> => l = app[s].line
    <3>1. app[s].line \in Seq(Int)
      BY <1>0 DEF AppRecord
    <3>2. app[s].line \o <<>> = app[s].line
      BY <3>1, ConcatEmptySeq
    <3>. QED  BY <3>2
  <2>10. LineOutcome(s, then, a, x)
    BY <2>5, <2>8, <2>9, <2>11 DEF LineOutcome
  <2>. QED  BY <2>5, <2>8, <2>10
<1>. QED  BY <1>1, <1>2

(* A sequence that is not empty and not longer than one is one byte.       *)
LEMMA OneByte ==
  ASSUME NEW x \in Seq(Int), x # <<>>, Len(x) \in {0, 1}
  PROVE  Len(x) = 1 /\ x = <<x[1]>> /\ x[1] \in Int
<1>1. Len(x) = 1
  <2>1. Len(x) \in Nat /\ Len(x) # 0
    BY EmptySeq
  <2>. QED  BY <2>1
<1>2. x[1] \in Int
  BY <1>1
<1>3. x = <<x[1]>>
  <2>1. <<x[1]>> \in Seq(Int) /\ Len(<<x[1]>>) = 1 /\ <<x[1]>>[1] = x[1]
    BY <1>2
  <2>2. \A i \in 1 .. Len(x) : x[i] = <<x[1]>>[i]
    BY <1>1, <2>1
  <2>. QED  BY <1>1, <2>1, <2>2, SeqEqual
<1>. QED  BY <1>1, <1>2, <1>3

(* The client, where it is after a step.                                   *)
LEMMA AskingAnswer ==
  ASSUME NEW n, n = Asked', n >= 1, app'["client"].pc = "answer",
         NEW line, line = app'["client"].line, Len(line) \in {0, 1},
         line = <<>> \/ (line = <<Files[n]>> /\ ~ sock'["client"].eof),
         IF sock'["client"].eof THEN hist'.trouble
         ELSE /\ Len(hist'.got["client"]) = AnswerEnd[n - 1] + Len(line)
              /\ app'["client"].received = Cardinality(There(n - 1))
  PROVE  Asking'
BY DEF Asking, Ending

(* The client has a line, or the end of file.                              *)
LEMMA AskingParse ==
  ASSUME NEW n, n = Asked', n >= 1, app'["client"].pc = "parse",
         NEW line, line = app'["client"].line, Len(line) \in {0, 1},
         \/ line = <<>> /\ sock'["client"].eof /\ (hist'.trouble \/ hist'.unread)
         \/ /\ line = <<Files[n]>>
            /\ IF sock'["client"].eof THEN hist'.trouble
               ELSE /\ Len(hist'.got["client"]) = AnswerEnd[n - 1] + 2
                    /\ app'["client"].received = Cardinality(There(n - 1))
  PROVE  Asking'
BY DEF Asking, Ending

(* The client reads a file.                                                *)
LEMMA AskingFile ==
  ASSUME NEW n, n = Asked', n >= 1, app'["client"].pc = "file", Len(app'["client"].line) \in {0, 1},
         Files[n] # -1, app'["client"].left \in 0 .. Files[n],
         IF sock'["client"].eof THEN hist'.trouble
         ELSE /\ Len(hist'.got["client"]) = AnswerEnd[n] - app'["client"].left
              /\ app'["client"].received = Cardinality(There(n - 1))
  PROVE  Asking'
BY DEF Asking, Ending

(* The client has a whole answer.                                          *)
LEMMA AskingAsk ==
  ASSUME NEW n, n = Asked', app'["client"].pc = "ask", Len(app'["client"].line) \in {0, 1},
         IF sock'["client"].eof THEN hist'.trouble
         ELSE /\ Len(hist'.got["client"]) = AnswerEnd[n]
              /\ app'["client"].received = Cardinality(There(n))
  PROVE  Asking'
BY DEF Asking, Ending

(* The client leaves its loop.                                             *)
LEMMA AskingClose ==
  ASSUME NEW n, n = Asked', app'["client"].pc = "close", Len(app'["client"].line) \in {0, 1},
         \/ hist'.trouble
         \/ sock'["client"].eof /\ hist'.unread
         \/ /\ n = Len(Files) /\ Len(hist'.got["client"]) = AnswerEnd[n]
            /\ app'["client"].received = Cardinality(There(n))
  PROVE  Asking'
BY DEF Asking

(* The client reads the line of an answer: the length of the file it asked *)
(* for, then the end of the line.                                          *)
LEMMA ReadAnswerKeeps ==
  ASSUME Base, Protocol, ReadAnswer
  PROVE  Base' /\ Protocol'
<1>. USE Sides
<1>0. /\ Types /\ app["client"].pc = "answer" /\ GetLine("client", "parse") /\ Asking
      /\ RequestsWritten /\ AnswersWritten
  BY DEF Base, Control, Protocol, ReadAnswer, Calling
<1>1. "client" \in Side /\ app["client"].pc \notin Ending \cup {"accept", "start"}
      /\ "parse" \in {"parse", "process"}
  BY <1>0 DEF Ending
<1>2. Base' /\ (Protocol' \/ \E a \in AppRecord : \E x : LineOutcome("client", "parse", a, x))
  BY ONLY <1>0, <1>1, Base, Protocol, GetLineGives
<1>. SUFFICES ASSUME NEW a \in AppRecord, NEW x, LineOutcome("client", "parse", a, x)
              PROVE  Protocol'
  BY <1>2
<1>3. /\ app'["client"] = a /\ app'["server"] = app["server"] /\ ReadOutcome("client", x) /\ Len(x) \in {0, 1}
      /\ a.left = app["client"].left /\ a.asked = Asked /\ a.received = app["client"].received
      /\ x = <<>> \/ x = <<EOL>> => a.pc = "parse" /\ a.line = app["client"].line
      /\ ~ (x = <<>> \/ x = <<EOL>>) => a.pc = "answer" /\ a.line = app["client"].line \o x
  BY <1>0 DEF LineOutcome, Asked
<1>4. /\ hist'.trouble = hist.trouble /\ hist'.unread = hist.unread /\ hist'.written = hist.written
      /\ hist'.got["server"] = hist.got["server"] /\ sock'["server"].eof = sock["server"].eof
      /\ x \in Seq(Int) /\ Len(x) \in Nat
  BY <1>3 DEF ReadOutcome
<1>5. Asked' = Asked /\ Asked \in 0 .. Len(Files)
  BY <1>0, <1>3 DEF Asked, Types, AppRecord
<1>6. RequestsWritten' /\ AnswersWritten'
  BY <1>0, <1>4, <1>5, WrittenStays
<1>7. \E k \in 0 .. Len(Files) : Serving(k)'
  <2>1. PICK k \in 0 .. Len(Files) : Serving(k)
    BY DEF Protocol
  <2>2. Serving(k)'
    BY <1>3, <1>4, <1>5, <2>1, ServingStays
  <2>. QED  BY <2>2
<1>. PICK n, g, E : n = Asked /\ g = Len(hist.got["client"]) /\ E = AnswerEnd[n - 1]
  OBVIOUS
<1>8. /\ n \in 1 .. Len(Files) /\ E \in Nat
      /\ IF sock["client"].eof THEN hist.trouble
         ELSE /\ g = E + Len(app["client"].line)
              /\ app["client"].received = Cardinality(There(n - 1))
      /\ app["client"].line = <<>> \/ (app["client"].line = <<Files[n]>> /\ ~ sock["client"].eof)
  <2>1. /\ n >= 1 /\ IF sock["client"].eof THEN hist.trouble
                     ELSE /\ g = E + Len(app["client"].line)
                          /\ app["client"].received = Cardinality(There(n - 1))
        /\ app["client"].line = <<>> \/ (app["client"].line = <<Files[n]>> /\ ~ sock["client"].eof)
    BY <1>0 DEF Asking
  <2>2. n \in 1 .. Len(Files) /\ n - 1 \in 0 .. Len(Files)
    BY <1>5, <2>1, FilesFacts
  <2>. QED  BY <2>1, <2>2, AnswerEnds
<1>9. Len(<<>>) = 0 /\ Len(<<Files[n]>>) = 1 /\ Files[n] # EOL /\ Files[n] \in Int
  BY <1>8, FilesFacts
<1>10. CASE sock["client"].eof
  <2>1. x = <<>> /\ sock'["client"].eof /\ a.pc = "parse" /\ a.line = <<>> /\ hist'.trouble
    BY <1>3, <1>4, <1>8, <1>10 DEF ReadOutcome
  <2>2. n = Asked' /\ n >= 1 /\ app'["client"].pc = "parse" /\ app'["client"].line = <<>>
        /\ sock'["client"].eof /\ hist'.trouble /\ Len(<<>>) \in {0, 1}
    BY <1>3, <1>5, <1>8, <1>9, <2>1
  <2>3. Asking'
    BY ONLY <2>2, AskingParse
  <2>. QED  BY <1>6, <1>7, <2>3 DEF Protocol
<1>11. CASE ~ sock["client"].eof /\ x = <<>>
  <2>1. /\ sock'["client"].eof /\ a.pc = "parse" /\ a.line = app["client"].line
        /\ hist.trouble \/ (hist.got["client"] = hist.written["server"] /\ app["server"].pc \in Ending)
    BY <1>3, <1>11 DEF ReadOutcome
  <2>2. hist.trouble \/ hist.unread
    BY <1>1, <2>1, ServerBrokeOff
  <2>3. app["client"].line # <<>> => hist.trouble
    <3>1. app["client"].line # <<>> => g = E + 1
      BY <1>8, <1>9, <1>11
    <3>. QED  BY <1>8, <2>1, <3>1, WholeLines
  <2>. PICK line : line = app["client"].line
    OBVIOUS
  <2>4. /\ n = Asked' /\ n >= 1 /\ app'["client"].pc = "parse" /\ line = app'["client"].line
        /\ sock'["client"].eof
        /\ line = <<>> \/ (line = <<Files[n]>> /\ hist'.trouble)
        /\ hist'.trouble \/ hist'.unread
    BY <1>3, <1>4, <1>5, <1>8, <2>1, <2>2, <2>3
  <2>5. Len(line) \in {0, 1}
    BY <1>9, <2>4
  <2>6. Asking'
    BY ONLY <2>4, <2>5, AskingParse
  <2>. QED  BY <1>6, <1>7, <2>6 DEF Protocol
<1>12. CASE ~ sock["client"].eof /\ x # <<>>
  <2>1. Len(x) = 1 /\ x = <<x[1]>> /\ x[1] \in Int
    BY <1>3, <1>4, <1>12, OneByte
  <2>2. /\ ~ sock'["client"].eof /\ Len(hist'.got["client"]) = g + 1
        /\ g + 1 <= Len(hist.written["server"]) /\ x[1] = hist.written["server"][g + 1]
    BY <1>3, <1>12, <2>1 DEF ReadOutcome
  <2>3. /\ E + 1 <= Len(hist.written["server"]) => hist.written["server"][E + 1] = Files[n]
        /\ E + 2 <= Len(hist.written["server"]) => hist.written["server"][E + 2] = EOL
    BY <1>0, <1>8 DEF AnswersWritten
  <2>4. CASE app["client"].line = <<>>
    <3>1. g = E
      BY <1>8, <1>9, <1>12, <2>4
    <3>2. x = <<Files[n]>> /\ x # <<EOL>>
      BY <1>9, <2>1, <2>2, <2>3, <3>1
    <3>3. a.pc = "answer" /\ a.line = <<Files[n]>>
      BY <1>3, <1>4, <1>12, <2>4, <3>2, ConcatEmptySeq
    <3>4. /\ n = Asked' /\ n >= 1 /\ app'["client"].pc = "answer" /\ ~ sock'["client"].eof
          /\ a.line = app'["client"].line /\ Len(a.line) \in {0, 1}
          /\ Len(hist'.got["client"]) = AnswerEnd[n - 1] + 1
          /\ app'["client"].received = Cardinality(There(n - 1))
      BY <1>3, <1>5, <1>8, <1>9, <1>12, <2>2, <3>1, <3>3
    <3>5. Asking'
      BY ONLY <3>3, <3>4, AskingAnswer
    <3>. QED  BY <1>6, <1>7, <3>5 DEF Protocol
  <2>5. CASE app["client"].line # <<>>
    <3>1. g = E + 1 /\ app["client"].line = <<Files[n]>>
      BY <1>8, <1>9, <1>12, <2>5
    <3>2. x = <<EOL>>
      <4>1. g + 1 = E + 2
        BY <1>8, <3>1
      <4>. QED  BY <2>1, <2>2, <2>3, <4>1
    <3>3. a.pc = "parse" /\ a.line = <<Files[n]>>
      BY <1>3, <3>1, <3>2
    <3>4. Len(hist'.got["client"]) = E + 2
      BY <1>8, <2>2, <3>1
    <3>5. /\ n = Asked' /\ n >= 1 /\ app'["client"].pc = "parse" /\ ~ sock'["client"].eof
          /\ a.line = app'["client"].line /\ Len(a.line) \in {0, 1}
          /\ app'["client"].received = Cardinality(There(n - 1))
      BY <1>3, <1>5, <1>8, <1>9, <1>12, <2>2, <3>3
    <3>6. Len(hist'.got["client"]) = AnswerEnd[n - 1] + 2
      BY <3>4
    <3>7. Asking'
      BY ONLY <3>3, <3>5, <3>6, AskingParse
    <3>. QED  BY <1>6, <1>7, <3>7 DEF Protocol
  <2>. QED  BY <2>4, <2>5
<1>. QED  BY <1>10, <1>11, <1>12

(* A step of an application that touches no queue.                         *)
LEMMA AloneBase ==
  ASSUME Base, NEW s \in Side, app[s].pc \notin Ending,
         s = Server /\ app[s].pc = "accept" => tr[s].pc # "none",
         NEW a \in AppRecord, a.pc \notin Ending \cup {"start"}, app' = [app EXCEPT ![s] = a],
         tcp' \in [Side -> {"unconnected", "connected", "closed"}],
         UNCHANGED <<tr, rv, sock, q, net, waiting, signal, hist>>
  PROVE  Base' /\ app'[s] = a /\ app'[Peer(s)] = app[Peer(s)]
<1>1. Control /\ Types
  BY DEF Base, Control
<1>2. waiting' = waiting /\ hist' \in HistRecord /\ UNCHANGED <<tr, rv, sock, q, net, signal>>
  BY <1>1 DEF Types
<1>3. Control'
  BY <1>1, <1>2, AloneControl
<1>4. app[s].pc # "closed" /\ a.pc # "closed"
  BY DEF Ending
<1>5. ClosesNone
  BY <1>1, <1>4, ClosesNoneIf
<1>6. Still
  BY <1>5 DEF Still, ClosesNone
<1>7. app'[s] = a /\ app'[Peer(s)] = app[Peer(s)]
  BY <1>1, OtherSide DEF Types
<1>. QED  BY <1>3, <1>6, <1>7, StillBase

(* A step of the client that writes nothing, and one of the server: what   *)
(* is left to show of it.                                                  *)
LEMMA ClientReads ==
  ASSUME Types, Protocol, app'["server"] = app["server"], Asked' = Asked,
         hist'.got["server"] = hist.got["server"], hist'.written = hist.written,
         sock'["server"].eof = sock["server"].eof, hist'.trouble = hist.trouble,
         hist'.unread = hist.unread, Asking'
  PROVE  Protocol'
<1>1. Asked \in Nat
  BY Sides DEF Types, AppRecord, Asked
<1>2. RequestsWritten' /\ AnswersWritten'
  BY WrittenStays DEF Protocol
<1>3. PICK k \in 0 .. Len(Files) : Serving(k)
  BY DEF Protocol
<1>4. Serving(k)'
  BY <1>1, <1>3, ServingStays
<1>. QED  BY <1>2, <1>4 DEF Protocol

(* A step of the server that writes nothing: what is left to show of it.   *)
LEMMA ServerReads ==
  ASSUME Protocol, app'["client"] = app["client"],
         hist'.got["client"] = hist.got["client"], hist'.written = hist.written,
         sock'["client"].eof = sock["client"].eof, hist'.trouble = hist.trouble,
         hist.unread => hist'.unread, NEW k \in 0 .. Len(Files), Serving(k)'
  PROVE  Protocol'
<1>1. Asked' = Asked
  BY DEF Asked
<1>2. RequestsWritten' /\ AnswersWritten'
  BY <1>1, WrittenStays DEF Protocol
<1>3. Asking'
  BY AskingStays DEF Protocol
<1>. QED  BY <1>2, <1>3 DEF Protocol

(* The steps of the client.                                                *)
LEMMA ConnectKeeps ==
  ASSUME Base, Protocol, Connect
  PROVE  Base' /\ Protocol'
<1>. USE Sides
<1>0. /\ Types /\ Control' /\ app["client"].pc = "start" /\ app["client"] \in AppRecord
      /\ tr \in [Side -> TransportRecord]
  BY ConnectControl DEF Base, Control, Types, Connect
<1>. PICK a : a = [app["client"] EXCEPT !.pc = "connecting"]
  OBVIOUS
<1>1. /\ a \in AppRecord /\ a.pc = "connecting" /\ a.line = app["client"].line
      /\ a.asked = app["client"].asked /\ a.received = app["client"].received
  BY <1>0 DEF AppRecord
<1>2. /\ app' = [app EXCEPT !["client"] = a] /\ tr' = [tr EXCEPT !["client"].pc = "syn"]
      /\ UNCHANGED <<sock, q, net, hist>>
  BY DEF Connect, At
<1>3. app'["client"] = a /\ app'["server"] = app["server"]
  BY <1>0, <1>2 DEF Types
<1>4. ClosesNone
  BY <1>0, <1>1, <1>2, ClosesNoneIf
<1>5. \A t \in Side : /\ tr'[t].fin_sent = tr[t].fin_sent /\ tr'[t].fin_received = tr[t].fin_received
                      /\ tr'[t].pc \in {"final", "ended"} => tr[t].pc \in {"final", "ended"}
  BY <1>0, <1>2 DEF TransportRecord
<1>6. Still
  BY <1>2, <1>4, <1>5 DEF Still, ClosesNone
<1>7. Base'
  BY <1>0, <1>6, StillBase
<1>8. Asked' = Asked
  BY <1>1, <1>3 DEF Asked
<1>9. Asking'
  <2>1. Asking
    BY DEF Protocol
  <2>. QED  BY <1>0, <1>1, <1>2, <1>3, <1>8, <2>1 DEF Asking, Ending
<1>10. Protocol'
  BY <1>0, <1>2, <1>3, <1>8, <1>9, ClientReads
<1>. QED  BY <1>7, <1>10

(* myconnect() returns, and main() goes on or exits.                       *)
LEMMA ConnectReturnsKeeps ==
  ASSUME Base, Protocol, ConnectReturns
  PROVE  Base' /\ Protocol'
<1>. USE Sides
<1>0. Types /\ app["client"].pc = "connecting" /\ app["client"] \in AppRecord
  BY DEF Base, Control, Types, ConnectReturns
<1>. PICK p : p \in {"ask", "exited"} /\ app' = [app EXCEPT !["client"].pc = p]
  BY DEF ConnectReturns, At
<1>. PICK a : a = [app["client"] EXCEPT !.pc = p]
  OBVIOUS
<1>1. /\ a \in AppRecord /\ a.pc = p /\ a.line = app["client"].line
      /\ a.asked = app["client"].asked /\ a.received = app["client"].received
  BY <1>0 DEF AppRecord
<1>2. /\ app' = [app EXCEPT !["client"] = a]
      /\ UNCHANGED <<tr, rv, sock, q, net, waiting, signal, hist>>
      /\ tcp' \in [Side -> {"unconnected", "connected", "closed"}]
  BY <1>0 DEF ConnectReturns, Types
<1>3. app["client"].pc \notin Ending /\ a.pc \notin Ending \cup {"start"}
  BY <1>0, <1>1 DEF Ending
<1>4. Base' /\ app'["client"] = a /\ app'["server"] = app["server"]
  BY <1>0, <1>1, <1>2, <1>3, AloneBase
<1>5. Asked' = Asked
  BY <1>1, <1>4 DEF Asked
<1>6. Asking'
  <2>1. Asking
    BY DEF Protocol
  <2>. QED  BY <1>0, <1>1, <1>2, <1>4, <1>5, <2>1 DEF Asking, Ending
<1>7. Protocol'
  BY <1>0, <1>2, <1>4, <1>5, <1>6, ClientReads
<1>. QED  BY <1>4, <1>7

(* The line says that there is no file, or how long it is.                 *)
LEMMA ParseKeeps ==
  ASSUME Base, Protocol, Parse
  PROVE  Base' /\ Protocol'
<1>. USE Sides
<1>0. Types /\ app["client"].pc = "parse" /\ app["client"] \in AppRecord /\ Asking
  BY DEF Base, Control, Types, Parse, Calling, Protocol
<1>. PICK n, line, c, l :
       /\ n = Asked /\ line = app["client"].line
       /\ c = (IF line = <<>> THEN "close" ELSE IF line = <<-1>> THEN "ask" ELSE "file")
       /\ l = (IF line = <<>> THEN app["client"].left ELSE line[1])
  OBVIOUS
<1>1. /\ n >= 1 /\ n \in Nat /\ n <= Len(Files)
      /\ \/ line = <<>> /\ sock["client"].eof /\ (hist.trouble \/ hist.unread)
         \/ /\ line = <<Files[n]>>
            /\ IF sock["client"].eof THEN hist.trouble
               ELSE /\ Len(hist.got["client"]) = AnswerEnd[n - 1] + 2
                    /\ app["client"].received = Cardinality(There(n - 1))
      /\ Len(line) \in {0, 1}
  <2>1. n \in 0 .. Len(Files)
    BY <1>0 DEF AppRecord, Asked
  <2>2. Len(Files) \in Nat
    BY FilesFacts
  <2>3. /\ n >= 1
        /\ \/ line = <<>> /\ sock["client"].eof /\ (hist.trouble \/ hist.unread)
           \/ /\ line = <<Files[n]>>
              /\ IF sock["client"].eof THEN hist.trouble
                 ELSE /\ Len(hist.got["client"]) = AnswerEnd[n - 1] + 2
                      /\ app["client"].received = Cardinality(There(n - 1))
        /\ Len(line) \in {0, 1}
    BY <1>0 DEF Asking
  <2>. QED  BY <2>1, <2>2, <2>3
<1>2. n \in 1 .. Len(Files) /\ Files[n] \in Int /\ Files[n] >= -1 /\ Long(n) \in Nat
      /\ n - 1 \in Nat /\ (n - 1) + 1 = n
      /\ AnswerEnd[n] = AnswerEnd[n - 1] + Long(n) /\ AnswerEnd[n - 1] \in Nat
  <2>1. n \in 1 .. Len(Files) /\ n - 1 \in 0 .. Len(Files) /\ n - 1 \in Nat /\ (n - 1) + 1 = n
    BY <1>1, FilesFacts
  <2>. QED  BY <2>1, FilesFacts, AnswerEnds
<1>3. c \in {"close", "ask", "file"} /\ l \in Int
  BY <1>0, <1>1, <1>2 DEF AppRecord
<1>. PICK a : a = [app["client"] EXCEPT !.pc = c, !.left = l]
  OBVIOUS
<1>4. /\ a \in AppRecord /\ a.pc = c /\ a.left = l /\ a.line = line
      /\ a.asked = app["client"].asked /\ a.received = app["client"].received
  BY ONLY <1>0, <1>3, a = [app["client"] EXCEPT !.pc = c, !.left = l], line = app["client"].line
  DEF AppRecord
<1>5. /\ app' = [app EXCEPT !["client"] = a]
      /\ UNCHANGED <<tr, rv, sock, q, net, tcp, waiting, signal, hist>>
  BY DEF Parse
<1>6. /\ app["client"].pc \notin Ending /\ a.pc \notin Ending \cup {"start"}
      /\ tcp' \in [Side -> {"unconnected", "connected", "closed"}]
  BY <1>0, <1>3, <1>4, <1>5 DEF Ending, Types
<1>7. Base' /\ app'["client"] = a /\ app'["server"] = app["server"]
  BY <1>4, <1>5, <1>6, AloneBase
<1>8. Asked' = Asked
  BY <1>4, <1>7 DEF Asked
<1>9. Asking'
  <2>1. n = Asked' /\ app'["client"].pc = c /\ app'["client"].line = line
        /\ app'["client"].left = l /\ app'["client"].received = app["client"].received
        /\ Len(app'["client"].line) \in {0, 1} /\ UNCHANGED <<sock, hist>>
    BY <1>1, <1>4, <1>5, <1>7, <1>8
  <2>2. CASE line = <<>>
    <3>1. c = "close" /\ sock["client"].eof /\ (hist.trouble \/ hist.unread)
      BY <1>1, <2>2
    <3>. QED  BY <2>1, <3>1, AskingClose
  <2>3. CASE line # <<>>
    <3>1. line = <<Files[n]>> /\ l = Files[n]
      BY <1>1, <2>3
    <3>2. IF sock["client"].eof THEN hist.trouble
          ELSE /\ Len(hist.got["client"]) = AnswerEnd[n - 1] + 2
               /\ app["client"].received = Cardinality(There(n - 1))
      BY <1>1, <2>3
    <3>3. CASE Files[n] = -1
      <4>1. c = "ask"
        BY <2>3, <3>1, <3>3
      <4>2. AnswerEnd[n] = AnswerEnd[n - 1] + 2 /\ There(n) = There(n - 1)
        BY <1>2, <3>3, ThereFacts DEF Long
      <4>. QED  BY <2>1, <3>2, <4>1, <4>2, AskingAsk
    <3>4. CASE Files[n] # -1
      <4>1. c = "file"
        <5>1. line # <<-1>>
          BY <3>1, <3>4
        <5>. QED  BY <2>3, <5>1
      <4>2. AnswerEnd[n] - l = AnswerEnd[n - 1] + 2 /\ l \in 0 .. Files[n]
        BY <1>2, <3>1, <3>4 DEF Long
      <4>. QED  BY <1>1, <2>1, <3>2, <3>4, <4>1, <4>2, AskingFile
    <3>. QED  BY <3>3, <3>4
  <2>. QED  BY <2>2, <2>3
<1>10. Protocol'
  BY <1>0, <1>5, <1>7, <1>8, <1>9, ClientReads
<1>. QED  BY <1>7, <1>10

(* What the client asks: two bytes behind what it wrote, of which none is  *)
(* there before.                                                           *)
LEMMA AskKeeps ==
  ASSUME Base, Protocol, Ask
  PROVE  Base' /\ Protocol'
<1>. USE Sides
<1>0. Types /\ app["client"].pc = "ask" /\ app["client"] \in AppRecord /\ Asking
  BY DEF Base, Control, Types, Ask, Calling, Protocol
<1>. PICK n : n = Asked
  OBVIOUS
<1>1. n \in Nat /\ n <= Len(Files) /\ Len(Files) \in Nat
  <2>1. n \in 0 .. Len(Files)
    BY <1>0 DEF AppRecord, Asked
  <2>. QED  BY <2>1, FilesFacts
<1>2. /\ IF sock["client"].eof THEN hist.trouble
         ELSE /\ Len(hist.got["client"]) = AnswerEnd[n]
              /\ app["client"].received = Cardinality(There(n))
      /\ Len(app["client"].line) \in {0, 1}
  BY <1>0 DEF Asking
<1>3. CASE app["client"].asked = Len(Files)
  <2>. PICK a : a = [app["client"] EXCEPT !.pc = "close"]
    OBVIOUS
  <2>1. /\ a \in AppRecord /\ a.pc = "close" /\ a.line = app["client"].line
        /\ a.asked = app["client"].asked /\ a.received = app["client"].received
    BY <1>0 DEF AppRecord
  <2>2. /\ app' = [app EXCEPT !["client"] = a]
        /\ UNCHANGED <<tr, rv, sock, q, net, tcp, waiting, signal, hist>>
    BY <1>3 DEF Ask, At
  <2>3. /\ app["client"].pc \notin Ending /\ a.pc \notin Ending \cup {"start"}
        /\ tcp' \in [Side -> {"unconnected", "connected", "closed"}]
    BY <1>0, <2>1, <2>2 DEF Ending, Types
  <2>4. Base' /\ app'["client"] = a /\ app'["server"] = app["server"]
    BY <1>0, <2>1, <2>2, <2>3, AloneBase
  <2>5. Asked' = Asked /\ n = Len(Files)
    BY <1>3, <2>1, <2>4 DEF Asked
  <2>6. Asking'
    BY <1>2, <2>1, <2>2, <2>4, <2>5, AskingClose
  <2>. QED  BY <1>0, <2>2, <2>4, <2>5, <2>6, ClientReads
<1>4. CASE app["client"].asked # Len(Files)
  <2>. PICK m : m = n + 1
    OBVIOUS
  <2>1. m \in 1 .. Len(Files) /\ m \in 0 .. Len(Files) /\ m - 1 = n /\ m \in Nat /\ m >= 1
        /\ app["client"].asked + 1 = m
    BY <1>1, <1>4 DEF Asked
  <2>. PICK a, buf : /\ a = [app["client"] EXCEPT !.pc = "answer", !.asked = m, !.line = <<>>]
                     /\ buf = <<m, EOL>>
    OBVIOUS
  <2>2. /\ a \in AppRecord /\ a.pc = "answer" /\ a.line = <<>> /\ a.asked = m
        /\ a.received = app["client"].received
    BY ONLY <1>0, <2>1, NoBytes, a = [app["client"] EXCEPT !.pc = "answer", !.asked = m, !.line = <<>>]
    DEF AppRecord
  <2>3. buf \in Seq(Int) /\ Len(buf) = 2 /\ buf[1] = m /\ buf[2] = EOL
    BY <2>1 DEF EOL
  <2>4. app' = [app EXCEPT !["client"] = a] /\ Write("client", buf)
    BY <1>4, <2>1 DEF Ask, Line
  <2>5. app["client"].pc \notin Ending \cup {"accept"} /\ a.pc \notin Ending \cup {"start"}
    BY <1>0, <2>2 DEF Ending
  <2>6. Base'
    BY ONLY Base, <2>2, <2>3, <2>4, <2>5, WriteBase, Sides
  <2>7. app'["client"] = a /\ app'["server"] = app["server"] /\ Asked' = m
    BY <1>0, <2>2, <2>4 DEF Types, Asked
  <2>8. /\ hist'.trouble = hist.trouble /\ hist'.unread = hist.unread /\ hist'.got = hist.got
        /\ hist'.written["client"] = hist.written["client"] \o buf
        /\ hist'.written["server"] = hist.written["server"] /\ sock' = sock
    BY ONLY <1>0, <2>3, <2>4, WriteShape, Sides
  <2>9. RequestsWritten'
    <3>. PICK w, v : w = hist.written["client"] /\ v = hist'.written["client"]
      OBVIOUS
    <3>1. /\ w \in Seq(Int) /\ Len(w) = 2 * n
          /\ \A i \in 1 .. n : w[2 * i - 1] = i /\ w[2 * i] = EOL
      BY <1>0 DEF Types, HistRecord, Protocol, RequestsWritten
    <3>2. /\ Len(v) = Len(w) + Len(buf) /\ \A i \in 1 .. Len(w) : v[i] = w[i]
          /\ \A i \in Len(w) + 1 .. Len(w) + Len(buf) : v[i] = buf[i - Len(w)]
      <4>1. v = w \o buf
        BY <2>8
      <4>. QED  BY SMTT(30), <2>3, <3>1, <4>1, ConcatProperties
    <3>. PICK L, B : L = Len(w) /\ B = Len(buf)
      OBVIOUS
    <3>5. L = 2 * n /\ B = 2
      BY <2>3, <3>1
    <3>3. Len(v) = 2 * m
      BY <1>1, <3>2, <3>5, m = n + 1
    <3>4. ASSUME NEW i \in 1 .. m PROVE v[2 * i - 1] = i /\ v[2 * i] = EOL
      <4>1. CASE i = m
        <5>1. /\ 2 * i - 1 \in L + 1 .. L + B /\ (2 * i - 1) - L = 1
              /\ 2 * i \in L + 1 .. L + B /\ 2 * i - L = 2
          BY ONLY <1>1, <3>5, <4>1, m = n + 1
        <5>2. v[2 * i - 1] = buf[1] /\ v[2 * i] = buf[2]
          BY <3>2, <5>1
        <5>. QED  BY <2>3, <4>1, <5>2
      <4>2. CASE i # m
        <5>1. i \in 1 .. n /\ 2 * i - 1 \in 1 .. L /\ 2 * i \in 1 .. L
          BY ONLY <1>1, <3>5, <4>2, m = n + 1, i \in 1 .. m
        <5>2. v[2 * i - 1] = w[2 * i - 1] /\ v[2 * i] = w[2 * i]
          BY <3>2, <5>1
        <5>. QED  BY <3>1, <5>1, <5>2
      <4>. QED  BY <4>1, <4>2
    <3>. QED  BY <2>7, <3>3, <3>4 DEF RequestsWritten
  <2>10. AnswersWritten'
    BY <2>8 DEF Protocol, AnswersWritten
  <2>11. Asking'
    <3>1. n \in 0 .. Len(Files)
      BY <1>1
    <3>2. AnswerEnd[n] \in Nat /\ Len(<<>>) = 0
      BY <3>1, AnswerEnds
    <3>3. /\ m = Asked' /\ m >= 1 /\ app'["client"].pc = "answer" /\ app'["client"].line = <<>>
          /\ Len(<<>>) \in {0, 1}
          /\ IF sock'["client"].eof THEN hist'.trouble
             ELSE /\ Len(hist'.got["client"]) = AnswerEnd[m - 1] + Len(<<>>)
                  /\ app'["client"].received = Cardinality(There(m - 1))
      BY <1>2, <2>1, <2>2, <2>7, <2>8, <3>2
    <3>. QED  BY ONLY <3>3, AskingAnswer
  <2>12. PICK k \in 0 .. Len(Files) : Serving(k)
    BY DEF Protocol
  <2>13. Serving(k)'
    <3>1. Asked \in Nat /\ Asked' \in Nat /\ Asked <= Asked'
      BY <1>1, <2>1, <2>7
    <3>. QED  BY <2>7, <2>8, <2>12, <3>1, ServingStays
  <2>. QED  BY <2>6, <2>9, <2>10, <2>11, <2>13 DEF Protocol
<1>. QED  BY <1>3, <1>4

(* The client reads bytes of a file, until it has all of it or the         *)
(* connection ends.                                                        *)
LEMMA ReadFileKeeps ==
  ASSUME Base, Protocol, ReadFile
  PROVE  Base' /\ Protocol'
<1>. USE Sides
<1>0. Types /\ app["client"].pc = "file" /\ app["client"] \in AppRecord /\ Asking
  BY DEF Base, Control, Types, ReadFile, Calling, Protocol
<1>. PICK n, left : n = Asked /\ left = app["client"].left
  OBVIOUS
<1>1. /\ n \in 1 .. Len(Files) /\ Files[n] \in Int /\ Files[n] >= -1 /\ Long(n) \in Nat
      /\ n - 1 \in Nat /\ (n - 1) + 1 = n /\ n >= 1
      /\ AnswerEnd[n] = AnswerEnd[n - 1] + Long(n) /\ AnswerEnd[n - 1] \in Nat /\ AnswerEnd[n] \in Nat
  <2>1. n \in 0 .. Len(Files) /\ n >= 1
    BY <1>0 DEF AppRecord, Asked, Asking
  <2>2. n \in 1 .. Len(Files) /\ n - 1 \in 0 .. Len(Files) /\ n - 1 \in Nat /\ (n - 1) + 1 = n
        /\ n \in 0 .. Len(Files)
    BY <2>1, FilesFacts
  <2>. QED  BY <2>1, <2>2, FilesFacts, AnswerEnds
<1>2. /\ Files[n] # -1 /\ left \in 0 .. Files[n] /\ Len(app["client"].line) \in {0, 1}
      /\ IF sock["client"].eof THEN hist.trouble
         ELSE /\ Len(hist.got["client"]) = AnswerEnd[n] - left
              /\ app["client"].received = Cardinality(There(n - 1))
  BY <1>0 DEF Asking
<1>3. CASE left = 0 /\ UNCHANGED <<tr, rv, sock, q, net, tcp, waiting, signal, hist>>
           /\ app' = [app EXCEPT !["client"].pc = "ask", !["client"].received = @ + 1]
  <2>. PICK a, r : /\ r = app["client"].received + 1
                   /\ a = [app["client"] EXCEPT !.pc = "ask", !.received = r]
    OBVIOUS
  <2>1. r \in Nat
    BY <1>0 DEF AppRecord
  <2>2. /\ a \in AppRecord /\ a.pc = "ask" /\ a.line = app["client"].line
        /\ a.asked = app["client"].asked /\ a.received = r
    BY ONLY <1>0, <2>1, a = [app["client"] EXCEPT !.pc = "ask", !.received = r] DEF AppRecord
  <2>3. app' = [app EXCEPT !["client"] = a]
    BY <1>3
  <2>4. /\ app["client"].pc \notin Ending /\ a.pc \notin Ending \cup {"start"}
        /\ tcp' \in [Side -> {"unconnected", "connected", "closed"}]
        /\ UNCHANGED <<tr, rv, sock, q, net, waiting, signal, hist>>
    BY <1>0, <1>3, <2>2 DEF Ending, Types
  <2>5. Base' /\ app'["client"] = a /\ app'["server"] = app["server"]
    BY <1>0, <2>2, <2>3, <2>4, AloneBase
  <2>6. Asked' = Asked
    BY <2>2, <2>5 DEF Asked
  <2>7. Asking'
    <3>1. Cardinality(There(n)) = Cardinality(There(n - 1)) + 1
      BY <1>1, <1>2, ThereFacts
    <3>. PICK e : e = AnswerEnd[n]
      OBVIOUS
    <3>2. e - left = e
      BY <1>1, <1>3
    <3>3. IF sock["client"].eof THEN hist.trouble
          ELSE Len(hist.got["client"]) = e /\ r = Cardinality(There(n))
      BY <1>2, <3>1, <3>2
    <3>. QED  BY <1>2, <2>2, <2>4, <2>5, <2>6, <3>3, AskingAsk
  <2>. QED  BY <1>0, <2>4, <2>5, <2>6, <2>7, ClientReads
<1>4. CASE ReadWaits("client")
  <2>1. app["client"].pc \notin Ending \cup {"accept", "start"}
    BY <1>0 DEF Ending
  <2>. QED  BY <1>4, <2>1, ReadWaitsKeeps
<1>. PICK max : max = IF left < LineSize THEN left ELSE LineSize
  OBVIOUS
<1>. PICK x : x = Received("client", max)
  OBVIOUS
<1>5. CASE /\ left # 0 /\ Read("client", max)
           /\ app' = [app EXCEPT !["client"].left = @ - Len(x),
                                 !["client"].pc = IF x = <<>> THEN "close" ELSE @]
  <2>1. max \in Nat \ {0} /\ max <= left
    BY SMTT(30), <1>1, <1>2, <1>5, MysockAssumption
  <2>2. x \in Seq(Int) /\ Len(x) \in Nat /\ Len(x) <= max
    BY <1>0, <1>5, <2>1, ReadShape
  <2>. PICK c, l : c = (IF x = <<>> THEN "close" ELSE "file") /\ l = left - Len(x)
    OBVIOUS
  <2>3. c \in {"close", "file"} /\ l \in 0 .. Files[n] /\ l \in Int
    <3>. PICK d, f : d = Len(x) /\ f = Files[n]
      OBVIOUS
    <3>1. d \in Nat /\ d <= max /\ max \in Nat /\ max <= left /\ f \in Int /\ left \in 0 .. f
      BY <1>1, <1>2, <2>1, <2>2
    <3>2. l \in 0 .. f /\ l \in Int
      BY ONLY <3>1, l = left - Len(x), d = Len(x)
    <3>. QED  BY <3>2
  <2>. PICK a : a = [app["client"] EXCEPT !.left = l, !.pc = c]
    OBVIOUS
  <2>4. /\ a \in AppRecord /\ a.pc = c /\ a.left = l /\ a.line = app["client"].line
        /\ a.asked = app["client"].asked /\ a.received = app["client"].received
    BY ONLY <1>0, <2>3, a = [app["client"] EXCEPT !.left = l, !.pc = c] DEF AppRecord
  <2>5. app' = [app EXCEPT !["client"] = a]
    BY <1>0, <1>5
  <2>6. app["client"].pc \notin Ending \cup {"accept"} /\ a.pc \notin Ending \cup {"start"}
    BY <1>0, <2>3, <2>4 DEF Ending
  <2>7. /\ Base' /\ ReadOutcome("client", x) /\ app'["client"] = a
        /\ app'[Peer("client")] = app[Peer("client")]
    <3>1. Read("client", max) /\ "client" \in Side
      BY <1>5
    <3>. QED  BY ONLY <2>1, <2>4, <2>5, <2>6, <3>1, ReadGives, Base, x = Received("client", max)
  <2>8. app'["server"] = app["server"] /\ Asked' = Asked
    BY <2>4, <2>7 DEF Asked
  <2>9. /\ hist'.trouble = hist.trouble /\ hist'.unread = hist.unread /\ hist'.written = hist.written
        /\ hist'.got["server"] = hist.got["server"] /\ sock'["server"].eof = sock["server"].eof
    BY <2>7 DEF ReadOutcome
  <2>10. /\ n = Asked' /\ n >= 1 /\ app'["client"].pc = c /\ app'["client"].left = l
         /\ Len(app'["client"].line) \in {0, 1} /\ app'["client"].received = app["client"].received
    BY <1>1, <1>2, <2>4, <2>7, <2>8
  <2>11. Asking'
    <3>1. CASE x = <<>>
      <4>1. sock'["client"].eof /\ (hist.trouble \/ hist.unread)
        <5>1. /\ sock'["client"].eof
              /\ sock["client"].eof \/ hist.trouble \/ app["server"].pc \in Ending
          BY <2>7, <3>1 DEF ReadOutcome
        <5>2. app["client"].pc \notin Ending
          BY <2>6
        <5>. QED  BY <1>2, <5>1, <5>2, ServerBrokeOff
      <4>2. c = "close"
        BY <3>1
      <4>. QED  BY <2>9, <2>10, <4>1, <4>2, AskingClose
    <3>2. CASE x # <<>>
      <4>1. /\ ~ sock["client"].eof /\ ~ sock'["client"].eof
            /\ Len(hist'.got["client"]) = Len(hist.got["client"]) + Len(x)
        BY <2>7, <3>2 DEF ReadOutcome
      <4>2. c = "file"
        BY <3>2
      <4>3. Len(hist'.got["client"]) = AnswerEnd[n] - l
        <5>. PICK g, h, d, e : /\ g = Len(hist.got["client"]) /\ h = Len(hist'.got["client"])
                               /\ d = Len(x) /\ e = AnswerEnd[n]
          OBVIOUS
        <5>1. g = e - left /\ h = g + d /\ e \in Nat /\ d \in Nat /\ left \in Int
          BY <1>1, <1>2, <2>2, <4>1
        <5>2. h = e - l
          BY ONLY <5>1, l = left - Len(x), d = Len(x)
        <5>. QED  BY <5>2
      <4>. QED  BY <1>2, <2>3, <2>10, <4>1, <4>2, <4>3, AskingFile
    <3>. QED  BY <3>1, <3>2
  <2>. QED  BY <1>0, <2>7, <2>8, <2>9, <2>11, ClientReads
<1>6. \/ left = 0 /\ UNCHANGED <<tr, rv, sock, q, net, tcp, waiting, signal, hist>>
         /\ app' = [app EXCEPT !["client"].pc = "ask", !["client"].received = @ + 1]
      \/ ReadWaits("client")
      \/ /\ left # 0 /\ Read("client", max)
         /\ app' = [app EXCEPT !["client"].left = @ - Len(x),
                               !["client"].pc = IF x = <<>> THEN "close" ELSE @]
  BY DEF ReadFile
<1>. QED  BY <1>3, <1>4, <1>5, <1>6

(* The server, where it is after a step.                                   *)
LEMMA ServingLine ==
  ASSUME NEW k, app'["server"].pc = "line", Len(hist'.written["server"]) = AnswerEnd[k],
         NEW line, line = app'["server"].line, Len(line) \in {0, 1},
         IF sock'["server"].eof THEN line = <<>> /\ hist'.trouble
         ELSE /\ Len(hist'.got["server"]) = 2 * k + Len(line)
              /\ line = <<>> \/ line = <<k + 1>>
  PROVE  Serving(k)'
BY DEF Serving, Ending

(* The server has the line of a request, or the end of file.               *)
LEMMA ServingProcess ==
  ASSUME NEW k, app'["server"].pc = "process", Len(hist'.written["server"]) = AnswerEnd[k],
         NEW line, line = app'["server"].line, Len(line) \in {0, 1},
         \/ line = <<>> /\ sock'["server"].eof
         \/ /\ line = <<k + 1>> /\ k + 1 <= Asked'
            /\ IF sock'["server"].eof THEN hist'.trouble
               ELSE Len(hist'.got["server"]) = 2 * k + 2
  PROVE  Serving(k)'
<1>1. line = <<k + 1>> => line # <<>>
  OBVIOUS
<1>. QED  BY <1>1 DEF Serving, Ending

(* The server sends a file.                                                *)
LEMMA ServingBody ==
  ASSUME NEW k, app'["server"].pc = "body", k < Len(Files),
         NEW line, line = app'["server"].line, Len(line) \in {0, 1},
         line = <<k + 1>>, k + 1 <= Asked',
         IF sock'["server"].eof THEN hist'.trouble ELSE Len(hist'.got["server"]) = 2 * k + 2,
         Files[k + 1] # -1, NEW left, left = app'["server"].left, left \in 0 .. Files[k + 1],
         NEW wrote, wrote = Len(hist'.written["server"]),
         wrote = AnswerEnd[k] + 2 + Files[k + 1] - left,
         AnswerEnd[k] + 2 <= wrote, wrote <= AnswerEnd[k + 1]
  PROVE  Serving(k)'
BY DEF Serving, Ending

(* The server leaves its loop.                                             *)
LEMMA ServingClose ==
  ASSUME NEW k, app'["server"].pc = "close", Len(app'["server"].line) \in {0, 1},
         sock'["server"].eof \/ hist'.unread, NEW wrote, wrote = Len(hist'.written["server"]),
         \/ wrote = AnswerEnd[k]
         \/ k < Len(Files) /\ AnswerEnd[k] + 2 <= wrote /\ wrote <= AnswerEnd[k + 1]
  PROVE  Serving(k)'
BY DEF Serving, Ending

(* The steps of the server.                                                *)
LEMMA AcceptKeeps ==
  ASSUME Base, Protocol, Accept
  PROVE  Base' /\ Protocol'
<1>. USE Sides
<1>0. /\ Types /\ app["server"].pc = "accept" /\ app["server"] \in AppRecord
      /\ tr["server"].pc # "none"
  BY DEF Base, Control, Types, Accept
<1>. PICK a : a = [app["server"] EXCEPT !.pc = "line"]
  OBVIOUS
<1>1. a \in AppRecord /\ a.pc = "line" /\ a.line = app["server"].line
  BY <1>0 DEF AppRecord
<1>2. /\ app' = [app EXCEPT !["server"] = a]
      /\ UNCHANGED <<tr, rv, sock, q, net, waiting, signal, hist>>
      /\ tcp' \in [Side -> {"unconnected", "connected", "closed"}]
  BY <1>0 DEF Accept, At, Types
<1>3. app["server"].pc \notin Ending /\ a.pc \notin Ending \cup {"start"}
  BY <1>0, <1>1 DEF Ending
<1>4. Base' /\ app'["server"] = a /\ app'["client"] = app["client"]
  BY <1>0, <1>1, <1>2, <1>3, AloneBase
<1>5. PICK k \in 0 .. Len(Files) : Serving(k)
  BY DEF Protocol
<1>6. /\ Len(hist.written["server"]) = AnswerEnd[k] /\ app["server"].line = <<>>
      /\ ~ sock["server"].eof /\ Len(hist.got["server"]) = 0 /\ k = 0 /\ Len(<<>>) = 0
  BY <1>0, <1>5 DEF Serving
<1>7. /\ app'["server"].pc = "line" /\ Len(hist'.written["server"]) = AnswerEnd[k]
      /\ app'["server"].line = <<>> /\ Len(<<>>) \in {0, 1}
      /\ ~ sock'["server"].eof /\ Len(hist'.got["server"]) = 2 * k + Len(<<>>)
  <2>1. 2 * k + Len(<<>>) = 0
    BY ONLY <1>6
  <2>. QED  BY <1>1, <1>2, <1>4, <1>6, <2>1
<1>8. Serving(k)'
  BY ONLY <1>7, ServingLine
<1>. QED  BY <1>2, <1>4, <1>5, <1>8, ServerReads

(* A request is two bytes, so that half of one is what was read of a       *)
(* connection that broke, or more of it is to come.                        *)
LEMMA GetRequestKeeps ==
  ASSUME Base, Protocol, GetRequest
  PROVE  Base' /\ Protocol'
<1>. USE Sides
<1>0. /\ Types /\ app["server"].pc = "line" /\ GetLine("server", "process")
      /\ RequestsWritten
  BY DEF Base, Control, Protocol, GetRequest, Calling
<1>1. "server" \in Side /\ app["server"].pc \notin Ending \cup {"accept", "start"}
      /\ "process" \in {"parse", "process"}
  BY <1>0 DEF Ending
<1>2. Base' /\ (Protocol' \/ \E a \in AppRecord : \E x : LineOutcome("server", "process", a, x))
  BY ONLY <1>0, <1>1, Base, Protocol, GetLineGives
<1>. SUFFICES ASSUME NEW a \in AppRecord, NEW x, LineOutcome("server", "process", a, x)
              PROVE  Protocol'
  BY <1>2
<1>3. /\ app'["server"] = a /\ app'["client"] = app["client"] /\ ReadOutcome("server", x)
      /\ Len(x) \in {0, 1}
      /\ x = <<>> \/ x = <<EOL>> => a.pc = "process" /\ a.line = app["server"].line
      /\ ~ (x = <<>> \/ x = <<EOL>>) => a.pc = "line" /\ a.line = app["server"].line \o x
  BY <1>0 DEF LineOutcome
<1>4. /\ hist'.trouble = hist.trouble /\ hist'.unread = hist.unread /\ hist'.written = hist.written
      /\ hist'.got["client"] = hist.got["client"] /\ sock'["client"].eof = sock["client"].eof
      /\ x \in Seq(Int)
  BY <1>3 DEF ReadOutcome
<1>. PICK k \in 0 .. Len(Files) : Serving(k)
  BY DEF Protocol
<1>. SUFFICES Serving(k)'
  BY <1>3, <1>4, ServerReads
<1>. PICK m, g, line, w : /\ m = Asked /\ g = Len(hist.got["server"])
                          /\ line = app["server"].line /\ w = hist.written["client"]
  OBVIOUS
<1>5. /\ m \in Nat /\ k \in Nat /\ Len(w) = 2 * m /\ Asked' = m
      /\ \A i \in 1 .. m : w[2 * i - 1] = i /\ w[2 * i] = EOL
  <2>1. m \in 0 .. Len(Files) /\ Len(Files) \in Nat
    BY <1>0, FilesFacts DEF Types, AppRecord, Asked
  <2>2. Asked' = m
    BY <1>3 DEF Asked
  <2>3. Len(w) = 2 * m /\ \A i \in 1 .. m : w[2 * i - 1] = i /\ w[2 * i] = EOL
    BY <1>0 DEF RequestsWritten
  <2>4. m \in Nat /\ k \in Nat
    BY ONLY <2>1, k \in 0 .. Len(Files)
  <2>. QED  BY <2>2, <2>3, <2>4
<1>6. /\ Len(hist.written["server"]) = AnswerEnd[k] /\ Len(hist'.written["server"]) = AnswerEnd[k]
      /\ IF sock["server"].eof THEN line = <<>> /\ hist.trouble
         ELSE g = 2 * k + Len(line) /\ (line = <<>> \/ line = <<k + 1>>)
  BY <1>0, <1>4 DEF Serving
<1>7. g <= 2 * m /\ g \in Nat
  <2>1. IsPrefix(hist.got["server"], w)
    BY DEF Base, Flow
  <2>2. hist.got["server"] \in Seq(Int) /\ w \in Seq(Int)
    BY <1>0 DEF Types, HistRecord
  <2>3. Len(hist.got["server"]) <= Len(w) /\ Len(hist.got["server"]) \in Nat
    BY <2>1, <2>2, PrefixAt
  <2>. QED  BY <1>5, <2>3
<1>8. Len(<<>>) = 0 /\ Len(<<k + 1>>) = 1 /\ <<k + 1>> # <<>> /\ k + 1 # EOL
  BY <1>5 DEF EOL
<1>9. CASE sock["server"].eof
  <2>1. x = <<>> /\ sock'["server"].eof
    BY <1>3, <1>9 DEF ReadOutcome
  <2>2. app'["server"].pc = "process" /\ app'["server"].line = <<>> /\ sock'["server"].eof
        /\ Len(<<>>) \in {0, 1}
    BY <1>3, <1>6, <1>8, <1>9, <2>1
  <2>. QED  BY ONLY <1>6, <2>2, ServingProcess
<1>10. CASE ~ sock["server"].eof /\ x = <<>>
  <2>1. /\ sock'["server"].eof /\ app'["server"].pc = "process" /\ app'["server"].line = line
        /\ hist.trouble \/ hist.got["server"] = w
    BY <1>3, <1>10 DEF ReadOutcome
  <2>2. CASE line = <<>>
    <3>1. Len(line) \in {0, 1}
      BY <1>8, <2>2
    <3>. QED  BY ONLY <1>6, <2>1, <2>2, <3>1, ServingProcess
  <2>3. CASE line # <<>>
    <3>1. line = <<k + 1>> /\ g = 2 * k + 1 /\ Len(line) \in {0, 1}
      BY <1>6, <1>8, <1>10, <2>3
    <3>2. k + 1 <= m /\ g # 2 * m
      BY ONLY <1>5, <1>7, <3>1
    <3>3. hist'.trouble
      BY <1>4, <1>5, <2>1, <3>2
    <3>4. k + 1 <= Asked'
      BY <1>5, <3>2
    <3>. QED  BY ONLY <1>6, <2>1, <3>1, <3>3, <3>4, ServingProcess
  <2>. QED  BY <2>2, <2>3
<1>11. CASE ~ sock["server"].eof /\ x # <<>>
  <2>1. Len(x) = 1 /\ x = <<x[1]>> /\ x[1] \in Int
    BY <1>3, <1>4, <1>11, OneByte
  <2>2. /\ ~ sock'["server"].eof /\ Len(hist'.got["server"]) = g + 1
        /\ g + 1 <= 2 * m /\ x[1] = w[g + 1]
    BY SMTT(30), <1>3, <1>5, <1>11, <2>1 DEF ReadOutcome
  <2>3. CASE line = <<>>
    <3>1. g = 2 * k
      BY <1>5, <1>6, <1>8, <1>11, <2>3
    <3>2. k + 1 \in 1 .. m /\ g + 1 = 2 * (k + 1) - 1
      BY ONLY <1>5, <2>2, <3>1
    <3>3. w[g + 1] = k + 1
      BY <1>5, <3>2
    <3>4. x = <<k + 1>> /\ x # <<EOL>>
      BY <1>8, <2>1, <2>2, <3>3
    <3>. PICK l : l = app'["server"].line
      OBVIOUS
    <3>5. app'["server"].pc = "line" /\ l = <<k + 1>>
      BY <1>3, <1>4, <1>11, <2>3, <3>4, ConcatEmptySeq
    <3>6. Len(l) = 1 /\ Len(l) \in {0, 1}
      BY <1>8, <3>5
    <3>7. Len(hist'.got["server"]) = 2 * k + Len(l)
      BY <2>2, <3>1, <3>6
    <3>. QED  BY ONLY <1>6, <2>2, <3>5, <3>6, <3>7, ServingLine, l = app'["server"].line
  <2>4. CASE line # <<>>
    <3>1. line = <<k + 1>> /\ g = 2 * k + 1 /\ Len(line) \in {0, 1}
      BY <1>6, <1>8, <1>11, <2>4
    <3>2. k + 1 \in 1 .. m /\ k + 1 <= m /\ g + 1 = 2 * (k + 1) /\ g + 1 = 2 * k + 2
      BY ONLY <1>5, <2>2, <3>1
    <3>3. x = <<EOL>>
      BY <1>5, <2>1, <2>2, <3>2
    <3>4. app'["server"].pc = "process" /\ app'["server"].line = line
      BY <1>3, <3>3
    <3>5. k + 1 <= Asked' /\ Len(hist'.got["server"]) = 2 * k + 2
      BY <1>5, <2>2, <3>2
    <3>. QED  BY ONLY <1>6, <2>2, <3>1, <3>4, <3>5, ServingProcess
  <2>. QED  BY <2>3, <2>4
<1>. QED  BY <1>9, <1>10, <1>11

(* What the server writes: the line of an answer where the last one ended, *)
(* or bytes of the file behind the line.                                   *)
LEMMA AnswersGrow ==
  ASSUME AnswersWritten, NEW k \in 0 .. Len(Files) - 1,
         NEW w \in Seq(Int), w = hist.written["server"],
         NEW buf \in Seq(Int), hist'.written["server"] = w \o buf,
         Len(w) + Len(buf) <= AnswerEnd[k + 1],
         \/ AnswerEnd[k] + 2 <= Len(w)
         \/ Len(w) = AnswerEnd[k] /\ Len(buf) = 2 /\ buf[1] = Files[k + 1] /\ buf[2] = EOL
  PROVE  AnswersWritten'
<1>. PICK v, L, B, E, F : /\ v = hist'.written["server"] /\ L = Len(w) /\ B = Len(buf)
                          /\ E = AnswerEnd[k] /\ F = AnswerEnd[k + 1]
  OBVIOUS
<1>1. /\ Len(Files) \in Nat /\ k \in 0 .. Len(Files) /\ k + 1 \in 0 .. Len(Files)
      /\ k + 1 \in k .. Len(Files)
  BY FilesFacts
<1>2. /\ Len(v) = L + B /\ \A i \in 1 .. L : v[i] = w[i]
      /\ \A i \in L + 1 .. L + B : v[i] = buf[i - L]
  <2>1. v = w \o buf
    OBVIOUS
  <2>. QED  BY <2>1, ConcatProperties
<1>3. L \in Nat /\ B \in Nat /\ E \in Nat /\ F \in Nat /\ E + 2 <= F /\ L + B <= F
  <2>1. E \in Nat /\ F \in Nat
    BY <1>1, AnswerEnds
  <2>2. k < k + 1
    BY <1>1
  <2>3. E + 2 <= F
    BY <1>1, <2>2, EndsGrow
  <2>. QED  BY <2>1, <2>3
<1>. SUFFICES ASSUME NEW i \in 1 .. Len(Files)
              PROVE  /\ AnswerEnd[i - 1] + 1 <= L + B => v[AnswerEnd[i - 1] + 1] = Files[i]
                     /\ AnswerEnd[i - 1] + 2 <= L + B => v[AnswerEnd[i - 1] + 2] = EOL
  BY <1>2 DEF AnswersWritten
<1>. PICK D : D = AnswerEnd[i - 1]
  OBVIOUS
<1>4. i - 1 \in 0 .. Len(Files) /\ D \in Nat
  <2>1. i - 1 \in 0 .. Len(Files)
    BY <1>1
  <2>. QED  BY <2>1, AnswerEnds
<1>5. /\ D + 1 <= L => w[D + 1] = Files[i]
      /\ D + 2 <= L => w[D + 2] = EOL
  BY DEF AnswersWritten
<1>6. CASE i - 1 < k \/ (i - 1 = k /\ E + 2 <= L)
  <2>1. D + 2 <= L
    <3>1. CASE i - 1 < k
      <4>1. k \in i - 1 .. Len(Files)
        BY <1>1, <1>4, <3>1
      <4>2. D + 2 <= E
        BY <1>4, <3>1, <4>1, EndsGrow
      <4>3. E <= L
        BY SMTT(30), <1>3
      <4>. QED  BY ONLY <1>3, <1>4, <4>2, <4>3
    <3>2. CASE i - 1 = k /\ E + 2 <= L
      BY <3>2
    <3>. QED  BY <1>6, <3>1, <3>2
  <2>2. D + 1 \in 1 .. L /\ D + 2 \in 1 .. L /\ D + 1 <= L
    BY ONLY <1>3, <1>4, <2>1
  <2>. QED  BY <1>2, <1>5, <2>1, <2>2
<1>7. CASE i - 1 = k /\ ~ E + 2 <= L
  <2>1. L = E /\ B = 2 /\ buf[1] = Files[k + 1] /\ buf[2] = EOL /\ D = E /\ k + 1 = i
    BY <1>1, <1>7
  <2>2. /\ D + 1 \in L + 1 .. L + B /\ (D + 1) - L = 1
        /\ D + 2 \in L + 1 .. L + B /\ (D + 2) - L = 2
    BY ONLY <1>3, <2>1
  <2>3. v[D + 1] = buf[1] /\ v[D + 2] = buf[2]
    BY <1>2, <2>2
  <2>. QED  BY <2>1, <2>3
<1>8. CASE k < i - 1
  <2>1. i - 1 \in k + 1 .. Len(Files)
    BY <1>1, <1>4, <1>8
  <2>2. F <= D
    BY <1>1, <2>1, EndsGrow
  <2>3. ~ D + 1 <= L + B /\ ~ D + 2 <= L + B
    BY ONLY <1>3, <1>4, <2>2
  <2>. QED  BY <2>3
<1>9. i - 1 < k \/ i - 1 = k \/ k < i - 1
  BY <1>1, <1>4
<1>. QED  BY <1>6, <1>7, <1>8, <1>9

(* A step of the server that writes, by what it may write.                 *)
LEMMA ServerWrites ==
  ASSUME Base, Protocol, app["server"].pc \notin Ending \cup {"accept"},
         NEW a \in AppRecord, a.pc \notin Ending \cup {"start"}, app' = [app EXCEPT !["server"] = a],
         NEW buf \in Seq(Int), Write("server", buf),
         NEW k \in 0 .. Len(Files) - 1,
         NEW w, w = hist.written["server"],
         Len(w) + Len(buf) <= AnswerEnd[k + 1],
         \/ AnswerEnd[k] + 2 <= Len(w)
         \/ Len(w) = AnswerEnd[k] /\ Len(buf) = 2 /\ buf[1] = Files[k + 1] /\ buf[2] = EOL
  PROVE  /\ Base' /\ RequestsWritten' /\ AnswersWritten' /\ Asking'
         /\ app'["server"] = a /\ Asked' = Asked
         /\ hist'.trouble = hist.trouble /\ hist'.unread = hist.unread /\ hist'.got = hist.got
         /\ sock' = sock
         /\ w \in Seq(Int) /\ Len(hist'.written["server"]) = Len(w) + Len(buf)
<1>. USE Sides
<1>0. Types /\ w \in Seq(Int)
  BY DEF Base, Control, Types, HistRecord
<1>1. Base'
  BY WriteBase
<1>2. app'["server"] = a /\ app'["client"] = app["client"] /\ Asked' = Asked
  BY <1>0 DEF Types, Asked
<1>3. /\ hist'.trouble = hist.trouble /\ hist'.unread = hist.unread /\ hist'.got = hist.got
      /\ hist'.written["server"] = w \o buf
      /\ hist'.written["client"] = hist.written["client"] /\ sock' = sock
  <2>1. "server" \in Side /\ "client" \in Side /\ "client" # "server"
    OBVIOUS
  <2>. QED  BY ONLY <1>0, <2>1, WriteShape, buf \in Seq(Int), Write("server", buf), w = hist.written["server"]
<1>4. Len(hist'.written["server"]) = Len(w) + Len(buf)
  BY <1>0, <1>3, ConcatProperties
<1>5. RequestsWritten'
  BY <1>2, <1>3 DEF Protocol, RequestsWritten
<1>6. Asking'
  BY <1>2, <1>3, AskingStays DEF Protocol
<1>7. AnswersWritten
  BY DEF Protocol
<1>8. AnswersWritten'
  BY <1>0, <1>3, <1>7, AnswersGrow
<1>. QED  BY <1>0, <1>1, <1>2, <1>3, <1>4, <1>5, <1>6, <1>8

(* The server answers a line, or ends at the end of file.                  *)
LEMMA ProcessKeeps ==
  ASSUME Base, Protocol, Process
  PROVE  Base' /\ Protocol'
<1>. USE Sides
<1>0. Types /\ app["server"].pc = "process" /\ app["server"] \in AppRecord
  BY DEF Base, Control, Types, Process, Calling
<1>. PICK k \in 0 .. Len(Files) : Serving(k)
  BY DEF Protocol
<1>. PICK line, w, E : line = app["server"].line /\ w = hist.written["server"] /\ E = AnswerEnd[k]
  OBVIOUS
<1>1. /\ Len(w) = E /\ Len(line) \in {0, 1}
      /\ line = <<>> => sock["server"].eof
      /\ line # <<>> => /\ line = <<k + 1>> /\ k + 1 <= Asked
                        /\ IF sock["server"].eof THEN hist.trouble
                           ELSE Len(hist.got["server"]) = 2 * k + 2
  BY <1>0 DEF Serving
<1>2. app["server"].pc \notin Ending \cup {"accept"} /\ app["server"].pc \notin Ending
  BY <1>0 DEF Ending
<1>3. CASE line = <<>>
  <2>. PICK a : a = [app["server"] EXCEPT !.pc = "close"]
    OBVIOUS
  <2>1. a \in AppRecord /\ a.pc = "close" /\ a.line = line
    BY <1>0 DEF AppRecord
  <2>2. /\ app' = [app EXCEPT !["server"] = a]
        /\ UNCHANGED <<tr, rv, sock, q, net, tcp, waiting, signal, hist>>
    BY <1>3 DEF Process, At
  <2>3. /\ a.pc \notin Ending \cup {"start"} /\ app["server"].pc # "accept"
        /\ tcp' \in [Side -> {"unconnected", "connected", "closed"}]
    BY <1>0, <2>1, <2>2 DEF Ending, Types
  <2>4. Base' /\ app'["server"] = a /\ app'["client"] = app["client"]
    BY <1>2, <2>1, <2>2, <2>3, AloneBase
  <2>5. Serving(k)'
    BY <1>1, <1>3, <2>1, <2>2, <2>4, ServingClose
  <2>. QED  BY <2>2, <2>4, <2>5, ServerReads
<1>4. CASE line # <<>>
  <2>. PICK f, g, F : f = Files[k + 1] /\ g = Len(hist.got["server"]) /\ F = AnswerEnd[k + 1]
    OBVIOUS
  <2>1. /\ k \in 0 .. Len(Files) - 1 /\ k + 1 \in 1 .. Len(Files) /\ k + 1 \in 0 .. Len(Files)
        /\ k < Len(Files) /\ (k + 1) - 1 = k /\ k \in Nat
    <3>1. Asked \in 0 .. Len(Files) /\ Len(Files) \in Nat
      BY <1>0, FilesFacts DEF Types, AppRecord, Asked
    <3>2. k + 1 <= Asked
      BY <1>1, <1>4
    <3>. QED  BY ONLY <3>1, <3>2, k \in 0 .. Len(Files)
  <2>2. /\ f \in Int /\ f >= -1 /\ E \in Nat /\ F \in Nat
        /\ F = E + 2 + (IF f = -1 THEN 0 ELSE f)
    <3>1. F = E + Long(k + 1) /\ E \in Nat /\ F \in Nat
      BY <2>1, AnswerEnds
    <3>2. f \in Int /\ f >= -1
      BY <2>1, FilesFacts
    <3>3. Long(k + 1) = 2 + (IF f = -1 THEN 0 ELSE f)
      BY DEF Long
    <3>. PICK y : y = Long(k + 1)
      OBVIOUS
    <3>4. y = 2 + (IF f = -1 THEN 0 ELSE f) /\ F = E + y
      BY <3>1, <3>3
    <3>5. F = E + 2 + (IF f = -1 THEN 0 ELSE f)
      BY ONLY <3>1, <3>2, <3>4
    <3>. QED  BY <3>1, <3>2, <3>5
  <2>3. line[1] = k + 1
    BY <1>1, <1>4
  <2>. PICK c, left, l : /\ c = (IF f = -1 THEN "line" ELSE "body")
                         /\ left = (IF f = -1 THEN 0 ELSE f) /\ l = (IF f = -1 THEN <<>> ELSE line)
    OBVIOUS
  <2>4. c \in {"line", "body"} /\ left \in Int /\ l \in Seq(Int)
    BY <1>0, <2>2, NoBytes DEF AppRecord
  <2>. PICK a, buf : /\ a = [app["server"] EXCEPT !.pc = c, !.left = left, !.line = l]
                     /\ buf = <<f, EOL>>
    OBVIOUS
  <2>5. a \in AppRecord /\ a.pc = c /\ a.left = left /\ a.line = l
    BY ONLY <1>0, <2>4, a = [app["server"] EXCEPT !.pc = c, !.left = left, !.line = l] DEF AppRecord
  <2>6. buf \in Seq(Int) /\ Len(buf) = 2 /\ buf[1] = f /\ buf[2] = EOL
    BY <2>2 DEF EOL
  <2>7. app' = [app EXCEPT !["server"] = a] /\ Write("server", buf)
    <3>1. Files[app["server"].line[1]] = f
      BY <2>3
    <3>2. /\ app' = [app EXCEPT !["server"].pc = c, !["server"].left = left, !["server"].line = l]
          /\ Write("server", <<f, EOL>>)
      BY <1>4, <3>1 DEF Process, Line
    <3>. QED  BY <3>2
  <2>8. a.pc \notin Ending \cup {"start"}
    BY <2>4, <2>5 DEF Ending
  <2>9. Len(w) + Len(buf) <= F
    <3>1. E + 2 <= F
      BY ONLY <2>2
    <3>. QED  BY <1>1, <2>6, <3>1
  <2>10. /\ Base' /\ RequestsWritten' /\ AnswersWritten' /\ Asking'
         /\ app'["server"] = a /\ Asked' = Asked
         /\ hist'.trouble = hist.trouble /\ hist'.unread = hist.unread /\ hist'.got = hist.got
         /\ sock' = sock
         /\ Len(hist'.written["server"]) = Len(w) + Len(buf)
    <3>1. Len(w) = AnswerEnd[k] /\ buf[1] = Files[k + 1] /\ Len(w) + Len(buf) <= AnswerEnd[k + 1]
      BY <1>1, <2>6, <2>9
    <3>. QED  BY ONLY <1>2, <2>1, <2>5, <2>6, <2>7, <2>8, <3>1, ServerWrites, Base, Protocol,
                 w = hist.written["server"]
  <2>11. Len(hist'.written["server"]) = E + 2
    BY <1>1, <2>6, <2>10
  <2>12. CASE f = -1
    <3>1. F = E + 2
      BY <2>2, <2>12
    <3>. PICK j : j = k + 1
      OBVIOUS
    <3>2. /\ app'["server"].pc = "line" /\ app'["server"].line = <<>> /\ Len(<<>>) = 0
          /\ Len(hist'.written["server"]) = AnswerEnd[j]
      BY <2>5, <2>10, <2>11, <2>12, <3>1
    <3>3. IF sock'["server"].eof THEN hist'.trouble
          ELSE Len(hist'.got["server"]) = 2 * j + Len(<<>>)
      <4>1. 2 * k + 2 = 2 * j + Len(<<>>)
        BY <2>1, <3>2
      <4>. QED  BY <1>1, <1>4, <2>10, <4>1
    <3>4. Serving(j)'
      BY ONLY <3>2, <3>3, ServingLine
    <3>. QED  BY <2>1, <2>10, <3>4 DEF Protocol
  <2>13. CASE f # -1
    <3>1. /\ app'["server"].pc = "body" /\ app'["server"].line = line /\ line = <<k + 1>>
          /\ app'["server"].left = f /\ k + 1 <= Asked'
          /\ IF sock'["server"].eof THEN hist'.trouble ELSE Len(hist'.got["server"]) = 2 * k + 2
      BY <1>1, <1>4, <2>5, <2>10, <2>13
    <3>. PICK wrote : wrote = Len(hist'.written["server"])
      OBVIOUS
    <3>2. wrote = E + 2 /\ wrote = E + 2 + f - f /\ f \in 0 .. f /\ E + 2 <= wrote /\ wrote <= F
      BY SMTT(30), <2>2, <2>11, <2>13
    <3>3. Serving(k)'
      BY <1>1, <2>1, <2>13, <3>1, <3>2, ServingBody
    <3>. QED  BY <2>10, <3>3 DEF Protocol
  <2>. QED  BY <2>12, <2>13
<1>. QED  BY <1>3, <1>4

(* The server sends a buffer of the file, or has sent all of it.           *)
LEMMA SendFileKeeps ==
  ASSUME Base, Protocol, SendFile
  PROVE  Base' /\ Protocol'
<1>. USE Sides
<1>0. Types /\ app["server"].pc = "body" /\ app["server"] \in AppRecord
  BY DEF Base, Control, Types, SendFile, Calling
<1>. PICK k \in 0 .. Len(Files) : Serving(k)
  BY DEF Protocol
<1>. PICK line, w, E, F, left, f :
       /\ line = app["server"].line /\ w = hist.written["server"] /\ E = AnswerEnd[k]
       /\ F = AnswerEnd[k + 1] /\ left = app["server"].left /\ f = Files[k + 1]
  OBVIOUS
<1>1. /\ Len(line) \in {0, 1} /\ line = <<k + 1>> /\ k + 1 <= Asked
      /\ IF sock["server"].eof THEN hist.trouble ELSE Len(hist.got["server"]) = 2 * k + 2
      /\ f # -1 /\ left \in 0 .. f
      /\ Len(w) = E + 2 + f - left
  BY <1>0 DEF Serving
<1>2. /\ k \in 0 .. Len(Files) - 1 /\ k + 1 \in 1 .. Len(Files) /\ k + 1 \in 0 .. Len(Files)
      /\ k < Len(Files) /\ (k + 1) - 1 = k /\ k \in Nat
  <2>1. Asked \in 0 .. Len(Files) /\ Len(Files) \in Nat
    BY <1>0, FilesFacts DEF Types, AppRecord, Asked
  <2>2. k + 1 <= Asked
    BY <1>1
  <2>. QED  BY ONLY <2>1, <2>2, k \in 0 .. Len(Files)
<1>3. f \in Nat /\ E \in Nat /\ F \in Nat /\ F = E + 2 + f /\ left \in Nat /\ left <= f
  <2>1. F = E + Long(k + 1) /\ E \in Nat /\ F \in Nat
    BY <1>2, AnswerEnds
  <2>2. f \in Int /\ f >= -1
    BY <1>2, FilesFacts
  <2>3. Long(k + 1) = 2 + f
    BY <1>1 DEF Long
  <2>. PICK y : y = Long(k + 1)
    OBVIOUS
  <2>4. y = 2 + f /\ F = E + y /\ left \in 0 .. f /\ f # -1
    BY <1>1, <2>1, <2>3
  <2>. QED  BY ONLY <2>1, <2>2, <2>4
<1>4. /\ app["server"].pc \notin Ending \cup {"accept"} /\ app["server"].pc \notin Ending
      /\ app["server"].pc # "accept"
  BY <1>0 DEF Ending
<1>5. CASE left = 0
  <2>. PICK a : a = [app["server"] EXCEPT !.pc = "line", !.line = <<>>]
    OBVIOUS
  <2>1. a \in AppRecord /\ a.pc = "line" /\ a.line = <<>>
    BY ONLY <1>0, NoBytes, a = [app["server"] EXCEPT !.pc = "line", !.line = <<>>] DEF AppRecord
  <2>2. /\ app' = [app EXCEPT !["server"] = a]
        /\ UNCHANGED <<tr, rv, sock, q, net, tcp, waiting, signal, hist>>
    BY <1>5 DEF SendFile
  <2>3. /\ a.pc \notin Ending \cup {"start"}
        /\ tcp' \in [Side -> {"unconnected", "connected", "closed"}]
    BY <1>0, <2>1, <2>2 DEF Ending, Types
  <2>4. Base' /\ app'["server"] = a /\ app'["client"] = app["client"]
    BY <1>4, <2>1, <2>2, <2>3, AloneBase
  <2>. PICK j : j = k + 1
    OBVIOUS
  <2>5. /\ app'["server"].pc = "line" /\ app'["server"].line = <<>> /\ Len(<<>>) \in {0, 1}
        /\ Len(hist'.written["server"]) = AnswerEnd[j]
    <3>. PICK n : n = Len(w)
      OBVIOUS
    <3>1. n = E + 2 + f - left
      BY <1>1
    <3>2. n = F
      BY ONLY <1>3, <1>5, <3>1
    <3>. QED  BY <2>1, <2>2, <2>4, <3>2, NoBytes
  <2>6. IF sock'["server"].eof THEN hist'.trouble
        ELSE Len(hist'.got["server"]) = 2 * j + Len(<<>>)
    <3>1. 2 * k + 2 = 2 * j + Len(<<>>)
      BY <1>2, NoBytes
    <3>. QED  BY <1>1, <2>2, <3>1
  <2>7. Serving(j)'
    BY ONLY <2>5, <2>6, ServingLine
  <2>8. j \in 0 .. Len(Files)
    BY <1>2
  <2>. QED  BY <2>2, <2>4, <2>7, <2>8, ServerReads
<1>6. CASE left # 0
  <2>. PICK n, l, y, z : /\ n = (IF left < BufSize THEN left ELSE BufSize) /\ l = left - n
                         /\ y = f - left + 1 /\ z = f - left + n
    OBVIOUS
  <2>1. n \in Nat /\ n >= 1 /\ n <= left /\ l \in 0 .. f /\ l \in Int
    BY ONLY <1>3, <1>6, MysockAssumption, n = (IF left < BufSize THEN left ELSE BufSize), l = left - n
  <2>2. y \in Nat /\ z \in Nat /\ y >= 1 /\ z <= f /\ y <= z /\ z - y + 1 = n
    BY ONLY <1>3, <2>1, y = f - left + 1, z = f - left + n
  <2>. PICK a, buf : a = [app["server"] EXCEPT !.left = l] /\ buf = SubSeq(Body(f), y, z)
    OBVIOUS
  <2>3. a \in AppRecord /\ a.pc = "body" /\ a.left = l /\ a.line = line
    BY ONLY <1>0, <2>1, a = [app["server"] EXCEPT !.left = l], line = app["server"].line DEF AppRecord
  <2>4. buf \in Seq(Int) /\ Len(buf) = n
    <3>. PICK b : b = Body(f)
      OBVIOUS
    <3>1. \A i \in 1 .. f : b[i] = 100 + i
      BY DEF Body
    <3>2. \A i \in y .. z : b[i] \in Int
      <4>1. \A i \in y .. z : i \in 1 .. f /\ 100 + i \in Int
        BY ONLY <1>3, <2>2
      <4>. QED  BY <3>1, <4>1
    <3>3. buf \in Seq(Int) /\ Len(buf) = IF y <= z THEN z - y + 1 ELSE 0
      <4>1. buf = SubSeq(b, y, z) /\ y \in Int /\ z \in Int
        BY <2>2
      <4>. QED  BY ONLY <3>2, <4>1, SubSeqProperties
    <3>. QED  BY <2>2, <3>3
  <2>5. app' = [app EXCEPT !["server"] = a] /\ Write("server", buf)
    <3>1. line[1] = k + 1
      BY <1>1
    <3>2. Files[app["server"].line[1]] = f
      BY <3>1
    <3>3. /\ app' = [app EXCEPT !["server"].left = @ - n]
          /\ Write("server", SubSeq(Body(f), f - left + 1, f - left + n))
      BY <1>6, <3>2 DEF SendFile
    <3>. QED  BY <3>3
  <2>6. a.pc \notin Ending \cup {"start"}
    BY <2>3 DEF Ending
  <2>7. E + 2 <= Len(w) /\ Len(w) + n <= F /\ Len(w) + n = E + 2 + f - l /\ E + 2 <= Len(w) + n
    <3>. PICK u : u = Len(w)
      OBVIOUS
    <3>1. u = E + 2 + f - left
      BY <1>1
    <3>2. E + 2 <= u /\ u + n <= F /\ u + n = E + 2 + f - l /\ E + 2 <= u + n
      BY ONLY <1>3, <2>1, <3>1, l = left - n
    <3>. QED  BY <3>2
  <2>8. /\ Base' /\ RequestsWritten' /\ AnswersWritten' /\ Asking'
        /\ app'["server"] = a /\ Asked' = Asked
        /\ hist'.trouble = hist.trouble /\ hist'.unread = hist.unread /\ hist'.got = hist.got
        /\ sock' = sock
        /\ Len(hist'.written["server"]) = Len(w) + Len(buf)
    <3>1. Len(w) + Len(buf) <= AnswerEnd[k + 1] /\ AnswerEnd[k] + 2 <= Len(w)
      BY <2>4, <2>7
    <3>. QED  BY ONLY <1>2, <1>4, <2>3, <2>4, <2>5, <2>6, <3>1, ServerWrites, Base, Protocol,
                 w = hist.written["server"]
  <2>. PICK wrote : wrote = Len(hist'.written["server"])
    OBVIOUS
  <2>9. wrote = E + 2 + f - l /\ E + 2 <= wrote /\ wrote <= F
    BY <2>4, <2>7, <2>8
  <2>10. /\ app'["server"].pc = "body" /\ app'["server"].line = line /\ app'["server"].left = l
         /\ k + 1 <= Asked' /\ Len(line) \in {0, 1}
         /\ IF sock'["server"].eof THEN hist'.trouble ELSE Len(hist'.got["server"]) = 2 * k + 2
    BY <1>1, <2>3, <2>8
  <2>11. Serving(k)'
    BY <1>1, <1>2, <2>1, <2>9, <2>10, ServingBody
  <2>. QED  BY <2>8, <2>11 DEF Protocol
<1>. QED  BY <1>5, <1>6

(* A file that read() fails on.                                            *)
LEMMA ReadFailsKeeps ==
  ASSUME Base, Protocol, ReadFails
  PROVE  Base' /\ Protocol'
<1>. USE Sides
<1>0. /\ Types /\ Control /\ app["server"].pc = "body" /\ app["server"] \in AppRecord
      /\ hist \in HistRecord
  BY DEF Base, Control, Types, ReadFails, Calling
<1>. PICK a : a = [app["server"] EXCEPT !.pc = "close"]
  OBVIOUS
<1>1. a \in AppRecord /\ a.pc = "close" /\ a.line = app["server"].line
  BY <1>0 DEF AppRecord
<1>2. /\ app' = [app EXCEPT !["server"] = a] /\ hist' = [hist EXCEPT !.unread = TRUE]
      /\ UNCHANGED <<tr, rv, sock, q, net, tcp, waiting, signal>>
  BY DEF ReadFails, At
<1>3. /\ hist' \in HistRecord /\ hist'.got = hist.got /\ hist'.written = hist.written
      /\ hist'.trouble = hist.trouble /\ hist'.unread
  BY <1>0, <1>2 DEF HistRecord
<1>4. /\ app["server"].pc \notin Ending /\ a.pc \notin Ending \cup {"start"}
      /\ app["server"].pc # "accept" /\ app["server"].pc # "closed" /\ a.pc # "closed"
      /\ waiting' = waiting /\ tcp' \in [Side -> {"unconnected", "connected", "closed"}]
      /\ UNCHANGED <<tr, rv, sock, q, net, signal>>
  BY <1>0, <1>1, <1>2 DEF Ending, Types
<1>5. Control'
  BY <1>0, <1>1, <1>2, <1>3, <1>4, AloneControl
<1>6. ClosesNone
  BY <1>0, <1>1, <1>2, <1>3, <1>4, ClosesNoneIf
<1>7. Still
  BY <1>3, <1>4, <1>6 DEF Still, ClosesNone
<1>8. app'["server"] = a /\ app'["client"] = app["client"]
  BY <1>0, <1>2 DEF Types
<1>. PICK k \in 0 .. Len(Files) : Serving(k)
  BY DEF Protocol
<1>. PICK wrote : wrote = Len(hist.written["server"])
  OBVIOUS
<1>9. /\ Len(app["server"].line) \in {0, 1}
      /\ \/ wrote = AnswerEnd[k]
         \/ k < Len(Files) /\ AnswerEnd[k] + 2 <= wrote /\ wrote <= AnswerEnd[k + 1]
  BY DEF Serving
<1>10. Serving(k)'
  BY <1>1, <1>3, <1>8, <1>9, ServingClose
<1>11. Protocol'
  BY <1>3, <1>4, <1>8, <1>10, ServerReads
<1>. QED  BY <1>5, <1>7, <1>11, StillBase

(* The steps of myclose().                                                 *)
LEMMA RequestCloseKeeps ==
  ASSUME Base, Protocol, NEW s \in Side, RequestClose(s)
  PROVE  Base' /\ Protocol'
<1>0. /\ Types /\ Control'
      /\ app[s].pc = "close" /\ app[s] \in AppRecord /\ sock \in [Side -> SockRecord]
  BY RequestCloseControl DEF Base, Control, Types, RequestClose, Calling
<1>1. /\ app' = [app EXCEPT ![s].pc = "join"] /\ UNCHANGED <<tr, q, net, hist>>
      /\ sock' = [sock EXCEPT ![s].close_requested = TRUE]
  BY DEF RequestClose, At
<1>. PICK a : a = [app[s] EXCEPT !.pc = "join"]
  OBVIOUS
<1>2. a \in AppRecord /\ a.pc = "join" /\ app' = [app EXCEPT ![s] = a]
  BY <1>0, <1>1 DEF AppRecord, Ending
<1>3. \A t \in Side : sock'[t].eof = sock[t].eof
  BY <1>0, <1>1 DEF SockRecord
<1>4. ClosesNone
  BY <1>0, <1>1, <1>2, ClosesNoneIf
<1>5. Still
  BY <1>1, <1>3, <1>4 DEF Still, ClosesNone
<1>6. "join" \in Ending /\ app[s].pc \in {"close"} \cup Ending
  BY <1>0 DEF Ending
<1>7. Protocol'
  BY <1>0, <1>1, <1>3, <1>6, EndingProtocol
<1>. QED  BY <1>0, <1>5, <1>7, StillBase

(* myclose() has joined the transport thread.                              *)
LEMMA TransportJoinedKeeps ==
  ASSUME Base, Protocol, NEW s \in Side, TransportJoined(s)
  PROVE  Base' /\ Protocol'
<1>0. /\ Types /\ Control'
      /\ app[s].pc = "join" /\ app[s] \in AppRecord /\ sock \in [Side -> SockRecord]
  BY TransportJoinedControl DEF Base, Control, Types, TransportJoined, Calling
<1>1. /\ app' = [app EXCEPT ![s].pc = "joinrecv"] /\ UNCHANGED <<tr, q, net, hist>>
      /\ sock' = [sock EXCEPT ![s].exit_pipe = TRUE]
  BY DEF TransportJoined, At
<1>. PICK a : a = [app[s] EXCEPT !.pc = "joinrecv"]
  OBVIOUS
<1>2. a \in AppRecord /\ a.pc = "joinrecv" /\ app' = [app EXCEPT ![s] = a]
  BY <1>0, <1>1 DEF AppRecord, Ending
<1>3. \A t \in Side : sock'[t].eof = sock[t].eof
  BY <1>0, <1>1 DEF SockRecord
<1>4. ClosesNone
  BY <1>0, <1>1, <1>2, ClosesNoneIf
<1>5. Still
  BY <1>1, <1>3, <1>4 DEF Still, ClosesNone
<1>6. "joinrecv" \in Ending /\ app[s].pc \in {"close"} \cup Ending
  BY <1>0 DEF Ending
<1>7. Protocol'
  BY <1>0, <1>1, <1>3, <1>6, EndingProtocol
<1>. QED  BY <1>0, <1>5, <1>7, StillBase

(* myclose() frees a queue that holds nothing, unless the connection broke *)
(* or the server could not read a file: the client has read every answer,  *)
(* or the end of file behind what it read.                                 *)
LEMMA FreeContextKeeps ==
  ASSUME Base, Protocol, NEW s \in Side, FreeContext(s)
  PROVE  Base' /\ Protocol'
<1>. USE Sides
<1>0. /\ Types /\ app[s].pc = "joinrecv" /\ UNCHANGED <<hist, sock>>
      /\ app' = [app EXCEPT ![s].pc = "closed"]
  BY DEF Base, Control, FreeContext, Calling, At
<1>1. "closed" \in Ending /\ app[s].pc \in {"close"} \cup Ending
  BY <1>0 DEF Ending
<1>2. Protocol'
  BY <1>0, <1>1, EndingProtocol
<1>3. sock[s].eof => hist.trouble \/ hist.got[s] = hist.written[Peer(s)]
  BY DEF Base, Fins
<1>4. hist.trouble \/ (s = Server /\ hist.unread) \/ hist.got[s] = hist.written[Peer(s)]
  <2>1. CASE s = "server"
    <3>. PICK k \in 0 .. Len(Files) : Serving(k)
      BY DEF Protocol
    <3>1. sock["server"].eof \/ hist.unread
      BY <1>1, <2>1 DEF Serving
    <3>. QED  BY <1>3, <2>1, <3>1
  <2>2. CASE s = "client"
    <3>. PICK g, w : g = hist.got["client"] /\ w = hist.written["server"]
      OBVIOUS
    <3>1. \/ hist.trouble \/ sock["client"].eof
          \/ Asked = Len(Files) /\ Len(g) = AnswerEnd[Asked]
      <4>1. Asking /\ app["client"].pc \in {"close"} \cup Ending
        BY <1>1, <2>2 DEF Protocol
      <4>. QED  BY <4>1 DEF Asking
    <3>2. CASE Asked = Len(Files) /\ Len(g) = AnswerEnd[Asked]
      <4>. PICK k \in 0 .. Len(Files) : Serving(k)
        BY DEF Protocol
      <4>. PICK wrote : wrote = Len(w)
        OBVIOUS
      <4>1. \/ wrote = AnswerEnd[k]
            \/ k < Len(Files) /\ AnswerEnd[k] + 2 <= wrote /\ wrote <= AnswerEnd[k + 1]
        BY DEF Serving
      <4>2. wrote <= AnswerEnd[Len(Files)] /\ AnswerEnd[Len(Files)] \in Nat
        <5>. PICK n : n = Len(Files) /\ n \in Nat
          BY FilesFacts
        <5>1. n \in 0 .. n /\ n \in k .. n /\ (k < n => k + 1 \in 0 .. n /\ n \in k + 1 .. n)
          OBVIOUS
        <5>2. /\ AnswerEnd[n] \in Nat /\ AnswerEnd[k] \in Nat /\ AnswerEnd[k] <= AnswerEnd[n]
          BY <5>1, AnswerEnds, EndsGrow
        <5>3. k < n => AnswerEnd[k + 1] \in Nat /\ AnswerEnd[k + 1] <= AnswerEnd[n]
          BY <5>1, AnswerEnds, EndsGrow
        <5>4. wrote \in Nat
          BY <1>0 DEF Types, HistRecord
        <5>. PICK c, d, e : c = AnswerEnd[k] /\ d = AnswerEnd[k + 1] /\ e = AnswerEnd[n]
          OBVIOUS
        <5>5. /\ e \in Nat /\ c \in Nat /\ c <= e /\ (k < n => d \in Nat /\ d <= e)
              /\ wrote = c \/ (k < n /\ c + 2 <= wrote /\ wrote <= d)
          BY <4>1, <5>2, <5>3
        <5>6. wrote <= e
          BY ONLY <5>4, <5>5
        <5>. QED  BY <5>2, <5>6
      <4>3. IsPrefix(g, w) /\ g \in Seq(Int) /\ w \in Seq(Int)
        BY <1>0, <2>2 DEF Base, Flow, Types, HistRecord
      <4>4. Len(g) <= Len(w) /\ (Len(g) = Len(w) => g = w)
        BY <4>3, PrefixAt
      <4>5. Len(g) = Len(w)
        <5>. PICK m : m = Len(g)
          OBVIOUS
        <5>1. m <= wrote /\ wrote <= m /\ m \in Nat /\ wrote \in Nat
          BY <3>2, <4>2, <4>3, <4>4
        <5>. QED  BY <5>1
      <4>. QED  BY <2>2, <4>4, <4>5
    <3>. QED  BY <1>3, <2>2, <3>1, <3>2
  <2>. QED  BY <2>1, <2>2
<1>5. Base'
  BY <1>4, FreeContextBase
<1>. QED  BY <1>2, <1>5

-----------------------------------------------------------------------------
(* Every step. *)

(* The threads beside the applications.                                    *)
LEMMA ThreadsKeep ==
  ASSUME Base, Protocol, NEW s \in Side,
         Transport(s) \/ Receive(s) \/ HandshakeFails(s) \/ GiveUp(s)
  PROVE  Base' /\ Protocol'
<1>0. Control /\ Types
  BY DEF Base, Control
<1>1. CASE \/ SendSyn(s) \/ Established(s) \/ HandshakeFails(s) \/ WaitForEvent(s) \/ EndOfTurn(s)
           \/ GiveUp(s) \/ RecvConnects(s) \/ RecvEnds(s)
           \/ Broadcast(s, "transport") \/ Broadcast(s, "recv")
  <2>1. Still /\ Outside
    BY <1>0, <1>1, ThreadsStill
  <2>2. Control'
    BY <1>0, <1>1, SendSynControl, EstablishedControl, HandshakeFailsControl, WaitForEventControl,
       EndOfTurnControl, GiveUpControl, RecvConnectsControl, RecvEndsControl, BroadcastControl
  <2>. QED  BY <1>0, <2>1, <2>2, StillBase, OutsideProtocol
<1>2. CASE \/ HandleAppData(s) \/ HandleNetworkData(s) \/ HandleAppClose(s) \/ TransportEnds(s)
           \/ RecvPacket(s)
  <2>1. Base'
    BY <1>2, HandleAppDataBase, HandleNetworkDataBase, HandleAppCloseBase, TransportEndsBase,
       RecvPacketBase
  <2>2. Outside
    <3>1. app' = app /\ hist' = hist /\ sock' = sock
      BY <1>2 DEF HandleAppData, HandleNetworkData, HandleAppClose, TransportEnds, RecvPacket
    <3>. QED  BY <3>1 DEF Outside
  <2>. QED  BY <1>0, <2>1, <2>2, OutsideProtocol
<1>. QED  BY <1>1, <1>2 DEF Transport, Receive

(* An application broadcasts after a write or myclose().                   *)
LEMMA BroadcastKeeps ==
  ASSUME Base, Protocol, NEW s \in Side, Broadcast(s, "app")
  PROVE  Base' /\ Protocol'
<1>0. Control /\ Types
  BY DEF Base, Control
<1>1. Still /\ Outside
  BY <1>0, ThreadsStill
<1>2. Control'
  BY <1>0, BroadcastControl
<1>. QED  BY <1>0, <1>1, <1>2, StillBase, OutsideProtocol

(* Every step keeps the invariant.                                         *)
LEMMA StepKeeps ==
  ASSUME Base, Protocol, Next
  PROVE  Base' /\ Protocol'
<1>. USE Sides
<1>1. CASE \E s \in Side : Transport(s) \/ Receive(s) \/ HandshakeFails(s) \/ GiveUp(s)
  BY <1>1, ThreadsKeep
<1>2. CASE \E s \in Side : Close(s) \/ Broadcast(s, "app")
  BY <1>2, BroadcastKeeps, RequestCloseKeeps, TransportJoinedKeeps, FreeContextKeeps DEF Close
<1>3. CASE Connect \/ ConnectReturns \/ Ask \/ ReadAnswer \/ Parse \/ ReadFile
  BY <1>3, ConnectKeeps, ConnectReturnsKeeps, AskKeeps, ReadAnswerKeeps, ParseKeeps, ReadFileKeeps
<1>4. CASE Accept \/ GetRequest \/ Process \/ SendFile \/ ReadFails
  BY <1>4, AcceptKeeps, GetRequestKeeps, ProcessKeeps, SendFileKeeps, ReadFailsKeeps
<1>. QED  BY <1>1, <1>2, <1>3, <1>4 DEF Next, ClientApp, ServerApp

-----------------------------------------------------------------------------
(* The invariant holds, and with it the three properties. *)

(* The invariant is what every thread keeps and what the protocol adds.    *)
LEMMA BaseAndProtocol == MysockInv <=> Base /\ Protocol
BY DEF MysockInv, Base, Control

(* The invariant holds before the client connects.                         *)
LEMMA MysockInit == Init => MysockInv
<1>. SUFFICES ASSUME Init PROVE MysockInv
  OBVIOUS
<1>. USE Sides
<1>1. /\ \A s \in Side : /\ app[s] = [pc |-> IF s = Client THEN "start" ELSE "accept", line |-> <<>>,
                                      left |-> 0, asked |-> 0, received |-> 0]
                         /\ tr[s] = [pc |-> "none", events |-> {}, errno |-> 0,
                                     fin_sent |-> FALSE, fin_received |-> FALSE]
                         /\ rv[s] = "none" /\ net[s] = <<>> /\ tcp[s] = "unconnected"
                         /\ sock[s] = [blocking |-> TRUE, stcp_errno |-> 0, close_requested |-> FALSE,
                                       eof |-> FALSE, exit_pipe |-> FALSE]
                         /\ q[s] = [app_recv |-> <<>>, app_send |-> <<>>, network |-> <<>>]
                         /\ waiting[s] = {} /\ signal[s] = {}
      /\ hist = [written |-> [s \in Side |-> <<>>], got |-> [s \in Side |-> <<>>],
                 trouble |-> FALSE, unread |-> FALSE]
  BY DEF Init
<1>2. /\ Len(Files) \in Nat /\ 0 \in 0 .. Len(Files) /\ <<>> \in Seq(Int) /\ <<>> \in Segments
      /\ Len(<<>>) = 0 /\ FlattenSeq(<<>>) = <<>>
  BY FilesFacts, NoBytes, FlattenEmpty
<1>3. Types
  <2>1. ASSUME NEW s \in Side PROVE app[s] \in AppRecord
    <3>. PICK c : c \in {"start", "accept"} /\ c = IF s = Client THEN "start" ELSE "accept"
      OBVIOUS
    <3>1. app[s] = [pc |-> c, line |-> <<>>, left |-> 0, asked |-> 0, received |-> 0]
      BY <1>1
    <3>. QED  BY ONLY <1>2, <3>1, c \in {"start", "accept"} DEF AppRecord
  <2>2. ASSUME NEW s \in Side PROVE tr[s] \in TransportRecord
    <3>1. tr[s] = [pc |-> "none", events |-> {}, errno |-> 0,
                   fin_sent |-> FALSE, fin_received |-> FALSE]
      BY <1>1
    <3>. QED  BY ONLY <3>1 DEF TransportRecord
  <2>3. ASSUME NEW s \in Side PROVE sock[s] \in SockRecord
    <3>1. sock[s] = [blocking |-> TRUE, stcp_errno |-> 0, close_requested |-> FALSE,
                     eof |-> FALSE, exit_pipe |-> FALSE]
      BY <1>1
    <3>. QED  BY ONLY <3>1 DEF SockRecord
  <2>4. \A s \in Side : q[s] \in QueueRecord
    BY <1>1, <1>2 DEF QueueRecord
  <2>5. hist \in HistRecord
    BY <1>1, <1>2 DEF HistRecord
  <2>6. /\ app \in [Side -> AppRecord] /\ tr \in [Side -> TransportRecord]
        /\ sock \in [Side -> SockRecord] /\ q \in [Side -> QueueRecord]
    BY <2>1, <2>2, <2>3, <2>4 DEF Init
  <2>7. /\ rv \in [Side -> {"none", "poll", "ended"}] /\ net \in [Side -> Segments]
        /\ tcp \in [Side -> {"unconnected", "connected", "closed"}]
        /\ waiting \in [Side -> SUBSET {"app", "transport"}]
        /\ signal \in [Side -> SUBSET {"app", "transport", "recv"}]
    BY <1>2 DEF Init
  <2>. QED  BY <2>5, <2>6, <2>7 DEF Types
<1>4. \A s \in Side : Threads(s) /\ Requests(s)
  BY <1>1 DEF Threads, Requests
<1>5. Opening
  BY <1>1 DEF Opening
<1>6. \A s \in Side : /\ hist.got[s] = <<>> /\ hist.written[s] = <<>> /\ ~ hist.trouble
                      /\ ~ sock[s].eof
  BY <1>1
<1>7. ASSUME NEW s \in Side PROVE Flow(s)
  <2>1. <<>> \o <<>> = <<>>
    BY <1>2, ConcatEmptySeq
  <2>2. Peer(s) \in Side
    BY OtherSide
  <2>3. Under(s) = <<>> /\ Bytes(s) = <<>>
    BY <1>1, <1>2, <1>6, <2>1, <2>2 DEF Under, Bytes
  <2>4. IsPrefix(<<>>, <<>>)
    <3>. PICK e : e \in Seq(Int) /\ e = <<>>
      BY <1>2
    <3>1. e = e \o e
      BY <2>1
    <3>2. IsPrefix(e, e)
      BY <3>1, PrefixIff
    <3>. QED  BY <3>2
  <2>. QED  BY <1>6, <2>2, <2>3, <2>4 DEF Flow
<1>8. ASSUME NEW s \in Side PROVE Fins(s)
  <2>1. FinLast(<<>>) /\ Blank(<<>>) /\ ~ HasFin(<<>>)
    BY DEF FinLast, Blank, HasFin
  <2>. QED  BY <1>1, <1>6, <2>1 DEF Fins
<1>9. Asked = 0 /\ AnswerEnd[0] = 0 /\ There(0) = {}
  BY <1>1, AnswerEnds DEF Asked, There
<1>10. RequestsWritten
  BY <1>2, <1>6, <1>9 DEF RequestsWritten
<1>11. AnswersWritten
  <2>1. \A i \in 1 .. Len(Files) : AnswerEnd[i - 1] \in Nat
    <3>1. \A i \in 1 .. Len(Files) : i - 1 \in 0 .. Len(Files)
      BY <1>2
    <3>. QED  BY <3>1, AnswerEnds
  <2>2. \A i \in 1 .. Len(Files) : ~ AnswerEnd[i - 1] + 1 <= 0 /\ ~ AnswerEnd[i - 1] + 2 <= 0
    BY <2>1
  <2>. QED  BY <1>2, <1>6, <2>2 DEF AnswersWritten
<1>12. Asking
  <2>1. Cardinality(There(0)) = 0
    BY <1>9, FS_EmptySet
  <2>2. /\ app["client"].pc = "start" /\ app["client"].line = <<>> /\ app["client"].received = 0
        /\ ~ sock["client"].eof /\ hist.got["client"] = <<>> /\ Len(<<>>) \in {0, 1}
    BY <1>1, <1>2, <1>6
  <2>. QED  BY <1>2, <1>9, <2>1, <2>2 DEF Asking, Ending
<1>13. Serving(0)
  <2>1. /\ app["server"].pc = "accept" /\ app["server"].line = <<>>
        /\ ~ sock["server"].eof /\ hist.got["server"] = <<>> /\ hist.written["server"] = <<>>
        /\ Len(<<>>) \in {0, 1}
    BY <1>1, <1>2, <1>6
  <2>. QED  BY <1>2, <1>9, <2>1 DEF Serving, Ending
<1>14. Protocol
  BY <1>2, <1>10, <1>11, <1>12, <1>13 DEF Protocol
<1>. QED  BY <1>3, <1>4, <1>5, <1>7, <1>8, <1>14 DEF MysockInv

(* Every step keeps the invariant, and a stutter does.                     *)
LEMMA MysockStep == MysockInv /\ [Next]_vars => MysockInv'
<1>1. ASSUME MysockInv, Next PROVE MysockInv'
  <2>1. Base /\ Protocol
    BY <1>1, BaseAndProtocol
  <2>2. Base' /\ Protocol'
    BY <1>1, <2>1, StepKeeps
  <2>. QED  BY <2>2 DEF MysockInv, Base, Control
<1>2. ASSUME MysockInv, UNCHANGED vars PROVE MysockInv'
  <2>1. Control /\ Base /\ Protocol /\ Types
    BY <1>2, BaseAndProtocol DEF Base, Control
  <2>2. /\ app' = app /\ tr' = tr /\ rv' = rv /\ sock' = sock /\ q' = q /\ net' = net
        /\ tcp' = tcp /\ waiting' = waiting /\ signal' = signal /\ hist' = hist
    BY <1>2 DEF vars
  <2>3. Still /\ Outside
    BY <2>2 DEF Still, Outside, BrokeOff
  <2>4. Control'
    BY <2>1, <2>2 DEF Control, Types, Threads, Requests, Opening
  <2>5. Base' /\ Protocol'
    BY <2>1, <2>3, <2>4, StillBase, OutsideProtocol
  <2>. QED  BY <2>5 DEF MysockInv, Base, Control
<1>. QED  BY <1>1, <1>2

(* The inductive invariant: the threads, the bytes and FINs on their way,  *)
(* and how far the applications are with requests and answers, hold in     *)
(* every state of the two ends of a connection (mysock.c, stcp_api.c,      *)
(* client.c, server.c).                                                    *)
THEOREM MysockInvariant == Spec => []MysockInv
BY MysockInit, MysockStep, PTL DEF Spec

(* When myclose() has freed a context, its transport thread and its        *)
(* receive thread have ended and none is about to use its condition        *)
(* variable (mysock.c:310-313).                                            *)
THEOREM MysockThreads == Spec => []NoThreadOutlives
<1>1. MysockInv => NoThreadOutlives
  <2>. SUFFICES ASSUME MysockInv PROVE NoThreadOutlives
    OBVIOUS
  <2>1. /\ app \in [Side -> AppRecord] /\ tr \in [Side -> TransportRecord]
        /\ sock \in [Side -> SockRecord]
        /\ \A s \in Side : /\ rv[s] \in {"none", "poll", "ended"}
                           /\ tcp[s] \in {"unconnected", "connected", "closed"}
                           /\ waiting[s] \subseteq {"app", "transport"}
                           /\ signal[s] \subseteq {"app", "transport", "recv"}
    BY DEF MysockInv, Types
  <2>2. \A s \in Side :
          /\ tr[s].pc \in {"none", "syn", "handshake", "wait", "handle", "final", "ended"}
          /\ tr[s].events \subseteq {"APP_DATA", "NETWORK_DATA", "APP_CLOSE"}
          /\ tr[s].errno \in {0, ECONNREFUSED} /\ sock[s].stcp_errno \in {0, ECONNREFUSED}
          /\ app[s].left \in Int /\ app[s].asked \in 0 .. Len(Files)
    BY <2>1 DEF AppRecord, TransportRecord, SockRecord
  <2>3. ASSUME NEW s \in Side PROVE Len(app[s].line) <= 1
    <3>1. Len(app[s].line) \in {0, 1}
      <4>1. Len(app["client"].line) \in {0, 1}
        BY DEF MysockInv, Protocol, Asking
      <4>2. Len(app["server"].line) \in {0, 1}
        BY DEF MysockInv, Protocol, Serving
      <4>. QED  BY <4>1, <4>2, Sides
    <3>. PICK n : n = Len(app[s].line)
      OBVIOUS
    <3>2. n \in {0, 1}
      BY <3>1
    <3>3. n <= 1
      BY ONLY <3>2
    <3>. QED  BY <3>3
  <2>4. TypeOK
    BY ONLY <2>1, <2>2, <2>3 DEF TypeOK
  <2>5. \A s \in Side : app[s].pc = "closed" =>
          tr[s].pc = "ended" /\ rv[s] = "ended" /\ signal[s] = {} /\ waiting[s] = {}
    BY DEF MysockInv, Threads
  <2>. QED  BY <2>4, <2>5 DEF NoThreadOutlives
<1>. QED  BY <1>1, MysockInvariant, PTL

(* The request to close reaches STCP once and after everything that was    *)
(* written (stcp_api.c:82-84); myread() returns 0 when all the other side  *)
(* wrote has been read, and not before that side asked to close.           *)
THEOREM MysockEnds == Spec => []EndsComeLast
<1>1. MysockInv => EndsComeLast
  <2>. SUFFICES ASSUME MysockInv, NEW s \in Side
                PROVE  /\ "APP_CLOSE" \in tr[s].events => ~ tr[s].fin_sent /\ q[s].app_recv = <<>>
                       /\ sock[s].eof /\ ~ hist.trouble =>
                            /\ hist.got[s] = hist.written[Peer(s)]
                            /\ app[Peer(s)].pc \in {"join", "joinrecv", "closed"}
    BY DEF EndsComeLast
  <2>1. "APP_CLOSE" \in tr[s].events => ~ tr[s].fin_sent /\ q[s].app_recv = <<>>
    BY DEF MysockInv, Requests
  <2>2. ASSUME sock[s].eof, ~ hist.trouble
        PROVE  hist.got[s] = hist.written[Peer(s)] /\ tr[Peer(s)].fin_sent
    BY <2>2 DEF MysockInv, Fins
  <2>3. tr[Peer(s)].fin_sent => app[Peer(s)].pc \in Ending
    BY OtherSide DEF MysockInv, Requests
  <2>. QED  BY <2>1, <2>2, <2>3 DEF Ending
<1>. QED  BY <1>1, MysockInvariant, PTL

(* No queue between two applications loses, doubles or overtakes a byte,   *)
(* whatever the sizes of their buffers; after a connection that did not    *)
(* break the client has every file there is.                               *)
THEOREM MysockStreams == Spec => []StreamsIntact
<1>1. MysockInv => StreamsIntact
  <2>. SUFFICES ASSUME MysockInv PROVE StreamsIntact
    OBVIOUS
  <2>1. \A s \in Side :
          /\ IsPrefix(hist.got[s], hist.written[Peer(s)])
          /\ ~ hist.trouble /\ ~ BrokeOff(s) => Bytes(s) = hist.written[Peer(s)]
    BY DEF MysockInv, Flow
  <2>2. ASSUME app["client"].pc = "closed", ~ hist.trouble, ~ hist.unread
        PROVE  app["client"].received = Cardinality({i \in DOMAIN Files : Files[i] # -1})
    <3>1. Asked = Len(Files) /\ app["client"].received = Cardinality(There(Asked))
      BY <2>2 DEF MysockInv, Protocol, Asking, Ending
    <3>2. There(Len(Files)) = {i \in DOMAIN Files : Files[i] # -1}
      BY FilesFacts DEF There
    <3>. QED  BY <3>1, <3>2
  <2>. QED  BY <2>1, <2>2, Sides DEF StreamsIntact
<1>. QED  BY <1>1, MysockInvariant, PTL
=============================================================================
