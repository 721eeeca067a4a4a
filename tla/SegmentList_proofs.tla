------------------------- MODULE SegmentList_proofs -------------------------
(***************************************************************************)
(* Theorems about module SegmentList, for every window, stream and cut of  *)
(* it into segments: the list stays sorted and disjoint, what is read is   *)
(* exact, and the list implements module Reassembly.                       *)
(***************************************************************************)
EXTENDS SegmentList, SequenceTheorems, WellFoundedInduction, TLAPS

-----------------------------------------------------------------------------
(* Induction. *)

(* Every non-empty set of naturals has a least element. *)
LEMMA LeastOf ==
  ASSUME NEW T, T \subseteq Nat, T # {}
  PROVE  \E x \in T : \A y \in T : x <= y
<1>1. IsWellFoundedOn({ss \in Nat \X Nat : ss[1] < ss[2]}, Nat)
  BY NatLessThanWellFounded DEF OpToRel
<1>2. PICK x \in T :
        \A y \in T : ~(<<y, x>> \in {ss \in Nat \X Nat : ss[1] < ss[2]})
  BY <1>1, WFMin
<1>3. \A y \in T : /\ <<y, x>> \in Nat \X Nat
                   /\ <<y, x>>[1] = y /\ <<y, x>>[2] = x
  OBVIOUS
<1>4. \A y \in T : ~ (y < x)
  BY <1>2, <1>3
<1>. QED  BY <1>4

(* A set with 0, and with i + 1 if it has i < n, has every i up to n.      *)
LEMMA UpTo ==
  ASSUME NEW n \in Nat, NEW T, 0 \in T, \A i \in 0 .. (n - 1) : i \in T => i + 1 \in T
  PROVE  \A i \in 0 .. n : i \in T
<1>. DEFINE M == (0 .. n) \ T
<1>1. SUFFICES ASSUME M # {} PROVE FALSE
  OBVIOUS
<1>2. PICK x \in M : \A y \in M : x <= y
  <2>1. M \subseteq Nat
    OBVIOUS
  <2>. HIDE DEF M
  <2>. QED  BY <1>1, <2>1, LeastOf
<1>3. x \in Nat /\ x # 0 /\ x - 1 \in 0 .. (n - 1) /\ (x - 1) + 1 = x /\ ~ x <= x - 1
  BY <1>2
<1>. QED  BY <1>2, <1>3

-----------------------------------------------------------------------------
(* Nodes. *)

Nodes == [seq : Nat, data : Seq(Nat), fin : BOOLEAN]

(* What a part of the stream is, field by field.                           *)
LEMMA CutFields ==
  ASSUME NEW n, Cut(n)
  PROVE  /\ n \in Nodes /\ n.seq \in Nat /\ n.data \in Seq(Nat) /\ n.fin \in BOOLEAN
         /\ Len(n.data) \in Nat /\ DOMAIN n.data = 1 .. Len(n.data)
         /\ NodeEnd(n) \in Nat /\ NodeEnd(n) = n.seq + Len(n.data) + (IF n.fin THEN 1 ELSE 0)
         /\ First <= n.seq /\ n.seq + Len(n.data) <= First + Total
         /\ \A k \in 1 .. Len(n.data) : n.data[k] = (n.seq - First) + k
         /\ n.fin => n.seq + Len(n.data) = First + Total
<1>1. /\ n \in Nodes /\ First <= n.seq /\ n.seq + Len(n.data) <= First + Total
      /\ n.fin => n.seq + Len(n.data) = First + Total
  BY DEF Cut, Nodes
<1>2. n.seq \in Nat /\ n.data \in Seq(Nat) /\ n.fin \in BOOLEAN
  BY <1>1 DEF Nodes
<1>3. Len(n.data) \in Nat /\ DOMAIN n.data = 1 .. Len(n.data)
  BY <1>2
<1>4. \A k \in 1 .. Len(n.data) : n.data[k] = (n.seq - First) + k
  BY <1>3 DEF Cut
<1>5. NodeEnd(n) = n.seq + Len(n.data) + (IF n.fin THEN 1 ELSE 0)
  BY DEF NodeEnd, EndOf
<1>6. NodeEnd(n) \in Nat
  BY <1>2, <1>3, <1>5
<1>. QED  BY <1>1, <1>2, <1>3, <1>4, <1>5, <1>6

(* A node made of a piece of the data of another part of the stream.       *)
Part(s, m, len, fin) ==
  [seq |-> s.seq + m, data |-> SubSeq(s.data, m + 1, m + len), fin |-> fin]

(* Part of a segment that is cut from the stream is cut from it too.       *)
LEMMA CutOfCut ==
  ASSUME NEW s, Cut(s), NEW m \in Nat, NEW len \in Nat, m + len <= Len(s.data),
         NEW fin \in BOOLEAN, fin => m + len = Len(s.data) /\ s.fin
  PROVE  LET n == Part(s, m, len, fin) IN
         /\ Cut(n) /\ n.seq = s.seq + m
         /\ NodeEnd(n) = s.seq + m + len + (IF fin THEN 1 ELSE 0)
<1>n. PICK n : n = Part(s, m, len, fin)
  OBVIOUS
<1>. PICK q, sd, L, d : q = s.seq /\ sd = s.data /\ L = Len(sd) /\ d = SubSeq(sd, m + 1, m + len)
  OBVIOUS
<1>1. /\ q \in Nat /\ sd \in Seq(Nat) /\ L \in Nat /\ First <= q /\ q + L <= First + Total
      /\ s.fin => q + L = First + Total
  BY CutFields
<1>2. \A k \in 1 .. L : sd[k] \in Nat /\ sd[k] = (q - First) + k
  BY CutFields
<1>0. m \in Nat /\ len \in Nat /\ m + len <= L
  OBVIOUS
<1>3. \A i \in (m + 1) .. (m + len) : sd[i] \in Nat
  BY ONLY <1>0, <1>1, <1>2
<1>4. d \in Seq(Nat) /\ Len(d) = len /\ \A i \in 1 .. len : d[i] = sd[m + i]
  <2>1. /\ d \in Seq(Nat) /\ Len(d) = (IF m + 1 <= m + len THEN (m + len) - (m + 1) + 1 ELSE 0)
        /\ \A i \in 1 .. (m + len) - (m + 1) + 1 : d[i] = sd[(m + 1) + i - 1]
    <3>1. /\ m + 1 \in Int /\ m + len \in Int /\ sd \in Seq(Nat)
          /\ \A i \in (m + 1) .. (m + len) : sd[i] \in Nat
      BY ONLY <1>0, <1>1, <1>3
    <3>. PICK g, h : g = m + 1 /\ h = m + len
      OBVIOUS
    <3>2. g \in Int /\ h \in Int /\ \A i \in g .. h : sd[i] \in Nat
      BY <3>1
    <3>3. /\ SubSeq(sd, g, h) \in Seq(Nat)
          /\ Len(SubSeq(sd, g, h)) = (IF g <= h THEN h - g + 1 ELSE 0)
          /\ \A i \in 1 .. h - g + 1 : SubSeq(sd, g, h)[i] = sd[g + i - 1]
      BY ONLY <3>1, <3>2, SubSeqProperties
    <3>. QED  BY <3>3
  <2>2. (m + len) - (m + 1) + 1 = len /\ (m + 1 <= m + len <=> len # 0)
        /\ \A i \in 1 .. len : (m + 1) + i - 1 = m + i
    OBVIOUS
  <2>. QED  BY <2>1, <2>2
<1>5. q + m \in Nat /\ First <= q + m /\ (q + m) + len <= First + Total
      /\ (fin => (q + m) + len = First + Total)
  <2>1. m + len <= L /\ (fin => m + len = L /\ s.fin)
    OBVIOUS
  <2>. QED  BY <1>1, <2>1, SegmentAssumption
<1>6. \A i \in 1 .. len : d[i] = ((q + m) - First) + i
  <2>1. ASSUME NEW i \in 1 .. len PROVE d[i] = ((q + m) - First) + i
    <3>1. m + i \in 1 .. L
      BY <1>1
    <3>2. d[i] = (q - First) + (m + i)
      BY <1>2, <1>4, <3>1
    <3>3. q \in Int /\ First \in Int /\ i \in Int /\ m \in Int
      BY <1>1, SegmentAssumption
    <3>4. (q - First) + (m + i) = ((q + m) - First) + i
      BY ONLY <3>3
    <3>. QED  BY <3>2, <3>4
  <2>. QED  BY <2>1
<1>7. n = [seq |-> q + m, data |-> d, fin |-> fin]
  BY <1>n DEF Part
<1>8. n \in Nodes /\ n.seq = q + m /\ n.data = d /\ n.fin = fin
  BY ONLY <1>4, <1>5, <1>7, fin \in BOOLEAN DEF Nodes
<1>9. DOMAIN d = 1 .. len
  BY <1>4
<1>10. Cut(n)
  BY <1>4, <1>5, <1>6, <1>8, <1>9 DEF Cut, Nodes
<1>11. NodeEnd(n) = q + m + len + (IF fin THEN 1 ELSE 0)
  BY <1>4, <1>8 DEF NodeEnd, EndOf
<1>. QED  BY <1>n, <1>8, <1>10, <1>11

(* insert_before_node(): the node for [from, to) has the bytes of that     *)
(* place, and the FIN if it reaches it.                                    *)
LEMMA PieceProperty ==
  ASSUME NEW s, Cut(s), NEW from \in Nat, NEW to \in Nat,
         s.seq <= from, from < to, to <= NodeEnd(s)
  PROVE  Cut(Piece(s, from, to)) /\ Piece(s, from, to).seq = from
         /\ NodeEnd(Piece(s, from, to)) = to
<1>. PICK q, L, E : q = s.seq /\ L = Len(s.data) /\ E = NodeEnd(s)
  OBVIOUS
<1>f. PICK fin : fin = (to = NodeEnd(s) /\ s.fin)
  OBVIOUS
<1>a. fin \in BOOLEAN /\ (fin <=> (to = E /\ s.fin))
  BY <1>f
<1>b. PICK e : e = IF fin THEN to - 1 ELSE to
  OBVIOUS
<1>c. PICK m, len : m = from - q /\ len = e - from
  OBVIOUS
<1>1. /\ q \in Nat /\ L \in Nat /\ s.fin \in BOOLEAN /\ E = q + L + (IF s.fin THEN 1 ELSE 0)
      /\ q <= from /\ to <= E /\ from \in Nat /\ to \in Nat /\ from < to
  BY CutFields
<1>2. e \in Nat /\ from <= e /\ e <= q + L /\ (fin => e = q + L /\ s.fin)
  BY ONLY <1>a, <1>b, <1>1
<1>3. m \in Nat /\ len \in Nat /\ m + len <= L /\ q + m = from
      /\ (fin => m + len = L) /\ m + len = e - q
  BY ONLY <1>c, <1>1, <1>2
<1>4. (to - q) - (IF fin THEN 1 ELSE 0) = m + len /\ (from - q) + 1 = m + 1
  BY ONLY <1>a, <1>b, <1>c, <1>1, <1>2, <1>3
<1>. PICK p : p = Piece(s, from, to)
  OBVIOUS
<1>5. p = Part(s, m, len, fin)
  <2>1. p = [seq |-> from, data |-> SubSeq(s.data, (from - q) + 1,
                                         (to - q) - (IF fin THEN 1 ELSE 0)), fin |-> fin]
    BY <1>f, Zenon DEF Piece
  <2>. QED  BY <1>3, <1>4, <2>1 DEF Part
<1>6. m + len <= Len(s.data) /\ (fin => m + len = Len(s.data) /\ s.fin)
  BY <1>2, <1>3
<1>7. Cut(p) /\ p.seq = s.seq + m
      /\ NodeEnd(p) = s.seq + m + len + (IF fin THEN 1 ELSE 0)
  BY ONLY <1>3, <1>5, <1>6, <1>a, Cut(s), CutOfCut
<1>8. q + m + len + (IF fin THEN 1 ELSE 0) = to
  BY ONLY <1>a, <1>b, <1>c, <1>1, <1>2, <1>3
<1>. QED  BY <1>3, <1>7, <1>8

(* handle_incoming_segment() cuts a segment to the window: what is left    *)
(* is a part of the stream, with the FIN if that is in the window.         *)
LEMMA TrimProperty ==
  ASSUME NEW s, Cut(s), NEW w \in Nat, w < NodeEnd(s), s.seq < w + Window, First <= w,
         s.seq < NodeEnd(s)
  PROVE  LET t == Trim(s, w) IN
         /\ Cut(t) /\ t.seq < NodeEnd(t)
         /\ t.seq = IF s.seq < w THEN w ELSE s.seq
         /\ NodeEnd(t) = IF NodeEnd(s) > w + Window THEN w + Window ELSE NodeEnd(s)
<1>. PICK f : f = CutFront(s, w)
  OBVIOUS
<1>. PICK t : t = CutBack(f, w + Window)
  OBVIOUS
<1>a. PICK q, L, E, m : q = s.seq /\ L = Len(s.data) /\ E = NodeEnd(s)
                        /\ m = IF q < w THEN w - q ELSE 0
  OBVIOUS
<1>1. /\ q \in Nat /\ L \in Nat /\ s.fin \in BOOLEAN
      /\ E = q + L + (IF s.fin THEN 1 ELSE 0) /\ w < E /\ q < w + Window /\ q < E
      /\ w \in Nat
  BY <1>a, CutFields
<1>2. Window \in Nat /\ Window > 0
  BY WindowAssumption
<1>3. /\ m \in Nat /\ m <= L /\ q + m = (IF q < w THEN w ELSE q)
      /\ q + m < E /\ q + m < w + Window
  BY ONLY <1>a, <1>1, <1>2
<1>4. Cut(f) /\ f.seq = q + m /\ NodeEnd(f) = E
  <2>1. CASE q < w
    <3>a. PICK len : len = L - m
      OBVIOUS
    <3>b. PICK d : d = SubSeq(s.data, m + 1, L)
      OBVIOUS
    <3>1. f = [s EXCEPT !.seq = w, !.data = d]
      <4>1. (w - s.seq) + 1 = m + 1 /\ L = Len(s.data) /\ s.seq < w
        BY <1>a, <2>1
      <4>. QED  BY <3>b, <4>1, Zenon DEF CutFront
    <3>2. s \in Nodes
      BY CutFields
    <3>3. f = [seq |-> w, data |-> d, fin |-> s.fin]
      BY <3>1, <3>2 DEF Nodes
    <3>4. len \in Nat /\ m + len = L /\ w = q + m
      <4>1. q + m = w /\ len = L - m
        BY <1>3, <2>1, <3>a
      <4>. QED  BY ONLY <1>1, <1>3, <4>1
    <3>5. f = [seq |-> s.seq + m, data |-> SubSeq(s.data, m + 1, m + len), fin |-> s.fin]
      BY <1>a, <3>b, <3>3, <3>4
    <3>6. m + len = Len(s.data)
      BY ONLY <1>a, <3>4
    <3>7. m + len <= Len(s.data)
      BY ONLY <1>a, <1>1, <3>6
    <3>8. Cut(f) /\ f.seq = s.seq + m
          /\ NodeEnd(f) = s.seq + m + len + (IF s.fin THEN 1 ELSE 0)
      <4>. PICK fin : fin = s.fin
        OBVIOUS
      <4>0. m \in Nat /\ len \in Nat
        BY <1>3, <3>4
      <4>1. fin \in BOOLEAN /\ (fin => m + len = Len(s.data) /\ s.fin)
        BY <1>1, <3>6
      <4>2. f = Part(s, m, len, fin)
        BY <3>5 DEF Part
      <4>3. /\ Cut(f) /\ f.seq = s.seq + m
            /\ NodeEnd(f) = s.seq + m + len + (IF fin THEN 1 ELSE 0)
        BY ONLY <4>0, <3>7, <4>1, <4>2, Cut(s), CutOfCut
      <4>. QED  BY <4>3
    <3>9. q + m + len = q + L
      BY ONLY <1>1, <1>3, <3>4
    <3>. QED  BY ONLY <1>a, <1>1, <3>8, <3>9
  <2>2. CASE ~ q < w
    <3>1. f = s /\ m = 0
      BY <1>a, <2>2, Zenon DEF CutFront
    <3>2. q + 0 = q
      BY ONLY <1>1
    <3>. QED  BY <1>a, <3>1, <3>2
  <2>. QED  BY <2>1, <2>2
<1>b. PICK r, M : r = f.seq /\ M = Len(f.data)
  OBVIOUS
<1>5. /\ r \in Nat /\ M \in Nat /\ f.fin \in BOOLEAN /\ r = q + m
      /\ E = r + M + (IF f.fin THEN 1 ELSE 0)
  BY <1>b, <1>4, CutFields
<1>6. Cut(t) /\ t.seq = r /\ NodeEnd(t) = IF E > w + Window THEN w + Window ELSE E
  <2>1. CASE E > w + Window
    <3>a. PICK bytes : bytes = IF f.fin THEN (E - (w + Window)) - 1 ELSE E - (w + Window)
      OBVIOUS
    <3>b. PICK len : len = M - bytes
      OBVIOUS
    <3>c. PICK d : d = SubSeq(f.data, 1, len)
      OBVIOUS
    <3>1. t = [f EXCEPT !.fin = FALSE, !.data = d]
      <4>1. NodeEnd(f) > w + Window /\ len = Len(f.data) - bytes
            /\ bytes = (IF f.fin THEN (NodeEnd(f) - (w + Window)) - 1 ELSE NodeEnd(f) - (w + Window))
        BY <1>b, <1>4, <2>1, <3>a, <3>b
      <4>. QED  BY <3>c, <4>1, Zenon DEF CutBack
    <3>2. f \in Nodes
      BY <1>4, CutFields
    <3>3. t = [seq |-> f.seq, data |-> d, fin |-> FALSE]
      BY <3>1, <3>2 DEF Nodes
    <3>4. len \in Nat /\ len <= M /\ r + len = w + Window
      BY ONLY <1>1, <1>2, <1>3, <1>5, <2>1, <3>a, <3>b
    <3>5. f.seq + 0 = f.seq /\ 0 + 1 = 1 /\ 0 + len = len
      BY ONLY <1>b, <1>5, <3>4
    <3>6. t = [seq |-> f.seq + 0, data |-> SubSeq(f.data, 0 + 1, 0 + len), fin |-> FALSE]
      BY <3>c, <3>3, <3>5
    <3>7. 0 + len <= Len(f.data)
      BY ONLY <1>b, <3>4, <3>5
    <3>8. Cut(t) /\ t.seq = f.seq + 0 /\ NodeEnd(t) = f.seq + 0 + len + (IF FALSE THEN 1 ELSE 0)
      <4>. PICK fin, z : fin = FALSE /\ z = 0
        OBVIOUS
      <4>0. Cut(f)
        BY <1>4
      <4>1. fin \in BOOLEAN /\ (fin => z + len = Len(f.data) /\ f.fin) /\ z \in Nat /\ len \in Nat
        BY <3>4
      <4>2. t = Part(f, z, len, fin)
        BY <3>6 DEF Part
      <4>3. z + len <= Len(f.data)
        BY <3>7
      <4>4. /\ Cut(t) /\ t.seq = f.seq + z
            /\ NodeEnd(t) = f.seq + z + len + (IF fin THEN 1 ELSE 0)
        BY ONLY <4>0, <4>1, <4>2, <4>3, CutOfCut
      <4>. QED  BY <4>4
    <3>9. r + 0 + len + (IF FALSE THEN 1 ELSE 0) = w + Window
      BY ONLY <1>5, <3>4
    <3>. QED  BY ONLY <1>b, <2>1, <3>5, <3>8, <3>9
  <2>2. CASE ~ E > w + Window
    <3>1. t = f
      BY <1>4, <2>2, Zenon DEF CutBack
    <3>. QED  BY <1>b, <1>4, <2>2, <3>1
  <2>. QED  BY <2>1, <2>2
<1>7. t = Trim(s, w)
  BY DEF Trim
<1>8. t.seq < NodeEnd(t)
  BY ONLY <1>1, <1>2, <1>3, <1>5, <1>6
<1>9. t.seq = IF s.seq < w THEN w ELSE s.seq
  BY ONLY <1>a, <1>3, <1>5, <1>6
<1>. QED  BY <1>a, <1>6, <1>7, <1>8, <1>9

-----------------------------------------------------------------------------
(* Lists. *)

(* x is one of the sequence numbers of node n, or of a node of the list b. *)
In(n, x) == n.seq <= x /\ x < NodeEnd(n)

Covers(b, x) == \E k \in DOMAIN b : In(b[k], x)

Chain(b) == b \in Seq(Nodes) /\ Ordered(b)

Below(b, y) == \A k \in DOMAIN b : NodeEnd(b[k]) <= y

Within(b, lo, hi) == \A k \in DOMAIN b : lo <= b[k].seq /\ NodeEnd(b[k]) <= hi

(* A node of a list.                                                       *)
LEMMA ChainNode ==
  ASSUME NEW b, Chain(b), NEW k \in DOMAIN b
  PROVE  /\ b[k] \in Nodes /\ Cut(b[k]) /\ b[k].seq \in Nat /\ NodeEnd(b[k]) \in Nat
         /\ b[k].seq < NodeEnd(b[k])
         /\ k \in Nat /\ DOMAIN b = 1 .. Len(b) /\ Len(b) \in Nat
         /\ \A j \in DOMAIN b : k < j => NodeEnd(b[k]) <= b[j].seq
<1>1. Cut(b[k]) /\ b[k].seq < NodeEnd(b[k])
      /\ \A j \in DOMAIN b : k < j => NodeEnd(b[k]) <= b[j].seq
  BY DEF Chain, Ordered
<1>2. DOMAIN b = 1 .. Len(b) /\ Len(b) \in Nat
  BY DEF Chain
<1>. QED  BY <1>1, <1>2, CutFields

(* A node is put behind a list that ends before it.                        *)
LEMMA AppendNode ==
  ASSUME NEW b, Chain(b), NEW n, Cut(n), n.seq < NodeEnd(n), Below(b, n.seq),
         NEW c, c = b \o <<n>>
  PROVE  /\ Chain(c)
         /\ \A x \in Nat : Covers(c, x) <=> Covers(b, x) \/ In(n, x)
         /\ \A y : Below(b, y) /\ NodeEnd(n) <= y => Below(c, y)
         /\ \A lo, hi : Within(b, lo, hi) /\ lo <= n.seq /\ NodeEnd(n) <= hi => Within(c, lo, hi)
<1>. PICK m : m = Len(b)
  OBVIOUS
<1>1. b \in Seq(Nodes) /\ n \in Nodes /\ m \in Nat /\ DOMAIN b = 1 .. m
  BY CutFields DEF Chain
<1>2. c \in Seq(Nodes) /\ DOMAIN c = 1 .. m + 1 /\ c[m + 1] = n
      /\ \A k \in 1 .. m : c[k] = b[k]
  <2>1. <<n>> \in Seq(Nodes) /\ Len(<<n>>) = 1 /\ <<n>>[1] = n
    BY <1>1
  <2>. HIDE DEF Nodes
  <2>. PICK e : e = <<n>>
    OBVIOUS
  <2>2. c \in Seq(Nodes) /\ Len(c) = m + 1
        /\ \A k \in 1 .. (m + 1) : c[k] = IF k <= m THEN b[k] ELSE e[k - m]
    BY <1>1, <2>1, ConcatProperties
  <2>3. m + 1 \in 1 .. (m + 1) /\ ~ m + 1 <= m /\ (m + 1) - m = 1
        /\ \A k \in 1 .. m : k \in 1 .. (m + 1) /\ k <= m
    BY <1>1
  <2>4. c[m + 1] = n /\ \A k \in 1 .. m : c[k] = b[k]
    BY <2>1, <2>2, <2>3
  <2>. QED  BY <1>1, <2>2, <2>4
<1>3. \A k \in DOMAIN c : (k \in DOMAIN b /\ c[k] = b[k]) \/ (k = m + 1 /\ c[k] = n)
  <2>1. ASSUME NEW k \in 1 .. (m + 1), k # m + 1 PROVE k \in 1 .. m
    BY ONLY <1>1, <2>1
  <2>2. ASSUME NEW k \in DOMAIN c
        PROVE  (k \in DOMAIN b /\ c[k] = b[k]) \/ (k = m + 1 /\ c[k] = n)
    <3>1. k \in 1 .. (m + 1)
      BY <1>2
    <3>2. CASE k = m + 1
      BY <1>2, <3>2
    <3>3. CASE k # m + 1
      <4>1. k \in 1 .. m
        BY <2>1, <3>1, <3>3
      <4>2. k \in DOMAIN b
        BY ONLY <1>1, <4>1
      <4>3. c[k] = b[k]
        BY ONLY <1>2, <4>1
      <4>. QED  BY <4>2, <4>3
    <3>. QED  BY <3>2, <3>3
  <2>. QED  BY <2>2
<1>4. \A k \in DOMAIN b : k \in DOMAIN c /\ c[k] = b[k] /\ k < m + 1
  BY <1>1, <1>2
<1>5. m + 1 \in DOMAIN c
  BY <1>1, <1>2
<1>6. Ordered(c)
  <2>1. \A k \in DOMAIN c : Cut(c[k]) /\ c[k].seq < NodeEnd(c[k])
    BY <1>3 DEF Chain, Ordered
  <2>2. ASSUME NEW i \in DOMAIN c, NEW j \in DOMAIN c, i < j
        PROVE  NodeEnd(c[i]) <= c[j].seq
    <3>1. i \in DOMAIN b /\ c[i] = b[i]
      BY <1>1, <1>2, <2>2
    <3>2. CASE j \in DOMAIN b /\ c[j] = b[j]
      BY <2>2, <3>1, <3>2 DEF Chain, Ordered
    <3>3. CASE c[j] = n
      BY <3>1, <3>3 DEF Below
    <3>. QED  BY <1>3, <3>2, <3>3
  <2>. QED  BY <2>1, <2>2 DEF Ordered
<1>7. \A x \in Nat : Covers(c, x) <=> Covers(b, x) \/ In(n, x)
  BY <1>2, <1>3, <1>4, <1>5 DEF Covers
<1>8. \A y : Below(b, y) /\ NodeEnd(n) <= y => Below(c, y)
  BY <1>3 DEF Below
<1>9. \A lo, hi : Within(b, lo, hi) /\ lo <= n.seq /\ NodeEnd(n) <= hi => Within(c, lo, hi)
  BY <1>3 DEF Within
<1>. QED  BY <1>2, <1>6, <1>7, <1>8, <1>9 DEF Chain

(* A gap is filled from a segment, if there is one.                        *)
LEMMA FillProperty ==
  ASSUME NEW b, Chain(b), NEW s, Cut(s), NEW from \in Nat, NEW to \in Nat,
         s.seq <= from, to <= NodeEnd(s), from < to => Below(b, from)
  PROVE  LET c == b \o Fill(s, from, to) IN
         /\ Chain(c)
         /\ \A x \in Nat : Covers(c, x) <=> Covers(b, x) \/ (from <= x /\ x < to)
         /\ \A y : Below(b, y) /\ (from < to => to <= y) => Below(c, y)
         /\ \A lo, hi : Within(b, lo, hi) /\ (from < to => lo <= from /\ to <= hi) => Within(c, lo, hi)
<1>. PICK c : c = b \o Fill(s, from, to)
  OBVIOUS
<1>1. CASE from < to
  <2>. PICK n : n = Piece(s, from, to)
    OBVIOUS
  <2>1. Cut(n) /\ n.seq = from /\ NodeEnd(n) = to
    BY <1>1, PieceProperty
  <2>2. c = b \o <<n>>
    BY <1>1 DEF Fill
  <2>3. n.seq < NodeEnd(n) /\ Below(b, n.seq)
    BY <1>1, <2>1
  <2>4. /\ Chain(c)
        /\ \A x \in Nat : Covers(c, x) <=> Covers(b, x) \/ In(n, x)
        /\ \A y : Below(b, y) /\ NodeEnd(n) <= y => Below(c, y)
        /\ \A lo, hi : Within(b, lo, hi) /\ lo <= n.seq /\ NodeEnd(n) <= hi => Within(c, lo, hi)
    BY <2>1, <2>2, <2>3, AppendNode
  <2>5. \A x \in Nat : In(n, x) <=> from <= x /\ x < to
    BY <2>1 DEF In
  <2>. QED  BY <1>1, <2>1, <2>4, <2>5
<1>2. CASE ~ from < to
  <2>1. Fill(s, from, to) = <<>>
    BY <1>2 DEF Fill
  <2>2. c = b
    BY <2>1, ConcatEmptySeq DEF Chain
  <2>3. ASSUME NEW x \in Nat, from <= x, x < to PROVE FALSE
    BY <1>2, <2>3
  <2>. QED  BY <1>2, <2>2, <2>3
<1>. QED  BY <1>1, <1>2
-----------------------------------------------------------------------------
(* The insertion. *)

MergeStart(s) == [list |-> <<>>, pos |-> s.seq]

Merges(f, s, list, n) ==
  f = [i \in 0 .. n |-> IF i = 0 THEN MergeStart(s) ELSE Merge(f[i - 1], s, list[i])]

(* The loop of the insertion is defined.                                   *)
LEMMA MergesExist ==
  ASSUME NEW s, NEW list, NEW n \in Nat
  PROVE  \E f : Merges(f, s, list, n)
<1>. DEFINE T == {m \in Nat : \E f : Merges(f, s, list, m)}
<1>1. 0 \in T
  <2>. DEFINE h == [i \in 0 .. 0 |-> MergeStart(s)]
  <2>1. Merges(h, s, list, 0)
    <3>1. \A i \in 0 .. 0 : i = 0
      OBVIOUS
    <3>. QED  BY <3>1, Zenon DEF Merges
  <2>. QED  BY <2>1
<1>2. ASSUME NEW m \in 0 .. (n - 1), m \in T PROVE m + 1 \in T
  <2>1. PICK g : Merges(g, s, list, m)
    BY <1>2
  <2>. DEFINE h == [i \in 0 .. (m + 1) |-> IF i = m + 1 THEN Merge(g[m], s, list[m + 1]) ELSE g[i]]
              k == [i \in 0 .. (m + 1) |-> IF i = 0 THEN MergeStart(s) ELSE Merge(h[i - 1], s, list[i])]
  <2>2. m \in Nat /\ m \in 0 .. m /\ m + 1 # 0 /\ (m + 1) - 1 = m
        /\ m \in 0 .. (m + 1) /\ m # m + 1
    OBVIOUS
  <2>3. ASSUME NEW i \in 0 .. (m + 1) PROVE h[i] = k[i]
    <3>1. CASE i = m + 1
      <4>1. h[i] = Merge(g[m], s, list[m + 1]) /\ h[m] = g[m]
        BY <2>2, <3>1
      <4>2. k[i] = Merge(h[m], s, list[m + 1])
        BY <2>2, <3>1
      <4>. QED  BY <4>1, <4>2
    <3>2. CASE i # m + 1
      <4>1. i \in 0 .. m /\ (i # 0 => i - 1 \in 0 .. (m + 1) /\ i - 1 # m + 1)
        BY <2>2, <3>2
      <4>2. h[i] = g[i] /\ (i # 0 => h[i - 1] = g[i - 1])
        BY <3>2, <4>1
      <4>3. g[i] = IF i = 0 THEN MergeStart(s) ELSE Merge(g[i - 1], s, list[i])
        BY <2>1, <4>1, Zenon DEF Merges
      <4>. QED  BY <4>2, <4>3
    <3>. QED  BY <3>1, <3>2
  <2>4. Merges(h, s, list, m + 1)
    <3>1. h = k
      BY <2>3
    <3>. QED  BY <3>1 DEF Merges
  <2>. QED  BY <2>2, <2>4
<1>. HIDE DEF T
<1>3. n \in T
  BY <1>1, <1>2, UpTo
<1>. QED  BY <1>3 DEF T

(* What the loop has made of the first i nodes.                            *)
LEMMA MergeLoop ==
  ASSUME NEW s, NEW list, Len(list) \in Nat
  PROVE  \E f : /\ f[0] = MergeStart(s)
                /\ \A i \in 1 .. Len(list) : f[i] = Merge(f[i - 1], s, list[i])
                /\ InsertRobust(list, s) =
                     f[Len(list)].list \o Fill(s, f[Len(list)].pos, NodeEnd(s))
<1>. PICK n : n = Len(list) /\ n \in Nat
  OBVIOUS
<1>. DEFINE g == CHOOSE g : Merges(g, s, list, n)
<1>1. Merges(g, s, list, n)
  BY MergesExist
<1>2. InsertRobust(list, s) = g[n].list \o Fill(s, g[n].pos, NodeEnd(s))
  BY Zenon DEF InsertRobust, Merges, MergeStart
<1>. HIDE DEF g
<1>3. g[0] = MergeStart(s)
  <2>1. 0 \in 0 .. n
    OBVIOUS
  <2>. QED  BY <1>1, <2>1, Zenon DEF Merges
<1>4. ASSUME NEW i \in 1 .. n PROVE g[i] = Merge(g[i - 1], s, list[i])
  <2>1. i \in 0 .. n /\ i # 0
    OBVIOUS
  <2>. QED  BY <1>1, <2>1, Zenon DEF Merges
<1>. QED  BY <1>2, <1>3, <1>4

(* pos after a node: past the gap and the node, or at the end.             *)
LEMMA PastProperty ==
  ASSUME NEW s, NEW pos \in Nat, NEW node, node.seq \in Nat, NodeEnd(node) \in Nat,
         NodeEnd(s) \in Nat, node.seq < NodeEnd(node), pos <= NodeEnd(s)
  PROVE  LET m == Lower(node.seq, NodeEnd(s))
             p == Past(s, pos, node)
         IN /\ m \in Nat /\ m <= node.seq /\ m <= NodeEnd(s)
            /\ p \in Nat /\ pos <= p /\ p <= NodeEnd(s)
            /\ p = NodeEnd(s) \/ NodeEnd(node) <= p
            /\ pos < m => m <= p
            /\ \A x \in Nat : pos <= x /\ x < p => x < m \/ (node.seq <= x /\ x < NodeEnd(node))
<1>a. PICK end, a, e : end = NodeEnd(s) /\ a = node.seq /\ e = NodeEnd(node)
  OBVIOUS
<1>b. PICK m, p : m = Lower(a, end) /\ p = Past(s, pos, node)
  OBVIOUS
<1>c. PICK g : g = IF pos < a THEN m ELSE pos
  OBVIOUS
<1>0. end \in Nat /\ a \in Nat /\ e \in Nat /\ a < e /\ pos <= end /\ pos \in Nat
  BY <1>a
<1>1. m = IF a < end THEN a ELSE end
  BY <1>b DEF Lower
<1>2. p = IF g < e THEN (IF e < end THEN e ELSE end) ELSE g
  <2>1. Past(s, pos, node) = IF (IF pos < a THEN Lower(a, end) ELSE pos) < e THEN Lower(e, end)
                             ELSE (IF pos < a THEN Lower(a, end) ELSE pos)
    BY <1>a, Zenon DEF Past
  <2>2. p = IF g < e THEN Lower(e, end) ELSE g
    BY <1>b, <1>c, <2>1
  <2>. QED  BY <2>2 DEF Lower
<1>3. /\ m \in Nat /\ m <= a /\ m <= end /\ p \in Nat /\ pos <= p /\ p <= end
      /\ p = end \/ e <= p
      /\ pos < m => m <= p
  BY ONLY <1>0, <1>1, <1>2, <1>c
<1>4. ASSUME NEW x \in Nat, pos <= x, x < p PROVE x < m \/ (a <= x /\ x < e)
  <2>1. x \in Nat
    OBVIOUS
  <2>. QED  BY ONLY <1>0, <1>1, <1>2, <1>c, <1>4, <2>1
<1>. QED  BY <1>a, <1>b, <1>3, <1>4

(* One turn of the loop.                                                   *)
LEMMA MergeStep ==
  ASSUME NEW s, Cut(s), NEW b, Chain(b), NEW pos \in Nat, s.seq <= pos, pos <= NodeEnd(s),
         pos # NodeEnd(s) => Below(b, pos),
         NEW node, Cut(node), node.seq < NodeEnd(node), Below(b, node.seq),
         NEW v, v = Merge([list |-> b, pos |-> pos], s, node)
  PROVE  /\ Chain(v.list) /\ v.pos \in Nat /\ s.seq <= v.pos /\ v.pos <= NodeEnd(s)
         /\ v.pos # NodeEnd(s) => Below(v.list, v.pos)
         /\ \A y \in Nat : Below(b, y) /\ NodeEnd(node) <= y => Below(v.list, y)
         /\ \A x \in Nat : Covers(v.list, x) => Covers(b, x) \/ In(node, x) \/ (s.seq <= x /\ x < v.pos)
         /\ \A x \in Nat : Covers(b, x) \/ In(node, x) \/ (pos <= x /\ x < v.pos) => Covers(v.list, x)
         /\ pos <= v.pos
         /\ \A lo, hi \in Nat : /\ Within(b, lo, hi) /\ lo <= s.seq /\ NodeEnd(s) <= hi
                                /\ lo <= node.seq /\ NodeEnd(node) <= hi
                                => Within(v.list, lo, hi)
<1>a. PICK q, end, a, e : q = s.seq /\ end = NodeEnd(s) /\ a = node.seq /\ e = NodeEnd(node)
  OBVIOUS
<1>b. PICK m, p : m = Lower(a, end) /\ p = Past(s, pos, node)
  OBVIOUS
<1>c. PICK c : c = b \o Fill(s, pos, m)
  OBVIOUS
<1>d. PICK d : d = c \o <<node>>
  OBVIOUS
<1>1. v.list = d /\ v.pos = p
  <2>. PICK u : u = [list |-> b, pos |-> pos]
    OBVIOUS
  <2>1. u.list = b /\ u.pos = pos
    OBVIOUS
  <2>2. v = [list |-> (u.list \o Fill(s, u.pos, Lower(node.seq, NodeEnd(s)))) \o <<node>>,
             pos |-> Past(s, u.pos, node)]
    BY Zenon DEF Merge
  <2>3. v = [list |-> d, pos |-> p]
    BY <1>a, <1>b, <1>c, <1>d, <2>1, <2>2
  <2>. QED  BY <2>3
<1>2. /\ q \in Nat /\ end \in Nat /\ a \in Nat /\ e \in Nat /\ a < e
      /\ pos \in Nat /\ q <= pos /\ pos <= end
  BY <1>a, CutFields
<1>3. /\ m \in Nat /\ m <= a /\ m <= end /\ p \in Nat /\ pos <= p /\ p <= end
      /\ p = end \/ e <= p
      /\ pos < m => m <= p
      /\ \A x \in Nat : pos <= x /\ x < p => (pos <= x /\ x < m) \/ (a <= x /\ x < e)
  <2>1. /\ node.seq \in Nat /\ NodeEnd(node) \in Nat /\ NodeEnd(s) \in Nat
        /\ node.seq < NodeEnd(node) /\ pos <= NodeEnd(s) /\ pos \in Nat
    BY <1>a, <1>2
  <2>2. m = Lower(node.seq, NodeEnd(s)) /\ p = Past(s, pos, node)
    BY <1>a, <1>b
  <2>3. /\ m \in Nat /\ m <= node.seq /\ m <= NodeEnd(s)
        /\ p \in Nat /\ pos <= p /\ p <= NodeEnd(s)
        /\ p = NodeEnd(s) \/ NodeEnd(node) <= p
        /\ pos < m => m <= p
        /\ \A x \in Nat : pos <= x /\ x < p => x < m \/ (node.seq <= x /\ x < NodeEnd(node))
    BY ONLY <2>1, <2>2, PastProperty
  <2>. QED  BY <1>a, <2>3
<1>4. pos < m => Below(b, pos)
  <2>1. pos < m => pos # end
    BY ONLY <1>2, <1>3
  <2>. QED  BY <1>a, <2>1
<1>5. /\ Chain(c)
      /\ \A x \in Nat : Covers(c, x) <=> Covers(b, x) \/ (pos <= x /\ x < m)
      /\ \A y : Below(b, y) /\ (pos < m => m <= y) => Below(c, y)
      /\ \A lo, hi : Within(b, lo, hi) /\ (pos < m => lo <= pos /\ m <= hi) => Within(c, lo, hi)
  <2>1. s.seq <= pos /\ m <= NodeEnd(s) /\ m \in Nat
    BY ONLY <1>a, <1>2, <1>3
  <2>2. pos \in Nat /\ Cut(s) /\ Chain(b)
    OBVIOUS
  <2>. QED  BY ONLY <1>4, <2>1, <2>2, <1>c, FillProperty
<1>6. Below(c, a)
  <2>1. Below(b, a)
    BY <1>a
  <2>. QED  BY <1>3, <1>5, <2>1
<1>7. /\ Chain(d)
      /\ \A x \in Nat : Covers(d, x) <=> Covers(c, x) \/ In(node, x)
      /\ \A y : Below(c, y) /\ e <= y => Below(d, y)
      /\ \A lo, hi : Within(c, lo, hi) /\ lo <= a /\ e <= hi => Within(d, lo, hi)
  <2>1. node.seq < NodeEnd(node) /\ Below(c, node.seq)
    BY <1>a, <1>6
  <2>2. /\ Chain(d)
        /\ \A x \in Nat : Covers(d, x) <=> Covers(c, x) \/ In(node, x)
        /\ \A y : Below(c, y) /\ NodeEnd(node) <= y => Below(d, y)
        /\ \A lo, hi : Within(c, lo, hi) /\ lo <= node.seq /\ NodeEnd(node) <= hi => Within(d, lo, hi)
    BY ONLY <1>5, <2>1, <1>d, Cut(node), AppendNode
  <2>. QED  BY <1>a, <2>2
<1>8. p # end => Below(d, p)
  <2>1. SUFFICES ASSUME p # end PROVE Below(d, p)
    OBVIOUS
  <2>2. e <= p /\ pos # end /\ (pos < m => m <= p)
    BY ONLY <1>2, <1>3, <2>1
  <2>3. Below(b, pos)
    BY <1>a, <2>2
  <2>4. Below(b, p)
    <3>1. ASSUME NEW k \in DOMAIN b PROVE NodeEnd(b[k]) <= p
      <4>1. NodeEnd(b[k]) \in Nat
        BY ChainNode
      <4>2. NodeEnd(b[k]) <= pos
        BY <2>3 DEF Below
      <4>. QED  BY ONLY <1>2, <1>3, <4>1, <4>2
    <3>. QED  BY <3>1 DEF Below
  <2>. QED  BY <1>5, <1>7, <2>2, <2>4
<1>9. ASSUME NEW y \in Nat, Below(b, y), e <= y PROVE Below(d, y)
  <2>1. m <= y
    BY ONLY <1>2, <1>3, <1>9, y \in Nat
  <2>. QED  BY <1>5, <1>7, <1>9, <2>1
<1>10. \A x \in Nat : In(node, x) <=> a <= x /\ x < e
  BY <1>a DEF In
<1>11. ASSUME NEW x \in Nat
       PROVE  /\ Covers(d, x) => Covers(b, x) \/ In(node, x) \/ (q <= x /\ x < p)
              /\ Covers(b, x) \/ In(node, x) \/ (pos <= x /\ x < p) => Covers(d, x)
  <2>1. Covers(d, x) <=> Covers(b, x) \/ (pos <= x /\ x < m) \/ In(node, x)
    BY <1>5, <1>7
  <2>2. pos <= x /\ x < p => (pos <= x /\ x < m) \/ In(node, x)
    BY <1>3, <1>10
  <2>3. pos <= x /\ x < m => q <= x /\ x < p
    <3>1. x \in Nat
      OBVIOUS
    <3>. QED  BY ONLY <1>2, <1>3, <3>1
  <2>. QED  BY <2>1, <2>2, <2>3
<1>12. ASSUME NEW lo \in Nat, NEW hi \in Nat, Within(b, lo, hi), lo <= q, end <= hi, lo <= a, e <= hi
       PROVE  Within(d, lo, hi)
  <2>1. pos < m => lo <= pos /\ m <= hi
    <3>1. lo \in Nat /\ hi \in Nat
      OBVIOUS
    <3>. QED  BY ONLY <1>2, <1>3, <1>12, <3>1
  <2>. QED  BY <1>5, <1>7, <1>12, <2>1
<1>13. q <= p /\ p <= end
  BY ONLY <1>2, <1>3
<1>. QED  BY <1>a, <1>1, <1>3, <1>7, <1>8, <1>9, <1>11, <1>12, <1>13

-----------------------------------------------------------------------------
(* What the loop has when it has passed i nodes: they and the segment up   *)
(* to pos are in the new list, which ends before every node to come.       *)
Merged(u, s, list, i, lo, hi) ==
  /\ Chain(u.list) /\ u.pos \in Nat /\ s.seq <= u.pos /\ u.pos <= NodeEnd(s)
  /\ u.pos # NodeEnd(s) => Below(u.list, u.pos)
  /\ \A j \in 1 .. Len(list) : i < j => Below(u.list, list[j].seq)
  /\ \A x \in Nat : Covers(u.list, x) <=> \/ \E j \in 1 .. Len(list) : j <= i /\ In(list[j], x)
                                          \/ s.seq <= x /\ x < u.pos
  /\ Within(u.list, lo, hi)

(* Before the first node nothing is merged.                                *)
LEMMA MergedStart ==
  ASSUME NEW s, Cut(s), s.seq < NodeEnd(s), NEW list, Chain(list), NEW lo, NEW hi
  PROVE  Merged(MergeStart(s), s, list, 0, lo, hi)
<1>. PICK u, b : u = MergeStart(s) /\ b = u.list
  OBVIOUS
<1>1. b = <<>> /\ u.pos = s.seq
  BY DEF MergeStart
<1>2. <<>> \in Seq(Nodes) /\ DOMAIN <<>> = {}
  OBVIOUS
<1>3. b \in Seq(Nodes) /\ DOMAIN b = {}
  BY <1>1, <1>2
<1>4. Chain(b) /\ Within(b, lo, hi) /\ (\A y : Below(b, y)) /\ (\A x : ~ Covers(b, x))
  BY <1>3, Zenon DEF Chain, Ordered, Within, Below, Covers
<1>5. s.seq \in Nat /\ NodeEnd(s) \in Nat
  BY CutFields
<1>6. s.seq <= s.seq /\ s.seq <= NodeEnd(s)
  BY <1>5
<1>7. \A x \in Nat : ~ (s.seq <= x /\ x < s.seq) /\ ~ \E j \in 1 .. Len(list) : j <= 0 /\ In(list[j], x)
  BY <1>5
<1>. QED  BY <1>1, <1>4, <1>5, <1>6, <1>7 DEF Merged

(* One more node of the list is merged with the segment.                   *)
LEMMA MergedStep ==
  ASSUME NEW s, Cut(s), NEW list, Chain(list), NEW lo \in Nat, NEW hi \in Nat,
         Within(list, lo, hi), lo <= s.seq, NodeEnd(s) <= hi,
         NEW i \in 1 .. Len(list), NEW u, Merged(u, s, list, i - 1, lo, hi)
  PROVE  Merged(Merge(u, s, list[i]), s, list, i, lo, hi)
<1>. PICK n, node : n = Len(list) /\ node = list[i]
  OBVIOUS
<1>. PICK b, pos : b = u.list /\ pos = u.pos
  OBVIOUS
<1>. PICK v : v = Merge(u, s, node)
  OBVIOUS
<1>0. n \in Nat /\ DOMAIN list = 1 .. n /\ i \in 1 .. n /\ i - 1 < i
  BY DEF Chain
<1>1. /\ Cut(node) /\ node.seq < NodeEnd(node) /\ node.seq \in Nat /\ NodeEnd(node) \in Nat
      /\ \A j \in 1 .. n : i < j => NodeEnd(node) <= list[j].seq
      /\ lo <= node.seq /\ NodeEnd(node) <= hi
  <2>1. i \in DOMAIN list
    BY <1>0
  <2>. QED  BY <1>0, <2>1, ChainNode DEF Within
<1>2. /\ Chain(b) /\ pos \in Nat /\ s.seq <= pos /\ pos <= NodeEnd(s)
      /\ pos # NodeEnd(s) => Below(b, pos)
      /\ \A j \in 1 .. n : i - 1 < j => Below(b, list[j].seq)
      /\ \A x \in Nat : Covers(b, x) <=> \/ \E j \in 1 .. n : j <= i - 1 /\ In(list[j], x)
                                         \/ s.seq <= x /\ x < pos
      /\ Within(b, lo, hi)
  BY DEF Merged
<1>3. Below(b, node.seq)
  BY <1>0, <1>2
<1>4. v = Merge([list |-> b, pos |-> pos], s, node)
  <2>. PICK w : w = [list |-> b, pos |-> pos]
    OBVIOUS
  <2>1. w.list = u.list /\ w.pos = u.pos
    OBVIOUS
  <2>2. Merge(w, s, node) = Merge(u, s, node)
    BY ONLY <2>1, Zenon DEF Merge
  <2>. QED  BY <2>2
<1>5. /\ Chain(v.list) /\ v.pos \in Nat /\ s.seq <= v.pos /\ v.pos <= NodeEnd(s)
      /\ v.pos # NodeEnd(s) => Below(v.list, v.pos)
      /\ \A y \in Nat : Below(b, y) /\ NodeEnd(node) <= y => Below(v.list, y)
      /\ \A x \in Nat : Covers(v.list, x) => Covers(b, x) \/ In(node, x) \/ (s.seq <= x /\ x < v.pos)
      /\ \A x \in Nat : Covers(b, x) \/ In(node, x) \/ (pos <= x /\ x < v.pos) => Covers(v.list, x)
      /\ pos <= v.pos
      /\ \A l, h \in Nat : /\ Within(b, l, h) /\ l <= s.seq /\ NodeEnd(s) <= h
                           /\ l <= node.seq /\ NodeEnd(node) <= h
                           => Within(v.list, l, h)
  BY ONLY <1>1, <1>2, <1>3, <1>4, Cut(s), MergeStep
<1>6. ASSUME NEW j \in 1 .. n, i < j PROVE Below(v.list, list[j].seq)
  <2>1. j \in DOMAIN list
    BY <1>0
  <2>2. list[j].seq \in Nat
    BY <2>1, ChainNode
  <2>3. i - 1 < j
    BY <1>0, <1>6
  <2>. QED  BY <1>1, <1>2, <1>5, <1>6, <2>2, <2>3
<1>7. Within(v.list, lo, hi)
  BY <1>1, <1>2, <1>5
<1>8. s.seq \in Nat
  BY CutFields
<1>9. ASSUME NEW x \in Nat
      PROVE  Covers(v.list, x) <=> \/ \E j \in 1 .. n : j <= i /\ In(list[j], x)
                                   \/ s.seq <= x /\ x < v.pos
  <2>1. (\E j \in 1 .. n : j <= i /\ In(list[j], x))
        <=> (\E j \in 1 .. n : j <= i - 1 /\ In(list[j], x)) \/ In(node, x)
    <3>1. \A j \in 1 .. n : j <= i <=> (j <= i - 1 \/ j = i)
      BY <1>0
    <3>. QED  BY <1>0, <3>1
  <2>2. Covers(b, x) <=> \/ \E j \in 1 .. n : j <= i - 1 /\ In(list[j], x)
                         \/ s.seq <= x /\ x < pos
    BY <1>2
  <2>3. s.seq <= x /\ x < pos => s.seq <= x /\ x < v.pos
    <3>1. x \in Nat
      OBVIOUS
    <3>. QED  BY ONLY <1>2, <1>5, <1>8, <3>1
  <2>4. s.seq <= x /\ x < v.pos => (s.seq <= x /\ x < pos) \/ (pos <= x /\ x < v.pos)
    <3>1. x \in Nat
      OBVIOUS
    <3>. QED  BY ONLY <1>2, <1>5, <1>8, <3>1
  <2>5. Covers(v.list, x) => Covers(b, x) \/ In(node, x) \/ (s.seq <= x /\ x < v.pos)
    BY <1>5
  <2>6. Covers(b, x) \/ In(node, x) \/ (pos <= x /\ x < v.pos) => Covers(v.list, x)
    BY <1>5
  <2>. QED  BY ONLY <2>1, <2>2, <2>3, <2>4, <2>5, <2>6
<1>. QED  BY <1>5, <1>6, <1>7, <1>9 DEF Merged

(* insert_segment_to_receive_buffer_robust(): the list stays one, and what *)
(* it covers grows by the segment.                                         *)
LEMMA InsertProperty ==
  ASSUME NEW s, Cut(s), s.seq < NodeEnd(s), NEW list, Chain(list), NEW lo \in Nat, NEW hi \in Nat,
         Within(list, lo, hi), lo <= s.seq, NodeEnd(s) <= hi
  PROVE  LET c == InsertRobust(list, s) IN
         /\ Chain(c) /\ Within(c, lo, hi)
         /\ \A x \in Nat : Covers(c, x) <=> Covers(list, x) \/ In(s, x)
<1>. PICK c : c = InsertRobust(list, s)
  OBVIOUS
<1>. PICK n : n = Len(list)
  OBVIOUS
<1>0. n \in Nat /\ DOMAIN list = 1 .. n
  BY DEF Chain
<1>1. PICK f : /\ f[0] = MergeStart(s)
               /\ \A i \in 1 .. n : f[i] = Merge(f[i - 1], s, list[i])
               /\ c = f[n].list \o Fill(s, f[n].pos, NodeEnd(s))
  <2>1. Len(list) \in Nat
    BY <1>0
  <2>. QED  BY <2>1, MergeLoop
<1>. DEFINE T == {i \in 0 .. n : Merged(f[i], s, list, i, lo, hi)}
<1>2. 0 \in T
  <2>1. Merged(f[0], s, list, 0, lo, hi)
    BY <1>1, MergedStart
  <2>. QED  BY <1>0, <2>1
<1>3. ASSUME NEW i \in 0 .. (n - 1), i \in T PROVE i + 1 \in T
  <2>1. i + 1 \in 1 .. n /\ (i + 1) - 1 = i /\ i + 1 \in 0 .. n
    BY <1>0
  <2>2. Merged(f[i], s, list, (i + 1) - 1, lo, hi)
    BY <1>3, <2>1
  <2>3. f[i + 1] = Merge(f[i], s, list[i + 1])
    BY <1>1, <2>1
  <2>. PICK u, j : u = f[i] /\ j = i + 1
    OBVIOUS
  <2>4. j \in 1 .. Len(list) /\ Merged(u, s, list, j - 1, lo, hi)
    BY <2>1, <2>2
  <2>5. Merged(Merge(u, s, list[j]), s, list, j, lo, hi)
    BY <2>4, MergedStep
  <2>. QED  BY <2>1, <2>3, <2>5
<1>. HIDE DEF T
<1>4. n \in T
  <2>1. n \in 0 .. n
    BY <1>0
  <2>2. \A i \in 0 .. n : i \in T
    BY <1>0, <1>2, <1>3, UpTo
  <2>. QED  BY <2>1, <2>2
<1>. PICK u : u = f[n]
  OBVIOUS
<1>. PICK b, pos, end : b = u.list /\ pos = u.pos /\ end = NodeEnd(s)
  OBVIOUS
<1>5. /\ Chain(b) /\ pos \in Nat /\ s.seq <= pos /\ pos <= end
      /\ pos # end => Below(b, pos)
      /\ \A x \in Nat : Covers(b, x) <=> \/ \E j \in 1 .. n : j <= n /\ In(list[j], x)
                                         \/ s.seq <= x /\ x < pos
      /\ Within(b, lo, hi)
  <2>1. Merged(u, s, list, n, lo, hi)
    BY <1>4 DEF T
  <2>. QED  BY <2>1 DEF Merged
<1>6. s.seq \in Nat /\ end \in Nat
  BY CutFields
<1>7. end \in Nat /\ end <= NodeEnd(s) /\ (pos < end => Below(b, pos)) /\ c = b \o Fill(s, pos, end)
  BY <1>1, <1>5, <1>6
<1>8. /\ Chain(c)
      /\ \A x \in Nat : Covers(c, x) <=> Covers(b, x) \/ (pos <= x /\ x < end)
      /\ \A l, h : Within(b, l, h) /\ (pos < end => l <= pos /\ end <= h) => Within(c, l, h)
  BY ONLY <1>5, <1>7, Cut(s), FillProperty
<1>9. Within(c, lo, hi)
  <2>1. lo \in Nat /\ lo <= s.seq
    OBVIOUS
  <2>2. lo <= pos
    BY ONLY <1>5, <1>6, <2>1
  <2>. QED  BY <1>5, <1>8, <2>2
<1>10. ASSUME NEW x \in Nat PROVE Covers(c, x) <=> Covers(list, x) \/ In(s, x)
  <2>1. Covers(list, x) <=> \E j \in 1 .. n : j <= n /\ In(list[j], x)
    BY <1>0 DEF Covers
  <2>2. In(s, x) <=> s.seq <= x /\ x < end
    BY DEF In
  <2>3. (s.seq <= x /\ x < end) <=> (s.seq <= x /\ x < pos) \/ (pos <= x /\ x < end)
    <3>1. x \in Nat
      OBVIOUS
    <3>. QED  BY ONLY <1>5, <1>6, <3>1
  <2>4. Covers(c, x) <=> Covers(b, x) \/ (pos <= x /\ x < end)
    BY <1>8
  <2>5. Covers(b, x) <=> \/ \E j \in 1 .. n : j <= n /\ In(list[j], x)
                         \/ s.seq <= x /\ x < pos
    BY <1>5
  <2>. QED  BY ONLY <2>1, <2>2, <2>3, <2>4, <2>5
<1>. QED  BY <1>8, <1>9, <1>10

-----------------------------------------------------------------------------
(* The flush. *)

(* Numbered from a + 1 on, and then on from there.                         *)
LEMMA ReadOn ==
  ASSUME NEW d \in Seq(Nat), NEW e \in Seq(Nat), NEW a \in Nat,
         \A k \in 1 .. Len(d) : d[k] = a + k,
         \A k \in 1 .. Len(e) : e[k] = (a + Len(d)) + k
  PROVE  LET c == d \o e IN
         /\ c \in Seq(Nat) /\ Len(c) = Len(d) + Len(e)
         /\ \A k \in 1 .. Len(c) : c[k] = a + k
<1>. PICK c, m, n : c = d \o e /\ m = Len(d) /\ n = Len(e)
  OBVIOUS
<1>1. m \in Nat /\ n \in Nat
  OBVIOUS
<1>2. c \in Seq(Nat) /\ Len(c) = m + n
      /\ \A k \in 1 .. (m + n) : c[k] = IF k <= m THEN d[k] ELSE e[k - m]
  BY ConcatProperties
<1>3. ASSUME NEW k \in 1 .. (m + n) PROVE c[k] = a + k
  <2>1. CASE k <= m
    <3>1. k \in 1 .. m
      BY <1>1, <2>1
    <3>. QED  BY <1>2, <2>1, <3>1
  <2>2. CASE ~ k <= m
    <3>. PICK j : j = k - m
      OBVIOUS
    <3>1. k \in 1 .. (m + n) /\ a \in Nat
      OBVIOUS
    <3>2. j \in 1 .. n /\ (a + m) + j = a + k
      BY ONLY <1>1, <2>2, <3>1, j = k - m
    <3>3. c[k] = e[j]
      BY <1>2, <2>2
    <3>4. e[j] = (a + m) + j
      BY <3>2
    <3>. QED  BY <3>2, <3>3, <3>4
  <2>. QED  BY <2>1, <2>2
<1>. QED  BY <1>1, <1>2, <1>3

FlushStart(r) == [next |-> r, bytes |-> <<>>, taken |-> 0, fin |-> FALSE]

Takes(f, list, r, n) ==
  f = [i \in 0 .. n |-> IF i = 0 THEN FlushStart(r) ELSE Take(f[i - 1], list, i)]

(* The loop of the flush is defined.                                       *)
LEMMA TakesExist ==
  ASSUME NEW r, NEW list, NEW n \in Nat
  PROVE  \E f : Takes(f, list, r, n)
<1>. DEFINE T == {m \in Nat : \E f : Takes(f, list, r, m)}
<1>1. 0 \in T
  <2>. DEFINE h == [i \in 0 .. 0 |-> FlushStart(r)]
  <2>1. Takes(h, list, r, 0)
    <3>1. \A i \in 0 .. 0 : i = 0
      OBVIOUS
    <3>. QED  BY <3>1, Zenon DEF Takes
  <2>. QED  BY <2>1
<1>2. ASSUME NEW m \in 0 .. (n - 1), m \in T PROVE m + 1 \in T
  <2>1. PICK g : Takes(g, list, r, m)
    BY <1>2
  <2>. DEFINE h == [i \in 0 .. (m + 1) |-> IF i = m + 1 THEN Take(g[m], list, m + 1) ELSE g[i]]
              k == [i \in 0 .. (m + 1) |-> IF i = 0 THEN FlushStart(r) ELSE Take(h[i - 1], list, i)]
  <2>2. m \in Nat /\ m \in 0 .. m /\ m + 1 # 0 /\ (m + 1) - 1 = m
        /\ m \in 0 .. (m + 1) /\ m # m + 1
    OBVIOUS
  <2>3. ASSUME NEW i \in 0 .. (m + 1) PROVE h[i] = k[i]
    <3>1. CASE i = m + 1
      <4>1. h[i] = Take(g[m], list, m + 1) /\ h[m] = g[m]
        BY <2>2, <3>1
      <4>2. k[i] = Take(h[m], list, m + 1)
        BY <2>2, <3>1
      <4>. QED  BY <4>1, <4>2
    <3>2. CASE i # m + 1
      <4>1. i \in 0 .. m /\ (i # 0 => i - 1 \in 0 .. (m + 1) /\ i - 1 # m + 1)
        BY <2>2, <3>2
      <4>2. h[i] = g[i] /\ (i # 0 => h[i - 1] = g[i - 1])
        BY <3>2, <4>1
      <4>3. g[i] = IF i = 0 THEN FlushStart(r) ELSE Take(g[i - 1], list, i)
        BY <2>1, <4>1, Zenon DEF Takes
      <4>. QED  BY <4>2, <4>3
    <3>. QED  BY <3>1, <3>2
  <2>4. Takes(h, list, r, m + 1)
    <3>1. h = k
      BY <2>3
    <3>. QED  BY <3>1 DEF Takes
  <2>. QED  BY <2>2, <2>4
<1>. HIDE DEF T
<1>3. n \in T
  BY <1>1, <1>2, UpTo
<1>. QED  BY <1>3 DEF T

(* What the loop has done when it has looked at the first i nodes.         *)
LEMMA TakeLoop ==
  ASSUME NEW r, NEW list, Len(list) \in Nat
  PROVE  \E f : /\ f[0] = FlushStart(r)
                /\ \A i \in 1 .. Len(list) : f[i] = Take(f[i - 1], list, i)
                /\ Flush(list, r) = f[Len(list)]
<1>. PICK n : n = Len(list) /\ n \in Nat
  OBVIOUS
<1>. DEFINE g == CHOOSE g : Takes(g, list, r, n)
<1>1. Takes(g, list, r, n)
  BY TakesExist
<1>2. Flush(list, r) = g[n]
  BY Zenon DEF Flush, Takes, FlushStart
<1>. HIDE DEF g
<1>3. g[0] = FlushStart(r)
  <2>1. 0 \in 0 .. n
    OBVIOUS
  <2>. QED  BY <1>1, <2>1, Zenon DEF Takes
<1>4. ASSUME NEW i \in 1 .. n PROVE g[i] = Take(g[i - 1], list, i)
  <2>1. i \in 0 .. n /\ i # 0
    OBVIOUS
  <2>. QED  BY <1>1, <2>1, Zenon DEF Takes
<1>. QED  BY <1>2, <1>3, <1>4

(* The bytes read from sequence number r on, and the next one expected.    *)
Read(u, r) ==
  /\ u.bytes \in Seq(Nat) /\ u.fin \in BOOLEAN
  /\ u.next = r + Len(u.bytes) + (IF u.fin THEN 1 ELSE 0)
  /\ r + Len(u.bytes) <= First + Total
  /\ u.fin => r + Len(u.bytes) = First + Total
  /\ \A k \in 1 .. Len(u.bytes) : u.bytes[k] = (r - First) + k

(* What the loop has done when it has looked at i nodes: it took the first *)
(* ones, up to a gap or the FIN.                                           *)
Taken(u, list, r, i) ==
  /\ Read(u, r)
  /\ u.taken \in Nat /\ u.taken <= i
  /\ u.taken < i => u.fin \/ list[u.taken + 1].seq # u.next
  /\ \A k \in 1 .. Len(list) : IF k <= u.taken THEN NodeEnd(list[k]) <= u.next
                               ELSE u.next <= list[k].seq
  /\ \A x \in Nat : r <= x /\ x < u.next => \E k \in 1 .. Len(list) : k <= u.taken /\ In(list[k], x)

(* Before the first node nothing is taken from the list.                   *)
LEMMA TakenStart ==
  ASSUME NEW r \in Nat, First <= r, r <= First + Total,
         NEW list, Chain(list), \A k \in DOMAIN list : r <= list[k].seq
  PROVE  Taken(FlushStart(r), list, r, 0)
<1>. PICK u : u = FlushStart(r)
  OBVIOUS
<1>1. u.next = r /\ u.bytes = <<>> /\ u.taken = 0 /\ u.fin = FALSE
  BY DEF FlushStart
<1>2. <<>> \in Seq(Nat) /\ Len(<<>>) = 0
  OBVIOUS
<1>3. u.bytes \in Seq(Nat) /\ Len(u.bytes) = 0 /\ ~ u.fin /\ u.fin \in BOOLEAN
  BY <1>1, <1>2
<1>4. r + 0 + 0 = r /\ r + 0 = r /\ (\A k \in 1 .. 0 : FALSE) /\ 0 <= 0 /\ ~ 0 < 0
      /\ (\A x \in Nat : ~ (r <= x /\ x < r))
  OBVIOUS
<1>5. Read(u, r)
  BY <1>1, <1>3, <1>4 DEF Read
<1>6. ASSUME NEW k \in 1 .. Len(list)
      PROVE  IF k <= u.taken THEN NodeEnd(list[k]) <= u.next ELSE u.next <= list[k].seq
  <2>1. k \in DOMAIN list /\ ~ k <= 0
    BY DEF Chain
  <2>. QED  BY <1>1, <2>1
<1>. QED  BY <1>1, <1>4, <1>5, <1>6 DEF Taken

(* One more node is taken, or left where it is.                            *)
LEMMA TakenStep ==
  ASSUME NEW r \in Nat, First <= r, NEW list, Chain(list),
         NEW i \in 1 .. Len(list), NEW u, Taken(u, list, r, i - 1)
  PROVE  Taken(Take(u, list, i), list, r, i)
<1>. PICK n, node, v : n = Len(list) /\ node = list[i] /\ v = Take(u, list, i)
  OBVIOUS
<1>a. PICK L, t, q, l, e : L = Len(u.bytes) /\ t = u.taken /\ q = node.seq /\ l = Len(node.data)
                           /\ e = NodeEnd(node)
  OBVIOUS
<1>0. n \in Nat /\ i \in 1 .. n /\ DOMAIN list = 1 .. n
  BY DEF Chain
<1>1. /\ Cut(node) /\ q < e
      /\ \A j \in 1 .. n : i < j => e <= list[j].seq
  <2>1. i \in DOMAIN list
    BY <1>0
  <2>. QED  BY <1>a, <1>0, <2>1, ChainNode
<1>2. /\ q \in Nat /\ node.data \in Seq(Nat) /\ node.fin \in BOOLEAN /\ l \in Nat
      /\ e \in Nat /\ e = q + l + (IF node.fin THEN 1 ELSE 0)
      /\ First <= q /\ q + l <= First + Total
      /\ \A k \in 1 .. l : node.data[k] = (q - First) + k
      /\ node.fin => q + l = First + Total
  BY <1>a, <1>1, CutFields
<1>3. /\ u.bytes \in Seq(Nat) /\ u.fin \in BOOLEAN
      /\ u.next = r + L + (IF u.fin THEN 1 ELSE 0)
      /\ r + L <= First + Total
      /\ u.fin => r + L = First + Total
      /\ \A k \in 1 .. L : u.bytes[k] = (r - First) + k
  BY <1>a DEF Taken, Read
<1>4. /\ t \in Nat /\ t <= i - 1
      /\ t < i - 1 => u.fin \/ list[t + 1].seq # u.next
      /\ \A k \in 1 .. n : IF k <= t THEN NodeEnd(list[k]) <= u.next ELSE u.next <= list[k].seq
      /\ \A x \in Nat : r <= x /\ x < u.next => \E k \in 1 .. n : k <= t /\ In(list[k], x)
  BY <1>a DEF Taken
<1>5. L \in Nat
  BY <1>a, <1>3
<1>6. CASE t = i - 1 /\ ~ u.fin /\ q = u.next
  <2>1. v = [next |-> e, bytes |-> u.bytes \o node.data, taken |-> i, fin |-> node.fin]
    BY <1>a, <1>6, Zenon DEF Take
  <2>2. v.next = e /\ v.bytes = u.bytes \o node.data /\ v.taken = i /\ v.fin = node.fin
    <3>. PICK d, fin : d = u.bytes \o node.data /\ fin = node.fin
      OBVIOUS
    <3>1. v = [next |-> e, bytes |-> d, taken |-> i, fin |-> fin]
      BY <2>1
    <3>2. v.next = e /\ v.bytes = d /\ v.taken = i /\ v.fin = fin
      BY ONLY <3>1
    <3>. QED  BY <3>2
  <2>3. q = r + L
    BY <1>3, <1>5, <1>6
  <2>4. /\ v.bytes \in Seq(Nat) /\ Len(v.bytes) = L + l
        /\ \A k \in 1 .. Len(v.bytes) : v.bytes[k] = (r - First) + k
    <3>. PICK a, d1, d2 : a = r - First /\ d1 = u.bytes /\ d2 = node.data
      OBVIOUS
    <3>1. a \in Nat
      BY SegmentAssumption
    <3>2. q - First = a + L
      <4>1. r \in Nat /\ First \in Nat
        BY SegmentAssumption
      <4>. QED  BY ONLY <1>5, <2>3, <4>1, a = r - First
    <3>3. \A k \in 1 .. Len(d1) : d1[k] = a + k
      BY <1>a, <1>3
    <3>4. \A k \in 1 .. Len(d2) : d2[k] = (a + Len(d1)) + k
      BY <1>a, <1>2, <3>2
    <3>5. d1 \in Seq(Nat) /\ d2 \in Seq(Nat)
      BY <1>2, <1>3
    <3>6. LET c == d1 \o d2 IN
          /\ c \in Seq(Nat) /\ Len(c) = Len(d1) + Len(d2)
          /\ \A k \in 1 .. Len(c) : c[k] = a + k
      BY ONLY <3>1, <3>3, <3>4, <3>5, ReadOn
    <3>. QED  BY <1>a, <2>2, <3>6
  <2>5. v.next = r + (L + l) + (IF v.fin THEN 1 ELSE 0)
    BY ONLY <1>2, <1>5, <2>2, <2>3, r \in Nat
  <2>6. r + (L + l) <= First + Total /\ (v.fin => r + (L + l) = First + Total)
    <3>1. r + (L + l) = q + l
      BY ONLY <1>2, <1>5, <2>3, r \in Nat
    <3>. QED  BY <1>2, <2>2, <3>1
  <2>7. Read(v, r)
    BY <1>2, <2>2, <2>4, <2>5, <2>6 DEF Read
  <2>8. ASSUME NEW k \in 1 .. n
        PROVE  IF k <= i THEN NodeEnd(list[k]) <= e ELSE e <= list[k].seq
    <3>0. NodeEnd(list[k]) \in Nat /\ k \in Nat
      <4>1. k \in DOMAIN list
        BY <1>0
      <4>. QED  BY <4>1, ChainNode
    <3>1. CASE k <= i - 1
      <4>1. NodeEnd(list[k]) <= q
        BY <1>4, <1>6, <3>1
      <4>2. k <= i
        BY <1>0, <3>0, <3>1
      <4>3. NodeEnd(list[k]) <= e
        BY ONLY <1>1, <1>2, <3>0, <4>1
      <4>. QED  BY <4>2, <4>3
    <3>2. CASE k = i
      <4>1. i <= i /\ e <= e
        BY <1>0, <1>2
      <4>. QED  BY <1>a, <3>2, <4>1
    <3>3. CASE ~ k <= i - 1 /\ k # i
      <4>1. i < k /\ ~ k <= i
        BY <1>0, <3>0, <3>3
      <4>. QED  BY <1>1, <4>1
    <3>. QED  BY <3>1, <3>2, <3>3
  <2>9. ASSUME NEW x \in Nat, r <= x, x < e
        PROVE  \E k \in 1 .. n : k <= i /\ In(list[k], x)
    <3>1. CASE x < q
      <4>1. PICK k \in 1 .. n : k <= i - 1 /\ In(list[k], x)
        BY <1>4, <1>6, <2>9, <3>1
      <4>2. k <= i
        BY <1>0, <4>1
      <4>. QED  BY <4>1, <4>2
    <3>2. CASE ~ x < q
      <4>1. q <= x
        BY <1>2, <3>2
      <4>2. In(node, x)
        BY <1>a, <2>9, <4>1 DEF In
      <4>3. i \in 1 .. n /\ i <= i
        BY <1>0
      <4>. QED  BY <4>2, <4>3
    <3>. QED  BY <3>1, <3>2
  <2>10. i \in Nat /\ i <= i /\ ~ i < i
    BY <1>0
  <2>. QED  BY <2>2, <2>7, <2>8, <2>9, <2>10 DEF Taken
<1>7. CASE ~ (t = i - 1 /\ ~ u.fin /\ q = u.next)
  <2>1. v = u
    BY <1>a, <1>7, Zenon DEF Take
  <2>2. t <= i
    BY <1>0, <1>4
  <2>3. t < i => u.fin \/ list[t + 1].seq # u.next
    <3>1. CASE t = i - 1
      <4>1. t + 1 = i
        BY <1>0, <3>1
      <4>. QED  BY <1>a, <1>7, <3>1, <4>1
    <3>2. CASE t # i - 1
      <4>1. t < i => t < i - 1
        BY <1>0, <1>4, <3>2
      <4>. QED  BY <1>4, <4>1
    <3>. QED  BY <3>1, <3>2
  <2>4. Read(u, r)
    BY DEF Taken
  <2>. QED  BY <1>a, <1>4, <2>1, <2>2, <2>3, <2>4 DEF Taken
<1>. QED  BY <1>6, <1>7

(* flush_in_order_segments_from_receive_buffer(): the bytes read are those *)
(* that follow, up to the first gap or the FIN; the nodes they came from,  *)
(* and no others, are taken.                                               *)
LEMMA FlushProperty ==
  ASSUME NEW r \in Nat, First <= r, r <= First + Total, NEW list, Chain(list),
         \A k \in DOMAIN list : r <= list[k].seq
  PROVE  LET u == Flush(list, r) IN
         /\ Read(u, r) /\ u.taken \in 0 .. Len(list)
         /\ \A k \in 1 .. Len(list) : IF k <= u.taken THEN NodeEnd(list[k]) <= u.next
                                      ELSE u.next < list[k].seq /\ ~ u.fin
         /\ \A x \in Nat : r <= x /\ x < u.next => \E k \in 1 .. Len(list) : k <= u.taken /\ In(list[k], x)
<1>. PICK n, u : n = Len(list) /\ u = Flush(list, r)
  OBVIOUS
<1>0. n \in Nat /\ DOMAIN list = 1 .. n
  BY DEF Chain
<1>1. PICK f : /\ f[0] = FlushStart(r)
               /\ \A i \in 1 .. n : f[i] = Take(f[i - 1], list, i)
               /\ u = f[n]
  <2>1. Len(list) \in Nat
    BY <1>0
  <2>. QED  BY <2>1, TakeLoop
<1>. DEFINE T == {i \in 0 .. n : Taken(f[i], list, r, i)}
<1>2. 0 \in T
  <2>1. Taken(f[0], list, r, 0)
    BY <1>1, TakenStart
  <2>. QED  BY <1>0, <2>1
<1>3. ASSUME NEW i \in 0 .. (n - 1), i \in T PROVE i + 1 \in T
  <2>1. i + 1 \in 1 .. n /\ (i + 1) - 1 = i /\ i + 1 \in 0 .. n
    BY <1>0
  <2>. PICK w, j : w = f[i] /\ j = i + 1
    OBVIOUS
  <2>2. j \in 1 .. Len(list) /\ Taken(w, list, r, j - 1)
    BY <1>3, <2>1
  <2>3. Taken(Take(w, list, j), list, r, j)
    BY <2>2, TakenStep
  <2>4. f[j] = Take(w, list, j)
    BY <1>1, <2>1
  <2>. QED  BY <2>1, <2>3, <2>4
<1>. HIDE DEF T
<1>4. n \in T
  <2>1. n \in 0 .. n
    BY <1>0
  <2>2. \A i \in 0 .. n : i \in T
    BY <1>0, <1>2, <1>3, UpTo
  <2>. QED  BY <2>1, <2>2
<1>5. Taken(u, list, r, n)
  BY <1>1, <1>4 DEF T
<1>a. PICK L, t : L = Len(u.bytes) /\ t = u.taken
  OBVIOUS
<1>6. /\ Read(u, r)
      /\ t \in Nat /\ t <= n
      /\ t < n => u.fin \/ list[t + 1].seq # u.next
      /\ \A k \in 1 .. n : IF k <= t THEN NodeEnd(list[k]) <= u.next ELSE u.next <= list[k].seq
      /\ \A x \in Nat : r <= x /\ x < u.next => \E k \in 1 .. n : k <= t /\ In(list[k], x)
  BY <1>a, <1>5 DEF Taken
<1>7. /\ L \in Nat /\ u.fin \in BOOLEAN /\ u.next = r + L + (IF u.fin THEN 1 ELSE 0)
      /\ r + L <= First + Total /\ (u.fin => r + L = First + Total)
  BY <1>a, <1>6 DEF Read
<1>8. ASSUME NEW k \in 1 .. n, ~ k <= t PROVE u.next < list[k].seq /\ ~ u.fin
  <2>. PICK q, e, l, fin : q = list[k].seq /\ e = NodeEnd(list[k]) /\ l = Len(list[k].data) /\ fin = list[k].fin
    OBVIOUS
  <2>1. /\ q \in Nat /\ l \in Nat /\ fin \in BOOLEAN /\ e = q + l + (IF fin THEN 1 ELSE 0)
        /\ q + l <= First + Total /\ (fin => q + l = First + Total) /\ q < e
    <3>1. k \in DOMAIN list
      BY <1>0
    <3>2. Cut(list[k]) /\ list[k].seq < NodeEnd(list[k])
      BY <3>1, ChainNode
    <3>. QED  BY <3>2, CutFields
  <2>2. u.next <= q
    BY <1>6, <1>8
  <2>3. r \in Nat /\ First \in Nat /\ Total \in Nat
    BY SegmentAssumption
  <2>4. ~ u.fin
    BY ONLY <1>7, <2>1, <2>2, <2>3
  <2>5. t < n /\ t + 1 \in 1 .. n
    BY <1>0, <1>6, <1>8
  <2>6. list[t + 1].seq # u.next
    BY <1>6, <2>4, <2>5
  <2>7. CASE k = t + 1
    BY <1>7, <2>1, <2>2, <2>6, <2>7
  <2>8. CASE k # t + 1
    <3>. PICK j, qj, ej : j = t + 1 /\ qj = list[j].seq /\ ej = NodeEnd(list[j])
      OBVIOUS
    <3>0. j < k /\ ~ j <= t
      BY <1>0, <1>6, <1>8, <2>8
    <3>1. j \in DOMAIN list /\ k \in DOMAIN list
      BY <1>0, <2>5
    <3>2. qj \in Nat /\ ej \in Nat /\ qj < ej /\ ej <= q
      BY <3>0, <3>1, ChainNode
    <3>3. u.next <= qj
      BY <1>6, <2>5, <3>0
    <3>4. u.next \in Nat
      BY ONLY <1>7, <2>3
    <3>5. u.next < q
      BY ONLY <2>1, <3>2, <3>3, <3>4
    <3>. QED  BY <2>4, <3>5
  <2>. QED  BY <2>7, <2>8
<1>9. t \in 0 .. n
  BY <1>0, <1>6
<1>. QED  BY <1>a, <1>6, <1>8, <1>9

-----------------------------------------------------------------------------
(* A step. *)

(* What a peer sends is a part of its stream, and not empty.               *)
LEMMA SegmentCut ==
  ASSUME NEW s \in Abstract!Segments, Abstract!Carried(s)
  PROVE  Cut(s) /\ s.seq < NodeEnd(s)
<1>1. PICK a \in 0 .. Total, b \in 0 .. Total, f \in BOOLEAN :
        s = [seq |-> First + a, data |-> [i \in 1 .. (b - a) |-> a + i], fin |-> f]
  BY DEF Abstract!Segments
<1>. PICK m : m = IF a <= b THEN b - a ELSE 0
  OBVIOUS
<1>d. PICK d : d = [i \in 1 .. m |-> a + i]
  OBVIOUS
<1>0. First \in Nat /\ Total \in Nat /\ a \in Nat /\ b \in Nat /\ a <= Total /\ b <= Total
  BY SegmentAssumption
<1>2. m \in Nat /\ a + m <= Total /\ 1 .. (b - a) = 1 .. m
  BY <1>0
<1>3. s = [seq |-> First + a, data |-> d, fin |-> f]
  BY <1>1, <1>2, <1>d
<1>4. d \in Seq(Nat) /\ Len(d) = m /\ DOMAIN d = 1 .. m /\ \A k \in 1 .. m : d[k] = a + k
  BY <1>0, <1>2, <1>d
<1>5. s.seq = First + a /\ s.data = d /\ s.fin = f /\ f \in BOOLEAN
  BY <1>3
<1>6. First + a \in Nat
  BY <1>0
<1>7. s \in [seq : Nat, data : Seq(Nat), fin : BOOLEAN]
  BY ONLY <1>3, <1>4, <1>5, <1>6
<1>8. m > 0 \/ f
  BY <1>4, <1>5 DEF Abstract!Carried
<1>9. f => (First + a) + m = First + Total
  <2>1. f => (First + a) + m + 1 = First + Total + 1
    BY <1>4, <1>5 DEF Abstract!Carried, Abstract!EndOf
  <2>. QED  BY <1>0, <1>2, <2>1
<1>10. First <= First + a /\ (First + a) + m <= First + Total
       /\ \A k \in 1 .. m : a + k = ((First + a) - First) + k
  BY <1>0, <1>2
<1>11. Cut(s)
  BY <1>4, <1>5, <1>7, <1>9, <1>10 DEF Cut
<1>12. NodeEnd(s) = (First + a) + m + (IF f THEN 1 ELSE 0)
  BY <1>4, <1>5 DEF NodeEnd, EndOf
<1>13. First + a < NodeEnd(s)
  BY ONLY <1>0, <1>2, <1>5, <1>8, <1>12
<1>. QED  BY <1>5, <1>11, <1>13

(* What the flush leaves of a list.                                        *)
LEMMA RestProperty ==
  ASSUME NEW c, Chain(c), NEW t \in 0 .. Len(c)
  PROVE  LET d == SubSeq(c, t + 1, Len(c)) IN
         /\ Chain(d)
         /\ \A k \in DOMAIN d : t + k \in DOMAIN c /\ ~ t + k <= t /\ d[k] = c[t + k]
         /\ \A x : Covers(d, x) <=> \E k \in 1 .. Len(c) : ~ k <= t /\ In(c[k], x)
<1>. PICK n, d : n = Len(c) /\ d = SubSeq(c, t + 1, n)
  OBVIOUS
<1>0. c \in Seq(Nodes) /\ n \in Nat /\ DOMAIN c = 1 .. n /\ t \in Nat /\ t <= n
  BY DEF Chain
<1>1. \A i \in (t + 1) .. n : i \in 1 .. n /\ c[i] \in Nodes
  <2>1. \A i \in (t + 1) .. n : i \in 1 .. n
    BY <1>0
  <2>2. \A i \in 1 .. n : c[i] \in Nodes
    BY <1>0, ChainNode
  <2>. QED  BY <2>1, <2>2
<1>2. d \in Seq(Nodes) /\ DOMAIN d = 1 .. (n - t) /\ \A k \in 1 .. (n - t) : d[k] = c[t + k]
  <2>. HIDE DEF Nodes
  <2>1. /\ d \in Seq(Nodes)
        /\ Len(d) = (IF t + 1 <= n THEN n - (t + 1) + 1 ELSE 0)
        /\ \A i \in 1 .. n - (t + 1) + 1 : d[i] = c[(t + 1) + i - 1]
    <3>1. t + 1 \in Int /\ n \in Int /\ \A i \in (t + 1) .. n : c[i] \in Nodes
      BY <1>0, <1>1
    <3>. QED  BY <3>1, SubSeqProperties
  <2>2. n - (t + 1) + 1 = n - t /\ (IF t + 1 <= n THEN n - (t + 1) + 1 ELSE 0) = n - t
        /\ \A i \in 1 .. (n - t) : (t + 1) + i - 1 = t + i
    BY ONLY <1>0
  <2>3. Len(d) = n - t /\ \A i \in 1 .. (n - t) : d[i] = c[t + i]
    BY <2>1, <2>2
  <2>. QED  BY <2>1, <2>3
<1>3. ASSUME NEW k \in DOMAIN d PROVE t + k \in DOMAIN c /\ ~ t + k <= t /\ d[k] = c[t + k] /\ k \in Nat
  <2>1. k \in 1 .. (n - t)
    BY <1>2
  <2>2. t + k \in 1 .. n /\ ~ t + k <= t /\ k \in Nat
    BY ONLY <1>0, <2>1
  <2>. QED  BY <1>0, <1>2, <2>1, <2>2
<1>4. Ordered(d)
  <2>1. ASSUME NEW i \in DOMAIN d PROVE Cut(d[i]) /\ d[i].seq < NodeEnd(d[i])
    BY <1>3 DEF Chain, Ordered
  <2>2. ASSUME NEW i \in DOMAIN d, NEW j \in DOMAIN d, i < j PROVE NodeEnd(d[i]) <= d[j].seq
    <3>. PICK v, w : v = t + i /\ w = t + j
      OBVIOUS
    <3>1. v \in DOMAIN c /\ w \in DOMAIN c /\ d[i] = c[v] /\ d[j] = c[w] /\ i \in Nat /\ j \in Nat
      BY <1>3
    <3>2. v < w
      BY ONLY <1>0, <2>2, <3>1, v = t + i, w = t + j
    <3>. QED  BY <3>1, <3>2 DEF Chain, Ordered
  <2>. QED  BY <2>1, <2>2 DEF Ordered
<1>5. ASSUME NEW x PROVE Covers(d, x) <=> \E k \in 1 .. n : ~ k <= t /\ In(c[k], x)
  <2>1. ASSUME NEW k \in DOMAIN d, In(d[k], x) PROVE \E j \in 1 .. n : ~ j <= t /\ In(c[j], x)
    BY <1>0, <1>3, <2>1
  <2>2. ASSUME NEW j \in 1 .. n, ~ j <= t, In(c[j], x) PROVE \E k \in DOMAIN d : In(d[k], x)
    <3>. PICK k : k = j - t
      OBVIOUS
    <3>1. k \in 1 .. (n - t) /\ t + k = j
      BY <1>0, <2>2
    <3>. QED  BY <1>2, <2>2, <3>1
  <2>. QED  BY <2>1, <2>2 DEF Covers
<1>. QED  BY <1>2, <1>3, <1>4, <1>5 DEF Chain

(* What the handler works with: the list c after the insertion and what u  *)
(* the flush has read from it.                                             *)
Handled(c, u, s) ==
  /\ Chain(c) /\ Within(c, receive_next, receive_next + Window)
  /\ \A x \in Nat : Covers(c, x) <=> \/ Covers(receive_buffer, x)
                                     \/ In(s, x) /\ receive_next <= x /\ x < receive_next + Window
  /\ Read(u, receive_next) /\ u.taken \in 0 .. Len(c)
  /\ \A k \in 1 .. Len(c) : IF k <= u.taken THEN NodeEnd(c[k]) <= u.next
                            ELSE u.next < c[k].seq /\ ~ u.fin
  /\ \A x \in Nat : receive_next <= x /\ x < u.next =>
       \E k \in 1 .. Len(c) : k <= u.taken /\ In(c[k], x)
  /\ receive_next' = u.next
  /\ receive_buffer' = SubSeq(c, u.taken + 1, Len(c))
  /\ received' = received \o u.bytes
  /\ is_FIN_RECEIVED' = u.fin

(* The state between two segments, while the FIN has not been read.        *)
LEMMA OpenState ==
  ASSUME SegInv, ~ is_FIN_RECEIVED
  PROVE  /\ receive_next \in Nat /\ First <= receive_next /\ receive_next <= First + Total
         /\ received \in Seq(Nat) /\ Len(received) \in Nat /\ receive_next = First + Len(received)
         /\ \A k \in 1 .. Len(received) : received[k] = k
         /\ Chain(receive_buffer) /\ Within(receive_buffer, receive_next, receive_next + Window)
         /\ \A k \in DOMAIN receive_buffer : receive_next < receive_buffer[k].seq
<1>1. /\ received \in Seq(Nat) /\ Len(received) <= Total
      /\ \A k \in DOMAIN received : received[k] = k
      /\ receive_next = First + Len(received) + (IF is_FIN_RECEIVED THEN 1 ELSE 0)
  BY DEF SegInv
<1>2. Len(received) \in Nat /\ DOMAIN received = 1 .. Len(received)
  BY <1>1
<1>3. receive_next = First + Len(received)
  BY <1>1, <1>2, SegmentAssumption
<1>4. receive_next \in Nat /\ First <= receive_next /\ receive_next <= First + Total
  BY <1>1, <1>2, <1>3, SegmentAssumption
<1>5. Chain(receive_buffer)
  BY DEF SegInv, Chain, Nodes
<1>6. \A k \in DOMAIN receive_buffer :
        /\ receive_next < receive_buffer[k].seq
        /\ NodeEnd(receive_buffer[k]) <= receive_next + Window
  BY DEF SegInv
<1>7. \A k \in DOMAIN receive_buffer : receive_next <= receive_buffer[k].seq
  <2>1. \A k \in DOMAIN receive_buffer : receive_buffer[k].seq \in Nat
    BY <1>5, ChainNode
  <2>. QED  BY <1>4, <1>6, <2>1
<1>8. Within(receive_buffer, receive_next, receive_next + Window)
  BY <1>6, <1>7 DEF Within
<1>. QED  BY <1>1, <1>2, <1>3, <1>4, <1>5, <1>6, <1>8

(* What a segment does to the list: it is trimmed, merged and flushed.     *)
LEMMA ReceiveFacts ==
  ASSUME SegInv, NEW s, Cut(s), s.seq < NodeEnd(s), Receive(s)
  PROVE  \E c, u : Handled(c, u, s)
<1>. PICK r, b, t : r = receive_next /\ b = receive_buffer /\ t = Trim(s, r)
  OBVIOUS
<1>. PICK c : c = InsertRobust(b, t)
  OBVIOUS
<1>. PICK u : u = Flush(c, r)
  OBVIOUS
<1>0. /\ ~ is_FIN_RECEIVED /\ NodeEnd(s) > r /\ s.seq < r + Window
      /\ receive_next' = u.next
      /\ receive_buffer' = SubSeq(c, u.taken + 1, Len(c))
      /\ received' = received \o u.bytes
      /\ is_FIN_RECEIVED' = u.fin
  BY Zenon DEF Receive
<1>1. /\ r \in Nat /\ First <= r /\ r <= First + Total
      /\ Chain(b) /\ Within(b, r, r + Window)
  BY <1>0, OpenState
<1>2. s.seq \in Nat /\ NodeEnd(s) \in Nat /\ s.seq < NodeEnd(s) /\ Window \in Nat /\ Window > 0
  BY CutFields, WindowAssumption
<1>3. /\ Cut(t) /\ t.seq < NodeEnd(t)
      /\ t.seq = IF s.seq < r THEN r ELSE s.seq
      /\ NodeEnd(t) = IF NodeEnd(s) > r + Window THEN r + Window ELSE NodeEnd(s)
  <2>1. r < NodeEnd(s)
    BY <1>0, <1>1, <1>2
  <2>. QED  BY <1>0, <1>1, <1>2, <2>1, TrimProperty
<1>4. r <= t.seq /\ NodeEnd(t) <= r + Window /\ r + Window \in Nat
  BY ONLY <1>1, <1>2, <1>3
<1>5. /\ Chain(c) /\ Within(c, r, r + Window)
      /\ \A x \in Nat : Covers(c, x) <=> Covers(b, x) \/ In(t, x)
  <2>. PICK hi : hi = r + Window
    OBVIOUS
  <2>1. hi \in Nat /\ Within(b, r, hi) /\ NodeEnd(t) <= hi
    BY <1>1, <1>4
  <2>2. LET d == InsertRobust(b, t) IN
        /\ Chain(d) /\ Within(d, r, hi)
        /\ \A x \in Nat : Covers(d, x) <=> Covers(b, x) \/ In(t, x)
    BY ONLY <1>1, <1>3, <1>4, <2>1, InsertProperty
  <2>. QED  BY <2>2
<1>6. ASSUME NEW x \in Nat PROVE In(t, x) <=> In(s, x) /\ r <= x /\ x < r + Window
  <2>. PICK q, e, qt, et : q = s.seq /\ e = NodeEnd(s) /\ qt = t.seq /\ et = NodeEnd(t)
    OBVIOUS
  <2>1. (In(t, x) <=> qt <= x /\ x < et) /\ (In(s, x) <=> q <= x /\ x < e)
    BY DEF In
  <2>2. /\ q \in Nat /\ e \in Nat /\ r \in Nat /\ Window \in Nat
        /\ qt = (IF q < r THEN r ELSE q)
        /\ et = (IF e > r + Window THEN r + Window ELSE e)
    BY <1>1, <1>2, <1>3
  <2>3. x \in Nat
    OBVIOUS
  <2>4. qt <= x <=> q <= x /\ r <= x
    BY ONLY <2>2, <2>3
  <2>5. x < et <=> x < e /\ x < r + Window
    BY ONLY <2>2, <2>3
  <2>. QED  BY ONLY <2>1, <2>4, <2>5
<1>7. \A k \in DOMAIN c : r <= c[k].seq
  BY <1>5 DEF Within
<1>8. /\ Read(u, r) /\ u.taken \in 0 .. Len(c)
      /\ \A k \in 1 .. Len(c) : IF k <= u.taken THEN NodeEnd(c[k]) <= u.next
                                ELSE u.next < c[k].seq /\ ~ u.fin
      /\ \A x \in Nat : r <= x /\ x < u.next => \E k \in 1 .. Len(c) : k <= u.taken /\ In(c[k], x)
  BY <1>1, <1>5, <1>7, FlushProperty
<1>9. Handled(c, u, s)
  BY <1>0, <1>5, <1>6, <1>8 DEF Handled
<1>. QED  BY <1>9

(* A segment that arrives keeps the invariant.                             *)
LEMMA ReceiveStep ==
  ASSUME SegInv, NEW s, Cut(s), s.seq < NodeEnd(s), Receive(s)
  PROVE  SegInv'
<1>. PICK r : r = receive_next
  OBVIOUS
<1>1. PICK c, u : Handled(c, u, s)
  BY ReceiveFacts
<1>0. ~ is_FIN_RECEIVED
  BY DEF Receive
<1>2. /\ r \in Nat /\ First <= r /\ r <= First + Total
      /\ received \in Seq(Nat) /\ Len(received) \in Nat /\ r = First + Len(received)
      /\ \A k \in 1 .. Len(received) : received[k] = k
  BY <1>0, OpenState
<1>. PICK d, t, e, m, L, fin :
       d = SubSeq(c, t + 1, Len(c)) /\ t = u.taken /\ e = u.bytes /\ m = Len(received) /\ L = Len(e)
       /\ fin = u.fin
  OBVIOUS
<1>3. /\ Chain(c) /\ Within(c, r, r + Window) /\ t \in 0 .. Len(c)
      /\ \A k \in 1 .. Len(c) : IF k <= t THEN NodeEnd(c[k]) <= u.next ELSE u.next < c[k].seq
      /\ receive_next' = u.next /\ receive_buffer' = d
      /\ received' = received \o e /\ is_FIN_RECEIVED' = fin
  BY <1>1 DEF Handled
<1>4. /\ e \in Seq(Nat) /\ fin \in BOOLEAN
      /\ u.next = r + L + (IF fin THEN 1 ELSE 0)
      /\ r + L <= First + Total
      /\ fin => r + L = First + Total
      /\ \A k \in 1 .. L : e[k] = (r - First) + k
  <2>1. Read(u, r)
    BY <1>1 DEF Handled
  <2>. QED  BY <2>1 DEF Read
<1>5. m \in Nat /\ L \in Nat /\ First \in Nat /\ Total \in Nat /\ Window \in Nat /\ r = First + m
  BY <1>2, <1>4, SegmentAssumption, WindowAssumption
<1>6. received' \in Seq(Nat) /\ Len(received') = m + L
      /\ \A k \in 1 .. Len(received') : received'[k] = k
  <2>1. \A k \in 1 .. m : received[k] = 0 + k
    BY <1>2
  <2>2. ASSUME NEW k \in 1 .. L PROVE e[k] = (0 + m) + k
    <3>1. (r - First) + k = (0 + m) + k
      BY <1>5
    <3>. QED  BY <1>4, <3>1
  <2>. PICK f : f = received
    OBVIOUS
  <2>3. f \in Seq(Nat) /\ e \in Seq(Nat) /\ 0 \in Nat
        /\ (\A k \in 1 .. Len(f) : f[k] = 0 + k)
        /\ (\A k \in 1 .. Len(e) : e[k] = (0 + Len(f)) + k)
    BY <1>2, <1>4, <2>1, <2>2
  <2>4. LET g == f \o e IN
        /\ g \in Seq(Nat) /\ Len(g) = Len(f) + Len(e)
        /\ \A k \in 1 .. Len(g) : g[k] = 0 + k
    BY ONLY <2>3, ReadOn
  <2>5. LET g == received' IN
        /\ g \in Seq(Nat) /\ Len(g) = m + L
        /\ \A k \in 1 .. Len(g) : g[k] = 0 + k
    BY <1>3, <2>4
  <2>6. \A k \in 1 .. (m + L) : 0 + k = k
    BY <1>5
  <2>. QED  BY <2>5, <2>6
<1>7. DOMAIN received' = 1 .. Len(received')
  BY <1>6
<1>8. /\ Len(received') <= Total
      /\ fin => Len(received') = Total
      /\ u.next = First + Len(received') + (IF fin THEN 1 ELSE 0)
      /\ r <= u.next /\ u.next \in Nat
  <2>1. m + L <= Total /\ (fin => m + L = Total)
        /\ u.next = First + (m + L) + (IF fin THEN 1 ELSE 0)
        /\ r <= u.next /\ u.next \in Nat
    BY ONLY <1>4, <1>5
  <2>. QED  BY <1>6, <2>1
<1>9. Chain(d) /\ \A k \in DOMAIN d : t + k \in DOMAIN c /\ ~ t + k <= t /\ d[k] = c[t + k]
  BY <1>3, RestProperty
<1>10. ASSUME NEW k \in DOMAIN d
       PROVE  u.next < d[k].seq /\ NodeEnd(d[k]) <= u.next + Window
  <2>. PICK j : j = t + k
    OBVIOUS
  <2>1. j \in DOMAIN c /\ ~ j <= t /\ d[k] = c[j]
    BY <1>9
  <2>2. j \in 1 .. Len(c)
    BY <1>3, <2>1, ChainNode
  <2>3. NodeEnd(c[j]) \in Nat /\ NodeEnd(c[j]) <= r + Window
    BY <1>3, <2>1, ChainNode DEF Within
  <2>4. NodeEnd(c[j]) <= u.next + Window
    BY ONLY <1>2, <1>5, <1>8, <2>3
  <2>. QED  BY <1>3, <2>1, <2>2, <2>4
<1>11. d \in Seq([seq : Nat, data : Seq(Nat), fin : BOOLEAN]) /\ Ordered(d)
  BY <1>9 DEF Chain, Nodes
<1>12. (/\ receive_buffer \in Seq([seq : Nat, data : Seq(Nat), fin : BOOLEAN])
        /\ Ordered(receive_buffer)
        /\ \A i \in DOMAIN receive_buffer :
             /\ receive_next < receive_buffer[i].seq
             /\ NodeEnd(receive_buffer[i]) <= receive_next + Window)'
  <2>1. \A k \in DOMAIN receive_buffer' : (receive_next < receive_buffer[k].seq
                                        /\ NodeEnd(receive_buffer[k]) <= receive_next + Window)'
    BY <1>3, <1>10 DEF NodeEnd, EndOf
  <2>2. Ordered(receive_buffer)'
    <3>1. receive_buffer' = d /\ Ordered(d)
      BY <1>3, <1>11
    <3>. QED  BY ONLY <3>1, Zenon DEF Ordered, Cut, NodeEnd, EndOf
  <2>. QED  BY <1>3, <1>11, <2>1, <2>2
<1>13. (/\ received \in Seq(Nat) /\ is_FIN_RECEIVED \in BOOLEAN
        /\ Len(received) <= Total /\ \A k \in DOMAIN received : received[k] = k
        /\ is_FIN_RECEIVED => Len(received) = Total
        /\ receive_next = First + Len(received) + (IF is_FIN_RECEIVED THEN 1 ELSE 0))'
  BY <1>3, <1>4, <1>6, <1>7, <1>8
<1>. QED  BY <1>12, <1>13 DEF SegInv

(* The inductive invariant: the list is a sorted chain of parts of the     *)
(* stream past receive_next, and what was read is the stream up to there.  *)
THEOREM SegmentInvariant == Spec => []SegInv
<1>1. Init => SegInv
  <2>1. SUFFICES ASSUME Init PROVE SegInv
    OBVIOUS
  <2>2. /\ receive_next = First /\ receive_buffer = <<>>
        /\ received = <<>> /\ is_FIN_RECEIVED = FALSE
    BY <2>1 DEF Init
  <2>3. <<>> \in Seq(Nat) /\ <<>> \in Seq([seq : Nat, data : Seq(Nat), fin : BOOLEAN])
        /\ Len(<<>>) = 0 /\ DOMAIN <<>> = {}
    OBVIOUS
  <2>4. 0 <= Total /\ First = First + 0 + 0
    BY SegmentAssumption
  <2>5. Ordered(receive_buffer)
    BY <2>2, <2>3, Zenon DEF Ordered
  <2>6. received \in Seq(Nat) /\ Len(received) = 0 /\ DOMAIN received = {}
    BY <2>2, <2>3
  <2>. QED  BY <2>2, <2>3, <2>4, <2>5, <2>6 DEF SegInv
<1>2. SegInv /\ [Next]_vars => SegInv'
  <2>1. SUFFICES ASSUME SegInv, [Next]_vars PROVE SegInv'
    OBVIOUS
  <2>2. CASE Next
    <3>1. PICK s \in Abstract!Segments : Abstract!Carried(s) /\ Receive(s)
      BY <2>2 DEF Next
    <3>. QED  BY <2>1, <3>1, SegmentCut, ReceiveStep
  <2>3. CASE UNCHANGED vars
    BY <2>1, <2>3 DEF vars, SegInv, Ordered, Cut, NodeEnd, EndOf
  <2>. QED  BY <2>1, <2>2, <2>3
<1>. QED  BY <1>1, <1>2, PTL DEF Spec

(* SortedDisjoint, for every window and stream, however the segments cut,  *)
(* repeat and reorder it: the list is sorted, has no overlap and no empty  *)
(* node, lies in the window with a gap before its head, and only its last  *)
(* node has the FIN.                                                       *)
THEOREM AlwaysSortedDisjoint == Spec => []SortedDisjoint
<1>1. SegInv => SortedDisjoint
  <2>. SUFFICES ASSUME SegInv PROVE SortedDisjoint
    OBVIOUS
  <2>. PICK b, n : b = receive_buffer /\ n = Len(b)
    OBVIOUS
  <2>1. Chain(b)
    BY DEF SegInv, Chain, Nodes
  <2>2. b \in Seq(Nodes) /\ n \in Nat /\ DOMAIN b = 1 .. n
    BY <2>1 DEF Chain
  <2>3. \A i \in DOMAIN b : receive_next < b[i].seq /\ NodeEnd(b[i]) <= receive_next + Window
    BY DEF SegInv
  <2>4. ASSUME NEW i \in DOMAIN b
        PROVE  /\ b[i].seq < NodeEnd(b[i])
               /\ b[i].fin => i = n
               /\ i < n => NodeEnd(b[i]) <= b[i + 1].seq
    <3>1. /\ Cut(b[i]) /\ b[i].seq < NodeEnd(b[i]) /\ i \in Nat
          /\ \A j \in DOMAIN b : i < j => NodeEnd(b[i]) <= b[j].seq
      BY <2>1, ChainNode
    <3>2. i < n => i + 1 \in DOMAIN b /\ i < i + 1
      BY <2>2, <3>1
    <3>3. ASSUME b[i].fin, i # n PROVE FALSE
      <4>. PICK v, w : v = b[i] /\ w = b[i + 1]
        OBVIOUS
      <4>1. i < n
        BY <2>2, <3>3
      <4>2. i + 1 \in DOMAIN b
        BY <3>2, <4>1
      <4>3. Cut(v) /\ Cut(w) /\ w.seq < NodeEnd(w) /\ NodeEnd(v) <= w.seq
        BY <2>1, <3>1, <3>2, <4>1, <4>2, ChainNode
      <4>4. NodeEnd(v) = First + Total + 1
        <5>1. /\ NodeEnd(v) = v.seq + Len(v.data) + (IF v.fin THEN 1 ELSE 0)
              /\ v.fin => v.seq + Len(v.data) = First + Total
          BY <4>3, CutFields
        <5>. QED  BY <3>3, <5>1
      <4>. PICK q, l : q = w.seq /\ l = Len(w.data)
        OBVIOUS
      <4>5. q \in Nat /\ l \in Nat /\ q + l <= First + Total
        BY <4>3, CutFields
      <4>6. First + Total + 1 <= q /\ First \in Nat /\ Total \in Nat
        BY <4>3, <4>4, SegmentAssumption
      <4>. QED  BY ONLY <4>5, <4>6
    <3>. QED  BY <3>1, <3>2, <3>3
  <2>5. ASSUME b # <<>> PROVE receive_next < Head(b).seq
    <3>1. 1 \in DOMAIN b /\ Head(b) = b[1]
      BY <2>2, <2>5
    <3>. QED  BY <2>3, <3>1
  <2>. QED  BY <2>3, <2>4, <2>5 DEF SortedDisjoint
<1>. QED  BY <1>1, SegmentInvariant, PTL

(* ReadsExactly, for every window and stream: the application reads the    *)
(* bytes of the stream in order, each once, and all of them before the     *)
(* FIN, whatever pieces arrived, however often and in what order.          *)
THEOREM AlwaysReadsExactly == Spec => []ReadsExactly
<1>1. SegInv => ReadsExactly
  <2>. SUFFICES ASSUME SegInv PROVE ReadsExactly
    OBVIOUS
  <2>. PICK d, n : d = received /\ n = Len(d)
    OBVIOUS
  <2>1. /\ d \in Seq(Nat) /\ \A k \in DOMAIN d : d[k] = k
        /\ is_FIN_RECEIVED => n = Total
        /\ receive_next = First + n + (IF is_FIN_RECEIVED THEN 1 ELSE 0)
    BY DEF SegInv
  <2>2. DOMAIN d = 1 .. n /\ d = [i \in DOMAIN d |-> d[i]]
    BY <2>1
  <2>3. d = [i \in 1 .. n |-> i]
    BY <2>1, <2>2
  <2>. QED  BY <2>1, <2>3 DEF ReadsExactly, Abstract!Faithful
<1>. QED  BY <1>1, SegmentInvariant, PTL

-----------------------------------------------------------------------------
(* What a list stands for. *)

(* The content of sequence number x of the stream.                         *)
Value(x) == IF x < First + Total THEN (x - First) + 1 ELSE FIN

Contents(b) == [x \in {y \in Nat : Covers(b, y)} |-> Value(x)]

(* A node holds the stream's bytes at their numbers.                       *)
LEMMA NodeContent ==
  ASSUME NEW n, Cut(n), NEW x \in Nat, In(n, x)
  PROVE  ContentAt(n.seq, n.data, x) = Value(x) /\ First <= x
<1>. PICK q, l, d, fin : q = n.seq /\ l = Len(n.data) /\ d = n.data /\ fin = n.fin
  OBVIOUS
<1>1. /\ q \in Nat /\ l \in Nat /\ fin \in BOOLEAN
      /\ NodeEnd(n) = q + l + (IF fin THEN 1 ELSE 0)
      /\ First <= q /\ q + l <= First + Total
      /\ \A k \in 1 .. l : d[k] = (q - First) + k
      /\ fin => q + l = First + Total
  BY CutFields
<1>2. q <= x /\ x < q + l + (IF fin THEN 1 ELSE 0) /\ First \in Nat /\ Total \in Nat /\ x \in Nat
  BY <1>1, SegmentAssumption DEF In
<1>3. First <= x
  BY ONLY <1>1, <1>2
<1>4. CASE x < q + l
  <2>. PICK k : k = (x - q) + 1
    OBVIOUS
  <2>1. k \in 1 .. l /\ (q - First) + k = (x - First) + 1 /\ x < First + Total
    BY ONLY <1>1, <1>2, <1>4, k = (x - q) + 1
  <2>2. d[k] = (x - First) + 1
    BY <1>1, <2>1
  <2>3. ContentAt(q, d, x) = d[k]
    BY <1>4 DEF ContentAt
  <2>. QED  BY <1>3, <2>1, <2>2, <2>3 DEF Value
<1>5. CASE ~ x < q + l
  <2>1. ~ x < First + Total
    BY ONLY <1>1, <1>2, <1>5
  <2>2. ContentAt(q, d, x) = FIN
    BY <1>5 DEF ContentAt
  <2>. QED  BY <1>3, <2>1, <2>2 DEF Value
<1>. QED  BY <1>4, <1>5

(* So does a list of them: its contents are those of the stream.           *)
LEMMA ListContents ==
  ASSUME NEW b, Chain(b)
  PROVE  ContentOf(b) = Contents(b)
<1>. DEFINE D == UNION {b[i].seq .. (NodeEnd(b[i]) - 1) : i \in DOMAIN b}
            at(x) == CHOOSE k \in DOMAIN b : b[k].seq <= x /\ x < NodeEnd(b[k])
<1>1. ASSUME NEW x PROVE x \in D <=> x \in Nat /\ Covers(b, x)
  <2>1. x \in D <=> \E i \in DOMAIN b : x \in b[i].seq .. (NodeEnd(b[i]) - 1)
    OBVIOUS
  <2>2. ASSUME NEW i \in DOMAIN b
        PROVE  x \in b[i].seq .. (NodeEnd(b[i]) - 1) <=> x \in Nat /\ In(b[i], x)
    <3>. PICK q, e : q = b[i].seq /\ e = NodeEnd(b[i])
      OBVIOUS
    <3>1. q \in Nat /\ e \in Nat
      BY ChainNode
    <3>2. x \in q .. (e - 1) <=> x \in Nat /\ q <= x /\ x < e
      BY ONLY <3>1
    <3>. QED  BY <3>2 DEF In
  <2>. QED  BY <2>1, <2>2 DEF Covers
<1>2. D = {y \in Nat : Covers(b, y)}
  BY <1>1
<1>3. ASSUME NEW x \in D PROVE ContentAt(b[at(x)].seq, b[at(x)].data, x) = Value(x)
  <2>1. \E k \in DOMAIN b : b[k].seq <= x /\ x < NodeEnd(b[k])
    BY <1>1, <1>3 DEF Covers, In
  <2>2. at(x) \in DOMAIN b /\ b[at(x)].seq <= x /\ x < NodeEnd(b[at(x)])
    BY <2>1, Zenon
  <2>. HIDE DEF at
  <2>. PICK n : n = b[at(x)]
    OBVIOUS
  <2>3. Cut(n) /\ In(n, x) /\ x \in Nat
    BY <1>1, <1>3, <2>2, ChainNode DEF In
  <2>. QED  BY <2>3, NodeContent
<1>4. ContentOf(b) = [x \in D |-> ContentAt(b[at(x)].seq, b[at(x)].data, x)]
  BY Zenon DEF ContentOf
<1>. HIDE DEF D, at
<1>5. ContentOf(b) = [x \in D |-> Value(x)]
  BY <1>3, <1>4
<1>. QED  BY <1>2, <1>5 DEF Contents

(* The contents of a list.                                                 *)
LEMMA ContentsFields ==
  ASSUME NEW b
  PROVE  /\ DOMAIN Contents(b) = {y \in Nat : Covers(b, y)}
         /\ \A x \in Nat : Covers(b, x) => Contents(b)[x] = Value(x)
  BY DEF Contents

(* The insertion does to the contents what Insert says.                    *)
LEMMA InsertContents ==
  ASSUME NEW b, Chain(b), NEW c, NEW s, Cut(s), NEW r \in Nat,
         \A x \in Nat : Covers(c, x) <=> Covers(b, x) \/ (In(s, x) /\ r <= x /\ x < r + Window)
  PROVE  Insert(Contents(b), r, s.seq, s.data, s.fin) = Contents(c)
<1>. PICK q, e, B, X : q = s.seq /\ e = NodeEnd(s) /\ B = Contents(b)
                       /\ X = Trimmed(r, s.seq, s.data, s.fin)
  OBVIOUS
<1>1. q \in Nat /\ e \in Nat /\ Window \in Nat /\ r \in Nat
  BY CutFields, WindowAssumption
<1>2. X = (q .. (e - 1)) \cap (r .. (r + Window - 1))
  BY Zenon DEF Trimmed, NodeEnd
<1>3. ASSUME NEW x PROVE x \in X <=> x \in Nat /\ In(s, x) /\ r <= x /\ x < r + Window
  <2>1. x \in q .. (e - 1) <=> x \in Nat /\ q <= x /\ x < e
    BY ONLY <1>1
  <2>2. x \in r .. (r + Window - 1) <=> x \in Nat /\ r <= x /\ x < r + Window
    BY ONLY <1>1
  <2>. QED  BY <1>2, <2>1, <2>2 DEF In
<1>4. DOMAIN B = {y \in Nat : Covers(b, y)}
      /\ \A x \in Nat : Covers(b, x) => B[x] = Value(x)
  BY ContentsFields
<1>5. DOMAIN B \cup X = {y \in Nat : Covers(c, y)}
  <2>1. ASSUME NEW x PROVE x \in DOMAIN B \cup X <=> x \in Nat /\ Covers(c, x)
    BY <1>3, <1>4
  <2>. QED  BY <2>1
<1>6. ASSUME NEW x \in DOMAIN B \cup X
      PROVE  (IF x \in DOMAIN B THEN B[x] ELSE ContentAt(s.seq, s.data, x)) = Value(x)
  <2>1. CASE x \in DOMAIN B
    BY <1>4, <2>1
  <2>2. CASE x \notin DOMAIN B
    <3>1. x \in Nat /\ In(s, x)
      BY <1>3, <1>6, <2>2
    <3>. QED  BY <2>2, <3>1, NodeContent
  <2>. QED  BY <2>1, <2>2
<1>7. Insert(B, r, s.seq, s.data, s.fin)
      = [x \in DOMAIN B \cup X |-> IF x \in DOMAIN B THEN B[x] ELSE ContentAt(s.seq, s.data, x)]
  BY Zenon DEF Insert
<1>8. Insert(B, r, s.seq, s.data, s.fin) = [x \in DOMAIN B \cup X |-> Value(x)]
  BY <1>6, <1>7
<1>. QED  BY <1>5, <1>8 DEF Contents

(* The flush ends at one place: where the contents or the stream do.       *)
LEMMA FlushedToUnique ==
  ASSUME NEW B, NEW r \in Nat, NEW z \in r .. (r + Window), FlushStops(B, r, z),
         \A y \in r .. (z - 1) : ~ FlushStops(B, r, y)
  PROVE  FlushedTo(B, r) = z
<1>. DEFINE P(x) == /\ FlushStops(B, r, x)
                    /\ \A y \in r .. (x - 1) : ~ FlushStops(B, r, y)
            w == CHOOSE x \in r .. (r + Window) : P(x)
<1>1. w \in r .. (r + Window) /\ P(w)
  <2>1. P(z)
    OBVIOUS
  <2>. HIDE DEF P
  <2>. QED  BY <2>1, Zenon
<1>2. FlushedTo(B, r) = w
  BY Zenon DEF FlushedTo
<1>. HIDE DEF w
<1>3. w \in Nat /\ z \in Nat /\ r \in Nat /\ r <= w /\ r <= z
  BY <1>1, WindowAssumption
<1>4. ~ w < z
  <2>1. w < z => w \in r .. (z - 1)
    BY ONLY <1>3
  <2>. QED  BY <1>1, <2>1
<1>5. ~ z < w
  <2>1. z < w => z \in r .. (w - 1)
    BY ONLY <1>3
  <2>. QED  BY <1>1, <2>1
<1>. QED  BY <1>2, <1>3, <1>4, <1>5

(* The flush does to the contents what the operators of ReceiveWindow say. *)
LEMMA FlushContents ==
  ASSUME NEW c, Chain(c), NEW r \in Nat, First <= r, Within(c, r, r + Window),
         NEW u, Read(u, r), u.taken \in 0 .. Len(c),
         \A k \in 1 .. Len(c) : IF k <= u.taken THEN NodeEnd(c[k]) <= u.next
                                ELSE u.next < c[k].seq /\ ~ u.fin,
         \A x \in Nat : r <= x /\ x < u.next => \E k \in 1 .. Len(c) : k <= u.taken /\ In(c[k], x)
  PROVE  /\ FlushedTo(Contents(c), r) = u.next
         /\ FlushesFin(Contents(c), r) = u.fin
         /\ FlushedBytes(Contents(c), r) = u.bytes
         /\ Unflushed(Contents(c), r) = Contents(SubSeq(c, u.taken + 1, Len(c)))
<1>. PICK B, z, fin, e, L, n, t : B = Contents(c) /\ z = u.next /\ fin = u.fin /\ e = u.bytes
                                  /\ L = Len(u.bytes) /\ n = Len(c) /\ t = u.taken
  OBVIOUS
<1>1. /\ e \in Seq(Nat) /\ L \in Nat /\ fin \in BOOLEAN /\ z = r + L + (IF fin THEN 1 ELSE 0)
      /\ r + L <= First + Total /\ (fin => r + L = First + Total)
      /\ \A k \in 1 .. L : e[k] = (r - First) + k
  <2>1. e \in Seq(Nat)
    BY DEF Read
  <2>2. L \in Nat
    BY <2>1
  <2>. QED  BY <2>2 DEF Read
<1>2. r \in Nat /\ First \in Nat /\ Total \in Nat /\ Window \in Nat /\ First <= r /\ z \in Nat /\ r <= z
  <2>1. r \in Nat
    OBVIOUS
  <2>2. z \in Nat /\ r <= z
    BY ONLY <1>1, <2>1
  <2>. QED  BY <2>1, <2>2, SegmentAssumption, WindowAssumption
<1>3. /\ DOMAIN B = {y \in Nat : Covers(c, y)}
      /\ \A x \in Nat : Covers(c, x) => B[x] = Value(x)
  BY ContentsFields
<1>4. n \in Nat /\ DOMAIN c = 1 .. n
  BY DEF Chain
<1>5. ASSUME NEW x \in Nat, r <= x, x < z PROVE Covers(c, x) /\ x < r + Window
  <2>1. PICK k \in 1 .. n : In(c[k], x)
    BY <1>5
  <2>. PICK en : en = NodeEnd(c[k])
    OBVIOUS
  <2>2. en \in Nat /\ en <= r + Window /\ x < en /\ x \in Nat
    BY <1>4, <2>1, ChainNode DEF In, Within
  <2>3. x < r + Window
    BY ONLY <1>2, <2>2
  <2>. QED  BY <1>4, <2>1, <2>3 DEF Covers
<1>6. z \in r .. (r + Window)
  <2>1. CASE z = r
    BY <1>2, <2>1
  <2>2. CASE z # r
    <3>. PICK x : x = z - 1
      OBVIOUS
    <3>1. x \in Nat /\ r <= x /\ x < z
      BY <1>2, <2>2
    <3>2. x < r + Window
      BY <1>5, <3>1
    <3>. QED  BY ONLY <1>2, <2>2, <3>2, x = z - 1
  <2>. QED  BY <2>1, <2>2
<1>7. ASSUME NEW x \in Nat, r <= x, x + 1 < z \/ (x < z /\ ~ fin)
      PROVE  Value(x) = (x - First) + 1 /\ Value(x) # FIN
  <2>0. x \in Nat
    OBVIOUS
  <2>1. x < First + Total /\ (x - First) + 1 # 0
    BY ONLY <1>1, <1>2, <1>7, <2>0
  <2>. QED  BY <2>1 DEF Value, FIN
<1>8. ASSUME fin PROVE z > r /\ z - 1 \in Nat /\ B[z - 1] = FIN
  <2>. PICK x : x = z - 1
    OBVIOUS
  <2>1. z > r /\ x \in Nat /\ r <= x /\ x < z /\ ~ x < First + Total
    BY ONLY <1>1, <1>2, <1>8, x = z - 1
  <2>2. B[x] = Value(x)
    BY <1>3, <1>5, <2>1
  <2>. QED  BY <2>1, <2>2 DEF Value
<1>9. ASSUME NEW x \in Nat, z <= x, Covers(c, x)
      PROVE  z < x /\ \E k \in 1 .. n : ~ k <= t /\ In(c[k], x)
  <2>1. PICK k \in 1 .. n : In(c[k], x)
    BY <1>4, <1>9 DEF Covers
  <2>. PICK q, en : q = c[k].seq /\ en = NodeEnd(c[k])
    OBVIOUS
  <2>2. q \in Nat /\ en \in Nat /\ q <= x /\ x < en /\ x \in Nat
    BY <1>4, <2>1, ChainNode DEF In
  <2>3. ASSUME k <= t PROVE FALSE
    <3>1. en <= z
      BY <2>3
    <3>. QED  BY ONLY <1>2, <1>9, <2>2, <3>1
  <2>4. z < q
    BY <2>3
  <2>5. z < x
    BY ONLY <1>2, <2>2, <2>4
  <2>. QED  BY <2>1, <2>3, <2>5
<1>10. FlushStops(B, r, z)
  <2>1. CASE fin
    BY <1>8, <2>1 DEF FlushStops
  <2>2. CASE ~ fin
    <3>1. z <= z /\ ~ z < z
      BY <1>2
    <3>2. ~ Covers(c, z)
      BY <1>2, <1>9, <3>1
    <3>. QED  BY <1>3, <3>2 DEF FlushStops
  <2>. QED  BY <1>1, <2>1, <2>2
<1>11. ASSUME NEW y \in r .. (z - 1) PROVE ~ FlushStops(B, r, y)
  <2>1. y \in Nat /\ r <= y /\ y < z
    BY <1>2
  <2>2. y \in DOMAIN B
    BY <1>3, <1>5, <2>1
  <2>3. ASSUME y > r, B[y - 1] = FIN PROVE FALSE
    <3>. PICK x : x = y - 1
      OBVIOUS
    <3>1. x \in Nat /\ r <= x /\ x < z /\ x + 1 < z
      BY ONLY <1>2, <2>1, <2>3, x = y - 1
    <3>2. B[x] = Value(x)
      BY <1>3, <1>5, <3>1
    <3>3. Value(x) # FIN
      BY <1>7, <3>1
    <3>. QED  BY <2>3, <3>2, <3>3
  <2>. QED  BY <2>2, <2>3 DEF FlushStops
<1>12. FlushedTo(B, r) = z
  BY <1>6, <1>10, <1>11, FlushedToUnique
<1>13. FlushesFin(B, r) = fin
  <2>1. FlushesFin(B, r) = (z > r /\ B[z - 1] = FIN)
    BY <1>12 DEF FlushesFin
  <2>2. ASSUME ~ fin, z > r, B[z - 1] = FIN PROVE FALSE
    <3>. PICK x : x = z - 1
      OBVIOUS
    <3>1. x \in Nat /\ r <= x /\ x < z
      BY ONLY <1>2, <2>2, x = z - 1
    <3>2. B[x] = Value(x)
      BY <1>3, <1>5, <3>1
    <3>3. Value(x) # FIN
      BY <1>7, <2>2, <3>1
    <3>. QED  BY <2>2, <3>2, <3>3
  <2>3. fin => z > r /\ B[z - 1] = FIN
    BY <1>8
  <2>. QED  BY <1>1, <2>1, <2>2, <2>3
<1>14. FlushedBytes(B, r) = e
  <2>1. FlushedBytes(B, r) = [i \in 1 .. (IF fin THEN (z - r) - 1 ELSE z - r) |-> B[r + i - 1]]
    BY <1>12, <1>13, Zenon DEF FlushedBytes
  <2>2. (IF fin THEN (z - r) - 1 ELSE z - r) = L
    BY ONLY <1>1, <1>2
  <2>3. ASSUME NEW i \in 1 .. L PROVE B[r + i - 1] = e[i]
    <3>. PICK x : x = r + i - 1
      OBVIOUS
    <3>0. i \in 1 .. L
      OBVIOUS
    <3>1. x \in Nat /\ r <= x /\ x < z /\ (x + 1 < z \/ (x < z /\ ~ fin))
          /\ (x - First) + 1 = (r - First) + i
      BY ONLY <1>1, <1>2, <3>0, x = r + i - 1
    <3>2. B[x] = Value(x)
      BY <1>3, <1>5, <3>1
    <3>3. Value(x) = (x - First) + 1
      BY <1>7, <3>1
    <3>. QED  BY <1>1, <3>1, <3>2, <3>3
  <2>4. e = [i \in 1 .. L |-> e[i]]
    BY <1>1
  <2>5. FlushedBytes(B, r) = [i \in 1 .. L |-> B[r + i - 1]]
    BY <2>1, <2>2
  <2>6. [i \in 1 .. L |-> B[r + i - 1]] = [i \in 1 .. L |-> e[i]]
    BY <2>3
  <2>. QED  BY <2>4, <2>5, <2>6
<1>. PICK d : d = SubSeq(c, t + 1, n)
  OBVIOUS
<1>15. \A x : Covers(d, x) <=> \E k \in 1 .. n : ~ k <= t /\ In(c[k], x)
  BY RestProperty
<1>16. ASSUME NEW x \in Nat PROVE Covers(d, x) <=> Covers(c, x) /\ x >= z
  <2>1. ASSUME NEW k \in 1 .. n, ~ k <= t, In(c[k], x) PROVE Covers(c, x) /\ x >= z
    <3>. PICK q : q = c[k].seq
      OBVIOUS
    <3>1. q \in Nat /\ q <= x /\ z < q /\ x \in Nat
      BY <1>4, <2>1, ChainNode DEF In
    <3>2. x >= z
      BY ONLY <1>2, <3>1
    <3>. QED  BY <1>4, <2>1, <3>2 DEF Covers
  <2>2. ASSUME Covers(c, x), x >= z PROVE Covers(d, x)
    <3>1. z <= x
      BY <1>2, <2>2
    <3>. QED  BY <1>9, <1>15, <2>2, <3>1
  <2>. QED  BY <1>15, <2>1, <2>2
<1>17. Unflushed(B, r) = Contents(d)
  <2>1. Unflushed(B, r) = [x \in {y \in DOMAIN B : y >= z} |-> B[x]]
    BY <1>12, Zenon DEF Unflushed
  <2>2. {y \in DOMAIN B : y >= z} = {y \in Nat : Covers(d, y)}
    BY <1>3, <1>16
  <2>3. \A x \in {y \in Nat : Covers(d, y)} : B[x] = Value(x)
    BY <1>3, <1>16
  <2>4. Unflushed(B, r) = [x \in {y \in Nat : Covers(d, y)} |-> Value(x)]
    BY <2>1, <2>2, <2>3
  <2>. QED  BY <2>4 DEF Contents
<1>. QED  BY <1>12, <1>13, <1>14, <1>17

-----------------------------------------------------------------------------
(* The refinement. *)

(* The operators of the instance are those of ReceiveWindow.               *)
LEMMA InstanceOperators ==
  ASSUME NEW B, NEW r
  PROVE  /\ \A seq, data, fin : /\ Abstract!Insert(B, r, seq, data, fin) = Insert(B, r, seq, data, fin)
                                /\ Abstract!EndOf(seq, data, fin) = EndOf(seq, data, fin)
         /\ Abstract!FlushedTo(B, r) = FlushedTo(B, r)
         /\ Abstract!FlushesFin(B, r) = FlushesFin(B, r)
         /\ Abstract!FlushedBytes(B, r) = FlushedBytes(B, r)
         /\ Abstract!Unflushed(B, r) = Unflushed(B, r)
<1>1. \A seq, data, fin : Abstract!EndOf(seq, data, fin) = EndOf(seq, data, fin)
  BY Zenon DEF Abstract!EndOf, EndOf
<1>2. \A seq, data, fin : Abstract!Trimmed(r, seq, data, fin) = Trimmed(r, seq, data, fin)
  BY <1>1, Zenon DEF Abstract!Trimmed, Trimmed
<1>3. \A seq, data, fin : Abstract!Insert(B, r, seq, data, fin) = Insert(B, r, seq, data, fin)
  BY <1>2, Zenon DEF Abstract!Insert, Insert, Abstract!ContentAt, ContentAt, Abstract!FIN, FIN
<1>4. Abstract!FlushedTo(B, r) = FlushedTo(B, r)
  BY Zenon DEF Abstract!FlushedTo, FlushedTo, Abstract!FlushStops, FlushStops, Abstract!FIN, FIN
<1>5. Abstract!FlushesFin(B, r) = FlushesFin(B, r)
  BY <1>4, Zenon DEF Abstract!FlushesFin, FlushesFin, Abstract!FIN, FIN
<1>6. Abstract!FlushedBytes(B, r) = FlushedBytes(B, r)
  BY <1>4, <1>5, Zenon DEF Abstract!FlushedBytes, FlushedBytes
<1>7. Abstract!Unflushed(B, r) = Unflushed(B, r)
  BY <1>4, Zenon DEF Abstract!Unflushed, Unflushed
<1>. QED  BY <1>1, <1>3, <1>4, <1>5, <1>6, <1>7

(* A segment that the list takes is one that the window takes.             *)
LEMMA ReceiveRefines ==
  ASSUME SegInv, NEW s, Cut(s), s.seq < NodeEnd(s), Receive(s)
  PROVE  Abstract!Receive(s)
<1>. PICK r, b, B : r = receive_next /\ b = receive_buffer /\ B = Contents(b)
  OBVIOUS
<1>1. PICK c, u : Handled(c, u, s)
  BY ReceiveFacts
<1>2. ~ is_FIN_RECEIVED /\ NodeEnd(s) > r /\ s.seq < r + Window
  BY Zenon DEF Receive
<1>3. r \in Nat /\ First <= r /\ Chain(b)
  BY <1>2, OpenState
<1>. PICK d : d = SubSeq(c, u.taken + 1, Len(c))
  OBVIOUS
<1>4. /\ Chain(c) /\ Within(c, r, r + Window)
      /\ \A x \in Nat : Covers(c, x) <=> Covers(b, x) \/ (In(s, x) /\ r <= x /\ x < r + Window)
      /\ Read(u, r) /\ u.taken \in 0 .. Len(c)
      /\ \A k \in 1 .. Len(c) : IF k <= u.taken THEN NodeEnd(c[k]) <= u.next
                                ELSE u.next < c[k].seq /\ ~ u.fin
      /\ \A x \in Nat : r <= x /\ x < u.next => \E k \in 1 .. Len(c) : k <= u.taken /\ In(c[k], x)
      /\ receive_next' = u.next /\ receive_buffer' = d
      /\ received' = received \o u.bytes /\ is_FIN_RECEIVED' = u.fin
  BY <1>1 DEF Handled
<1>5. Insert(B, r, s.seq, s.data, s.fin) = Contents(c)
  BY <1>3, <1>4, InsertContents
<1>6. /\ FlushedTo(Contents(c), r) = u.next
      /\ FlushesFin(Contents(c), r) = u.fin
      /\ FlushedBytes(Contents(c), r) = u.bytes
      /\ Unflushed(Contents(c), r) = Contents(d)
  BY <1>3, <1>4, FlushContents
<1>7. ContentOf(receive_buffer) = B
  BY <1>3, ListContents
<1>8. ContentOf(receive_buffer)' = Contents(d)
  <2>1. Chain(d)
    BY <1>4, RestProperty
  <2>2. ContentOf(d) = Contents(d)
    BY <2>1, ListContents
  <2>3. receive_buffer' = d
    BY <1>4
  <2>4. ContentOf(receive_buffer)' = ContentOf(d)
    BY ONLY <2>3 DEF ContentOf, NodeEnd, EndOf, ContentAt
  <2>. QED  BY <2>2, <2>4
<1>9. Abstract!EndOf(s.seq, s.data, s.fin) = NodeEnd(s)
  BY InstanceOperators, Zenon DEF NodeEnd
<1>10. Abstract!Insert(ContentOf(receive_buffer), receive_next, s.seq, s.data, s.fin) = Contents(c)
  <2>. PICK q, d1, f1 : q = s.seq /\ d1 = s.data /\ f1 = s.fin
    OBVIOUS
  <2>1. Abstract!Insert(B, r, q, d1, f1) = Insert(B, r, q, d1, f1)
    BY ONLY InstanceOperators
  <2>. QED  BY <1>5, <1>7, <2>1
<1>11. /\ Abstract!FlushedTo(Contents(c), receive_next) = u.next
       /\ Abstract!FlushesFin(Contents(c), receive_next) = u.fin
       /\ Abstract!FlushedBytes(Contents(c), receive_next) = u.bytes
       /\ Abstract!Unflushed(Contents(c), receive_next) = Contents(d)
  BY <1>6, InstanceOperators
<1>12. /\ Abstract!EndOf(s.seq, s.data, s.fin) > receive_next
       /\ s.seq < receive_next + Window
       /\ receive_next' = Abstract!FlushedTo(Contents(c), receive_next)
       /\ ContentOf(receive_buffer)' = Abstract!Unflushed(Contents(c), receive_next)
       /\ received' = received \o Abstract!FlushedBytes(Contents(c), receive_next)
       /\ is_FIN_RECEIVED' = Abstract!FlushesFin(Contents(c), receive_next)
  BY <1>2, <1>4, <1>8, <1>9, <1>11
<1>. QED  BY <1>2, <1>10, <1>12, Zenon DEF Abstract!Receive

(* ImplementsReassembly, for every window and stream: the linked list, its *)
(* interval merge and its flush do what the window of module Reassembly    *)
(* (the operators module STCP uses for the receive buffer) says.           *)
THEOREM ListImplementsReassembly == Spec => ImplementsReassembly
<1>1. Init => Abstract!Init
  <2>1. SUFFICES ASSUME Init PROVE Abstract!Init
    OBVIOUS
  <2>2. /\ receive_next = First /\ receive_buffer = <<>>
        /\ received = <<>> /\ is_FIN_RECEIVED = FALSE
    BY <2>1 DEF Init
  <2>3. DOMAIN receive_buffer = {}
    BY <2>2
  <2>4. ContentOf(receive_buffer) = [x \in {} |-> Abstract!FIN]
    <3>1. UNION {receive_buffer[i].seq .. (NodeEnd(receive_buffer[i]) - 1) : i \in DOMAIN receive_buffer} = {}
      BY <2>3
    <3>. QED  BY <3>1 DEF ContentOf
  <2>. QED  BY <2>2, <2>4 DEF Abstract!Init, Abstract!EmptyBuffer
<1>2. SegInv /\ [Next]_vars => [Abstract!Next]_(Abstract!vars)
  <2>1. SUFFICES ASSUME SegInv, [Next]_vars PROVE [Abstract!Next]_(Abstract!vars)
    OBVIOUS
  <2>2. CASE Next
    <3>1. PICK s \in Abstract!Segments : Abstract!Carried(s) /\ Receive(s)
      BY <2>2 DEF Next
    <3>2. Abstract!Receive(s)
      BY <2>1, <3>1, SegmentCut, ReceiveRefines
    <3>. QED  BY <3>1, <3>2 DEF Abstract!Next
  <2>3. CASE UNCHANGED vars
    BY <2>3 DEF vars, Abstract!vars, ContentOf, NodeEnd, EndOf, ContentAt
  <2>. QED  BY <2>1, <2>2, <2>3
<1>. QED  BY <1>1, <1>2, SegmentInvariant, PTL DEF Spec, ImplementsReassembly, Abstract!Spec
=============================================================================
