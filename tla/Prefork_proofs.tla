--------------------------- MODULE Prefork_proofs ---------------------------
(***************************************************************************)
(* Theorems about module Prefork, for every number of children, clients    *)
(* and faults, every size of the buffer and the sockets, and every request.*)
(***************************************************************************)
EXTENDS Prefork, FiniteSetTheorems, SequenceTheorems,
        WellFoundedInduction, TLAPS

-----------------------------------------------------------------------------
(* Numbers and sequences. *)

(* What is assumed of the constants.                                       *)
LEMMA Constants ==
  /\ N_CHILD \in Nat \ {0} /\ MaxHdr \in Nat \ {0} /\ SockBuf \in Nat \ {0}
  /\ MaxBody \in Nat /\ MemSize \in Nat /\ MemSize = MaxHdr + MaxBody + 1
BY PreforkAssumption DEF MemSize

(* Min of a non-empty set of naturals is its least element.                *)
LEMMA MinProperty ==
  ASSUME NEW T, T \subseteq Nat, T # {}
  PROVE  Min(T) \in T /\ \A y \in T : Min(T) <= y
<1>1. IsWellFoundedOn({ss \in Nat \X Nat : ss[1] < ss[2]}, Nat)
  BY NatLessThanWellFounded DEF OpToRel
<1>2. PICK x \in T :
        \A y \in T : ~(<<y, x>> \in {ss \in Nat \X Nat : ss[1] < ss[2]})
  BY <1>1, WFMin
<1>3. \A y \in T : /\ <<y, x>> \in Nat \X Nat
                   /\ <<y, x>>[1] = y /\ <<y, x>>[2] = x
  OBVIOUS
<1>4. \A y \in T : ~ (y < x)
  BY <1>2, <1>3
<1>5. \A y \in T : x =< y
  BY <1>4
<1>. QED  BY <1>5 DEF Min

(* The lesser of two numbers.                                              *)
LEMMA MinOfTwo ==
  ASSUME NEW a \in Nat, NEW b \in Nat
  PROVE  Min({a, b}) \in Nat /\ Min({a, b}) <= a /\ Min({a, b}) <= b
BY MinProperty

(* A sequence cut after its first m elements.                              *)
LEMMA Cut ==
  ASSUME NEW S, NEW s \in Seq(S), NEW m \in 0 .. Len(s)
  PROVE  /\ SubSeq(s, 1, m) \in Seq(S) /\ Len(SubSeq(s, 1, m)) = m
         /\ \A k \in 1 .. m : SubSeq(s, 1, m)[k] = s[k]
         /\ SubSeq(s, m + 1, Len(s)) \in Seq(S)
         /\ Len(SubSeq(s, m + 1, Len(s))) = Len(s) - m
         /\ \A k \in 1 .. Len(s) - m : SubSeq(s, m + 1, Len(s))[k] = s[m + k]
<1>1. Len(s) \in Nat /\ m \in Nat /\ m <= Len(s) /\ \A i \in 1 .. Len(s) : s[i] \in S
  BY LenProperties, ElementOfSeq
<1>2. \A i \in 1 .. m : s[i] \in S
  BY <1>1
<1>3. \A i \in m + 1 .. Len(s) : s[i] \in S
  BY <1>1
<1>4. /\ SubSeq(s, 1, m) \in Seq(S)
      /\ Len(SubSeq(s, 1, m)) = IF 1 <= m THEN m - 1 + 1 ELSE 0
      /\ \A i \in 1 .. m - 1 + 1 : SubSeq(s, 1, m)[i] = s[1 + i - 1]
  BY <1>1, <1>2, SubSeqProperties
<1>5. /\ SubSeq(s, m + 1, Len(s)) \in Seq(S)
      /\ Len(SubSeq(s, m + 1, Len(s)))
           = IF m + 1 <= Len(s) THEN Len(s) - (m + 1) + 1 ELSE 0
      /\ \A i \in 1 .. Len(s) - (m + 1) + 1 :
           SubSeq(s, m + 1, Len(s))[i] = s[(m + 1) + i - 1]
  BY <1>1, <1>3, SubSeqProperties
<1>. QED  BY <1>1, <1>4, <1>5

(* What follows the first m elements, cut once more.                       *)
LEMMA CutAgain ==
  ASSUME NEW S, NEW s \in Seq(S), NEW k \in 0 .. Len(s), NEW m \in 0 .. Len(s) - k
  PROVE  /\ SubSeq(SubSeq(s, k + 1, Len(s)), m + 1, Len(SubSeq(s, k + 1, Len(s))))
              = SubSeq(s, (k + m) + 1, Len(s))
         /\ SubSeq(s, 1, k) \o SubSeq(SubSeq(s, k + 1, Len(s)), 1, m)
              = SubSeq(s, 1, k + m)
         /\ k + m \in 0 .. Len(s)
<1>1. Len(s) \in Nat /\ k \in Nat /\ m \in Nat /\ k + m <= Len(s)
  BY LenProperties
<1>2. k + m \in 0 .. Len(s)
  BY <1>1
<1>. DEFINE t == SubSeq(s, k + 1, Len(s))
<1>3. /\ t \in Seq(S) /\ Len(t) = Len(s) - k
      /\ \A i \in 1 .. Len(s) - k : t[i] = s[k + i]
  BY Cut
<1>. DEFINE u == SubSeq(t, m + 1, Len(t))
            v == SubSeq(t, 1, m)
            x == SubSeq(s, (k + m) + 1, Len(s))
            y == SubSeq(s, 1, k + m)
            z == SubSeq(s, 1, k)
<1>. HIDE DEF t
<1>4. /\ u \in Seq(S) /\ Len(u) = Len(t) - m
      /\ \A i \in 1 .. Len(t) - m : u[i] = t[m + i]
      /\ v \in Seq(S) /\ Len(v) = m
      /\ \A i \in 1 .. m : v[i] = t[i]
  <2>1. m \in 0 .. Len(t)
    BY <1>1, <1>3
  <2>. QED  BY <1>3, <2>1, Cut
<1>5. /\ x \in Seq(S) /\ Len(x) = Len(s) - (k + m)
      /\ \A i \in 1 .. Len(s) - (k + m) : x[i] = s[(k + m) + i]
      /\ y \in Seq(S) /\ Len(y) = k + m
      /\ \A i \in 1 .. k + m : y[i] = s[i]
  BY <1>2, Cut
<1>6. z \in Seq(S) /\ Len(z) = k /\ \A i \in 1 .. k : z[i] = s[i]
  BY <1>1, Cut
<1>. HIDE DEF u, v, x, y, z
<1>7. u = x
  <2>1. Len(u) = Len(x)
    BY <1>1, <1>3, <1>4, <1>5
  <2>2. \A i \in 1 .. Len(u) : u[i] = x[i]
    <3>1. TAKE i \in 1 .. Len(u)
    <3>2. i \in 1 .. Len(t) - m /\ m + i \in 1 .. Len(s) - k /\ k + (m + i) = (k + m) + i
          /\ i \in 1 .. Len(s) - (k + m)
      BY <1>1, <1>3, <1>4
    <3>. QED  BY <1>3, <1>4, <1>5, <3>2, ZenonT(30)
  <2>. QED  BY <1>4, <1>5, <2>1, <2>2, SeqEqual
<1>8. z \o v = y
  <2>1. /\ z \o v \in Seq(S) /\ Len(z \o v) = k + m
        /\ \A i \in 1 .. k + m : (z \o v)[i] = IF i <= k THEN z[i] ELSE v[i - k]
    <3>1. z \in Seq(S) /\ v \in Seq(S) /\ Len(z) = k /\ Len(v) = m
      BY <1>4, <1>6
    <3>. QED  BY <3>1, ConcatProperties
  <2>2. \A i \in 1 .. k + m : (z \o v)[i] = y[i]
    <3>1. TAKE i \in 1 .. k + m
    <3>2. CASE i <= k
      <4>1. i \in 1 .. k
        BY <1>1, <3>2
      <4>. QED  BY <1>5, <1>6, <2>1, <3>2, <4>1
    <3>3. CASE ~ (i <= k)
      <4>1. i - k \in 1 .. m /\ i - k \in 1 .. Len(s) - k /\ k + (i - k) = i
        BY <1>1, <3>3
      <4>2. (z \o v)[i] = v[i - k]
        BY <2>1, <3>3
      <4>3. v[i - k] = s[i]
        BY <1>3, <1>4, <4>1
      <4>. QED  BY <1>5, <4>2, <4>3
    <3>. QED  BY <3>2, <3>3
  <2>. QED  BY <1>5, <2>1, <2>2, SeqEqual
<1>. QED  BY <1>2, <1>7, <1>8 DEF t, u, v, x, y, z

(* The rest of a sequence is a suffix of it.                               *)
LEMMA RestIsSuffix ==
  ASSUME NEW S, NEW s \in Seq(S), NEW m \in 0 .. Len(s)
  PROVE  IsSuffix(SubSeq(s, m + 1, Len(s)), s)
<1>. DEFINE t == SubSeq(s, m + 1, Len(s))
            n == Len(s) - m
<1>1. Len(s) \in Nat /\ m \in Nat /\ n \in Nat /\ n <= Len(s)
      /\ \A i \in 1 .. Len(s) : s[i] \in S
  BY LenProperties, ElementOfSeq
<1>2. t \in Seq(S) /\ Len(t) = n /\ \A k \in 1 .. n : t[k] = s[m + k]
  BY Cut
<1>. HIDE DEF t
<1>3. Reverse(s) = [i \in 1 .. Len(s) |-> s[(Len(s) - i) + 1]]
      /\ Reverse(t) = [i \in 1 .. n |-> t[(n - i) + 1]]
  BY <1>2 DEF Reverse
<1>. DEFINE p == Reverse(s)
            q == Reverse(t)
<1>4. p \in Seq(S) /\ Len(p) = Len(s) /\ \A i \in 1 .. Len(s) : p[i] = s[(Len(s) - i) + 1]
  <2>1. \A i \in 1 .. Len(s) : (Len(s) - i) + 1 \in 1 .. Len(s)
    BY <1>1
  <2>2. \A i \in 1 .. Len(s) : s[(Len(s) - i) + 1] \in S
    BY <1>1, <2>1
  <2>. QED  BY <1>1, <1>3, <2>2
<1>5. \A i \in 1 .. n : (n - i) + 1 \in 1 .. n /\ m + ((n - i) + 1) = (Len(s) - i) + 1
                        /\ i \in 1 .. Len(s) /\ (Len(s) - i) + 1 \in 1 .. Len(s)
  BY <1>1
<1>6. q \in Seq(S) /\ Len(q) = n /\ \A i \in 1 .. n : q[i] = p[i] /\ q[i] \in S
  <2>1. \A i \in 1 .. n : t[(n - i) + 1] = s[(Len(s) - i) + 1]
    BY <1>2, <1>5, SMTT(30)
  <2>2. \A i \in 1 .. n : t[(n - i) + 1] \in S
    BY <1>1, <1>5, <2>1
  <2>. QED  BY <1>1, <1>3, <1>4, <1>5, <2>1, <2>2
<1>. HIDE DEF p, q
<1>7. SubSeq(q, 1, Len(q)) = q
  BY <1>6, SubSeqFull
<1>8. SubSeq(p, 1, n) \in Seq(S) /\ Len(SubSeq(p, 1, n)) = n
      /\ \A k \in 1 .. n : SubSeq(p, 1, n)[k] = p[k]
  BY <1>1, <1>4, Cut
<1>9. SubSeq(p, 1, n) = q
  BY <1>6, <1>8, SeqEqual
<1>. QED  BY <1>1, <1>4, <1>6, <1>7, <1>9 DEF IsSuffix, IsPrefix, p, q, t

-----------------------------------------------------------------------------
(* The buffer of a child. *)

Buffer == [1 .. MemSize -> Piece \cup {Nul}]

(* A request, and what is in a piece of it.                                *)
LEMMA RequestType ==
  ASSUME NEW r \in Request
  PROVE  /\ r.header \in Seq(SUBSET STRING) /\ Len(r.header) \in Nat \ {0}
         /\ DOMAIN r.header = 1 .. Len(r.header) /\ Head(r.header) = r.header[1]
         /\ r.length \in Nat /\ r.length <= MaxBody
         /\ {"first", "bad first"} \cap r.header[1] # {}
         /\ \A k \in 1 .. Len(r.header) :
              "end" \in r.header[k] => k = Len(r.header)
<1>1. /\ r.header \in Seq(SUBSET STRING) /\ r.header # <<>>
      /\ {"first", "bad first"} \cap Head(r.header) # {}
      /\ \A k \in 1 .. Len(r.header) - 1 : "end" \notin r.header[k]
      /\ r.length \in 0 .. MaxBody
  BY DEF Request
<1>. PICK h : h = r.header
  OBVIOUS
<1>2. Len(h) \in Nat \ {0} /\ DOMAIN h = 1 .. Len(h)
  BY <1>1, EmptySeq, LenProperties
<1>3. Head(h) = h[1]
  <2>1. h \in Seq(SUBSET STRING) /\ h # <<>>
    BY <1>1
  <2>. QED  BY <2>1, SMT
<1>4. \A k \in 1 .. Len(h) : k \in 1 .. Len(h) - 1 \/ k = Len(h)
  BY <1>2
<1>. PICK l : l = r.length
  OBVIOUS
<1>5. l \in 0 .. MaxBody
  BY <1>1
<1>6. l \in Nat /\ l <= MaxBody
  BY <1>5, Constants
<1>. QED  BY <1>1, <1>2, <1>3, <1>4, <1>6

(* The lines in a piece.                                                   *)
LEMMA LinesOf ==
  ASSUME NEW c \in Client, NEW r \in Request, r = request[c], NEW k \in Nat \ {0}
  PROVE  /\ <<c, k>> \in Piece /\ <<c, k>> # Nul
         /\ k <= Len(r.header) => Lines(<<c, k>>) = r.header[k]
         /\ "end" \in Lines(<<c, k>>) => k = Len(r.header) /\ "end" \in r.header[k]
<1>1. <<c, k>> \in Piece /\ <<c, k>> # Nul /\ <<c, k>>[1] = c /\ <<c, k>>[2] = k
  BY DEF Piece, Nul
<1>2. Lines(<<c, k>>) = IF k <= Len(r.header) THEN r.header[k] ELSE {}
  BY <1>1 DEF Lines
<1>. PICK e : e = Len(r.header)
  OBVIOUS
<1>3. e \in Nat \ {0} /\ \A j \in 1 .. e : "end" \in r.header[j] => j = e
  BY RequestType
<1>4. k <= e => k \in 1 .. e
  BY <1>3
<1>. QED  BY <1>1, <1>2, <1>3, <1>4

(* The positions of empty lines.                                           *)
Ends(mem) == {k \in DOMAIN mem : /\ "end" \in Lines(mem[k])
                                 /\ \A j \in 1 .. k - 1 : mem[j] # Nul}

(* Where the header ends, if it does.                                      *)
LEMMA HeaderEndIs ==
  ASSUME NEW mem \in Buffer
  PROVE  /\ Ends(mem) = {} => HeaderEnd(mem) = 0
         /\ Ends(mem) # {} => HeaderEnd(mem) \in Ends(mem)
         /\ \A e \in Ends(mem) : HeaderEnd(mem) <= e
<1>1. HeaderEnd(mem) = IF Ends(mem) = {} THEN 0 ELSE Min(Ends(mem))
  BY DEF HeaderEnd, Ends
<1>2. Ends(mem) \subseteq Nat
  BY Constants DEF Ends, Buffer
<1>3. Ends(mem) # {} =>
        Min(Ends(mem)) \in Ends(mem) /\ \A e \in Ends(mem) : Min(Ends(mem)) <= e
  BY <1>2, MinProperty
<1>. QED  BY <1>1, <1>3

(* A header that was read completely ends where it ends.                   *)
LEMMA EndFound ==
  ASSUME NEW c \in Client, NEW r \in Request, r = request[c],
         NEW mem \in Buffer, NEW n \in 0 .. MemSize, Received(mem, n, c),
         NEW e, e = Len(r.header), e <= n, "end" \in r.header[e]
  PROVE  HeaderEnd(mem) = e
<1>1. e \in Nat \ {0} /\ n \in Nat /\ n <= MemSize /\ DOMAIN mem = 1 .. MemSize
  <2>1. n \in Nat /\ n <= MemSize
    BY Constants
  <2>. QED  BY <2>1, RequestType DEF Buffer
<1>2. e \in 1 .. n /\ \A k \in 1 .. n : k \in Nat \ {0} /\ k \in 1 .. MemSize
  BY <1>1, Constants
<1>3. \A k \in 1 .. n : mem[k] = <<c, k>>
  BY DEF Received
<1>4. e \in Ends(mem)
  <2>1. "end" \in Lines(mem[e])
    <3>1. mem[e] = <<c, e>>
      BY <1>2, <1>3
    <3>2. e <= e
      BY <1>1
    <3>. QED  BY <1>1, <3>1, <3>2, LinesOf
  <2>2. \A j \in 1 .. e - 1 : j \in 1 .. n
    BY <1>1, <1>2
  <2>3. \A j \in 1 .. e - 1 : mem[j] # Nul
    BY <1>2, <1>3, <2>2, LinesOf
  <2>. QED  BY <1>1, <1>2, <2>1, <2>3 DEF Ends
<1>. PICK k : k = HeaderEnd(mem)
  OBVIOUS
<1>5. k \in Ends(mem) /\ k <= e
  BY <1>4, HeaderEndIs
<1>6. k \in 1 .. MemSize
  BY <1>1, <1>5 DEF Ends
<1>7. k \in 1 .. n
  BY <1>1, <1>5, <1>6, Constants
<1>8. "end" \in Lines(mem[k])
  BY <1>5 DEF Ends
<1>. QED  BY <1>2, <1>3, <1>7, <1>8, LinesOf

(* An end that is found before a NUL is the end of the request's header.   *)
LEMMA EndKnown ==
  ASSUME NEW c \in Client, NEW r \in Request, r = request[c],
         NEW mem \in Buffer, NEW n \in 0 .. MemSize - 1,
         Received(mem, n, c), mem[n + 1] = Nul, HeaderEnd(mem) # 0
  PROVE  /\ HeaderEnd(mem) = Len(r.header)
         /\ Len(r.header) <= n
         /\ "end" \in r.header[Len(r.header)]
<1>. PICK k : k = HeaderEnd(mem)
  OBVIOUS
<1>1. k \in Ends(mem)
  BY HeaderEndIs
<1>2. k \in 1 .. MemSize /\ "end" \in Lines(mem[k]) /\ \A j \in 1 .. k - 1 : mem[j] # Nul
  BY <1>1 DEF Ends, Buffer
<1>3. k <= n
  <2>1. k # n + 1
    BY <1>2 DEF Lines
  <2>2. ~ (k > n + 1)
    <3>1. SUFFICES ASSUME k > n + 1 PROVE FALSE
      OBVIOUS
    <3>2. n + 1 \in 1 .. k - 1
      BY <1>2, <3>1, Constants
    <3>. QED  BY <1>2, <3>2
  <2>. QED  BY <1>2, <2>1, <2>2, Constants
<1>4. k \in 1 .. n /\ k \in Nat \ {0}
  BY <1>2, <1>3, Constants
<1>5. mem[k] = <<c, k>>
  BY <1>4 DEF Received
<1>. QED  BY <1>2, <1>3, <1>4, <1>5, LinesOf

(* A buffer after a read().                                                *)
LEMMA StoreProperty ==
  ASSUME NEW mem \in Buffer, NEW c \in Client, NEW n \in Nat, Received(mem, n, c),
         NEW up \in Seq(Piece), \A k \in 1 .. Len(up) : up[k] = <<c, n + k>>,
         NEW m \in 0 .. Len(up), n + m <= MemSize
  PROVE  /\ Store(mem, n, SubSeq(up, 1, m)) \in Buffer
         /\ Received(Store(mem, n, SubSeq(up, 1, m)), n + m, c)
<1>. DEFINE ps == SubSeq(up, 1, m)
<1>1. Len(up) \in Nat /\ m \in Nat /\ m <= Len(up)
  BY LenProperties
<1>2. /\ ps \in Seq(Piece) /\ Len(ps) = m
      /\ \A k \in 1 .. m : ps[k] = up[k] /\ ps[k] \in Piece
  <2>1. ps \in Seq(Piece) /\ Len(ps) = m /\ \A k \in 1 .. m : ps[k] = up[k]
    BY Cut
  <2>. QED  BY <2>1, ElementOfSeq
<1>. HIDE DEF ps
<1>. DEFINE st == Store(mem, n, ps)
<1>3. st = [k \in 1 .. MemSize |-> IF k \in n + 1 .. n + m THEN ps[k - n] ELSE mem[k]]
  BY <1>2 DEF Store, Buffer
<1>4. \A k \in 1 .. MemSize :
        k \in n + 1 .. n + m => k - n \in 1 .. m /\ n + (k - n) = k
  BY <1>1, Constants
<1>5. st \in Buffer
  <2>1. \A k \in 1 .. MemSize : st[k] \in Piece \cup {Nul}
    BY <1>2, <1>3, <1>4 DEF Buffer
  <2>. QED  BY <1>3, <2>1 DEF Buffer
<1>6. Received(st, n + m, c)
  <2>1. SUFFICES ASSUME NEW k \in 1 .. n + m PROVE st[k] = <<c, k>>
    BY DEF Received
  <2>2. k \in 1 .. MemSize
    BY <1>1, Constants
  <2>3. CASE k \in n + 1 .. n + m
    <3>1. k - n \in 1 .. m /\ k - n \in 1 .. Len(up) /\ n + (k - n) = k
      BY <1>1, <2>3
    <3>2. st[k] = ps[k - n]
      BY <1>3, <2>2, <2>3
    <3>. QED  BY <1>2, <3>1, <3>2
  <2>4. CASE k \notin n + 1 .. n + m
    <3>1. k \in 1 .. n
      BY <1>1, <2>4
    <3>. QED  BY <1>3, <2>2, <2>4, <3>1 DEF Received
  <2>. QED  BY <2>3, <2>4
<1>. QED  BY <1>5, <1>6 DEF ps

(* A header that parse_header() takes, within MAX_HDR, is well-formed.     *)
LEMMA ParseSound ==
  ASSUME NEW c \in Client, NEW r \in Request, r = request[c],
         NEW mem, NEW n \in Nat, Received(mem, n, c),
         NEW e, e = Len(r.header), e <= n, e <= MaxHdr, "end" \in r.header[e],
         ~ ParseHeader(UNION {Lines(mem[k]) : k \in 1 .. e}) < 0
  PROVE  WellFormed(r)
<1>. DEFINE lines == UNION {Lines(mem[k]) : k \in 1 .. e}
<1>. PICK h : h = r.header
  OBVIOUS
<1>1. e \in Nat \ {0} /\ DOMAIN h = 1 .. e /\ Head(h) = h[1]
      /\ {"first", "bad first"} \cap h[1] # {}
  BY RequestType
<1>2. \A k \in 1 .. e : Lines(mem[k]) = h[k]
  <2>1. e \in Nat \ {0}
    BY <1>1
  <2>2. SUFFICES ASSUME NEW k \in 1 .. e PROVE Lines(mem[k]) = h[k]
    OBVIOUS
  <2>3. k \in 1 .. n /\ k \in Nat \ {0} /\ k <= e
    BY <2>1
  <2>4. mem[k] = <<c, k>>
    BY <2>3 DEF Received
  <2>. QED  BY <2>3, <2>4, LinesOf
<1>3. lines = UNION {h[k] : k \in 1 .. e}
  BY <1>2
<1>4. lines \cap Rejected = {} /\ "host" \in lines /\ "length" \in lines
  BY DEF ParseHeader
<1>. HIDE DEF lines
<1>5. \A k \in 1 .. e : Rejected \cap h[k] = {}
  BY <1>3, <1>4
<1>6. (\E k \in 1 .. e : "host" \in h[k]) /\ (\E k \in 1 .. e : "length" \in h[k])
  BY <1>3, <1>4
<1>7. "first" \in h[1]
  <2>0. e \in Nat \ {0}
    BY <1>1
  <2>1. 1 \in 1 .. e
    BY <2>0
  <2>. QED  BY <1>1, <1>5, <2>1 DEF Rejected
<1>8. Last(h) = h[e]
  BY DEF Last
<1>. QED  BY <1>1, <1>5, <1>6, <1>7, <1>8 DEF WellFormed

-----------------------------------------------------------------------------
(* Connections. *)

(* What Shut() leaves of a connection.                                     *)
LEMMA ShutProperty ==
  ASSUME NEW w \in NetRecord, NEW how \in {"closed", "cut"}
  PROVE  /\ Shut(w, how) \in NetRecord /\ Shut(w, how).up = <<>>
         /\ Shut(w, how).down = w.down /\ Shut(w, how).state \in {how, "reset"}
<1>1. w.up \in Seq(Piece) /\ w.down \in Seq(Token)
  BY DEF NetRecord
<1>. PICK s : s = IF w.up = <<>> THEN how ELSE "reset"
  OBVIOUS
<1>2. Shut(w, how) = [up |-> <<>>, down |-> w.down, state |-> s]
  <2>0. Shut(w, how) = [w EXCEPT !.state = s, !.up = <<>>]
    BY DEF Shut
  <2>1. PICK a, d, t : w = [up |-> a, down |-> d, state |-> t]
    BY DEF NetRecord
  <2>. QED  BY <2>0, <2>1
<1>3. <<>> \in Seq(Piece) /\ s \in {how, "reset"}
  BY EmptySeq
<1>4. [up |-> <<>>, down |-> w.down, state |-> s] \in NetRecord
  BY <1>1, <1>3 DEF NetRecord
<1>. QED  BY <1>2, <1>3, <1>4

(* A connection that was served may be shut: as closed, once its answer is *)
(* whole or nobody waits for it.                                           *)
LEMMA ShutOK ==
  ASSUME NEW c, NEW r, NEW w \in NetRecord, NEW u, PeerOK(c, r, w, u),
         w.state \in {"open", "lost"}, u.pc # "connect", NEW how \in {"closed", "cut"},
         how = "closed" /\ u.pc # "killed" => u.got \o w.down \in Answers(c, r)
  PROVE  PeerOK(c, r, Shut(w, how), u)
<1>. PICK v : v = Shut(w, how)
  OBVIOUS
<1>1. v.up = <<>> /\ v.down = w.down /\ v.state \in {how, "reset"}
  BY ShutProperty
<1>2. Len(<<>>) <= SockBuf
  BY Constants
<1>3. u.pc # "printed"
  BY DEF PeerOK
<1>4. v.state \notin {"none", "lost"}
  BY <1>1
<1>5. v.state = "closed" => how = "closed"
  BY <1>1
<1>6. Len(v.up) <= SockBuf /\ Len(v.down) <= SockBuf
  BY <1>1, <1>2 DEF PeerOK
<1>7. v.state = "closed" /\ u.pc # "killed" => u.got \o v.down \in Answers(c, r)
  BY <1>1, <1>5
<1>8. PeerOK(c, r, v, u)
  BY <1>3, <1>4, <1>6, <1>7 DEF PeerOK
<1>. QED  BY <1>8

(* A child without a connection: the others do not matter to it.           *)
LEMMA IdleOK ==
  ASSUME NEW x, NEW r, NEW w, NEW u, ServeOK(x, r, w, u), x.conn = NoConn,
         NEW r2, NEW w2, NEW u2
  PROVE  ServeOK(x, r2, w2, u2)
<1>1. x.pc \notin Serving /\ x.pc \notin {"header", "body", "write"}
  BY DEF ServeOK, Serving
<1>. QED  BY <1>1 DEF ServeOK

(* What a child's connection depends on.                                   *)
LEMMA SameServe ==
  ASSUME NEW x, NEW y, NEW r, NEW w, NEW u, ServeOK(x, r, w, u),
         y.pc = x.pc, y.conn = x.conn, y.mem = x.mem, y.n = x.n, y.need = x.need,
         y.resp = x.resp
  PROVE  ServeOK(y, r, w, u)
<1>1. x.pc = "body" /\ BodyNext(x, r) => BodyNext(y, r)
  BY DEF BodyNext
<1>2. Answering(x, r, w, u) => Answering(y, r, w, u)
  BY DEF Answering
<1>. QED  BY <1>1, <1>2 DEF ServeOK

(* A child that serves is the only one with its connection.                *)
LEMMA Serves ==
  ASSUME PreforkInv, NEW i \in Child, NEW c, c = child[i].conn
  PROVE  /\ child[i] \in ChildRecord
         /\ ServeOK(child[i], request[c], net[c], client[c])
         /\ child[i].pc \in Serving <=> c # NoConn
         /\ c # NoConn => /\ c \in Client /\ c \notin Range(backlog)
                          /\ net[c] \in NetRecord /\ client[c] \in ClientRecord
                          /\ request[c] \in Request
                          /\ PeerOK(c, request[c], net[c], client[c])
                          /\ net[c].state \in {"open", "lost"} /\ client[c].pc # "connect"
                          /\ \A j \in Child \ {i} : child[j].conn # c
<1>1. child[i] \in ChildRecord /\ ServeOK(child[i], request[c], net[c], client[c])
  BY DEF PreforkInv, VariablesOK
<1>2. child[i].conn \in Client \cup {NoConn}
  BY <1>1 DEF ChildRecord
<1>3. child[i].pc \in Serving <=> c # NoConn
  BY <1>1 DEF ServeOK
<1>4. child[i].pc \in Serving => net[c].state \in {"open", "lost"} /\ client[c].pc # "connect"
  BY <1>1 DEF ServeOK
<1>5. c \notin Range(backlog)
  BY DEF PreforkInv, OnePlace
<1>6. c # NoConn => \A j \in Child \ {i} : child[j].conn # c
  BY DEF PreforkInv, OnePlace
<1>7. c # NoConn => c \in Client
  BY <1>2
<1>8. c # NoConn => /\ net[c] \in NetRecord /\ client[c] \in ClientRecord
                    /\ request[c] \in Request
                    /\ PeerOK(c, request[c], net[c], client[c])
  BY <1>7 DEF PreforkInv, VariablesOK
<1>. QED  BY <1>1, <1>3, <1>4, <1>5, <1>6, <1>7, <1>8

(* A step of a child that serves a connection: what it does to itself and  *)
(* to the connection.                                                      *)
LEMMA ServeStep ==
  ASSUME PreforkInv, NEW i \in Child, child[i].pc \in Serving,
         NEW c, c = child[i].conn, NEW x \in ChildRecord, NEW w \in NetRecord,
         child' = [child EXCEPT ![i] = x], net' = [net EXCEPT ![c] = w],
         UNCHANGED <<request, client, backlog, parent>>,
         PeerOK(c, request[c], w, client[c]),
         \/ x.conn = c /\ x.pc \in Serving /\ ServeOK(x, request[c], w, client[c])
         \/ x.conn = NoConn /\ x.pc = "accept" /\ x.n = 0
  PROVE  PreforkInv'
<1>1. /\ c \in Client /\ c # NoConn /\ c \notin Range(backlog)
      /\ \A j \in Child \ {i} : child[j].conn # c
  BY Serves DEF Serving
<1>2. /\ request \in [Client -> Request] /\ client \in [Client -> ClientRecord]
      /\ net \in [Client -> NetRecord] /\ backlog \in Seq(Client)
      /\ child \in [Child -> ChildRecord] /\ parent \in ParentRecord
  BY DEF PreforkInv, VariablesOK
<1>3. /\ child' \in [Child -> ChildRecord] /\ child'[i] = x
      /\ \A j \in Child \ {i} : child'[j] = child[j]
  BY <1>2
<1>4. /\ net' \in [Client -> NetRecord] /\ net'[c] = w
      /\ \A d \in Client \ {c} : net'[d] = net[d]
  BY <1>1, <1>2
<1>5. VariablesOK'
  BY <1>2, <1>3, <1>4 DEF VariablesOK
<1>6. OnePlace'
  <2>1. \A j \in Child : child'[j].conn = child[j].conn \/ child'[j].conn = NoConn
    BY <1>3
  <2>2. NoConn \notin Range(backlog)
    BY <1>2, PreforkAssumption, ElementOfSeq DEF Range
  <2>3. \A j \in Child : child'[j].conn \notin Range(backlog')
    BY <2>1, <2>2 DEF PreforkInv, OnePlace
  <2>4. \A j, k \in Child : child'[j].conn # NoConn /\ child'[j].conn = child'[k].conn => j = k
    BY <2>1 DEF PreforkInv, OnePlace
  <2>5. \A k, l \in DOMAIN backlog' : backlog'[k] = backlog'[l] => k = l
    BY DEF PreforkInv, OnePlace
  <2>. QED  BY <2>3, <2>4, <2>5 DEF OnePlace
<1>7. FamilyOK'
  <2>1. child[i].pc \notin {"unborn", "reaped"} /\ x.pc \notin {"unborn", "reaped"}
    BY DEF Serving
  <2>2. FamilyOK
    BY DEF PreforkInv
  <2>3. SUFFICES ASSUME NEW j \in Child
                 PROVE  LET pid == parent.child_pids[j]
                            pc == child'[j].pc
                        IN /\ pid \in {Unset, ForkFailed, j}
                           /\ pid = ForkFailed => pc = "unborn"
                           /\ parent.pc \in {"fork", "record"} /\ j > parent.next => pc = "unborn"
                           /\ parent.pc = "fork" /\ j = parent.next => pc = "unborn"
                           /\ parent.pc \in {"fork", "record"} =>
                                (pid = Unset <=> j >= parent.next)
                           /\ parent.pc \in {"wait", "exited"} => pid # Unset
                           /\ (parent.pc = "wait" /\ j < parent.next) \/ parent.pc = "exited" =>
                                pc \in {"unborn", "reaped"}
    BY DEF FamilyOK
  <2>. QED  BY <1>3, <2>1, <2>2 DEF FamilyOK
<1>8. \A d \in Client : PeerOK(d, request'[d], net'[d], client'[d])
  BY <1>4 DEF PreforkInv
<1>9. \A d \in Range(backlog) : d \in Client /\ WaitOK(d, net'[d], client'[d])
  <2>1. \A d \in Range(backlog) : d \in Client \ {c}
    BY <1>1, <1>2, ElementOfSeq DEF Range
  <2>. QED  BY <1>4, <2>1 DEF PreforkInv
<1>10. \A j \in Child : LET d == child'[j].conn
                        IN ServeOK(child'[j], request'[d], net'[d], client'[d])
  <2>1. SUFFICES ASSUME NEW j \in Child, NEW d, d = child'[j].conn
                 PROVE  ServeOK(child'[j], request[d], net'[d], client[d])
    OBVIOUS
  <2>2. CASE j = i
    <3>1. CASE x.conn = c /\ ServeOK(x, request[c], w, client[c])
      BY <1>3, <1>4, <2>1, <2>2, <3>1
    <3>2. CASE x.conn = NoConn /\ x.pc = "accept" /\ x.n = 0
      BY <1>3, <2>1, <2>2, <3>2 DEF ServeOK, Serving
    <3>. QED  BY <3>1, <3>2
  <2>3. CASE j # i
    <3>1. child'[j] = child[j] /\ d = child[j].conn /\ d # c /\ d \in Client \cup {NoConn}
      BY <1>1, <1>2, <1>3, <2>1, <2>3 DEF ChildRecord
    <3>2. ServeOK(child[j], request[d], net[d], client[d])
      BY <3>1 DEF PreforkInv
    <3>3. CASE d = NoConn
      BY <3>1, <3>2, <3>3, IdleOK
    <3>4. CASE d \in Client
      BY <1>4, <3>1, <3>2, <3>4
    <3>. QED  BY <3>1, <3>3, <3>4
  <2>. QED  BY <2>2, <2>3
<1>11. \A d \in Range(backlog') : WaitOK(d, net'[d], client'[d])
  BY <1>9
<1>. QED  BY <1>5, <1>6, <1>7, <1>8, <1>10, <1>11 DEF PreforkInv

(* A step of a client: what it does to itself and to its connection.       *)
LEMMA ClientFrame ==
  ASSUME PreforkInv, NEW c \in Client, NEW u \in ClientRecord, NEW w \in NetRecord,
         client' = [client EXCEPT ![c] = u], net' = [net EXCEPT ![c] = w],
         UNCHANGED <<request, child, backlog, parent>>,
         PeerOK(c, request[c], w, u),
         c \in Range(backlog) => WaitOK(c, w, u),
         \A i \in Child : child[i].conn = c => ServeOK(child[i], request[c], w, u)
  PROVE  PreforkInv'
<1>1. /\ request \in [Client -> Request] /\ client \in [Client -> ClientRecord]
      /\ net \in [Client -> NetRecord] /\ backlog \in Seq(Client)
      /\ child \in [Child -> ChildRecord] /\ parent \in ParentRecord
  BY DEF PreforkInv, VariablesOK
<1>2. /\ client' \in [Client -> ClientRecord] /\ client'[c] = u
      /\ \A d \in Client \ {c} : client'[d] = client[d]
      /\ net' \in [Client -> NetRecord] /\ net'[c] = w
      /\ \A d \in Client \ {c} : net'[d] = net[d]
  BY <1>1
<1>3. VariablesOK'
  BY <1>1, <1>2 DEF VariablesOK
<1>4. OnePlace' /\ FamilyOK'
  BY DEF PreforkInv, OnePlace, FamilyOK
<1>5. \A d \in Client : PeerOK(d, request'[d], net'[d], client'[d])
  BY <1>2 DEF PreforkInv
<1>6. \A d \in Range(backlog') : WaitOK(d, net'[d], client'[d])
  <2>1. \A d \in Range(backlog) : d \in Client
    BY <1>1, ElementOfSeq DEF Range
  <2>. QED  BY <1>2, <2>1 DEF PreforkInv
<1>7. \A j \in Child : LET d == child'[j].conn
                       IN ServeOK(child'[j], request'[d], net'[d], client'[d])
  <2>1. SUFFICES ASSUME NEW j \in Child, NEW d, d = child[j].conn
                 PROVE  ServeOK(child[j], request[d], net'[d], client'[d])
    OBVIOUS
  <2>2. d \in Client \cup {NoConn} /\ ServeOK(child[j], request[d], net[d], client[d])
    BY <1>1, <2>1 DEF ChildRecord, PreforkInv
  <2>3. CASE d = c
    BY <1>2, <2>1, <2>3
  <2>4. CASE d \in Client \ {c}
    BY <1>2, <2>2, <2>4
  <2>5. CASE d = NoConn
    BY <2>1, <2>2, <2>5, IdleOK
  <2>. QED  BY <2>2, <2>3, <2>4, <2>5
<1>. QED  BY <1>3, <1>4, <1>5, <1>6, <1>7 DEF PreforkInv

(* A step of the parent alone, or of a child that has no connection.       *)
LEMMA FamilyFrame ==
  ASSUME PreforkInv, FamilyOK', parent' \in ParentRecord,
         UNCHANGED <<request, client, net, backlog>>,
         child' \in [Child -> ChildRecord],
         \A i \in Child : \/ child'[i] = child[i]
                          \/ child'[i].conn = NoConn /\ ServeOK(child'[i], 0, 0, 0)
  PROVE  PreforkInv'
<1>1. VariablesOK'
  BY DEF PreforkInv, VariablesOK
<1>2. NoConn \notin Range(backlog)
  BY PreforkAssumption, ElementOfSeq DEF Range, PreforkInv, VariablesOK
<1>3. OnePlace'
  <2>1. \A i \in Child : child'[i].conn = child[i].conn \/ child'[i].conn = NoConn
    OBVIOUS
  <2>2. \A i \in Child : child'[i].conn \notin Range(backlog')
    BY <1>2, <2>1 DEF PreforkInv, OnePlace
  <2>3. \A i, j \in Child : child'[i].conn # NoConn /\ child'[i].conn = child'[j].conn => i = j
    BY <2>1 DEF PreforkInv, OnePlace
  <2>4. \A k, l \in DOMAIN backlog' : backlog'[k] = backlog'[l] => k = l
    BY DEF PreforkInv, OnePlace
  <2>. QED  BY <2>2, <2>3, <2>4 DEF OnePlace
<1>4. \A j \in Child : LET d == child'[j].conn
                       IN ServeOK(child'[j], request'[d], net'[d], client'[d])
  <2>1. SUFFICES ASSUME NEW j \in Child, NEW d, d = child'[j].conn
                 PROVE  ServeOK(child'[j], request[d], net[d], client[d])
    OBVIOUS
  <2>2. CASE child'[j] = child[j]
    BY <2>1, <2>2 DEF PreforkInv
  <2>3. CASE child'[j].conn = NoConn /\ ServeOK(child'[j], 0, 0, 0)
    BY <2>3, IdleOK
  <2>. QED  BY <2>2, <2>3
<1>5. (\A d \in Client : PeerOK(d, request'[d], net'[d], client'[d]))
      /\ \A d \in Range(backlog') : WaitOK(d, net'[d], client'[d])
  BY DEF PreforkInv
<1>. QED  BY <1>1, <1>3, <1>4, <1>5 DEF PreforkInv

-----------------------------------------------------------------------------
(* Signals, and children that are killed. *)

(* The children that an action kills, of those in K, and what it leaves of *)
(* the others but for their pending signals.                               *)
Killed(K) ==
  \A i \in Child :
    /\ i \in K /\ Alive(i) =>
         child'[i].pc = "zombie" /\ child'[i].conn = NoConn
    /\ ~ (i \in K /\ Alive(i)) =>
         child'[i].pc = child[i].pc /\ child'[i].conn = child[i].conn
    /\ child'[i].mem = child[i].mem /\ child'[i].n = child[i].n
    /\ child'[i].need = child[i].need
    /\ ~ (i \in K /\ Alive(i)) => child'[i].resp = child[i].resp

(* Children are killed: their connections end.                             *)
LEMMA KillStep ==
  ASSUME PreforkInv, NEW K \in SUBSET Child, Killed(K), child' \in [Child -> ChildRecord],
         net' = NetAfter(K), parent' \in ParentRecord, parent'.pc = parent.pc,
         parent'.next = parent.next, parent'.child_pids = parent.child_pids,
         UNCHANGED <<request, client, backlog>>
  PROVE  PreforkInv'
<1>1. /\ request \in [Client -> Request] /\ client \in [Client -> ClientRecord]
      /\ net \in [Client -> NetRecord] /\ backlog \in Seq(Client)
      /\ child \in [Child -> ChildRecord] /\ parent \in ParentRecord
  BY DEF PreforkInv, VariablesOK
<1>. DEFINE Hit(c) == \E i \in K : Alive(i) /\ child[i].conn = c
<1>2. \A c \in Client : Hit(c) =>
        /\ c \notin Range(backlog) /\ net[c].state \in {"open", "lost"}
        /\ client[c].pc # "connect"
        /\ \A j \in Child : child[j].conn = c => j \in K /\ Alive(j)
  <2>1. SUFFICES ASSUME NEW c \in Client, NEW i \in K, Alive(i), child[i].conn = c
                 PROVE  /\ c \notin Range(backlog) /\ net[c].state \in {"open", "lost"}
                        /\ client[c].pc # "connect"
                        /\ \A j \in Child : child[j].conn = c => j \in K /\ Alive(j)
    OBVIOUS
  <2>2. i \in Child /\ c # NoConn
    BY PreforkAssumption
  <2>. QED  BY <2>1, <2>2, Serves
<1>3. \A c \in Client : net'[c] = IF Hit(c) THEN Shut(net[c], "cut") ELSE net[c]
  BY DEF NetAfter
<1>4. net' \in [Client -> NetRecord]
  <2>1. \A c \in Client : net'[c] \in NetRecord
    BY <1>1, <1>3, ShutProperty
  <2>. QED  BY <2>1 DEF NetAfter
<1>5. VariablesOK'
  BY <1>1, <1>4 DEF VariablesOK
<1>6. OnePlace'
  <2>1. \A i \in Child : child'[i].conn = child[i].conn \/ child'[i].conn = NoConn
    BY DEF Killed
  <2>2. NoConn \notin Range(backlog)
    BY <1>1, PreforkAssumption, ElementOfSeq DEF Range
  <2>3. \A i \in Child : child'[i].conn \notin Range(backlog')
    BY <2>1, <2>2 DEF PreforkInv, OnePlace
  <2>4. \A i, j \in Child : child'[i].conn # NoConn /\ child'[i].conn = child'[j].conn => i = j
    BY <2>1 DEF PreforkInv, OnePlace
  <2>5. \A k, l \in DOMAIN backlog' : backlog'[k] = backlog'[l] => k = l
    BY DEF PreforkInv, OnePlace
  <2>. QED  BY <2>3, <2>4, <2>5 DEF OnePlace
<1>7. FamilyOK'
  <2>1. \A i \in Child : child'[i].pc = child[i].pc
                         \/ /\ child[i].pc \notin {"unborn", "reaped"}
                            /\ child'[i].pc \notin {"unborn", "reaped"}
    BY DEF Killed, Alive
  <2>2. FamilyOK
    BY DEF PreforkInv
  <2>3. SUFFICES ASSUME NEW j \in Child
                 PROVE  LET pid == parent.child_pids[j]
                            pc == child'[j].pc
                        IN /\ pid \in {Unset, ForkFailed, j}
                           /\ pid = ForkFailed => pc = "unborn"
                           /\ parent.pc \in {"fork", "record"} /\ j > parent.next => pc = "unborn"
                           /\ parent.pc = "fork" /\ j = parent.next => pc = "unborn"
                           /\ parent.pc \in {"fork", "record"} =>
                                (pid = Unset <=> j >= parent.next)
                           /\ parent.pc \in {"wait", "exited"} => pid # Unset
                           /\ (parent.pc = "wait" /\ j < parent.next) \/ parent.pc = "exited" =>
                                pc \in {"unborn", "reaped"}
    BY DEF FamilyOK
  <2>. QED  BY <2>1, <2>2 DEF FamilyOK
<1>8. \A d \in Client : PeerOK(d, request'[d], net'[d], client'[d])
  <2>1. SUFFICES ASSUME NEW d \in Client PROVE PeerOK(d, request[d], net'[d], client[d])
    OBVIOUS
  <2>2. PeerOK(d, request[d], net[d], client[d]) /\ net[d] \in NetRecord
    BY <1>1 DEF PreforkInv
  <2>3. CASE Hit(d)
    <3>1. net[d].state \in {"open", "lost"} /\ client[d].pc # "connect"
      BY <1>2, <2>3
    <3>2. PeerOK(d, request[d], Shut(net[d], "cut"), client[d])
      BY <2>2, <3>1, ShutOK
    <3>. QED  BY <1>3, <2>3, <3>2
  <2>4. CASE ~ Hit(d)
    BY <1>3, <2>2, <2>4
  <2>. QED  BY <2>3, <2>4
<1>9. \A d \in Range(backlog') : WaitOK(d, net'[d], client'[d])
  <2>1. \A d \in Range(backlog) : d \in Client /\ ~ Hit(d)
    BY <1>1, <1>2, ElementOfSeq DEF Range
  <2>2. \A d \in Range(backlog) : net'[d] = net[d]
    BY <1>3, <2>1
  <2>. QED  BY <2>2 DEF PreforkInv
<1>10. \A j \in Child : LET d == child'[j].conn
                        IN ServeOK(child'[j], request'[d], net'[d], client'[d])
  <2>1. SUFFICES ASSUME NEW j \in Child, NEW d, d = child'[j].conn
                 PROVE  ServeOK(child'[j], request[d], net'[d], client[d])
    OBVIOUS
  <2>2. CASE j \in K /\ Alive(j)
    BY <2>2 DEF Killed, ServeOK, Serving
  <2>3. CASE ~ (j \in K /\ Alive(j))
    <3>1. d = child[j].conn /\ d \in Client \cup {NoConn}
      BY <1>1, <2>1, <2>3 DEF Killed, ChildRecord
    <3>2. ServeOK(child[j], request[d], net[d], client[d])
      BY <3>1 DEF PreforkInv
    <3>3. ServeOK(child'[j], request[d], net[d], client[d])
      <4>1. /\ child'[j].pc = child[j].pc /\ child'[j].conn = child[j].conn
            /\ child'[j].mem = child[j].mem /\ child'[j].n = child[j].n
            /\ child'[j].need = child[j].need /\ child'[j].resp = child[j].resp
        BY <2>3 DEF Killed
      <4>. QED  BY <3>2, <4>1, SameServe
    <3>4. CASE d = NoConn
      BY <2>1, <3>3, <3>4, IdleOK
    <3>5. CASE d \in Client
      <4>1. ~ Hit(d)
        BY <1>2, <2>3, <3>1, <3>5
      <4>2. net'[d] = net[d]
        BY <1>3, <3>5, <4>1
      <4>. QED  BY <3>3, <4>2
    <3>. QED  BY <3>1, <3>4, <3>5
  <2>. QED  BY <2>2, <2>3
<1>. QED  BY <1>5, <1>6, <1>7, <1>8, <1>9, <1>10 DEF PreforkInv

(* What ChildAfter() makes of a child.                                     *)
LEMMA ChildAfterProperty ==
  ASSUME PreforkInv, NEW K \in SUBSET Child, NEW i \in Child
  PROVE  /\ ChildAfter(K)[i] \in ChildRecord
         /\ i \in K /\ Alive(i) =>
              ChildAfter(K)[i].pc = "zombie" /\ ChildAfter(K)[i].conn = NoConn
         /\ ~ (i \in K /\ Alive(i)) => ChildAfter(K)[i] = child[i]
         /\ ChildAfter(K)[i].mem = child[i].mem /\ ChildAfter(K)[i].n = child[i].n
         /\ ChildAfter(K)[i].need = child[i].need
<1>1. child[i] \in ChildRecord
  BY DEF PreforkInv, VariablesOK
<1>. PICK x : x = child[i]
  OBVIOUS
<1>2. x \in ChildRecord
  BY <1>1
<1>3. ChildAfter(K)[i] = IF i \in K /\ Alive(i)
                         THEN [x EXCEPT !.pc = "zombie", !.conn = NoConn, !.resp = <<>>]
                         ELSE x
  BY DEF ChildAfter
<1>. DEFINE y == [x EXCEPT !.pc = "zombie", !.conn = NoConn, !.resp = <<>>]
<1>4. <<>> \in Seq(Token)
  BY EmptySeq
<1>5. /\ y \in ChildRecord /\ y.pc = "zombie" /\ y.conn = NoConn
      /\ y.mem = x.mem /\ y.n = x.n /\ y.need = x.need
  BY <1>2, <1>4 DEF ChildRecord
<1>. QED  BY <1>2, <1>3, <1>5

(* The numbers in child_pids that are killed are children.                 *)
LEMMA KilledChildren ==
  ASSUME NEW pids
  PROVE  KillAllChildren(pids) \in SUBSET Child
BY DEF KillAllChildren

(* The handlers of the parent.                                             *)
LEMMA HandleSignalStep ==
  ASSUME PreforkInv, HandleSignal
  PROVE  PreforkInv'
<1>. PICK K : K = KillAllChildren(parent.child_pids)
  OBVIOUS
<1>1. /\ K \in SUBSET Child /\ child' = ChildAfter(K) /\ net' = NetAfter(K)
      /\ parent' = [parent EXCEPT !.sigint = FALSE, !.sigchld = \E i \in K : Alive(i)]
      /\ UNCHANGED <<request, client, backlog>>
  BY KilledChildren DEF HandleSignal
<1>2. /\ child' \in [Child -> ChildRecord] /\ Killed(K)
  <2>1. child' \in [Child -> ChildRecord]
    <3>1. \A i \in Child : ChildAfter(K)[i] \in ChildRecord
      BY <1>1, ChildAfterProperty
    <3>. QED  BY <1>1, <3>1 DEF ChildAfter
  <2>. QED  BY <1>1, <2>1, ChildAfterProperty DEF Killed
<1>3. /\ parent' \in ParentRecord /\ parent'.pc = parent.pc
      /\ parent'.next = parent.next /\ parent'.child_pids = parent.child_pids
  <2>1. parent \in ParentRecord
    BY DEF PreforkInv, VariablesOK
  <2>2. PICK b \in BOOLEAN : b = \E i \in K : Alive(i)
    OBVIOUS
  <2>3. parent' = [parent EXCEPT !.sigint = FALSE, !.sigchld = b]
    BY <1>1, <2>2
  <2>. QED  BY <2>1, <2>3 DEF ParentRecord
<1>. QED  BY <1>1, <1>2, <1>3, KillStep

(* sigint_handler() in a child.                                            *)
LEMMA ChildHandlesSignalStep ==
  ASSUME PreforkInv, NEW i \in Child, ChildHandlesSignal(i)
  PROVE  PreforkInv'
<1>. PICK K : K = KillAllChildren(child[i].child_pids)
  OBVIOUS
<1>1. /\ K \in SUBSET Child /\ child' = [ChildAfter(K) EXCEPT ![i].sigint = FALSE]
      /\ net' = NetAfter(K)
      /\ parent' = [parent EXCEPT !.sigchld = @ \/ \E j \in K : Alive(j)]
      /\ UNCHANGED <<request, client, backlog>>
  BY KilledChildren DEF ChildHandlesSignal
<1>. PICK f : f = ChildAfter(K)
  OBVIOUS
<1>2. /\ f \in [Child -> ChildRecord] /\ child' = [f EXCEPT ![i].sigint = FALSE]
  <2>1. \A j \in Child : f[j] \in ChildRecord
    BY <1>1, ChildAfterProperty
  <2>. QED  BY <1>1, <2>1 DEF ChildAfter
<1>3. /\ child' \in [Child -> ChildRecord]
      /\ \A j \in Child : /\ child'[j].pc = f[j].pc /\ child'[j].conn = f[j].conn
                          /\ child'[j].mem = f[j].mem /\ child'[j].n = f[j].n
                          /\ child'[j].need = f[j].need /\ child'[j].resp = f[j].resp
  <2>1. f[i] \in ChildRecord
    BY <1>2
  <2>2. PICK y : y = [f[i] EXCEPT !.sigint = FALSE]
    OBVIOUS
  <2>3. /\ y \in ChildRecord /\ y.pc = f[i].pc /\ y.conn = f[i].conn /\ y.mem = f[i].mem
        /\ y.n = f[i].n /\ y.need = f[i].need /\ y.resp = f[i].resp
    BY <2>1, <2>2 DEF ChildRecord
  <2>4. child' = [f EXCEPT ![i] = y]
    BY <1>2, <2>2
  <2>. QED  BY <1>2, <2>3, <2>4, ZenonT(30)
<1>4. Killed(K)
  BY <1>1, <1>3, ChildAfterProperty DEF Killed
<1>5. /\ parent' \in ParentRecord /\ parent'.pc = parent.pc
      /\ parent'.next = parent.next /\ parent'.child_pids = parent.child_pids
  <2>1. parent \in ParentRecord
    BY DEF PreforkInv, VariablesOK
  <2>2. PICK b \in BOOLEAN : b = (parent.sigchld \/ \E j \in K : Alive(j))
    OBVIOUS
  <2>3. parent' = [parent EXCEPT !.sigchld = b]
    BY <1>1, <2>2
  <2>. QED  BY <2>1, <2>3 DEF ParentRecord
<1>. QED  BY <1>1, <1>3, <1>4, <1>5, KillStep

(* A child is killed from outside.                                         *)
LEMMA ChildKilledStep ==
  ASSUME PreforkInv, NEW i \in Child, ChildKilled(i)
  PROVE  PreforkInv'
<1>1. /\ {i} \in SUBSET Child /\ child' = ChildAfter({i}) /\ net' = NetAfter({i})
      /\ parent' = [parent EXCEPT !.sigchld = TRUE]
      /\ UNCHANGED <<request, client, backlog>>
  BY DEF ChildKilled
<1>2. /\ child' \in [Child -> ChildRecord] /\ Killed({i})
  <2>1. \A j \in Child : ChildAfter({i})[j] \in ChildRecord
    BY <1>1, ChildAfterProperty
  <2>2. child' \in [Child -> ChildRecord]
    BY <1>1, <2>1 DEF ChildAfter
  <2>. QED  BY <1>1, <2>2, ChildAfterProperty DEF Killed
<1>3. /\ parent' \in ParentRecord /\ parent'.pc = parent.pc
      /\ parent'.next = parent.next /\ parent'.child_pids = parent.child_pids
  BY <1>1 DEF PreforkInv, VariablesOK, ParentRecord
<1>. QED  BY <1>1, <1>2, <1>3, KillStep

(* SIGINT from the keyboard.                                               *)
LEMMA InterruptStep ==
  ASSUME PreforkInv, Interrupt
  PROVE  PreforkInv'
<1>1. /\ parent' = [parent EXCEPT !.sigint = TRUE]
      /\ child' = [i \in Child |-> [child[i] EXCEPT !.sigint = Alive(i)]]
      /\ UNCHANGED <<request, client, net, backlog>>
  BY DEF Interrupt
<1>2. net' = NetAfter({})
  BY <1>1 DEF NetAfter, PreforkInv, VariablesOK
<1>3. \A i \in Child : child'[i] \in ChildRecord
                       /\ child'[i].pc = child[i].pc /\ child'[i].conn = child[i].conn
                       /\ child'[i].mem = child[i].mem /\ child'[i].n = child[i].n
                       /\ child'[i].need = child[i].need /\ child'[i].resp = child[i].resp
  <2>1. SUFFICES ASSUME NEW i \in Child
                 PROVE  /\ child'[i] \in ChildRecord
                        /\ child'[i].pc = child[i].pc /\ child'[i].conn = child[i].conn
                        /\ child'[i].mem = child[i].mem /\ child'[i].n = child[i].n
                        /\ child'[i].need = child[i].need /\ child'[i].resp = child[i].resp
    OBVIOUS
  <2>2. child[i] \in ChildRecord
    BY DEF PreforkInv, VariablesOK
  <2>3. PICK b \in BOOLEAN : b = Alive(i)
    <3>1. CASE Alive(i)
      <4>1. Alive(i) = TRUE
        BY <3>1, Zenon
      <4>. QED  BY <4>1, Zenon
    <3>2. CASE ~ Alive(i)
      <4>1. Alive(i) = FALSE
        BY <3>2, SMT DEF Alive
      <4>. QED  BY <4>1, Zenon
    <3>. QED  BY <3>1, <3>2
  <2>4. child'[i] = [child[i] EXCEPT !.sigint = b]
    BY <1>1, <2>3
  <2>. QED  BY <2>2, <2>4 DEF ChildRecord
<1>4. child' \in [Child -> ChildRecord] /\ Killed({})
  BY <1>1, <1>3 DEF Killed
<1>5. /\ parent' \in ParentRecord /\ parent'.pc = parent.pc
      /\ parent'.next = parent.next /\ parent'.child_pids = parent.child_pids
  BY <1>1 DEF PreforkInv, VariablesOK, ParentRecord
<1>. QED  BY <1>1, <1>2, <1>4, <1>5, KillStep

-----------------------------------------------------------------------------
(* The parent. *)

(* A child before its first connection.                                    *)
LEMMA NewChildProperty ==
  ASSUME NEW pids \in [Child -> Int]
  PROVE  /\ NewChild(pids) \in ChildRecord /\ NewChild(pids).pc = "accept"
         /\ NewChild(pids).conn = NoConn /\ ServeOK(NewChild(pids), 0, 0, 0)
<1>1. /\ [k \in 1 .. MemSize |-> Nul] \in [1 .. MemSize -> Piece \cup {Nul}]
      /\ 0 \in 0 .. MaxHdr + MaxBody /\ 0 \in 0 .. MaxBody /\ <<>> \in Seq(Token)
  BY Constants, EmptySeq
<1>2. NewChild(pids) \in ChildRecord
  BY <1>1 DEF NewChild, ChildRecord
<1>3. /\ NewChild(pids).pc = "accept" /\ NewChild(pids).conn = NoConn
      /\ NewChild(pids).n = 0
  BY DEF NewChild
<1>. QED  BY <1>2, <1>3 DEF ServeOK, Serving

(* fork(): the child begins.                                               *)
LEMMA ForkStep ==
  ASSUME PreforkInv, Fork
  PROVE  PreforkInv'
<1>. PICK k : k = parent.next
  OBVIOUS
<1>1. /\ parent \in ParentRecord /\ child \in [Child -> ChildRecord] /\ FamilyOK
      /\ parent.pc = "fork" /\ parent' = [parent EXCEPT !.pc = "record"]
      /\ child' = [child EXCEPT ![k] = NewChild(parent.child_pids)]
      /\ UNCHANGED <<request, client, net, backlog>>
  BY DEF Fork, PreforkInv, VariablesOK
<1>2. k \in Child /\ k \in Nat /\ parent.child_pids \in [Child -> Int]
  BY <1>1, Constants DEF ParentRecord, Child
<1>3. /\ parent' \in ParentRecord /\ parent'.pc = "record" /\ parent'.next = k
      /\ parent'.child_pids = parent.child_pids
  BY <1>1 DEF ParentRecord
<1>4. PICK x : x = NewChild(parent.child_pids)
  OBVIOUS
<1>5. x \in ChildRecord /\ x.pc = "accept" /\ x.conn = NoConn /\ ServeOK(x, 0, 0, 0)
  BY <1>2, <1>4, NewChildProperty
<1>6. /\ child' \in [Child -> ChildRecord] /\ child'[k] = x
      /\ \A i \in Child \ {k} : child'[i] = child[i]
  BY <1>1, <1>2, <1>4, <1>5
<1>7. FamilyOK'
  <2>1. parent.child_pids[k] # ForkFailed
    <3>1. parent.child_pids[k] = Unset <=> k >= k
      BY <1>1, <1>2 DEF FamilyOK
    <3>. QED  BY <1>2, <3>1 DEF Unset, ForkFailed
  <2>. QED  BY <1>1, <1>2, <1>3, <1>5, <1>6, <2>1 DEF FamilyOK
<1>. QED  BY <1>1, <1>3, <1>5, <1>6, <1>7, FamilyFrame

(* After child_pids[next] was assigned, or waited for.                     *)
LEMMA AdvanceProperty ==
  ASSUME parent \in ParentRecord, NEW k, k = parent.next,
         NEW loop \in {"fork", "wait"}, NEW after \in {"wait", "exited"},
         NEW p, p = Advance(loop, after)
  PROVE  /\ k \in Child /\ k \in Nat \ {0} /\ k <= N_CHILD
         /\ p \in ParentRecord /\ p.child_pids = parent.child_pids
         /\ k = N_CHILD => p.pc = after /\ p.next = 1
         /\ k # N_CHILD => p.pc = loop /\ p.next = k + 1
<1>1. k \in Child /\ k \in Nat \ {0} /\ k <= N_CHILD
  BY Constants DEF ParentRecord, Child
<1>2. 1 \in Child /\ (k # N_CHILD => k + 1 \in Child)
  BY <1>1, Constants DEF Child
<1>3. CASE k = N_CHILD
  <2>1. p = [parent EXCEPT !.pc = after, !.next = 1]
    BY <1>3 DEF Advance
  <2>. QED  BY <1>1, <1>2, <1>3, <2>1 DEF ParentRecord
<1>4. CASE k # N_CHILD
  <2>1. p = [parent EXCEPT !.pc = loop, !.next = k + 1]
    BY <1>4 DEF Advance
  <2>. QED  BY <1>1, <1>2, <1>4, <2>1 DEF ParentRecord
<1>. QED  BY <1>3, <1>4

(* child_pids[next] gets a number, or what a failed fork() returns.        *)
LEMMA NumberStep ==
  ASSUME PreforkInv, NEW k, k = parent.next, NEW v \in {k, ForkFailed},
         \/ parent.pc = "record" /\ v = k
         \/ parent.pc = "fork" /\ v = ForkFailed,
         parent' = [Advance("fork", "wait") EXCEPT !.child_pids[k] = v],
         UNCHANGED <<request, client, net, backlog, child>>
  PROVE  PreforkInv'
<1>1. parent \in ParentRecord /\ child \in [Child -> ChildRecord] /\ FamilyOK
  BY DEF PreforkInv, VariablesOK
<1>. PICK p : p = Advance("fork", "wait")
  OBVIOUS
<1>2. /\ k \in Child /\ k \in Nat \ {0} /\ k <= N_CHILD
      /\ p \in ParentRecord /\ p.child_pids = parent.child_pids
      /\ k = N_CHILD => p.pc = "wait" /\ p.next = 1
      /\ k # N_CHILD => p.pc = "fork" /\ p.next = k + 1
  BY <1>1, AdvanceProperty
<1>. PICK f : f = [p.child_pids EXCEPT ![k] = v]
  OBVIOUS
<1>3. /\ f \in [Child -> Int] /\ f[k] = v
      /\ \A i \in Child \ {k} : f[i] = parent.child_pids[i]
  <2>1. p.child_pids \in [Child -> Int] /\ v \in Int
    BY <1>2 DEF ParentRecord, ForkFailed
  <2>. QED  BY <1>2, <2>1
<1>4. /\ parent' \in ParentRecord /\ parent'.pc = p.pc /\ parent'.next = p.next
      /\ parent'.child_pids = f
  <2>1. parent' = [p EXCEPT !.child_pids = f]
    BY <1>2 DEF ParentRecord
  <2>. QED  BY <1>2, <1>3, <2>1 DEF ParentRecord
<1>5. FamilyOK'
  <2>1. SUFFICES ASSUME NEW i \in Child
                 PROVE  LET pid == f[i]
                            pc == child[i].pc
                        IN /\ pid \in {Unset, ForkFailed, i}
                           /\ pid = ForkFailed => pc = "unborn"
                           /\ p.pc \in {"fork", "record"} /\ i > p.next => pc = "unborn"
                           /\ p.pc = "fork" /\ i = p.next => pc = "unborn"
                           /\ p.pc \in {"fork", "record"} => (pid = Unset <=> i >= p.next)
                           /\ p.pc \in {"wait", "exited"} => pid # Unset
                           /\ (p.pc = "wait" /\ i < p.next) \/ p.pc = "exited" =>
                                pc \in {"unborn", "reaped"}
    BY <1>4 DEF FamilyOK
  <2>2. i \in Nat \ {0} /\ i <= N_CHILD /\ N_CHILD \in Nat
    BY Constants DEF Child
  <2>3. v # Unset
    BY <1>2 DEF Unset, ForkFailed
  <2>4. /\ parent.child_pids[i] \in {Unset, ForkFailed, i}
        /\ parent.child_pids[i] = ForkFailed => child[i].pc = "unborn"
        /\ i > k => child[i].pc = "unborn"
        /\ parent.pc = "fork" /\ i = k => child[i].pc = "unborn"
        /\ parent.child_pids[i] = Unset <=> i >= k
    BY <1>1 DEF FamilyOK
  <2>5. CASE i = k
    <3>1. f[i] = v /\ v \in {i, ForkFailed} /\ (v = ForkFailed => child[i].pc = "unborn")
      BY <1>2, <1>3, <2>4, <2>5 DEF ForkFailed
    <3>2. i < p.next \/ p.pc = "wait"
      BY <1>2, <2>2, <2>5
    <3>3. p.pc = "wait" => ~ (i < p.next)
      BY <1>2, <2>2, <2>5
    <3>. QED  BY <1>2, <2>2, <2>3, <2>5, <3>1, <3>2, <3>3
  <2>6. CASE i # k
    <3>1. f[i] = parent.child_pids[i]
      BY <1>3, <2>6
    <3>2. CASE k = N_CHILD
      BY <1>2, <2>2, <2>4, <2>6, <3>1, <3>2
    <3>3. CASE k # N_CHILD
      BY <1>2, <2>2, <2>4, <2>6, <3>1, <3>3
    <3>. QED  BY <3>2, <3>3
  <2>. QED  BY <2>5, <2>6
<1>. QED  BY <1>1, <1>4, <1>5, FamilyFrame

(* The parent has the number of its new child, or its fork() failed.       *)
LEMMA RecordStep ==
  ASSUME PreforkInv, Record \/ ForkFails
  PROVE  PreforkInv'
<1>. PICK k : k = parent.next
  OBVIOUS
<1>1. CASE Record
  BY <1>1, NumberStep DEF Record
<1>2. CASE ForkFails
  BY <1>2, NumberStep DEF ForkFails
<1>. QED  BY <1>1, <1>2

(* waitpid() on the next child: either there is none, or it is reaped.     *)
LEMMA Waited ==
  ASSUME PreforkInv, Wait
  PROVE  /\ parent' \in ParentRecord /\ child' \in [Child -> ChildRecord] /\ FamilyOK'
         /\ \A i \in Child : \/ child'[i] = child[i]
                             \/ child'[i].conn = NoConn /\ ServeOK(child'[i], 0, 0, 0)
<1>. PICK k : k = parent.next
  OBVIOUS
<1>. PICK pid : pid = parent.child_pids[k]
  OBVIOUS
<1>1. /\ parent \in ParentRecord /\ child \in [Child -> ChildRecord] /\ FamilyOK
  BY DEF PreforkInv, VariablesOK
<1>2. /\ parent.pc = "wait" /\ parent' = Advance("wait", "exited")
      /\ \/ NoSuchChild(pid) /\ UNCHANGED child
         \/ \E i \in Waitable(pid) : /\ child[i].pc = "zombie"
                                     /\ child' = [child EXCEPT ![i].pc = "reaped"]
  BY DEF Wait
<1>. PICK p : p = Advance("wait", "exited")
  OBVIOUS
<1>3. /\ k \in Child /\ k \in Nat \ {0} /\ k <= N_CHILD
      /\ p \in ParentRecord /\ p.child_pids = parent.child_pids
      /\ k = N_CHILD => p.pc = "exited" /\ p.next = 1
      /\ k # N_CHILD => p.pc = "wait" /\ p.next = k + 1
  BY <1>1, AdvanceProperty
<1>4. \A i \in Child :
        /\ parent.child_pids[i] \in {ForkFailed, i}
        /\ parent.child_pids[i] = ForkFailed => child[i].pc = "unborn"
        /\ i < k => child[i].pc \in {"unborn", "reaped"}
  BY <1>1, <1>2 DEF FamilyOK
<1>5. /\ child' \in [Child -> ChildRecord]
      /\ \A i \in Child : \/ child'[i] = child[i]
                          \/ /\ child[i].pc = "zombie" /\ child'[i].pc = "reaped"
                             /\ child'[i].conn = child[i].conn
                             /\ (pid = ForkFailed \/ i = pid)
      /\ (pid = k => child'[k].pc \in {"unborn", "reaped"})
  <2>1. CASE NoSuchChild(pid) /\ UNCHANGED child
    <3>1. pid = k => k \notin Waitable(pid)
      BY <2>1 DEF NoSuchChild
    <3>2. pid = k => child[k].pc \in {"unborn", "reaped"}
      BY <1>3, <3>1 DEF Waitable
    <3>. QED  BY <1>1, <2>1, <3>2
  <2>2. ASSUME NEW i \in Waitable(pid), child[i].pc = "zombie",
               child' = [child EXCEPT ![i].pc = "reaped"]
        PROVE  <1>5
    <3>1. i \in Child /\ (pid = ForkFailed \/ i = pid)
      BY DEF Waitable
    <3>2. PICK y : y = [child[i] EXCEPT !.pc = "reaped"]
      OBVIOUS
    <3>3. y \in ChildRecord /\ y.pc = "reaped" /\ y.conn = child[i].conn
      BY <1>1, <3>1, <3>2 DEF ChildRecord
    <3>4. child' = [child EXCEPT ![i] = y]
      BY <2>2, <3>2
    <3>5. pid = k => i = k
      BY <1>3, <3>1 DEF ForkFailed
    <3>. QED  BY <1>1, <2>2, <3>1, <3>3, <3>4, <3>5
  <2>. QED  BY <1>2, <2>1, <2>2
<1>6. \A i \in Child : \/ child'[i] = child[i]
                       \/ child'[i].conn = NoConn /\ ServeOK(child'[i], 0, 0, 0)
  <2>1. SUFFICES ASSUME NEW i \in Child, child[i].pc = "zombie", child'[i].pc = "reaped",
                        child'[i].conn = child[i].conn
                 PROVE  child'[i].conn = NoConn /\ ServeOK(child'[i], 0, 0, 0)
    BY <1>5
  <2>2. child[i].conn = NoConn
    BY <2>1, Serves DEF Serving
  <2>. QED  BY <2>1, <2>2 DEF ServeOK, Serving
<1>7. FamilyOK'
  <2>1. parent' = p
    BY <1>2
  <2>2. SUFFICES ASSUME NEW i \in Child
                 PROVE  LET q == p.child_pids[i]
                            pc == child'[i].pc
                        IN /\ q \in {Unset, ForkFailed, i}
                           /\ q = ForkFailed => pc = "unborn"
                           /\ p.pc \in {"fork", "record"} /\ i > p.next => pc = "unborn"
                           /\ p.pc = "fork" /\ i = p.next => pc = "unborn"
                           /\ p.pc \in {"fork", "record"} => (q = Unset <=> i >= p.next)
                           /\ p.pc \in {"wait", "exited"} => q # Unset
                           /\ (p.pc = "wait" /\ i < p.next) \/ p.pc = "exited" =>
                                pc \in {"unborn", "reaped"}
    BY <2>1 DEF FamilyOK
  <2>3. i \in Nat \ {0} /\ i <= N_CHILD /\ N_CHILD \in Nat
    BY Constants DEF Child
  <2>4. p.pc \in {"wait", "exited"} /\ ~ (p.pc \in {"fork", "record"})
    BY <1>3
  <2>5. p.child_pids[i] \in {ForkFailed, i} /\ p.child_pids[i] # Unset
    BY <1>3, <1>4, <2>3 DEF ForkFailed, Unset
  <2>6. p.child_pids[i] = ForkFailed => child'[i].pc = "unborn"
    BY <1>3, <1>4, <1>5
  <2>7. (p.pc = "wait" /\ i < p.next) \/ p.pc = "exited" => i < k \/ i = k
    BY <1>3, <2>3
  <2>8. i < k => child'[i].pc \in {"unborn", "reaped"}
    BY <1>4, <1>5
  <2>9. i = k => child'[i].pc \in {"unborn", "reaped"}
    BY <1>3, <1>4, <1>5
  <2>. QED  BY <2>4, <2>5, <2>6, <2>7, <2>8, <2>9
<1>. QED  BY <1>2, <1>3, <1>5, <1>6, <1>7

(* waitpid(); the last one, when no child is left, ends the connections    *)
(* that nobody accepted.                                                   *)
LEMMA WaitStep ==
  ASSUME PreforkInv, Wait
  PROVE  PreforkInv'
<1>1. UNCHANGED <<request, client>>
      /\ \/ UNCHANGED <<net, backlog>>
         \/ /\ net' = [c \in Client |-> IF c \in Range(backlog)
                                        THEN [net[c] EXCEPT !.state = "reset", !.up = <<>>]
                                        ELSE net[c]]
            /\ backlog' = <<>>
  BY DEF Wait
<1>2. CASE UNCHANGED <<net, backlog>>
  BY <1>1, <1>2, Waited, FamilyFrame
<1>3. CASE /\ net' = [c \in Client |-> IF c \in Range(backlog)
                                       THEN [net[c] EXCEPT !.state = "reset", !.up = <<>>]
                                       ELSE net[c]]
           /\ backlog' = <<>>
  <2>1. /\ request \in [Client -> Request] /\ client \in [Client -> ClientRecord]
        /\ net \in [Client -> NetRecord] /\ child \in [Child -> ChildRecord]
    BY DEF PreforkInv, VariablesOK
  <2>2. \A c \in Client \ Range(backlog) : net'[c] = net[c]
    BY <1>3
  <2>3. \A c \in Client \cap Range(backlog) :
          /\ net'[c] \in NetRecord /\ net'[c].up = <<>> /\ net'[c].down = net[c].down
          /\ net'[c].state = "reset"
    <3>1. SUFFICES ASSUME NEW c \in Client, c \in Range(backlog)
                   PROVE  /\ net'[c] \in NetRecord /\ net'[c].up = <<>>
                          /\ net'[c].down = net[c].down /\ net'[c].state = "reset"
      OBVIOUS
    <3>2. net[c] \in NetRecord /\ <<>> \in Seq(Piece)
      BY <2>1, EmptySeq
    <3>3. net'[c] = [net[c] EXCEPT !.state = "reset", !.up = <<>>]
      BY <1>3, <3>1
    <3>. QED  BY <3>2, <3>3 DEF NetRecord
  <2>4. VariablesOK'
    <3>1. net' \in [Client -> NetRecord]
      <4>1. \A c \in Client : net'[c] \in NetRecord
        BY <2>1, <2>2, <2>3
      <4>. QED  BY <1>3, <4>1
    <3>2. backlog' \in Seq(Client)
      BY <1>3, EmptySeq
    <3>. QED  BY <1>1, <2>1, <3>1, <3>2, Waited DEF VariablesOK
  <2>5. Range(backlog') = {} /\ DOMAIN backlog' = {}
    <3>1. DOMAIN backlog' = {}
      <4>1. <<>> \in Seq(Client) /\ Len(<<>>) = 0
        BY EmptySeq
      <4>2. PICK e : e = <<>>
        OBVIOUS
      <4>3. DOMAIN e = 1 .. Len(e) /\ Len(e) = 0
        BY <4>1, <4>2, LenProperties
      <4>4. DOMAIN e = {}
        BY <4>3
      <4>. QED  BY <1>3, <4>2, <4>4
    <3>. QED  BY <3>1 DEF Range
  <2>6. OnePlace'
    <3>1. \A i \in Child : child'[i].conn = child[i].conn \/ child'[i].conn = NoConn
      BY Waited
    <3>2. \A i, j \in Child : child'[i].conn # NoConn /\ child'[i].conn = child'[j].conn => i = j
      BY <3>1 DEF PreforkInv, OnePlace
    <3>. QED  BY <2>5, <3>2 DEF OnePlace
  <2>7. \A c \in Client : PeerOK(c, request'[c], net'[c], client'[c])
    <3>1. SUFFICES ASSUME NEW c \in Client PROVE PeerOK(c, request[c], net'[c], client[c])
      BY <1>1
    <3>2. PeerOK(c, request[c], net[c], client[c])
      BY DEF PreforkInv
    <3>3. CASE c \in Range(backlog)
      <4>1. WaitOK(c, net[c], client[c])
        BY <3>3 DEF PreforkInv
      <4>2. client[c].pc # "connect" /\ client[c].pc # "printed"
        BY <3>2, <4>1 DEF PeerOK, WaitOK
      <4>3. Len(<<>>) <= SockBuf
        BY Constants
      <4>. QED  BY <2>3, <3>2, <3>3, <4>2, <4>3 DEF PeerOK
    <3>4. CASE c \notin Range(backlog)
      BY <2>2, <3>2, <3>4
    <3>. QED  BY <3>3, <3>4
  <2>8. \A j \in Child : LET d == child'[j].conn
                         IN ServeOK(child'[j], request'[d], net'[d], client'[d])
    <3>1. SUFFICES ASSUME NEW j \in Child, NEW d, d = child'[j].conn
                   PROVE  ServeOK(child'[j], request[d], net'[d], client[d])
      BY <1>1
    <3>2. CASE child'[j].conn = NoConn /\ ServeOK(child'[j], 0, 0, 0)
      BY <3>2, IdleOK
    <3>3. CASE child'[j] = child[j]
      <4>1. ServeOK(child[j], request[d], net[d], client[d])
            /\ d \in Client \cup {NoConn} /\ d \notin Range(backlog)
        BY <2>1, <3>1, <3>3 DEF PreforkInv, OnePlace, ChildRecord
      <4>2. CASE d = NoConn
        BY <3>1, <3>3, <4>1, <4>2, IdleOK
      <4>3. CASE d \in Client
        BY <2>2, <3>3, <4>1, <4>3
      <4>. QED  BY <4>1, <4>2, <4>3
    <3>. QED  BY <3>2, <3>3, Waited
  <2>. QED  BY <2>4, <2>5, <2>6, <2>7, <2>8, Waited DEF PreforkInv
<1>. QED  BY <1>1, <1>2, <1>3

-----------------------------------------------------------------------------
(* The clients. *)

(* The connection of a client, and the client.                             *)
LEMMA ClientType ==
  ASSUME PreforkInv, NEW c \in Client
  PROVE  /\ net[c] \in NetRecord /\ client[c] \in ClientRecord /\ request[c] \in Request
         /\ PeerOK(c, request[c], net[c], client[c])
         /\ c \in Range(backlog) => WaitOK(c, net[c], client[c])
         /\ \A i \in Child : child[i].conn = c =>
              /\ ServeOK(child[i], request[c], net[c], client[c])
              /\ child[i].pc \in Serving
              /\ net[c].state \in {"open", "lost"} /\ client[c].pc # "connect"
<1>1. /\ net[c] \in NetRecord /\ client[c] \in ClientRecord /\ request[c] \in Request
      /\ PeerOK(c, request[c], net[c], client[c])
      /\ c \in Range(backlog) => WaitOK(c, net[c], client[c])
  BY DEF PreforkInv, VariablesOK
<1>2. \A i \in Child : child[i].conn = c =>
        /\ ServeOK(child[i], request[c], net[c], client[c])
        /\ child[i].pc \in Serving
        /\ net[c].state \in {"open", "lost"} /\ client[c].pc # "connect"
  BY PreforkAssumption, Serves
<1>. QED  BY <1>1, <1>2

(* The server waits for a connection, or serves it, only while it is open. *)
LEMMA NotServed ==
  ASSUME PreforkInv, NEW c \in Client, net[c].state \in {"closed", "cut", "reset"}
  PROVE  c \notin Range(backlog) /\ \A i \in Child : child[i].conn # c
BY ClientType DEF WaitOK

(* The pieces of c's request from the n-th on.                             *)
Numbered(p, c, n) == \A k \in 1 .. Len(p) : p[k] = <<c, n + k>>

Moving(up, left, m, c, n) ==
  LET q == up \o SubSeq(left, 1, m)
      t == SubSeq(left, m + 1, Len(left)) IN
  /\ q \in Seq(Piece) /\ Len(q) = Len(up) + m /\ DOMAIN q = 1 .. Len(up) + m
  /\ \A k \in 1 .. Len(up) + m : q[k] = <<c, n + k>>
  /\ t \in Seq(Piece) /\ DOMAIN t = 1 .. Len(left) - m
  /\ \A k \in 1 .. Len(left) - m : t[k] = <<c, n + (Len(up) + m) + k>>

(* Pieces of a request that are cut from one sequence and put behind the   *)
(* other.                                                                  *)
LEMMA Moved ==
  ASSUME NEW c, NEW n \in Nat, NEW up \in Seq(Piece), NEW left \in Seq(Piece),
         NEW m \in 0 .. Len(left),
         Numbered(up, c, n), Numbered(left, c, n + Len(up))
  PROVE  Moving(up, left, m, c, n)
<1>. PICK q, t : q = up \o SubSeq(left, 1, m) /\ t = SubSeq(left, m + 1, Len(left))
  OBVIOUS
<1>. DEFINE s == SubSeq(left, 1, m)
            a == Len(up)
            b == Len(left)
<1>1. a \in Nat /\ b \in Nat /\ m \in Nat /\ m <= b
  BY LenProperties
<1>2. /\ s \in Seq(Piece) /\ Len(s) = m /\ \A k \in 1 .. m : s[k] = left[k]
      /\ t \in Seq(Piece) /\ Len(t) = b - m /\ \A k \in 1 .. b - m : t[k] = left[m + k]
  BY Cut
<1>3. q = up \o s
  OBVIOUS
<1>. HIDE DEF s
<1>4. /\ q \in Seq(Piece) /\ Len(q) = a + m
      /\ \A k \in 1 .. a + m : q[k] = IF k <= a THEN up[k] ELSE s[k - a]
  <2>1. /\ up \o s \in Seq(Piece) /\ Len(up \o s) = Len(up) + Len(s)
        /\ \A k \in 1 .. Len(up) + Len(s) :
             (up \o s)[k] = IF k <= Len(up) THEN up[k] ELSE s[k - Len(up)]
    <3>1. up \in Seq(Piece) /\ s \in Seq(Piece)
      BY <1>2
    <3>. QED  BY ONLY <3>1, ConcatProperties
  <2>. QED  BY <1>2, <1>3, <2>1
<1>5. DOMAIN q = 1 .. a + m /\ DOMAIN t = 1 .. b - m
  BY <1>2, <1>4, LenProperties
<1>6. (\A k \in 1 .. a : up[k] = <<c, n + k>>) /\ \A k \in 1 .. b : left[k] = <<c, n + a + k>>
  BY DEF Numbered
<1>. HIDE DEF a, b
<1>7. \A k \in 1 .. a + m : q[k] = <<c, n + k>>
  <2>1. TAKE k \in 1 .. a + m
  <2>2. CASE k <= a
    <3>1. k \in 1 .. a
      BY ONLY <1>1, <2>2, k \in 1 .. a + m
    <3>. QED  BY <1>4, <1>6, <2>2, <3>1
  <2>3. CASE ~ (k <= a)
    <3>1. k - a \in 1 .. m /\ k - a \in 1 .. b /\ n + a + (k - a) = n + k
      BY ONLY <1>1, <2>3, k \in 1 .. a + m, n \in Nat
    <3>2. q[k] = s[k - a] /\ s[k - a] = left[k - a]
      BY <1>2, <1>4, <2>3, <3>1
    <3>3. left[k - a] = <<c, n + a + (k - a)>>
      BY <1>6, <3>1
    <3>. QED  BY <3>1, <3>2, <3>3
  <2>. QED  BY <2>2, <2>3
<1>8. \A k \in 1 .. b - m : t[k] = <<c, n + (a + m) + k>>
  <2>1. TAKE k \in 1 .. b - m
  <2>2. m + k \in 1 .. b /\ n + a + (m + k) = n + (a + m) + k
    BY ONLY <1>1, k \in 1 .. b - m, n \in Nat
  <2>3. left[m + k] = <<c, n + a + (m + k)>>
    BY <1>6, <2>2
  <2>. QED  BY <1>2, <2>2, <2>3 DEF b
<1>. QED  BY <1>2, <1>4, <1>5, <1>7, <1>8 DEF a, b, Moving

(* write_all() of the client: what it wrote is on its way.                 *)
LEMMA StreamWritten ==
  ASSUME NEW c, NEW w \in NetRecord, NEW u \in ClientRecord, u.pc = "write", NEW n \in Nat,
         StreamAt(c, w, u, n), NEW m \in 0 .. Len(u.left),
         NEW w2, w2.up = w.up \o SubSeq(u.left, 1, m),
         NEW u2, u2.left = SubSeq(u.left, m + 1, Len(u.left))
  PROVE  StreamAt(c, w2, u2, n)
<1>1. PICK up : up = w.up
  OBVIOUS
<1>2. PICK left : left = u.left
  OBVIOUS
<1>3. up \in Seq(Piece) /\ left \in Seq(Piece) /\ m \in 0 .. Len(left)
  BY <1>1, <1>2 DEF NetRecord, ClientRecord
<1>4. DOMAIN up = 1 .. Len(up) /\ DOMAIN left = 1 .. Len(left)
  BY <1>3, LenProperties
<1>5. /\ \A k \in 1 .. Len(up) : up[k] = <<c, n + k>>
      /\ \A k \in 1 .. Len(left) : left[k] = <<c, n + Len(up) + k>>
  BY <1>1, <1>2, <1>4 DEF StreamAt
<1>6. PICK q : q = up \o SubSeq(left, 1, m)
  OBVIOUS
<1>7. PICK t : t = SubSeq(left, m + 1, Len(left))
  OBVIOUS
<1>8. /\ Len(q) = Len(up) + m /\ DOMAIN q = 1 .. Len(up) + m
      /\ \A k \in 1 .. Len(up) + m : q[k] = <<c, n + k>>
      /\ DOMAIN t = 1 .. Len(left) - m
      /\ \A k \in 1 .. Len(left) - m : t[k] = <<c, n + (Len(up) + m) + k>>
  <2>1. n \in Nat
    OBVIOUS
  <2>2. Moving(up, left, m, c, n)
    <3>1. Numbered(up, c, n) /\ Numbered(left, c, n + Len(up))
      BY <1>5 DEF Numbered
    <3>. QED  BY ONLY <2>1, <1>3, <3>1, Moved
  <2>. QED  BY <1>6, <1>7, <2>2 DEF Moving
<1>9. w2.up = q /\ u2.left = t
  BY <1>1, <1>2, <1>6, <1>7
<1>. QED  BY <1>8, <1>9 DEF StreamAt

(* Some of the request is written.                                         *)
LEMMA WriteRequestStep ==
  ASSUME PreforkInv, NEW c \in Client, WriteRequest(c)
  PROVE  PreforkInv'
<1>1. PICK u0 : u0 = client[c]
  OBVIOUS
<1>2. PICK w0 : w0 = net[c]
  OBVIOUS
<1>3. PICK m : m = Min({Len(u0.left), SockBuf - Len(w0.up)})
  OBVIOUS
<1>4. PICK s : s = SubSeq(u0.left, 1, m)
  OBVIOUS
<1>5. PICK t : t = SubSeq(u0.left, m + 1, Len(u0.left))
  OBVIOUS
<1>6. /\ u0.pc = "write" /\ w0.state \in {"waiting", "open"}
      /\ client' = [client EXCEPT ![c].left = t, ![c].pc = IF t = <<>> THEN "read" ELSE @]
      /\ net' = [net EXCEPT ![c].up = @ \o s]
      /\ UNCHANGED <<request, backlog, child, parent>>
  BY <1>1, <1>2, <1>3, <1>4, <1>5 DEF WriteRequest, ClientLeft
<1>7. /\ w0 \in NetRecord /\ u0 \in ClientRecord /\ PeerOK(c, request[c], w0, u0)
      /\ u0.left \in Seq(Piece) /\ w0.up \in Seq(Piece)
  BY <1>1, <1>2, ClientType DEF NetRecord, ClientRecord
<1>8. m \in 0 .. Len(u0.left) /\ m <= SockBuf - Len(w0.up) /\ Len(w0.up) \in Nat
  <2>1. PICK a : a = Len(w0.up)
    OBVIOUS
  <2>2. PICK b : b = Len(u0.left)
    OBVIOUS
  <2>3. a \in Nat /\ b \in Nat /\ SockBuf \in Nat
    BY <1>7, <2>1, <2>2, LenProperties, Constants
  <2>4. a <= SockBuf
    BY <1>7, <2>1 DEF PeerOK
  <2>5. SockBuf - a \in Nat
    BY <2>3, <2>4
  <2>6. m \in Nat /\ m <= b /\ m <= SockBuf - a
    <3>1. m = Min({b, SockBuf - a})
      BY <1>3, <2>1, <2>2
    <3>. QED  BY <2>3, <2>5, <3>1, MinOfTwo
  <2>7. m \in 0 .. b
    BY <2>3, <2>6
  <2>. QED  BY <2>1, <2>2, <2>3, <2>6, <2>7
<1>9. /\ s \in Seq(Piece) /\ Len(s) = m /\ t \in Seq(Piece)
  BY <1>4, <1>5, <1>7, <1>8, Cut
<1>10. PICK q : q = w0.up \o s
  OBVIOUS
<1>11. q \in Seq(Piece) /\ Len(q) <= SockBuf
  <2>1. q \in Seq(Piece) /\ Len(q) = Len(w0.up) + m
    BY <1>7, <1>9, <1>10, ConcatProperties
  <2>2. m \in Nat
    BY <1>7, <1>8, LenProperties
  <2>. QED  BY <1>8, <2>1, <2>2, Constants
<1>12. PICK w : w = [w0 EXCEPT !.up = q]
  OBVIOUS
<1>13. PICK pc \in {"read", "write"} : pc = IF t = <<>> THEN "read" ELSE "write"
  OBVIOUS
<1>14. PICK u : u = [u0 EXCEPT !.left = t, !.pc = pc]
  OBVIOUS
<1>15. w \in NetRecord /\ w.up = q /\ w.down = w0.down /\ w.state = w0.state
  BY <1>7, <1>11, <1>12 DEF NetRecord
<1>16. u \in ClientRecord /\ u.left = t /\ u.got = u0.got /\ u.pc \in {"read", "write"}
  BY <1>7, <1>9, <1>14 DEF ClientRecord
<1>17. client' = [client EXCEPT ![c] = u] /\ net' = [net EXCEPT ![c] = w]
  <2>1. net' = [net EXCEPT ![c] = w]
    BY <1>2, <1>6, <1>10, <1>12
  <2>2. client \in [Client -> ClientRecord]
    BY DEF PreforkInv, VariablesOK
  <2>3. client' = [client EXCEPT ![c] = u]
    BY <1>1, <1>6, <1>13, <1>14, <2>2
  <2>. QED  BY <2>1, <2>3
<1>18. PeerOK(c, request[c], w, u)
  BY <1>6, <1>7, <1>11, <1>15, <1>16 DEF PeerOK
<1>19. \A n \in Nat : StreamAt(c, w0, u0, n) => StreamAt(c, w, u, n)
  <2>1. w.up = w0.up \o SubSeq(u0.left, 1, m) /\ u.left = SubSeq(u0.left, m + 1, Len(u0.left))
    BY <1>4, <1>5, <1>10, <1>15, <1>16
  <2>. QED  BY <1>6, <1>7, <1>8, <2>1, StreamWritten
<1>20. c \in Range(backlog) => WaitOK(c, w, u)
  <2>1. SUFFICES ASSUME WaitOK(c, w0, u0) PROVE WaitOK(c, w, u)
    BY <1>1, <1>2, ClientType
  <2>2. StreamAt(c, w, u, 0)
    <3>1. StreamAt(c, w0, u0, 0)
      BY <2>1 DEF WaitOK
    <3>. QED  BY <1>19, <3>1
  <2>. QED  BY <1>15, <1>16, <2>1, <2>2 DEF WaitOK, Unanswered
<1>21. \A i \in Child : child[i].conn = c => ServeOK(child[i], request[c], w, u)
  <2>1. SUFFICES ASSUME NEW i \in Child, child[i].conn = c
                 PROVE  ServeOK(child[i], request[c], w, u)
    OBVIOUS
  <2>2. PICK x : x = child[i]
    OBVIOUS
  <2>3. PICK r : r = request[c]
    OBVIOUS
  <2>4. /\ ServeOK(x, r, w0, u0) /\ x.pc \in Serving /\ x.conn = c
        /\ w0.state \in {"open", "lost"}
    BY <1>1, <1>2, <2>1, <2>2, <2>3, ClientType
  <2>5. x.n \in Nat
    <3>1. x.n \in 0 .. MaxHdr + MaxBody
      BY <2>2 DEF PreforkInv, VariablesOK, ChildRecord
    <3>. QED  BY <3>1, Constants
  <2>6. StreamAt(x.conn, w0, u0, x.n) => StreamAt(x.conn, w, u, x.n)
    BY <1>19, <2>4, <2>5
  <2>7. Unanswered(w0, u0) => Unanswered(w, u)
    BY <1>15, <1>16 DEF Unanswered
  <2>8. /\ w.state \in {"open", "lost"} /\ u.pc # "connect" /\ u0.pc # "killed"
        /\ u.got \o w.down = u0.got \o w0.down
    BY <1>6, <1>15, <1>16, <2>4
  <2>9. ServeOK(x, r, w, u)
    <3>1. /\ ServeOK(x, r, w0, u0) /\ x.pc \in Serving
          /\ w.state \in {"open", "lost"} /\ u.pc # "connect"
          /\ u.pc # "killed" => u0.pc # "killed" /\ u.got \o w.down = u0.got \o w0.down
      BY <2>4, <2>8
    <3>2. Answering(x, r, w0, u0) => Answering(x, r, w, u)
      BY <3>1 DEF Answering
    <3>. QED  BY <2>6, <2>7, <3>1, <3>2 DEF ServeOK
  <2>. QED  BY <2>2, <2>3, <2>9
<1>. QED  BY <1>6, <1>15, <1>16, <1>17, <1>18, <1>20, <1>21, ClientFrame

(* The server closed: the client sends no more.                            *)
LEMMA WriteAfterCloseStep ==
  ASSUME PreforkInv, NEW c \in Client, WriteAfterClose(c)
  PROVE  PreforkInv'
<1>1. PICK u0 : u0 = client[c]
  OBVIOUS
<1>2. PICK w : w = net[c]
  OBVIOUS
<1>3. /\ u0.pc = "write" /\ w.state \in {"closed", "cut", "reset"}
      /\ UNCHANGED <<request, net, backlog, child, parent>>
  BY <1>1, <1>2 DEF WriteAfterClose
<1>4. /\ w \in NetRecord /\ u0 \in ClientRecord /\ PeerOK(c, request[c], w, u0)
      /\ client \in [Client -> ClientRecord] /\ net \in [Client -> NetRecord]
  BY <1>1, <1>2, ClientType DEF PreforkInv, VariablesOK
<1>5. /\ c \notin Range(backlog) /\ \A i \in Child : child[i].conn # c
  BY <1>2, <1>3, NotServed
<1>6. PICK u \in ClientRecord :
        client' = [client EXCEPT ![c] = u] /\ u.pc \in {"failed", "read"} /\ u.got = u0.got
  <2>1. CASE ClientTo(c, "failed")
    <3>1. PICK u : u = [u0 EXCEPT !.pc = "failed"]
      OBVIOUS
    <3>2. u \in ClientRecord /\ u.pc = "failed" /\ u.got = u0.got
      BY <1>4, <3>1 DEF ClientRecord
    <3>3. client' = [client EXCEPT ![c] = u]
      BY <1>1, <2>1, <3>1 DEF ClientTo
    <3>. QED  BY <3>2, <3>3
  <2>2. CASE ClientLeft(c, <<>>)
    <3>1. PICK u : u = [u0 EXCEPT !.left = <<>>, !.pc = "read"]
      OBVIOUS
    <3>2. u \in ClientRecord /\ u.pc = "read" /\ u.got = u0.got
      BY <1>4, <3>1, EmptySeq DEF ClientRecord
    <3>3. client' = [client EXCEPT ![c].left = <<>>, ![c].pc = "read"]
      BY <2>2 DEF ClientLeft
    <3>4. client' = [client EXCEPT ![c] = u]
      BY <1>1, <1>4, <3>1, <3>3
    <3>. QED  BY <3>2, <3>4
  <2>. QED  BY <2>1, <2>2 DEF WriteAfterClose
<1>7. net' = [net EXCEPT ![c] = w]
  BY <1>2, <1>3, <1>4
<1>8. PeerOK(c, request[c], w, u)
  BY <1>3, <1>4, <1>6 DEF PeerOK, Unanswered
<1>9. c \in Range(backlog) => WaitOK(c, w, u)
  BY <1>5
<1>10. \A i \in Child : child[i].conn = c => ServeOK(child[i], request[c], w, u)
  BY <1>5
<1>. QED  BY <1>3, <1>4, <1>6, <1>7, <1>8, <1>9, <1>10, ClientFrame

(* read_all() ends: the response is printed, or the client fails.          *)
LEMMA EndOfResponseStep ==
  ASSUME PreforkInv, NEW c \in Client, EndOfResponse(c)
  PROVE  PreforkInv'
<1>1. PICK u0 : u0 = client[c]
  OBVIOUS
<1>2. PICK w : w = net[c]
  OBVIOUS
<1>3. PICK pc \in {"printed", "failed"} :
        pc = IF net[c].state # "reset" /\ EndOfHeader \in Range(client[c].got)
             THEN "printed" ELSE "failed"
  OBVIOUS
<1>4. /\ u0.pc = "read" /\ w.down = <<>> /\ w.state \in {"closed", "cut", "reset"}
      /\ client' = [client EXCEPT ![c].pc = pc]
      /\ UNCHANGED <<request, net, backlog, child, parent>>
      /\ pc = "printed" => w.state # "reset"
  BY <1>1, <1>2, <1>3 DEF EndOfResponse, ClientTo
<1>5. /\ w \in NetRecord /\ u0 \in ClientRecord /\ PeerOK(c, request[c], w, u0)
      /\ client \in [Client -> ClientRecord] /\ net \in [Client -> NetRecord]
  BY <1>1, <1>2, ClientType DEF PreforkInv, VariablesOK
<1>6. /\ c \notin Range(backlog) /\ \A i \in Child : child[i].conn # c
  BY <1>2, <1>4, NotServed
<1>7. PICK u : u = [u0 EXCEPT !.pc = pc]
  OBVIOUS
<1>8. u \in ClientRecord /\ u.pc = pc /\ u.got = u0.got
  BY <1>5, <1>7 DEF ClientRecord
<1>9. client' = [client EXCEPT ![c] = u] /\ net' = [net EXCEPT ![c] = w]
  BY <1>1, <1>2, <1>4, <1>5, <1>7
<1>10. PeerOK(c, request[c], w, u)
  BY <1>4, <1>5, <1>8 DEF PeerOK, Unanswered
<1>11. c \in Range(backlog) => WaitOK(c, w, u)
  BY <1>6
<1>12. \A i \in Child : child[i].conn = c => ServeOK(child[i], request[c], w, u)
  BY <1>6
<1>. QED  BY <1>4, <1>5, <1>8, <1>9, <1>10, <1>11, <1>12, ClientFrame

(* The client reads: what it has and what is on its way is the same.       *)
LEMMA ReadResponseStep ==
  ASSUME PreforkInv, NEW c \in Client, ReadResponse(c)
  PROVE  PreforkInv'
<1>1. PICK u0 : u0 = client[c]
  OBVIOUS
<1>2. PICK w0 : w0 = net[c]
  OBVIOUS
<1>3. /\ u0.pc = "read" /\ w0.down # <<>>
      /\ client' = [client EXCEPT ![c].got = @ \o w0.down]
      /\ net' = [net EXCEPT ![c].down = <<>>]
      /\ UNCHANGED <<request, backlog, child, parent>>
  BY <1>1, <1>2 DEF ReadResponse
<1>4. /\ w0 \in NetRecord /\ u0 \in ClientRecord /\ PeerOK(c, request[c], w0, u0)
      /\ client \in [Client -> ClientRecord] /\ net \in [Client -> NetRecord]
  BY <1>1, <1>2, ClientType DEF PreforkInv, VariablesOK
<1>5. PICK g : g = u0.got \o w0.down
  OBVIOUS
<1>6. g \in Seq(Token) /\ g \o <<>> = g /\ <<>> \in Seq(Token) /\ Len(<<>>) <= SockBuf
  <2>1. u0.got \in Seq(Token) /\ w0.down \in Seq(Token)
    BY <1>4 DEF ClientRecord, NetRecord
  <2>2. g \in Seq(Token)
    BY <1>5, <2>1, ConcatProperties
  <2>. QED  BY <2>2, EmptySeq, ConcatEmptySeq, Constants
<1>7. PICK u : u = [u0 EXCEPT !.got = g]
  OBVIOUS
<1>8. PICK w : w = [w0 EXCEPT !.down = <<>>]
  OBVIOUS
<1>9. u \in ClientRecord /\ u.pc = "read" /\ u.got = g /\ u.left = u0.left
  BY <1>3, <1>4, <1>6, <1>7 DEF ClientRecord
<1>10. w \in NetRecord /\ w.up = w0.up /\ w.down = <<>> /\ w.state = w0.state
  BY <1>4, <1>6, <1>8 DEF NetRecord
<1>11. client' = [client EXCEPT ![c] = u] /\ net' = [net EXCEPT ![c] = w]
  BY <1>1, <1>2, <1>3, <1>4, <1>5, <1>7, <1>8
<1>12. u.got \o w.down = u0.got \o w0.down
  BY <1>5, <1>6, <1>9, <1>10
<1>13. PeerOK(c, request[c], w, u)
  <2>1. w0.state # "none"
    BY <1>3, <1>4 DEF PeerOK, Unanswered
  <2>. QED  BY <1>3, <1>4, <1>6, <1>9, <1>10, <1>12, <2>1 DEF PeerOK
<1>14. c \notin Range(backlog)
  <2>1. c \in Range(backlog) => WaitOK(c, w0, u0)
    BY <1>1, <1>2, ClientType
  <2>. QED  BY <1>3, <2>1 DEF WaitOK, Unanswered
<1>15. \A i \in Child : child[i].conn = c => ServeOK(child[i], request[c], w, u)
  <2>1. SUFFICES ASSUME NEW i \in Child, child[i].conn = c
                 PROVE  ServeOK(child[i], request[c], w, u)
    OBVIOUS
  <2>2. PICK x : x = child[i]
    OBVIOUS
  <2>3. PICK r : r = request[c]
    OBVIOUS
  <2>4. ServeOK(x, r, w0, u0)
    BY <1>1, <1>2, <2>1, <2>2, <2>3, ClientType
  <2>5. x.pc \notin {"header", "body"}
    BY <1>3, <2>4 DEF ServeOK, Unanswered
  <2>6. Answering(x, r, w0, u0) => Answering(x, r, w, u)
    BY <1>3, <1>12 DEF Answering
  <2>7. ServeOK(x, r, w, u)
    BY <1>3, <1>9, <1>10, <2>4, <2>5, <2>6 DEF ServeOK
  <2>. QED  BY <2>2, <2>3, <2>7
<1>. QED  BY <1>3, <1>9, <1>10, <1>11, <1>13, <1>14, <1>15, ClientFrame

(* The client is killed, or its host.                                      *)
LEMMA ClientKilledStep ==
  ASSUME PreforkInv, NEW c \in Client, ClientKilled(c)
  PROVE  PreforkInv'
<1>1. PICK u0 : u0 = client[c]
  OBVIOUS
<1>2. PICK w0 : w0 = net[c]
  OBVIOUS
<1>3. /\ u0.pc \in {"write", "read"} /\ w0.state \in {"waiting", "open"}
      /\ client' = [client EXCEPT ![c].pc = "killed"]
      /\ UNCHANGED net \/ net' = [net EXCEPT ![c].state = "lost", ![c].up = <<>>]
      /\ UNCHANGED <<request, backlog, child, parent>>
  BY <1>1, <1>2 DEF ClientKilled, ClientTo
<1>4. /\ w0 \in NetRecord /\ u0 \in ClientRecord /\ PeerOK(c, request[c], w0, u0)
      /\ client \in [Client -> ClientRecord] /\ net \in [Client -> NetRecord]
  BY <1>1, <1>2, ClientType DEF PreforkInv, VariablesOK
<1>5. PICK u : u = [u0 EXCEPT !.pc = "killed"]
  OBVIOUS
<1>6. u \in ClientRecord /\ u.pc = "killed" /\ u.got = u0.got
  BY <1>4, <1>5 DEF ClientRecord
<1>7. client' = [client EXCEPT ![c] = u]
  BY <1>1, <1>3, <1>4, <1>5
<1>8. PICK w \in NetRecord :
        /\ net' = [net EXCEPT ![c] = w] /\ w.down = w0.down
        /\ \/ w.up = w0.up /\ w.state = w0.state
           \/ w.up = <<>> /\ w.state = "lost"
  <2>1. CASE UNCHANGED net
    BY <1>2, <1>4, <2>1
  <2>2. CASE net' = [net EXCEPT ![c].state = "lost", ![c].up = <<>>]
    <3>1. PICK w : w = [w0 EXCEPT !.state = "lost", !.up = <<>>]
      OBVIOUS
    <3>2. w \in NetRecord /\ w.down = w0.down /\ w.up = <<>> /\ w.state = "lost"
      BY <1>4, <3>1, EmptySeq DEF NetRecord
    <3>3. net' = [net EXCEPT ![c] = w]
      BY <1>2, <1>4, <2>2, <3>1
    <3>. QED  BY <3>2, <3>3
  <2>. QED  BY <1>3, <2>1, <2>2
<1>9. Len(<<>>) <= SockBuf /\ DOMAIN <<>> = {}
  BY Constants
<1>10. PeerOK(c, request[c], w, u)
  BY <1>3, <1>4, <1>6, <1>8, <1>9 DEF PeerOK
<1>11. \A n \in Nat : StreamAt(c, w0, u0, n) => StreamAt(c, w, u, n)
  <2>1. CASE w.up = w0.up
    BY <1>6, <2>1 DEF StreamAt
  <2>2. CASE w.up = <<>>
    BY <1>6, <1>9, <2>2 DEF StreamAt
  <2>. QED  BY <1>8, <2>1, <2>2
<1>12. c \in Range(backlog) => WaitOK(c, w, u)
  <2>1. SUFFICES ASSUME WaitOK(c, w0, u0) PROVE WaitOK(c, w, u)
    BY <1>1, <1>2, ClientType
  <2>2. StreamAt(c, w, u, 0)
    <3>1. StreamAt(c, w0, u0, 0)
      BY <2>1 DEF WaitOK
    <3>. QED  BY <1>11, <3>1
  <2>. QED  BY <1>6, <1>8, <2>1, <2>2 DEF WaitOK, Unanswered
<1>13. \A i \in Child : child[i].conn = c => ServeOK(child[i], request[c], w, u)
  <2>1. SUFFICES ASSUME NEW i \in Child, child[i].conn = c
                 PROVE  ServeOK(child[i], request[c], w, u)
    OBVIOUS
  <2>2. PICK x : x = child[i]
    OBVIOUS
  <2>3. PICK r : r = request[c]
    OBVIOUS
  <2>4. ServeOK(x, r, w0, u0) /\ x.pc \in Serving /\ x.conn = c /\ w0.state = "open"
    BY <1>1, <1>2, <1>3, <2>1, <2>2, <2>3, ClientType
  <2>5. x.n \in Nat
    <3>1. x.n \in 0 .. MaxHdr + MaxBody
      BY <2>2 DEF PreforkInv, VariablesOK, ChildRecord
    <3>. QED  BY <3>1, Constants
  <2>6. StreamAt(x.conn, w0, u0, x.n) => StreamAt(x.conn, w, u, x.n)
    BY <1>11, <2>4, <2>5
  <2>7. Unanswered(w0, u0) => Unanswered(w, u)
    BY <1>6, <1>8 DEF Unanswered
  <2>8. Answering(x, r, w0, u0) => Answering(x, r, w, u)
    BY <1>6 DEF Answering
  <2>9. w.state \in {"open", "lost"}
    BY <1>8, <2>4
  <2>10. ServeOK(x, r, w, u)
    BY <1>6, <2>4, <2>6, <2>7, <2>8, <2>9 DEF ServeOK
  <2>. QED  BY <2>2, <2>3, <2>10
<1>. QED  BY <1>3, <1>6, <1>7, <1>8, <1>10, <1>12, <1>13, ClientFrame

(* A client connects: its connection is the last of the backlog.           *)
LEMMA ConnectStep ==
  ASSUME PreforkInv, NEW c \in Client, Connect(c)
  PROVE  PreforkInv'
<1>1. PICK u0 : u0 = client[c]
  OBVIOUS
<1>2. PICK w0 : w0 = net[c]
  OBVIOUS
<1>3. u0.pc = "connect" /\ UNCHANGED <<request, child, parent>>
  BY <1>1 DEF Connect
<1>4. /\ w0 \in NetRecord /\ u0 \in ClientRecord /\ PeerOK(c, request[c], w0, u0)
      /\ client \in [Client -> ClientRecord] /\ net \in [Client -> NetRecord]
      /\ backlog \in Seq(Client) /\ child \in [Child -> ChildRecord]
      /\ request \in [Client -> Request]
  BY <1>1, <1>2, ClientType DEF PreforkInv, VariablesOK
<1>5. /\ c \notin Range(backlog) /\ \A i \in Child : child[i].conn # c
  BY <1>1, <1>3, ClientType DEF WaitOK
<1>6. w0.state = "none" /\ w0.up = <<>> /\ w0.down = <<>> /\ u0.got = <<>>
  BY <1>3, <1>4 DEF PeerOK, Unanswered
<1>7. CASE ~ Listening
  <2>1. client' = [client EXCEPT ![c].pc = "failed"] /\ UNCHANGED <<backlog, net>>
    BY <1>7 DEF Connect, ClientTo
  <2>2. PICK u : u = [u0 EXCEPT !.pc = "failed"]
    OBVIOUS
  <2>3. u \in ClientRecord /\ u.pc = "failed" /\ u.got = u0.got
    BY <1>4, <2>2 DEF ClientRecord
  <2>4. client' = [client EXCEPT ![c] = u] /\ net' = [net EXCEPT ![c] = w0]
    BY <1>1, <1>2, <1>4, <2>1, <2>2
  <2>5. PeerOK(c, request[c], w0, u)
    BY <1>4, <1>6, <2>3 DEF PeerOK, Unanswered
  <2>6. c \in Range(backlog) => WaitOK(c, w0, u)
    BY <1>5
  <2>7. \A i \in Child : child[i].conn = c => ServeOK(child[i], request[c], w0, u)
    BY <1>5
  <2>. QED  BY <1>3, <1>4, <2>1, <2>3, <2>4, <2>5, <2>6, <2>7, ClientFrame
<1>8. CASE Listening
  <2>1. PICK r : r = request[c]
    OBVIOUS
  <2>2. PICK ps : ps = Pieces(c)
    OBVIOUS
  <2>3. /\ client' = [client EXCEPT ![c].pc = "write", ![c].left = ps]
        /\ backlog' = Append(backlog, c) /\ net' = [net EXCEPT ![c].state = "waiting"]
    BY <1>8, <2>2 DEF Connect
  <2>4. ps \in Seq(Piece) /\ \A k \in DOMAIN ps : ps[k] = <<c, k>> /\ k \in Nat
    <3>1. PICK z : z = Len(r.header) + r.size
      OBVIOUS
    <3>2. z \in Nat
      <4>1. r \in Request
        BY <1>4, <2>1
      <4>2. Len(r.header) \in Nat
        BY <4>1, RequestType
      <4>3. r.size \in Nat
        BY <4>1 DEF Request
      <4>. QED  BY <3>1, <4>2, <4>3
    <3>3. ps = [k \in 1 .. z |-> <<c, k>>]
      BY <2>1, <2>2, <3>1 DEF Pieces
    <3>4. \A k \in 1 .. z : <<c, k>> \in Piece
      BY <3>2 DEF Piece
    <3>. QED  BY <3>2, <3>3, <3>4
  <2>5. PICK u : u = [u0 EXCEPT !.pc = "write", !.left = ps]
    OBVIOUS
  <2>6. PICK w : w = [w0 EXCEPT !.state = "waiting"]
    OBVIOUS
  <2>7. u \in ClientRecord /\ u.pc = "write" /\ u.left = ps /\ u.got = <<>>
    BY <1>4, <1>6, <2>4, <2>5 DEF ClientRecord
  <2>8. w \in NetRecord /\ w.up = <<>> /\ w.down = <<>> /\ w.state = "waiting"
    BY <1>4, <1>6, <2>6 DEF NetRecord
  <2>9. /\ client' \in [Client -> ClientRecord] /\ client'[c] = u
        /\ net' \in [Client -> NetRecord] /\ net'[c] = w
        /\ \A d \in Client \ {c} : client'[d] = client[d] /\ net'[d] = net[d]
    <3>1. client' = [client EXCEPT ![c] = u] /\ net' = [net EXCEPT ![c] = w]
      BY <1>1, <1>2, <1>4, <2>3, <2>5, <2>6
    <3>. QED  BY <1>4, <2>7, <2>8, <3>1
  <2>10. PICK n : n = Len(backlog)
    OBVIOUS
  <2>11. /\ n \in Nat /\ DOMAIN backlog = 1 .. n
         /\ backlog' \in Seq(Client) /\ DOMAIN backlog' = 1 .. n + 1
         /\ \A k \in 1 .. n : backlog'[k] = backlog[k] /\ backlog[k] # c
         /\ backlog'[n + 1] = c
    <3>1. n \in Nat /\ DOMAIN backlog = 1 .. n
      BY <1>4, <2>10, LenProperties
    <3>2. /\ backlog' \in Seq(Client) /\ Len(backlog') = n + 1
          /\ \A k \in 1 .. n : backlog'[k] = backlog[k]
          /\ backlog'[n + 1] = c
      BY <1>4, <2>3, <2>10, AppendProperties
    <3>3. DOMAIN backlog' = 1 .. n + 1
      BY <3>2, LenProperties
    <3>4. \A k \in 1 .. n : backlog[k] # c
      BY <1>5, <3>1 DEF Range
    <3>. QED  BY <3>1, <3>2, <3>3, <3>4
  <2>12. \A d \in Range(backlog') : d = c \/ (d \in Range(backlog) /\ d \in Client)
    <3>1. SUFFICES ASSUME NEW k \in 1 .. n + 1
                   PROVE  backlog'[k] = c
                          \/ (backlog'[k] \in Range(backlog) /\ backlog'[k] \in Client)
      BY <2>11 DEF Range
    <3>2. k \in 1 .. n \/ k = n + 1
      BY <2>11
    <3>3. CASE k \in 1 .. n
      BY <1>4, <2>10, <2>11, <3>3, ElementOfSeq DEF Range
    <3>. QED  BY <2>11, <3>2, <3>3
  <2>13. VariablesOK'
    BY <1>3, <1>4, <2>9, <2>11 DEF PreforkInv, VariablesOK
  <2>14. OnePlace'
    <3>1. \A i \in Child : child'[i].conn \notin Range(backlog')
      BY <1>3, <1>5, <2>12 DEF PreforkInv, OnePlace
    <3>2. \A k, l \in DOMAIN backlog' : backlog'[k] = backlog'[l] => k = l
      <4>1. SUFFICES ASSUME NEW k \in 1 .. n + 1, NEW l \in 1 .. n + 1,
                            backlog'[k] = backlog'[l]
                     PROVE  k = l
        BY <2>11
      <4>2. (k \in 1 .. n \/ k = n + 1) /\ (l \in 1 .. n \/ l = n + 1)
        BY <2>11
      <4>3. CASE k \in 1 .. n /\ l \in 1 .. n
        BY <2>11, <4>1, <4>3 DEF PreforkInv, OnePlace
      <4>. QED  BY <2>11, <4>1, <4>2, <4>3
    <3>. QED  BY <1>3, <3>1, <3>2 DEF PreforkInv, OnePlace
  <2>15. FamilyOK'
    BY <1>3 DEF PreforkInv, FamilyOK
  <2>16. WaitOK(c, w, u)
    <3>1. StreamAt(c, w, u, 0)
      <4>1. Len(<<>>) = 0 /\ DOMAIN <<>> = {}
        OBVIOUS
      <4>2. \A k \in DOMAIN ps : 0 + 0 + k = k
        BY <2>4
      <4>. QED  BY <2>4, <2>7, <2>8, <4>1, <4>2 DEF StreamAt
    <3>. QED  BY <2>7, <2>8, <3>1 DEF WaitOK, Unanswered
  <2>17. \A d \in Client : PeerOK(d, request'[d], net'[d], client'[d])
    <3>1. Len(<<>>) <= SockBuf
      BY Constants
    <3>2. PeerOK(c, r, w, u)
      BY <2>7, <2>8, <3>1 DEF PeerOK
    <3>. QED  BY <1>3, <2>1, <2>9, <3>2 DEF PreforkInv
  <2>18. \A d \in Range(backlog') : WaitOK(d, net'[d], client'[d])
    <3>1. \A d \in Range(backlog) : d # c
      BY <1>5
    <3>. QED  BY <2>9, <2>12, <2>16, <3>1 DEF PreforkInv
  <2>19. \A j \in Child : LET d == child'[j].conn
                          IN ServeOK(child'[j], request'[d], net'[d], client'[d])
    <3>1. SUFFICES ASSUME NEW j \in Child, NEW d, d = child[j].conn
                   PROVE  ServeOK(child[j], request[d], net'[d], client'[d])
      BY <1>3
    <3>2. ServeOK(child[j], request[d], net[d], client[d]) /\ d \in Client \cup {NoConn} /\ d # c
      BY <1>4, <1>5, <3>1 DEF PreforkInv, ChildRecord
    <3>3. CASE d = NoConn
      BY <3>1, <3>2, <3>3, IdleOK
    <3>4. CASE d \in Client
      BY <2>9, <3>2, <3>4
    <3>. QED  BY <3>2, <3>3, <3>4
  <2>. QED  BY <2>13, <2>14, <2>15, <2>17, <2>18, <2>19 DEF PreforkInv
<1>. QED  BY <1>7, <1>8

-----------------------------------------------------------------------------
(* The children. *)

(* Answers are sequences.                                                  *)
LEMMA AnswerType ==
  ASSUME NEW c \in Client, NEW r \in Request, NEW answer \in Answers(c, r)
  PROVE  answer \in Seq(Token)
<1>1. Bad \in Seq(Token)
  BY DEF Bad, Token, EndOfHeader
<1>2. CASE answer # Bad
  <2>1. PICK b : b = [k \in 1 .. r.length |-> <<c, Len(r.header) + k>>]
    OBVIOUS
  <2>2. answer = <<<<"status", 200>>, EndOfHeader>> \o b
    BY <1>2, <2>1 DEF Answers, Ok
  <2>3. b \in Seq(Token)
    <3>1. PICK e : e = Len(r.header)
      OBVIOUS
    <3>2. PICK l : l = r.length
      OBVIOUS
    <3>3. e \in Nat \ {0} /\ l \in Nat
      BY <3>1, <3>2, RequestType
    <3>4. \A k \in 1 .. l : e + k \in Nat \ {0}
      BY <3>3
    <3>5. \A k \in 1 .. l : <<c, e + k>> \in Token
      BY <3>4 DEF Token, Piece
    <3>6. b = [k \in 1 .. l |-> <<c, e + k>>]
      BY <2>1, <3>1, <3>2
    <3>7. DOMAIN b = 1 .. l /\ \A k \in 1 .. l : b[k] \in Token
      BY <3>5, <3>6
    <3>8. b \in [1 .. l -> Token]
      BY <3>6, <3>7
    <3>. QED  BY <3>3, <3>8
  <2>4. <<<<"status", 200>>, EndOfHeader>> \in Seq(Token)
    BY DEF Token, EndOfHeader
  <2>. QED  BY <2>2, <2>3, <2>4, ConcatProperties
<1>. QED  BY <1>1, <1>2

(* A whole answer is still to be sent.                                     *)
LEMMA AnswerBegins ==
  ASSUME NEW c \in Client, NEW r \in Request, NEW x, x.conn = c, x.resp \in Answers(c, r),
         NEW w, NEW u, Unanswered(w, u)
  PROVE  Answering(x, r, w, u) /\ x.resp \in Seq(Token)
<1>1. PICK a : a = x.resp
  OBVIOUS
<1>2. a \in Answers(c, r) /\ a \in Seq(Token)
  BY <1>1, AnswerType
<1>3. Len(a) \in Nat /\ 0 \in 0 .. Len(a)
  BY <1>2, LenProperties
<1>4. a = SubSeq(a, 0 + 1, Len(a))
  BY <1>2, SubSeqFull
<1>5. SubSeq(a, 1, 0) = <<>>
  BY SubSeqEmpty
<1>6. u.got \o w.down = SubSeq(a, 1, 0)
  <2>1. <<>> \o <<>> = <<>>
    BY EmptySeq, ConcatEmptySeq
  <2>. QED  BY <1>5, <2>1 DEF Unanswered
<1>7. Answering(x, r, w, u)
  BY <1>1, <1>2, <1>3, <1>4, <1>6 DEF Answering
<1>. QED  BY <1>1, <1>2, <1>7

(* Some elements of a function, from e + 1 on.                             *)
LEMMA Part ==
  ASSUME NEW S, NEW f, NEW e \in Nat, NEW l \in Nat, \A i \in 1 .. l : f[e + i] \in S
  PROVE  /\ SubSeq(f, e + 1, e + l) \in Seq(S) /\ Len(SubSeq(f, e + 1, e + l)) = l
         /\ \A i \in 1 .. l : SubSeq(f, e + 1, e + l)[i] = f[e + i]
<1>1. PICK a \in Int : a = e + 1
  OBVIOUS
<1>2. PICK b \in Int : b = e + l
  OBVIOUS
<1>3. \A i \in a .. b : f[i] \in S
  <2>1. \A i \in a .. b : i - e \in 1 .. l /\ e + (i - e) = i
    BY <1>1, <1>2
  <2>. QED  BY <2>1
<1>4. /\ SubSeq(f, a, b) \in Seq(S)
      /\ Len(SubSeq(f, a, b)) = IF a <= b THEN b - a + 1 ELSE 0
      /\ \A i \in 1 .. b - a + 1 : SubSeq(f, a, b)[i] = f[a + i - 1]
  BY <1>3, SubSeqProperties
<1>5. b - a + 1 = l /\ (~ (a <= b) => l = 0) /\ \A i \in 1 .. l : a + i - 1 = e + i
  BY <1>1, <1>2
<1>. QED  BY <1>1, <1>2, <1>4, <1>5

(* What send_200() sends of a buffer that has the request: its body.       *)
LEMMA BodyEchoed ==
  ASSUME NEW c \in Client, NEW r \in Request, r = request[c], WellFormed(r),
         NEW mem \in Buffer, NEW n \in 0 .. MemSize, Received(mem, n, c),
         NEW e, e = Len(r.header), NEW l, l = r.length, e + l <= n,
         HeaderEnd(mem) = e
  PROVE  Ok(SubSeq(mem, HeaderEnd(mem) + 1, HeaderEnd(mem) + l)) \in Answers(c, r)
<1>1. e \in Nat \ {0} /\ l \in Nat
  BY RequestType
<1>2. n \in Nat /\ n <= MemSize /\ MemSize \in Nat
  BY Constants
<1>3. \A i \in 1 .. l : e + i \in 1 .. n /\ e + i \in Nat \ {0}
  BY <1>1, <1>2
<1>4. \A i \in 1 .. l : mem[e + i] = <<c, e + i>> /\ mem[e + i] \in Piece
  <2>1. \A i \in 1 .. n : mem[i] = <<c, i>>
    BY DEF Received
  <2>2. \A i \in Nat \ {0} : <<c, i>> \in Piece
    BY DEF Piece
  <2>. QED  BY <1>3, <2>1, <2>2
<1>5. PICK s : s = SubSeq(mem, e + 1, e + l)
  OBVIOUS
<1>6. s \in Seq(Piece) /\ Len(s) = l /\ \A i \in 1 .. l : s[i] = mem[e + i]
  <2>1. e \in Nat /\ l \in Nat /\ \A i \in 1 .. l : mem[e + i] \in Piece
    BY <1>1, <1>4
  <2>2. /\ SubSeq(mem, e + 1, e + l) \in Seq(Piece) /\ Len(SubSeq(mem, e + 1, e + l)) = l
        /\ \A i \in 1 .. l : SubSeq(mem, e + 1, e + l)[i] = mem[e + i]
    BY ONLY <2>1, Part
  <2>. QED  BY <1>5, <2>2, Zenon
<1>7. \A i \in 1 .. l : s[i] = <<c, e + i>>
  BY <1>4, <1>6
<1>8. s = [k \in 1 .. l |-> <<c, e + k>>]
  <2>1. s = [k \in 1 .. Len(s) |-> s[k]]
    BY <1>6, LenProperties
  <2>. QED  BY <1>6, <1>7, <2>1
<1>. QED  BY <1>5, <1>8 DEF Answers

(* close(client_fd): the child is free again.                              *)
LEMMA CloseStep ==
  ASSUME PreforkInv, NEW i \in Child, child[i].pc \in Serving,
         NEW c, c = child[i].conn, Close(i, child[i].mem),
         client[c].pc # "killed" => client[c].got \o net[c].down \in Answers(c, request[c]),
         UNCHANGED <<request, client, backlog, parent>>
  PROVE  PreforkInv'
<1>1. /\ child[i] \in ChildRecord /\ c \in Client /\ net[c] \in NetRecord
      /\ PeerOK(c, request[c], net[c], client[c])
      /\ net[c].state \in {"open", "lost"} /\ client[c].pc # "connect"
  BY Serves
<1>2. PICK x0 : x0 = child[i]
  OBVIOUS
<1>3. PICK x : x = [x0 EXCEPT !.pc = "accept", !.conn = NoConn, !.mem = x0.mem,
                              !.n = 0, !.need = 0, !.resp = <<>>]
  OBVIOUS
<1>4. PICK w : w = Shut(net[c], "closed")
  OBVIOUS
<1>5. child' = [child EXCEPT ![i] = x] /\ net' = [net EXCEPT ![c] = w]
  BY <1>2, <1>3, <1>4 DEF Close
<1>6. x \in ChildRecord /\ x.conn = NoConn /\ x.pc = "accept" /\ x.n = 0
  <2>1. 0 \in 0 .. MaxHdr + MaxBody /\ 0 \in 0 .. MaxBody /\ <<>> \in Seq(Token)
    BY Constants, EmptySeq
  <2>. QED  BY <1>1, <1>2, <1>3, <2>1 DEF ChildRecord
<1>7. w \in NetRecord
  BY <1>1, <1>4, ShutProperty
<1>8. PeerOK(c, request[c], w, client[c])
  BY <1>1, <1>4, ShutOK
<1>. QED  BY <1>5, <1>6, <1>7, <1>8, ServeStep

(* The state of a child that serves a connection, without primes: what it  *)
(* has of it, and the numbers that it counts in.                           *)
LEMMA ServesWhom ==
  ASSUME PreforkInv, NEW i \in Child, child[i].pc \in Serving, NEW x, x = child[i],
         NEW c, c = x.conn, NEW w, w = net[c], NEW u, u = client[c], NEW r, r = request[c]
  PROVE  /\ x \in ChildRecord /\ c \in Client /\ w \in NetRecord /\ r \in Request
         /\ ServeOK(x, r, w, u) /\ PeerOK(c, r, w, u)
         /\ x.mem \in Buffer /\ x.n \in Nat /\ x.need \in Nat /\ x.resp \in Seq(Token)
         /\ w.up \in Seq(Piece) /\ w.down \in Seq(Token)
         /\ w.state \in {"open", "lost"} /\ u.pc # "connect"
<1>1. /\ x \in ChildRecord /\ c \in Client /\ w \in NetRecord /\ r \in Request
      /\ ServeOK(x, r, w, u) /\ PeerOK(c, r, w, u)
      /\ w.state \in {"open", "lost"} /\ u.pc # "connect"
  BY Serves
<1>2. x.n \in 0 .. MaxHdr + MaxBody /\ x.need \in 0 .. MaxBody
  BY <1>1 DEF ChildRecord
<1>3. x.mem \in Buffer /\ x.resp \in Seq(Token)
  BY <1>1 DEF ChildRecord, Buffer
<1>4. w.up \in Seq(Piece) /\ w.down \in Seq(Token)
  BY <1>1 DEF NetRecord
<1>. QED  BY <1>1, <1>2, <1>3, <1>4, Constants

(* read() fails: the host of the client is lost, and the client with it.   *)
LEMMA ReadFailsStep ==
  ASSUME PreforkInv, NEW i \in Child, ReadFails(i)
  PROVE  PreforkInv'
<1>1. PICK c : c = child[i].conn
  OBVIOUS
<1>2. /\ child[i].pc \in {"header", "body"} /\ net[c].state = "lost"
      /\ Close(i, child[i].mem) /\ UNCHANGED <<request, client, backlog, parent>>
  BY <1>1 DEF ReadFails
<1>3. child[i].pc \in Serving
  BY <1>2 DEF Serving
<1>4. client[c].pc = "killed"
  <2>1. PeerOK(c, request[c], net[c], client[c])
    BY <1>1, <1>3, Serves
  <2>. QED  BY <1>2, <2>1 DEF PeerOK
<1>. QED  BY <1>1, <1>2, <1>3, <1>4, CloseStep

(* EOF before the body is complete.                                        *)
LEMMA EndInBodyStep ==
  ASSUME PreforkInv, NEW i \in Child, EndInBody(i)
  PROVE  PreforkInv'
<1>1. PICK c : c = child[i].conn
  OBVIOUS
<1>2. /\ child[i].pc = "body" /\ client[c].pc = "killed"
      /\ Close(i, child[i].mem) /\ UNCHANGED <<request, client, backlog, parent>>
  BY <1>1 DEF EndInBody, Left
<1>3. child[i].pc \in Serving
  BY <1>2 DEF Serving
<1>. QED  BY <1>1, <1>2, <1>3, CloseStep

(* accept(): the first connection of the backlog is served.                *)
LEMMA AcceptStep ==
  ASSUME PreforkInv, NEW i \in Child, Accept(i)
  PROVE  PreforkInv'
<1>1. PICK c : c = Head(backlog)
  OBVIOUS
<1>2. PICK x0 : x0 = child[i]
  OBVIOUS
<1>3. PICK w0 : w0 = net[c]
  OBVIOUS
<1>4. /\ x0.pc = "accept" /\ backlog # <<>>
      /\ child' = [child EXCEPT ![i] = [@ EXCEPT !.pc = "header", !.conn = c]]
      /\ net' = [net EXCEPT ![c].state = IF @ = "lost" THEN @ ELSE "open"]
      /\ backlog' = Tail(backlog) /\ UNCHANGED <<request, client, parent>>
  BY <1>1, <1>2 DEF Accept
<1>5. /\ request \in [Client -> Request] /\ client \in [Client -> ClientRecord]
      /\ net \in [Client -> NetRecord] /\ backlog \in Seq(Client)
      /\ child \in [Child -> ChildRecord] /\ parent \in ParentRecord
  BY DEF PreforkInv, VariablesOK
<1>6. PICK n : n = Len(backlog)
  OBVIOUS
<1>7. /\ n \in Nat \ {0} /\ DOMAIN backlog = 1 .. n /\ c = backlog[1] /\ c \in Client
      /\ c \in Range(backlog)
      /\ backlog' \in Seq(Client) /\ DOMAIN backlog' = 1 .. n - 1
      /\ \A k \in 1 .. n - 1 : backlog'[k] = backlog[k + 1]
  <2>1. n \in Nat \ {0} /\ DOMAIN backlog = 1 .. n
    BY <1>4, <1>5, <1>6, EmptySeq, LenProperties
  <2>2. c = backlog[1] /\ 1 \in 1 .. n
    BY <1>1, <1>4, <1>5, <2>1, HeadTailProperties
  <2>3. /\ c \in Client /\ backlog' \in Seq(Client) /\ Len(backlog') = n - 1
        /\ \A k \in 1 .. n - 1 : backlog'[k] = backlog[k + 1]
    BY <1>1, <1>4, <1>5, <1>6, HeadTailProperties
  <2>4. DOMAIN backlog' = 1 .. n - 1
    BY <2>3, LenProperties
  <2>5. c \in Range(backlog)
    BY <2>1, <2>2 DEF Range
  <2>. QED  BY <2>1, <2>2, <2>3, <2>4, <2>5
<1>8. \A k, l \in 1 .. n : backlog[k] = backlog[l] => k = l
  BY <1>7 DEF PreforkInv, OnePlace
<1>9. \A d \in Range(backlog') : d \in Range(backlog) /\ d \in Client /\ d # c
  <2>1. SUFFICES ASSUME NEW k \in 1 .. n - 1
                 PROVE  /\ backlog'[k] \in Range(backlog) /\ backlog'[k] \in Client
                        /\ backlog'[k] # c
    BY <1>7 DEF Range
  <2>2. k + 1 \in 1 .. n /\ k + 1 # 1 /\ 1 \in 1 .. n
    BY <1>7
  <2>3. backlog[k + 1] \in Range(backlog) /\ backlog[k + 1] \in Client
    BY <1>5, <1>6, <1>7, <2>2, ElementOfSeq DEF Range
  <2>. QED  BY <1>7, <1>8, <2>2, <2>3
<1>10. /\ WaitOK(c, w0, client[c]) /\ w0 \in NetRecord
       /\ PeerOK(c, request[c], w0, client[c])
  BY <1>3, <1>7, ClientType
<1>11. PICK s \in {"open", "lost"} : s = IF w0.state = "lost" THEN w0.state ELSE "open"
  OBVIOUS
<1>12. PICK w : w = [w0 EXCEPT !.state = s]
  OBVIOUS
<1>13. /\ w \in NetRecord /\ w.up = w0.up /\ w.down = w0.down /\ w.state = s
       /\ (s = "lost" => w0.state = "lost")
  BY <1>10, <1>11, <1>12 DEF NetRecord
<1>14. PICK x : x = [x0 EXCEPT !.pc = "header", !.conn = c]
  OBVIOUS
<1>15. /\ x \in ChildRecord /\ x.pc = "header" /\ x.conn = c /\ x.n = x0.n /\ x.mem = x0.mem
  <2>1. x0 \in ChildRecord
    BY <1>2, <1>5
  <2>. QED  BY <1>7, <1>14, <2>1 DEF ChildRecord, Serving
<1>16. /\ child' \in [Child -> ChildRecord] /\ child'[i] = x
       /\ \A j \in Child \ {i} : child'[j] = child[j]
       /\ net' \in [Client -> NetRecord] /\ net'[c] = w
       /\ \A d \in Client \ {c} : net'[d] = net[d]
  <2>1. child' = [child EXCEPT ![i] = x]
    BY <1>2, <1>4, <1>14
  <2>2. net' = [net EXCEPT ![c] = w]
    BY <1>3, <1>4, <1>11, <1>12
  <2>. QED  BY <1>5, <1>7, <1>13, <1>15, <2>1, <2>2
<1>17. VariablesOK'
  BY <1>4, <1>5, <1>7, <1>16 DEF VariablesOK
<1>18. \A j \in Child : child[j].conn # c
  BY <1>7 DEF PreforkInv, OnePlace
<1>19. OnePlace'
  <2>1. \A j \in Child : child'[j].conn = IF j = i THEN c ELSE child[j].conn
    BY <1>15, <1>16
  <2>2. \A j, k \in Child : child'[j].conn # NoConn /\ child'[j].conn = child'[k].conn => j = k
    BY <1>18, <2>1 DEF PreforkInv, OnePlace
  <2>3. \A j \in Child : child'[j].conn \notin Range(backlog')
    BY <1>9, <2>1 DEF PreforkInv, OnePlace
  <2>4. \A k, l \in DOMAIN backlog' : backlog'[k] = backlog'[l] => k = l
    <3>1. SUFFICES ASSUME NEW k \in 1 .. n - 1, NEW l \in 1 .. n - 1,
                          backlog'[k] = backlog'[l]
                   PROVE  k = l
      BY <1>7
    <3>2. k + 1 \in 1 .. n /\ l + 1 \in 1 .. n
      BY <1>7
    <3>3. k + 1 = l + 1
      BY <1>7, <1>8, <3>1, <3>2
    <3>. QED  BY <3>3
  <2>. QED  BY <2>2, <2>3, <2>4 DEF OnePlace
<1>20. FamilyOK'
  <2>1. /\ FamilyOK /\ parent' = parent
        /\ \A j \in Child : \/ child'[j].pc = child[j].pc
                            \/ child[j].pc = "accept" /\ child'[j].pc = "header"
    BY <1>2, <1>4, <1>15, <1>16 DEF PreforkInv
  <2>2. SUFFICES ASSUME NEW j \in Child
                 PROVE  LET pid == parent.child_pids[j]
                            pc == child'[j].pc
                        IN /\ pid \in {Unset, ForkFailed, j}
                           /\ pid = ForkFailed => pc = "unborn"
                           /\ parent.pc \in {"fork", "record"} /\ j > parent.next => pc = "unborn"
                           /\ parent.pc = "fork" /\ j = parent.next => pc = "unborn"
                           /\ parent.pc \in {"fork", "record"} =>
                                (pid = Unset <=> j >= parent.next)
                           /\ parent.pc \in {"wait", "exited"} => pid # Unset
                           /\ (parent.pc = "wait" /\ j < parent.next) \/ parent.pc = "exited" =>
                                pc \in {"unborn", "reaped"}
    BY <2>1 DEF FamilyOK
  <2>. QED  BY <2>1 DEF FamilyOK
<1>21. PeerOK(c, request[c], w, client[c])
  BY <1>10, <1>13 DEF PeerOK, WaitOK
<1>22. \A d \in Client : PeerOK(d, request'[d], net'[d], client'[d])
  BY <1>4, <1>16, <1>21 DEF PreforkInv
<1>23. \A d \in Range(backlog') : WaitOK(d, net'[d], client'[d])
  BY <1>4, <1>9, <1>16 DEF PreforkInv
<1>24. ServeOK(x, request[c], w, client[c])
  <2>1. x.n = 0
    <3>1. \E a, b, d : ServeOK(x0, a, b, d)
      BY <1>2 DEF PreforkInv
    <3>. QED  BY <1>4, <1>15, <3>1 DEF ServeOK
  <2>2. Received(x.mem, 0, c)
    BY DEF Received
  <2>3. StreamAt(c, w, client[c], 0)
    BY <1>10, <1>13 DEF WaitOK, StreamAt
  <2>4. Unanswered(w, client[c]) /\ client[c].pc # "connect"
    BY <1>10, <1>13 DEF WaitOK, Unanswered
  <2>5. c # NoConn
    BY <1>7, PreforkAssumption
  <2>6. 0 <= MaxHdr
    BY Constants
  <2>. QED  BY <1>13, <1>15, <2>1, <2>2, <2>3, <2>4, <2>5, <2>6 DEF ServeOK, Serving
<1>25. \A j \in Child : LET d == child'[j].conn
                        IN ServeOK(child'[j], request'[d], net'[d], client'[d])
  <2>1. SUFFICES ASSUME NEW j \in Child, NEW d, d = child'[j].conn
                 PROVE  ServeOK(child'[j], request[d], net'[d], client[d])
    BY <1>4
  <2>2. CASE j = i
    BY <1>15, <1>16, <1>24, <2>1, <2>2
  <2>3. CASE j # i
    <3>1. /\ child'[j] = child[j] /\ d = child[j].conn /\ d # c /\ d \in Client \cup {NoConn}
      BY <1>5, <1>16, <1>18, <2>1, <2>3 DEF ChildRecord
    <3>2. ServeOK(child[j], request[d], net[d], client[d])
      BY <3>1 DEF PreforkInv
    <3>3. CASE d = NoConn
      BY <3>1, <3>2, <3>3, IdleOK
    <3>4. CASE d \in Client
      BY <1>16, <3>1, <3>2, <3>4
    <3>. QED  BY <3>1, <3>3, <3>4
  <2>. QED  BY <2>2, <2>3
<1>. QED  BY <1>17, <1>19, <1>20, <1>22, <1>23, <1>25 DEF PreforkInv

(* What read_until_header() left is parsed: the child refuses it, goes on  *)
(* to the body, or answers with it.                                        *)
LEMMA HandleHeaderProperty ==
  ASSUME PreforkInv, NEW i \in Child, NEW x0, x0 = child[i], x0.pc = "header",
         NEW c, c = x0.conn, NEW u, NEW w, u.pc # "connect", w.state \in {"open", "lost"},
         NEW mem \in Buffer, NEW n \in 1 .. MaxHdr, Received(mem, n, c),
         StreamAt(c, w, u, n), Unanswered(w, u),
         HandleHeader(i, mem, n)
  PROVE  \E x \in ChildRecord : /\ child' = [child EXCEPT ![i] = x]
                                /\ x.conn = c /\ x.pc \in Serving
                                /\ ServeOK(x, request[c], w, u)
<1>1. PICK r : r = request[c]
  OBVIOUS
<1>2. x0 \in ChildRecord /\ c \in Client /\ r \in Request /\ c # NoConn
      /\ child \in [Child -> ChildRecord]
  BY <1>1, ServesWhom, PreforkAssumption DEF Serving, PreforkInv, VariablesOK
<1>3. PICK buffer : buffer = [mem EXCEPT ![n + 1] = Nul]
  OBVIOUS
<1>4. /\ n \in Nat /\ n \in 0 .. MemSize - 1 /\ n \in 0 .. MemSize /\ 1 \in 1 .. n
      /\ n + 1 \in 1 .. MemSize /\ n <= MaxHdr /\ n <= MaxHdr + MaxBody
      /\ n \in 0 .. MaxHdr + MaxBody
  BY Constants
<1>5. buffer \in Buffer /\ buffer[n + 1] = Nul /\ Received(buffer, n, c)
  <2>1. buffer \in Buffer /\ buffer[n + 1] = Nul
    BY <1>3, <1>4 DEF Buffer
  <2>2. \A k \in 1 .. n : k \in 1 .. MemSize /\ k # n + 1
    BY <1>4, Constants
  <2>3. \A k \in 1 .. n : buffer[k] = mem[k]
    BY <1>3, <2>2 DEF Buffer
  <2>. QED  BY <2>1, <2>3 DEF Received
<1>6. PICK end : end = HeaderEnd(buffer)
  OBVIOUS
<1>7. PICK length : length = r.length
  OBVIOUS
<1>8. PICK need : need = length - (n - end)
  OBVIOUS
<1>9. buffer[1][1] = c
  <2>1. buffer[1] = <<c, 1>>
    BY <1>4, <1>5 DEF Received
  <2>. QED  BY <2>1
<1>10. IF end = 0 \/ ParseHeader(UNION {Lines(buffer[k]) : k \in 1 .. end}) < 0
       THEN Reply(i, buffer, Bad)
       ELSE IF need > 0
       THEN child' = [child EXCEPT ![i] = [@ EXCEPT !.pc = "body", !.mem = buffer,
                                                    !.n = n, !.need = need]]
       ELSE SendOk(i, buffer, length)
  BY <1>1, <1>3, <1>6, <1>7, <1>8, <1>9 DEF HandleHeader
<1>11. ASSUME NEW answer \in Answers(c, r), Reply(i, buffer, answer)
       PROVE  \E x \in ChildRecord : /\ child' = [child EXCEPT ![i] = x]
                                     /\ x.conn = c /\ x.pc \in Serving
                                     /\ ServeOK(x, r, w, u)
  <2>1. PICK x : x = [x0 EXCEPT !.pc = "write", !.mem = buffer, !.resp = answer]
    OBVIOUS
  <2>2. answer \in Seq(Token)
    BY <1>2, AnswerType
  <2>3. x \in ChildRecord /\ x.pc = "write" /\ x.conn = c /\ x.resp = answer
    BY <1>2, <1>5, <2>1, <2>2 DEF ChildRecord, Serving, Buffer
  <2>4. child' = [child EXCEPT ![i] = x]
    BY <1>11, <2>1 DEF Reply
  <2>5. Answering(x, r, w, u)
    BY <1>2, <2>3, AnswerBegins
  <2>6. ServeOK(x, r, w, u)
    BY <1>2, <2>3, <2>5 DEF ServeOK, Serving
  <2>. QED  BY <2>3, <2>4, <2>6 DEF Serving
<1>12. CASE end = 0 \/ ParseHeader(UNION {Lines(buffer[k]) : k \in 1 .. end}) < 0
  <2>1. Bad \in Answers(c, r)
    BY DEF Answers
  <2>2. Reply(i, buffer, Bad)
    BY <1>10, <1>12
  <2>. QED  BY <1>1, <1>11, <2>1, <2>2
<1>13. CASE ~ (end = 0 \/ ParseHeader(UNION {Lines(buffer[k]) : k \in 1 .. end}) < 0)
  <2>1. /\ end = Len(r.header) /\ end <= n /\ "end" \in r.header[end]
    BY <1>1, <1>2, <1>4, <1>5, <1>6, <1>13, EndKnown
  <2>2. end \in Nat \ {0} /\ length \in Nat /\ length <= MaxBody
    BY <1>2, <1>7, <2>1, RequestType
  <2>3. end <= MaxHdr
    BY <1>4, <2>1, <2>2, Constants
  <2>4. WellFormed(r)
    BY <1>1, <1>2, <1>4, <1>5, <1>13, <2>1, <2>3, ParseSound
  <2>5. CASE need > 0
    <3>1. need \in 0 .. MaxBody /\ n + need = end + length
      <4>1. /\ n \in Nat /\ end \in Nat /\ length \in Nat /\ MaxBody \in Nat
            /\ end <= n /\ length <= MaxBody
        BY <1>4, <2>1, <2>2, Constants
      <4>2. need = length - (n - end) /\ need > 0
        BY <1>8, <2>5
      <4>. QED  BY ONLY <4>1, <4>2
    <3>2. PICK x : x = [x0 EXCEPT !.pc = "body", !.mem = buffer, !.n = n, !.need = need]
      OBVIOUS
    <3>3. /\ x \in ChildRecord /\ x.pc = "body" /\ x.conn = c /\ x.mem = buffer
          /\ x.n = n /\ x.need = need
      BY <1>2, <1>4, <1>5, <3>1, <3>2 DEF ChildRecord, Serving, Buffer
    <3>4. child' = [child EXCEPT ![i] = x]
      BY <1>10, <1>13, <2>5, <3>2
    <3>5. BodyNext(x, r)
      BY <1>7, <2>1, <2>4, <2>5, <3>1, <3>3 DEF BodyNext
    <3>6. ServeOK(x, r, w, u)
      BY <1>2, <1>5, <3>3, <3>5 DEF ServeOK, Serving
    <3>. QED  BY <1>1, <3>3, <3>4, <3>6 DEF Serving
  <2>6. CASE ~ (need > 0)
    <3>1. end + length <= n
      BY <1>4, <1>8, <2>2, <2>6
    <3>2. PICK answer : answer = Ok(SubSeq(buffer, HeaderEnd(buffer) + 1,
                                           HeaderEnd(buffer) + length))
      OBVIOUS
    <3>3. answer \in Answers(c, r)
      BY <1>1, <1>2, <1>4, <1>5, <1>6, <1>7, <2>1, <2>4, <3>1, <3>2, BodyEchoed
    <3>4. Reply(i, buffer, answer)
      BY <1>10, <1>13, <2>6, <3>2 DEF SendOk
    <3>. QED  BY <1>1, <1>11, <3>3, <3>4
  <2>. QED  BY <2>5, <2>6
<1>. QED  BY <1>12, <1>13

(* EOF in the header.                                                      *)
LEMMA EndInHeaderStep ==
  ASSUME PreforkInv, NEW i \in Child, EndInHeader(i)
  PROVE  PreforkInv'
<1>1. PICK x0 : x0 = child[i]
  OBVIOUS
<1>2. PICK c : c = x0.conn
  OBVIOUS
<1>3. PICK w : w = net[c]
  OBVIOUS
<1>4. PICK u : u = client[c]
  OBVIOUS
<1>5. /\ x0.pc = "header" /\ u.pc = "killed"
      /\ IF x0.n = 0 THEN Close(i, x0.mem)
                     ELSE HandleHeader(i, x0.mem, x0.n) /\ UNCHANGED net
      /\ UNCHANGED <<request, client, backlog, parent>>
  BY <1>1, <1>2, <1>4 DEF EndInHeader, Left
<1>6. PICK r : r = request[c]
  OBVIOUS
<1>7. /\ c \in Client /\ w \in NetRecord /\ ServeOK(x0, r, w, u) /\ PeerOK(c, r, w, u)
      /\ x0.mem \in Buffer /\ x0.n \in Nat /\ w.state \in {"open", "lost"}
  BY <1>1, <1>2, <1>3, <1>4, <1>5, <1>6, ServesWhom DEF Serving
<1>8. CASE x0.n = 0
  <2>1. Close(i, child[i].mem) /\ child[i].pc \in Serving
    BY <1>1, <1>5, <1>8 DEF Serving
  <2>. QED  BY <1>1, <1>2, <1>4, <1>5, <2>1, CloseStep
<1>9. CASE x0.n # 0
  <2>1. /\ x0.n \in 1 .. MaxHdr /\ Received(x0.mem, x0.n, c) /\ StreamAt(c, w, u, x0.n)
        /\ Unanswered(w, u)
    <3>1. /\ x0.n <= MaxHdr /\ Received(x0.mem, x0.n, c) /\ StreamAt(c, w, u, x0.n)
          /\ Unanswered(w, u)
      BY <1>2, <1>5, <1>7 DEF ServeOK
    <3>2. x0.n \in 1 .. MaxHdr
      BY <1>7, <1>9, <3>1, Constants
    <3>. QED  BY <3>1, <3>2
  <2>2. HandleHeader(i, x0.mem, x0.n) /\ UNCHANGED net /\ u.pc # "connect"
    BY <1>5, <1>9
  <2>3. PICK x \in ChildRecord : /\ child' = [child EXCEPT ![i] = x]
                                 /\ x.conn = c /\ x.pc \in Serving
                                 /\ ServeOK(x, r, w, u)
    BY <1>1, <1>2, <1>5, <1>6, <1>7, <2>1, <2>2, HandleHeaderProperty
  <2>4. net' = [net EXCEPT ![c] = w] /\ child[i].pc \in Serving
    BY <1>1, <1>3, <1>5, <2>2 DEF PreforkInv, VariablesOK, Serving
  <2>. QED  BY <1>1, <1>2, <1>4, <1>5, <1>6, <1>7, <2>3, <2>4, ServeStep
<1>. QED  BY <1>8, <1>9

(* A read() takes the next pieces of a request.                            *)
LEMMA StreamRead ==
  ASSUME NEW c, NEW w \in NetRecord, NEW u, NEW n \in Nat, StreamAt(c, w, u, n),
         NEW m \in 0 .. Len(w.up),
         NEW w2, w2.up = SubSeq(w.up, m + 1, Len(w.up))
  PROVE  StreamAt(c, w2, u, n + m)
<1>1. PICK up : up = w.up
  OBVIOUS
<1>2. PICK t : t = SubSeq(up, m + 1, Len(up))
  OBVIOUS
<1>3. PICK a : a = Len(up)
  OBVIOUS
<1>4. up \in Seq(Piece) /\ m \in 0 .. Len(up)
  BY <1>1 DEF NetRecord
<1>5. a \in Nat /\ DOMAIN up = 1 .. a /\ m \in Nat /\ m <= a
  BY <1>3, <1>4, LenProperties
<1>6. t \in Seq(Piece) /\ Len(t) = a - m /\ \A k \in 1 .. a - m : t[k] = up[m + k]
  BY <1>2, <1>3, <1>4, Cut
<1>7. DOMAIN t = 1 .. a - m
  BY <1>6, LenProperties
<1>8. /\ \A k \in 1 .. a : up[k] = <<c, n + k>>
      /\ u.pc = "write" => \A k \in DOMAIN u.left : u.left[k] = <<c, n + a + k>>
  BY <1>1, <1>3, <1>5 DEF StreamAt
<1>9. \A k \in 1 .. a - m : t[k] = <<c, (n + m) + k>>
  <2>1. TAKE k \in 1 .. a - m
  <2>2. m + k \in 1 .. a /\ n + (m + k) = (n + m) + k
    BY ONLY <1>5, k \in 1 .. a - m, n \in Nat
  <2>3. up[m + k] = <<c, n + (m + k)>>
    BY <1>8, <2>2
  <2>. QED  BY <1>6, <2>2, <2>3
<1>10. n + a = (n + m) + (a - m)
  BY <1>5
<1>11. w2.up = t
  BY <1>1, <1>2
<1>. QED  BY <1>6, <1>7, <1>8, <1>9, <1>10, <1>11 DEF StreamAt

(* A connection after a read() of m pieces, and the buffer.                *)
LEMMA ReadProperty ==
  ASSUME NEW c \in Client, NEW r, NEW w0 \in NetRecord, NEW u,
         PeerOK(c, r, w0, u), Unanswered(w0, u),
         w0.state = "open", u.pc # "connect",
         NEW mem0 \in Buffer, NEW n \in Nat, Received(mem0, n, c), StreamAt(c, w0, u, n),
         NEW m \in 1 .. Len(w0.up), n + m <= MemSize
  PROVE  \E w \in NetRecord :
           /\ w = [w0 EXCEPT !.up = SubSeq(w0.up, m + 1, Len(w0.up))]
           /\ PeerOK(c, r, w, u) /\ StreamAt(c, w, u, n + m) /\ Unanswered(w, u)
           /\ w.state = "open"
           /\ Store(mem0, n, SubSeq(w0.up, 1, m)) \in Buffer
           /\ Received(Store(mem0, n, SubSeq(w0.up, 1, m)), n + m, c)
<1>1. PICK t : t = SubSeq(w0.up, m + 1, Len(w0.up))
  OBVIOUS
<1>2. PICK w : w = [w0 EXCEPT !.up = t]
  OBVIOUS
<1>3. PICK a : a = Len(w0.up)
  OBVIOUS
<1>4. w0.up \in Seq(Piece) /\ a \in Nat /\ DOMAIN w0.up = 1 .. a /\ m \in 0 .. Len(w0.up)
  <2>1. w0.up \in Seq(Piece)
    BY DEF NetRecord
  <2>2. a \in Nat /\ DOMAIN w0.up = 1 .. a
    BY <1>3, <2>1, LenProperties
  <2>3. m \in 0 .. a
    BY <1>3, <2>2
  <2>. QED  BY <1>3, <2>1, <2>2, <2>3
<1>5. t \in Seq(Piece) /\ Len(t) = a - m
  BY <1>1, <1>3, <1>4, Cut
<1>6. w \in NetRecord /\ w.up = t /\ w.down = w0.down /\ w.state = w0.state
  BY <1>2, <1>5 DEF NetRecord
<1>7. Len(t) <= SockBuf
  <2>1. a <= SockBuf /\ m \in Nat
    BY <1>3, <1>4 DEF PeerOK
  <2>. QED  BY <1>4, <1>5, <2>1, Constants
<1>8. PeerOK(c, r, w, u)
  BY <1>6, <1>7 DEF PeerOK
<1>9. StreamAt(c, w, u, n + m)
  <2>1. w.up = SubSeq(w0.up, m + 1, Len(w0.up))
    BY <1>1, <1>6
  <2>. QED  BY <1>4, <2>1, StreamRead
<1>10. Unanswered(w, u)
  BY <1>6 DEF Unanswered
<1>11. /\ Store(mem0, n, SubSeq(w0.up, 1, m)) \in Buffer
       /\ Received(Store(mem0, n, SubSeq(w0.up, 1, m)), n + m, c)
  <2>1. \A k \in 1 .. Len(w0.up) : w0.up[k] = <<c, n + k>>
    BY <1>3, <1>4 DEF StreamAt
  <2>. QED  BY <1>4, <2>1, StoreProperty
<1>. QED  BY <1>1, <1>2, <1>6, <1>8, <1>9, <1>10, <1>11

(* A round of read_until_header().                                         *)
LEMMA ReadHeaderStep ==
  ASSUME PreforkInv, NEW i \in Child, ReadHeader(i)
  PROVE  PreforkInv'
<1>1. PICK x0 : x0 = child[i]
  OBVIOUS
<1>2. PICK c : c = x0.conn
  OBVIOUS
<1>3. PICK w0 : w0 = net[c]
  OBVIOUS
<1>4. PICK u : u = client[c]
  OBVIOUS
<1>5. PICK n : n = x0.n
  OBVIOUS
<1>6. /\ x0.pc = "header" /\ w0.state = "open" /\ w0.up # <<>>
      /\ UNCHANGED <<request, client, backlog, parent>>
  BY <1>1, <1>2, <1>3 DEF ReadHeader
<1>7. PICK m \in 1 .. Min({Len(w0.up), MaxHdr - n}) :
        /\ net' = [net EXCEPT ![c].up = SubSeq(@, m + 1, Len(@))]
        /\ IF \/ HeaderEnd(Store(x0.mem, n, SubSeq(w0.up, 1, m))) # 0
              \/ n + m = MaxHdr
           THEN HandleHeader(i, Store(x0.mem, n, SubSeq(w0.up, 1, m)), n + m)
           ELSE child' = [child EXCEPT ![i] =
                            [@ EXCEPT !.mem = Store(x0.mem, n, SubSeq(w0.up, 1, m)),
                                      !.n = n + m]]
  BY <1>1, <1>2, <1>3, <1>5 DEF ReadHeader
<1>8. PICK r : r = request[c]
  OBVIOUS
<1>9. /\ x0 \in ChildRecord /\ c \in Client /\ w0 \in NetRecord /\ ServeOK(x0, r, w0, u)
      /\ PeerOK(c, r, w0, u) /\ x0.mem \in Buffer /\ n \in Nat /\ w0.up \in Seq(Piece)
      /\ u.pc # "connect"
  BY <1>1, <1>2, <1>3, <1>4, <1>5, <1>6, <1>8, ServesWhom DEF Serving
<1>10. /\ n <= MaxHdr /\ Received(x0.mem, n, c) /\ StreamAt(c, w0, u, n)
       /\ Unanswered(w0, u)
  BY <1>2, <1>5, <1>6, <1>9 DEF ServeOK
<1>11. /\ m \in 1 .. Len(w0.up) /\ n + m \in 1 .. MaxHdr /\ n + m <= MemSize
       /\ n + m \in 0 .. MaxHdr + MaxBody
  <2>1. PICK a : a = Len(w0.up)
    OBVIOUS
  <2>2. a \in Nat /\ MaxHdr \in Nat /\ MaxBody \in Nat /\ MemSize = MaxHdr + MaxBody + 1
    BY <1>9, <2>1, LenProperties, Constants
  <2>3. MaxHdr - n \in Nat
    BY <1>9, <1>10, <2>2
  <2>4. PICK l : l = Min({a, MaxHdr - n})
    OBVIOUS
  <2>5. l \in Nat /\ l <= a /\ l <= MaxHdr - n
    BY <2>2, <2>3, <2>4, MinOfTwo
  <2>6. m \in 1 .. l
    BY <1>7, <2>1, <2>4
  <2>7. /\ m \in 1 .. a /\ n + m \in 1 .. MaxHdr /\ n + m <= MemSize
        /\ n + m \in 0 .. MaxHdr + MaxBody
    BY <1>9, <2>2, <2>5, <2>6
  <2>. QED  BY <2>1, <2>7
<1>12. PICK mem : mem = Store(x0.mem, n, SubSeq(w0.up, 1, m))
  OBVIOUS
<1>13. PICK w \in NetRecord :
         /\ w = [w0 EXCEPT !.up = SubSeq(w0.up, m + 1, Len(w0.up))]
         /\ PeerOK(c, r, w, u) /\ StreamAt(c, w, u, n + m) /\ Unanswered(w, u)
         /\ w.state = "open" /\ mem \in Buffer /\ Received(mem, n + m, c)
  BY <1>6, <1>9, <1>10, <1>11, <1>12, ReadProperty
<1>14. net' = [net EXCEPT ![c] = w]
  BY <1>3, <1>7, <1>13
<1>15. PICK x \in ChildRecord : /\ child' = [child EXCEPT ![i] = x]
                                /\ x.conn = c /\ x.pc \in Serving
                                /\ ServeOK(x, r, w, u)
  <2>1. CASE HeaderEnd(mem) # 0 \/ n + m = MaxHdr
    <3>1. HandleHeader(i, mem, n + m)
      BY <1>7, <1>12, <2>1
    <3>. QED  BY <1>1, <1>2, <1>6, <1>8, <1>9, <1>11, <1>13, <3>1, HandleHeaderProperty
  <2>2. CASE ~ (HeaderEnd(mem) # 0 \/ n + m = MaxHdr)
    <3>1. PICK x : x = [x0 EXCEPT !.mem = mem, !.n = n + m]
      OBVIOUS
    <3>2. child' = [child EXCEPT ![i] = x]
      BY <1>1, <1>7, <1>12, <2>2, <3>1
    <3>3. /\ x \in ChildRecord /\ x.pc = "header" /\ x.conn = c /\ x.mem = mem /\ x.n = n + m
      BY <1>2, <1>6, <1>9, <1>11, <1>13, <3>1 DEF ChildRecord, Buffer
    <3>4. x.n <= MaxHdr /\ c # NoConn
      BY <1>9, <1>11, <3>3, PreforkAssumption
    <3>5. ServeOK(x, r, w, u)
      BY <1>9, <1>13, <3>3, <3>4 DEF ServeOK, Serving
    <3>. QED  BY <3>2, <3>3, <3>5 DEF Serving
  <2>. QED  BY <2>1, <2>2
<1>16. child[i].pc \in Serving
  BY <1>1, <1>6 DEF Serving
<1>. QED  BY <1>1, <1>2, <1>4, <1>6, <1>8, <1>13, <1>14, <1>15, <1>16, ServeStep

(* A round of read_all() for the rest of the body.                         *)
LEMMA ReadBodyStep ==
  ASSUME PreforkInv, NEW i \in Child, ReadBody(i)
  PROVE  PreforkInv'
<1>1. PICK x0 : x0 = child[i]
  OBVIOUS
<1>2. PICK c : c = x0.conn
  OBVIOUS
<1>3. PICK w0 : w0 = net[c]
  OBVIOUS
<1>4. PICK u : u = client[c]
  OBVIOUS
<1>5. PICK n : n = x0.n
  OBVIOUS
<1>6. PICK r : r = request[c]
  OBVIOUS
<1>7. PICK need : need = x0.need
  OBVIOUS
<1>8. /\ x0.pc = "body" /\ w0.state = "open" /\ w0.up # <<>>
      /\ UNCHANGED <<request, client, backlog, parent>>
  BY <1>1, <1>2, <1>3 DEF ReadBody
<1>9. PICK m \in 1 .. Min({Len(w0.up), need}) :
        /\ net' = [net EXCEPT ![c].up = SubSeq(@, m + 1, Len(@))]
        /\ IF m = need
           THEN SendOk(i, Store(x0.mem, n, SubSeq(w0.up, 1, m)), r.length)
           ELSE child' = [child EXCEPT ![i].mem = Store(x0.mem, n, SubSeq(w0.up, 1, m)),
                                       ![i].n = n + m, ![i].need = @ - m]
  BY <1>1, <1>2, <1>3, <1>5, <1>6, <1>7 DEF ReadBody
<1>10. /\ x0 \in ChildRecord /\ c \in Client /\ w0 \in NetRecord /\ r \in Request
       /\ ServeOK(x0, r, w0, u) /\ PeerOK(c, r, w0, u)
       /\ x0.mem \in Buffer /\ n \in Nat /\ need \in Nat /\ w0.up \in Seq(Piece)
       /\ u.pc # "connect"
  BY <1>1, <1>2, <1>3, <1>4, <1>5, <1>6, <1>7, <1>8, ServesWhom DEF Serving
<1>11. /\ Received(x0.mem, n, c) /\ StreamAt(c, w0, u, n) /\ Unanswered(w0, u)
       /\ BodyNext(x0, r)
  BY <1>2, <1>5, <1>8, <1>10 DEF ServeOK
<1>12. PICK e : e = Len(r.header)
  OBVIOUS
<1>13. PICK length : length = r.length
  OBVIOUS
<1>14. /\ WellFormed(r) /\ "end" \in r.header[e] /\ e <= n /\ need > 0
       /\ n + need = e + length /\ e \in Nat /\ e <= MaxHdr
       /\ length \in Nat /\ length <= MaxBody
  <2>1. e \in Nat /\ length \in Nat /\ length <= MaxBody
    BY <1>10, <1>12, <1>13, RequestType
  <2>2. /\ WellFormed(r) /\ e <= n /\ need > 0 /\ n + need = e + length
    BY <1>5, <1>7, <1>11, <1>12, <1>13 DEF BodyNext
  <2>3. "end" \in r.header[e] /\ e <= MaxHdr
    BY <1>12, <2>2 DEF WellFormed, Last
  <2>. QED  BY <2>1, <2>2, <2>3
<1>15. /\ m \in 1 .. Len(w0.up) /\ m <= need /\ m \in Nat \ {0}
  <2>1. PICK a : a = Len(w0.up)
    OBVIOUS
  <2>2. a \in Nat
    BY <1>10, <2>1, LenProperties
  <2>3. PICK l : l = Min({a, need})
    OBVIOUS
  <2>4. l \in Nat /\ l <= a /\ l <= need
    BY <1>10, <2>2, <2>3, MinOfTwo
  <2>5. m \in 1 .. l
    BY <1>9, <2>1, <2>3
  <2>6. /\ m \in 1 .. a /\ m <= need /\ m \in Nat \ {0}
    BY <1>10, <2>2, <2>4, <2>5
  <2>. QED  BY <2>1, <2>6
<1>16. /\ n + m <= MemSize /\ n + m \in 0 .. MemSize /\ n + m \in 0 .. MaxHdr + MaxBody
       /\ e <= n + m /\ need - m \in 0 .. MaxBody /\ (n + m) + (need - m) = e + length
       /\ (m = need => e + length <= n + m) /\ (m # need => need - m > 0)
  <2>1. MaxHdr \in Nat /\ MaxBody \in Nat /\ MemSize = MaxHdr + MaxBody + 1
    BY Constants
  <2>2. need <= length
    BY <1>10, <1>14
  <2>. QED  BY <1>10, <1>14, <1>15, <2>1, <2>2
<1>17. PICK mem : mem = Store(x0.mem, n, SubSeq(w0.up, 1, m))
  OBVIOUS
<1>18. PICK w \in NetRecord :
         /\ w = [w0 EXCEPT !.up = SubSeq(w0.up, m + 1, Len(w0.up))]
         /\ PeerOK(c, r, w, u) /\ StreamAt(c, w, u, n + m) /\ Unanswered(w, u)
         /\ w.state = "open" /\ mem \in Buffer /\ Received(mem, n + m, c)
  BY <1>8, <1>10, <1>11, <1>15, <1>16, <1>17, ReadProperty
<1>19. net' = [net EXCEPT ![c] = w]
  BY <1>3, <1>9, <1>18
<1>20. c # NoConn
  BY <1>10, PreforkAssumption
<1>21. PICK x \in ChildRecord : /\ child' = [child EXCEPT ![i] = x]
                                /\ x.conn = c /\ x.pc \in Serving
                                /\ ServeOK(x, r, w, u)
  <2>1. CASE m = need
    <3>1. HeaderEnd(mem) = e
      BY <1>6, <1>10, <1>12, <1>14, <1>16, <1>18, EndFound
    <3>2. PICK answer : answer = Ok(SubSeq(mem, HeaderEnd(mem) + 1, HeaderEnd(mem) + length))
      OBVIOUS
    <3>3. answer \in Answers(c, r)
      BY <1>6, <1>10, <1>12, <1>13, <1>14, <1>16, <1>18, <2>1, <3>1, <3>2, BodyEchoed
    <3>4. answer \in Seq(Token)
      BY <1>10, <3>3, AnswerType
    <3>5. PICK x : x = [x0 EXCEPT !.pc = "write", !.mem = mem, !.resp = answer]
      OBVIOUS
    <3>6. child' = [child EXCEPT ![i] = x]
      BY <1>1, <1>9, <1>13, <1>17, <2>1, <3>2, <3>5 DEF SendOk, Reply
    <3>7. x \in ChildRecord /\ x.pc = "write" /\ x.conn = c /\ x.resp = answer
      BY <1>2, <1>10, <1>18, <3>4, <3>5 DEF ChildRecord, Serving, Buffer
    <3>8. Answering(x, r, w, u)
      BY <1>10, <1>18, <3>3, <3>7, AnswerBegins
    <3>9. ServeOK(x, r, w, u)
      BY <1>10, <1>18, <1>20, <3>7, <3>8 DEF ServeOK, Serving
    <3>. QED  BY <3>6, <3>7, <3>9 DEF Serving
  <2>2. CASE m # need
    <3>1. PICK x : x = [x0 EXCEPT !.mem = mem, !.n = n + m, !.need = @ - m]
      OBVIOUS
    <3>2. child' = [child EXCEPT ![i] = x]
      <4>1. child' = [child EXCEPT ![i].mem = mem, ![i].n = n + m, ![i].need = @ - m]
        BY <1>9, <1>17, <2>2
      <4>2. child \in [Child -> ChildRecord]
        BY DEF PreforkInv, VariablesOK
      <4>. QED  BY <1>1, <3>1, <4>1, <4>2
    <3>3. /\ x \in ChildRecord /\ x.pc = "body" /\ x.conn = c /\ x.mem = mem /\ x.n = n + m
          /\ x.need = need - m
      BY <1>2, <1>7, <1>8, <1>10, <1>16, <1>18, <3>1 DEF ChildRecord, Buffer
    <3>4. BodyNext(x, r)
      BY <1>12, <1>13, <1>14, <1>16, <2>2, <3>3 DEF BodyNext
    <3>5. ServeOK(x, r, w, u)
      BY <1>10, <1>18, <1>20, <3>3, <3>4 DEF ServeOK, Serving
    <3>. QED  BY <3>2, <3>3, <3>5 DEF Serving
  <2>. QED  BY <2>1, <2>2
<1>22. child[i].pc \in Serving
  BY <1>1, <1>8 DEF Serving
<1>. QED  BY <1>1, <1>2, <1>4, <1>6, <1>8, <1>18, <1>19, <1>21, <1>22, ServeStep

(* Some more of an answer is sent.                                         *)
LEMMA AnswerGoesOn ==
  ASSUME NEW c \in Client, NEW r \in Request, NEW x, x.conn = c, NEW w, NEW u,
         Answering(x, r, w, u), w.down \in Seq(Token), u.got \in Seq(Token),
         NEW m \in 0 .. Len(x.resp),
         NEW y, y.conn = c, y.resp = SubSeq(x.resp, m + 1, Len(x.resp)),
         NEW v, v.down = w.down \o SubSeq(x.resp, 1, m)
  PROVE  Answering(y, r, v, u)
<1>1. PICK a \in Answers(c, r) : \E k \in 0 .. Len(a) :
        /\ x.resp = SubSeq(a, k + 1, Len(a))
        /\ u.pc # "killed" => u.got \o w.down = SubSeq(a, 1, k)
  BY DEF Answering
<1>2. PICK k \in 0 .. Len(a) :
        /\ x.resp = SubSeq(a, k + 1, Len(a))
        /\ u.pc # "killed" => u.got \o w.down = SubSeq(a, 1, k)
  BY <1>1
<1>3. a \in Seq(Token)
  BY AnswerType
<1>4. PICK resp : resp = x.resp
  OBVIOUS
<1>5. resp \in Seq(Token) /\ Len(resp) = Len(a) - k /\ m \in 0 .. Len(a) - k
  BY <1>2, <1>3, <1>4, Cut
<1>6. /\ SubSeq(resp, m + 1, Len(resp)) = SubSeq(a, (k + m) + 1, Len(a))
      /\ SubSeq(a, 1, k) \o SubSeq(resp, 1, m) = SubSeq(a, 1, k + m)
      /\ k + m \in 0 .. Len(a)
  BY <1>2, <1>3, <1>4, <1>5, CutAgain
<1>7. PICK s : s = SubSeq(resp, 1, m)
  OBVIOUS
<1>8. s \in Seq(Token)
  BY <1>4, <1>5, <1>7, Cut
<1>9. u.pc # "killed" => u.got \o v.down = SubSeq(a, 1, k + m)
  <2>1. SUFFICES ASSUME u.pc # "killed" PROVE u.got \o v.down = SubSeq(a, 1, k + m)
    OBVIOUS
  <2>2. PICK g : g = u.got
    OBVIOUS
  <2>3. PICK d : d = w.down
    OBVIOUS
  <2>4. v.down = d \o s
    BY <1>4, <1>7, <2>3
  <2>5. (g \o d) \o s = g \o (d \o s)
    <3>1. g \in Seq(Token) /\ d \in Seq(Token)
      BY <2>2, <2>3
    <3>. QED  BY ONLY <1>8, <3>1, ConcatAssociative
  <2>6. g \o d = SubSeq(a, 1, k)
    BY <1>2, <2>1, <2>2, <2>3
  <2>. QED  BY <1>6, <1>7, <2>2, <2>4, <2>5, <2>6
<1>10. y.resp = SubSeq(a, (k + m) + 1, Len(a))
  BY <1>4, <1>6
<1>. QED  BY <1>6, <1>9, <1>10 DEF Answering

(* An answer that is sent.                                                 *)
LEMMA AnswerEnds ==
  ASSUME NEW c \in Client, NEW r \in Request, NEW x, x.conn = c, NEW w, NEW u,
         Answering(x, r, w, u), x.resp = <<>>, u.pc # "killed"
  PROVE  u.got \o w.down \in Answers(c, r)
<1>1. PICK a \in Answers(c, r) : \E k \in 0 .. Len(a) :
        /\ <<>> = SubSeq(a, k + 1, Len(a)) /\ u.got \o w.down = SubSeq(a, 1, k)
  BY DEF Answering
<1>2. PICK k \in 0 .. Len(a) :
        /\ <<>> = SubSeq(a, k + 1, Len(a)) /\ u.got \o w.down = SubSeq(a, 1, k)
  BY <1>1
<1>3. a \in Seq(Token)
  BY AnswerType
<1>4. Len(SubSeq(a, k + 1, Len(a))) = Len(a) - k /\ Len(a) \in Nat
  BY <1>2, <1>3, Cut, LenProperties
<1>5. Len(<<>>) = 0
  BY EmptySeq
<1>6. k = Len(a)
  <2>1. PICK l \in Nat : l = Len(a)
    BY <1>4
  <2>2. l - k = 0 /\ k \in 0 .. l
    BY <1>2, <1>4, <1>5, <2>1
  <2>. QED  BY <2>1, <2>2
<1>7. SubSeq(a, 1, Len(a)) = a
  BY <1>3, SubSeqFull
<1>. QED  BY <1>2, <1>6, <1>7

(* Nobody waits for the rest of an answer.                                 *)
LEMMA AnswerDropped ==
  ASSUME NEW c \in Client, NEW r \in Request, NEW x, x.conn = c, NEW w, NEW u,
         Answering(x, r, w, u), u.pc = "killed", NEW y, y.conn = c, y.resp = <<>>
  PROVE  Answering(y, r, w, u)
<1>1. PICK a \in Answers(c, r) : TRUE
  BY DEF Answering
<1>2. a \in Seq(Token)
  BY AnswerType
<1>3. Len(a) \in Nat /\ Len(a) \in 0 .. Len(a) /\ Len(a) + 1 \in Int /\ Len(a) < Len(a) + 1
  BY <1>2, LenProperties
<1>4. SubSeq(a, Len(a) + 1, Len(a)) = <<>>
  BY <1>3, SubSeqEmpty
<1>. QED  BY <1>3, <1>4 DEF Answering

(* write_all() of a response.                                              *)
LEMMA WriteStep ==
  ASSUME PreforkInv, NEW i \in Child, Write(i)
  PROVE  PreforkInv'
<1>1. PICK x0 : x0 = child[i]
  OBVIOUS
<1>2. PICK c : c = x0.conn
  OBVIOUS
<1>3. PICK w0 : w0 = net[c]
  OBVIOUS
<1>4. PICK u : u = client[c]
  OBVIOUS
<1>5. PICK resp : resp = x0.resp
  OBVIOUS
<1>6. PICK m : m = Min({Len(resp), SockBuf - Len(w0.down)})
  OBVIOUS
<1>7. PICK r : r = request[c]
  OBVIOUS
<1>8. /\ x0.pc = "write"
      /\ IF resp = <<>> THEN Close(i, x0.mem)
         ELSE IF w0.state = "lost" \/ u.pc = "killed"
         THEN /\ child' = [child EXCEPT ![i].resp = <<>>]
              /\ UNCHANGED net
         ELSE /\ m > 0
              /\ child' = [child EXCEPT ![i].resp = SubSeq(@, m + 1, Len(@))]
              /\ net' = [net EXCEPT ![c].down = @ \o SubSeq(resp, 1, m)]
      /\ UNCHANGED <<request, client, backlog, parent>>
  BY <1>1, <1>2, <1>3, <1>4, <1>5, <1>6 DEF Write, Left
<1>9. /\ x0 \in ChildRecord /\ c \in Client /\ w0 \in NetRecord /\ r \in Request
      /\ ServeOK(x0, r, w0, u) /\ PeerOK(c, r, w0, u)
      /\ resp \in Seq(Token) /\ w0.down \in Seq(Token)
      /\ w0.state \in {"open", "lost"} /\ u.pc # "connect"
  BY <1>1, <1>2, <1>3, <1>4, <1>5, <1>7, <1>8, ServesWhom DEF Serving
<1>10. Answering(x0, r, w0, u) /\ c # NoConn
  BY <1>8, <1>9, PreforkAssumption DEF ServeOK
<1>11. child[i].pc \in Serving
  BY <1>1, <1>8 DEF Serving
<1>12. child \in [Child -> ChildRecord] /\ net \in [Client -> NetRecord]
       /\ u \in ClientRecord
  BY <1>4, <1>9 DEF PreforkInv, VariablesOK
<1>13. CASE resp = <<>>
  <2>1. u.pc # "killed" => u.got \o w0.down \in Answers(c, r)
    BY <1>2, <1>5, <1>9, <1>10, <1>13, AnswerEnds
  <2>2. Close(i, child[i].mem)
    BY <1>1, <1>8, <1>13
  <2>. QED  BY <1>1, <1>2, <1>3, <1>4, <1>7, <1>8, <1>11, <2>1, <2>2, CloseStep
<1>14. CASE resp # <<>> /\ (w0.state = "lost" \/ u.pc = "killed")
  <2>1. u.pc = "killed"
    BY <1>9, <1>14 DEF PeerOK
  <2>2. PICK x : x = [x0 EXCEPT !.resp = <<>>]
    OBVIOUS
  <2>3. child' = [child EXCEPT ![i] = x] /\ net' = [net EXCEPT ![c] = w0]
    BY <1>1, <1>3, <1>8, <1>12, <1>14, <2>2
  <2>4. x \in ChildRecord /\ x.pc = "write" /\ x.conn = c /\ x.resp = <<>>
    BY <1>2, <1>8, <1>9, <2>2, EmptySeq DEF ChildRecord
  <2>5. Answering(x, r, w0, u)
    BY <1>2, <1>9, <1>10, <2>1, <2>4, AnswerDropped
  <2>6. ServeOK(x, r, w0, u)
    BY <1>9, <1>10, <2>4, <2>5 DEF ServeOK, Serving
  <2>7. x.pc \in Serving
    BY <2>4 DEF Serving
  <2>. QED  BY <1>1, <1>2, <1>4, <1>7, <1>8, <1>9, <1>11, <2>3, <2>4, <2>6, <2>7, ServeStep
<1>15. CASE resp # <<>> /\ ~ (w0.state = "lost" \/ u.pc = "killed")
  <2>1. /\ m > 0
        /\ child' = [child EXCEPT ![i].resp = SubSeq(@, m + 1, Len(@))]
        /\ net' = [net EXCEPT ![c].down = @ \o SubSeq(resp, 1, m)]
    BY <1>8, <1>15
  <2>2. PICK a : a = Len(w0.down)
    OBVIOUS
  <2>3. PICK b : b = Len(resp)
    OBVIOUS
  <2>4. a \in Nat /\ b \in Nat /\ SockBuf \in Nat /\ a <= SockBuf
    BY <1>9, <2>2, <2>3, LenProperties, Constants DEF PeerOK
  <2>5. m \in Nat /\ m <= b /\ m <= SockBuf - a
    <3>1. SockBuf - a \in Nat
      BY <2>4
    <3>. QED  BY <1>6, <2>2, <2>3, <2>4, <3>1, MinOfTwo
  <2>6. m \in 0 .. Len(resp) /\ a + m <= SockBuf
    <3>1. m \in 0 .. b /\ a + m <= SockBuf
      BY <2>4, <2>5
    <3>. QED  BY <2>3, <3>1
  <2>7. PICK s : s = SubSeq(resp, 1, m)
    OBVIOUS
  <2>8. PICK t : t = SubSeq(resp, m + 1, Len(resp))
    OBVIOUS
  <2>9. s \in Seq(Token) /\ Len(s) = m /\ t \in Seq(Token)
    BY <1>9, <2>6, <2>7, <2>8, Cut
  <2>10. PICK d : d = w0.down \o s
    OBVIOUS
  <2>11. d \in Seq(Token) /\ Len(d) <= SockBuf
    <3>1. d \in Seq(Token) /\ Len(d) = a + m
      BY <1>9, <2>2, <2>9, <2>10, ConcatProperties
    <3>. QED  BY <2>6, <3>1
  <2>12. PICK x : x = [x0 EXCEPT !.resp = t]
    OBVIOUS
  <2>13. PICK w : w = [w0 EXCEPT !.down = d]
    OBVIOUS
  <2>14. child' = [child EXCEPT ![i] = x] /\ net' = [net EXCEPT ![c] = w]
    <3>1. child' = [child EXCEPT ![i] = x]
      BY <1>1, <1>5, <2>1, <2>8, <2>12
    <3>2. net' = [net EXCEPT ![c] = w]
      BY <1>3, <2>1, <2>7, <2>10, <2>13
    <3>. QED  BY <3>1, <3>2
  <2>15. x \in ChildRecord /\ x.pc = "write" /\ x.conn = c /\ x.resp = t
    BY <1>2, <1>8, <1>9, <2>9, <2>12 DEF ChildRecord
  <2>16. w \in NetRecord /\ w.up = w0.up /\ w.down = d /\ w.state = w0.state
    BY <1>9, <2>11, <2>13 DEF NetRecord
  <2>17. w.state = "open" /\ u.pc # "printed"
    BY <1>9, <1>15, <2>16 DEF PeerOK
  <2>18. PeerOK(c, r, w, u)
    BY <1>9, <2>11, <2>16, <2>17 DEF PeerOK
  <2>19. Answering(x, r, w, u)
    <3>1. u.got \in Seq(Token)
      BY <1>12 DEF ClientRecord
    <3>2. x.resp = SubSeq(x0.resp, m + 1, Len(x0.resp)) /\ w.down = w0.down \o SubSeq(x0.resp, 1, m)
          /\ m \in 0 .. Len(x0.resp)
      BY <1>5, <2>6, <2>7, <2>8, <2>10, <2>15, <2>16
    <3>. QED  BY <1>2, <1>9, <1>10, <2>15, <3>1, <3>2, AnswerGoesOn
  <2>20. ServeOK(x, r, w, u)
    BY <1>9, <1>10, <2>15, <2>16, <2>17, <2>19 DEF ServeOK, Serving
  <2>21. x.pc \in Serving
    BY <2>15 DEF Serving
  <2>. QED  BY <1>1, <1>2, <1>4, <1>7, <1>8, <1>11, <2>14, <2>15, <2>16, <2>18, <2>20, <2>21,
               ServeStep
<1>. QED  BY <1>13, <1>14, <1>15

-----------------------------------------------------------------------------
(* The theorems. *)

(* The invariant holds at first.                                           *)
LEMMA InitInvariant ==
  ASSUME Init
  PROVE  PreforkInv
<1>1. /\ request \in [Client -> Request]
  <2>1. DOMAIN request = Client /\ \A c \in Client : request[c] \in Request
    BY PreforkAssumption DEF Init
  <2>2. request = [c \in Client |-> request[c]]
    BY DEF Init
  <2>. QED  BY <2>1, <2>2
<1>2. /\ client = [c \in Client |-> [pc |-> "connect", left |-> <<>>, got |-> <<>>]]
      /\ net = [c \in Client |-> [up |-> <<>>, down |-> <<>>, state |-> "none"]]
      /\ backlog = <<>>
      /\ child = [i \in Child |-> Unborn]
      /\ parent = [pc |-> "fork", next |-> 1, child_pids |-> [i \in Child |-> Unset],
                   sigchld |-> FALSE, sigint |-> FALSE]
  BY DEF Init
<1>3. PICK pids : pids = [i \in Child |-> Unset]
  OBVIOUS
<1>4. PICK x : x = NewChild(pids)
  OBVIOUS
<1>5. PICK y : y = Unborn
  OBVIOUS
<1>6. y \in ChildRecord /\ y.pc = "unborn" /\ y.conn = NoConn /\ ServeOK(y, 0, 0, 0)
  <2>1. y = [x EXCEPT !.pc = "unborn"]
    BY <1>3, <1>4, <1>5 DEF Unborn
  <2>2. x \in ChildRecord /\ x.conn = NoConn
    <3>1. pids \in [Child -> Int]
      BY <1>3 DEF Unset
    <3>. QED  BY <1>4, <3>1, NewChildProperty
  <2>3. y \in ChildRecord /\ y.pc = "unborn" /\ y.conn = NoConn
    BY <2>1, <2>2 DEF ChildRecord
  <2>. QED  BY <2>3 DEF ServeOK, Serving
<1>7. \A i \in Child : child[i] = y
  BY <1>2, <1>5
<1>8. 1 \in Child /\ \A i \in Child : i \in Nat \ {0}
  BY Constants DEF Child
<1>9. Len(<<>>) = 0 /\ Len(<<>>) <= SockBuf /\ <<>> \in Seq(Piece) /\ <<>> \in Seq(Token)
      /\ <<>> \in Seq(Client)
  BY EmptySeq, Constants
<1>10. Range(backlog) = {} /\ DOMAIN backlog = {}
  <2>1. PICK e : e = <<>>
    OBVIOUS
  <2>2. DOMAIN e = 1 .. Len(e) /\ Len(e) = 0
    BY <1>9, <2>1, LenProperties
  <2>3. DOMAIN e = {}
    BY <2>2
  <2>. QED  BY <1>2, <2>1, <2>3 DEF Range
<1>11. VariablesOK
  <2>1. client \in [Client -> ClientRecord]
    BY <1>2, <1>9 DEF ClientRecord
  <2>2. net \in [Client -> NetRecord]
    BY <1>2, <1>9 DEF NetRecord
  <2>3. child \in [Child -> ChildRecord]
    BY <1>2, <1>5, <1>6
  <2>4. parent \in ParentRecord
    <3>1. parent = [pc |-> "fork", next |-> 1, child_pids |-> pids,
                    sigchld |-> FALSE, sigint |-> FALSE]
      BY <1>2, <1>3
    <3>2. pids \in [Child -> Int]
      BY <1>3 DEF Unset
    <3>. QED  BY <1>8, <3>1, <3>2 DEF ParentRecord
  <2>. QED  BY <1>1, <1>2, <1>9, <2>1, <2>2, <2>3, <2>4 DEF VariablesOK
<1>12. OnePlace
  BY <1>6, <1>7, <1>10 DEF OnePlace
<1>13. FamilyOK
  <2>1. /\ parent.pc = "fork" /\ parent.next = 1
        /\ \A i \in Child : parent.child_pids[i] = Unset
    BY <1>2
  <2>2. \A i \in Child : i >= 1 /\ ~ (i < 1)
    BY <1>8
  <2>3. Unset # ForkFailed
    BY DEF Unset, ForkFailed
  <2>4. \A i \in Child : child[i].pc = "unborn"
    BY <1>6, <1>7
  <2>. QED  BY <2>1, <2>2, <2>3, <2>4 DEF FamilyOK
<1>14. \A c \in Client : PeerOK(c, request[c], net[c], client[c])
  BY <1>2, <1>9 DEF PeerOK, Unanswered
<1>15. \A i \in Child : LET c == child[i].conn
                        IN ServeOK(child[i], request[c], net[c], client[c])
  BY <1>6, <1>7, IdleOK
<1>. QED  BY <1>10, <1>11, <1>12, <1>13, <1>14, <1>15 DEF PreforkInv

(* Every step keeps it.                                                    *)
LEMMA NextInvariant ==
  ASSUME PreforkInv, [Next]_vars
  PROVE  PreforkInv'
<1>1. CASE UNCHANGED vars
  BY <1>1 DEF vars, PreforkInv, VariablesOK, OnePlace, FamilyOK
<1>2. ASSUME NEW i \in Child, Accept(i) PROVE PreforkInv'
  BY <1>2, AcceptStep
<1>3. ASSUME NEW i \in Child, ChildStep(i) PROVE PreforkInv'
  BY <1>3, ReadFailsStep, ReadHeaderStep, EndInHeaderStep, ReadBodyStep, EndInBodyStep,
     WriteStep DEF ChildStep
<1>4. ASSUME NEW i \in Child, ChildHandlesSignal(i) PROVE PreforkInv'
  BY <1>4, ChildHandlesSignalStep
<1>5. ASSUME NEW i \in Child, ChildKilled(i) PROVE PreforkInv'
  BY <1>5, ChildKilledStep
<1>6. CASE ParentStep
  BY <1>6, ForkStep, RecordStep, WaitStep DEF ParentStep
<1>7. CASE HandleSignal
  BY <1>7, HandleSignalStep
<1>8. CASE Interrupt
  BY <1>8, InterruptStep
<1>9. ASSUME NEW c \in Client, ClientStep(c) PROVE PreforkInv'
  BY <1>9, ConnectStep, WriteRequestStep, WriteAfterCloseStep, ReadResponseStep,
     EndOfResponseStep DEF ClientStep
<1>10. ASSUME NEW c \in Client, ClientKilled(c) PROVE PreforkInv'
  BY <1>10, ClientKilledStep
<1>. QED  BY <1>1, <1>2, <1>3, <1>4, <1>5, <1>6, <1>7, <1>8, <1>9, <1>10 DEF Next

(* Connections, requests, the buffers of the children and what the parent  *)
(* knows of them stay as PreforkInv describes, whatever is killed when.    *)
THEOREM PreforkInvariant == Spec => []PreforkInv
<1>1. Init => PreforkInv
  BY InitInvariant
<1>2. PreforkInv /\ [Next]_vars => PreforkInv'
  BY NextInvariant
<1>. QED  BY <1>1, <1>2, PTL DEF Spec

(* Every variable has its type, and a connection is in one place.          *)
LEMMA TypeHolds ==
  ASSUME PreforkInv
  PROVE  TypeOK
<1>1. VariablesOK /\ OnePlace /\ FamilyOK
  BY DEF PreforkInv
<1>2. ASSUME NEW i \in Child
      PROVE  /\ child[i].pc \in {"unborn", "accept", "header", "body", "write", "zombie", "reaped"}
             /\ child[i].n \in 0 .. MaxHdr + MaxBody /\ child[i].need \in 0 .. MaxBody
             /\ child[i].conn # NoConn => child[i].conn \notin Range(backlog)
  <2>1. child[i] \in ChildRecord
    BY <1>1 DEF VariablesOK
  <2>. QED  BY <1>1, <2>1 DEF ChildRecord, Serving, OnePlace
<1>3. \A c \in Client : Len(net[c].up) <= SockBuf /\ Len(net[c].down) <= SockBuf
  BY DEF PreforkInv, PeerOK
<1>4. parent.pc \in {"fork", "record", "wait", "exited"} /\ parent.next \in Child
  BY <1>1 DEF VariablesOK, ParentRecord
<1>. QED  BY <1>1, <1>2, <1>3, <1>4 DEF TypeOK, OnePlace

(* When main() of sserver returns, no child of it is left: each was waited *)
(* for, or its fork() had failed, in whatever order children died, signals *)
(* came and handlers ran.                                                  *)
THEOREM NoChildIsLeft == Spec => []NoOrphans
<1>1. PreforkInv => NoOrphans
  <2>1. SUFFICES ASSUME PreforkInv PROVE NoOrphans
    OBVIOUS
  <2>2. TypeOK
    BY <2>1, TypeHolds
  <2>3. parent.pc = "exited" => \A i \in Child : child[i].pc \in {"unborn", "reaped"}
    BY <2>1 DEF PreforkInv, FamilyOK
  <2>. QED  BY <2>2, <2>3 DEF NoOrphans
<1>. QED  BY <1>1, PreforkInvariant, PTL

(* A response that is begun is an answer to the request of the client that *)
(* the child serves, never to what an earlier connection left in its       *)
(* buffer, and what a client prints of a connection that was closed is a   *)
(* whole one.                                                              *)
THEOREM EchoAlwaysIntact == Spec => []EchoIntact
<1>1. PreforkInv => EchoIntact
  <2>1. SUFFICES ASSUME PreforkInv PROVE EchoIntact
    OBVIOUS
  <2>2. ASSUME NEW i \in Child, child[i].pc = "write", NEW c, c = child[i].conn
        PROVE  \E answer \in Answers(c, request[c]) :
                 IF Left(c) THEN IsSuffix(child[i].resp, answer)
                 ELSE client[c].got \o net[c].down \o child[i].resp = answer
    <3>1. PICK x : x = child[i]
      OBVIOUS
    <3>2. PICK w : w = net[c]
      OBVIOUS
    <3>3. PICK u : u = client[c]
      OBVIOUS
    <3>4. PICK r : r = request[c]
      OBVIOUS
    <3>5. c \in Client /\ r \in Request /\ ServeOK(x, r, w, u)
      BY <2>1, <2>2, <3>1, <3>2, <3>3, <3>4, ServesWhom DEF Serving
    <3>6. Answering(x, r, w, u) /\ x.conn = c
      BY <2>2, <3>1, <3>5 DEF ServeOK
    <3>7. PICK a \in Answers(c, r) : \E k \in 0 .. Len(a) :
            /\ x.resp = SubSeq(a, k + 1, Len(a))
            /\ u.pc # "killed" => u.got \o w.down = SubSeq(a, 1, k)
      BY <3>6 DEF Answering
    <3>8. PICK k \in 0 .. Len(a) :
            /\ x.resp = SubSeq(a, k + 1, Len(a))
            /\ u.pc # "killed" => u.got \o w.down = SubSeq(a, 1, k)
      BY <3>7
    <3>9. a \in Seq(Token)
      BY <3>5, AnswerType
    <3>10. CASE Left(c)
      <4>1. IsSuffix(x.resp, a)
        BY <3>8, <3>9, RestIsSuffix
      <4>. QED  BY <3>1, <3>4, <3>7, <3>10, <4>1
    <3>11. CASE ~ Left(c)
      <4>1. u.got \o w.down = SubSeq(a, 1, k)
        BY <3>3, <3>8, <3>11 DEF Left
      <4>2. SubSeq(a, 1, k) \o SubSeq(a, k + 1, Len(a)) = SubSeq(a, 1, Len(a))
        <5>1. /\ Len(a) \in Nat /\ 1 \in 1 .. Len(a) + 1 /\ k \in 1 - 1 .. Len(a)
              /\ Len(a) \in k .. Len(a)
          BY <3>9, LenProperties
        <5>. QED  BY <3>9, <5>1, ConcatAdjacentSubSeq
      <4>3. SubSeq(a, 1, Len(a)) = a
        BY <3>9, SubSeqFull
      <4>4. u.got \o w.down \o x.resp = a
        BY <3>8, <4>1, <4>2, <4>3
      <4>. QED  BY <3>1, <3>2, <3>3, <3>4, <3>7, <3>11, <4>4
    <3>. QED  BY <3>10, <3>11
  <2>3. ASSUME NEW c \in Client, client[c].pc = "printed", net[c].state = "closed"
        PROVE  client[c].got \in Answers(c, request[c])
    <3>1. /\ PeerOK(c, request[c], net[c], client[c]) /\ client[c] \in ClientRecord
      BY <2>1, ClientType
    <3>2. net[c].down = <<>> /\ client[c].got \o net[c].down \in Answers(c, request[c])
      BY <2>3, <3>1 DEF PeerOK
    <3>3. client[c].got \in Seq(Token)
      BY <3>1 DEF ClientRecord
    <3>4. client[c].got \o <<>> = client[c].got
      BY <3>3, ConcatEmptySeq
    <3>. QED  BY <3>2, <3>4
  <2>. QED  BY <2>2, <2>3 DEF EchoIntact
<1>. QED  BY <1>1, PreforkInvariant, PTL
=============================================================================
