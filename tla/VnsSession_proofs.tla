-------------------------- MODULE VnsSession_proofs --------------------------
(***************************************************************************)
(* Theorems about modules RoutingTable and VnsSession, for every set of    *)
(* addresses and masks, every meaning of &, every file, topology and       *)
(* packet, and every length of a session.                                  *)
(***************************************************************************)
EXTENDS VnsSessionInvariant, SequenceTheorems, WellFoundedInduction, TLAPS

-----------------------------------------------------------------------------
(* Induction over the numbers, for a set of them. *)

(* A set of natural numbers has a least element.                           *)
LEMMA LeastOf ==
  ASSUME NEW T, T \subseteq Nat, T # {}
  PROVE  \E x \in T : \A y \in T : x <= y
<1>1. IsWellFoundedOn({ss \in Nat \X Nat : ss[1] < ss[2]}, Nat)
  BY NatLessThanWellFounded DEF OpToRel
<1>2. PICK x \in T : \A y \in T : ~(<<y, x>> \in {ss \in Nat \X Nat : ss[1] < ss[2]})
  BY <1>1, WFMin
<1>3. \A y \in T : /\ <<y, x>> \in Nat \X Nat
                   /\ <<y, x>>[1] = y /\ <<y, x>>[2] = x
  OBVIOUS
<1>4. \A y \in T : ~ (y < x)
  BY <1>2, <1>3
<1>. QED  BY <1>4

(* A set with 0, and with n + 1 if it has n, has every natural number.     *)
LEMMA EveryNat ==
  ASSUME NEW T, 0 \in T, \A n \in Nat : n \in T => n + 1 \in T
  PROVE  \A n \in Nat : n \in T
<1>1. SUFFICES ASSUME Nat \ T # {} PROVE FALSE
  OBVIOUS
<1>2. PICK x \in Nat \ T : \A y \in Nat \ T : x <= y
  BY <1>1, LeastOf
<1>3. x - 1 \in Nat /\ (x - 1) + 1 = x /\ ~ x <= x - 1
  BY <1>2
<1>. QED  BY <1>2, <1>3

(* The greatest element of a set that ends with m + 1.                     *)
LEMMA MaxIsLast ==
  ASSUME NEW m \in Nat, NEW s \in SUBSET (1 .. m + 1), m + 1 \in s
  PROVE  Max(s) = m + 1
<1>1. \A y \in s : m + 1 >= y
  OBVIOUS
<1>2. \A x \in s : (\A y \in s : x >= y) => x = m + 1
  OBVIOUS
<1>. QED  BY <1>1, <1>2, Zenon DEF Max

(* The greatest element of a set of positions.                             *)
LEMMA MaxOfSet ==
  ASSUME NEW m \in Nat, NEW s \in SUBSET (1 .. m), s # {}
  PROVE  Max(s) \in s
<1>. DEFINE T == {n \in Nat : \A t \in SUBSET (1 .. n) : t # {} => Max(t) \in t}
<1>1. 0 \in T
  <2>1. 1 .. 0 = {}
    OBVIOUS
  <2>. QED  BY <2>1
<1>2. ASSUME NEW n \in Nat, n \in T PROVE n + 1 \in T
  <2>1. SUFFICES ASSUME NEW t \in SUBSET (1 .. n + 1), t # {} PROVE Max(t) \in t
    OBVIOUS
  <2>2. CASE n + 1 \in t
    BY <2>2, MaxIsLast
  <2>3. CASE n + 1 \notin t
    <3>1. t \in SUBSET (1 .. n)
      BY <2>3
    <3>. QED  BY <1>2, <2>1, <3>1
  <2>. QED  BY <2>2, <2>3
<1>. HIDE DEF T
<1>3. m \in T
  BY <1>1, <1>2, EveryNat
<1>. QED  BY <1>3 DEF T

-----------------------------------------------------------------------------
(* Loading a file. *)

LoadStart(table) == [ok |-> TRUE, last |-> BLANK, cleared |-> FALSE, table |-> table]

(* g does for each set of lines what the loop does, in their order.        *)
LoadsLines(g, table, lines, n) ==
  g = [s \in SUBSET (1 .. n) |->
         IF s = {} THEN LoadStart(table) ELSE LoadLine(g[s \ {Max(s)}], lines[Max(s)])]

(* The fold is defined.                                                    *)
LEMMA LoadExists ==
  ASSUME NEW table, NEW lines, NEW n \in Nat
  PROVE  \E g : LoadsLines(g, table, lines, n)
<1>. DEFINE T == {m \in Nat : \E g : LoadsLines(g, table, lines, m)}
<1>1. 0 \in T
  <2>. DEFINE h == [s \in SUBSET (1 .. 0) |-> LoadStart(table)]
  <2>1. LoadsLines(h, table, lines, 0)
    BY DEF LoadsLines
  <2>. QED  BY <2>1
<1>2. ASSUME NEW m \in Nat, m \in T PROVE m + 1 \in T
  <2>1. PICK g : LoadsLines(g, table, lines, m)
    BY <1>2
  <2>. DEFINE h == [s \in SUBSET (1 .. m + 1) |->
                      IF m + 1 \in s THEN LoadLine(g[s \ {m + 1}], lines[m + 1]) ELSE g[s]]
  <2>2. ASSUME NEW s \in SUBSET (1 .. m + 1)
        PROVE  h[s] = IF s = {} THEN LoadStart(table)
                      ELSE LoadLine(h[s \ {Max(s)}], lines[Max(s)])
    <3>1. CASE m + 1 \in s
      <4>1. s \ {m + 1} \in SUBSET (1 .. m) /\ s \ {m + 1} \in SUBSET (1 .. m + 1)
        OBVIOUS
      <4>2. h[s \ {m + 1}] = g[s \ {m + 1}]
        BY <4>1
      <4>3. Max(s) = m + 1
        BY <3>1, MaxIsLast
      <4>. QED  BY <3>1, <4>2, <4>3
    <3>2. CASE m + 1 \notin s
      <4>1. s \in SUBSET (1 .. m) /\ h[s] = g[s]
        BY <3>2
      <4>2. CASE s = {}
        BY <2>1, <4>1, <4>2 DEF LoadsLines
      <4>3. CASE s # {}
        <5>1. Max(s) \in s
          BY <4>1, <4>3, MaxOfSet
        <5>2. s \ {Max(s)} \in SUBSET (1 .. m) /\ s \ {Max(s)} \in SUBSET (1 .. m + 1)
              /\ m + 1 \notin s \ {Max(s)}
          BY <3>2, <4>1
        <5>3. h[s \ {Max(s)}] = g[s \ {Max(s)}]
          BY <5>2
        <5>. QED  BY <2>1, <4>1, <4>3, <5>3 DEF LoadsLines
      <4>. QED  BY <4>2, <4>3
    <3>. QED  BY <3>1, <3>2
  <2>3. LoadsLines(h, table, lines, m + 1)
    <3>. DEFINE k == [s \in SUBSET (1 .. m + 1) |->
                        IF s = {} THEN LoadStart(table)
                        ELSE LoadLine(h[s \ {Max(s)}], lines[Max(s)])]
    <3>1. \A s \in SUBSET (1 .. m + 1) : h[s] = k[s]
      BY <2>2
    <3>. HIDE DEF LoadStart
    <3>2. h = k
      BY <3>1
    <3>. QED  BY <3>2 DEF LoadsLines
  <2>. QED  BY <2>3
<1>. HIDE DEF T
<1>3. n \in T
  BY <1>1, <1>2, EveryNat
<1>. QED  BY <1>3 DEF T

(* What the loop has done after k lines.                                   *)
LEMMA LoadLoop ==
  ASSUME NEW table, NEW S, NEW lines \in Seq(S)
  PROVE  \E load :
           /\ load[0] = LoadStart(table) /\ Load(table, lines) = load[Len(lines)]
           /\ \A k \in 1 .. Len(lines) : load[k] = LoadLine(load[k - 1], lines[k])
<1>. DEFINE n == Len(lines)
            g == CHOOSE g : LoadsLines(g, table, lines, n)
            load == [k \in 0 .. n |-> g[1 .. k]]
<1>1. n \in Nat /\ DOMAIN lines = 1 .. n
  OBVIOUS
<1>2. LoadsLines(g, table, lines, n)
  BY <1>1, LoadExists
<1>3. Load(table, lines) = g[1 .. n]
  BY <1>1, Zenon DEF Load, FoldLeft, MapThenFoldSet, LoadsLines, LoadStart
<1>. HIDE DEF g, n
<1>4. load[0] = LoadStart(table) /\ load[n] = g[1 .. n]
  <2>1. 1 .. 0 = {} /\ {} \in SUBSET (1 .. n) /\ 0 \in 0 .. n /\ n \in 0 .. n
    BY <1>1
  <2>2. g[{}] = LoadStart(table)
    BY <1>2, <2>1 DEF LoadsLines
  <2>. QED  BY <2>1, <2>2
<1>5. ASSUME NEW k \in 1 .. n PROVE load[k] = LoadLine(load[k - 1], lines[k])
  <2>1. 1 .. k \in SUBSET (1 .. n) /\ 1 .. k # {} /\ k - 1 \in 0 .. n /\ k \in 0 .. n
    BY <1>1
  <2>2. Max(1 .. k) = k
    <3>1. k - 1 \in Nat /\ (k - 1) + 1 = k /\ k \in 1 .. k
      BY <1>1
    <3>. QED  BY <3>1, MaxIsLast
  <2>3. (1 .. k) \ {k} = 1 .. k - 1
    BY <1>1
  <2>. QED  BY <1>2, <2>1, <2>2, <2>3 DEF LoadsLines
<1>. QED  BY <1>3, <1>4, <1>5 DEF n

LoadRecord ==
  [ok : BOOLEAN, last : Route \cup {BLANK}, cleared : BOOLEAN, table : Seq(Route)]

Line == Route \cup {BLANK, BAD}

(* What the loop keeps true: after the first k lines r.table is these.     *)
LoadedOK(r, table, lines, k) ==
  /\ r \in LoadRecord
  /\ k = 0 => r = LoadStart(table)
  /\ k > 0 /\ r.ok =>
       /\ r.cleared /\ r.last \in Route /\ r.last \in Range(lines)
       /\ Len(r.table) = k
       /\ \A i \in 1 .. k : r.table[i] \in Range(lines)
                            /\ (lines[i] # BLANK => r.table[i] = lines[i])

(* A line more.                                                            *)
LEMMA LoadLineOK ==
  ASSUME NEW table, NEW lines \in Seq(Line), NEW k \in 1 .. Len(lines),
         lines[1] # BLANK, NEW r, LoadedOK(r, table, lines, k - 1)
  PROVE  LoadedOK(LoadLine(r, lines[k]), table, lines, k)
<1>. PICK line : line = lines[k]
  OBVIOUS
<1>. PICK q : q = LoadLine(r, line)
  OBVIOUS
<1>1. line \in Line /\ line \in Range(lines) /\ k \in Nat /\ k > 0
  BY DEF Range
<1>2. r \in LoadRecord
  BY DEF LoadedOK
<1>3. CASE ~ r.ok \/ line = BAD
  <2>1. q = [r EXCEPT !.ok = FALSE]
    BY <1>3 DEF LoadLine
  <2>2. q \in LoadRecord /\ q.ok = FALSE
    BY <1>2, <2>1 DEF LoadRecord
  <2>. QED  BY <1>1, <2>2 DEF LoadedOK
<1>4. CASE r.ok /\ line # BAD
  <2>. DEFINE route == IF line = BLANK THEN r.last ELSE line
              before == IF r.cleared THEN r.table ELSE <<>>
  <2>1. q = [ok |-> TRUE, last |-> route, cleared |-> TRUE, table |-> Append(before, route)]
    BY <1>4 DEF LoadLine
  <2>2. /\ route \in Route /\ route \in Range(lines) /\ (line # BLANK => route = line)
        /\ before \in Seq(Route) /\ Len(before) = k - 1
        /\ \A i \in 1 .. k - 1 : before[i] \in Range(lines)
                                 /\ (lines[i] # BLANK => before[i] = lines[i])
    <3>1. CASE k = 1
      <4>1. r = LoadStart(table)
        BY <3>1 DEF LoadedOK
      <4>2. r.cleared = FALSE
        BY <4>1 DEF LoadStart
      <4>3. before = <<>> /\ 1 .. k - 1 = {}
        BY <3>1, <4>2
      <4>4. line # BLANK /\ route = line /\ line \in Route
        BY <1>1, <1>4, <3>1 DEF Line
      <4>5. before \in Seq(Route) /\ Len(before) = 0 /\ k - 1 = 0
        <5>1. before = <<>> /\ k - 1 = 0
          BY <3>1, <4>3
        <5>. HIDE DEF before
        <5>. PICK e : e = before
          OBVIOUS
        <5>2. e \in Seq(Route) /\ Len(e) = 0
          BY <5>1, EmptySeq
        <5>. QED  BY <5>1, <5>2
      <4>. QED  BY <1>1, <4>3, <4>4, <4>5
    <3>2. CASE k # 1
      <4>1. k - 1 > 0
        BY <3>2
      <4>2. /\ r.cleared /\ r.last \in Route /\ r.last \in Range(lines)
            /\ Len(r.table) = k - 1
            /\ \A i \in 1 .. k - 1 : r.table[i] \in Range(lines)
                                     /\ (lines[i] # BLANK => r.table[i] = lines[i])
        BY <1>4, <4>1 DEF LoadedOK
      <4>3. before = r.table /\ r.table \in Seq(Route)
        BY <1>2, <4>2 DEF LoadRecord
      <4>. QED  BY <1>1, <1>4, <4>2, <4>3 DEF Line
    <3>. QED  BY <3>1, <3>2
  <2>. HIDE DEF route, before
  <2>. PICK t : t = Append(before, route)
    OBVIOUS
  <2>3. /\ t \in Seq(Route) /\ Len(t) = k
        /\ \A i \in 1 .. k - 1 : t[i] = before[i]
        /\ t[k] = route
    BY <2>2, AppendProperties
  <2>4. q \in LoadRecord /\ q.ok /\ q.cleared /\ q.last = route /\ q.table = t
    BY <2>1, <2>2, <2>3 DEF LoadRecord
  <2>5. \A i \in 1 .. k : t[i] \in Range(lines) /\ (lines[i] # BLANK => t[i] = lines[i])
    <3>1. \A i \in 1 .. k : i \in 1 .. k - 1 \/ i = k
      BY <1>1
    <3>. QED  BY <2>2, <2>3, <3>1
  <2>. QED  BY <1>1, <2>2, <2>3, <2>4, <2>5 DEF LoadedOK
<1>. QED  BY <1>3, <1>4

(* A file with lines makes its table, one without leaves the old one.      *)
LEMMA LoadProperty ==
  ASSUME NEW table \in Seq(Route), NEW f \in Files
  PROVE  /\ Load(table, f).table \in Seq(Route) /\ Load(table, f).ok \in BOOLEAN
         /\ f = <<>> => Load(table, f).table = table
         /\ f # <<>> /\ Load(table, f).ok => TableOf(Load(table, f).table, f)
<1>1. f \in Seq(Line) /\ (f = <<>> \/ f[1] # BLANK)
  BY VnsSessionAssumption DEF Line
<1>. PICK n : n = Len(f)
  OBVIOUS
<1>2. n \in Nat /\ DOMAIN f = 1 .. n /\ (n = 0 <=> f = <<>>)
  BY <1>1, EmptySeq, LenProperties
<1>3. PICK load :
        /\ load[0] = LoadStart(table) /\ Load(table, f) = load[n]
        /\ \A k \in 1 .. n : load[k] = LoadLine(load[k - 1], f[k])
  BY <1>1, LoadLoop, SMTT(30)
<1>. DEFINE T == {k \in Nat : k <= n => LoadedOK(load[k], table, f, k)}
<1>4. 0 \in T
  <2>1. LoadStart(table) \in LoadRecord
    BY DEF LoadStart, LoadRecord
  <2>. QED  BY <1>3, <2>1 DEF LoadedOK
<1>5. ASSUME NEW k \in Nat, k \in T PROVE k + 1 \in T
  <2>1. SUFFICES ASSUME k + 1 <= n PROVE LoadedOK(load[k + 1], table, f, k + 1)
    OBVIOUS
  <2>2. k <= n /\ k + 1 \in 1 .. n /\ (k + 1) - 1 = k /\ f # <<>>
    BY <1>2, <2>1
  <2>3. LoadedOK(load[k], table, f, k)
    BY <1>5, <2>2
  <2>4. load[k + 1] = LoadLine(load[k], f[k + 1])
    BY <1>3, <2>2
  <2>. QED  BY <1>1, <2>2, <2>3, <2>4, LoadLineOK
<1>. HIDE DEF T
<1>6. n \in T
  BY <1>2, <1>4, <1>5, EveryNat
<1>7. LoadedOK(Load(table, f), table, f, n)
  BY <1>2, <1>3, <1>6 DEF T
<1>. PICK r : r = Load(table, f)
  OBVIOUS
<1>8. r.table \in Seq(Route) /\ r.ok \in BOOLEAN
  BY <1>7 DEF LoadedOK, LoadRecord
<1>9. ASSUME f = <<>> PROVE r.table = table
  BY <1>2, <1>7, <1>9 DEF LoadedOK, LoadStart
<1>10. ASSUME f # <<>>, r.ok PROVE TableOf(r.table, f)
  BY <1>2, <1>7, <1>10 DEF LoadedOK, TableOf
<1>. QED  BY <1>8, <1>9, <1>10

-----------------------------------------------------------------------------
(* Interfaces. *)

Handled(list, entries) == FoldLeft(HandleHwEntry, list, entries)

(* g does for each set of entries what the loop does, in their order.      *)
HandlesEntries(g, list, entries, n) ==
  g = [s \in SUBSET (1 .. n) |->
         IF s = {} THEN list ELSE HandleHwEntry(g[s \ {Max(s)}], entries[Max(s)])]

(* The fold is defined.                                                    *)
LEMMA HandlingExists ==
  ASSUME NEW list, NEW entries, NEW n \in Nat
  PROVE  \E g : HandlesEntries(g, list, entries, n)
<1>. DEFINE T == {m \in Nat : \E g : HandlesEntries(g, list, entries, m)}
<1>1. 0 \in T
  <2>. DEFINE h == [s \in SUBSET (1 .. 0) |-> list]
  <2>1. HandlesEntries(h, list, entries, 0)
    BY DEF HandlesEntries
  <2>. QED  BY <2>1
<1>2. ASSUME NEW m \in Nat, m \in T PROVE m + 1 \in T
  <2>1. PICK g : HandlesEntries(g, list, entries, m)
    BY <1>2
  <2>. DEFINE h == [s \in SUBSET (1 .. m + 1) |->
                      IF m + 1 \in s THEN HandleHwEntry(g[s \ {m + 1}], entries[m + 1]) ELSE g[s]]
  <2>2. ASSUME NEW s \in SUBSET (1 .. m + 1)
        PROVE  h[s] = IF s = {} THEN list
                      ELSE HandleHwEntry(h[s \ {Max(s)}], entries[Max(s)])
    <3>1. CASE m + 1 \in s
      <4>1. s \ {m + 1} \in SUBSET (1 .. m) /\ s \ {m + 1} \in SUBSET (1 .. m + 1)
        OBVIOUS
      <4>2. h[s \ {m + 1}] = g[s \ {m + 1}]
        BY <4>1
      <4>3. Max(s) = m + 1
        BY <3>1, MaxIsLast
      <4>. QED  BY <3>1, <4>2, <4>3
    <3>2. CASE m + 1 \notin s
      <4>1. s \in SUBSET (1 .. m) /\ h[s] = g[s]
        BY <3>2
      <4>2. CASE s = {}
        BY <2>1, <4>1, <4>2 DEF HandlesEntries
      <4>3. CASE s # {}
        <5>1. Max(s) \in s
          BY <4>1, <4>3, MaxOfSet
        <5>2. s \ {Max(s)} \in SUBSET (1 .. m) /\ s \ {Max(s)} \in SUBSET (1 .. m + 1)
              /\ m + 1 \notin s \ {Max(s)}
          BY <3>2, <4>1
        <5>3. h[s \ {Max(s)}] = g[s \ {Max(s)}]
          BY <5>2
        <5>. QED  BY <2>1, <4>1, <4>3, <5>3 DEF HandlesEntries
      <4>. QED  BY <4>2, <4>3
    <3>. QED  BY <3>1, <3>2
  <2>3. HandlesEntries(h, list, entries, m + 1)
    <3>. DEFINE k == [s \in SUBSET (1 .. m + 1) |->
                        IF s = {} THEN list
                        ELSE HandleHwEntry(h[s \ {Max(s)}], entries[Max(s)])]
    <3>1. \A s \in SUBSET (1 .. m + 1) : h[s] = k[s]
      BY <2>2
    <3>2. h = k
      BY <3>1
    <3>. QED  BY <3>2 DEF HandlesEntries
  <2>. QED  BY <2>3
<1>. HIDE DEF T
<1>3. n \in T
  BY <1>1, <1>2, EveryNat
<1>. QED  BY <1>3 DEF T

(* What the loop has done after k entries.                                 *)
LEMMA HandlingLoop ==
  ASSUME NEW list, NEW S, NEW entries \in Seq(S)
  PROVE  \E handled :
           /\ handled[0] = list /\ Handled(list, entries) = handled[Len(entries)]
           /\ \A k \in 1 .. Len(entries) : handled[k] = HandleHwEntry(handled[k - 1], entries[k])
<1>. DEFINE n == Len(entries)
            g == CHOOSE g : HandlesEntries(g, list, entries, n)
            handled == [k \in 0 .. n |-> g[1 .. k]]
<1>1. n \in Nat /\ DOMAIN entries = 1 .. n
  OBVIOUS
<1>2. HandlesEntries(g, list, entries, n)
  BY <1>1, HandlingExists
<1>3. Handled(list, entries) = g[1 .. n]
  BY <1>1, Zenon DEF Handled, FoldLeft, MapThenFoldSet, HandlesEntries
<1>. HIDE DEF g, n
<1>4. handled[0] = list /\ handled[n] = g[1 .. n]
  <2>1. 1 .. 0 = {} /\ {} \in SUBSET (1 .. n) /\ 0 \in 0 .. n /\ n \in 0 .. n
    BY <1>1
  <2>2. g[{}] = list
    BY <1>2, <2>1 DEF HandlesEntries
  <2>. QED  BY <2>1, <2>2
<1>5. ASSUME NEW k \in 1 .. n PROVE handled[k] = HandleHwEntry(handled[k - 1], entries[k])
  <2>1. 1 .. k \in SUBSET (1 .. n) /\ 1 .. k # {} /\ k - 1 \in 0 .. n /\ k \in 0 .. n
    BY <1>1
  <2>2. Max(1 .. k) = k
    <3>1. k - 1 \in Nat /\ (k - 1) + 1 = k /\ k \in 1 .. k
      BY <1>1
    <3>. QED  BY <3>1, MaxIsLast
  <2>3. (1 .. k) \ {k} = 1 .. k - 1
    BY <1>1
  <2>. QED  BY <1>2, <2>1, <2>2, <2>3 DEF HandlesEntries
<1>. QED  BY <1>3, <1>4, <1>5 DEF n

(* A sequence of sequences is flattened one after the other.               *)
LEMMA FlattenLoop ==
  ASSUME NEW seqs, Len(seqs) \in Nat \ {0}
  PROVE  \E flat :
           /\ flat[1] = seqs[1] /\ FlattenSeq(seqs) = flat[Len(seqs)]
           /\ \A m \in 2 .. Len(seqs) : flat[m] = flat[m - 1] \o seqs[m]
<1>. DEFINE n == Len(seqs)
            Flattens(g, k) ==
              g = [i \in 1 .. k |-> IF i = 1 THEN seqs[i] ELSE g[i - 1] \o seqs[i]]
            T == {k \in Nat : \E g : Flattens(g, k)}
            flat == CHOOSE g : Flattens(g, n)
<1>1. n \in Nat \ {0}
  OBVIOUS
<1>2. FlattenSeq(seqs) = flat[n]
  <2>1. Len(seqs) # 0
    OBVIOUS
  <2>. QED  BY <2>1, Zenon DEF FlattenSeq
<1>3. 0 \in T
  <2>1. 1 .. 0 = {}
    OBVIOUS
  <2>. DEFINE h == [i \in 1 .. 0 |-> seqs[i]]
  <2>2. Flattens(h, 0)
    BY <2>1
  <2>. QED  BY <2>2
<1>4. ASSUME NEW k \in Nat, k \in T PROVE k + 1 \in T
  <2>1. PICK g : Flattens(g, k)
    BY <1>4
  <2>. DEFINE h == [i \in 1 .. k + 1 |->
                      IF i = 1 THEN seqs[i] ELSE g[i - 1] \o seqs[i]]
              next == [i \in 1 .. k + 1 |->
                         IF i = 1 THEN seqs[i] ELSE h[i - 1] \o seqs[i]]
  <2>2. ASSUME NEW i \in 1 .. k + 1, i # 1 PROVE h[i - 1] = g[i - 1]
    <3>1. i - 1 \in 1 .. k /\ i - 1 \in 1 .. k + 1
      BY <2>2
    <3>. QED  BY <2>1, <3>1
  <2>3. \A i \in 1 .. k + 1 : h[i] = next[i]
    BY <2>2
  <2>4. h = next
    BY <2>3
  <2>5. Flattens(h, k + 1)
    BY <2>4
  <2>. HIDE DEF h, next, Flattens
  <2>. QED  BY <2>5
<1>. HIDE DEF T
<1>5. n \in T
  BY <1>1, <1>3, <1>4, EveryNat
<1>6. Flattens(flat, n)
  BY <1>5 DEF T
<1>. HIDE DEF flat, n
<1>7. flat[1] = seqs[1]
  BY <1>1, <1>6
<1>8. \A m \in 2 .. n : flat[m] = flat[m - 1] \o seqs[m]
  <2>1. SUFFICES ASSUME NEW m \in 2 .. n PROVE flat[m] = flat[m - 1] \o seqs[m]
    OBVIOUS
  <2>2. m \in 1 .. n /\ m # 1
    BY <1>1, <2>1
  <2>. QED  BY <1>6, <2>2
<1>. QED  BY <1>2, <1>7, <1>8 DEF n

HwEntry == {HwEntries(name)[j] : name \in Names, j \in 1 .. 4}

(* The four entries that HWINFO has for an interface.                      *)
LEMMA HwEntriesType ==
  ASSUME NEW name \in Names
  PROVE  HwEntries(name) \in Seq(HwEntry) /\ Len(HwEntries(name)) = 4
<1>. PICK e : e = HwEntries(name)
  OBVIOUS
<1>1. Len(e) = 4 /\ DOMAIN e = 1 .. 4 /\ e = [j \in 1 .. 4 |-> e[j]]
  BY DEF HwEntries
<1>2. \A j \in 1 .. 4 : e[j] \in HwEntry
  BY DEF HwEntry
<1>3. [j \in 1 .. 4 |-> e[j]] \in Seq(HwEntry)
  BY <1>2, IsASeq
<1>. QED  BY <1>1, <1>3

AllEntries(names) == FlattenSeq([i \in DOMAIN names |-> HwEntries(names[i])])

(* The four entries of an interface follow each other.                     *)
LEMMA EntriesOf ==
  ASSUME NEW names \in Seq(Names), NEW f, f = AllEntries(names)
  PROVE  /\ f \in Seq(HwEntry) /\ Len(f) = 4 * Len(names)
         /\ \A l \in 1 .. Len(names) : \A j \in 1 .. 4 :
              f[4 * (l - 1) + j] = HwEntries(names[l])[j]
<1>. PICK n : n = Len(names)
  OBVIOUS
<1>. PICK seqs : seqs = [i \in DOMAIN names |-> HwEntries(names[i])]
  OBVIOUS
<1>1. n \in Nat /\ DOMAIN names = 1 .. n /\ \A l \in 1 .. n : names[l] \in Names
  BY ElementOfSeq, LenProperties
<1>2. seqs \in Seq(Seq(HwEntry)) /\ Len(seqs) = n
  <2>1. \A l \in 1 .. n : HwEntries(names[l]) \in Seq(HwEntry)
    BY <1>1, HwEntriesType
  <2>. QED  BY <1>1, <2>1, IsASeq
<1>3. \A l \in 1 .. n : seqs[l] = HwEntries(names[l])
  BY <1>1
<1>. DEFINE Flat(g, m) ==
              /\ g \in Seq(HwEntry) /\ Len(g) = 4 * m
              /\ \A l \in 1 .. m : \A j \in 1 .. 4 :
                   g[4 * (l - 1) + j] = HwEntries(names[l])[j]
<1>4. CASE n = 0
  <2>1. Len(seqs) = 0 /\ seqs = <<>>
    BY <1>2, <1>4, EmptySeq
  <2>2. f = <<>>
    BY <2>1 DEF AllEntries, FlattenSeq
  <2>3. f \in Seq(HwEntry) /\ Len(f) = 0
    BY <2>2, EmptySeq
  <2>. QED  BY <1>4, <2>3
<1>5. CASE n # 0
  <2>1. PICK flat :
          /\ flat[1] = seqs[1] /\ FlattenSeq(seqs) = flat[n]
          /\ \A m \in 2 .. n : flat[m] = flat[m - 1] \o seqs[m]
    <3>1. Len(seqs) = n /\ Len(seqs) \in Nat \ {0}
      BY <1>1, <1>2, <1>5
    <3>. HIDE DEF Flat
    <3>. QED  BY ONLY <3>1, FlattenLoop
  <2>. DEFINE T == {m \in Nat : m \in 1 .. n => Flat(flat[m], m)}
  <2>2. 0 \in T
    OBVIOUS
  <2>3. ASSUME NEW m \in Nat, m \in T PROVE m + 1 \in T
    <3>1. SUFFICES ASSUME m + 1 \in 1 .. n PROVE Flat(flat[m + 1], m + 1)
      OBVIOUS
    <3>. PICK e : e = HwEntries(names[m + 1])
      OBVIOUS
    <3>2. e \in Seq(HwEntry) /\ Len(e) = 4 /\ e = seqs[m + 1]
      BY <1>1, <1>3, <3>1, HwEntriesType
    <3>3. CASE m = 0
      <4>1. flat[m + 1] = e
        BY <2>1, <3>2, <3>3
      <4>2. \A l \in 1 .. m + 1 : \A j \in 1 .. 4 : l = m + 1 /\ 4 * (l - 1) + j = j
        BY <3>3
      <4>3. \A l \in 1 .. m + 1 : \A j \in 1 .. 4 :
              e[4 * (l - 1) + j] = HwEntries(names[l])[j]
        BY <4>2
      <4>4. Len(e) = 4 * (m + 1)
        BY <3>2, <3>3
      <4>. QED  BY <3>2, <4>1, <4>3, <4>4
    <3>4. CASE m # 0
      <4>1. m \in 1 .. n /\ m + 1 \in 2 .. n /\ (m + 1) - 1 = m
        BY <1>1, <3>1, <3>4
      <4>. PICK g : g = flat[m]
        OBVIOUS
      <4>. PICK h : h = flat[m + 1]
        OBVIOUS
      <4>2. Flat(g, m) /\ h = g \o e
        BY <2>1, <2>3, <3>2, <4>1
      <4>3. /\ h \in Seq(HwEntry) /\ Len(h) = 4 * m + 4
            /\ \A i \in 1 .. 4 * m + 4 : h[i] = IF i <= 4 * m THEN g[i] ELSE e[i - 4 * m]
        <5>1. g \in Seq(HwEntry) /\ e \in Seq(HwEntry) /\ Len(g) = 4 * m /\ Len(e) = 4
          BY <3>2, <4>2
        <5>2. h = g \o e
          BY <4>2
        <5>3. /\ g \o e \in Seq(HwEntry) /\ Len(g \o e) = Len(g) + Len(e)
              /\ \A i \in 1 .. Len(g) + Len(e) :
                   (g \o e)[i] = IF i <= Len(g) THEN g[i] ELSE e[i - Len(g)]
          BY ONLY <5>1, ConcatProperties
        <5>. QED  BY ONLY <5>1, <5>2, <5>3
      <4>4. ASSUME NEW l \in 1 .. m + 1, NEW j \in 1 .. 4
            PROVE  h[4 * (l - 1) + j] = HwEntries(names[l])[j]
        <5>1. CASE l = m + 1
          <6>1. 4 * (l - 1) + j = 4 * m + j /\ (4 * m + j) - 4 * m = j /\ 4 * m + j \in 1 .. 4 * m + 4
                /\ ~ 4 * m + j <= 4 * m
            BY <5>1
          <6>. QED  BY <4>3, <5>1, <6>1
        <5>2. CASE l # m + 1
          <6>1. l \in 1 .. m /\ 4 * (l - 1) + j \in 1 .. 4 * m
            BY <5>2
          <6>2. 4 * (l - 1) + j \in 1 .. 4 * m + 4 /\ 4 * (l - 1) + j <= 4 * m
            BY <6>1
          <6>. QED  BY <4>2, <4>3, <6>1, <6>2
        <5>. QED  BY <5>1, <5>2
      <4>. QED  BY <4>3, <4>4
    <3>. QED  BY <3>3, <3>4
  <2>. HIDE DEF T, Flat
  <2>4. n \in T
    BY <1>1, <2>2, <2>3, EveryNat
  <2>5. Flat(flat[n], n)
    BY <1>1, <1>5, <2>4 DEF T
  <2>6. f = flat[n]
    BY <2>1 DEF AllEntries
  <2>. QED  BY <2>5, <2>6 DEF Flat
<1>. QED  BY <1>4, <1>5

(* An entry of each kind.                                                  *)
LEMMA NameEntry ==
  ASSUME NEW list, NEW v, NEW e, e = [key |-> "interface", value |-> v]
  PROVE  HandleHwEntry(list, e) = Append(list, [name |-> v, ip |-> -1, addr |-> "unset"])
BY DEF HandleHwEntry

(* The speed of an interface is not kept.                                  *)
LEMMA SpeedEntry ==
  ASSUME NEW list, NEW e, e = [key |-> "speed"]
  PROVE  HandleHwEntry(list, e) = list
BY DEF HandleHwEntry

(* Its IP address is put into the interface that was added last, ...       *)
LEMMA IpEntry ==
  ASSUME NEW list, NEW v, NEW e, e = [key |-> "ethip", value |-> v],
         NEW w, w = list[Len(list)], NEW u, u = [w EXCEPT !.ip = v]
  PROVE  HandleHwEntry(list, e) = [list EXCEPT ![Len(list)] = u]
BY DEF HandleHwEntry

(* ... and its hardware address too.                                       *)
LEMMA AddressEntry ==
  ASSUME NEW list, NEW v, NEW e, e = [key |-> "ether", value |-> v],
         NEW w, w = list[Len(list)], NEW u, u = [w EXCEPT !.addr = v]
  PROVE  HandleHwEntry(list, e) = [list EXCEPT ![Len(list)] = u]
BY DEF HandleHwEntry

(* The four entries of an interface.                                       *)
AddInterface(list, name) ==
  LET e == HwEntries(name)
  IN HandleHwEntry(HandleHwEntry(HandleHwEntry(HandleHwEntry(list, e[1]), e[2]), e[3]), e[4])

(* They add it.                                                            *)
LEMMA OneInterface ==
  ASSUME NEW list \in Seq(Interface), NEW name \in Names,
         NEW r4, r4 = AddInterface(list, name)
  PROVE  /\ r4 \in Seq(Interface) /\ Len(r4) = Len(list) + 1
         /\ \A i \in 1 .. Len(list) : r4[i] = list[i]
         /\ r4[Len(list) + 1] = [name |-> name, ip |-> Ip[name], addr |-> name]
<1>. PICK e : e = HwEntries(name)
  OBVIOUS
<1>. PICK r1 : r1 = HandleHwEntry(list, e[1])
  OBVIOUS
<1>. PICK r2 : r2 = HandleHwEntry(r1, e[2])
  OBVIOUS
<1>. PICK r3 : r3 = HandleHwEntry(r2, e[3])
  OBVIOUS
<1>0. r4 = HandleHwEntry(r3, e[4])
  BY DEF AddInterface
<1>. PICK n : n = Len(list)
  OBVIOUS
<1>1. n \in Nat /\ DOMAIN list = 1 .. n /\ n + 1 \in 1 .. n + 1
  OBVIOUS
<1>2. /\ e[1] = [key |-> "interface", value |-> name] /\ e[2] = [key |-> "speed"]
      /\ e[3] = [key |-> "ethip", value |-> Ip[name]]
      /\ e[4] = [key |-> "ether", value |-> name]
  BY DEF HwEntries
<1>. PICK e1, e2, e3, e4 : e1 = e[1] /\ e2 = e[2] /\ e3 = e[3] /\ e4 = e[4]
  OBVIOUS
<1>. PICK new : new = [name |-> name, ip |-> -1, addr |-> "unset"]
  OBVIOUS
<1>3. r1 = Append(list, new)
  BY <1>2, NameEntry
<1>4. /\ DOMAIN r1 = 1 .. n + 1 /\ Len(r1) = n + 1 /\ r1[n + 1] = new
      /\ \A i \in 1 .. n : r1[i] = list[i]
  <2>1. list \in Seq(Interface \cup {new}) /\ new \in Interface \cup {new}
    OBVIOUS
  <2>. QED  BY <1>3, <2>1, AppendProperties
<1>5. r2 = r1
  BY <1>2, SpeedEntry
<1>6. r3 = [r1 EXCEPT ![n + 1] = [name |-> name, ip |-> Ip[name], addr |-> "unset"]]
  <2>. PICK u : u = [new EXCEPT !.ip = Ip[name]]
    OBVIOUS
  <2>1. r3 = [r1 EXCEPT ![Len(r1)] = u]
    <3>1. /\ r3 = HandleHwEntry(r1, e3) /\ e3 = [key |-> "ethip", value |-> Ip[name]]
          /\ new = r1[Len(r1)]
      BY <1>2, <1>4, <1>5
    <3>2. HandleHwEntry(r1, e3) = [r1 EXCEPT ![Len(r1)] = u]
      BY ONLY <3>1, u = [new EXCEPT !.ip = Ip[name]], IpEntry
    <3>. QED  BY ONLY <3>1, <3>2
  <2>2. u = [name |-> name, ip |-> Ip[name], addr |-> "unset"]
    OBVIOUS
  <2>. QED  BY <1>4, <2>1, <2>2
<1>7. /\ DOMAIN r3 = 1 .. n + 1 /\ r3[n + 1] = [name |-> name, ip |-> Ip[name], addr |-> "unset"]
      /\ \A i \in 1 .. n : r3[i] = list[i]
  <2>1. \A i \in 1 .. n : i \in 1 .. n + 1 /\ i # n + 1
    BY <1>1
  <2>. QED  BY <1>1, <1>4, <1>6, <2>1
<1>8. Len(r3) = n + 1
  BY <1>1, <1>7
<1>. PICK made : made = [name |-> name, ip |-> Ip[name], addr |-> name]
  OBVIOUS
<1>9. r4 = [r3 EXCEPT ![n + 1] = made]
  <2>. PICK w : w = r3[n + 1]
    OBVIOUS
  <2>1. [w EXCEPT !.addr = name] = made
    BY <1>7
  <2>2. r4 = [r3 EXCEPT ![Len(r3)] = made]
    <3>1. /\ r4 = HandleHwEntry(r3, e4) /\ e4 = [key |-> "ether", value |-> name]
          /\ w = r3[Len(r3)]
      BY <1>0, <1>2, <1>8
    <3>2. HandleHwEntry(r3, e4) = [r3 EXCEPT ![Len(r3)] = made]
      BY ONLY <2>1, <3>1, AddressEntry
    <3>. QED  BY ONLY <3>1, <3>2
  <2>. QED  BY <1>8, <2>1, <2>2
<1>10. /\ DOMAIN r4 = 1 .. n + 1 /\ r4[n + 1] = made
       /\ \A i \in 1 .. n : r4[i] = list[i]
       /\ r4 = [i \in 1 .. n + 1 |-> r4[i]]
  <2>1. \A i \in 1 .. n : i \in 1 .. n + 1 /\ i # n + 1
    BY <1>1
  <2>. QED  BY <1>1, <1>7, <1>9, <2>1
<1>11. made \in Interface
  BY VnsSessionAssumption DEF Interface
<1>12. \A i \in 1 .. n + 1 : r4[i] \in Interface
  <2>1. \A i \in 1 .. n + 1 : i \in 1 .. n \/ i = n + 1
    BY <1>1
  <2>2. \A i \in 1 .. n : list[i] \in Interface
    BY <1>1
  <2>. QED  BY <1>10, <1>11, <2>1, <2>2
<1>13. r4 \in Seq(Interface) /\ Len(r4) = n + 1
  BY <1>1, <1>10, <1>12, IsASeq
<1>. QED  BY <1>10, <1>13

(* r is list and then the interfaces of the first m names.                 *)
Added(r, list, names, m) ==
  /\ r \in Seq(Interface)
  /\ Len(r) = Len(list) + m
  /\ \A i \in 1 .. Len(list) : r[i] = list[i]
  /\ \A l \in 1 .. m :
       r[Len(list) + l] = [name |-> names[l], ip |-> Ip[names[l]], addr |-> names[l]]

(* Each interface of the message is added, with its own address.           *)
LEMMA HwinfoProperty ==
  ASSUME NEW list \in Seq(Interface), NEW names \in Seq(Names)
  PROVE  Added(Handled(list, AllEntries(names)), list, names, Len(names))
<1>. PICK f : f = AllEntries(names)
  OBVIOUS
<1>. PICK n : n = Len(names)
  OBVIOUS
<1>1. n \in Nat /\ \A l \in 1 .. n : names[l] \in Names
  BY ElementOfSeq, LenProperties
<1>2. /\ f \in Seq(HwEntry) /\ Len(f) = 4 * n
      /\ \A l \in 1 .. n : \A j \in 1 .. 4 : f[4 * (l - 1) + j] = HwEntries(names[l])[j]
  BY EntriesOf, ZenonT(30)
<1>3. PICK handled :
        /\ handled[0] = list /\ Handled(list, f) = handled[4 * n]
        /\ \A k \in 1 .. 4 * n : handled[k] = HandleHwEntry(handled[k - 1], f[k])
  <2>1. PICK handled :
          /\ handled[0] = list /\ Handled(list, f) = handled[Len(f)]
          /\ \A k \in 1 .. Len(f) : handled[k] = HandleHwEntry(handled[k - 1], f[k])
    <3>1. f \in Seq(HwEntry)
      BY <1>2
    <3>. QED  BY ONLY <3>1, HandlingLoop
  <2>. QED  BY <1>2, <2>1
<1>. DEFINE T == {m \in Nat : m <= n => Added(handled[4 * m], list, names, m)}
<1>4. 0 \in T
  <2>1. 4 * 0 = 0
    OBVIOUS
  <2>. QED  BY <1>3, <2>1 DEF Added
<1>5. ASSUME NEW m \in Nat, m \in T PROVE m + 1 \in T
  <2>1. SUFFICES ASSUME m + 1 <= n PROVE Added(handled[4 * (m + 1)], list, names, m + 1)
    OBVIOUS
  <2>. PICK r : r = handled[4 * m]
    OBVIOUS
  <2>. PICK e : e = HwEntries(names[m + 1])
    OBVIOUS
  <2>2. Added(r, list, names, m) /\ names[m + 1] \in Names
    BY <1>1, <1>5, <2>1
  <2>3. \A j \in 1 .. 4 : f[4 * m + j] = e[j]
    <3>1. m + 1 \in 1 .. n /\ (m + 1) - 1 = m
      BY <1>1, <2>1
    <3>. QED  BY <1>2, <3>1
  <2>4. \A j \in 1 .. 4 : handled[4 * m + j] = HandleHwEntry(handled[4 * m + (j - 1)], e[j])
    <3>1. \A j \in 1 .. 4 : 4 * m + j \in 1 .. 4 * n /\ (4 * m + j) - 1 = 4 * m + (j - 1)
      BY <1>1, <2>1
    <3>. QED  BY <1>3, <2>3, <3>1
  <2>. PICK r1, r2, r3, r4 :
         /\ r1 = handled[4 * m + 1] /\ r2 = handled[4 * m + 2]
         /\ r3 = handled[4 * m + 3] /\ r4 = handled[4 * m + 4]
    OBVIOUS
  <2>5. /\ r1 = HandleHwEntry(r, e[1]) /\ r2 = HandleHwEntry(r1, e[2])
        /\ r3 = HandleHwEntry(r2, e[3]) /\ r4 = HandleHwEntry(r3, e[4])
    <3>1. /\ 1 \in 1 .. 4 /\ 2 \in 1 .. 4 /\ 3 \in 1 .. 4 /\ 4 \in 1 .. 4
          /\ 4 * m + (1 - 1) = 4 * m /\ 2 - 1 = 1 /\ 3 - 1 = 2 /\ 4 - 1 = 3
      OBVIOUS
    <3>2. r1 = HandleHwEntry(r, e[1])
      BY <2>4, <3>1
    <3>3. r2 = HandleHwEntry(r1, e[2])
      BY <2>4, <3>1
    <3>4. r3 = HandleHwEntry(r2, e[3])
      BY <2>4, <3>1
    <3>5. r4 = HandleHwEntry(r3, e[4])
      BY <2>4, <3>1
    <3>. QED  BY <3>2, <3>3, <3>4, <3>5
  <2>6. r \in Seq(Interface)
    BY <2>2 DEF Added
  <2>7. /\ r4 \in Seq(Interface) /\ Len(r4) = Len(r) + 1
        /\ \A i \in 1 .. Len(r) : r4[i] = r[i]
        /\ r4[Len(r) + 1] = [name |-> names[m + 1], ip |-> Ip[names[m + 1]], addr |-> names[m + 1]]
    <3>. PICK name : name = names[m + 1]
      OBVIOUS
    <3>1. name \in Names /\ e = HwEntries(name)
      BY <2>2
    <3>. HIDE DEF T
    <3>2. /\ r4 \in Seq(Interface) /\ Len(r4) = Len(r) + 1
          /\ \A i \in 1 .. Len(r) : r4[i] = r[i]
          /\ r4[Len(r) + 1] = [name |-> name, ip |-> Ip[name], addr |-> name]
      <4>1. r4 = AddInterface(r, name)
        BY ONLY <2>5, <3>1 DEF AddInterface
      <4>. QED  BY ONLY <2>6, <3>1, <4>1, OneInterface
    <3>. QED  BY <3>2
  <2>8. Added(r4, list, names, m + 1)
    <3>. PICK k : k = Len(list)
      OBVIOUS
    <3>1. /\ k \in Nat /\ Len(r) = k + m
          /\ \A i \in 1 .. k : r[i] = list[i]
          /\ \A l \in 1 .. m :
               r[k + l] = [name |-> names[l], ip |-> Ip[names[l]], addr |-> names[l]]
      BY <2>2 DEF Added
    <3>2. Len(r4) = k + (m + 1)
      BY <2>7, <3>1
    <3>3. \A i \in 1 .. k : r4[i] = list[i]
      <4>1. \A i \in 1 .. k : i \in 1 .. k + m
        BY <3>1
      <4>. QED  BY <2>7, <3>1, <4>1
    <3>4. ASSUME NEW l \in 1 .. m + 1
          PROVE  r4[k + l] = [name |-> names[l], ip |-> Ip[names[l]], addr |-> names[l]]
      <4>1. CASE l = m + 1
        BY <2>7, <3>1, <4>1
      <4>2. CASE l # m + 1
        <5>1. l \in 1 .. m /\ k + l \in 1 .. k + m
          BY <3>1, <4>2
        <5>. QED  BY <2>7, <3>1, <5>1
      <4>. QED  BY <4>1, <4>2
    <3>. QED  BY <2>7, <3>2, <3>3, <3>4 DEF Added
  <2>9. 4 * (m + 1) = 4 * m + 4
    OBVIOUS
  <2>. QED  BY <2>8, <2>9
<1>. HIDE DEF T
<1>6. n \in T
  BY <1>1, <1>4, <1>5, EveryNat
<1>7. Added(handled[4 * n], list, names, n)
  BY <1>1, <1>6 DEF T
<1>. QED  BY <1>3, <1>7

-----------------------------------------------------------------------------
(* The loop of sr_findLPMentry(). *)

MasksAreNat == Len(rtable) \in Nat /\ \A i \in 1 .. Len(rtable) : rtable[i].mask \in Nat

(* A turn of the loop keeps the best of the entries it has seen.           *)
LEMMA ScanTurn ==
  ASSUME ScanInvariant, MasksAreNat, Scan
  PROVE  ScanInvariant'
<1>1. /\ rtable' = rtable /\ ip_dst' = ip_dst /\ entry' = entry + 1
      /\ entry \in 1 .. Len(rtable) /\ Len(rtable) \in Nat
      /\ BestOf(entry - 1)
  BY DEF Scan, ScanInvariant, MasksAreNat
<1>2. \A i \in 1 .. Len(rtable) : rtable[i].mask \in Nat
  BY DEF MasksAreNat
<1>3. CASE Better(rtable[entry])
  <2>1. lpmentry' = entry /\ lpmmask' = rtable[entry].mask
    BY <1>3 DEF Scan
  <2>2. Matches(rtable[entry], ip_dst) /\ rtable[entry].mask > lpmmask
    BY <1>3 DEF Better
  <2>3. ASSUME NEW i \in 1 .. (entry - 1), Matches(rtable[i], ip_dst)
        PROVE  rtable[i].mask < rtable[entry].mask
    <3>1. CASE lpmentry = NULL
      BY <1>1, <1>2, <2>2, <2>3, <3>1 DEF BestOf, ScanInvariant
    <3>2. CASE lpmentry # NULL
      <4>1. lpmmask = rtable[lpmentry].mask /\ lpmentry \in 1 .. (entry - 1)
        BY <1>1, <3>2 DEF ScanInvariant, BestOf
      <4>2. rtable[i].mask <= rtable[lpmentry].mask
        BY <1>1, <2>3, <3>2 DEF BestOf
      <4>3. /\ rtable[i].mask \in Nat
            /\ rtable[lpmentry].mask \in Nat
            /\ rtable[entry].mask \in Nat
        BY <1>1, <1>2, <4>1
      <4>. QED  BY <2>2, <4>1, <4>2, <4>3
    <3>. QED  BY <3>1, <3>2
  <2>4. BestOf(entry - 1)'
    BY <1>1, <1>2, <2>1, <2>2, <2>3 DEF BestOf, NULL, Matches
  <2>5. lpmmask' > 0
    <3>1. lpmmask \in Nat
      BY <1>1, <1>2 DEF ScanInvariant, BestOf, NULL
    <3>2. rtable[entry].mask \in Nat
      BY <1>1, <1>2
    <3>. QED  BY <2>1, <2>2, <3>1, <3>2
  <2>. QED  BY <1>1, <2>1, <2>4, <2>5 DEF ScanInvariant, NULL
<1>4. CASE ~ Better(rtable[entry])
  <2>1. lpmentry' = lpmentry /\ lpmmask' = lpmmask
    BY <1>4 DEF Scan
  <2>2. Matches(rtable[entry], ip_dst) => rtable[entry].mask <= lpmmask
    <3>1. lpmmask \in Nat
      BY <1>1, <1>2 DEF ScanInvariant, BestOf, NULL
    <3>. QED  BY <1>1, <1>2, <1>4, <3>1 DEF Better
  <2>3. BestOf(entry - 1)'
    <3>1. CASE lpmentry = NULL
      BY <1>1, <1>2, <2>1, <2>2, <3>1 DEF BestOf, ScanInvariant, Matches, NULL
    <3>2. CASE lpmentry # NULL
      <4>1. lpmmask = rtable[lpmentry].mask /\ lpmentry \in 1 .. (entry - 1)
        BY <1>1, <3>2 DEF ScanInvariant, BestOf
      <4>. QED  BY <1>1, <1>2, <2>1, <2>2, <3>2, <4>1, SMTT(30) DEF BestOf, Matches
    <3>. QED  BY <3>1, <3>2
  <2>. QED  BY <1>1, <2>1, <2>3 DEF ScanInvariant
<1>. QED  BY <1>3, <1>4

(* The loop is at its beginning.                                           *)
LEMMA ScanStarts ==
  ASSUME Len(rtable) \in Nat, entry = 1, lpmentry = NULL, lpmmask = 0
  PROVE  ScanInvariant
<1>1. 1 .. entry - 1 = {} /\ entry \in 1 .. Len(rtable) + 1
  OBVIOUS
<1>. QED  BY <1>1 DEF ScanInvariant, BestOf

(* sr_findLPMentry() returns the longest match, the first of several, for  *)
(* the entries that are not default routes, whatever the table.            *)
THEOREM LongestMatchFound == Spec => []LongestMatch
<1>. DEFINE Inv == rtable \in Seq(Entry) /\ ScanInvariant
<1>1. ASSUME rtable \in Seq(Entry) PROVE MasksAreNat
  <2>1. Len(rtable) \in Nat /\ \A i \in 1 .. Len(rtable) : rtable[i] \in Entry
    BY <1>1, ElementOfSeq, LenProperties
  <2>. QED  BY <2>1, RoutingTableAssumption DEF MasksAreNat, Entry
<1>2. Init => Inv
  <2>1. SUFFICES ASSUME Init PROVE Inv
    OBVIOUS
  <2>2. PICK n \in 0 .. MaxEntries : rtable \in [1 .. n -> Entry]
    BY <2>1 DEF Init
  <2>3. rtable \in Seq(Entry) /\ Len(rtable) \in Nat
    BY <2>2, RoutingTableAssumption
  <2>. QED  BY <2>1, <2>3, ScanStarts DEF Init
<1>3. Inv /\ [Scan]_vars => Inv'
  <2>1. SUFFICES ASSUME Inv, [Scan]_vars PROVE Inv'
    OBVIOUS
  <2>2. CASE Scan
    BY <1>1, <2>1, <2>2, ScanTurn DEF Scan
  <2>3. CASE UNCHANGED vars
    BY <2>1, <2>3 DEF vars, ScanInvariant, BestOf, Matches
  <2>. QED  BY <2>1, <2>2, <2>3
<1>4. Inv => LongestMatch
  BY LenProperties DEF ScanInvariant, LongestMatch, Done
<1>. QED  BY <1>2, <1>3, <1>4, PTL DEF Spec

-----------------------------------------------------------------------------
(* Messages, and what a step leaves alone. *)

(* What a message of each type holds.                                      *)
LEMMA MessageType ==
  ASSUME NEW msg \in Messages
  PROVE  /\ msg.type = "AUTH_STATUS" => msg.ok \in BOOLEAN
         /\ msg.type = "RTABLE" => msg.lines \in Files
         /\ msg.type = "HWINFO" => msg.names \in Topologies
         /\ msg.type = "PACKET" => msg.packet \in Packets
BY DEF Messages, Message

(* The head of a sequence is taken.                                        *)
LEMMA TailOf ==
  ASSUME NEW S, NEW s \in Seq(S), s # <<>>, NEW t, t = Tail(s)
  PROVE  /\ t \in Seq(S) /\ Len(s) \in Nat /\ Len(t) \in Nat /\ Len(t) = Len(s) - 1
         /\ Head(s) = s[1] /\ s[1] \in S /\ 1 \in DOMAIN s
         /\ DOMAIN s = 1 .. Len(s) /\ DOMAIN t = 1 .. Len(t)
         /\ \A k \in 1 .. Len(t) : k + 1 \in 1 .. Len(s) /\ t[k] = s[k + 1]
<1>1. /\ t \in Seq(S) /\ Len(s) \in Nat /\ Len(t) \in Nat /\ Len(t) = Len(s) - 1
      /\ Head(s) = s[1] /\ s[1] \in S
      /\ DOMAIN s = 1 .. Len(s) /\ DOMAIN t = 1 .. Len(t)
      /\ \A k \in 1 .. Len(t) : t[k] = s[k + 1]
  BY HeadTailProperties, LenProperties
<1>. QED  BY <1>1

(* Something is put behind a sequence.                                     *)
LEMMA AppendOf ==
  ASSUME NEW S, NEW s \in Seq(S), NEW x \in S, NEW t, t = Append(s, x)
  PROVE  /\ t \in Seq(S) /\ Len(s) \in Nat /\ Len(t) = Len(s) + 1
         /\ DOMAIN s = 1 .. Len(s) /\ DOMAIN t = 1 .. Len(s) + 1
         /\ t[Len(s) + 1] = x
         /\ \A k \in 1 .. Len(s) : t[k] = s[k]
         /\ \A k \in 1 .. Len(s) + 1 : k \in 1 .. Len(s) \/ k = Len(s) + 1
<1>1. t \in Seq(S) /\ Len(s) \in Nat /\ Len(t) = Len(s) + 1
  BY AppendProperties, LenProperties
<1>2. t[Len(s) + 1] = x /\ \A k \in 1 .. Len(s) : t[k] = s[k]
  BY AppendProperties, LenProperties
<1>3. DOMAIN s = 1 .. Len(s) /\ DOMAIN t = 1 .. Len(s) + 1
  BY <1>1, LenProperties
<1>. QED  BY <1>1, <1>2, <1>3

(* Going on elsewhere in the loop leaves the packet as it is.              *)
LEMMA GotoProperty ==
  ASSUME main \in MainRecord, NEW pc \in (Starting \cup Looping \cup Over) \ {"lookup"}, Goto(pc)
  PROVE  main' \in MainRecord /\ main'.pc = pc
BY DEF Goto, MainRecord

(* Nothing is looked up.                                                   *)
LEMMA ScanFrame == ScanInvariant /\ UNCHANGED vars => ScanInvariant'
BY DEF ScanInvariant, BestOf, Matches, vars

(* The routes have natural numbers for masks.                              *)
LEMMA RoutesHaveMasks == VariablesOK => MasksAreNat
<1>1. SUFFICES ASSUME VariablesOK PROVE MasksAreNat
  OBVIOUS
<1>2. Len(rtable) \in Nat /\ \A i \in 1 .. Len(rtable) : rtable[i] \in Route
  BY <1>1, ElementOfSeq, LenProperties DEF VariablesOK
<1>. QED  BY <1>2, RoutingTableAssumption DEF MasksAreNat, Route

(* Nothing is sent.                                                        *)
LEMMA SentFrame ==
  ASSUME SentOK, UNCHANGED <<file, sent>>, main'.pc \in Starting => main.pc \in Starting
  PROVE  SentOK'
BY DEF SentOK, LeavesByItsRoute, RoutesTo

(* Routes and interfaces stay.                                             *)
LEMMA AddressesFrame ==
  ASSUME AddressesOK, UNCHANGED <<rtable, if_list>>, main.pc \notin Over,
         main'.pc \in Starting => main.pc \in Starting
  PROVE  AddressesOK'
BY DEF AddressesOK, Known

(* The table and the file stay.                                            *)
LEMMA TableFrame ==
  ASSUME TableOK, UNCHANGED <<vars, args, file>>,
         main'.pc \in Starting => main.pc \in Starting,
         main'.pc \in Looping => main.pc \in Looping
  PROVE  TableOK'
BY DEF TableOK, TableOf, vars

(* What the server announced stays, and its messages but for the first of  *)
(* them, when it was read and did not announce interfaces.                 *)
LEMMA InboxFrame ==
  ASSUME VariablesOK, InterfacesOK, main.pc \notin Over, UNCHANGED if_list,
         server'.topology = server.topology, server'.early = server.early,
         server'.pc = "running" => server.pc = "running",
         inbox' = inbox \/ (inbox # <<>> /\ inbox' = Tail(inbox)
                            /\ (Head(inbox).type # "HWINFO" \/ main'.pc \in Over)),
         main'.pc = "aborted" => server.early,
         main'.pc = "lookup" => server.early \/ if_list # <<>>
  PROVE  InterfacesOK'
<1>1. CASE inbox' = inbox
  BY <1>1 DEF InterfacesOK, Coming, Known
<1>2. CASE inbox # <<>> /\ inbox' = Tail(inbox)
           /\ (Head(inbox).type # "HWINFO" \/ main'.pc \in Over)
  <2>1. inbox \in Seq(Messages)
    BY DEF VariablesOK
  <2>2. /\ Len(inbox) \in Nat /\ Len(inbox') \in Nat /\ Len(inbox') = Len(inbox) - 1
        /\ Head(inbox) = inbox[1]
        /\ DOMAIN inbox = 1 .. Len(inbox) /\ DOMAIN inbox' = 1 .. Len(inbox')
        /\ \A k \in 1 .. Len(inbox') : k + 1 \in 1 .. Len(inbox) /\ inbox'[k] = inbox[k + 1]
    BY <1>2, <2>1, TailOf
  <2>3. ASSUME NEW n \in 0 .. Len(inbox'), Coming(n + 1), main'.pc \notin Over
        PROVE  Coming(n)'
    <3>1. CASE \A name \in Range(server.topology) : Known(if_list, name)
      BY <3>1 DEF Coming, Known
    <3>2. CASE \E j \in 1 .. n + 1 : inbox[j].type = "HWINFO"
      <4>1. PICK j \in 1 .. n + 1 : inbox[j].type = "HWINFO"
        BY <3>2
      <4>2. j # 1
        BY <1>2, <2>2, <2>3, <4>1
      <4>3. j - 1 \in 1 .. n /\ j - 1 \in 1 .. Len(inbox') /\ (j - 1) + 1 = j
        BY <2>2, <4>2
      <4>4. inbox'[j - 1].type = "HWINFO"
        BY <2>2, <4>1, <4>3
      <4>. QED  BY <4>3, <4>4 DEF Coming
    <3>. QED  BY <2>3, <3>1, <3>2 DEF Coming
  <2>4. \A k \in DOMAIN inbox' :
          /\ inbox'[k].type = "HWINFO" => inbox'[k].names = server.topology
          /\ inbox'[k].type = "PACKET" => inbox'[k].packet.iface \in Range(server.topology)
    BY <2>2 DEF InterfacesOK
  <2>5. ASSUME main'.pc \notin Over, ~ server.early
        PROVE  /\ server'.pc = "running" => Coming(Len(inbox))'
               /\ \A k \in DOMAIN inbox' : inbox'[k].type = "PACKET" => Coming(k - 1)'
    <3>1. ASSUME server'.pc = "running" PROVE Coming(Len(inbox))'
      <4>. PICK n : n = Len(inbox')
        OBVIOUS
      <4>1. Coming(n + 1)
        BY <2>2, <2>5, <3>1 DEF InterfacesOK
      <4>2. Coming(n)'
        BY <2>2, <2>3, <2>5, <4>1
      <4>. QED  BY <4>2 DEF Coming
    <3>2. ASSUME NEW k \in DOMAIN inbox', inbox'[k].type = "PACKET" PROVE Coming(k - 1)'
      <4>1. k + 1 \in DOMAIN inbox /\ inbox[k + 1].type = "PACKET" /\ (k + 1) - 1 = (k - 1) + 1
            /\ k - 1 \in 0 .. Len(inbox')
        BY <2>2, <3>2
      <4>2. Coming((k - 1) + 1)
        BY <2>5, <4>1 DEF InterfacesOK
      <4>. QED  BY <2>3, <2>5, <4>1, <4>2
    <3>. QED  BY <3>1, <3>2
  <2>. QED  BY <2>4, <2>5 DEF InterfacesOK
<1>. QED  BY <1>1, <1>2

(* The routing table that the server sent, and the messages before it.     *)
LEMMA ServerTableFrame ==
  ASSUME VariablesOK, ServerTableOK, UNCHANGED args,
         inbox' = inbox \/ (inbox # <<>> /\ inbox' = Tail(inbox)),
         server'.table = server.table, Tabled => Tabled',
         main'.pc \notin {"load", "connect"}, main'.pc = "RTABLE" => args.template,
         args.template /\ main'.pc \in {"reload"} \cup Looping =>
           Tabled' /\ (args.server_table => file' = server.table)
  PROVE  ServerTableOK'
<1>1. \A k \in DOMAIN inbox' : inbox'[k].type = "RTABLE" =>
        Tabled' /\ inbox'[k].lines = server.table
  <2>1. CASE inbox' = inbox
    BY <2>1 DEF ServerTableOK
  <2>2. CASE inbox # <<>> /\ inbox' = Tail(inbox)
    <3>1. inbox \in Seq(Messages)
      BY DEF VariablesOK
    <3>2. /\ DOMAIN inbox = 1 .. Len(inbox) /\ DOMAIN inbox' = 1 .. Len(inbox')
          /\ \A k \in 1 .. Len(inbox') : k + 1 \in 1 .. Len(inbox) /\ inbox'[k] = inbox[k + 1]
      BY <2>2, <3>1, TailOf
    <3>. QED  BY <3>2 DEF ServerTableOK
  <2>. QED  BY <2>1, <2>2
<1>. QED  BY <1>1 DEF ServerTableOK

(* A message was read.                                                     *)
LEMMA InboxType ==
  ASSUME VariablesOK,
         inbox' = inbox \/ (inbox # <<>> /\ inbox' = Tail(inbox))
  PROVE  inbox' \in Seq(Messages) /\ Len(inbox') <= MaxUnread
<1>1. inbox \in Seq(Messages) /\ Len(inbox) \in Nat /\ Len(inbox) <= MaxUnread /\ MaxUnread \in Nat
  BY LenProperties, VnsSessionAssumption DEF VariablesOK
<1>2. CASE inbox # <<>> /\ inbox' = Tail(inbox)
  <2>1. inbox' \in Seq(Messages) /\ Len(inbox') = Len(inbox) - 1
    BY <1>1, <1>2, TailOf
  <2>. QED  BY <1>1, <2>1
<1>. QED  BY <1>1, <1>2

(* The message that is read next.                                          *)
LEMMA HeadIsMessage ==
  ASSUME VariablesOK, inbox # <<>>
  PROVE  Head(inbox) \in Messages /\ Head(inbox) = inbox[1] /\ 1 \in DOMAIN inbox
<1>1. inbox \in Seq(Messages)
  BY DEF VariablesOK
<1>. QED  BY <1>1, TailOf

-----------------------------------------------------------------------------
(* The program, step by step. *)

(* A step after which the program only ends: no table and no packet        *)
(* matters any more.                                                       *)
LEMMA EndStep ==
  ASSUME SessionInv, main.pc \notin Over, main' \in MainRecord, main'.pc \in {"exited", "spins"},
         UNCHANGED <<args, file, if_list, sent, server>>,
         rtable' \in Seq(Route), ScanInvariant',
         inbox' = inbox \/ (inbox # <<>> /\ inbox' = Tail(inbox))
  PROVE  SessionInv'
<1>. USE DEF SessionInv
<1>1. main'.pc \in Over /\ main'.pc \notin Starting /\ main'.pc \notin Looping
      /\ main'.pc \notin {"load", "connect", "RTABLE", "reload", "lookup", "aborted"}
  BY DEF Over, Starting, Looping, Expecting
<1>2. inbox' \in Seq(Messages) /\ Len(inbox') <= MaxUnread
  BY InboxType
<1>3. VariablesOK'
  BY <1>2 DEF VariablesOK
<1>4. TableOK'
  BY <1>1 DEF TableOK
<1>5. ServerTableOK'
  <2>1. server'.table = server.table /\ (Tabled => Tabled')
    BY DEF Tabled
  <2>. QED  BY <1>1, <2>1, ServerTableFrame
<1>6. InterfacesOK'
  BY <1>1, InboxFrame
<1>7. AddressesOK'
  BY <1>1 DEF AddressesOK
<1>8. SentOK'
  BY <1>1, SentFrame
<1>. QED  BY <1>3, <1>4, <1>5, <1>6, <1>7, <1>8

(* A read that fails or returns nothing keeps the invariant.               *)
LEMMA ReadFailsStep == SessionInv /\ (ReadFails \/ ReadSpins) => SessionInv'
<1>1. SUFFICES ASSUME SessionInv, ReadFails \/ ReadSpins PROVE SessionInv'
  OBVIOUS
<1>2. /\ main.pc \notin Over /\ (Goto("exited") \/ Goto("spins"))
      /\ UNCHANGED <<vars, args, file, if_list, inbox, server, sent>>
  BY <1>1 DEF ReadFails, ReadSpins, Reading, Expecting, Over
<1>3. main' \in MainRecord /\ main'.pc \in {"exited", "spins"}
  BY <1>1, <1>2, GotoProperty DEF SessionInv, VariablesOK, Over
<1>4. rtable' \in Seq(Route) /\ ScanInvariant'
  BY <1>1, <1>2, ScanFrame DEF SessionInv, VariablesOK, vars
<1>. QED  BY <1>1, <1>2, <1>3, <1>4, EndStep

(* A message that ends the program: an unexpected one, or a CLOSE.         *)
LEMMA ReadUnexpectedStep == SessionInv /\ (ReadUnexpected \/ ReadClose) => SessionInv'
<1>1. SUFFICES ASSUME SessionInv, ReadUnexpected \/ ReadClose PROVE SessionInv'
  OBVIOUS
<1>2. /\ main.pc \notin Over /\ Goto("exited") /\ inbox # <<>> /\ inbox' = Tail(inbox)
      /\ UNCHANGED <<vars, args, file, if_list, server, sent>>
  BY <1>1 DEF ReadUnexpected, ReadClose, Reads, Expecting, Over
<1>3. main' \in MainRecord /\ main'.pc = "exited"
  BY <1>1, <1>2, GotoProperty DEF SessionInv, VariablesOK, Over
<1>4. rtable' \in Seq(Route) /\ ScanInvariant'
  BY <1>1, <1>2, ScanFrame DEF SessionInv, VariablesOK, vars
<1>. QED  BY <1>1, <1>2, <1>3, <1>4, EndStep

(* A step on the way to the main loop that only reads and answers.         *)
LEMMA AnswerStep ==
  ASSUME SessionInv, main.pc \in Starting, main' \in MainRecord,
         main'.pc \in Starting \ {"load", "connect"},
         UNCHANGED <<vars, args, if_list, sent>>,
         server' \in ServerRecord, Tabled => Tabled',
         server'.table = server.table, server'.topology = server.topology,
         server'.early = server.early, server'.pc = "running" => server.pc = "running",
         inbox' = inbox \/ (inbox # <<>> /\ inbox' = Tail(inbox)
                            /\ Head(inbox).type # "HWINFO"),
         file' \in Files, file' = file \/ args.template,
         main'.pc = "RTABLE" => args.template,
         args.template /\ main'.pc = "reload" =>
           Tabled' /\ (args.server_table => file' = server.table)
  PROVE  SessionInv'
<1>. USE DEF SessionInv
<1>1. main.pc \notin Over /\ main'.pc \notin Over /\ main'.pc \notin Looping
      /\ main'.pc \notin {"load", "connect", "lookup", "aborted"}
  BY DEF Over, Starting, Looping, Expecting
<1>2. inbox' \in Seq(Messages) /\ Len(inbox') <= MaxUnread
  BY InboxType
<1>3. VariablesOK'
  BY <1>2 DEF VariablesOK, vars
<1>4. ScanInvariant'
  BY ScanFrame
<1>5. TableOK'
  BY <1>1 DEF TableOK, vars
<1>6. ServerTableOK'
  BY <1>1, ServerTableFrame
<1>7. InterfacesOK'
  BY <1>1, InboxFrame
<1>8. AddressesOK'
  BY <1>1, AddressesFrame DEF vars
<1>9. SentOK'
  BY DEF SentOK, LeavesByItsRoute, NoFrame
<1>. QED  BY <1>3, <1>4, <1>5, <1>6, <1>7, <1>8, <1>9

(* So do the messages of the handshake, ...                                *)
LEMMA ReadAuthRequestStep == SessionInv /\ ReadAuthRequest => SessionInv'
<1>1. SUFFICES ASSUME SessionInv, ReadAuthRequest PROVE SessionInv'
  OBVIOUS
<1>2. /\ main.pc = "AUTH_REQUEST" /\ inbox # <<>> /\ inbox' = Tail(inbox)
      /\ Head(inbox).type = "AUTH_REQUEST"
      /\ UNCHANGED <<vars, args, file, if_list, sent>>
  BY <1>1 DEF ReadAuthRequest, Reads
<1>3. main.pc \in Starting /\ main.pc \notin Over /\ main \in MainRecord /\ file \in Files
      /\ server \in ServerRecord
  BY <1>1, <1>2 DEF Starting, Over, Expecting, SessionInv, VariablesOK
<1>4. CASE Goto("exited") /\ UNCHANGED server
  <2>1. main' \in MainRecord /\ main'.pc = "exited"
    BY <1>3, <1>4, GotoProperty DEF Over
  <2>2. rtable' \in Seq(Route) /\ ScanInvariant'
    BY <1>1, <1>2, ScanFrame DEF SessionInv, VariablesOK, vars
  <2>. QED  BY <1>1, <1>2, <1>3, <1>4, <2>1, <2>2, EndStep
<1>5. CASE /\ Goto("AUTH_STATUS")
           /\ server' = [server EXCEPT !.pc = IF @ = "challenged" THEN "answered" ELSE @]
  <2>1. main' \in MainRecord /\ main'.pc = "AUTH_STATUS"
    BY <1>3, <1>5, GotoProperty DEF Starting, Expecting
  <2>2. main'.pc \in Starting \ {"load", "connect"} /\ main'.pc \notin {"reload", "RTABLE"}
    BY <2>1 DEF Starting, Expecting
  <2>3. /\ server' \in ServerRecord /\ server'.table = server.table
        /\ server'.topology = server.topology /\ server'.early = server.early
        /\ (server'.pc = "running" => server.pc = "running") /\ (Tabled => Tabled')
    BY <1>3, <1>5 DEF ServerRecord, Tabled
  <2>. QED  BY <1>1, <1>2, <1>3, <2>1, <2>2, <2>3, AnswerStep
<1>. QED  BY <1>1, <1>4, <1>5 DEF ReadAuthRequest

(* ... its outcome, ...                                                    *)
LEMMA ReadAuthStatusStep == SessionInv /\ ReadAuthStatus => SessionInv'
<1>1. SUFFICES ASSUME SessionInv, ReadAuthStatus PROVE SessionInv'
  OBVIOUS
<1>2. /\ main.pc = "AUTH_STATUS" /\ inbox # <<>> /\ inbox' = Tail(inbox)
      /\ Head(inbox).type = "AUTH_STATUS"
      /\ UNCHANGED <<vars, args, file, if_list, server, sent>>
      /\ Goto("open") \/ Goto("exited")
  BY <1>1 DEF ReadAuthStatus, Reads
<1>3. main.pc \in Starting /\ main.pc \notin Over /\ main \in MainRecord /\ file \in Files
      /\ server \in ServerRecord
  BY <1>1, <1>2 DEF Starting, Over, Expecting, SessionInv, VariablesOK
<1>4. CASE Goto("exited")
  <2>1. main' \in MainRecord /\ main'.pc = "exited"
    BY <1>3, <1>4, GotoProperty DEF Over
  <2>2. rtable' \in Seq(Route) /\ ScanInvariant'
    BY <1>1, <1>2, ScanFrame DEF SessionInv, VariablesOK, vars
  <2>. QED  BY <1>1, <1>2, <1>3, <1>4, <2>1, <2>2, EndStep
<1>5. CASE Goto("open")
  <2>1. main' \in MainRecord /\ main'.pc = "open"
    BY <1>3, <1>5, GotoProperty DEF Starting, Expecting
  <2>2. main'.pc \in Starting \ {"load", "connect"} /\ main'.pc \notin {"reload", "RTABLE"}
    BY <2>1 DEF Starting, Expecting
  <2>3. Tabled => Tabled'
    BY <1>2 DEF Tabled
  <2>. QED  BY <1>1, <1>2, <1>3, <2>1, <2>2, <2>3, AnswerStep
<1>. QED  BY <1>2, <1>4, <1>5

(* ... and the request for a topology.                                     *)
LEMMA OpenStep == SessionInv /\ Open => SessionInv'
<1>1. SUFFICES ASSUME SessionInv, Open PROVE SessionInv'
  OBVIOUS
<1>2. /\ main.pc = "open" /\ UNCHANGED <<vars, args, file, if_list, inbox, sent>>
  BY <1>1 DEF Open
<1>3. main.pc \in Starting /\ main.pc \notin Over /\ main \in MainRecord /\ file \in Files
      /\ server \in ServerRecord
  BY <1>1, <1>2 DEF Starting, Over, Expecting, SessionInv, VariablesOK
<1>4. CASE Goto("exited") /\ UNCHANGED server
  <2>1. main' \in MainRecord /\ main'.pc = "exited"
    BY <1>3, <1>4, GotoProperty DEF Over
  <2>2. rtable' \in Seq(Route) /\ ScanInvariant'
    BY <1>1, <1>2, ScanFrame DEF SessionInv, VariablesOK, vars
  <2>. QED  BY <1>1, <1>2, <1>3, <1>4, <2>1, <2>2, EndStep
<1>5. CASE /\ Goto(IF args.template THEN "RTABLE" ELSE "reload")
           /\ server' = [server EXCEPT !.pc = IF @ = "authenticated" THEN "opened" ELSE @]
  <2>1. main' \in MainRecord /\ main'.pc = IF args.template THEN "RTABLE" ELSE "reload"
    BY <1>3, <1>5, GotoProperty DEF Starting, Expecting
  <2>2. main'.pc \in Starting \ {"load", "connect"} /\ (args.template => main'.pc # "reload")
        /\ (main'.pc = "RTABLE" => args.template)
    BY <2>1 DEF Starting, Expecting
  <2>3. /\ server' \in ServerRecord /\ server'.table = server.table
        /\ server'.topology = server.topology /\ server'.early = server.early
        /\ (server'.pc = "running" => server.pc = "running") /\ (Tabled => Tabled')
    BY <1>3, <1>5 DEF ServerRecord, Tabled
  <2>. QED  BY <1>1, <1>2, <1>3, <2>1, <2>2, <2>3, AnswerStep
<1>. QED  BY <1>1, <1>4, <1>5 DEF Open

(* The table that is kept is the one the server sent.                      *)
LEMMA ReadRtableStep == SessionInv /\ ReadRtable => SessionInv'
<1>1. SUFFICES ASSUME SessionInv, ReadRtable PROVE SessionInv'
  OBVIOUS
<1>2. /\ main.pc = "RTABLE" /\ inbox # <<>> /\ inbox' = Tail(inbox)
      /\ Head(inbox).type = "RTABLE"
      /\ UNCHANGED <<vars, args, if_list, server, sent>>
  BY <1>1 DEF ReadRtable, Reads
<1>3. main.pc \in Starting /\ main.pc \notin Over /\ main \in MainRecord /\ file \in Files
      /\ server \in ServerRecord
  BY <1>1, <1>2 DEF Starting, Over, Expecting, SessionInv, VariablesOK
<1>4. CASE Goto("exited") /\ UNCHANGED file
  <2>1. main' \in MainRecord /\ main'.pc = "exited"
    BY <1>3, <1>4, GotoProperty DEF Over
  <2>2. rtable' \in Seq(Route) /\ ScanInvariant'
    BY <1>1, <1>2, ScanFrame DEF SessionInv, VariablesOK, vars
  <2>. QED  BY <1>1, <1>2, <1>3, <1>4, <2>1, <2>2, EndStep
<1>5. CASE Goto("reload") /\ file' = IF args.server_table THEN Head(inbox).lines ELSE file
  <2>1. main' \in MainRecord /\ main'.pc = "reload"
    BY <1>3, <1>5, GotoProperty DEF Starting, Expecting
  <2>2. main'.pc \in Starting \ {"load", "connect"} /\ main'.pc # "RTABLE"
    BY <2>1 DEF Starting, Expecting
  <2>3. Head(inbox) \in Messages /\ Head(inbox) = inbox[1] /\ 1 \in DOMAIN inbox
    BY <1>1, <1>2, HeadIsMessage DEF SessionInv
  <2>4. Tabled /\ Head(inbox).lines = server.table /\ Head(inbox).lines \in Files
    BY <1>1, <1>2, <2>3, MessageType DEF SessionInv, ServerTableOK
  <2>5. Tabled' /\ file' \in Files /\ (args.server_table => file' = server.table)
    BY <1>2, <1>3, <1>5, <2>4 DEF Tabled
  <2>6. file' = file \/ args.template
    BY <1>1, <1>2 DEF SessionInv, ServerTableOK
  <2>. QED  BY <1>1, <1>2, <1>3, <2>1, <2>2, <2>5, <2>6, AnswerStep
<1>. QED  BY <1>1, <1>4, <1>5 DEF ReadRtable

(* Before the first look-up the table may change.                          *)
LEMMA NothingLookedUp ==
  ASSUME TableOK, main.pc \in Starting, UNCHANGED lookup, rtable' \in Seq(Route)
  PROVE  ScanInvariant' /\ entry' = 1 /\ lpmentry' = NULL /\ lpmmask' = 0
<1>1. entry' = 1 /\ lpmentry' = NULL /\ lpmmask' = 0
  BY DEF TableOK, lookup
<1>2. Len(rtable') \in Nat /\ 1 .. 1 - 1 = {}
  BY LenProperties
<1>. QED  BY <1>1, <1>2 DEF ScanInvariant, BestOf

(* The routing table of the command line is loaded.                        *)
LEMMA LoadFirstStep == SessionInv /\ LoadFirst => SessionInv'
<1>1. SUFFICES ASSUME SessionInv, LoadFirst PROVE SessionInv'
  OBVIOUS
<1>. PICK load : load = Load(rtable, file)
  OBVIOUS
<1>2. /\ main.pc = "load" /\ UNCHANGED <<lookup, args, file, if_list, inbox, server, sent>>
      /\ \/ args.template /\ Goto("connect") /\ UNCHANGED rtable
         \/ ~ args.template /\ rtable' = load.table /\ (Goto("connect") \/ Goto("exited"))
  BY <1>1 DEF LoadFirst
<1>3. main.pc \in Starting /\ main.pc \notin Over /\ main \in MainRecord /\ file \in Files
      /\ rtable \in Seq(Route) /\ TableOK
  BY <1>1, <1>2 DEF Starting, Over, Expecting, SessionInv, VariablesOK
<1>4. rtable' \in Seq(Route) /\ (args.template \/ file = <<>> => rtable' = <<>>)
  <2>1. args.template \/ file = <<>> => rtable = <<>>
    BY <1>3 DEF TableOK
  <2>2. load.table \in Seq(Route) /\ (file = <<>> => load.table = rtable)
    BY <1>3, LoadProperty
  <2>. QED  BY <1>2, <1>3, <2>1, <2>2
<1>5. ScanInvariant' /\ entry' = 1 /\ lpmentry' = NULL /\ lpmmask' = 0
  BY <1>2, <1>3, <1>4, NothingLookedUp
<1>6. CASE Goto("exited")
  <2>1. main' \in MainRecord /\ main'.pc = "exited"
    BY <1>3, <1>6, GotoProperty DEF Over
  <2>. QED  BY <1>1, <1>2, <1>3, <1>4, <1>5, <2>1, EndStep
<1>7. CASE Goto("connect")
  <2>1. main' \in MainRecord /\ main'.pc = "connect"
    BY <1>3, <1>7, GotoProperty DEF Starting
  <2>2. main'.pc \in Starting /\ main'.pc \notin Over /\ main'.pc \notin Looping
    BY <2>1 DEF Starting, Over, Looping, Expecting
  <2>3. VariablesOK'
    BY <1>1, <1>2, <1>4, <2>1 DEF SessionInv, VariablesOK
  <2>4. TableOK'
    BY <1>2, <1>4, <1>5, <2>2 DEF TableOK
  <2>5. ServerTableOK'
    BY <1>1, <1>2, <2>1, <2>2 DEF SessionInv, ServerTableOK, Tabled
  <2>6. InterfacesOK'
    BY <1>1, <1>2, <1>3, <2>1, InboxFrame DEF SessionInv
  <2>7. AddressesOK' /\ SentOK'
    BY <1>1, <1>2, <1>3, <2>2, SentFrame DEF SessionInv, AddressesOK
  <2>. QED  BY <1>5, <2>3, <2>4, <2>5, <2>6, <2>7 DEF SessionInv
<1>. QED  BY <1>2, <1>6, <1>7

(* The connection to the server is made.                                   *)
LEMMA ConnectStep == SessionInv /\ Connect => SessionInv'
<1>1. SUFFICES ASSUME SessionInv, Connect PROVE SessionInv'
  OBVIOUS
<1>2. main.pc = "connect" /\ UNCHANGED <<vars, args, file, if_list, inbox, sent>>
  BY <1>1 DEF Connect
<1>3. main.pc \in Starting /\ main.pc \notin Over /\ main \in MainRecord /\ file \in Files
      /\ server \in ServerRecord /\ server.pc = "none"
  BY <1>1, <1>2 DEF Starting, Over, Expecting, SessionInv, VariablesOK, ServerTableOK
<1>4. CASE Goto("exited") /\ UNCHANGED server
  <2>1. main' \in MainRecord /\ main'.pc = "exited"
    BY <1>3, <1>4, GotoProperty DEF Over
  <2>2. rtable' \in Seq(Route) /\ ScanInvariant'
    BY <1>1, <1>2, ScanFrame DEF SessionInv, VariablesOK, vars
  <2>. QED  BY <1>1, <1>2, <1>3, <1>4, <2>1, <2>2, EndStep
<1>5. CASE Goto("AUTH_REQUEST") /\ server' = [server EXCEPT !.pc = "connected"]
  <2>1. main' \in MainRecord /\ main'.pc = "AUTH_REQUEST"
    BY <1>3, <1>5, GotoProperty DEF Starting, Expecting
  <2>2. main'.pc \in Starting \ {"load", "connect"} /\ main'.pc \notin {"reload", "RTABLE"}
    BY <2>1 DEF Starting, Expecting
  <2>3. /\ server' \in ServerRecord /\ server'.table = server.table
        /\ server'.topology = server.topology /\ server'.early = server.early
        /\ (server'.pc = "running" => server.pc = "running") /\ (Tabled => Tabled')
    BY <1>3, <1>5 DEF ServerRecord, Tabled
  <2>. QED  BY <1>1, <1>2, <1>3, <2>1, <2>2, <2>3, AnswerStep
<1>. QED  BY <1>1, <1>4, <1>5 DEF Connect

(* The table of the main loop is the file's.                               *)
LEMMA LoadAgainStep == SessionInv /\ LoadAgain => SessionInv'
<1>1. SUFFICES ASSUME SessionInv, LoadAgain PROVE SessionInv'
  OBVIOUS
<1>. PICK load : load = Load(rtable, file)
  OBVIOUS
<1>2. /\ main.pc = "reload" /\ UNCHANGED <<lookup, args, file, if_list, inbox, server, sent>>
      /\ rtable' = load.table
      /\ (load.ok /\ Goto("read")) \/ Goto("exited")
  BY <1>1 DEF LoadAgain
<1>3. main.pc \in Starting /\ main.pc \notin Over /\ main \in MainRecord /\ file \in Files
      /\ rtable \in Seq(Route) /\ TableOK
  BY <1>1, <1>2 DEF Starting, Over, Expecting, SessionInv, VariablesOK
<1>4. /\ load.table \in Seq(Route) /\ (file = <<>> => load.table = rtable)
      /\ file # <<>> /\ load.ok => TableOf(load.table, file)
  BY <1>3, LoadProperty
<1>5. rtable' \in Seq(Route)
  BY <1>2, <1>4
<1>6. ScanInvariant'
  BY <1>2, <1>3, <1>5, NothingLookedUp
<1>7. CASE Goto("exited")
  <2>1. main' \in MainRecord /\ main'.pc = "exited"
    BY <1>3, <1>7, GotoProperty DEF Over
  <2>. QED  BY <1>1, <1>2, <1>3, <1>5, <1>6, <2>1, EndStep
<1>8. CASE load.ok /\ Goto("read")
  <2>1. main' \in MainRecord /\ main'.pc = "read"
    BY <1>3, <1>8, GotoProperty DEF Looping
  <2>2. main'.pc \notin Starting /\ main'.pc \notin Over /\ main'.pc \in Looping
    BY <2>1 DEF Starting, Over, Looping, Expecting
  <2>3. VariablesOK'
    BY <1>1, <1>2, <1>5, <2>1 DEF SessionInv, VariablesOK
  <2>4. TableOK'
    <3>1. TableOf(rtable', file)
      <4>1. CASE file = <<>>
        <5>1. rtable' = <<>>
          BY <1>2, <1>3, <1>4, <4>1 DEF TableOK
        <5>2. DOMAIN file = {}
          BY <4>1
        <5>. QED  BY <4>1, <5>1, <5>2 DEF TableOf
      <4>2. CASE file # <<>>
        BY <1>2, <1>4, <1>8, <4>2
      <4>. QED  BY <4>1, <4>2
    <3>. QED  BY <1>2, <2>2, <3>1 DEF TableOK
  <2>5. ServerTableOK'
    BY <1>1, <1>2, <2>1, <2>2 DEF SessionInv, ServerTableOK, Tabled
  <2>6. InterfacesOK'
    BY <1>1, <1>2, <1>3, <2>1, InboxFrame DEF SessionInv
  <2>7. AddressesOK'
    BY <1>1, <1>2, <1>3, <2>2 DEF SessionInv, AddressesOK
  <2>8. SentOK'
    BY <1>1, <1>2, <2>2, SentFrame DEF SessionInv
  <2>. QED  BY <1>6, <2>3, <2>4, <2>5, <2>6, <2>7, <2>8 DEF SessionInv
<1>. QED  BY <1>2, <1>7, <1>8

-----------------------------------------------------------------------------
(* The main loop. *)

(* A step of the main loop keeps the table, the file and the interfaces.   *)
LEMMA LoopStep ==
  ASSUME SessionInv, main.pc \in Looping, main' \in MainRecord,
         main'.pc \in {"read", "lookup", "exited", "aborted"},
         UNCHANGED <<rtable, args, file, if_list, server>>, ScanInvariant', SentOK',
         inbox' = inbox \/ (inbox # <<>> /\ inbox' = Tail(inbox)
                            /\ Head(inbox).type # "HWINFO"),
         main'.pc \in {"lookup", "aborted"} /\ ~ server.early => if_list # <<>>,
         main'.pc = "aborted" => server.early
  PROVE  SessionInv'
<1>. USE DEF SessionInv
<1>1. /\ main.pc \notin Over /\ main'.pc \notin Starting
      /\ main'.pc \notin {"load", "connect", "RTABLE", "reload"}
      /\ (main'.pc \in Looping => main.pc \in Looping)
  BY DEF Over, Starting, Looping, Expecting
<1>2. inbox' \in Seq(Messages) /\ Len(inbox') <= MaxUnread
  BY InboxType
<1>3. VariablesOK'
  BY <1>2 DEF VariablesOK
<1>4. TableOK'
  BY <1>1 DEF TableOK, TableOf
<1>5. ServerTableOK'
  <2>1. Tabled => Tabled'
    BY DEF Tabled
  <2>2. args.template /\ main'.pc \in {"reload"} \cup Looping =>
          Tabled' /\ (args.server_table => file' = server.table)
    BY <1>1, <2>1 DEF ServerTableOK
  <2>. QED  BY <1>1, <2>1, <2>2, ServerTableFrame
<1>6. InterfacesOK'
  BY <1>1, InboxFrame
<1>7. AddressesOK'
  BY <1>1, AddressesFrame
<1>. QED  BY <1>3, <1>4, <1>5, <1>6, <1>7

(* Nothing is looked up or sent.                                           *)
LEMMA ReadBannerStep == SessionInv /\ ReadBanner => SessionInv'
<1>1. SUFFICES ASSUME SessionInv, ReadBanner PROVE SessionInv'
  OBVIOUS
<1>2. /\ main.pc = "read" /\ inbox # <<>> /\ inbox' = Tail(inbox)
      /\ Head(inbox).type = "BANNER"
      /\ UNCHANGED <<vars, args, file, main, if_list, server, sent>>
  BY <1>1 DEF ReadBanner, Reads
<1>3. ScanInvariant' /\ SentOK'
  BY <1>1, <1>2, ScanFrame, SentFrame DEF SessionInv
<1>4. main \in MainRecord /\ main.pc \in Looping
  BY <1>1, <1>2 DEF SessionInv, VariablesOK, Looping
<1>. QED  BY <1>1, <1>2, <1>3, <1>4, LoopStep DEF vars

(* One more entry of the table is compared with the destination.           *)
LEMMA ScanTableStep == SessionInv /\ ScanTable => SessionInv'
<1>1. SUFFICES ASSUME SessionInv, ScanTable PROVE SessionInv'
  OBVIOUS
<1>2. main.pc = "lookup" /\ Scan /\ UNCHANGED session /\ rtable' = rtable
  BY <1>1 DEF ScanTable, Scan
<1>3. ScanInvariant'
  BY <1>1, <1>2, RoutesHaveMasks, ScanTurn DEF SessionInv
<1>4. SentOK'
  BY <1>1, <1>2, SentFrame DEF SessionInv, session
<1>5. main \in MainRecord /\ main.pc \in Looping
  BY <1>1, <1>2 DEF SessionInv, VariablesOK, Looping
<1>6. ~ server.early => if_list # <<>>
  BY <1>1, <1>2 DEF SessionInv, InterfacesOK, Over
<1>. QED  BY <1>1, <1>2, <1>3, <1>4, <1>5, <1>6, LoopStep DEF session

(* An interface that there is has its own address.                         *)
LEMMA InterfaceFound ==
  ASSUME VariablesOK, AddressesOK, NEW name, Known(if_list, name)
  PROVE  GetInterface(if_list, name).addr = name
<1>. DEFINE T == {i \in DOMAIN if_list : if_list[i].name = name}
            First(i) == /\ if_list[i].name = name
                        /\ \A j \in 1 .. i - 1 : if_list[j].name # name
<1>1. Len(if_list) \in Nat /\ DOMAIN if_list = 1 .. Len(if_list)
  BY LenProperties DEF VariablesOK
<1>2. T \subseteq Nat /\ T # {}
  BY <1>1 DEF Known
<1>3. PICK i \in T : \A j \in T : i <= j
  BY <1>2, LeastOf
<1>4. First(i)
  <2>1. \A j \in 1 .. i - 1 : j \in DOMAIN if_list /\ ~ i <= j
    BY <1>1, <1>3
  <2>. QED  BY <1>3, <2>1
<1>. PICK k : k = CHOOSE i0 \in DOMAIN if_list : First(i0)
  OBVIOUS
<1>5. k \in DOMAIN if_list /\ First(k)
  BY <1>3, <1>4
<1>6. GetInterface(if_list, name) = if_list[k]
  BY DEF GetInterface
<1>. QED  BY <1>5, <1>6 DEF AddressesOK

(* What justifies a frame: a longest route of the file, or a question.     *)
Justified(name, dst) ==
  \/ \E r \in RoutesTo(dst) : r.interface = name /\ \A q \in RoutesTo(dst) : q.mask <= r.mask
  \/ \E p \in Packets : p.arp /\ p.iface = name /\ p.src = dst

(* The program is back at its loop, or at its end.                         *)
LEMMA BackToRead ==
  ASSUME VariablesOK, NEW pc \in {"read", "exited"},
         main' = [pc |-> pc, packet |-> NoPacket, back |-> FALSE]
  PROVE  main' \in MainRecord /\ main'.pc = pc
<1>1. pc \in Starting \cup Looping \cup Over
  BY DEF Looping, Over
<1>. QED  BY <1>1 DEF MainRecord

(* What is sent had its reason: a route or the interface it came by.       *)
LEMMA SendStep ==
  ASSUME VariablesOK, AddressesOK, SentOK, UNCHANGED file, main.pc \in Looping,
         NEW name, NEW dst, Known(if_list, name), Justified(name, dst), Send(name, dst)
  PROVE  main' \in MainRecord /\ main'.pc \in {"read", "exited"} /\ SentOK'
<1>1. PICK pc \in {"read", "exited"} : main' = [pc |-> pc, packet |-> NoPacket, back |-> FALSE]
  BY DEF Send
<1>2. main' \in MainRecord /\ main'.pc = pc
  BY <1>1, BackToRead
<1>3. main'.pc \notin Starting
  BY <1>2 DEF Starting, Expecting
<1>4. SUFFICES SentOK'
  BY <1>2
<1>5. CASE UNCHANGED sent
  BY <1>3, <1>5, SentFrame
<1>6. CASE sent' = [iface |-> name, dst |-> dst,
                    ether_shost |-> GetInterface(if_list, name).addr]
  <2>1. sent'.iface = name /\ sent'.dst = dst /\ sent'.ether_shost = name
    BY <1>6, InterfaceFound
  <2>2. RoutesTo(dst)' = RoutesTo(dst)
    BY DEF RoutesTo
  <2>3. CASE \E r \in RoutesTo(dst) : r.interface = name /\ \A q \in RoutesTo(dst) : q.mask <= r.mask
    BY <1>3, <2>1, <2>2, <2>3 DEF SentOK, LeavesByItsRoute, RoutesTo
  <2>4. CASE \E p \in Packets : p.arp /\ p.iface = name /\ p.src = dst
    BY <1>3, <2>1, <2>4 DEF SentOK, LeavesByItsRoute
  <2>. QED  BY <2>3, <2>4 DEF Justified
<1>. QED  BY <1>5, <1>6 DEF Send

(* A look-up begins.                                                       *)
LEMMA LookUpStep ==
  ASSUME VariablesOK, SentOK, main.pc \in Looping, NEW ip, NEW p \in Packets, NEW back \in BOOLEAN,
         LookUp(ip, p, back), UNCHANGED <<rtable, file, sent>>
  PROVE  main' \in MainRecord /\ main'.pc = "lookup" /\ ScanInvariant' /\ SentOK'
<1>1. main' \in MainRecord /\ main'.pc = "lookup"
  BY DEF LookUp, MainRecord, Looping
<1>2. ScanInvariant'
  <2>1. entry' = 1 /\ lpmentry' = NULL /\ lpmmask' = 0 /\ rtable' \in Seq(Route)
    BY DEF LookUp, VariablesOK
  <2>2. Len(rtable') \in Nat /\ 1 .. 1 - 1 = {}
    BY <2>1, LenProperties
  <2>. QED  BY <2>1, <2>2 DEF ScanInvariant, BestOf
<1>3. SentOK'
  BY <1>1, SentFrame DEF Starting, Expecting
<1>. QED  BY <1>1, <1>2, <1>3

(* A packet is dropped and the next message is read.                       *)
LEMMA DropStep ==
  ASSUME VariablesOK, SentOK, Drop, UNCHANGED file
  PROVE  main' \in MainRecord /\ main'.pc = "read" /\ SentOK'
<1>1. main' \in MainRecord /\ main'.pc = "read"
  BY BackToRead DEF Drop
<1>. QED  BY <1>1, SentFrame DEF Drop, Starting, Expecting

(* An interface of a packet is known, unless packets may come early.       *)
LEMMA InterfaceKnown ==
  ASSUME SessionInv, main.pc = "read", inbox # <<>>, Head(inbox).type = "PACKET", ~ server.early
  PROVE  Known(if_list, Head(inbox).packet.iface) /\ if_list # <<>>
<1>1. Head(inbox) = inbox[1] /\ 1 \in DOMAIN inbox
  BY HeadIsMessage DEF SessionInv
<1>2. main.pc \notin Over
  BY DEF Over
<1>3. Coming(1 - 1) /\ inbox[1].packet.iface \in Range(server.topology)
  BY <1>1, <1>2 DEF SessionInv, InterfacesOK
<1>4. 1 .. 1 - 1 = {}
  OBVIOUS
<1>5. Known(if_list, inbox[1].packet.iface)
  BY <1>3, <1>4 DEF Coming
<1>. QED  BY <1>1, <1>5 DEF Known

(* A packet is read, with the interface it came by.                        *)
LEMMA ReadPacketStep == SessionInv /\ ReadPacket => SessionInv'
<1>1. SUFFICES ASSUME SessionInv, ReadPacket PROVE SessionInv'
  OBVIOUS
<1>. PICK p : p = Head(inbox).packet
  OBVIOUS
<1>2. /\ main.pc = "read" /\ inbox # <<>> /\ inbox' = Tail(inbox)
      /\ Head(inbox).type = "PACKET"
      /\ UNCHANGED <<rtable, args, file, if_list, server>>
  BY <1>1 DEF ReadPacket, Reads
<1>3. /\ main \in MainRecord /\ main.pc \in Looping /\ VariablesOK /\ AddressesOK /\ SentOK
      /\ ScanInvariant
  BY <1>1, <1>2 DEF SessionInv, VariablesOK, Looping
<1>4. p \in Packets /\ (p.arp => p.long)
  BY <1>2, <1>3, HeadIsMessage, MessageType, VnsSessionAssumption
<1>5. ~ server.early => Known(if_list, p.iface) /\ if_list # <<>>
  BY <1>1, <1>2, InterfaceKnown
<1>6. CASE Goto("aborted") /\ UNCHANGED <<lookup, sent>> /\ ~ Known(if_list, p.iface)
  <2>1. main' \in MainRecord /\ main'.pc = "aborted"
    BY <1>3, <1>6, GotoProperty DEF Over
  <2>2. ScanInvariant'
    BY <1>2, <1>3, <1>6, ScanFrame DEF vars, lookup
  <2>3. SentOK'
    BY <1>2, <1>3, <1>6, <2>1, SentFrame DEF Starting, Expecting
  <2>. QED  BY <1>1, <1>2, <1>3, <1>5, <1>6, <2>1, <2>2, <2>3, LoopStep
<1>7. CASE Drop /\ UNCHANGED lookup
  <2>1. main' \in MainRecord /\ main'.pc = "read" /\ SentOK'
    BY <1>2, <1>3, <1>7, DropStep
  <2>2. ScanInvariant'
    BY <1>2, <1>3, <1>7, ScanFrame DEF vars, lookup
  <2>. QED  BY <1>1, <1>2, <1>3, <2>1, <2>2, LoopStep
<1>8. CASE Send(p.iface, p.src) /\ p.arp /\ Known(if_list, p.iface) /\ UNCHANGED lookup
  <2>1. Justified(p.iface, p.src)
    BY <1>4, <1>8 DEF Justified
  <2>2. main' \in MainRecord /\ main'.pc \in {"read", "exited"} /\ SentOK'
    BY <1>2, <1>3, <1>8, <2>1, SendStep
  <2>3. ScanInvariant'
    BY <1>2, <1>3, <1>8, ScanFrame DEF vars, lookup
  <2>. QED  BY <1>1, <1>2, <1>3, <2>2, <2>3, LoopStep
<1>9. CASE (LookUp(p.src, p, TRUE) \/ LookUp(p.dst, p, FALSE)) /\ UNCHANGED sent
  <2>1. main' \in MainRecord /\ main'.pc = "lookup" /\ ScanInvariant' /\ SentOK'
    BY <1>2, <1>3, <1>4, <1>9, LookUpStep
  <2>. QED  BY <1>1, <1>2, <1>3, <1>5, <2>1, LoopStep
<1>10. \/ Goto("aborted") /\ UNCHANGED <<lookup, sent>> /\ ~ Known(if_list, p.iface)
       \/ Drop /\ UNCHANGED lookup
       \/ Send(p.iface, p.src) /\ p.arp /\ Known(if_list, p.iface) /\ UNCHANGED lookup
       \/ (LookUp(p.src, p, TRUE) \/ LookUp(p.dst, p, FALSE)) /\ UNCHANGED sent
  <2>1. IF p.long /\ ~ Known(if_list, p.iface)
        THEN Goto("aborted") /\ UNCHANGED <<lookup, sent>>
        ELSE IF p.arp
        THEN /\ IF p.dst = GetInterface(if_list, p.iface).ip THEN Send(p.iface, p.src) ELSE Drop
             /\ UNCHANGED lookup
        ELSE IF Own(p.dst)
        THEN IF p.long THEN LookUp(p.src, p, TRUE) /\ UNCHANGED sent
             ELSE Drop /\ UNCHANGED lookup
        ELSE LookUp(p.dst, p, FALSE) /\ UNCHANGED sent
    BY <1>1, Zenon DEF ReadPacket
  <2>. QED  BY <1>4, <2>1, Zenon
<1>. QED  BY <1>6, <1>7, <1>8, <1>9, <1>10

(* A route that was found is a longest one the file has.                   *)
LEMMA RouteFound ==
  ASSUME SessionInv, main.pc = "lookup", Done, lpmentry # NULL
  PROVE  Justified(rtable[lpmentry].interface, ip_dst) /\ lpmentry \in DOMAIN rtable
<1>1. /\ rtable \in Seq(Route) /\ file \in Seq(Route \cup {BLANK, BAD}) /\ Len(rtable) \in Nat
      /\ DOMAIN rtable = 1 .. Len(rtable) /\ DOMAIN file = 1 .. Len(file)
  BY LenProperties, VnsSessionAssumption DEF SessionInv, VariablesOK
<1>2. entry - 1 = Len(rtable) /\ BestOf(Len(rtable)) /\ lpmmask > 0
      /\ lpmmask = rtable[lpmentry].mask
  BY <1>1 DEF SessionInv, ScanInvariant, Done
<1>3. TableOf(rtable, file)
  BY DEF SessionInv, TableOK, Looping
<1>. PICK r : r = rtable[lpmentry]
  OBVIOUS
<1>4. /\ lpmentry \in 1 .. Len(rtable) /\ r \in Route /\ Matches(r, ip_dst) /\ r.mask # 0
      /\ \A i \in 1 .. Len(rtable) : Matches(rtable[i], ip_dst) => rtable[i].mask <= r.mask
  <2>1. lpmentry \in 1 .. Len(rtable) /\ Matches(r, ip_dst)
        /\ \A i \in 1 .. Len(rtable) : Matches(rtable[i], ip_dst) => rtable[i].mask <= r.mask
    BY <1>2 DEF BestOf
  <2>2. r \in Route
    BY <1>1, <2>1, ElementOfSeq
  <2>3. r.mask # 0
    BY <1>2
  <2>. QED  BY <2>1, <2>2, <2>3
<1>5. r \in RoutesTo(ip_dst)
  BY <1>1, <1>3, <1>4 DEF TableOf, RoutesTo
<1>6. ASSUME NEW q \in RoutesTo(ip_dst) PROVE q.mask <= r.mask
  <2>1. q \in Route /\ q \in Range(file) /\ Matches(q, ip_dst)
    BY <1>6 DEF RoutesTo
  <2>2. PICK i \in DOMAIN file : q = file[i]
    BY <2>1 DEF Range
  <2>3. q # BLANK
    <3>1. DOMAIN q = {"dest", "mask", "interface"}
      BY <2>1 DEF Route
    <3>2. DOMAIN BLANK = {"kind"}
      BY DEF BLANK
    <3>. QED  BY <3>1, <3>2
  <2>4. rtable[i] = q /\ i \in 1 .. Len(rtable)
    BY <1>1, <1>3, <2>2, <2>3 DEF TableOf
  <2>. QED  BY <1>4, <2>1, <2>4
<1>. QED  BY <1>1, <1>4, <1>5, <1>6 DEF Justified

(* The entry that was found is used, or none was.                          *)
LEMMA UseRouteStep == SessionInv /\ UseRoute => SessionInv'
<1>1. SUFFICES ASSUME SessionInv, UseRoute PROVE SessionInv'
  OBVIOUS
<1>. PICK p : p = main.packet
  OBVIOUS
<1>2. main.pc = "lookup" /\ Done /\ UNCHANGED <<rtable, args, file, if_list, inbox, server>>
  BY <1>1 DEF UseRoute
<1>3. /\ main \in MainRecord /\ main.pc \in Looping /\ VariablesOK /\ AddressesOK /\ SentOK
      /\ ScanInvariant
  BY <1>1, <1>2 DEF SessionInv, VariablesOK, Looping
<1>. PICK name : name = rtable[lpmentry].interface
  OBVIOUS
<1>4. /\ ~ server.early => if_list # <<>>
      /\ lpmentry # NULL => Justified(name, ip_dst)
      /\ lpmentry # NULL /\ if_list # <<>> => Known(if_list, name)
  BY <1>1, <1>2, RouteFound DEF SessionInv, InterfacesOK, AddressesOK, Over
<1>5. CASE Goto("aborted") /\ UNCHANGED <<lookup, sent>> /\ lpmentry # NULL /\ ~ Known(if_list, name)
  <2>1. main' \in MainRecord /\ main'.pc = "aborted"
    BY <1>3, <1>5, GotoProperty DEF Over
  <2>2. ScanInvariant'
    BY <1>2, <1>3, <1>5, ScanFrame DEF vars, lookup
  <2>3. SentOK'
    BY <1>2, <1>3, <1>5, <2>1, SentFrame DEF Starting, Expecting
  <2>. QED  BY <1>1, <1>2, <1>3, <1>4, <1>5, <2>1, <2>2, <2>3, LoopStep
<1>6. CASE Drop /\ UNCHANGED lookup
  <2>1. main' \in MainRecord /\ main'.pc = "read" /\ SentOK'
    BY <1>2, <1>3, <1>6, DropStep
  <2>2. ScanInvariant'
    BY <1>2, <1>3, <1>6, ScanFrame DEF vars, lookup
  <2>. QED  BY <1>1, <1>2, <1>3, <2>1, <2>2, LoopStep
<1>7. CASE Send(name, ip_dst) /\ lpmentry # NULL /\ Known(if_list, name) /\ UNCHANGED lookup
  <2>1. main' \in MainRecord /\ main'.pc \in {"read", "exited"} /\ SentOK'
    BY <1>2, <1>3, <1>4, <1>7, SendStep
  <2>2. ScanInvariant'
    BY <1>2, <1>3, <1>7, ScanFrame DEF vars, lookup
  <2>. QED  BY <1>1, <1>2, <1>3, <2>1, <2>2, LoopStep
<1>8. CASE LookUp(p.src, p, TRUE) /\ UNCHANGED sent /\ p \in Packets
  <2>1. main' \in MainRecord /\ main'.pc = "lookup" /\ ScanInvariant' /\ SentOK'
    BY <1>2, <1>3, <1>8, LookUpStep
  <2>. QED  BY <1>1, <1>2, <1>3, <1>4, <2>1, LoopStep
<1>9. p \in Packets
  BY <1>2, <1>3 DEF MainRecord
<1>10. \/ Goto("aborted") /\ UNCHANGED <<lookup, sent>> /\ lpmentry # NULL /\ ~ Known(if_list, name)
       \/ Drop /\ UNCHANGED lookup
       \/ Send(name, ip_dst) /\ lpmentry # NULL /\ Known(if_list, name) /\ UNCHANGED lookup
       \/ LookUp(p.src, p, TRUE) /\ UNCHANGED sent
  <2>1. IF ~ main.back /\ (lpmentry = NULL \/ p.expiring)
        THEN LookUp(p.src, p, TRUE) /\ UNCHANGED sent
        ELSE /\ IF lpmentry = NULL \/ (main.back /\ ~ p.long) THEN Drop
                ELSE IF ~ Known(if_list, name)
                THEN Goto("aborted") /\ UNCHANGED sent
                ELSE Send(name, ip_dst)
             /\ UNCHANGED lookup
    BY <1>1, Zenon DEF UseRoute
  <2>. QED  BY <2>1, Zenon
<1>. QED  BY <1>5, <1>6, <1>7, <1>8, <1>9, <1>10

(* All interfaces that the server announced are known, and the table is    *)
(* verified against them.                                                  *)
LEMMA ReadHwinfoStep == SessionInv /\ ReadHwinfo => SessionInv'
<1>1. SUFFICES ASSUME SessionInv, ReadHwinfo PROVE SessionInv'
  OBVIOUS
<1>. PICK names : names = Head(inbox).names
  OBVIOUS
<1>. PICK list : list = HandleHwinfo(names)
  OBVIOUS
<1>. PICK pc \in {"read", "exited"} : pc = IF Verified(list) THEN "read" ELSE "exited"
  OBVIOUS
<1>2. /\ main.pc = "read" /\ inbox # <<>> /\ inbox' = Tail(inbox)
      /\ Head(inbox).type = "HWINFO" /\ if_list' = list /\ Goto(pc)
      /\ UNCHANGED <<vars, args, file, server, sent>>
  BY <1>1 DEF ReadHwinfo, Reads
<1>3. /\ main \in MainRecord /\ main.pc \in Looping /\ VariablesOK /\ main.pc \notin Over
      /\ main.pc \notin Starting
  BY <1>1, <1>2 DEF SessionInv, VariablesOK, Looping, Over, Starting, Expecting
<1>4. Head(inbox) = inbox[1] /\ 1 \in DOMAIN inbox /\ Head(inbox) \in Messages
  BY <1>2, <1>3, HeadIsMessage
<1>5. names = server.topology /\ names \in Seq(Names)
  <2>1. names = server.topology
    BY <1>1, <1>2, <1>4 DEF SessionInv, InterfacesOK
  <2>. QED  BY <1>3, <2>1, VnsSessionAssumption DEF VariablesOK, ServerRecord
<1>6. if_list \in Seq(Interface) /\ Len(if_list) \in Nat /\ DOMAIN if_list = 1 .. Len(if_list)
      /\ Len(names) \in Nat /\ DOMAIN names = 1 .. Len(names)
  BY <1>3, <1>5, LenProperties DEF VariablesOK
<1>7. Added(list, if_list, names, Len(names))
  <2>1. list = Handled(if_list, AllEntries(names))
    BY DEF HandleHwinfo, Handled, AllEntries
  <2>. QED  BY <1>5, <1>6, <2>1, HwinfoProperty
<1>8. list \in Seq(Interface) /\ Len(list) = Len(if_list) + Len(names)
      /\ DOMAIN list = 1 .. Len(list)
  BY <1>7, LenProperties DEF Added
<1>9. \A name \in Range(names) : Known(list, name)
  <2>1. SUFFICES ASSUME NEW l \in 1 .. Len(names) PROVE Known(list, names[l])
    BY <1>6 DEF Range
  <2>2. list[Len(if_list) + l] = [name |-> names[l], ip |-> Ip[names[l]], addr |-> names[l]]
    BY <1>7, Zenon DEF Added
  <2>3. Len(if_list) + l \in DOMAIN list
    BY <1>6, <1>8
  <2>. QED  BY <2>2, <2>3 DEF Known
<1>10. \A i \in DOMAIN list : list[i].addr = list[i].name
  <2>1. SUFFICES ASSUME NEW i \in 1 .. Len(list) PROVE list[i].addr = list[i].name
    BY <1>8
  <2>2. CASE i \in 1 .. Len(if_list)
    BY <1>1, <1>6, <1>7, <2>2 DEF Added, SessionInv, AddressesOK
  <2>3. CASE i \notin 1 .. Len(if_list)
    <3>1. PICK l \in 1 .. Len(names) : i = Len(if_list) + l
      <4>1. i - Len(if_list) \in 1 .. Len(names) /\ i = Len(if_list) + (i - Len(if_list))
        BY <1>6, <1>8, <2>3
      <4>. QED  BY <4>1
    <3>2. list[Len(if_list) + l] = [name |-> names[l], ip |-> Ip[names[l]], addr |-> names[l]]
      BY <1>7, Zenon DEF Added
    <3>. QED  BY <3>1, <3>2
  <2>. QED  BY <2>2, <2>3
<1>11. main' \in MainRecord /\ main'.pc = pc
  BY <1>2, <1>3, GotoProperty DEF Looping, Over
<1>12. main'.pc \notin Starting /\ main'.pc \notin {"load", "connect", "RTABLE", "lookup", "aborted", "reload"}
       /\ (main'.pc \notin Over => Verified(list))
  BY <1>11 DEF Starting, Over, Expecting
<1>13. inbox' \in Seq(Messages) /\ Len(inbox') <= MaxUnread
  BY <1>2, <1>3, InboxType
<1>14. VariablesOK'
  BY <1>1, <1>2, <1>3, <1>8, <1>11, <1>13 DEF VariablesOK, vars
<1>15. ScanInvariant'
  BY <1>1, <1>2, ScanFrame DEF SessionInv
<1>16. TableOK'
  BY <1>1, <1>2, <1>3, <1>12, TableFrame DEF SessionInv
<1>17. ServerTableOK'
  <2>1. Tabled => Tabled'
    BY <1>2 DEF Tabled
  <2>2. args.template => Tabled' /\ (args.server_table => file' = server.table)
    BY <1>1, <1>2, <1>3, <2>1 DEF SessionInv, ServerTableOK
  <2>. QED  BY <1>1, <1>2, <1>3, <1>12, <2>1, <2>2, ServerTableFrame DEF SessionInv
<1>18. InterfacesOK'
  <2>1. \A n : Coming(n)'
    BY <1>2, <1>5, <1>9 DEF Coming
  <2>2. \A k \in DOMAIN inbox' :
          /\ inbox'[k].type = "HWINFO" => inbox'[k].names = server.topology
          /\ inbox'[k].type = "PACKET" => inbox'[k].packet.iface \in Range(server.topology)
    <3>1. inbox \in Seq(Messages)
      BY <1>3 DEF VariablesOK
    <3>2. /\ DOMAIN inbox = 1 .. Len(inbox) /\ DOMAIN inbox' = 1 .. Len(inbox')
          /\ \A k \in 1 .. Len(inbox') : k + 1 \in 1 .. Len(inbox) /\ inbox'[k] = inbox[k + 1]
      BY <1>2, <3>1, TailOf
    <3>. QED  BY <1>1, <3>2 DEF SessionInv, InterfacesOK
  <2>. QED  BY <1>2, <1>12, <2>1, <2>2 DEF InterfacesOK
<1>19. AddressesOK'
  BY <1>2, <1>10, <1>12 DEF AddressesOK, Verified, vars
<1>20. SentOK'
  BY <1>1, <1>2, <1>12, SentFrame DEF SessionInv
<1>. QED  BY <1>14, <1>15, <1>16, <1>17, <1>18, <1>19, <1>20 DEF SessionInv

-----------------------------------------------------------------------------
(* The server. *)

(* It sends a message.                                                     *)
LEMMA SaysStep ==
  ASSUME SessionInv, UNCHANGED <<vars, args, file, main, if_list, sent>>, server.pc # "none",
         NEW msg \in Messages, Len(inbox) < MaxUnread, inbox' = Append(inbox, msg),
         server' \in ServerRecord, server'.topology = server.topology,
         Tabled => Tabled' /\ server'.table = server.table,
         msg.type = "RTABLE" => Tabled' /\ msg.lines = server'.table,
         msg.type = "HWINFO" => msg.names = server.topology,
         msg.type = "PACKET" => /\ msg.packet.iface \in Range(server.topology)
                                /\ server'.early \/ server.pc = "running",
         server.early => server'.early,
         server'.pc = "running" => server.pc = "running" \/ msg.type = "HWINFO"
  PROVE  SessionInv'
<1>. USE DEF SessionInv
<1>1. inbox \in Seq(Messages) /\ MaxUnread \in Nat
  BY VnsSessionAssumption DEF VariablesOK
<1>2. /\ inbox' \in Seq(Messages) /\ Len(inbox) \in Nat /\ Len(inbox') = Len(inbox) + 1
      /\ DOMAIN inbox = 1 .. Len(inbox) /\ DOMAIN inbox' = 1 .. Len(inbox) + 1
      /\ inbox'[Len(inbox) + 1] = msg
      /\ \A k \in 1 .. Len(inbox) : inbox'[k] = inbox[k]
      /\ \A k \in 1 .. Len(inbox) + 1 : k \in 1 .. Len(inbox) \/ k = Len(inbox) + 1
  BY <1>1, AppendOf
<1>3. VariablesOK'
  BY <1>1, <1>2 DEF VariablesOK, vars
<1>4. ScanInvariant'
  BY ScanFrame
<1>5. TableOK'
  BY TableFrame
<1>6. ServerTableOK'
  BY <1>2 DEF ServerTableOK
<1>7. InterfacesOK'
  <2>1. ASSUME NEW n \in 0 .. Len(inbox), Coming(n) PROVE Coming(n)'
    <3>1. CASE \A name \in Range(server.topology) : Known(if_list, name)
      BY <3>1 DEF Coming, Known
    <3>2. CASE \E j \in 1 .. n : inbox[j].type = "HWINFO"
      <4>1. PICK j \in 1 .. n : inbox[j].type = "HWINFO"
        BY <3>2
      <4>2. j \in 1 .. Len(inbox)
        BY <1>2
      <4>. QED  BY <1>2, <4>1, <4>2 DEF Coming
    <3>. QED  BY <2>1, <3>1, <3>2 DEF Coming
  <2>2. \A k \in DOMAIN inbox' :
          /\ inbox'[k].type = "HWINFO" => inbox'[k].names = server.topology
          /\ inbox'[k].type = "PACKET" => inbox'[k].packet.iface \in Range(server.topology)
    BY <1>2 DEF InterfacesOK
  <2>. PICK n : n = Len(inbox)
    OBVIOUS
  <2>3. ASSUME main.pc \notin Over, ~ server'.early
        PROVE  /\ server.pc = "running" => Coming(n)'
               /\ \A k \in 1 .. n : inbox[k].type = "PACKET" => Coming(k - 1)'
               /\ main.pc = "lookup" => if_list # <<>>
    <3>1. server.pc = "running" => Coming(n)
      BY <2>3 DEF InterfacesOK
    <3>2. \A k \in 1 .. n : k - 1 \in 0 .. n /\ (inbox[k].type = "PACKET" => Coming(k - 1))
      BY <1>2, <2>3 DEF InterfacesOK
    <3>3. n \in 0 .. n
      BY <1>2
    <3>4. main.pc = "lookup" => if_list # <<>>
      BY <2>3 DEF InterfacesOK
    <3>. QED  BY <2>1, <3>1, <3>2, <3>3, <3>4
  <2>4. ASSUME main.pc \notin Over, ~ server'.early, server'.pc = "running"
        PROVE  Coming(Len(inbox))'
    <3>1. CASE server.pc = "running"
      <4>1. Coming(n)'
        BY <2>3, <2>4, <3>1
      <4>2. 1 .. n \subseteq 1 .. n + 1
        BY <1>2
      <4>. QED  BY <1>2, <4>1, <4>2 DEF Coming
    <3>2. CASE msg.type = "HWINFO"
      <4>1. n + 1 \in 1 .. n + 1
        BY <1>2
      <4>. QED  BY <1>2, <3>2, <4>1 DEF Coming
    <3>. QED  BY <2>4, <3>1, <3>2
  <2>5. ASSUME main.pc \notin Over, ~ server'.early, NEW k \in DOMAIN inbox',
               inbox'[k].type = "PACKET"
        PROVE  Coming(k - 1)'
    <3>1. CASE k \in 1 .. n
      BY <1>2, <2>3, <2>5, <3>1
    <3>2. CASE k = n + 1
      <4>1. k - 1 = n
        BY <1>2, <3>2
      <4>. QED  BY <1>2, <2>3, <2>5, <3>2, <4>1
    <3>. QED  BY <1>2, <3>1, <3>2
  <2>. QED  BY <2>2, <2>3, <2>4, <2>5 DEF InterfacesOK
<1>8. AddressesOK'
  BY DEF AddressesOK, Known, vars
<1>9. SentOK'
  BY SentFrame
<1>. QED  BY <1>3, <1>4, <1>5, <1>6, <1>7, <1>8, <1>9

(* Everything the server says is a message of the protocol.                *)
LEMMA MessagesSent ==
  /\ \A type \in {"AUTH_REQUEST", "BANNER", "CLOSE"} :
       Message(type) \in Messages /\ Message(type).type = type
  /\ \A ok \in BOOLEAN : [type |-> "AUTH_STATUS", ok |-> ok] \in Messages
  /\ \A f \in Files : [type |-> "RTABLE", lines |-> f] \in Messages
  /\ \A names \in Topologies : [type |-> "HWINFO", names |-> names] \in Messages
  /\ \A p \in Packets : [type |-> "PACKET", packet |-> p] \in Messages
BY DEF Messages, Message

(* It sends a message and moves on.                                        *)
LEMMA SaysOneStep ==
  ASSUME SessionInv, NEW msg \in Messages, Says(<<msg>>, server'.pc), server.pc # "none",
         server'.pc \in {"challenged", "refused", "authenticated", "running", "closed"},
         Tabled => Tabled', msg.type \notin {"RTABLE", "PACKET"},
         msg.type = "HWINFO" => msg.names = server.topology,
         server'.pc = "running" => server.pc = "running" \/ msg.type = "HWINFO"
  PROVE  SessionInv'
<1>1. /\ UNCHANGED <<vars, args, file, main, if_list, sent>> /\ Len(inbox) < MaxUnread
      /\ inbox' = inbox \o <<msg>> /\ server' = [server EXCEPT !.pc = server'.pc]
  BY DEF Says
<1>. PICK pc : pc = server'.pc
  OBVIOUS
<1>2. inbox \in Seq(Messages) /\ server \in ServerRecord
  BY DEF SessionInv, VariablesOK
<1>3. inbox' = Append(inbox, msg)
  BY <1>1, <1>2, AppendIsConcat
<1>4. /\ server' \in ServerRecord /\ server'.topology = server.topology
      /\ server'.table = server.table /\ server'.early = server.early
  BY <1>1, <1>2 DEF ServerRecord
<1>. QED  BY <1>1, <1>3, <1>4, SaysStep

(* The server's messages keep the invariant: its challenge and verdict,    *)
(* ...                                                                     *)
LEMMA ServerAuthenticatesStep == SessionInv /\ ServerAuthenticates => SessionInv'
<1>1. SUFFICES ASSUME SessionInv, ServerAuthenticates PROVE SessionInv'
  OBVIOUS
<1>2. server \in ServerRecord
  BY <1>1 DEF SessionInv, VariablesOK
<1>3. CASE server.pc = "connected" /\ Says(<<Message("AUTH_REQUEST")>>, "challenged")
  <2>1. server'.pc = "challenged"
    BY <1>2, <1>3 DEF Says, ServerRecord
  <2>. QED  BY <1>1, <1>3, <2>1, MessagesSent, SaysOneStep DEF Tabled
<1>4. ASSUME NEW ok \in BOOLEAN, server.pc = "answered",
             Says(<<[type |-> "AUTH_STATUS", ok |-> ok]>>, IF ok THEN "authenticated" ELSE "refused")
      PROVE  SessionInv'
  <2>. PICK msg : msg = [type |-> "AUTH_STATUS", ok |-> ok]
    OBVIOUS
  <2>. PICK pc : pc = IF ok THEN "authenticated" ELSE "refused"
    OBVIOUS
  <2>1. msg \in Messages /\ msg.type = "AUTH_STATUS"
    BY MessagesSent
  <2>2. server'.pc = pc /\ pc \in {"authenticated", "refused"}
    BY <1>2, <1>4 DEF Says, ServerRecord
  <2>3. Says(<<msg>>, server'.pc)
    BY <1>4, <2>2
  <2>. QED  BY <1>1, <1>4, <2>1, <2>2, <2>3, SaysOneStep DEF Tabled
<1>. QED  BY <1>1, <1>3, <1>4 DEF ServerAuthenticates

(* ... the table and the interfaces, ...                                   *)
LEMMA ServerSetsUpStep == SessionInv /\ ServerSetsUp => SessionInv'
<1>1. SUFFICES ASSUME SessionInv, ServerSetsUp PROVE SessionInv'
  OBVIOUS
<1>2. server \in ServerRecord
  BY <1>1 DEF SessionInv, VariablesOK
<1>3. ASSUME server.pc = "opened", NEW f \in Files, Len(inbox) < MaxUnread,
             inbox' = Append(inbox, [type |-> "RTABLE", lines |-> f]),
             server' = [server EXCEPT !.pc = "tabled", !.table = f],
             UNCHANGED <<vars, args, file, main, if_list, sent>>
      PROVE  SessionInv'
  <2>. PICK msg : msg = [type |-> "RTABLE", lines |-> f]
    OBVIOUS
  <2>1. msg \in Messages /\ msg.type = "RTABLE" /\ msg.lines = f
    BY MessagesSent
  <2>2. /\ server' \in ServerRecord /\ server'.topology = server.topology
        /\ server'.table = f /\ server'.early = server.early /\ server'.pc = "tabled"
    BY <1>2, <1>3 DEF ServerRecord
  <2>. QED  BY <1>1, <1>3, <2>1, <2>2, SaysStep DEF Tabled
<1>4. CASE /\ server.pc = IF args.template THEN "tabled" ELSE "opened"
           /\ Says(<<[type |-> "HWINFO", names |-> server.topology]>>, "running")
  <2>. PICK msg : msg = [type |-> "HWINFO", names |-> server.topology]
    OBVIOUS
  <2>1. msg \in Messages /\ msg.type = "HWINFO" /\ msg.names = server.topology
    BY <1>2, MessagesSent DEF ServerRecord
  <2>2. server'.pc = "running" /\ server.pc # "none"
    BY <1>2, <1>4 DEF Says, ServerRecord
  <2>3. Says(<<msg>>, server'.pc)
    BY <1>4, <2>2
  <2>. QED  BY <1>1, <2>1, <2>2, <2>3, SaysOneStep DEF Tabled
<1>. QED  BY <1>1, <1>3, <1>4 DEF ServerSetsUp

(* ... the packets, ...                                                    *)
LEMMA ServerPassesPacketStep == SessionInv /\ ServerPassesPacket => SessionInv'
<1>1. SUFFICES ASSUME SessionInv, ServerPassesPacket PROVE SessionInv'
  OBVIOUS
<1>2. server \in ServerRecord
  BY <1>1 DEF SessionInv, VariablesOK
<1>3. /\ server.pc \in {"opened", "tabled", "running"} /\ server.packets < MaxPackets
      /\ Len(inbox) < MaxUnread
      /\ server' = [server EXCEPT !.packets = server.packets + 1,
                                  !.early = server.early \/ server.pc # "running"]
      /\ UNCHANGED <<vars, args, file, main, if_list, sent>>
  BY <1>1 DEF ServerPassesPacket
<1>4. PICK p \in Packets : p.iface \in Range(server.topology)
                           /\ inbox' = Append(inbox, [type |-> "PACKET", packet |-> p])
  BY <1>1 DEF ServerPassesPacket
<1>. PICK msg : msg = [type |-> "PACKET", packet |-> p]
  OBVIOUS
<1>5. msg \in Messages /\ msg.type = "PACKET" /\ msg.packet = p
  BY MessagesSent
<1>6. /\ server' \in ServerRecord /\ server'.topology = server.topology
      /\ server'.table = server.table /\ server'.pc = server.pc
      /\ (server.early => server'.early) /\ (server'.early \/ server.pc = "running")
  <2>1. server.packets + 1 \in 0 .. MaxPackets
    BY <1>2, <1>3, VnsSessionAssumption DEF ServerRecord
  <2>2. (server.early \/ server.pc # "running") \in BOOLEAN
    OBVIOUS
  <2>. QED  BY <1>2, <1>3, <2>1, <2>2 DEF ServerRecord
<1>. QED  BY <1>1, <1>3, <1>4, <1>5, <1>6, SaysStep DEF Tabled

(* ... the banner and the end of the session.                              *)
LEMMA ServerGreetsStep == SessionInv /\ (ServerGreets \/ ServerCloses) => SessionInv'
<1>1. SUFFICES ASSUME SessionInv, ServerGreets \/ ServerCloses PROVE SessionInv'
  OBVIOUS
<1>2. server \in ServerRecord
  BY <1>1 DEF SessionInv, VariablesOK
<1>3. CASE ServerGreets
  <2>1. server.pc = "running" /\ server'.pc = "running"
    BY <1>2, <1>3 DEF ServerGreets, Says, ServerRecord
  <2>. QED  BY <1>1, <1>3, <2>1, MessagesSent, SaysOneStep DEF ServerGreets, Tabled
<1>4. CASE ServerCloses
  <2>1. server.pc # "none" /\ server'.pc = "closed"
    BY <1>2, <1>4 DEF ServerCloses, Says, ServerRecord
  <2>. QED  BY <1>1, <1>4, <2>1, MessagesSent, SaysOneStep DEF ServerCloses, Tabled
<1>. QED  BY <1>1, <1>3, <1>4

(* Only the connection changes.                                            *)
LEMMA ServerLeavesStep == SessionInv /\ ServerLeaves => SessionInv'
<1>1. SUFFICES ASSUME SessionInv, ServerLeaves PROVE SessionInv'
  OBVIOUS
<1>2. UNCHANGED <<vars, args, file, main, if_list, inbox, sent>>
  BY <1>1 DEF ServerLeaves
<1>3. PICK how \in {"reset", "eof"} : server' = [server EXCEPT !.tcp = how]
  BY <1>1 DEF ServerLeaves
<1>4. /\ server' \in ServerRecord /\ server'.topology = server.topology
      /\ server'.table = server.table /\ server'.pc = server.pc
      /\ server'.early = server.early
  BY <1>1, <1>3 DEF SessionInv, VariablesOK, ServerRecord
<1>5. VariablesOK'
  BY <1>1, <1>2, <1>4 DEF SessionInv, VariablesOK, vars
<1>6. ScanInvariant' /\ TableOK'
  BY <1>1, <1>2, ScanFrame, TableFrame DEF SessionInv
<1>7. ServerTableOK'
  BY <1>1, <1>2, <1>4 DEF SessionInv, ServerTableOK, Tabled
<1>8. InterfacesOK'
  BY <1>1, <1>2, <1>4 DEF SessionInv, InterfacesOK, Coming, Known
<1>9. AddressesOK' /\ SentOK'
  BY <1>1, <1>2, SentFrame DEF SessionInv, AddressesOK, Known, vars
<1>. QED  BY <1>5, <1>6, <1>7, <1>8, <1>9 DEF SessionInv

-----------------------------------------------------------------------------
(* The session. *)

(* The invariant holds at first, ...                                       *)
LEMMA InitHolds == SessionInit => SessionInv
<1>1. SUFFICES ASSUME SessionInit PROVE SessionInv
  OBVIOUS
<1>. USE <1>1 DEF SessionInit
<1>2. PICK t \in Topologies :
        server = [pc |-> "none", tcp |-> "open", topology |-> t, table |-> <<>>,
                  packets |-> 0, early |-> FALSE]
  OBVIOUS
<1>3. main.pc \in Starting /\ main.pc \notin Looping /\ main.pc \notin Over /\ main.pc = "load"
  BY DEF Starting, Looping, Over, Expecting
<1>4. main \in MainRecord
  BY <1>3 DEF MainRecord
<1>5. server \in ServerRecord /\ server.pc = "none"
  BY <1>2, VnsSessionAssumption DEF ServerRecord
<1>6. VariablesOK
  BY <1>4, <1>5, VnsSessionAssumption DEF VariablesOK
<1>7. ScanInvariant
  BY DEF ScanInvariant, BestOf
<1>8. TableOK
  BY <1>3 DEF TableOK
<1>9. ServerTableOK /\ InterfacesOK
  BY <1>3, <1>5 DEF ServerTableOK, InterfacesOK
<1>10. AddressesOK /\ SentOK
  BY <1>3 DEF AddressesOK, SentOK, LeavesByItsRoute
<1>. QED  BY <1>6, <1>7, <1>8, <1>9, <1>10 DEF SessionInv

(* ... when nothing happens, ...                                           *)
LEMMA StutterStep == SessionInv /\ UNCHANGED svars => SessionInv'
<1>1. SUFFICES ASSUME SessionInv, UNCHANGED svars PROVE SessionInv'
  OBVIOUS
<1>2. UNCHANGED vars /\ UNCHANGED <<args, file, main, if_list, inbox, server, sent>>
  BY <1>1 DEF svars, session
<1>3. VariablesOK'
  BY <1>1, <1>2 DEF SessionInv, VariablesOK, vars
<1>4. ScanInvariant' /\ TableOK'
  BY <1>1, <1>2, ScanFrame, TableFrame DEF SessionInv
<1>5. ServerTableOK' /\ InterfacesOK'
  BY <1>1, <1>2 DEF SessionInv, ServerTableOK, InterfacesOK, Tabled, Coming, Known
<1>6. AddressesOK' /\ SentOK'
  BY <1>1, <1>2, SentFrame DEF SessionInv, AddressesOK, Known, vars
<1>. QED  BY <1>3, <1>4, <1>5, <1>6 DEF SessionInv

(* ... and after every step.                                               *)
LEMMA NextHolds == SessionInv /\ [SessionNext]_svars => SessionInv'
<1>1. SessionInv /\ Client => SessionInv'
  BY LoadFirstStep, ConnectStep, ReadUnexpectedStep, ReadAuthRequestStep, ReadAuthStatusStep,
     OpenStep, ReadRtableStep, LoadAgainStep, ReadHwinfoStep, ReadBannerStep, ReadPacketStep,
     ScanTableStep, UseRouteStep, ReadFailsStep DEF Client
<1>2. SessionInv /\ Server => SessionInv'
  BY ServerAuthenticatesStep, ServerSetsUpStep, ServerPassesPacketStep, ServerGreetsStep,
     ServerLeavesStep DEF Server
<1>. QED  BY <1>1, <1>2, StutterStep DEF SessionNext

(* The invariant of the session, for all files, topologies and packets.    *)
THEOREM SessionInvariant == SessionSpec => []SessionInv
BY InitHolds, NextHolds, PTL DEF SessionSpec

(* In the main loop the table is the file's (sr_main.c:155).               *)
THEOREM TableAlwaysTheFile == SessionSpec => []TableIsTheFile
<1>1. SessionInv => TableIsTheFile
  <2>1. SUFFICES ASSUME SessionInv PROVE TableIsTheFile
    OBVIOUS
  <2>2. TypeOK
    <3>1. \A i \in DOMAIN if_list : if_list[i] \in Interface
      BY <2>1, ElementOfSeq, LenProperties DEF SessionInv, VariablesOK
    <3>. QED  BY <2>1, <3>1 DEF SessionInv, VariablesOK, TypeOK, MainRecord, ServerRecord,
                              Interface, Starting, Looping, Over
  <2>. QED  BY <2>1, <2>2 DEF SessionInv, TableOK, TableOf, ServerTableOK, TableIsTheFile, Looping
<1>. QED  BY <1>1, SessionInvariant, PTL

(* What a look-up in the session finds is the longest match.               *)
THEOREM SessionFindsLongest == SessionSpec => []LongestMatch
<1>1. SessionInv => LongestMatch
  <2>1. SUFFICES ASSUME SessionInv, Done PROVE BestOf(Len(rtable))
    BY DEF LongestMatch
  <2>2. Len(rtable) \in Nat
    BY <2>1, LenProperties DEF SessionInv, VariablesOK
  <2>3. entry - 1 = Len(rtable)
    BY <2>1, <2>2 DEF SessionInv, ScanInvariant, Done
  <2>. QED  BY <2>1, <2>3 DEF SessionInv, ScanInvariant
<1>. QED  BY <1>1, SessionInvariant, PTL

(* A frame leaves on the interface of a longest route to its destination,  *)
(* with the address of that interface (sr_vns_comm.c:538).                 *)
THEOREM AlwaysLeavesByItsRoute == SessionSpec => []LeavesByItsRoute
<1>1. SessionInv => LeavesByItsRoute
  BY DEF SessionInv, SentOK
<1>. QED  BY <1>1, SessionInvariant, PTL

(* The program aborts only when a packet came before the interfaces did.   *)
THEOREM AbortsOnlyForCause == SessionSpec => []AbortsForCause
<1>1. SessionInv => AbortsForCause
  BY DEF SessionInv, InterfacesOK, AbortsForCause
<1>. QED  BY <1>1, SessionInvariant, PTL
=============================================================================
