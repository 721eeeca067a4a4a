--------------------------- MODULE ArpCache_proofs ---------------------------
(***************************************************************************)
(* Theorems about module ArpCache, for every network, traffic and size of  *)
(* the cache, the queue and the stacks of the two threads.                 *)
(***************************************************************************)
EXTENDS ArpCache, FiniteSetTheorems, SequenceTheorems,
        WellFoundedInduction, TLAPS

-----------------------------------------------------------------------------
(* Numbers, sequences and their elements. *)

(* Min of a non-empty set of naturals is its least element.                *)
LEMMA MinProperty ==
  ASSUME NEW T, T \subseteq Nat, T # {}
  PROVE  Min(T) \in T /\ \A y \in T : Min(T) <= y
<1>1. IsWellFoundedOn({ss \in Nat \X Nat : ss[1] < ss[2]}, Nat)
  BY NatLessThanWellFounded DEF OpToRel
<1>2. PICK x \in T :
        \A y \in T : ~(<<y, x>> \in {ss \in Nat \X Nat : ss[1] < ss[2]})
  BY <1>1, WFMin
<1>3. \A y \in T : /\ <<y, x>> \in Nat \X Nat
                   /\ <<y, x>>[1] = y /\ <<y, x>>[2] = x
  OBVIOUS
<1>4. \A y \in T : ~ (y < x)
  BY <1>2, <1>3
<1>5. \A y \in T : x =< y
  BY <1>4
<1>. QED  BY <1>5 DEF Min

(* Elements, by position.                                                  *)
LEMMA ElementsOf ==
  ASSUME NEW S, NEW s \in Seq(S)
  PROVE  /\ Elements(s) = {s[i] : i \in 1 .. Len(s)}
         /\ Elements(s) \subseteq S /\ Len(s) \in Nat
         /\ DOMAIN s = 1 .. Len(s)
BY LenProperties DEF Elements

(* A sequence with one element more in front.                              *)
LEMMA ElementsCons ==
  ASSUME NEW S, NEW s \in Seq(S), NEW e \in S
  PROVE  /\ <<e>> \o s \in Seq(S) /\ <<e>> \o s # <<>>
         /\ Len(<<e>> \o s) = Len(s) + 1
         /\ (<<e>> \o s)[1] = e
         /\ \A i \in 1 .. Len(s) : (<<e>> \o s)[i + 1] = s[i]
         /\ Elements(<<e>> \o s) = {e} \cup Elements(s)
<1>1. <<e>> \in Seq(S) /\ Len(<<e>>) = 1 /\ <<e>>[1] = e /\ Len(s) \in Nat
  OBVIOUS
<1>2. <<e>> \o s \in Seq(S) /\ Len(<<e>> \o s) = Len(s) + 1
  BY <1>1, ConcatProperties
<1>3. \A i \in 1 .. Len(s) + 1 :
        (<<e>> \o s)[i] = IF i = 1 THEN e ELSE s[i - 1]
  BY <1>1, ConcatProperties
<1>4. \A i \in 1 .. Len(s) : (<<e>> \o s)[i + 1] = s[i]
  <2>1. TAKE i \in 1 .. Len(s)
  <2>2. i + 1 \in 1 .. Len(s) + 1 /\ i + 1 # 1 /\ (i + 1) - 1 = i
    BY <1>1
  <2>. QED  BY <1>3, <2>2
<1>5. (<<e>> \o s)[1] = e
  BY <1>1, <1>3
<1>6. Elements(<<e>> \o s) = {e} \cup Elements(s)
  <2>1. Elements(<<e>> \o s) = {(<<e>> \o s)[i] : i \in 1 .. Len(s) + 1}
    BY <1>2, ElementsOf
  <2>2. Elements(s) = {s[i] : i \in 1 .. Len(s)}
    BY ElementsOf
  <2>3. \A i \in 1 .. Len(s) + 1 : i = 1 \/ i - 1 \in 1 .. Len(s)
    BY <1>1
  <2>4. \A i \in 1 .. Len(s) : i + 1 \in 1 .. Len(s) + 1
    BY <1>1
  <2>5. 1 \in 1 .. Len(s) + 1
    BY <1>1
  <2>6. \A i \in 1 .. Len(s) + 1 : (<<e>> \o s)[i] \in {e} \cup Elements(s)
    BY <1>3, <2>2, <2>3
  <2>7. \A i \in 1 .. Len(s) : s[i] \in Elements(<<e>> \o s)
    BY <1>4, <2>1, <2>4
  <2>8. e \in Elements(<<e>> \o s)
    BY <1>5, <2>1, <2>5
  <2>. QED  BY <2>1, <2>2, <2>6, <2>7, <2>8
<1>. QED  BY <1>1, <1>2, <1>4, <1>5, <1>6, EmptySeq

(* A sequence without its first element.                                   *)
LEMMA ElementsTail ==
  ASSUME NEW S, NEW s \in Seq(S), s # <<>>
  PROVE  /\ Tail(s) \in Seq(S) /\ Elements(Tail(s)) \subseteq Elements(s)
         /\ Head(s) \in S /\ Head(s) \in Elements(s) /\ Len(Tail(s)) = Len(s) - 1
<1>1. Len(s) \in Nat \ {0}
  BY EmptySeq
<1>2. Head(s) \in S /\ Tail(s) \in Seq(S) /\ Len(Tail(s)) = Len(s) - 1
      /\ \A i \in 1 .. Len(Tail(s)) : Tail(s)[i] = s[i + 1]
  BY HeadTailProperties
<1>3. Head(s) = s[1] /\ 1 \in 1 .. Len(s)
  BY <1>1
<1>4. \A i \in 1 .. Len(s) - 1 : i + 1 \in 1 .. Len(s)
  BY <1>1
<1>5. Elements(s) = {s[i] : i \in 1 .. Len(s)}
  BY ElementsOf
<1>6. Elements(Tail(s)) = {Tail(s)[i] : i \in 1 .. Len(s) - 1}
  BY <1>2, ElementsOf
<1>7. \A i \in 1 .. Len(s) - 1 : Tail(s)[i] \in Elements(s)
  BY <1>2, <1>4, <1>5
<1>. QED  BY <1>2, <1>3, <1>5, <1>6, <1>7

(* A sequence whose elements differ, without one of them.                  *)
LEMMA ElementsWithout ==
  ASSUME NEW S, NEW s \in Seq(S), NEW k \in 1 .. Len(s),
         \A i, j \in 1 .. Len(s) : s[i] = s[j] => i = j
  PROVE  /\ RemoveFirst(s, s[k]) \in Seq(S)
         /\ Elements(RemoveFirst(s, s[k])) = Elements(s) \ {s[k]}
         /\ \A i, j \in 1 .. Len(RemoveFirst(s, s[k])) :
              RemoveFirst(s, s[k])[i] = RemoveFirst(s, s[k])[j] => i = j
<1>1. Len(s) \in Nat /\ \A i \in 1 .. Len(s) : s[i] \in S
  BY ElementOfSeq, LenProperties
<1>2. RemoveFirst(s, s[k]) = SubSeq(s, 1, k - 1) \o SubSeq(s, k + 1, Len(s))
  <2>1. {i \in 1 .. Len(s) : s[i] = s[k]} = {k}
    OBVIOUS
  <2>2. {k} \subseteq Nat /\ {k} # {}
    BY <1>1
  <2>3. Min({k}) = k
    BY <2>2, MinProperty
  <2>. QED  BY <2>1, <2>3 DEF RemoveFirst, RemoveAt, SelectInSeq
<1>. DEFINE u == SubSeq(s, 1, k - 1)
            v == SubSeq(s, k + 1, Len(s))
            w == u \o v
<1>3. /\ u \in Seq(S) /\ Len(u) = k - 1
      /\ \A i \in 1 .. k - 1 : u[i] = s[i]
  <2>1. \A i \in 1 .. k - 1 : s[i] \in S
    BY <1>1
  <2>2. /\ u \in Seq(S) /\ Len(u) = IF 1 <= k - 1 THEN (k - 1) - 1 + 1 ELSE 0
        /\ \A i \in 1 .. (k - 1) - 1 + 1 : u[i] = s[1 + i - 1]
    BY <1>1, <2>1, SubSeqProperties
  <2>. QED  BY <1>1, <2>2
<1>4. /\ v \in Seq(S) /\ Len(v) = Len(s) - k
      /\ \A i \in 1 .. Len(s) - k : v[i] = s[k + i]
  <2>1. \A i \in k + 1 .. Len(s) : s[i] \in S
    BY <1>1
  <2>2. /\ v \in Seq(S)
        /\ Len(v) = IF k + 1 <= Len(s) THEN Len(s) - (k + 1) + 1 ELSE 0
        /\ \A i \in 1 .. Len(s) - (k + 1) + 1 : v[i] = s[(k + 1) + i - 1]
    BY <1>1, <2>1, SubSeqProperties
  <2>. QED  BY <1>1, <2>2
<1>. HIDE DEF u, v
<1>5. /\ w \in Seq(S) /\ Len(w) = Len(s) - 1
      /\ \A i \in 1 .. Len(s) - 1 : w[i] = IF i < k THEN s[i] ELSE s[i + 1]
  <2>1. /\ w \in Seq(S) /\ Len(w) = Len(u) + Len(v)
        /\ \A i \in 1 .. Len(u) + Len(v) :
             w[i] = IF i <= Len(u) THEN u[i] ELSE v[i - Len(u)]
    <3>1. u \in Seq(S) /\ v \in Seq(S)
      BY <1>3, <1>4
    <3>. QED  BY <3>1, ConcatProperties
  <2>2. ASSUME NEW i \in 1 .. Len(s) - 1
        PROVE  w[i] = IF i < k THEN s[i] ELSE s[i + 1]
    <3>1. CASE i < k
      BY <1>1, <1>3, <1>4, <2>1, <3>1
    <3>2. CASE ~ (i < k)
      <4>1. w[i] = v[i - (k - 1)]
        BY <1>1, <1>3, <1>4, <2>1, <3>2
      <4>2. i - (k - 1) \in 1 .. Len(s) - k /\ k + (i - (k - 1)) = i + 1
        BY <1>1, <3>2
      <4>. QED  BY <1>4, <3>2, <4>1, <4>2
    <3>. QED  BY <3>1, <3>2
  <2>. QED  BY <1>1, <1>3, <1>4, <2>1, <2>2
<1>. HIDE DEF w
<1>6. Elements(w) = Elements(s) \ {s[k]}
  <2>1. Elements(w) = {w[i] : i \in 1 .. Len(s) - 1}
    BY <1>5, ElementsOf
  <2>2. Elements(s) = {s[i] : i \in 1 .. Len(s)}
    BY ElementsOf
  <2>3. ASSUME NEW i \in 1 .. Len(s) - 1
        PROVE  w[i] \in Elements(s) \ {s[k]}
    <3>1. i \in 1 .. Len(s) /\ i + 1 \in 1 .. Len(s) /\ i + 1 # i
      BY <1>1
    <3>2. i < k => i # k
      BY <1>1
    <3>3. ~ (i < k) => i + 1 # k
      BY <1>1
    <3>. QED  BY <1>5, <2>2, <3>1, <3>2, <3>3
  <2>4. ASSUME NEW i \in 1 .. Len(s), i # k
        PROVE  s[i] \in Elements(w)
    <3>1. CASE i < k
      <4>1. i \in 1 .. Len(s) - 1
        BY <1>1, <3>1
      <4>. QED  BY <1>5, <2>1, <3>1, <4>1
    <3>2. CASE ~ (i < k)
      <4>1. i - 1 \in 1 .. Len(s) - 1 /\ ~ (i - 1 < k) /\ (i - 1) + 1 = i
        BY <1>1, <2>4, <3>2
      <4>2. w[i - 1] = s[i]
        BY <1>5, <4>1
      <4>. QED  BY <2>1, <4>1, <4>2
    <3>. QED  BY <3>1, <3>2
  <2>5. \A x \in Elements(w) : x \in Elements(s) \ {s[k]}
    BY <2>1, <2>3
  <2>6. \A x \in Elements(s) \ {s[k]} : x \in Elements(w)
    BY <2>2, <2>4
  <2>. QED  BY <2>5, <2>6
<1>7. ASSUME NEW i \in 1 .. Len(s) - 1, NEW j \in 1 .. Len(s) - 1, w[i] = w[j]
      PROVE  i = j
  <2>1. /\ i \in 1 .. Len(s) /\ i + 1 \in 1 .. Len(s)
        /\ j \in 1 .. Len(s) /\ j + 1 \in 1 .. Len(s)
    BY <1>1
  <2>2. (IF i < k THEN i ELSE i + 1) = (IF j < k THEN j ELSE j + 1)
    BY <1>5, <1>7, <2>1
  <2>. QED  BY <1>1, <2>2
<1>8. RemoveFirst(s, s[k]) = w
  BY <1>2 DEF u, v, w
<1>. QED  BY <1>5, <1>6, <1>7, <1>8

(* The elements of a sequence are finitely many.                           *)
LEMMA ElementsFinite ==
  ASSUME NEW S, NEW s \in Seq(S)
  PROVE  IsFiniteSet(Elements(s))
<1>. DEFINE g == [i \in 1 .. Len(s) |-> s[i]]
<1>1. Len(s) \in Nat /\ Elements(s) = {s[i] : i \in 1 .. Len(s)}
  BY ElementsOf
<1>2. g \in Surjection(1 .. Len(s), Elements(s))
  BY <1>1 DEF Surjection
<1>3. IsFiniteSet(1 .. Len(s))
  BY <1>1, FS_Interval
<1>. QED  BY <1>2, <1>3, FS_Surjection

-----------------------------------------------------------------------------
(* The parts of the invariant. *)

(* The queue and the heap agree.                                           *)
Consistent ==
  /\ Elements(requests) = DOMAIN heap
  /\ \A i, j \in DOMAIN requests :
       heap[requests[i]].ip = heap[requests[j]].ip => i = j
  /\ \A r \in DOMAIN heap : heap[r].packets # <<>>

(* Whatever call gives a request up, only ICMP errors came too late.       *)
LateErrors ==
  \A t \in Thread : \A f \in Elements(stack[t]) : LateOK(f)

(* The invariant is these parts.                                           *)
LEMMA ArpParts ==
  ArpInv <=> TypeOK /\ Consistent /\ NoWaitWhenKnown /\ LateErrors
BY DEF ArpInv, QueueConsistent, Consistent, LateErrors

(* The names of requests in use are finitely many, so that one is fresh.   *)
LEMMA FreshProperty ==
  ASSUME TypeOK, Consistent
  PROVE  Fresh \in Nat \ {NULL} /\ Fresh \notin DOMAIN heap /\ Fresh \notin Held
<1>. DEFINE F == Elements(stack["main"]) \cup Elements(stack["sweep"])
            used == DOMAIN heap \cup Held
<1>1. requests \in Seq(Nat \ {NULL}) /\ stack \in [Thread -> Seq(Call)]
  BY DEF TypeOK
<1>2. stack["main"] \in Seq(Call) /\ stack["sweep"] \in Seq(Call)
  BY <1>1 DEF Thread
<1>3. IsFiniteSet(DOMAIN heap)
  BY <1>1, ElementsFinite DEF Consistent
<1>4. IsFiniteSet(F)
  BY <1>2, ElementsFinite, FS_Union
<1>5. Held = {f.req : f \in F}
  BY DEF Held, Thread
<1>6. IsFiniteSet({f.req : f \in F})
  <2>. DEFINE g == [f \in F |-> f.req]
  <2>1. g \in Surjection(F, {f.req : f \in F})
    BY DEF Surjection
  <2>. QED  BY <1>4, <2>1, FS_Surjection
<1>7. IsFiniteSet(used) /\ Cardinality(used) \in Nat
  BY <1>3, <1>5, <1>6, FS_Union, FS_CardinalityType
<1>. DEFINE c == Cardinality(used)
            free == (1 .. (c + 1)) \ used
<1>. HIDE DEF used
<1>8. free # {}
  <2>1. SUFFICES ASSUME free = {} PROVE FALSE
    OBVIOUS
  <2>2. (1 .. (c + 1)) \in SUBSET used
    BY <2>1
  <2>3. Cardinality(1 .. (c + 1)) <= c
    BY <1>7, <2>2, FS_Subset
  <2>4. Cardinality(1 .. (c + 1)) = c + 1
    <3>1. c + 1 \in Int /\ ~ (1 > c + 1) /\ (c + 1) - 1 + 1 = c + 1
      BY <1>7
    <3>. QED  BY <3>1, FS_Interval
  <2>. QED  BY <1>7, <2>3, <2>4
<1>9. free \subseteq Nat \ {0}
  BY <1>7
<1>10. Min(free) \in free
  BY <1>8, <1>9, MinProperty
<1>11. Fresh = Min(free)
  BY DEF Fresh, used
<1>. QED  BY <1>9, <1>10, <1>11 DEF used, NULL

-----------------------------------------------------------------------------
(* The stacks of the threads. *)

(* The call a thread is in.                                                *)
LEMMA TopType ==
  ASSUME TypeOK, NEW t \in Thread, stack[t] # <<>>
  PROVE  /\ Top(t) \in Call /\ Top(t) \in Elements(stack[t])
         /\ Tail(stack[t]) \in Seq(Call)
         /\ Elements(Tail(stack[t])) \subseteq Elements(stack[t])
<1>1. stack[t] \in Seq(Call)
  BY DEF TypeOK
<1>. QED  BY <1>1, ElementsTail DEF Top

(* The calls on the stacks after a step of thread t are those before it or *)
(* satisfy P.                                                              *)
StackStep(P) ==
  /\ stack' \in [Thread -> Seq(Call)]
  /\ \A u \in Thread : Elements(stack'[u]) \subseteq Elements(stack[u]) \cup P

(* A call returns.                                                         *)
LEMMA ReturnStep ==
  ASSUME TypeOK, NEW t \in Thread, stack[t] # <<>>, Return(t)
  PROVE  StackStep({})
<1>1. stack \in [Thread -> Seq(Call)] /\ stack' = [stack EXCEPT ![t] = Tail(stack[t])]
  BY DEF TypeOK, Return
<1>2. Tail(stack[t]) \in Seq(Call) /\ Elements(Tail(stack[t])) \subseteq Elements(stack[t])
  BY TopType
<1>. QED  BY <1>1, <1>2 DEF StackStep

(* A call goes on.                                                         *)
LEMMA GotoStep ==
  ASSUME TypeOK, NEW t \in Thread, stack[t] # <<>>, NEW f \in Call, Goto(t, f)
  PROVE  StackStep({f})
<1>1. /\ stack \in [Thread -> Seq(Call)]
      /\ stack' = [stack EXCEPT ![t] = <<f>> \o Tail(stack[t])]
  BY DEF TypeOK, Goto
<1>2. Tail(stack[t]) \in Seq(Call) /\ Elements(Tail(stack[t])) \subseteq Elements(stack[t])
  BY TopType
<1>3. /\ <<f>> \o Tail(stack[t]) \in Seq(Call)
      /\ Elements(<<f>> \o Tail(stack[t])) = {f} \cup Elements(Tail(stack[t]))
  BY <1>2, ElementsCons
<1>. QED  BY <1>1, <1>2, <1>3 DEF StackStep

(* A call makes another one.                                               *)
LEMMA CallStep ==
  ASSUME TypeOK, NEW t \in Thread, stack[t] # <<>>, NEW f \in Call, NEW g \in Call,
         GotoAndCall(t, f, g)
  PROVE  StackStep({f, g})
<1>1. /\ stack \in [Thread -> Seq(Call)]
      /\ stack' = [stack EXCEPT ![t] = <<g, f>> \o Tail(stack[t])]
  BY DEF TypeOK, GotoAndCall
<1>2. Tail(stack[t]) \in Seq(Call) /\ Elements(Tail(stack[t])) \subseteq Elements(stack[t])
  BY TopType
<1>3. /\ <<f>> \o Tail(stack[t]) \in Seq(Call)
      /\ Elements(<<f>> \o Tail(stack[t])) = {f} \cup Elements(Tail(stack[t]))
  BY <1>2, ElementsCons
<1>4. <<g, f>> \o Tail(stack[t]) = <<g>> \o (<<f>> \o Tail(stack[t]))
  <2>1. <<g>> \in Seq(Call) /\ <<f>> \in Seq(Call)
    OBVIOUS
  <2>2. (<<g>> \o <<f>>) \o Tail(stack[t]) = <<g>> \o (<<f>> \o Tail(stack[t]))
    BY <1>2, <2>1, ConcatAssociative
  <2>3. <<g>> \o <<f>> = <<g, f>>
    <3>1. /\ <<g>> \o <<f>> \in Seq(Call) /\ Len(<<g>> \o <<f>>) = 2
          /\ (<<g>> \o <<f>>)[1] = g /\ (<<g>> \o <<f>>)[2] = f
      BY <2>1, ConcatProperties
    <3>2. /\ <<g, f>> \in Seq(Call) /\ Len(<<g, f>>) = 2
          /\ <<g, f>>[1] = g /\ <<g, f>>[2] = f
      OBVIOUS
    <3>3. \A i \in 1 .. 2 : (<<g>> \o <<f>>)[i] = <<g, f>>[i]
      BY <3>1, <3>2
    <3>. QED  BY <3>1, <3>2, <3>3, SeqEqual
  <2>. QED  BY <2>2, <2>3
<1>5. /\ <<g>> \o (<<f>> \o Tail(stack[t])) \in Seq(Call)
      /\ Elements(<<g>> \o (<<f>> \o Tail(stack[t])))
           = {g} \cup Elements(<<f>> \o Tail(stack[t]))
  <2>. DEFINE u == <<f>> \o Tail(stack[t])
  <2>1. u \in Seq(Call)
    BY <1>3
  <2>. HIDE DEF u
  <2>2. <<g>> \o u \in Seq(Call) /\ Elements(<<g>> \o u) = {g} \cup Elements(u)
    BY <2>1, ElementsCons
  <2>. QED  BY <2>2 DEF u
<1>. DEFINE s == <<g, f>> \o Tail(stack[t])
<1>6. stack' = [stack EXCEPT ![t] = s]
  BY <1>1
<1>7. s \in Seq(Call) /\ Elements(s) \subseteq Elements(stack[t]) \cup {f, g}
  BY <1>2, <1>3, <1>4, <1>5
<1>. HIDE DEF s
<1>. QED  BY <1>1, <1>6, <1>7 DEF StackStep

(* A new call has no packets to go through.                                *)
LEMMA FrameType ==
  ASSUME NEW pc \in PC, NEW r \in Nat
  PROVE  Frame(pc, r) \in Call
<1>1. <<>> \in Seq(Packet)
  OBVIOUS
<1>. QED  BY <1>1 DEF Frame, Call

-----------------------------------------------------------------------------
(* Packets. *)

(* The ICMP error about a packet whose sender can be routed to.            *)
LEMMA ErrorType ==
  ASSUME NEW p \in Packet, p.src \in Routed
  PROVE  Error(p) \in Packet /\ Error(p).proto = "error"
<1>1. Egress[p.src] \in Address /\ p.src \in Address
  BY ForwardingAssumption DEF Address, Packet
<1>. QED  BY <1>1 DEF Error, Packet, Protocol

(* What is sent on because of a packet is a packet.                        *)
LEMMA HandledType ==
  ASSUME NEW p \in Packet, NEW q \in Handled(p)
  PROVE  q \in Packet
<1>1. q \in Refusal(p) => q \in Packet
  BY ErrorType DEF Refusal
<1>2. EchoReply(p) \in Packet
  BY DEF EchoReply, Packet, Protocol
<1>3. q \in Local(p) => q \in Packet
  <2>1. CASE p.proto = "echo" /\ p.src \in Routed
    BY <1>2, <2>1 DEF Local
  <2>2. CASE ~ (p.proto = "echo" /\ p.src \in Routed)
    BY <1>1, <2>2 DEF Local
  <2>. QED  BY <2>1, <2>2
<1>4. q \in Forwarded(p) => q \in Packet
  BY <1>1 DEF Forwarded
<1>. QED  BY <1>3, <1>4 DEF Handled

-----------------------------------------------------------------------------
(* The queue of requests. *)

(* The queue names every request once.                                     *)
LEMMA QueueType ==
  ASSUME TypeOK, Consistent
  PROVE  /\ requests \in Seq(Nat \ {NULL}) /\ Len(requests) \in Nat
         /\ DOMAIN requests = 1 .. Len(requests)
         /\ \A i \in 1 .. Len(requests) : requests[i] \in DOMAIN heap
         /\ \A r \in DOMAIN heap : \E i \in 1 .. Len(requests) : requests[i] = r
         /\ \A i, j \in 1 .. Len(requests) : requests[i] = requests[j] => i = j
<1>1. requests \in Seq(Nat \ {NULL})
  BY DEF TypeOK
<1>2. /\ Len(requests) \in Nat /\ DOMAIN requests = 1 .. Len(requests)
      /\ Elements(requests) = {requests[i] : i \in 1 .. Len(requests)}
  BY <1>1, ElementsOf
<1>. QED  BY <1>1, <1>2 DEF Consistent

(* The request a packet for ip is queued at: the one for ip or a new one.  *)
LEMMA TargetProperty ==
  ASSUME TypeOK, Consistent, NEW ip
  PROVE  /\ Target(ip) \in Nat \ {NULL}
         /\ Target(ip) \in DOMAIN heap => heap[Target(ip)].ip = ip
         /\ Target(ip) \notin DOMAIN heap =>
              Target(ip) \notin Held /\ \A r \in DOMAIN heap : heap[r].ip # ip
<1>1. CASE Positions(ip) = {}
  <2>1. Target(ip) = Fresh
    BY <1>1 DEF Target
  <2>2. \A r \in DOMAIN heap : heap[r].ip # ip
    BY <1>1, QueueType DEF Positions
  <2>. QED  BY <2>1, <2>2, FreshProperty
<1>2. CASE Positions(ip) # {}
  <2>1. Target(ip) = requests[Min(Positions(ip))]
    BY <1>2 DEF Target
  <2>2. Positions(ip) \subseteq Nat
    BY QueueType DEF Positions
  <2>3. Min(Positions(ip)) \in Positions(ip)
    BY <1>2, <2>2, MinProperty
  <2>4. /\ Min(Positions(ip)) \in 1 .. Len(requests)
        /\ heap[requests[Min(Positions(ip))]].ip = ip
    BY <2>3, QueueType DEF Positions
  <2>5. requests[Min(Positions(ip))] \in DOMAIN heap
    BY <2>4, QueueType
  <2>. QED  BY <2>1, <2>4, <2>5 DEF TypeOK
<1>. QED  BY <1>1, <1>2

(* sr_arpcache_queuereq() keeps queue and heap consistent; what a thread   *)
(* points to is left alone or has one packet more in front.                *)
LEMMA QueueStep ==
  ASSUME TypeOK, Consistent, NEW ip \in Address, NEW p \in Packet,
         QueueRequest(ip, p)
  PROVE  /\ requests' \in Seq(Nat \ {NULL})
         /\ DOMAIN heap' \subseteq Nat \ {NULL}
         /\ \A x \in DOMAIN heap' : heap'[x] \in Request
         /\ Consistent'
         /\ \A x \in DOMAIN heap' :
              \/ heap'[x].ip = ip
              \/ x \in DOMAIN heap /\ heap'[x].ip = heap[x].ip
         /\ \A x \in DOMAIN heap' \cap Held :
              /\ x \in DOMAIN heap
              /\ \/ heap'[x].packets = heap[x].packets
                 \/ heap'[x].packets = <<p>> \o heap[x].packets
<1>. DEFINE r == Target(ip)
            old == IF r \in DOMAIN heap THEN heap[r] ELSE NewRequest(ip)
            new == [old EXCEPT !.packets = <<p>> \o @]
<1>1. /\ r \in Nat \ {NULL}
      /\ r \in DOMAIN heap => heap[r].ip = ip
      /\ r \notin DOMAIN heap => r \notin Held /\ \A x \in DOMAIN heap : heap[x].ip # ip
  BY TargetProperty
<1>2. /\ heap' = [x \in DOMAIN heap \cup {r} |-> IF x = r THEN new ELSE heap[x]]
      /\ requests' = IF r \in Elements(requests) THEN requests
                     ELSE Append(requests, r)
  BY DEF QueueRequest
<1>. HIDE DEF r
<1>3. old \in Request /\ old.ip = ip
  <2>1. NewRequest(ip) \in Request /\ NewRequest(ip).ip = ip
    <3>1. <<>> \in Seq(Packet)
      OBVIOUS
    <3>. QED  BY <3>1 DEF NewRequest, Request
  <2>. QED  BY <1>1, <2>1 DEF TypeOK
<1>4. r \in DOMAIN heap => old = heap[r]
  OBVIOUS
<1>. HIDE DEF old
<1>5. old.packets \in Seq(Packet)
  BY <1>3 DEF Request
<1>6. <<p>> \o old.packets \in Seq(Packet) /\ <<p>> \o old.packets # <<>>
  BY <1>5, ElementsCons
<1>7. new \in Request /\ new.ip = ip /\ new.packets = <<p>> \o old.packets
  <2>. DEFINE ps == <<p>> \o old.packets
  <2>1. ps \in Seq(Packet) /\ new = [old EXCEPT !.packets = ps]
    BY <1>6
  <2>2. new.packets = ps
    <3>. HIDE DEF ps, new
    <3>. QED  BY <1>3, <2>1 DEF Request
  <2>3. new \in Request /\ new.ip = ip
    <3>. HIDE DEF ps, new
    <3>. QED  BY <1>3, <2>1 DEF Request
  <2>. QED  BY <2>2, <2>3
<1>. HIDE DEF new
<1>8. /\ DOMAIN heap' = DOMAIN heap \cup {r}
      /\ heap'[r] = new
      /\ \A x \in DOMAIN heap : x # r => heap'[x] = heap[x]
  BY <1>2
<1>9. DOMAIN heap' \subseteq Nat \ {NULL} /\ \A x \in DOMAIN heap' : heap'[x] \in Request
  BY <1>1, <1>7, <1>8 DEF TypeOK
<1>10. \A x \in DOMAIN heap' :
         \/ heap'[x].ip = ip
         \/ x \in DOMAIN heap /\ heap'[x].ip = heap[x].ip
  BY <1>7, <1>8
<1>11. \A x \in DOMAIN heap' \cap Held :
         /\ x \in DOMAIN heap
         /\ \/ heap'[x].packets = heap[x].packets
            \/ heap'[x].packets = <<p>> \o heap[x].packets
  BY <1>1, <1>4, <1>7, <1>8
<1>12. \A x \in DOMAIN heap' : heap'[x].packets # <<>>
  BY <1>6, <1>7, <1>8 DEF Consistent
<1>13. \A x \in DOMAIN heap : heap'[x].ip = heap[x].ip
  BY <1>1, <1>7, <1>8
<1>14. CASE r \in DOMAIN heap
  <2>1. requests' = requests /\ DOMAIN heap' = DOMAIN heap
    BY <1>2, <1>8, <1>14 DEF Consistent
  <2>2. \A i \in 1 .. Len(requests) : heap'[requests[i]].ip = heap[requests[i]].ip
    BY <1>13, QueueType
  <2>3. Elements(requests') = DOMAIN heap'
    BY <2>1 DEF Consistent
  <2>4. \A i, j \in DOMAIN requests' :
          heap'[requests'[i]].ip = heap'[requests'[j]].ip => i = j
    BY <2>1, <2>2, QueueType DEF Consistent
  <2>5. Consistent'
    BY <1>12, <2>3, <2>4 DEF Consistent
  <2>. QED  BY <1>9, <1>10, <1>11, <2>1, <2>5, QueueType
<1>15. CASE r \notin DOMAIN heap
  <2>. DEFINE n == Len(requests)
  <2>1. requests' = Append(requests, r)
    BY <1>2, <1>15 DEF Consistent
  <2>2. /\ requests' \in Seq(Nat \ {NULL}) /\ Len(requests') = n + 1
        /\ \A i \in 1 .. n : requests'[i] = requests[i]
        /\ requests'[n + 1] = r
    BY <1>1, <2>1, QueueType, AppendProperties
  <2>3. n \in Nat /\ DOMAIN requests' = 1 .. n + 1
        /\ Elements(requests') = {requests'[i] : i \in 1 .. n + 1}
    BY <2>2, QueueType, ElementsOf
  <2>4. \A i \in 1 .. n + 1 : i \in 1 .. n \/ i = n + 1
    BY <2>3
  <2>5. \A i \in 1 .. n : i \in 1 .. n + 1
    BY <2>3
  <2>6. n + 1 \in 1 .. n + 1
    BY <2>3
  <2>7. Elements(requests') = DOMAIN heap'
    <3>1. \A x \in Elements(requests') : x \in DOMAIN heap \cup {r}
      BY <2>2, <2>3, <2>4, QueueType
    <3>2. \A x \in DOMAIN heap : x \in Elements(requests')
      BY <2>2, <2>3, <2>5, QueueType
    <3>3. r \in Elements(requests')
      BY <2>2, <2>3, <2>6
    <3>. QED  BY <1>8, <3>1, <3>2, <3>3
  <2>8. \A i \in 1 .. n :
          heap'[requests'[i]].ip = heap[requests[i]].ip /\ heap[requests[i]].ip # ip
    BY <1>1, <1>13, <1>15, <2>2, QueueType
  <2>9. heap'[requests'[n + 1]].ip = ip
    BY <1>7, <1>8, <2>2
  <2>10. \A i, j \in DOMAIN requests' :
           heap'[requests'[i]].ip = heap'[requests'[j]].ip => i = j
    <3>1. \A i, j \in 1 .. n : heap[requests[i]].ip = heap[requests[j]].ip => i = j
      BY QueueType DEF Consistent
    <3>. QED  BY <2>3, <2>4, <2>8, <2>9, <3>1
  <2>11. Consistent'
    BY <1>12, <2>7, <2>10 DEF Consistent
  <2>. QED  BY <1>9, <1>10, <1>11, <2>2, <2>11
<1>. QED  BY <1>14, <1>15

(* sr_arpreq_destroy() keeps queue and heap consistent.                    *)
LEMMA DestroyStep ==
  ASSUME TypeOK, Consistent, NEW r \in DOMAIN heap, Destroy(r)
  PROVE  /\ requests' \in Seq(Nat \ {NULL})
         /\ DOMAIN heap' = DOMAIN heap \ {r}
         /\ \A x \in DOMAIN heap' : heap'[x] = heap[x]
         /\ Consistent'
<1>1. /\ requests' = RemoveFirst(requests, r)
      /\ heap' = [x \in DOMAIN heap \ {r} |-> heap[x]]
  BY DEF Destroy, Without
<1>2. DOMAIN heap' = DOMAIN heap \ {r} /\ \A x \in DOMAIN heap' : heap'[x] = heap[x]
  BY <1>1
<1>3. PICK k \in 1 .. Len(requests) : requests[k] = r
  BY QueueType
<1>4. /\ requests' \in Seq(Nat \ {NULL})
      /\ Elements(requests') = Elements(requests) \ {r}
      /\ \A i, j \in 1 .. Len(requests') : requests'[i] = requests'[j] => i = j
  <2>1. /\ requests \in Seq(Nat \ {NULL})
        /\ \A i, j \in 1 .. Len(requests) : requests[i] = requests[j] => i = j
    BY QueueType
  <2>2. /\ RemoveFirst(requests, requests[k]) \in Seq(Nat \ {NULL})
        /\ Elements(RemoveFirst(requests, requests[k]))
             = Elements(requests) \ {requests[k]}
        /\ \A i, j \in 1 .. Len(RemoveFirst(requests, requests[k])) :
             RemoveFirst(requests, requests[k])[i]
               = RemoveFirst(requests, requests[k])[j] => i = j
    BY <2>1, ElementsWithout
  <2>. QED  BY <1>1, <1>3, <2>2
<1>5. /\ DOMAIN requests' = 1 .. Len(requests')
      /\ Elements(requests') = {requests'[i] : i \in 1 .. Len(requests')}
  BY <1>4, ElementsOf
<1>6. Elements(requests') = DOMAIN heap'
  BY <1>2, <1>4 DEF Consistent
<1>7. \A x, y \in DOMAIN heap : heap[x].ip = heap[y].ip => x = y
  <2>1. SUFFICES ASSUME NEW x \in DOMAIN heap, NEW y \in DOMAIN heap,
                        heap[x].ip = heap[y].ip
                 PROVE  x = y
    OBVIOUS
  <2>2. PICK i \in 1 .. Len(requests) : requests[i] = x
    BY QueueType
  <2>3. PICK j \in 1 .. Len(requests) : requests[j] = y
    BY QueueType
  <2>. QED  BY <2>1, <2>2, <2>3, QueueType DEF Consistent
<1>8. \A i \in 1 .. Len(requests') :
        requests'[i] \in DOMAIN heap /\ heap'[requests'[i]] = heap[requests'[i]]
  BY <1>2, <1>5, <1>6
<1>9. \A i, j \in DOMAIN requests' :
        heap'[requests'[i]].ip = heap'[requests'[j]].ip => i = j
  BY <1>4, <1>5, <1>7, <1>8
<1>10. \A x \in DOMAIN heap' : heap'[x].packets # <<>>
  BY <1>2 DEF Consistent
<1>. QED  BY <1>2, <1>4, <1>6, <1>9, <1>10 DEF Consistent

-----------------------------------------------------------------------------
(* What each part of the invariant depends on. *)

(* No request that a thread points to gets anything but an ICMP error.     *)
OnlyErrors ==
  \A x \in DOMAIN heap' \cap Held :
    /\ x \in DOMAIN heap
    /\ \/ heap'[x].packets = heap[x].packets
       \/ \E p \in Packet : /\ p.proto = "error"
                            /\ heap'[x].packets = <<p>> \o heap[x].packets

(* Then what came too late for a call stays ICMP errors.                   *)
LEMMA LateCall ==
  ASSUME TypeOK, LateErrors, OnlyErrors,
         NEW t \in Thread, NEW f \in Elements(stack[t])
  PROVE  LateOK(f)'
<1>1. SUFFICES ASSUME f.pc = "giveup", f.req \in DOMAIN heap'
               PROVE  /\ f.taken <= Len(heap'[f.req].packets)
                      /\ \A i \in 1 .. (Len(heap'[f.req].packets) - f.taken) :
                           heap'[f.req].packets[i].proto = "error"
  BY DEF LateOK
<1>2. f.req \in Held
  BY DEF Held
<1>3. f \in Call
  <2>1. stack[t] \in Seq(Call)
    BY DEF TypeOK
  <2>. QED  BY <2>1, ElementsOf
<1>4. f.req \in DOMAIN heap /\ f.taken \in Nat
  BY <1>1, <1>2, <1>3 DEF Call, OnlyErrors
<1>. DEFINE ps == heap[f.req].packets
            qs == heap'[f.req].packets
<1>5. ps \in Seq(Packet) /\ Len(ps) \in Nat
  BY <1>4 DEF TypeOK, Request
<1>6. f.taken <= Len(ps) /\ \A i \in 1 .. (Len(ps) - f.taken) : ps[i].proto = "error"
  BY <1>1, <1>4 DEF LateErrors, LateOK
<1>7. \/ qs = ps
      \/ \E p \in Packet : p.proto = "error" /\ qs = <<p>> \o ps
  BY <1>1, <1>2 DEF OnlyErrors
<1>. HIDE DEF ps, qs
<1>8. CASE qs = ps
  BY <1>6, <1>8 DEF qs
<1>9. ASSUME NEW p \in Packet, p.proto = "error", qs = <<p>> \o ps
      PROVE  /\ f.taken <= Len(qs)
             /\ \A i \in 1 .. (Len(qs) - f.taken) : qs[i].proto = "error"
  <2>1. /\ Len(qs) = Len(ps) + 1 /\ qs[1] = p
        /\ \A i \in 1 .. Len(ps) : qs[i + 1] = ps[i]
    BY <1>5, <1>9, ElementsCons
  <2>2. ASSUME NEW i \in 1 .. (Len(qs) - f.taken), i # 1
        PROVE  qs[i].proto = "error"
    <3>1. i - 1 \in 1 .. (Len(ps) - f.taken) /\ i - 1 \in 1 .. Len(ps)
          /\ (i - 1) + 1 = i
      BY <1>4, <1>5, <2>1, <2>2
    <3>2. qs[i] = ps[i - 1]
      BY <2>1, <3>1
    <3>. QED  BY <1>6, <3>1, <3>2
  <2>3. f.taken <= Len(qs)
    BY <1>4, <1>5, <1>6, <2>1
  <2>. QED  BY <1>9, <2>1, <2>2, <2>3
<1>. QED  BY <1>7, <1>8, <1>9 DEF qs

(* So they do for every call, when the calls that step in are all right.   *)
LEMMA LateFrame ==
  ASSUME TypeOK, LateErrors, OnlyErrors,
         NEW P, StackStep(P), \A f \in P : LateOK(f)'
  PROVE  LateErrors'
<1>1. \A t \in Thread : \A f \in Elements(stack[t]) : LateOK(f)'
  BY LateCall
<1>2. \A t \in Thread : \A f \in Elements(stack'[t]) :
        f \in P \/ f \in Elements(stack[t])
  BY DEF StackStep
<1>. QED  BY <1>1, <1>2 DEF LateErrors

(* The same while the heap only shrinks or keeps its packets.              *)
LEMMA LateKept ==
  ASSUME TypeOK, LateErrors, NEW P, StackStep(P), \A f \in P : LateOK(f)',
         \A x \in DOMAIN heap' :
           x \in DOMAIN heap /\ heap'[x].packets = heap[x].packets
  PROVE  LateErrors'
BY LateFrame DEF OnlyErrors

(* Nobody's stack changes.                                                 *)
LEMMA SameStack ==
  ASSUME TypeOK, UNCHANGED stack
  PROVE  StackStep({})
BY DEF TypeOK, StackStep

(* Types, when a step changes only stacks, or leaves them alone.           *)
LEMMA StackTypes ==
  ASSUME TypeOK, NEW P, StackStep(P), UNCHANGED <<entries, requests, heap, fault>>
  PROVE  TypeOK'
BY DEF TypeOK, StackStep

(* Queue and addresses, while heap and cache are left alone.               *)
LEMMA QueueFrame ==
  ASSUME Consistent, NoWaitWhenKnown, UNCHANGED <<entries, requests, heap>>
  PROVE  Consistent' /\ NoWaitWhenKnown'
BY DEF Consistent, NoWaitWhenKnown, Elements, Cached

(* A step that only moves the stack, with all right calls.                 *)
LEMMA OnlyStack ==
  ASSUME ArpInv, NEW P, StackStep(P), \A f \in P : LateOK(f)',
         UNCHANGED <<entries, requests, heap, fault>>
  PROVE  ArpInv'
<1>1. TypeOK'
  BY ArpParts, StackTypes
<1>2. Consistent' /\ NoWaitWhenKnown'
  BY ArpParts, QueueFrame
<1>3. \A x \in DOMAIN heap' :
        x \in DOMAIN heap /\ heap'[x].packets = heap[x].packets
  OBVIOUS
<1>4. LateErrors'
  BY <1>3, ArpParts, LateKept
<1>. QED  BY <1>1, <1>2, <1>4, ArpParts, PTL

-----------------------------------------------------------------------------
(* The actions of sr_arpcache_handle_arpreq(). *)

(* A call that reads an allocated request.                                 *)
LEMMA LiveCall ==
  ASSUME TypeOK, NEW t \in Thread, NEW pc, Live(t, pc)
  PROVE  /\ stack[t] # <<>> /\ Top(t) \in Call /\ Top(t).pc = pc
         /\ Top(t) \in Elements(stack[t])
         /\ Top(t).req \in DOMAIN heap /\ Top(t).req \in Nat \ {NULL}
         /\ heap[Top(t).req] \in Request
<1>1. stack[t] # <<>> /\ Top(t).pc = pc /\ Top(t).req \in DOMAIN heap
  BY DEF Live, At
<1>. QED  BY <1>1, TopType DEF TypeOK

(* The entry of sr_arpcache_handle_arpreq(): when it starts to give a      *)
(* request up, all its packets are to be answered.                         *)
LEMMA HandleArpreqStep ==
  ASSUME ArpInv, NEW t \in Thread, HandleArpreq(t)
  PROVE  ArpInv'
<1>1. TypeOK
  BY ArpParts
<1>2. Live(t, "handle") /\ UNCHANGED <<entries, requests, heap, fault>>
  BY DEF HandleArpreq
<1>. PICK r : r = Top(t).req
  OBVIOUS
<1>. PICK q : q = heap[r]
  OBVIOUS
<1>3. stack[t] # <<>> /\ r \in Nat /\ q \in Request
  BY <1>1, <1>2, LiveCall
<1>4. CASE Return(t)
  BY <1>1, <1>2, <1>3, <1>4, ReturnStep, OnlyStack
<1>5. CASE Goto(t, [Frame("send", r) EXCEPT !.seen = q.times_sent])
  <2>1. PICK f : f = [Frame("send", r) EXCEPT !.seen = q.times_sent]
    OBVIOUS
  <2>2. f \in Call /\ f.pc = "send"
    <3>1. Frame("send", r) \in Call /\ Frame("send", r).pc = "send"
      BY <1>3, FrameType DEF PC, Frame
    <3>. QED  BY <1>3, <2>1, <3>1 DEF Call, Request
  <2>3. StackStep({f})
    BY <1>1, <1>3, <1>5, <2>1, <2>2, GotoStep
  <2>4. LateOK(f)'
    BY <2>2 DEF LateOK
  <2>. QED  BY <1>2, <2>3, <2>4, OnlyStack
<1>6. CASE Goto(t, [Frame("giveup", r) EXCEPT !.todo = q.packets,
                                              !.taken = Len(q.packets)])
  <2>1. PICK f : f = [Frame("giveup", r) EXCEPT !.todo = q.packets,
                                                !.taken = Len(q.packets)]
    OBVIOUS
  <2>2. /\ f \in Call /\ f.req = r /\ f.taken = Len(q.packets)
        /\ Len(q.packets) \in Nat
    <3>1. Frame("giveup", r) \in Call /\ Frame("giveup", r).req = r
      BY <1>3, FrameType DEF PC, Frame
    <3>2. q.packets \in Seq(Packet) /\ Len(q.packets) \in Nat
      BY <1>3 DEF Request
    <3>. QED  BY <2>1, <3>1, <3>2 DEF Call
  <2>3. StackStep({f})
    BY <1>1, <1>3, <1>6, <2>1, <2>2, GotoStep
  <2>4. LateOK(f)'
    <3>1. heap'[f.req] = q
      BY <1>2, <2>2
    <3>2. 1 .. (Len(q.packets) - f.taken) = {}
      BY <2>2
    <3>. QED  BY <2>2, <3>1, <3>2 DEF LateOK
  <2>. QED  BY <1>2, <2>3, <2>4, OnlyStack
<1>. QED  BY <1>4, <1>5, <1>6 DEF HandleArpreq

(* A call that changes no packets and returns.                             *)
LEMMA SendRequestStep ==
  ASSUME ArpInv, NEW t \in Thread, SendRequest(t)
  PROVE  ArpInv'
<1>1. TypeOK /\ Consistent /\ NoWaitWhenKnown /\ LateErrors
  BY ArpParts
<1>2. Live(t, "send") /\ Return(t) /\ UNCHANGED <<entries, requests, fault>>
  BY DEF SendRequest
<1>. PICK r : r = Top(t).req
  OBVIOUS
<1>3. /\ stack[t] # <<>> /\ r \in DOMAIN heap /\ heap[r] \in Request
      /\ Top(t).seen \in Nat
  BY <1>1, <1>2, LiveCall DEF Call
<1>4. PICK n \in {heap[r].times_sent, Top(t).seen} :
        heap' = [heap EXCEPT ![r].due = FALSE, ![r].times_sent = n + 1]
  BY DEF SendRequest
<1>5. n \in Nat
  BY <1>3, <1>4 DEF Request
<1>6. /\ DOMAIN heap' = DOMAIN heap
      /\ \A x \in DOMAIN heap' : /\ heap'[x] \in Request
                                 /\ heap'[x].ip = heap[x].ip
                                 /\ heap'[x].packets = heap[x].packets
  <2>1. heap' = [heap EXCEPT ![r] = [heap[r] EXCEPT !.due = FALSE,
                                                    !.times_sent = n + 1]]
    BY <1>3, <1>4
  <2>. PICK q : q = [heap[r] EXCEPT !.due = FALSE, !.times_sent = n + 1]
    OBVIOUS
  <2>2. q \in Request /\ q.ip = heap[r].ip /\ q.packets = heap[r].packets
    <3>. PICK o : o = heap[r]
      OBVIOUS
    <3>1. /\ o.ip \in Address /\ o.packets \in Seq(Packet)
          /\ q = [ip |-> o.ip, due |-> FALSE, times_sent |-> n + 1,
                  packets |-> o.packets]
      BY <1>3 DEF Request
    <3>2. n + 1 \in Nat
      BY <1>5
    <3>3. q \in Request
      BY <3>1, <3>2 DEF Request
    <3>4. q.ip = o.ip /\ q.packets = o.packets
      BY <3>1
    <3>. QED  BY <3>3, <3>4
  <2>3. /\ DOMAIN heap' = DOMAIN heap /\ heap'[r] = q
        /\ \A x \in DOMAIN heap : x # r => heap'[x] = heap[x]
    <3>1. heap' = [heap EXCEPT ![r] = q]
      BY <2>1
    <3>. QED  BY <1>3, <3>1
  <2>. QED  BY <1>1, <2>2, <2>3 DEF TypeOK
<1>7. StackStep({})
  BY <1>1, <1>2, <1>3, ReturnStep
<1>8. TypeOK'
  BY <1>1, <1>2, <1>6, <1>7 DEF TypeOK, StackStep
<1>9. Consistent'
  <2>1. \A i \in DOMAIN requests : heap'[requests[i]].ip = heap[requests[i]].ip
    BY <1>1, <1>6, QueueType
  <2>. QED  BY <1>1, <1>2, <1>6, <2>1 DEF Consistent
<1>10. NoWaitWhenKnown'
  BY <1>1, <1>2, <1>6 DEF NoWaitWhenKnown, Cached
<1>11. LateErrors'
  BY <1>1, <1>6, <1>7, LateKept
<1>. QED  BY <1>8, <1>9, <1>10, <1>11, ArpParts, PTL

(* A turn of the loop over the packets: what is queued now is an ICMP      *)
(* error, and it waits for an address that is not in the cache.            *)
LEMMA AnswerPacketStep ==
  ASSUME ArpInv, NEW t \in Thread, AnswerPacket(t)
  PROVE  ArpInv'
<1>1. TypeOK /\ Consistent /\ NoWaitWhenKnown /\ LateErrors
  BY ArpParts
<1>2. Live(t, "giveup") /\ Top(t).todo # <<>> /\ UNCHANGED <<entries, fault>>
  BY DEF AnswerPacket
<1>. PICK f : f = Top(t)
  OBVIOUS
<1>. PICK p : p = Head(f.todo)
  OBVIOUS
<1>. PICK g : g = Advanced(f)
  OBVIOUS
<1>3. /\ stack[t] # <<>> /\ f \in Call /\ f \in Elements(stack[t])
      /\ f.req \in DOMAIN heap /\ f.pc = "giveup"
  BY <1>1, <1>2, LiveCall
<1>4. p \in Packet /\ Tail(f.todo) \in Seq(Packet)
  BY <1>2, <1>3, ElementsTail DEF Call
<1>5. g \in Call /\ g.pc = f.pc /\ g.req = f.req /\ g.taken = f.taken
  BY <1>3, <1>4 DEF Advanced, Call
<1>6. CASE ~ NeedsRequest(p)
  <2>1. Goto(t, g) /\ UNCHANGED <<requests, heap>>
    BY <1>6 DEF AnswerPacket
  <2>2. StackStep({g})
    BY <1>1, <1>3, <1>5, <2>1, GotoStep
  <2>3. LateOK(f)
    BY <1>1, <1>3 DEF LateErrors
  <2>4. LateOK(g)'
    BY <1>5, <2>1, <2>3 DEF LateOK
  <2>. QED  BY <1>2, <2>1, <2>2, <2>4, OnlyStack
<1>7. CASE NeedsRequest(p)
  <2>. PICK h : h = Frame("handle", Target(p.src))
    OBVIOUS
  <2>1. QueueRequest(p.src, Error(p)) /\ GotoAndCall(t, g, h)
    BY <1>7 DEF AnswerPacket
  <2>2. p.src \in Routed /\ p.src \in Address /\ ~ Cached(p.src)
    BY <1>4, <1>7 DEF NeedsRequest, Answerable, Packet
  <2>3. Error(p) \in Packet /\ Error(p).proto = "error"
    BY <1>4, <2>2, ErrorType
  <2>4. h \in Call /\ h.pc = "handle"
    <3>1. Target(p.src) \in Nat
      BY <1>1, TargetProperty
    <3>. QED  BY <3>1, FrameType DEF PC, Frame
  <2>5. StackStep({g, h})
    BY <1>1, <1>3, <1>5, <2>1, <2>4, CallStep
  <2>6. /\ requests' \in Seq(Nat \ {NULL})
        /\ DOMAIN heap' \subseteq Nat \ {NULL}
        /\ \A x \in DOMAIN heap' : heap'[x] \in Request
        /\ Consistent'
        /\ \A x \in DOMAIN heap' :
             \/ heap'[x].ip = p.src
             \/ x \in DOMAIN heap /\ heap'[x].ip = heap[x].ip
        /\ \A x \in DOMAIN heap' \cap Held :
             /\ x \in DOMAIN heap
             /\ \/ heap'[x].packets = heap[x].packets
                \/ heap'[x].packets = <<Error(p)>> \o heap[x].packets
    BY <1>1, <2>1, <2>2, <2>3, QueueStep
  <2>7. TypeOK'
    BY <1>1, <1>2, <2>5, <2>6 DEF TypeOK, StackStep
  <2>8. NoWaitWhenKnown'
    BY <1>1, <1>2, <2>2, <2>6 DEF NoWaitWhenKnown, Cached
  <2>9. OnlyErrors
    BY <2>3, <2>6 DEF OnlyErrors
  <2>10. LateErrors'
    <3>1. LateOK(f)'
      BY <1>1, <1>3, <2>9, LateCall
    <3>2. LateOK(g)'
      BY <1>5, <3>1 DEF LateOK
    <3>3. LateOK(h)'
      BY <2>4 DEF LateOK
    <3>. QED  BY <1>1, <2>5, <2>9, <3>2, <3>3, LateFrame
  <2>. QED  BY <2>6, <2>7, <2>8, <2>10, ArpParts, PTL
<1>. QED  BY <1>6, <1>7

(* A request that leaves the queue: the rest of the invariant.             *)
LEMMA DestroyKeeps ==
  ASSUME ArpInv, NEW r \in DOMAIN heap, Destroy(r), StackStep({}),
         UNCHANGED fault, entries' \in [1 .. CacheSize -> Address \cup {Invalid}],
         \A x \in DOMAIN heap \ {r} : \A i \in DOMAIN entries' : entries'[i] # heap[x].ip
  PROVE  ArpInv'
<1>1. TypeOK /\ Consistent /\ NoWaitWhenKnown /\ LateErrors
  BY ArpParts
<1>2. /\ requests' \in Seq(Nat \ {NULL})
      /\ DOMAIN heap' = DOMAIN heap \ {r}
      /\ \A x \in DOMAIN heap' : heap'[x] = heap[x]
      /\ Consistent'
  BY <1>1, DestroyStep
<1>3. TypeOK'
  BY <1>1, <1>2 DEF TypeOK, StackStep
<1>4. NoWaitWhenKnown'
  BY <1>2 DEF NoWaitWhenKnown, Cached
<1>5. LateErrors'
  BY <1>1, <1>2, LateKept
<1>. QED  BY <1>2, <1>3, <1>4, <1>5, ArpParts, PTL

(* All packets are answered: the request leaves the queue.                 *)
LEMMA GiveUpDoneStep ==
  ASSUME ArpInv, NEW t \in Thread, GiveUpDone(t)
  PROVE  ArpInv'
<1>1. TypeOK /\ NoWaitWhenKnown
  BY ArpParts
<1>2. /\ Live(t, "giveup") /\ Destroy(Top(t).req) /\ Return(t)
      /\ UNCHANGED <<entries, fault>>
  BY DEF GiveUpDone
<1>3. stack[t] # <<>> /\ Top(t).req \in DOMAIN heap
  BY <1>1, <1>2, LiveCall
<1>4. StackStep({})
  BY <1>1, <1>2, <1>3, ReturnStep
<1>5. \A x \in DOMAIN heap : \A i \in DOMAIN entries' : entries'[i] # heap[x].ip
  BY <1>1, <1>2 DEF NoWaitWhenKnown, Cached
<1>. PICK r : r = Top(t).req
  OBVIOUS
<1>. QED  BY <1>1, <1>2, <1>3, <1>4, <1>5, DestroyKeeps DEF TypeOK

(* What the program did that C does not define changes nothing else.       *)
LEMMA FaultStep ==
  ASSUME ArpInv, NEW t \in Thread, ExhaustStack(t) \/ UseFreed(t)
  PROVE  ArpInv'
<1>1. TypeOK /\ Consistent /\ NoWaitWhenKnown /\ LateErrors
  BY ArpParts
<1>2. UNCHANGED <<entries, requests, heap, stack>> /\ fault' \in {"freed", "overflow"}
  BY DEF ExhaustStack, UseFreed
<1>3. TypeOK'
  BY <1>1, <1>2 DEF TypeOK
<1>4. Consistent' /\ NoWaitWhenKnown'
  BY <1>1, <1>2, QueueFrame
<1>5. LateErrors'
  BY <1>1, <1>2, SameStack, LateKept
<1>. QED  BY <1>3, <1>4, <1>5, ArpParts, PTL

-----------------------------------------------------------------------------
(* The actions of the sweeper. *)

(* It starts: entries get invalid, none gets valid.                        *)
LEMMA BeginSweepStep ==
  ASSUME ArpInv, BeginSweep
  PROVE  ArpInv'
<1>1. TypeOK /\ Consistent /\ NoWaitWhenKnown /\ LateErrors
  BY ArpParts
<1>2. UNCHANGED <<requests, heap, fault>>
  BY DEF BeginSweep
<1>3. PICK old \in SUBSET {i \in DOMAIN entries : entries[i] # Invalid} :
        entries' = [i \in DOMAIN entries |-> IF i \in old THEN Invalid ELSE entries[i]]
  BY DEF BeginSweep
<1>4. /\ entries' \in [1 .. CacheSize -> Address \cup {Invalid}]
      /\ \A i \in DOMAIN entries' : i \in DOMAIN entries
                                    /\ entries'[i] \in {Invalid, entries[i]}
  BY <1>1, <1>3 DEF TypeOK
<1>5. PICK f : f = Frame("sweep", IF requests = <<>> THEN NULL ELSE Head(requests))
  OBVIOUS
<1>6. f \in Call /\ f.pc = "sweep"
  <2>1. (IF requests = <<>> THEN NULL ELSE Head(requests)) \in Nat
    BY <1>1, ElementsTail DEF TypeOK, NULL
  <2>. QED  BY <1>5, <2>1, FrameType DEF PC, Frame
<1>7. StackStep({f})
  <2>1. stack \in [Thread -> Seq(Call)] /\ stack' = [stack EXCEPT !["sweep"] = <<f>>]
    BY <1>1, <1>5 DEF TypeOK, BeginSweep
  <2>2. <<f>> \in Seq(Call) /\ Elements(<<f>>) = {f}
    BY <1>6 DEF Elements
  <2>. QED  BY <2>1, <2>2 DEF StackStep
<1>8. TypeOK'
  BY <1>1, <1>2, <1>4, <1>7 DEF TypeOK, StackStep
<1>9. Consistent'
  BY <1>1, <1>2 DEF Consistent, Elements
<1>10. NoWaitWhenKnown'
  <2>1. \A r \in DOMAIN heap : heap[r].ip # Invalid
    BY <1>1, ArpCacheAssumption DEF TypeOK, Request
  <2>. QED  BY <1>1, <1>2, <1>4, <2>1 DEF NoWaitWhenKnown, Cached
<1>11. LateErrors'
  <2>1. LateOK(f)'
    BY <1>6 DEF LateOK
  <2>. QED  BY <1>1, <1>2, <1>7, <2>1, LateKept
<1>. QED  BY <1>8, <1>9, <1>10, <1>11, ArpParts, PTL

(* It handles a request, with the next one saved.                          *)
LEMMA SweepNextStep ==
  ASSUME ArpInv, SweepNext
  PROVE  ArpInv'
<1>1. TypeOK /\ Consistent
  BY ArpParts
<1>2. Live("sweep", "sweep") /\ UNCHANGED <<entries, requests, heap, fault>>
  BY DEF SweepNext
<1>3. "sweep" \in Thread
  BY DEF Thread
<1>4. PICK r : r = Top("sweep").req
  OBVIOUS
<1>5. stack["sweep"] # <<>> /\ r \in DOMAIN heap /\ r \in Nat
  BY <1>1, <1>2, <1>3, <1>4, LiveCall
<1>6. Successor(r) \in Nat
  <2>1. \E j \in DOMAIN requests : requests[j] = r
    BY <1>1, <1>5, QueueType
  <2>. DEFINE i == CHOOSE j \in DOMAIN requests : requests[j] = r
  <2>2. i \in DOMAIN requests
    BY <2>1
  <2>. HIDE DEF i
  <2>3. i \in 1 .. Len(requests) /\ Len(requests) \in Nat
    BY <1>1, <2>2, QueueType
  <2>4. i < Len(requests) => requests[i + 1] \in Nat
    <3>1. i < Len(requests) => i + 1 \in 1 .. Len(requests)
      BY <2>3
    <3>. QED  BY <1>1, <3>1, QueueType, ElementOfSeq
  <2>. QED  BY <2>4 DEF Successor, NULL, i
<1>7. PICK f : f = Frame("sweep", Successor(r))
  OBVIOUS
<1>8. PICK g : g = Frame("handle", r)
  OBVIOUS
<1>9. f \in Call /\ f.pc = "sweep" /\ g \in Call /\ g.pc = "handle"
  BY <1>5, <1>6, <1>7, <1>8, FrameType DEF PC, Frame
<1>10. StackStep({f, g})
  BY <1>1, <1>3, <1>4, <1>5, <1>7, <1>8, <1>9, CallStep DEF SweepNext
<1>11. LateOK(f)' /\ LateOK(g)'
  BY <1>9 DEF LateOK
<1>. QED  BY <1>2, <1>10, <1>11, OnlyStack

(* It ends.                                                                *)
LEMMA EndSweepStep ==
  ASSUME ArpInv, EndSweep
  PROVE  ArpInv'
<1>1. /\ stack["sweep"] # <<>> /\ Return("sweep") /\ "sweep" \in Thread
      /\ UNCHANGED <<entries, requests, heap, fault>>
  BY DEF EndSweep, At, Thread
<1>. QED  BY <1>1, ArpParts, ReturnStep, OnlyStack

-----------------------------------------------------------------------------
(* The actions of the thread that receives. *)

(* A packet whose next hop is not known is queued: no thread is in a call. *)
LEMMA ReceivePacketStep ==
  ASSUME ArpInv, ReceivePacket
  PROVE  ArpInv'
<1>1. TypeOK /\ Consistent /\ NoWaitWhenKnown /\ LateErrors
  BY ArpParts
<1>2. /\ UNCHANGED <<entries, fault>>
      /\ stack["main"] = <<>> /\ stack["sweep"] = <<>>
  BY DEF ReceivePacket, Idle, LockFree
<1>3. PICK p \in Traffic : \E q \in Handled(p) :
        /\ ~ Cached(q.dst)
        /\ QueueRequest(q.dst, q)
        /\ stack' = [stack EXCEPT !["main"] = <<Frame("handle", Target(q.dst))>>]
  BY DEF ReceivePacket
<1>4. PICK q \in Handled(p) :
         /\ ~ Cached(q.dst)
         /\ QueueRequest(q.dst, q)
         /\ stack' = [stack EXCEPT !["main"] = <<Frame("handle", Target(q.dst))>>]
  BY <1>3
<1>5. q \in Packet /\ q.dst \in Address
  BY HandledType, ArpCacheAssumption DEF Packet
<1>6. PICK f : f = Frame("handle", Target(q.dst))
  OBVIOUS
<1>7. f \in Call /\ f.pc = "handle"
  <2>1. Target(q.dst) \in Nat
    BY <1>1, TargetProperty
  <2>. QED  BY <1>6, <2>1, FrameType DEF PC, Frame
<1>8. StackStep({f})
  <2>1. stack \in [Thread -> Seq(Call)] /\ stack' = [stack EXCEPT !["main"] = <<f>>]
    BY <1>1, <1>4, <1>6 DEF TypeOK
  <2>2. <<f>> \in Seq(Call) /\ Elements(<<f>>) = {f}
    BY <1>7 DEF Elements
  <2>. QED  BY <2>1, <2>2 DEF StackStep
<1>9. /\ requests' \in Seq(Nat \ {NULL})
      /\ DOMAIN heap' \subseteq Nat \ {NULL}
      /\ \A x \in DOMAIN heap' : heap'[x] \in Request
      /\ Consistent'
      /\ \A x \in DOMAIN heap' :
           \/ heap'[x].ip = q.dst
           \/ x \in DOMAIN heap /\ heap'[x].ip = heap[x].ip
  BY <1>1, <1>4, <1>5, QueueStep
<1>10. TypeOK'
  BY <1>1, <1>2, <1>8, <1>9 DEF TypeOK, StackStep
<1>11. NoWaitWhenKnown'
  BY <1>1, <1>2, <1>4, <1>9 DEF NoWaitWhenKnown, Cached
<1>12. OnlyErrors
  <2>1. Elements(stack["main"]) = {} /\ Elements(stack["sweep"]) = {}
    BY <1>2 DEF Elements
  <2>2. Held = {}
    BY <2>1 DEF Held, Thread
  <2>. QED  BY <2>2 DEF OnlyErrors
<1>13. LateErrors'
  <2>1. LateOK(f)'
    BY <1>7 DEF LateOK
  <2>. QED  BY <1>1, <1>8, <1>12, <2>1, LateFrame
<1>. QED  BY <1>9, <1>10, <1>11, <1>13, ArpParts, PTL

(* An address that enters the cache is that of the reply.                  *)
LEMMA InsertStep ==
  ASSUME TypeOK, NEW ip \in Host, Insert(ip)
  PROVE  /\ entries' \in [1 .. CacheSize -> Address \cup {Invalid}]
         /\ \A i \in DOMAIN entries' : entries'[i] = ip \/ Cached(entries'[i])
<1>. DEFINE free == {i \in DOMAIN entries : entries[i] = Invalid}
<1>1. /\ entries \in [1 .. CacheSize -> Address \cup {Invalid}]
      /\ ip \in Address
  BY DEF TypeOK, Address
<1>2. CASE free = {}
  <2>1. entries' = entries
    BY <1>2 DEF Insert
  <2>. QED  BY <1>1, <2>1 DEF Cached
<1>3. CASE free # {}
  <2>1. entries' = [entries EXCEPT ![Min(free)] = ip]
    BY <1>3 DEF Insert
  <2>2. free \subseteq Nat
    BY <1>1, ArpCacheAssumption
  <2>3. Min(free) \in DOMAIN entries
    BY <1>3, <2>2, MinProperty
  <2>. PICK m : m = Min(free)
    OBVIOUS
  <2>4. m \in DOMAIN entries /\ entries' = [entries EXCEPT ![m] = ip]
    BY <2>1, <2>3
  <2>. QED  BY <1>1, <2>4 DEF Cached
<1>. QED  BY <1>2, <1>3

(* An ARP reply: the request for its address leaves the queue with it.     *)
LEMMA ReceiveReplyStep ==
  ASSUME ArpInv, NEW ip \in Host, ReceiveReply(ip)
  PROVE  ArpInv'
<1>1. TypeOK /\ Consistent /\ NoWaitWhenKnown /\ LateErrors
  BY ArpParts
<1>2. Insert(ip) /\ Unlink(ip) /\ UNCHANGED <<stack, fault>>
  BY DEF ReceiveReply
<1>3. /\ entries' \in [1 .. CacheSize -> Address \cup {Invalid}]
      /\ \A i \in DOMAIN entries' : entries'[i] = ip \/ Cached(entries'[i])
  BY <1>1, <1>2, InsertStep
<1>4. StackStep({})
  BY <1>1, <1>2, SameStack
<1>5. CASE Positions(ip) = {}
  <2>1. UNCHANGED <<requests, heap>>
    BY <1>2, <1>5 DEF Unlink
  <2>2. \A r \in DOMAIN heap : heap[r].ip # ip
    BY <1>1, <1>5, QueueType DEF Positions
  <2>3. TypeOK'
    BY <1>1, <1>2, <1>3, <2>1 DEF TypeOK
  <2>4. Consistent'
    BY <1>1, <2>1 DEF Consistent, Elements
  <2>5. NoWaitWhenKnown'
    <3>1. \A r \in DOMAIN heap : \A i \in DOMAIN entries' : entries'[i] # heap[r].ip
      BY <1>1, <1>3, <2>2 DEF NoWaitWhenKnown
    <3>. QED  BY <2>1, <3>1 DEF NoWaitWhenKnown, Cached
  <2>6. LateErrors'
    BY <1>1, <1>4, <2>1, LateKept
  <2>. QED  BY <2>3, <2>4, <2>5, <2>6, ArpParts, PTL
<1>6. CASE Positions(ip) # {}
  <2>. PICK k : k = Min(Positions(ip))
    OBVIOUS
  <2>1. Positions(ip) \subseteq Nat
    BY <1>1, QueueType DEF Positions
  <2>2. k \in Positions(ip)
    BY <1>6, <2>1, MinProperty
  <2>3. k \in 1 .. Len(requests) /\ heap[requests[k]].ip = ip
    BY <1>1, <2>2, QueueType DEF Positions
  <2>. PICK r : r = requests[k]
    OBVIOUS
  <2>4. r \in DOMAIN heap /\ heap[r].ip = ip
    BY <1>1, <2>3, QueueType
  <2>5. Destroy(r)
    BY <1>2, <1>6 DEF Unlink
  <2>6. \A x \in DOMAIN heap \ {r} : heap[x].ip # ip
    <3>1. SUFFICES ASSUME NEW x \in DOMAIN heap, x # r PROVE heap[x].ip # ip
      OBVIOUS
    <3>2. PICK j \in 1 .. Len(requests) : requests[j] = x
      BY <1>1, QueueType
    <3>3. j # k
      BY <3>1, <3>2
    <3>4. j \in DOMAIN requests /\ k \in DOMAIN requests
      BY <1>1, <2>3, <3>2, QueueType
    <3>5. heap[requests[j]].ip # heap[requests[k]].ip
      BY <1>1, <3>3, <3>4 DEF Consistent
    <3>. QED  BY <2>3, <3>2, <3>5
  <2>7. \A x \in DOMAIN heap \ {r} : \A i \in DOMAIN entries' : entries'[i] # heap[x].ip
    BY <1>1, <1>3, <2>6 DEF NoWaitWhenKnown
  <2>. QED  BY <1>2, <1>3, <1>4, <2>4, <2>5, <2>7, DestroyKeeps
<1>. QED  BY <1>5, <1>6

-----------------------------------------------------------------------------
(* The invariant. *)

(* Time passes.                                                            *)
LEMMA TickStep ==
  ASSUME ArpInv, Tick
  PROVE  ArpInv'
<1>1. TypeOK /\ Consistent /\ NoWaitWhenKnown /\ LateErrors
  BY ArpParts
<1>2. /\ heap' = [r \in DOMAIN heap |-> [heap[r] EXCEPT !.due = TRUE]]
      /\ UNCHANGED <<entries, requests, stack, fault>>
  BY DEF Tick
<1>3. /\ DOMAIN heap' = DOMAIN heap
      /\ \A x \in DOMAIN heap' : /\ heap'[x] \in Request
                                 /\ heap'[x].ip = heap[x].ip
                                 /\ heap'[x].packets = heap[x].packets
  <2>1. \A x \in DOMAIN heap : heap'[x] = [heap[x] EXCEPT !.due = TRUE]
    BY <1>2
  <2>. QED  BY <1>1, <1>2, <2>1 DEF TypeOK, Request
<1>4. TypeOK'
  BY <1>1, <1>2, <1>3 DEF TypeOK
<1>5. Consistent'
  <2>1. \A i \in DOMAIN requests : heap'[requests[i]].ip = heap[requests[i]].ip
    BY <1>1, <1>3, QueueType
  <2>. QED  BY <1>1, <1>2, <1>3, <2>1 DEF Consistent
<1>6. NoWaitWhenKnown'
  BY <1>1, <1>2, <1>3 DEF NoWaitWhenKnown, Cached
<1>7. LateErrors'
  BY <1>1, <1>2, <1>3, SameStack, LateKept
<1>. QED  BY <1>4, <1>5, <1>6, <1>7, ArpParts, PTL

(* At the start nothing is cached and nothing waits.                       *)
LEMMA InitInvariant ==
  ASSUME Init
  PROVE  ArpInv
<1>1. TypeOK
  BY DEF Init, TypeOK
<1>2. Consistent
  BY DEF Init, Consistent, Elements
<1>3. NoWaitWhenKnown
  BY DEF Init, NoWaitWhenKnown
<1>4. LateErrors
  <2>1. \A t \in Thread : Elements(stack[t]) = {}
    BY DEF Init, Elements
  <2>. QED  BY <2>1 DEF LateErrors
<1>. QED  BY <1>1, <1>2, <1>3, <1>4, ArpParts

(* Every step preserves the invariant.                                     *)
LEMMA NextInvariant ==
  ASSUME ArpInv, [Next]_vars
  PROVE  ArpInv'
<1>1. ASSUME NEW t \in Thread, Calls(t)
      PROVE  ArpInv'
  <2>1. CASE HandleArpreq(t)
    BY <2>1, HandleArpreqStep
  <2>2. CASE SendRequest(t)
    BY <2>2, SendRequestStep
  <2>3. CASE AnswerPacket(t)
    BY <2>3, AnswerPacketStep
  <2>4. CASE GiveUpDone(t)
    BY <2>4, GiveUpDoneStep
  <2>5. CASE ExhaustStack(t) \/ UseFreed(t)
    BY <2>5, FaultStep
  <2>. QED  BY <1>1, <2>1, <2>2, <2>3, <2>4, <2>5 DEF Calls
<1>2. CASE Sweep
  BY <1>1, <1>2, BeginSweepStep, SweepNextStep, EndSweepStep DEF Sweep, Thread
<1>3. CASE Main
  BY <1>1, <1>3, ReceivePacketStep, ReceiveReplyStep DEF Main, Thread
<1>4. CASE Tick
  BY <1>4, TickStep
<1>5. CASE UNCHANGED vars
  <2>1. UNCHANGED <<entries, requests, heap, stack, fault>>
    BY <1>5 DEF vars
  <2>. QED  BY <2>1, ArpParts, SameStack, OnlyStack
<1>. QED  BY <1>2, <1>3, <1>4, <1>5 DEF Next

(* The invariant of the cache and its queue.                               *)
THEOREM ArpInvariant == Spec => []ArpInv
BY InitInvariant, NextInvariant, PTL DEF Spec

(* However the threads queue, destroy and send, the queue holds each       *)
(* allocated request once, one for an address, and each has a packet.      *)
THEOREM QueueAlwaysConsistent == Spec => []QueueConsistent
<1>1. ArpInv => QueueConsistent
  BY DEF ArpInv
<1>. QED  BY <1>1, ArpInvariant, PTL

(* No packet ever waits for an address that is in the cache.               *)
THEOREM NeverWaitsWhenKnown == Spec => []NoWaitWhenKnown
<1>1. ArpInv => NoWaitWhenKnown
  BY DEF ArpInv
<1>. QED  BY <1>1, ArpInvariant, PTL

(* A request that is given up leaves nobody without an answer but those    *)
(* that may get none: what came too late for the loop is ICMP errors.      *)
THEOREM WaitersAnswered == Spec => EveryWaiterAnswered
<1>. DEFINE A == \A t \in Thread :
                   Live(t, "giveup") /\ Top(t).req \notin DOMAIN heap' =>
                     LET waiting == heap[Top(t).req].packets
                     IN \A i \in 1 .. (Len(waiting) - Top(t).taken) :
                          ~ Answerable(waiting[i])
<1>1. ArpInv => A
  <2>1. SUFFICES ASSUME ArpInv, NEW t \in Thread, Live(t, "giveup"),
                        NEW i \in 1 .. (Len(heap[Top(t).req].packets) - Top(t).taken)
                 PROVE  ~ Answerable(heap[Top(t).req].packets[i])
    OBVIOUS
  <2>2. TypeOK /\ LateErrors
    BY <2>1, ArpParts
  <2>3. /\ Top(t) \in Elements(stack[t]) /\ Top(t).pc = "giveup"
        /\ Top(t).req \in DOMAIN heap
    BY <2>1, <2>2, LiveCall
  <2>4. LateOK(Top(t))
    BY <2>2, <2>3 DEF LateErrors
  <2>5. heap[Top(t).req].packets[i].proto = "error"
    BY <2>1, <2>3, <2>4 DEF LateOK
  <2>. QED  BY <2>5 DEF Answerable
<1>2. ArpInv /\ [Next]_vars => [A]_vars
  BY <1>1
<1>. QED  BY <1>2, ArpInvariant, PTL DEF Spec, EveryWaiterAnswered
=============================================================================
