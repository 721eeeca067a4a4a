---------------------------- MODULE STCP_proofs ----------------------------
(***************************************************************************)
(* Theorems about module STCP, for every window, segment size, number of   *)
(* retransmissions, amount of data and number of channel faults: first its *)
(* numbers and its window, then (from Continues on) the two byte streams   *)
(* it carries.                                                             *)
(***************************************************************************)
EXTENDS STCPStreams, WellFoundedInduction, TLAPS

-----------------------------------------------------------------------------
(* The receive window, for every window size. *)

(* The order on the naturals is well founded. *)
LEMMA NatOrderWellFounded ==
  IsWellFoundedOn({ss \in Nat \X Nat : ss[1] < ss[2]}, Nat)
BY NatLessThanWellFounded DEF OpToRel

(* Every non-empty set of naturals has a least element. *)
LEMMA LeastNatural ==
  ASSUME NEW T, T \subseteq Nat, T # {}
  PROVE  \E x \in T : \A y \in T : x <= y
<1>1. PICK x \in T :
        \A y \in T : ~(<<y, x>> \in {ss \in Nat \X Nat : ss[1] < ss[2]})
  BY NatOrderWellFounded, WFMin
<1>2. \A y \in T : /\ <<y, x>> \in Nat \X Nat
                   /\ <<y, x>>[1] = y /\ <<y, x>>[2] = x
  OBVIOUS
<1>3. \A y \in T : ~ (y < x)
  BY <1>1, <1>2
<1>. QED  BY <1>3

-----------------------------------------------------------------------------
(* A buffer whose sequence numbers are in the receive window: BufferOK of  *)
(* module STCP.                                                            *)
InWindow(buffer, rnext) == DOMAIN buffer \subseteq rnext .. (rnext + Window - 1)

(* The flush stops inside the window or at its end: everything before the  *)
(* place where it stops is in the buffer, that place is not or follows a   *)
(* FIN.                                                                    *)
LEMMA FlushedToProperty ==
  ASSUME NEW buffer, NEW rnext \in Nat, InWindow(buffer, rnext)
  PROVE  LET x == FlushedTo(buffer, rnext) IN
         /\ x \in rnext .. (rnext + Window)
         /\ FlushStops(buffer, rnext, x)
         /\ \A y \in rnext .. (x - 1) : ~ FlushStops(buffer, rnext, y)
<1> USE WindowAssumption
<1> DEFINE T == {x \in Nat : x >= rnext /\ FlushStops(buffer, rnext, x)}
           x == FlushedTo(buffer, rnext)
<1>1. rnext + Window \in T
  BY DEF InWindow, FlushStops
<1>2. T \subseteq Nat /\ T # {}
  BY <1>1
<1> HIDE DEF T
<1>3. PICK m \in T : \A y \in T : m <= y
  BY <1>2, LeastNatural
<1>4. m \in rnext .. (rnext + Window) /\ FlushStops(buffer, rnext, m)
  BY <1>1, <1>2, <1>3 DEF T
<1>5. \A y \in rnext .. (m - 1) : ~ FlushStops(buffer, rnext, y)
  <2> SUFFICES ASSUME NEW y \in rnext .. (m - 1), FlushStops(buffer, rnext, y)
               PROVE  FALSE
    OBVIOUS
  <2>1. y \in Nat /\ y >= rnext /\ y < m
    BY <1>4
  <2>2. y \in T
    BY <2>1 DEF T
  <2>. QED  BY <1>3, <1>4, <2>1, <2>2
<1>. QED  BY <1>4, <1>5 DEF FlushedTo

(* What a flush passes over was buffered, byte by byte. *)
LEMMA FlushedWasBuffered ==
  ASSUME NEW buffer, NEW rnext \in Nat, InWindow(buffer, rnext),
         NEW y \in rnext .. (FlushedTo(buffer, rnext) - 1)
  PROVE  y \in DOMAIN buffer
BY FlushedToProperty DEF FlushStops

(* The segment's part in the window keeps the buffer in the window. *)
LEMMA InsertInWindow ==
  ASSUME NEW buffer, NEW rnext \in Nat, InWindow(buffer, rnext),
         NEW seq \in Nat, NEW data \in Seq(Byte), NEW fin \in BOOLEAN
  PROVE  InWindow(Insert(buffer, rnext, seq, data, fin), rnext)
BY WindowAssumption DEF InWindow, Insert, Trimmed

(* Flushing moves the window forward, and what stays is in the new one.    *)
LEMMA UnflushedInWindow ==
  ASSUME NEW buffer, NEW rnext \in Nat, InWindow(buffer, rnext)
  PROVE  InWindow(Unflushed(buffer, rnext), FlushedTo(buffer, rnext))
<1>1. FlushedTo(buffer, rnext) \in rnext .. (rnext + Window)
  BY FlushedToProperty
<1>. QED  BY <1>1, WindowAssumption DEF InWindow, Unflushed

(* The bytes passed up are bytes: a FIN ends the flush and is left out.    *)
LEMMA FlushedBytesType ==
  ASSUME NEW buffer, NEW rnext \in Nat, InWindow(buffer, rnext),
         \A x \in DOMAIN buffer : buffer[x] \in Nat
  PROVE  FlushedBytes(buffer, rnext) \in Seq(Byte)
<1> DEFINE x == FlushedTo(buffer, rnext)
           n == IF FlushesFin(buffer, rnext) THEN (x - rnext) - 1 ELSE x - rnext
<1>1. x \in rnext .. (rnext + Window)
  BY FlushedToProperty
<1>2. x \in Nat /\ x >= rnext
  BY <1>1, WindowAssumption
<1>3. n \in Nat
  BY <1>2 DEF FlushesFin
<1>4. ASSUME NEW i \in 1 .. n
      PROVE  buffer[rnext + i - 1] \in Byte
  <2>1. rnext + i - 1 \in rnext .. (x - 1)
    BY <1>2, <1>3
  <2>2. buffer[rnext + i - 1] \in Nat
    BY <2>1, FlushedWasBuffered
  <2>3. buffer[rnext + i - 1] # FIN
    <3>1. CASE rnext + i \in rnext .. (x - 1)
      <4>1. ~ FlushStops(buffer, rnext, rnext + i)
        BY <3>1, FlushedToProperty
      <4>2. (rnext + i) > rnext /\ (rnext + i) - 1 = rnext + i - 1
        OBVIOUS
      <4>. QED  BY <4>1, <4>2 DEF FlushStops
    <3>2. CASE rnext + i = x
      <4>1. i = x - rnext
        BY <3>2, <1>2
      <4>2. ~ FlushesFin(buffer, rnext)
        BY <4>1, <1>2
      <4>. QED  BY <4>2, <3>2, <1>2 DEF FlushesFin
    <3>. QED  BY <3>1, <3>2, <2>1, <1>2
  <2>. QED  BY <2>2, <2>3 DEF Byte
<1>5. [i \in 1 .. n |-> buffer[rnext + i - 1]] \in Seq(Byte)
  <2> HIDE DEF n
  <2>. QED  BY <1>3, <1>4
<1>. QED  BY <1>5 DEF FlushedBytes

(* A segment puts naturals (bytes, or the FIN) into the buffer. *)
LEMMA InsertType ==
  ASSUME NEW buffer, NEW rnext \in Nat, InWindow(buffer, rnext),
         \A x \in DOMAIN buffer : buffer[x] \in Nat,
         NEW seq \in Nat, NEW data \in Seq(Byte), NEW fin \in BOOLEAN
  PROVE  LET b == Insert(buffer, rnext, seq, data, fin)
         IN \A x \in DOMAIN b : b[x] \in Nat
<1> SUFFICES ASSUME NEW x \in DOMAIN Insert(buffer, rnext, seq, data, fin)
             PROVE  Insert(buffer, rnext, seq, data, fin)[x] \in Nat
  OBVIOUS
<1>1. CASE x \in DOMAIN buffer
  BY <1>1 DEF Insert
<1>2. CASE x \notin DOMAIN buffer
  <2>1. x \in seq .. (EndOf(seq, data, fin) - 1)
    BY <1>2 DEF Insert, Trimmed
  <2>2. Insert(buffer, rnext, seq, data, fin)[x] = ContentAt(seq, data, x)
    BY <1>2 DEF Insert
  <2>3. ContentAt(seq, data, x) \in Nat
    <3>1. Len(data) \in Nat /\ \A i \in 1 .. Len(data) : data[i] \in Byte
      OBVIOUS
    <3>2. x \in Nat /\ x >= seq
      BY <2>1 DEF EndOf
    <3>3. CASE x < seq + Len(data)
      <4>1. (x - seq) + 1 \in 1 .. Len(data)
        BY <3>1, <3>2, <3>3
      <4>. QED  BY <4>1, <3>1, <3>3 DEF ContentAt, Byte
    <3>4. CASE ~ (x < seq + Len(data))
      BY <3>4 DEF ContentAt, FIN
    <3>. QED  BY <3>3, <3>4
  <2>. QED  BY <2>2, <2>3
<1>. QED  BY <1>1, <1>2

-----------------------------------------------------------------------------
(* Segments and send buffers. *)

(* A segment ends at a natural, no earlier than it starts. *)
LEMMA EndOfType ==
  ASSUME NEW seq \in Nat, NEW data \in Seq(Byte), NEW fin \in BOOLEAN
  PROVE  EndOf(seq, data, fin) \in Nat /\ seq + Len(data) <= EndOf(seq, data, fin)
BY DEF EndOf

(* The same for a segment of the network. *)
LEMMA SegmentEndType ==
  ASSUME NEW s \in Segment
  PROVE  SegmentEnd(s) \in Nat /\ s.seq + Len(s.data) <= SegmentEnd(s)
<1>1. s.seq \in Nat /\ s.data \in Seq(Byte) /\ IsFin(s) \in BOOLEAN
  BY DEF Segment, IsFin
<1>. QED  BY <1>1, EndOfType DEF SegmentEnd

(* The same for a node of the send buffer. *)
LEMMA NodeEndType ==
  ASSUME NEW n \in Node
  PROVE  NodeEnd(n) \in Nat /\ n.seq <= NodeEnd(n)
<1>1. n.seq \in Nat /\ n.data \in Seq(Byte) /\ n.fin \in BOOLEAN /\ Len(n.data) \in Nat
  BY DEF Node
<1>2. EndOf(n.seq, n.data, n.fin) \in Nat
      /\ n.seq + Len(n.data) <= EndOf(n.seq, n.data, n.fin)
  BY <1>1, EndOfType
<1>. QED  BY <1>1, <1>2 DEF NodeEnd

(* A packet carries its node. *)
LEMMA PacketType ==
  ASSUME NEW n \in Node, NEW ack \in Nat
  PROVE  /\ Packet(n, ack) \in Segment
         /\ Packet(n, ack).ack = ack
         /\ Packet(n, ack).seq = n.seq
         /\ SegmentEnd(Packet(n, ack)) = NodeEnd(n)
         /\ "SYN" \notin Packet(n, ack).flags
<1>1. n.seq \in Nat /\ n.data \in Seq(Byte) /\ n.fin \in BOOLEAN
  BY DEF Node
<1>2. Packet(n, ack) \in Segment
  BY <1>1 DEF Packet, Segment, Flag
<1>3. IsFin(Packet(n, ack)) = n.fin
  BY <1>1 DEF Packet, IsFin
<1>4. SegmentEnd(Packet(n, ack)) = NodeEnd(n)
  BY <1>3 DEF SegmentEnd, NodeEnd, Packet
<1>. QED  BY <1>2, <1>4 DEF Packet

(* A header alone ends where it starts, unless it is a FIN. *)
LEMMA HeaderType ==
  ASSUME NEW flags \in SUBSET Flag, "FIN" \notin flags,
         NEW seq \in Nat, NEW ack \in Nat
  PROVE  /\ Header(flags, seq, ack) \in Segment
         /\ SegmentEnd(Header(flags, seq, ack)) = seq
<1>1. Header(flags, seq, ack) \in Segment
  BY DEF Header, Segment
<1>2. ~ IsFin(Header(flags, seq, ack))
  BY DEF Header, IsFin
<1>3. Len(<<>>) = 0
  OBVIOUS
<1>4. SegmentEnd(Header(flags, seq, ack)) = seq
  BY <1>2, <1>3 DEF SegmentEnd, EndOf, Header
<1>. QED  BY <1>1, <1>4

(* dequeue_send_buffer() keeps nodes of the buffer, and nothing else. *)
LEMMA DequeueProperty ==
  ASSUME NEW buffer \in Seq(Node), NEW ack \in Nat
  PROVE  /\ Dequeue(buffer, ack) \in Seq(Node)
         /\ \A i \in DOMAIN Dequeue(buffer, ack) :
              \E j \in DOMAIN buffer : Dequeue(buffer, ack)[i] = buffer[j]
<1> DEFINE Kept == {i \in 1 .. Len(buffer) : NodeEnd(buffer[i]) > ack}
           first == CHOOSE i \in Kept : \A j \in Kept : i <= j
<1>1. CASE Kept = {}
  BY <1>1 DEF Dequeue
<1>2. CASE Kept # {}
  <2>1. Kept \subseteq Nat
    OBVIOUS
  <2>2. \E i \in Kept : \A j \in Kept : i <= j
    <3> HIDE DEF Kept
    <3>. QED  BY <1>2, <2>1, LeastNatural
  <2>3. first \in Kept
    <3> HIDE DEF Kept
    <3>. QED  BY <2>2
  <2>4. first \in 1 .. Len(buffer)
    BY <2>3
  <2>5. Dequeue(buffer, ack) = SubSeq(buffer, first, Len(buffer))
    BY <1>2 DEF Dequeue
  <2> HIDE DEF first
  <2>6. /\ SubSeq(buffer, first, Len(buffer)) \in Seq(Node)
        /\ \A i \in DOMAIN SubSeq(buffer, first, Len(buffer)) :
             /\ first + i - 1 \in DOMAIN buffer
             /\ SubSeq(buffer, first, Len(buffer))[i] = buffer[first + i - 1]
    BY <2>4
  <2>. QED  BY <2>5, <2>6
<1>. QED  BY <1>1, <1>2

(* resend_send_buffer(): one packet per node. *)
LEMMA ResendType ==
  ASSUME NEW c, c.send_buffer \in Seq(Node), c.receive_next \in Nat
  PROVE  /\ Resend(c) \in Seq(Segment)
         /\ DOMAIN Resend(c) = DOMAIN c.send_buffer
         /\ \A i \in DOMAIN c.send_buffer :
              Resend(c)[i] = Packet(c.send_buffer[i], c.receive_next)
<1>1. \A i \in 1 .. Len(c.send_buffer) : c.send_buffer[i] \in Node
  OBVIOUS
<1>2. \A i \in 1 .. Len(c.send_buffer) :
        Packet(c.send_buffer[i], c.receive_next) \in Segment
  BY <1>1, PacketType
<1>3. DOMAIN c.send_buffer = 1 .. Len(c.send_buffer) /\ Len(c.send_buffer) \in Nat
  OBVIOUS
<1>. QED  BY <1>2, <1>3 DEF Resend

-----------------------------------------------------------------------------
(* The channel. *)

(* The other endpoint is an endpoint, and not this one. *)
LEMMA Peers ==
  \A p \in Side : /\ Peer(p) \in Side /\ Peer(p) # p
                  /\ Peer(Peer(p)) = p
                  /\ \A q \in Side : q = p \/ q = Peer(p)
BY DEF Side, Peer

(* Taking a packet off a queue leaves only packets that were there. *)
LEMMA ElementsTail ==
  ASSUME NEW S, NEW s \in Seq(S), s # <<>>
  PROVE  /\ Head(s) \in Elements(s) /\ Head(s) \in S
         /\ Tail(s) \in Seq(S) /\ Elements(Tail(s)) \subseteq Elements(s)
<1>1. Len(s) \in Nat /\ Len(s) >= 1 /\ DOMAIN s = 1 .. Len(s)
  OBVIOUS
<1>2. Head(s) = s[1] /\ 1 \in DOMAIN s
  BY <1>1
<1>3. /\ Tail(s) \in Seq(S) /\ Len(Tail(s)) = Len(s) - 1
      /\ \A i \in 1 .. (Len(s) - 1) : Tail(s)[i] = s[i + 1]
  BY <1>1
<1>4. \A i \in DOMAIN Tail(s) : i + 1 \in DOMAIN s /\ Tail(s)[i] = s[i + 1]
  BY <1>1, <1>3
<1>. QED  BY <1>2, <1>3, <1>4 DEF Elements

(* Appending packets adds those packets and no others. *)
LEMMA ElementsConcat ==
  ASSUME NEW S, NEW s \in Seq(S), NEW t \in Seq(S)
  PROVE  /\ s \o t \in Seq(S)
         /\ Elements(s \o t) \subseteq Elements(s) \cup Elements(t)
<1>1. /\ s \o t \in Seq(S) /\ Len(s \o t) = Len(s) + Len(t)
      /\ \A i \in 1 .. (Len(s) + Len(t)) :
           (s \o t)[i] = IF i <= Len(s) THEN s[i] ELSE t[i - Len(s)]
  OBVIOUS
<1>2. ASSUME NEW i \in DOMAIN (s \o t)
      PROVE  (s \o t)[i] \in Elements(s) \cup Elements(t)
  <2>1. i \in 1 .. (Len(s) + Len(t)) /\ Len(s) \in Nat /\ Len(t) \in Nat
    BY <1>1
  <2>2. CASE i <= Len(s)
    <3>1. i \in DOMAIN s /\ (s \o t)[i] = s[i]
      BY <1>1, <2>1, <2>2
    <3>. QED  BY <3>1 DEF Elements
  <2>3. CASE ~ (i <= Len(s))
    <3>1. i - Len(s) \in DOMAIN t /\ (s \o t)[i] = t[i - Len(s)]
      BY <1>1, <2>1, <2>3
    <3>. QED  BY <3>1 DEF Elements
  <2>. QED  BY <2>2, <2>3
<1>. QED  BY <1>1, <1>2 DEF Elements

(* A queue of one packet holds that packet. *)
LEMMA ElementsSingleton ==
  ASSUME NEW S, NEW x \in S
  PROVE  <<x>> \in Seq(S) /\ Elements(<<x>>) = {x}
<1>1. DOMAIN <<x>> = {1} /\ <<x>>[1] = x
  OBVIOUS
<1>. QED  BY <1>1 DEF Elements

(* An empty queue holds nothing. *)
LEMMA ElementsEmpty ==
  ASSUME NEW S
  PROVE  <<>> \in Seq(S) /\ Elements(<<>>) = {}
BY DEF Elements

(* Sending adds to what may arrive at the peer, and to nothing else. *)
LEMMA SendProperty ==
  ASSUME ChannelOK, NEW p \in Side, NEW packets \in Seq(Segment),
         Send(p, packets), UNCHANGED <<copy, faults>>
  PROVE  /\ ChannelOK'
         /\ Transit(p)' = Transit(p)
         /\ Transit(Peer(p))' \subseteq Transit(Peer(p)) \cup Elements(packets)
<1>1. /\ wire[Peer(p)] \in Seq(Segment)
      /\ wire'[p] = wire[p]
      /\ wire'[Peer(p)] = wire[Peer(p)] \o packets
  BY Peers DEF ChannelOK, Send
<1>2. /\ wire'[Peer(p)] \in Seq(Segment)
      /\ Elements(wire'[Peer(p)])
           \subseteq Elements(wire[Peer(p)]) \cup Elements(packets)
  BY <1>1, ElementsConcat
<1>3. wire' \in [Side -> Seq(Segment)]
  BY <1>2, Peers DEF ChannelOK, Send
<1>. QED  BY <1>1, <1>2, <1>3 DEF ChannelOK, Transit

(* Losing or storing the packet at the head invents nothing. *)
LEMMA LoseProperty ==
  ASSUME ChannelOK, NEW p \in Side, wire[p] # <<>>,
         wire' = [wire EXCEPT ![p] = Tail(@)],
         \/ copy' = copy
         \/ copy' = [copy EXCEPT ![p] = <<Head(wire[p])>>],
         faults' \in Nat
  PROVE  /\ ChannelOK'
         /\ \A q \in Side : Transit(q)' \subseteq Transit(q)
<1>1. wire[p] \in Seq(Segment) /\ copy[p] \in Seq(Segment)
  BY DEF ChannelOK
<1>2. /\ Head(wire[p]) \in Elements(wire[p]) /\ Head(wire[p]) \in Segment
      /\ Tail(wire[p]) \in Seq(Segment)
      /\ Elements(Tail(wire[p])) \subseteq Elements(wire[p])
  BY <1>1, ElementsTail
<1>3. /\ <<Head(wire[p])>> \in Seq(Segment)
      /\ Elements(<<Head(wire[p])>>) = {Head(wire[p])}
  BY <1>2, ElementsSingleton
<1>4. wire' \in [Side -> Seq(Segment)] /\ copy' \in [Side -> Seq(Segment)]
  BY <1>2, <1>3 DEF ChannelOK
<1>5. \A q \in Side : wire'[q] = IF q = p THEN Tail(wire[p]) ELSE wire[q]
  BY DEF ChannelOK
<1>6. \A q \in Side : \/ copy'[q] = copy[q]
                      \/ q = p /\ copy'[q] = <<Head(wire[p])>>
  BY DEF ChannelOK
<1>7. ASSUME NEW q \in Side
      PROVE  Transit(q)' \subseteq Transit(q)
  <2>1. Elements(wire'[q]) \subseteq Transit(q)
    BY <1>2, <1>5 DEF Transit
  <2>2. Elements(copy'[q]) \subseteq Transit(q)
    BY <1>2, <1>3, <1>6 DEF Transit
  <2>. QED  BY <2>1, <2>2 DEF Transit
<1>. QED  BY <1>4, <1>7 DEF ChannelOK

(* What a thread takes off the channel was in transit, and what it sends   *)
(* in return is all that is new.                                           *)
LEMMA ExchangeProperty ==
  ASSUME ChannelOK, NEW p \in Side, NEW s, NEW packets \in Seq(Segment),
         Exchange(p, s, packets)
  PROVE  /\ s \in Segment /\ s \in Transit(p)
         /\ ChannelOK'
         /\ Transit(p)' \subseteq Transit(p)
         /\ Transit(Peer(p))' \subseteq Transit(Peer(p)) \cup Elements(packets)
<1>1. wire[p] \in Seq(Segment) /\ copy[p] \in Seq(Segment)
      /\ wire[Peer(p)] \in Seq(Segment) /\ wire[p] # <<>> /\ copy' = copy
  BY Peers DEF ChannelOK, Exchange
<1>2. /\ Head(wire[p]) \in Elements(wire[p]) /\ Head(wire[p]) \in Segment
      /\ Tail(wire[p]) \in Seq(Segment)
      /\ Elements(Tail(wire[p])) \subseteq Elements(wire[p])
  BY <1>1, ElementsTail
<1>3. copy[p] # <<>> =>
        Head(copy[p]) \in Elements(copy[p]) /\ Head(copy[p]) \in Segment
  BY <1>1, ElementsTail
<1>4. s \in Segment /\ s \in Transit(p)
  BY <1>2, <1>3 DEF Exchange, Transit
<1>5. faults' \in Nat
  BY DEF Exchange, Mistreat, ChannelOK
<1>6. /\ wire'[p] = Tail(wire[p]) \/ wire'[p] = wire[p]
      /\ wire'[Peer(p)] = wire[Peer(p)] \o packets
  BY Peers DEF Exchange, Send, ChannelOK
<1>7. /\ wire'[Peer(p)] \in Seq(Segment)
      /\ Elements(wire'[Peer(p)])
           \subseteq Elements(wire[Peer(p)]) \cup Elements(packets)
  BY <1>1, <1>6, ElementsConcat
<1>8. wire' \in [Side -> Seq(Segment)]
  <2>1. wire' = [q \in Side |-> wire'[q]]
    BY DEF Exchange, Send, ChannelOK
  <2>2. wire'[p] \in Seq(Segment)
    BY <1>1, <1>2, <1>6
  <2>3. \A q \in Side : wire'[q] \in Seq(Segment)
    BY <2>2, <1>7, Peers
  <2>. QED  BY <2>1, <2>3, Zenon
<1>. QED  BY <1>1, <1>2, <1>4, <1>5, <1>6, <1>7, <1>8 DEF ChannelOK, Transit

-----------------------------------------------------------------------------
(* One pass of a thread: c becomes cc and the segments out are sent. *)

Advances(c, cc) ==
  /\ c.receive_next <= cc.receive_next
  /\ c.next_seq_num <= cc.next_seq_num

(* What an endpoint knows of its peer stays true as the peer advances. *)
LEMMA PeerAdvances ==
  ASSUME NEW c, NEW d, NEW dd, ContextOK(c), ContextOK(d), ContextOK(dd),
         EndpointOK(c, d), Advances(d, dd)
  PROVE  EndpointOK(c, dd)
<1>1. /\ c.receive_next \in Nat /\ c.send_base \in Nat
      /\ d.next_seq_num \in Nat /\ dd.next_seq_num \in Nat
      /\ d.receive_next \in Nat /\ dd.receive_next \in Nat
  BY DEF ContextOK
<1>2. DOMAIN c.receive_buffer \subseteq Nat
  <2>1. DOMAIN c.receive_buffer
          \subseteq c.receive_next .. (c.receive_next + Window - 1)
    BY DEF ContextOK, BufferOK
  <2>. QED  BY <2>1, <1>1, WindowAssumption
<1>3. ReceiverOK(c, dd)
  BY <1>1, <1>2 DEF EndpointOK, ReceiverOK, Advances
<1>4. SenderOK(c, dd)
  BY <1>1 DEF EndpointOK, SenderOK, Advances
<1>. QED  BY <1>3, <1>4 DEF EndpointOK

(* What was sent stays right as the sender advances. *)
LEMMA SenderAdvances ==
  ASSUME NEW m \in Segment, NEW c, NEW cc, ContextOK(c), ContextOK(cc),
         SentOK(m, c), Advances(c, cc)
  PROVE  SentOK(m, cc)
<1>1. /\ m.ack \in Nat /\ m.seq \in Nat /\ SegmentEnd(m) \in Nat
      /\ c.next_seq_num \in Nat /\ cc.next_seq_num \in Nat
      /\ c.receive_next \in Nat /\ cc.receive_next \in Nat
  BY SegmentEndType DEF ContextOK, Segment
<1>. QED  BY <1>1 DEF SentOK, Advances, ISN

(* Whatever may still arrive is a segment. *)
LEMMA TransitType ==
  ASSUME ChannelOK, NEW p \in Side, NEW m \in Transit(p)
  PROVE  m \in Segment
BY DEF ChannelOK, Transit, Elements

(* A pass of p that advances, leaves p right with its peer and sends right *)
(* segments preserves the pairwise part of the invariant.                  *)
LEMMA PassPreserves ==
  ASSUME TypeOK, PairOK, NEW p \in Side, NEW cc, NEW Sent,
         ContextOK(cc), Advances(ctx[p], cc), EndpointOK(cc, ctx[Peer(p)]),
         ctx' = [ctx EXCEPT ![p] = cc],
         \A m \in Sent : SentOK(m, cc),
         Transit(p)' \subseteq Transit(p),
         Transit(Peer(p))' \subseteq Transit(Peer(p)) \cup Sent
  PROVE  PairOK' /\ (ctx = [q \in Side |-> ctx[q]] /\ \A q \in Side : ContextOK(ctx[q]))'
<1> DEFINE q == Peer(p)
<1>1. q \in Side /\ q # p /\ Peer(q) = p /\ \A r \in Side : r = p \/ r = q
  BY Peers
<1>2. ctx'[p] = cc /\ ctx'[q] = ctx[q] /\ ctx' = [r \in Side |-> ctx'[r]]
  <2>1. ctx = [r \in Side |-> ctx[r]]
    BY DEF TypeOK
  <2>. QED  BY <2>1, <1>1
<1>3. ContextOK(ctx[p]) /\ ContextOK(ctx[q]) /\ ChannelOK
  BY <1>1 DEF TypeOK, ChannelOK
<1>4. EndpointOK(ctx'[q], ctx'[p])
  BY <1>1, <1>2, <1>3, PeerAdvances DEF PairOK
<1>5. \A m \in Transit(q)' : SentOK(m, ctx'[p])
  BY <1>1, <1>2, <1>3, SenderAdvances, TransitType DEF PairOK
<1>6. \A m \in Transit(p)' : SentOK(m, ctx'[q])
  BY <1>1, <1>2 DEF PairOK
<1>7. PairOK'
  <2>1. \A r \in Side : /\ EndpointOK(ctx'[r], ctx'[Peer(r)])
                        /\ \A m \in Transit(Peer(r))' : SentOK(m, ctx'[r])
    BY <1>1, <1>2, <1>4, <1>5, <1>6
  <2>. QED  BY <2>1 DEF PairOK
<1>8. \A r \in Side : ContextOK(ctx'[r])
  BY <1>1, <1>2, <1>3
<1>. QED  BY <1>2, <1>7, <1>8

-----------------------------------------------------------------------------
(* The parts of a pass. *)

(* The fields of a context_t have their types. *)
LEMMA ContextFields ==
  ASSUME NEW c, ContextOK(c)
  PROVE  /\ c.connection_state \in State
         /\ c.next_seq_num \in Nat /\ c.send_base \in Nat
         /\ c.send_buffer \in Seq(Node) /\ c.receive_next \in Nat
         /\ c.retransmission_count \in Nat
         /\ InWindow(c.receive_buffer, c.receive_next)
         /\ \A x \in DOMAIN c.receive_buffer : c.receive_buffer[x] \in Nat
BY DEF ContextOK, BufferOK, InWindow

(* transition_state() stays among the states of a synchronized end. *)
LEMMA TransitionType ==
  ASSUME NEW state \in Connected \cup {"CLOSED"}, NEW event
  PROVE  Transition(state, event) \in Connected \cup {"CLOSED"}
BY DEF Transition, Connected

(* A change of flags, counters or of the state of the connection disturbs  *)
(* neither the windows nor the buffers.                                    *)
LEMMA Relabelled ==
  ASSUME NEW c, NEW cc, NEW d, EndpointOK(c, d), ContextOK(c),
         cc.next_seq_num = c.next_seq_num, cc.send_base = c.send_base,
         cc.send_buffer = c.send_buffer, cc.receive_next = c.receive_next,
         cc.receive_buffer = c.receive_buffer,
         cc.connection_state \notin Opening,
         SynchronizedState(cc) => SynchronizedState(c)
  PROVE  EndpointOK(cc, d) /\ Advances(c, cc)
<1>1. c.next_seq_num \in Nat /\ c.receive_next \in Nat
  BY ContextFields
<1>. QED  BY <1>1 DEF EndpointOK, OpeningOK, ReceiverOK, SenderOK, Advances

(* A synchronized end has sent its SYN, and is not opening. *)
LEMMA SynchronizedFacts ==
  ASSUME NEW c, NEW d, ContextOK(c), ContextOK(d), EndpointOK(c, d),
         SynchronizedState(c), d.receive_next <= c.next_seq_num
  PROVE  /\ c.connection_state \notin Opening
         /\ ISN < c.next_seq_num /\ c.send_base <= c.next_seq_num
<1>1. /\ c.next_seq_num \in Nat /\ c.send_base \in Nat /\ d.receive_next \in Nat
  BY ContextFields
<1>2. ISN < c.send_base /\ c.send_base <= d.receive_next
  BY DEF EndpointOK, SenderOK
<1>3. c.connection_state \notin Opening
  BY DEF SynchronizedState, Connected, Opening
<1>. QED  BY <1>1, <1>2, <1>3 DEF ISN

(* A node that fits the window joins the send buffer and goes out. *)
LEMMA TransmittedStep ==
  ASSUME NEW c, NEW d, ContextOK(c), ContextOK(d), EndpointOK(c, d),
         SynchronizedState(c), NEW n \in Node,
         n.seq = c.next_seq_num, ISN < c.next_seq_num,
         NodeEnd(n) <= c.send_base + Window
  PROVE  /\ ContextOK(Transmitted(c, n))
         /\ Advances(c, Transmitted(c, n))
         /\ EndpointOK(Transmitted(c, n), d)
         /\ SynchronizedState(Transmitted(c, n))
         /\ Packet(n, c.receive_next) \in Segment
         /\ "SYN" \notin Packet(n, c.receive_next).flags
         /\ SentOK(Packet(n, c.receive_next), Transmitted(c, n))
<1> DEFINE cc == Transmitted(c, n)
           b == Append(c.send_buffer, n)
<1>1. /\ c.next_seq_num \in Nat /\ c.send_base \in Nat
      /\ c.receive_next \in Nat /\ c.send_buffer \in Seq(Node)
  BY ContextFields
<1>2. NodeEnd(n) \in Nat /\ c.next_seq_num <= NodeEnd(n)
  BY NodeEndType
<1>3. b \in Seq(Node)
  BY <1>1
<1>4. ContextOK(cc)
  BY <1>2, <1>3 DEF ContextOK, BufferOK, Transmitted
<1>5. /\ cc.next_seq_num = NodeEnd(n) /\ cc.send_base = c.send_base
      /\ cc.send_buffer = b /\ cc.receive_next = c.receive_next
      /\ cc.receive_buffer = c.receive_buffer
      /\ cc.connection_state = c.connection_state
  BY DEF ContextOK, Transmitted
<1>6. Advances(c, cc)
  BY <1>1, <1>2, <1>5 DEF Advances
<1>7. \A i \in DOMAIN b : b[i].seq > ISN /\ NodeEnd(b[i]) <= NodeEnd(n)
  <2> SUFFICES ASSUME NEW i \in DOMAIN b
               PROVE  b[i].seq > ISN /\ NodeEnd(b[i]) <= NodeEnd(n)
    OBVIOUS
  <2>1. CASE i \in DOMAIN c.send_buffer
    <3>1. b[i] = c.send_buffer[i] /\ c.send_buffer[i] \in Node
      BY <1>1, <2>1
    <3>2. NodeEnd(c.send_buffer[i]) \in Nat
      BY <3>1, NodeEndType
    <3>3. c.send_buffer[i].seq > ISN /\ NodeEnd(c.send_buffer[i]) <= c.next_seq_num
      BY <2>1 DEF EndpointOK, SenderOK
    <3>. QED  BY <1>1, <1>2, <3>1, <3>2, <3>3
  <2>2. CASE i \notin DOMAIN c.send_buffer
    <3>1. b[i] = n
      BY <1>1, <2>2
    <3>. QED  BY <1>1, <1>2, <3>1 DEF ISN
  <2>. QED  BY <2>1, <2>2
<1>8. SynchronizedState(cc)
  BY <1>5 DEF SynchronizedState
<1>9. cc.connection_state \notin Opening
  BY <1>5 DEF SynchronizedState, Connected, Opening
<1>10. ReceiverOK(cc, d) /\ OpeningOK(cc)
  BY <1>5, <1>9 DEF EndpointOK, ReceiverOK, OpeningOK
<1>11. SenderOK(cc, d)
  BY <1>5, <1>7 DEF EndpointOK, SenderOK
<1>12. EndpointOK(cc, d)
  BY <1>10, <1>11 DEF EndpointOK
<1>13. /\ Packet(n, c.receive_next) \in Segment
       /\ Packet(n, c.receive_next).ack = c.receive_next
       /\ Packet(n, c.receive_next).seq = c.next_seq_num
       /\ SegmentEnd(Packet(n, c.receive_next)) = NodeEnd(n)
       /\ "SYN" \notin Packet(n, c.receive_next).flags
  BY <1>1, PacketType
<1>14. SentOK(Packet(n, c.receive_next), cc)
  BY <1>1, <1>2, <1>5, <1>13 DEF SentOK
<1>. QED  BY <1>4, <1>6, <1>8, <1>12, <1>13, <1>14

(* The FIN is a node of one sequence number. *)
LEMMA FinNodeType ==
  ASSUME NEW c, ContextOK(c)
  PROVE  /\ FinNode(c) \in Node
         /\ FinNode(c).seq = c.next_seq_num
         /\ NodeEnd(FinNode(c)) = c.next_seq_num + 1
         /\ EnqueueFin(c) = Transmitted(c, FinNode(c))
<1>1. c.next_seq_num \in Nat
  BY ContextFields
<1>2. FinNode(c) \in Node /\ FinNode(c).seq = c.next_seq_num
  BY <1>1 DEF FinNode, Node
<1>3. Len(<<>>) = 0
  OBVIOUS
<1>4. NodeEnd(FinNode(c)) = c.next_seq_num + 1
  BY <1>1, <1>3 DEF FinNode, NodeEnd, EndOf
<1>. QED  BY <1>2, <1>4 DEF EnqueueFin, Transmitted

-----------------------------------------------------------------------------
(* handle_ack_from_peer(). *)

(* The acknowledged nodes leave the send buffer; what is acknowledged was  *)
(* received, and there is room in the window again.                        *)
LEMMA AcknowledgedStep ==
  ASSUME NEW c, NEW d, ContextOK(c), ContextOK(d), EndpointOK(c, d),
         SynchronizedState(c), NEW ack \in Nat, ack <= d.receive_next,
         AckAccepted(c, ack)
  PROVE  LET cc == Acknowledged(c, ack) IN
         /\ ContextOK(cc) /\ Advances(c, cc) /\ EndpointOK(cc, d)
         /\ SynchronizedState(cc)
         /\ cc.next_seq_num = c.next_seq_num /\ cc.receive_next = c.receive_next
         /\ cc.is_APP_CLOSE_QUEUED = c.is_APP_CLOSE_QUEUED
         /\ ISN < cc.next_seq_num
         /\ cc.next_seq_num + 1 <= cc.send_base + Window
<1> DEFINE b == Dequeue(c.send_buffer, ack)
           cc == [c EXCEPT !.send_base = ack, !.send_buffer = b,
                           !.retransmission_count = 0]
<1>1. /\ c.next_seq_num \in Nat /\ c.send_base \in Nat
      /\ c.receive_next \in Nat /\ c.send_buffer \in Seq(Node)
  BY ContextFields
<1>2. /\ b \in Seq(Node)
      /\ \A i \in DOMAIN b : \E j \in DOMAIN c.send_buffer : b[i] = c.send_buffer[j]
  BY <1>1, DequeueProperty
<1> HIDE DEF b
<1>3. Acknowledged(c, ack) = cc
  BY DEF Acknowledged, b
<1>4. ContextOK(cc)
  BY <1>2 DEF ContextOK, BufferOK
<1>5. /\ cc.next_seq_num = c.next_seq_num /\ cc.send_base = ack
      /\ cc.send_buffer = b /\ cc.receive_next = c.receive_next
      /\ cc.receive_buffer = c.receive_buffer
      /\ cc.connection_state = c.connection_state
      /\ cc.is_APP_CLOSE_QUEUED = c.is_APP_CLOSE_QUEUED
  BY DEF ContextOK
<1> HIDE DEF cc
<1>6. Advances(c, cc)
  BY <1>1, <1>5 DEF Advances
<1>7. SynchronizedState(cc) /\ cc.connection_state \notin Opening
  BY <1>5 DEF SynchronizedState, Connected, Opening
<1>8. /\ c.send_base < ack /\ ack <= c.next_seq_num
      /\ ISN < c.send_base /\ c.next_seq_num <= c.send_base + Window
  BY DEF EndpointOK, SenderOK, AckAccepted
<1>9. /\ ISN < cc.send_base /\ ISN < cc.next_seq_num
      /\ cc.next_seq_num + 1 <= cc.send_base + Window
      /\ cc.next_seq_num <= cc.send_base + Window
  BY <1>1, <1>5, <1>8, WindowAssumption DEF ISN
<1>10. SenderOK(cc, d)
  BY <1>2, <1>5, <1>9 DEF EndpointOK, SenderOK
<1>11. EndpointOK(cc, d)
  BY <1>5, <1>7, <1>10 DEF EndpointOK, ReceiverOK, OpeningOK
<1>. QED  BY <1>3, <1>4, <1>5, <1>6, <1>7, <1>9, <1>11

(* The FIN that waited for the window goes out with it. *)
LEMMA ReleaseFinStep ==
  ASSUME NEW c, NEW d, ContextOK(c), ContextOK(d), EndpointOK(c, d),
         SynchronizedState(c), ISN < c.next_seq_num,
         c.next_seq_num + 1 <= c.send_base + Window
  PROVE  LET cc == ReleaseFin(c) IN
         /\ ContextOK(cc) /\ Advances(c, cc) /\ EndpointOK(cc, d)
         /\ SynchronizedState(cc)
         /\ Packet(FinNode(c), c.receive_next) \in Segment
         /\ "SYN" \notin Packet(FinNode(c), c.receive_next).flags
         /\ c.is_APP_CLOSE_QUEUED => SentOK(Packet(FinNode(c), c.receive_next), cc)
<1> DEFINE n == FinNode(c)
           e == Transmitted(c, n)
           cc == [e EXCEPT !.is_APP_CLOSE_QUEUED = FALSE]
<1>1. /\ n \in Node /\ n.seq = c.next_seq_num
      /\ NodeEnd(n) <= c.send_base + Window
      /\ EnqueueFin(c) = e
  BY FinNodeType
<1> HIDE DEF n
<1>2. /\ ContextOK(e) /\ Advances(c, e) /\ EndpointOK(e, d)
      /\ SynchronizedState(e)
      /\ Packet(n, c.receive_next) \in Segment
      /\ "SYN" \notin Packet(n, c.receive_next).flags
      /\ SentOK(Packet(n, c.receive_next), e)
  BY <1>1, TransmittedStep
<1> HIDE DEF e
<1>3. CASE c.is_APP_CLOSE_QUEUED
  <2>1. ReleaseFin(c) = cc
    BY <1>1, <1>3 DEF ReleaseFin
  <2>2. ContextOK(cc)
    BY <1>2 DEF ContextOK, BufferOK
  <2>3. /\ cc.next_seq_num = e.next_seq_num /\ cc.send_base = e.send_base
        /\ cc.send_buffer = e.send_buffer /\ cc.receive_next = e.receive_next
        /\ cc.receive_buffer = e.receive_buffer
        /\ cc.connection_state = e.connection_state
    BY <1>2 DEF ContextOK
  <2>4. SynchronizedState(cc) /\ cc.connection_state \notin Opening
    BY <1>2, <2>3 DEF SynchronizedState, Connected, Opening
  <2> HIDE DEF cc
  <2>5. EndpointOK(cc, d)
    BY <1>2, <2>3, <2>4, Relabelled
  <2>6. Advances(c, cc)
    BY <1>2, <2>3 DEF Advances
  <2>7. SentOK(Packet(n, c.receive_next), cc)
    BY <1>2, <2>3 DEF SentOK
  <2>. QED  BY <1>2, <2>1, <2>2, <2>4, <2>5, <2>6, <2>7 DEF n
<1>4. CASE ~ c.is_APP_CLOSE_QUEUED
  <2>1. ReleaseFin(c) = c
    BY <1>4 DEF ReleaseFin
  <2>2. Advances(c, c)
    BY ContextFields DEF Advances
  <2>. QED  BY <1>2, <1>4, <2>1, <2>2 DEF n
<1>5. c.is_APP_CLOSE_QUEUED \in BOOLEAN
  BY DEF ContextOK
<1>. QED  BY <1>3, <1>4, <1>5

(* The acknowledgement of the FIN moves the state of the connection. *)
LEMMA FinAcknowledgedStep ==
  ASSUME NEW c, NEW d, ContextOK(c), ContextOK(d), EndpointOK(c, d),
         SynchronizedState(c)
  PROVE  LET cc == FinAcknowledged(c) IN
         /\ ContextOK(cc) /\ Advances(c, cc) /\ EndpointOK(cc, d)
         /\ SynchronizedState(cc)
<1> DEFINE t == Transition(c.connection_state, "RECV_ACK")
           cc == [c EXCEPT !.connection_state = t]
<1>1. t \in Connected \cup {"CLOSED"}
  BY TransitionType DEF SynchronizedState
<1>2. t \in State /\ t \notin Opening
  BY <1>1 DEF State, Connected, Opening
<1> HIDE DEF t
<1>3. ContextOK(cc)
  BY <1>2 DEF ContextOK, BufferOK
<1>4. /\ cc.next_seq_num = c.next_seq_num /\ cc.send_base = c.send_base
      /\ cc.send_buffer = c.send_buffer /\ cc.receive_next = c.receive_next
      /\ cc.receive_buffer = c.receive_buffer /\ cc.connection_state = t
  BY DEF ContextOK
<1>5. SynchronizedState(cc)
  BY <1>1, <1>4 DEF SynchronizedState
<1> HIDE DEF cc
<1>6. EndpointOK(cc, d) /\ Advances(c, cc)
  BY <1>2, <1>4, Relabelled
<1>7. FinAcknowledged(c) = c \/ FinAcknowledged(c) = cc
  BY DEF FinAcknowledged, cc, t
<1>8. Advances(c, c)
  BY ContextFields DEF Advances
<1>. QED  BY <1>3, <1>5, <1>6, <1>7, <1>8

(* The whole of handle_ack_from_peer(). *)
LEMMA HandleAckStep ==
  ASSUME NEW c, NEW d, ContextOK(c), ContextOK(d), EndpointOK(c, d),
         SynchronizedState(c), NEW ack \in Nat, ack <= d.receive_next
  PROVE  LET cc == HandleAck(c, ack) IN
         /\ ContextOK(cc) /\ Advances(c, cc) /\ EndpointOK(cc, d)
         /\ SynchronizedState(cc)
         /\ SentOnAck(c, ack) \in Seq(Segment)
         /\ \A m \in Elements(SentOnAck(c, ack)) :
              SentOK(m, cc) /\ "SYN" \notin m.flags
<1>1. CASE ~ AckAccepted(c, ack)
  <2>1. HandleAck(c, ack) = c /\ SentOnAck(c, ack) = <<>>
    BY <1>1 DEF HandleAck, SentOnAck
  <2>2. Advances(c, c)
    BY ContextFields DEF Advances
  <2>. QED  BY <2>1, <2>2, ElementsEmpty
<1>2. CASE AckAccepted(c, ack)
  <2> DEFINE a == Acknowledged(c, ack)
             r == ReleaseFin(a)
             f == FinAcknowledged(r)
             m == Packet(FinNode(c), c.receive_next)
  <2>1. /\ ContextOK(a) /\ Advances(c, a) /\ EndpointOK(a, d)
        /\ SynchronizedState(a)
        /\ a.next_seq_num = c.next_seq_num /\ a.receive_next = c.receive_next
        /\ a.is_APP_CLOSE_QUEUED = c.is_APP_CLOSE_QUEUED
        /\ ISN < a.next_seq_num
        /\ a.next_seq_num + 1 <= a.send_base + Window
    BY <1>2, AcknowledgedStep
  <2>2. FinNode(a) = FinNode(c) /\ Packet(FinNode(a), a.receive_next) = m
    BY <2>1 DEF FinNode
  <2>3. HandleAck(c, ack) = f
    BY <1>2 DEF HandleAck
  <2> HIDE DEF a
  <2>4. /\ ContextOK(r) /\ Advances(a, r) /\ EndpointOK(r, d)
        /\ SynchronizedState(r)
        /\ Packet(FinNode(a), a.receive_next) \in Segment
        /\ "SYN" \notin Packet(FinNode(a), a.receive_next).flags
        /\ a.is_APP_CLOSE_QUEUED => SentOK(Packet(FinNode(a), a.receive_next), r)
    BY <2>1, ReleaseFinStep
  <2> HIDE DEF r, m
  <2>5. /\ ContextOK(f) /\ Advances(r, f) /\ EndpointOK(f, d)
        /\ SynchronizedState(f)
    BY <2>4, FinAcknowledgedStep
  <2> HIDE DEF f
  <2>6. Advances(c, f)
    <3>1. /\ c.next_seq_num \in Nat /\ c.receive_next \in Nat
          /\ a.next_seq_num \in Nat /\ a.receive_next \in Nat
          /\ r.next_seq_num \in Nat /\ r.receive_next \in Nat
          /\ f.next_seq_num \in Nat /\ f.receive_next \in Nat
      BY <2>1, <2>4, <2>5, ContextFields
    <3>. QED  BY <3>1, <2>1, <2>4, <2>5 DEF Advances
  <2>7. CASE c.is_APP_CLOSE_QUEUED
    <3>1. SentOnAck(c, ack) = <<m>>
      BY <1>2, <2>7 DEF SentOnAck, m
    <3>2. m \in Segment /\ "SYN" \notin m.flags /\ SentOK(m, r)
      BY <2>1, <2>2, <2>4, <2>7
    <3>3. SentOK(m, f)
      BY <3>2, <2>4, <2>5, SenderAdvances
    <3>4. <<m>> \in Seq(Segment) /\ Elements(<<m>>) = {m}
      BY <3>2, ElementsSingleton
    <3>. QED  BY <2>3, <2>5, <2>6, <3>1, <3>2, <3>3, <3>4
  <2>8. CASE ~ c.is_APP_CLOSE_QUEUED
    <3>1. SentOnAck(c, ack) = <<>>
      BY <2>8 DEF SentOnAck
    <3>. QED  BY <2>3, <2>5, <2>6, <3>1, ElementsEmpty
  <2>9. c.is_APP_CLOSE_QUEUED \in BOOLEAN
    BY DEF ContextOK
  <2>. QED  BY <2>7, <2>8, <2>9
<1>. QED  BY <1>1, <1>2

-----------------------------------------------------------------------------
(* handle_incoming_segment(). *)

(* The flush advances receive_next over what was buffered, which the peer  *)
(* had sent.                                                               *)
LEMMA FlushedStep ==
  ASSUME NEW c, NEW d, ContextOK(c), ContextOK(d), EndpointOK(c, d),
         SynchronizedState(c), NEW buffer, InWindow(buffer, c.receive_next),
         \A x \in DOMAIN buffer : buffer[x] \in Nat /\ x < d.next_seq_num
  PROVE  LET cc == Flushed(c, buffer) IN
         /\ ContextOK(cc) /\ Advances(c, cc) /\ EndpointOK(cc, d)
         /\ SynchronizedState(cc)
<1> DEFINE x == FlushedTo(buffer, c.receive_next)
           b == Unflushed(buffer, c.receive_next)
           fin == FlushesFin(buffer, c.receive_next)
           t == IF fin THEN Transition(c.connection_state, "RECV_FIN")
                ELSE c.connection_state
           cc == [c EXCEPT !.receive_next = x, !.receive_buffer = b,
                           !.is_FIN_RECEIVED = fin, !.connection_state = t]
<1>1. /\ c.next_seq_num \in Nat /\ c.send_base \in Nat
      /\ c.receive_next \in Nat /\ d.next_seq_num \in Nat /\ d.receive_next \in Nat
  BY ContextFields
<1>2. x \in c.receive_next .. (c.receive_next + Window)
  BY <1>1, FlushedToProperty
<1>3. x \in Nat /\ c.receive_next <= x
  BY <1>1, <1>2, WindowAssumption
<1>4. x <= d.next_seq_num
  <2>1. CASE x = c.receive_next
    BY <2>1 DEF EndpointOK, ReceiverOK
  <2>2. CASE x # c.receive_next
    <3>1. x - 1 \in c.receive_next .. (x - 1)
      BY <1>1, <1>3, <2>2
    <3>2. x - 1 \in DOMAIN buffer
      BY <1>1, <3>1, FlushedWasBuffered
    <3>3. x - 1 < d.next_seq_num
      BY <3>2
    <3>. QED  BY <1>1, <1>3, <3>3
  <2>. QED  BY <2>1, <2>2
<1>5. InWindow(b, x)
  BY <1>1, UnflushedInWindow
<1>6. \A y \in DOMAIN b : b[y] \in Nat /\ y < d.next_seq_num
  BY DEF Unflushed
<1>7. fin \in BOOLEAN
  BY DEF FlushesFin
<1>8. Flushed(c, buffer) = cc
  BY DEF Flushed
<1> HIDE DEF x, b, fin
<1>9. t \in Connected \cup {"CLOSED"}
  BY TransitionType DEF SynchronizedState
<1>10. t \in State /\ t \notin Opening
  BY <1>9 DEF State, Connected, Opening
<1> HIDE DEF t
<1>11. /\ cc.next_seq_num = c.next_seq_num /\ cc.send_base = c.send_base
       /\ cc.send_buffer = c.send_buffer /\ cc.receive_next = x
       /\ cc.receive_buffer = b /\ cc.connection_state = t
  BY DEF ContextOK
<1>12. ContextOK(cc)
  <2>1. BufferOK(cc)
    BY <1>5, <1>6, <1>11 DEF BufferOK, InWindow
  <2>2. cc \in [connection_state : State, errno : Errno,
                is_APP_CLOSE_QUEUED : BOOLEAN, is_FIN_SENT : BOOLEAN,
                is_FIN_RECEIVED : BOOLEAN, peer_initial_seq : Nat,
                next_seq_num : Nat, send_base : Nat, send_buffer : Seq(Node),
                receive_next : Nat, receive_buffer : {b},
                retransmission_count : Nat]
    BY <1>3, <1>7, <1>10 DEF ContextOK
  <2> HIDE DEF cc
  <2>. QED  BY <2>1, <2>2, <1>11 DEF ContextOK
<1> HIDE DEF cc
<1>13. Advances(c, cc)
  BY <1>1, <1>3, <1>11 DEF Advances
<1>14. SynchronizedState(cc)
  BY <1>9, <1>11 DEF SynchronizedState
<1>15. ReceiverOK(cc, d)
  BY <1>4, <1>6, <1>11 DEF ReceiverOK
<1>16. SenderOK(cc, d)
  BY <1>11 DEF EndpointOK, SenderOK
<1>17. EndpointOK(cc, d)
  BY <1>10, <1>11, <1>15, <1>16 DEF EndpointOK, OpeningOK
<1>. QED  BY <1>8, <1>12, <1>13, <1>14, <1>17

(* The bare acknowledgement is right when it is sent. *)
LEMMA AckSent ==
  ASSUME NEW c, ContextOK(c), ISN < c.next_seq_num
  PROVE  Ack(c) \in Segment /\ SentOK(Ack(c), c) /\ Ack(c).flags = {"ACK"}
<1>1. c.next_seq_num \in Nat /\ c.receive_next \in Nat
  BY ContextFields
<1>2. {"ACK"} \in SUBSET Flag /\ "FIN" \notin {"ACK"} /\ "SYN" \notin {"ACK"}
  BY DEF Flag
<1>3. Ack(c) \in Segment /\ SegmentEnd(Ack(c)) = c.next_seq_num
  BY <1>1, <1>2, HeaderType DEF Ack
<1>4. /\ Ack(c).flags = {"ACK"} /\ Ack(c).seq = c.next_seq_num
      /\ Ack(c).ack = c.receive_next
  BY DEF Ack, Header
<1>. QED  BY <1>1, <1>2, <1>3, <1>4 DEF SentOK

(* The whole of handle_incoming_segment(). *)
LEMMA HandleSegmentStep ==
  ASSUME NEW c, NEW d, ContextOK(c), ContextOK(d), EndpointOK(c, d),
         SynchronizedState(c), d.receive_next <= c.next_seq_num,
         NEW s \in Segment, SegmentEnd(s) <= d.next_seq_num
  PROVE  LET cc == HandleSegment(c, s) IN
         /\ ContextOK(cc) /\ Advances(c, cc) /\ EndpointOK(cc, d)
         /\ SynchronizedState(cc)
         /\ Delivered(c, s) \in Seq(Byte)
         /\ SentOnSegment(c, s) \in Seq(Segment)
         /\ \A m \in Elements(SentOnSegment(c, s)) :
              SentOK(m, cc) /\ "SYN" \notin m.flags
<1> DEFINE cc == HandleSegment(c, s)
           b == Buffered(c, s)
<1>1. /\ c.receive_next \in Nat /\ InWindow(c.receive_buffer, c.receive_next)
      /\ \A x \in DOMAIN c.receive_buffer : c.receive_buffer[x] \in Nat
      /\ d.next_seq_num \in Nat /\ c.next_seq_num \in Nat
  BY ContextFields
<1>2. s.seq \in Nat /\ s.data \in Seq(Byte) /\ IsFin(s) \in BOOLEAN
      /\ SegmentEnd(s) \in Nat
  BY SegmentEndType DEF Segment, IsFin
<1>3. InWindow(b, c.receive_next) /\ \A x \in DOMAIN b : b[x] \in Nat
  BY <1>1, <1>2, InsertInWindow, InsertType DEF Buffered
<1>4. \A x \in DOMAIN b : x < d.next_seq_num
  <2> SUFFICES ASSUME NEW x \in DOMAIN b
               PROVE  x < d.next_seq_num
    OBVIOUS
  <2>1. CASE x \in DOMAIN c.receive_buffer
    BY <2>1 DEF EndpointOK, ReceiverOK
  <2>2. CASE x \notin DOMAIN c.receive_buffer
    <3>1. x \in s.seq .. (SegmentEnd(s) - 1)
      BY <2>2 DEF Buffered, Insert, Trimmed, SegmentEnd
    <3>. QED  BY <3>1, <1>1, <1>2
  <2>. QED  BY <2>1, <2>2
<1> HIDE DEF b
<1>5. Delivered(c, s) \in Seq(Byte)
  <2>1. FlushedBytes(b, c.receive_next) \in Seq(Byte)
    BY <1>1, <1>3, FlushedBytesType
  <2>. QED  BY <2>1 DEF Delivered, b
<1>6. /\ ContextOK(cc) /\ Advances(c, cc) /\ EndpointOK(cc, d)
      /\ SynchronizedState(cc)
  <2>1. LET f == Flushed(c, b) IN
        /\ ContextOK(f) /\ Advances(c, f) /\ EndpointOK(f, d)
        /\ SynchronizedState(f)
    BY <1>3, <1>4, FlushedStep
  <2>2. Advances(c, c)
    BY ContextFields DEF Advances
  <2>. QED  BY <2>1, <2>2 DEF HandleSegment, b
<1>7. ISN < cc.next_seq_num
  <2>1. ISN < c.next_seq_num
    BY SynchronizedFacts
  <2>2. cc.next_seq_num \in Nat
    BY <1>6, ContextFields
  <2> HIDE DEF cc
  <2>. QED  BY <1>1, <1>6, <2>1, <2>2 DEF Advances, ISN
<1>8. /\ SentOnSegment(c, s) \in Seq(Segment)
      /\ \A m \in Elements(SentOnSegment(c, s)) :
           SentOK(m, cc) /\ "SYN" \notin m.flags
  <2> DEFINE m == Ack(cc)
  <2>1. SentOnSegment(c, s) = <<>> \/ SentOnSegment(c, s) = <<m>>
    BY DEF SentOnSegment
  <2> HIDE DEF cc
  <2>2. m \in Segment /\ SentOK(m, cc) /\ "SYN" \notin m.flags
    BY <1>6, <1>7, AckSent
  <2> HIDE DEF m
  <2>3. <<m>> \in Seq(Segment) /\ Elements(<<m>>) = {m}
    BY <2>2, ElementsSingleton
  <2>. QED  BY <2>1, <2>2, <2>3, ElementsEmpty
<1>. QED  BY <1>5, <1>6, <1>8

(* The whole of handle_network_data(). *)
LEMMA HandleNetworkDataStep ==
  ASSUME NEW c, NEW d, ContextOK(c), ContextOK(d), EndpointOK(c, d),
         SynchronizedState(c), d.receive_next <= c.next_seq_num,
         NEW s \in Segment, SentOK(s, d)
  PROVE  LET cc == HandleNetworkData(c, s) IN
         /\ ContextOK(cc) /\ Advances(c, cc) /\ EndpointOK(cc, d)
         /\ SynchronizedState(cc)
         /\ Delivered(AfterAck(c, s), s) \in Seq(Byte)
         /\ SentOnNetworkData(c, s) \in Seq(Segment)
         /\ \A m \in Elements(SentOnNetworkData(c, s)) :
              SentOK(m, cc) /\ "SYN" \notin m.flags
<1> DEFINE a == AfterAck(c, s)
           first == IF "ACK" \in s.flags THEN SentOnAck(c, s.ack) ELSE <<>>
           cc == HandleSegment(a, s)
<1>1. /\ s.ack \in Nat /\ s.ack <= d.receive_next /\ SegmentEnd(s) <= d.next_seq_num
  BY DEF Segment, SentOK
<1>2. /\ ContextOK(a) /\ Advances(c, a) /\ EndpointOK(a, d)
      /\ SynchronizedState(a)
      /\ first \in Seq(Segment)
      /\ \A m \in Elements(first) : SentOK(m, a) /\ "SYN" \notin m.flags
  <2>1. CASE "ACK" \in s.flags
    BY <2>1, <1>1, HandleAckStep DEF AfterAck
  <2>2. CASE "ACK" \notin s.flags
    <3>1. Advances(c, c)
      BY ContextFields DEF Advances
    <3>. QED  BY <2>2, <3>1, ElementsEmpty DEF AfterAck
  <2>. QED  BY <2>1, <2>2
<1>3. /\ HandleNetworkData(c, s) = cc
      /\ SentOnNetworkData(c, s) = first \o SentOnSegment(a, s)
  BY DEF HandleNetworkData, SentOnNetworkData
<1> HIDE DEF a, first
<1>4. /\ c.next_seq_num \in Nat /\ c.receive_next \in Nat
      /\ a.next_seq_num \in Nat /\ a.receive_next \in Nat /\ d.receive_next \in Nat
  BY <1>2, ContextFields
<1>5. d.receive_next <= a.next_seq_num
  BY <1>2, <1>4 DEF Advances
<1>6. /\ ContextOK(cc) /\ Advances(a, cc) /\ EndpointOK(cc, d)
      /\ SynchronizedState(cc)
      /\ Delivered(a, s) \in Seq(Byte)
      /\ SentOnSegment(a, s) \in Seq(Segment)
      /\ \A m \in Elements(SentOnSegment(a, s)) :
           SentOK(m, cc) /\ "SYN" \notin m.flags
  BY <1>1, <1>2, <1>5, HandleSegmentStep
<1> HIDE DEF cc
<1>7. Advances(c, cc)
  <2>1. cc.next_seq_num \in Nat /\ cc.receive_next \in Nat
    BY <1>6, ContextFields
  <2>. QED  BY <2>1, <1>2, <1>4, <1>6 DEF Advances
<1>8. /\ first \o SentOnSegment(a, s) \in Seq(Segment)
      /\ Elements(first \o SentOnSegment(a, s))
           \subseteq Elements(first) \cup Elements(SentOnSegment(a, s))
  BY <1>2, <1>6, ElementsConcat
<1>9. \A m \in Elements(first) : SentOK(m, cc)
  <2>1. \A m \in Elements(first) : m \in Segment
    BY <1>2 DEF Elements
  <2>. QED  BY <2>1, <1>2, <1>6, SenderAdvances
<1>10. Delivered(AfterAck(c, s), s) \in Seq(Byte)
  BY <1>6 DEF a
<1>. QED  BY <1>2, <1>3, <1>6, <1>7, <1>8, <1>9, <1>10

-----------------------------------------------------------------------------
(* Steps of the system. *)

(* What the invariant says of one endpoint and its peer, one by one. *)
LEMMA PairFacts ==
  ASSUME IInv, NEW p \in Side
  PROVE  /\ ContextOK(ctx[p]) /\ ContextOK(ctx[Peer(p)])
         /\ EndpointOK(ctx[p], ctx[Peer(p)])
         /\ ctx[Peer(p)].receive_next <= ctx[p].next_seq_num
         /\ ChannelOK
         /\ \A m \in Transit(p) : m \in Segment /\ SentOK(m, ctx[Peer(p)])
         /\ app = [q \in Side |-> app[q]] /\ \A q \in Side : AppOK(app[q])
<1>1. Peer(p) \in Side /\ Peer(Peer(p)) = p
  BY Peers
<1>2. TypeOK /\ PairOK
  BY DEF IInv
<1>3. ChannelOK
  BY <1>2 DEF TypeOK, ChannelOK
<1>4. EndpointOK(ctx[Peer(p)], ctx[p])
  BY <1>1, <1>2 DEF PairOK
<1>5. \A m \in Transit(p) : SentOK(m, ctx[Peer(p)])
  BY <1>1, <1>2 DEF PairOK
<1>. QED  BY <1>1, <1>2, <1>3, <1>4, <1>5, TransitType
          DEF TypeOK, PairOK, EndpointOK, ReceiverOK

(* A change at the application of p. *)
LEMMA AppChanges ==
  ASSUME IInv, NEW p \in Side, NEW a, AppOK(a), app' = [app EXCEPT ![p] = a]
  PROVE  (app = [q \in Side |-> app[q]] /\ \A q \in Side : AppOK(app[q]))'
<1>1. app = [q \in Side |-> app[q]] /\ \A q \in Side : AppOK(app[q])
  BY PairFacts
<1>2. \A q \in Side : app'[q] = IF q = p THEN a ELSE app[q]
  BY <1>1
<1>. QED  BY <1>1, <1>2

(* A pass of p, whatever the state of its connection. *)
LEMMA PassInvariant ==
  ASSUME IInv, NEW p \in Side, NEW cc, NEW Sent,
         ContextOK(cc), Advances(ctx[p], cc), EndpointOK(cc, ctx[Peer(p)]),
         ctx' = [ctx EXCEPT ![p] = cc],
         \A m \in Sent : SentOK(m, cc),
         ChannelOK',
         Transit(p)' \subseteq Transit(p),
         Transit(Peer(p))' \subseteq Transit(Peer(p)) \cup Sent,
         (app = [q \in Side |-> app[q]] /\ \A q \in Side : AppOK(app[q]))',
         RolesOK', HandshakeOK'
  PROVE  IInv'
<1>1. PairOK' /\ (ctx = [q \in Side |-> ctx[q]] /\ \A q \in Side : ContextOK(ctx[q]))'
  BY PassPreserves DEF IInv
<1>2. TypeOK'
  BY <1>1 DEF TypeOK, ChannelOK
<1>. QED  BY <1>1, <1>2 DEF IInv

(* A pass of a connected end sends no SYN, and leaves the handshakes be.   *)
LEMMA ConnectedPass ==
  ASSUME IInv, NEW p \in Side, NEW cc, NEW Sent,
         ctx[p].connection_state \in Connected,
         ContextOK(cc), Advances(ctx[p], cc), EndpointOK(cc, ctx[Peer(p)]),
         SynchronizedState(cc),
         ctx' = [ctx EXCEPT ![p] = cc],
         \A m \in Sent : SentOK(m, cc) /\ "SYN" \notin m.flags,
         ChannelOK',
         Transit(p)' \subseteq Transit(p),
         Transit(Peer(p))' \subseteq Transit(Peer(p)) \cup Sent,
         (app = [q \in Side |-> app[q]] /\ \A q \in Side : AppOK(app[q]))'
  PROVE  IInv'
<1>1. /\ ctx = [q \in Side |-> ctx[q]] /\ RolesOK /\ HandshakeOK
  BY DEF IInv, TypeOK
<1>2. ctx'[p] = cc /\ \A q \in Side \ {p} : ctx'[q] = ctx[q]
  BY <1>1
<1>3. cc.connection_state \notin {"IDLE", "LISTEN", "SYN_SENT", "SYN_RCVD"}
  BY DEF SynchronizedState, Connected
<1>4. CASE p = "active"
  <2>1. Peer(p) = "passive" /\ "passive" \in Side \ {p} /\ ctx'["active"] = cc
    BY <1>2, <1>4 DEF Peer, Side
  <2>2. RolesOK'
    BY <1>1, <1>2, <1>3, <2>1 DEF RolesOK
  <2>3. HandshakeOK'
    BY <1>1, <1>3, <2>1 DEF HandshakeOK
  <2>. QED  BY <2>2, <2>3, PassInvariant
<1>5. CASE p = "passive"
  <2>1. Peer(p) = "active" /\ "active" \in Side \ {p} /\ ctx'["passive"] = cc
    BY <1>2, <1>5 DEF Peer, Side
  <2>2. RolesOK'
    BY <1>1, <1>2, <1>3, <2>1 DEF RolesOK
  <2>3. ctx["active"].connection_state \notin {"IDLE", "SYN_SENT"}
    BY <1>1, <1>5 DEF HandshakeOK, Connected
  <2>4. HandshakeOK'
    BY <1>1, <1>2, <1>5, <2>1, <2>3 DEF HandshakeOK
  <2>. QED  BY <2>2, <2>4, PassInvariant
<1>. QED  BY <1>4, <1>5 DEF Side

(* Nothing but the channel moves, and it invents nothing. *)
LEMMA ChannelStep ==
  ASSUME IInv, UNCHANGED <<ctx, app>>, ChannelOK',
         \A q \in Side : Transit(q)' \subseteq Transit(q)
  PROVE  IInv'
<1>1. TypeOK /\ PairOK /\ RolesOK /\ HandshakeOK
  BY DEF IInv
<1>2. TypeOK'
  BY <1>1 DEF TypeOK, ChannelOK
<1>3. PairOK'
  <2>1. \A p \in Side : Transit(Peer(p))' \subseteq Transit(Peer(p))
    BY Peers
  <2>. QED  BY <1>1, <2>1 DEF PairOK
<1>4. RolesOK'
  BY <1>1 DEF RolesOK
<1>5. HandshakeOK'
  <2>1. "active" \in Side /\ "passive" \in Side
    BY DEF Side
  <2>. QED  BY <1>1, <2>1 DEF HandshakeOK
<1>. QED  BY <1>2, <1>3, <1>4, <1>5 DEF IInv

(* Drop, Store and Discard preserve the invariant. *)
LEMMA LosingSteps ==
  ASSUME IInv, NEW p \in Side, Drop(p) \/ Store(p) \/ Discard(p)
  PROVE  IInv'
<1>1. ChannelOK
  BY PairFacts
<1>2. /\ wire[p] # <<>> /\ wire' = [wire EXCEPT ![p] = Tail(@)]
      /\ copy' = copy \/ copy' = [copy EXCEPT ![p] = <<Head(wire[p])>>]
      /\ UNCHANGED <<ctx, app>>
  BY DEF Drop, Store, Discard
<1>3. faults' \in Nat
  BY <1>1 DEF Drop, Store, Discard, Mistreat, ChannelOK
<1>4. ChannelOK' /\ \A q \in Side : Transit(q)' \subseteq Transit(q)
  BY <1>1, <1>2, <1>3, LoseProperty
<1>. QED  BY <1>2, <1>4, ChannelStep

(* The applications write and close. *)
LEMMA ApplicationSteps ==
  ASSUME IInv, NEW p \in Side, Write(p) \/ Close(p)
  PROVE  IInv'
<1>1. AppOK(app[p])
  BY PairFacts
<1>2. UNCHANGED <<ctx, wire, copy, faults>>
  BY DEF Write, Close
<1>3. (app = [q \in Side |-> app[q]] /\ \A q \in Side : AppOK(app[q]))'
  <2>1. CASE Write(p)
    <3>1. PICK n \in 1 .. MaxWrite :
            app' = [app EXCEPT ![p].written = @ + n,
                               ![p].app_recv_queue =
                      Append(@, [i \in 1 .. n |-> app[p].written + i])]
      BY <2>1 DEF Write
    <3> DEFINE bytes == [i \in 1 .. n |-> app[p].written + i]
               queue == Append(app[p].app_recv_queue, bytes)
               written == app[p].written + n
               a == [app[p] EXCEPT !.written = written, !.app_recv_queue = queue]
    <3>2. app' = [app EXCEPT ![p] = a]
      BY <3>1, PairFacts
    <3>3. n \in Nat /\ app[p].written \in Nat /\ app[p].app_recv_queue \in Seq(Seq(Byte))
      BY <1>1, STCPAssumption DEF AppOK
    <3>4. \A i \in 1 .. n : app[p].written + i \in Byte
      BY <3>3 DEF Byte, FIN
    <3>5. bytes \in Seq(Byte)
      BY <3>3, <3>4
    <3> HIDE DEF bytes
    <3>6. queue \in Seq(Seq(Byte)) /\ written \in Nat
      BY <3>3, <3>5
    <3> HIDE DEF queue, written
    <3>7. AppOK(a)
      BY <1>1, <3>6 DEF AppOK
    <3>. QED  BY <3>2, <3>7, AppChanges
  <2>2. CASE Close(p)
    <3> DEFINE a == [app[p] EXCEPT !.closed = TRUE, !.close_requested = TRUE]
    <3>1. app' = [app EXCEPT ![p] = a]
      BY <2>2, PairFacts DEF Close
    <3>2. AppOK(a)
      BY <1>1 DEF AppOK
    <3>. QED  BY <3>1, <3>2, AppChanges
  <2>. QED  BY <2>1, <2>2
<1>4. TypeOK'
  BY <1>2, <1>3 DEF IInv, TypeOK, ContextOK, BufferOK
<1>5. \A q \in Side : Transit(q)' = Transit(q)
  BY <1>2 DEF Transit
<1>6. PairOK' /\ RolesOK' /\ HandshakeOK'
  BY <1>2, <1>5 DEF IInv, PairOK, RolesOK, HandshakeOK, Transit
<1>. QED  BY <1>4, <1>6 DEF IInv

-----------------------------------------------------------------------------
(* The passes of control_loop(). *)

(* A pass of control_loop() on a segment preserves the invariant. *)
LEMMA ReceiveSegmentStep ==
  ASSUME IInv, NEW p \in Side, ReceiveSegment(p)
  PROVE  IInv'
<1> DEFINE c == ctx[p]
           d == ctx[Peer(p)]
<1>1. PICK s \in Arriving(p) :
        /\ Exchange(p, s, SentOnNetworkData(c, s))
        /\ ctx' = [ctx EXCEPT ![p] = HandleNetworkData(c, s)]
        /\ app' = [app EXCEPT ![p].received = @ \o Delivered(AfterAck(c, s), s)]
  BY DEF ReceiveSegment
<1>2. c.connection_state \in Connected /\ SynchronizedState(c)
  BY DEF ReceiveSegment, SynchronizedState
<1>3. s \in Segment /\ s \in Transit(p)
  <2>1. ChannelOK
    BY PairFacts
  <2>2. wire[p] \in Seq(Segment) /\ copy[p] \in Seq(Segment)
    BY <2>1 DEF ChannelOK
  <2>3. s \in Transit(p)
    BY <1>1 DEF Arriving, Transit, Elements
  <2>. QED  BY <2>1, <2>3, TransitType
<1>4. SentOK(s, d)
  BY <1>3, PairFacts
<1>5. LET cc == HandleNetworkData(c, s) IN
      /\ ContextOK(cc) /\ Advances(c, cc) /\ EndpointOK(cc, d)
      /\ SynchronizedState(cc)
      /\ Delivered(AfterAck(c, s), s) \in Seq(Byte)
      /\ SentOnNetworkData(c, s) \in Seq(Segment)
      /\ \A m \in Elements(SentOnNetworkData(c, s)) :
           SentOK(m, cc) /\ "SYN" \notin m.flags
  BY <1>2, <1>3, <1>4, PairFacts, HandleNetworkDataStep
<1>6. /\ ChannelOK'
      /\ Transit(p)' \subseteq Transit(p)
      /\ Transit(Peer(p))'
           \subseteq Transit(Peer(p)) \cup Elements(SentOnNetworkData(c, s))
  BY <1>1, <1>5, PairFacts, ExchangeProperty
<1>7. (app = [q \in Side |-> app[q]] /\ \A q \in Side : AppOK(app[q]))'
  <2> DEFINE received == app[p].received \o Delivered(AfterAck(c, s), s)
             a == [app[p] EXCEPT !.received = received]
  <2>1. AppOK(app[p])
    BY PairFacts
  <2>2. received \in Seq(Byte)
    BY <1>5, <2>1 DEF AppOK
  <2>3. app' = [app EXCEPT ![p] = a]
    BY <1>1, PairFacts
  <2> HIDE DEF received
  <2>4. AppOK(a)
    BY <2>1, <2>2 DEF AppOK
  <2>. QED  BY <2>3, <2>4, AppChanges
<1>. QED  BY <1>1, <1>2, <1>5, <1>6, <1>7, ConnectedPass

(* A pass that leaves the application alone and only sends. *)
LEMMA SendingPass ==
  ASSUME IInv, NEW p \in Side, NEW cc, NEW packets \in Seq(Segment),
         ctx[p].connection_state \in Connected,
         ContextOK(cc), Advances(ctx[p], cc), EndpointOK(cc, ctx[Peer(p)]),
         SynchronizedState(cc),
         ctx' = [ctx EXCEPT ![p] = cc],
         \A m \in Elements(packets) : SentOK(m, cc) /\ "SYN" \notin m.flags,
         Send(p, packets), UNCHANGED <<copy, faults>>,
         (app = [q \in Side |-> app[q]] /\ \A q \in Side : AppOK(app[q]))'
  PROVE  IInv'
<1>1. /\ ChannelOK' /\ Transit(p)' = Transit(p)
      /\ Transit(Peer(p))' \subseteq Transit(Peer(p)) \cup Elements(packets)
  BY PairFacts, SendProperty
<1>. QED  BY <1>1, ConnectedPass

(* A pass that sends nothing. *)
LEMMA SilentPass ==
  ASSUME IInv, NEW p \in Side, NEW cc,
         ctx[p].connection_state \in Connected,
         ContextOK(cc), Advances(ctx[p], cc), EndpointOK(cc, ctx[Peer(p)]),
         SynchronizedState(cc),
         ctx' = [ctx EXCEPT ![p] = cc],
         UNCHANGED <<wire, copy, faults>>,
         (app = [q \in Side |-> app[q]] /\ \A q \in Side : AppOK(app[q]))'
  PROVE  IInv'
<1> DEFINE Sent == {}
<1>1. ChannelOK' /\ \A q \in Side : Transit(q)' = Transit(q)
  BY PairFacts DEF ChannelOK, Transit
<1>2. \A m \in Sent : SentOK(m, cc) /\ "SYN" \notin m.flags
  OBVIOUS
<1>3. /\ Transit(p)' \subseteq Transit(p)
      /\ Transit(Peer(p))' \subseteq Transit(Peer(p)) \cup Sent
  BY <1>1, Peers
<1> HIDE DEF Sent
<1>. QED  BY <1>1, <1>2, <1>3, ConnectedPass

(* handle_app_data() preserves the invariant. *)
LEMMA HandleAppDataStep ==
  ASSUME IInv, NEW p \in Side, HandleAppData(p)
  PROVE  IInv'
<1> DEFINE c == ctx[p]
           d == ctx[Peer(p)]
           queue == app[p].app_recv_queue
           len == Least(Least(WinRemain(c), MSS), Len(Head(queue)))
           data == SubSeq(Head(queue), 1, len)
           n == [seq |-> c.next_seq_num, data |-> data, fin |-> FALSE]
           m == Packet(n, c.receive_next)
           cc == Transmitted(c, n)
<1>1. /\ c.connection_state \in Connected /\ WindowOpen(c) /\ queue # <<>>
      /\ ctx' = [ctx EXCEPT ![p] = cc]
      /\ app' = [app EXCEPT ![p].app_recv_queue = TakeBytes(@, len)]
      /\ Send(p, <<m>>)
      /\ UNCHANGED <<copy, faults>>
  BY DEF HandleAppData
<1>2. SynchronizedState(c)
  BY <1>1 DEF SynchronizedState
<1>3. ISN < c.next_seq_num
  BY <1>2, PairFacts, SynchronizedFacts
<1>4. c.next_seq_num \in Nat /\ c.send_base \in Nat /\ c.receive_next \in Nat
  BY PairFacts, ContextFields
<1>5. AppOK(app[p]) /\ queue \in Seq(Seq(Byte))
  BY PairFacts DEF AppOK
<1>6. Head(queue) \in Seq(Byte) /\ Tail(queue) \in Seq(Seq(Byte))
  BY <1>1, <1>5, ElementsTail
<1>7. /\ len \in Nat /\ len <= Len(Head(queue))
      /\ len <= (c.send_base + Window) - c.next_seq_num
  <2>1. WinRemain(c) \in Nat
    BY <1>1, <1>4, WindowAssumption DEF WinRemain, WindowOpen
  <2>2. Len(Head(queue)) \in Nat /\ MSS \in Nat
    BY <1>6, STCPAssumption
  <2>. QED  BY <2>1, <2>2, <1>4 DEF Least, WinRemain
<1> HIDE DEF len
<1>8. data \in Seq(Byte) /\ Len(data) = len
  BY <1>6, <1>7
<1> HIDE DEF data
<1>9. n \in Node /\ n.seq = c.next_seq_num
  BY <1>4, <1>8 DEF Node
<1>10. NodeEnd(n) <= c.send_base + Window
  <2>1. NodeEnd(n) = c.next_seq_num + len
    BY <1>4, <1>7, <1>8 DEF NodeEnd, EndOf
  <2>. QED  BY <2>1, <1>4, <1>7, WindowAssumption
<1> HIDE DEF n
<1>11. /\ ContextOK(cc) /\ Advances(c, cc) /\ EndpointOK(cc, d)
       /\ SynchronizedState(cc)
       /\ m \in Segment /\ "SYN" \notin m.flags /\ SentOK(m, cc)
  BY <1>2, <1>3, <1>9, <1>10, PairFacts, TransmittedStep
<1>12. <<m>> \in Seq(Segment) /\ Elements(<<m>>) = {m}
  BY <1>11, ElementsSingleton
<1>13. (app = [q \in Side |-> app[q]] /\ \A q \in Side : AppOK(app[q]))'
  <2> DEFINE rest == TakeBytes(queue, len)
             a == [app[p] EXCEPT !.app_recv_queue = rest]
  <2>1. rest \in Seq(Seq(Byte))
    <3>1. CASE Len(Head(queue)) > len
      <4> DEFINE left == SubSeq(Head(queue), len + 1, Len(Head(queue)))
      <4>1. left \in Seq(Byte)
        BY <1>6, <1>7
      <4>2. rest = <<left>> \o Tail(queue)
        BY <3>1 DEF TakeBytes
      <4> HIDE DEF left
      <4>3. <<left>> \in Seq(Seq(Byte))
        BY <4>1
      <4>. QED  BY <1>6, <4>2, <4>3, ElementsConcat
    <3>2. CASE ~ (Len(Head(queue)) > len)
      BY <1>6, <3>2 DEF TakeBytes
    <3>. QED  BY <3>1, <3>2
  <2>2. app' = [app EXCEPT ![p] = a]
    BY <1>1, PairFacts
  <2> HIDE DEF rest
  <2>3. AppOK(a)
    BY <1>5, <2>1 DEF AppOK
  <2>. QED  BY <2>2, <2>3, AppChanges
<1>. QED  BY <1>1, <1>11, <1>12, <1>13, SendingPass

(* handle_app_close() preserves the invariant. *)
LEMMA HandleAppCloseStep ==
  ASSUME IInv, NEW p \in Side, HandleAppClose(p)
  PROVE  IInv'
<1> DEFINE o == ctx[p]
           d == ctx[Peer(p)]
           t == Transition(o.connection_state, "SEND_FIN")
           c == [o EXCEPT !.is_FIN_SENT = TRUE, !.connection_state = t]
           m == Packet(FinNode(c), c.receive_next)
           w == [c EXCEPT !.is_APP_CLOSE_QUEUED = TRUE]
<1>1. /\ o.connection_state \in Connected
      /\ app' = [app EXCEPT ![p].close_requested = FALSE]
      /\ IF WindowOpen(o)
         THEN ctx' = [ctx EXCEPT ![p] = EnqueueFin(c)] /\ Send(p, <<m>>)
         ELSE ctx' = [ctx EXCEPT ![p] = w] /\ wire' = wire
      /\ UNCHANGED <<copy, faults>>
  BY DEF HandleAppClose
<1>2. SynchronizedState(o) /\ ContextOK(o) /\ ContextOK(d) /\ EndpointOK(o, d)
  BY <1>1, PairFacts DEF SynchronizedState
<1>3. t \in Connected \cup {"CLOSED"}
  BY <1>1, TransitionType
<1>4. t \in State /\ t \notin Opening
  BY <1>3 DEF State, Connected, Opening
<1>5. (app = [q \in Side |-> app[q]] /\ \A q \in Side : AppOK(app[q]))'
  <2> DEFINE a == [app[p] EXCEPT !.close_requested = FALSE]
  <2>1. AppOK(app[p]) /\ app' = [app EXCEPT ![p] = a]
    BY <1>1, PairFacts
  <2>2. AppOK(a)
    BY <2>1 DEF AppOK
  <2>. QED  BY <2>1, <2>2, AppChanges
<1> HIDE DEF t
<1>6. /\ ContextOK(c) /\ c.next_seq_num = o.next_seq_num
      /\ c.send_base = o.send_base /\ c.send_buffer = o.send_buffer
      /\ c.receive_next = o.receive_next /\ c.receive_buffer = o.receive_buffer
      /\ c.connection_state = t
  BY <1>2, <1>4 DEF ContextOK, BufferOK
<1>7. SynchronizedState(c)
  BY <1>3, <1>6 DEF SynchronizedState
<1> HIDE DEF c
<1>8. EndpointOK(c, d) /\ Advances(o, c)
  BY <1>2, <1>4, <1>6, Relabelled
<1>9. /\ ISN < c.next_seq_num
      /\ c.next_seq_num \in Nat /\ c.send_base \in Nat /\ c.receive_next \in Nat
  BY <1>2, <1>6, PairFacts, SynchronizedFacts, ContextFields
<1>10. CASE WindowOpen(o)
  <2> DEFINE e == Transmitted(c, FinNode(c))
  <2>1. /\ FinNode(c) \in Node /\ FinNode(c).seq = c.next_seq_num
        /\ NodeEnd(FinNode(c)) = c.next_seq_num + 1
        /\ EnqueueFin(c) = e
    BY <1>6, FinNodeType
  <2>2. NodeEnd(FinNode(c)) <= c.send_base + Window
    BY <1>6, <1>9, <1>10, <2>1, WindowAssumption DEF WindowOpen
  <2>3. /\ ContextOK(e) /\ Advances(c, e) /\ EndpointOK(e, d)
        /\ SynchronizedState(e)
        /\ m \in Segment /\ "SYN" \notin m.flags /\ SentOK(m, e)
    BY <1>2, <1>6, <1>7, <1>8, <1>9, <2>1, <2>2, TransmittedStep
  <2> HIDE DEF e, m
  <2>4. <<m>> \in Seq(Segment) /\ Elements(<<m>>) = {m}
    BY <2>3, ElementsSingleton
  <2>5. Advances(o, e)
    BY <1>6, <2>3 DEF Advances
  <2>. QED  BY <1>1, <1>5, <1>10, <2>1, <2>3, <2>4, <2>5, SendingPass
<1>11. CASE ~ WindowOpen(o)
  <2>1. /\ ContextOK(w) /\ w.next_seq_num = c.next_seq_num
        /\ w.send_base = c.send_base /\ w.send_buffer = c.send_buffer
        /\ w.receive_next = c.receive_next /\ w.receive_buffer = c.receive_buffer
        /\ w.connection_state = t
    BY <1>6 DEF ContextOK, BufferOK
  <2> HIDE DEF w
  <2>2. SynchronizedState(w)
    BY <1>3, <2>1 DEF SynchronizedState
  <2>3. EndpointOK(w, d) /\ Advances(o, w)
    BY <1>4, <1>6, <1>7, <1>8, <2>1, Relabelled DEF Advances
  <2>4. UNCHANGED <<wire, copy, faults>> /\ ctx' = [ctx EXCEPT ![p] = w]
    BY <1>1, <1>11
  <2>. QED  BY <1>1, <1>5, <2>1, <2>2, <2>3, <2>4, SilentPass
<1>. QED  BY <1>10, <1>11

(* handle_timeout() sends the nodes again, or gives up. *)
LEMMA HandleTimeoutStep ==
  ASSUME IInv, NEW p \in Side, HandleTimeout(p)
  PROVE  IInv'
<1> DEFINE c == ctx[p]
           d == ctx[Peer(p)]
           failed == Fail(c, "CLOSED", "ECONNABORTED")
           counted == [c EXCEPT !.retransmission_count = @ + 1]
<1>1. /\ c.connection_state \in Connected
      /\ UNCHANGED <<app, copy, faults>>
      /\ \/ ctx' = [ctx EXCEPT ![p] = failed] /\ wire' = wire
         \/ ctx' = [ctx EXCEPT ![p] = counted] /\ Send(p, Resend(c))
  <2>1. /\ c.connection_state \in Connected
        /\ UNCHANGED <<app, copy, faults>>
        /\ \/ ctx' = [ctx EXCEPT ![p] = failed] /\ wire' = wire
           \/ /\ ctx' = [ctx EXCEPT ![p].retransmission_count = @ + 1]
              /\ Send(p, Resend(c))
    BY DEF HandleTimeout
  <2>2. [ctx EXCEPT ![p].retransmission_count = @ + 1]
          = [ctx EXCEPT ![p] = counted]
    OBVIOUS
  <2>. QED  BY <2>1, <2>2
<1>2. SynchronizedState(c) /\ ContextOK(c) /\ EndpointOK(c, d)
  BY <1>1, PairFacts DEF SynchronizedState
<1>3. /\ c.retransmission_count \in Nat /\ c.next_seq_num \in Nat
      /\ c.receive_next \in Nat /\ c.send_buffer \in Seq(Node)
  BY <1>2, ContextFields
<1>4. (app = [q \in Side |-> app[q]] /\ \A q \in Side : AppOK(app[q]))'
  BY <1>1, PairFacts DEF AppOK
<1>5. CASE ctx' = [ctx EXCEPT ![p] = failed] /\ wire' = wire
  <2>1. /\ ContextOK(failed) /\ failed.next_seq_num = c.next_seq_num
        /\ failed.send_base = c.send_base /\ failed.send_buffer = c.send_buffer
        /\ failed.receive_next = c.receive_next
        /\ failed.receive_buffer = c.receive_buffer
        /\ failed.connection_state = "CLOSED"
    BY <1>2 DEF ContextOK, BufferOK, Fail, State, Errno
  <2> HIDE DEF failed
  <2>2. SynchronizedState(failed) /\ failed.connection_state \notin Opening
    BY <2>1 DEF SynchronizedState, Opening
  <2>3. EndpointOK(failed, d) /\ Advances(c, failed)
    BY <1>2, <2>1, <2>2, Relabelled
  <2>. QED  BY <1>1, <1>4, <1>5, <2>1, <2>2, <2>3, SilentPass
<1>6. CASE ctx' = [ctx EXCEPT ![p] = counted] /\ Send(p, Resend(c))
  <2>1. /\ ContextOK(counted) /\ counted.next_seq_num = c.next_seq_num
        /\ counted.send_base = c.send_base /\ counted.send_buffer = c.send_buffer
        /\ counted.receive_next = c.receive_next
        /\ counted.receive_buffer = c.receive_buffer
        /\ counted.connection_state = c.connection_state
    BY <1>2, <1>3 DEF ContextOK, BufferOK
  <2> HIDE DEF counted
  <2>2. SynchronizedState(counted) /\ counted.connection_state \notin Opening
    BY <1>2, <2>1 DEF SynchronizedState, Opening, Connected
  <2>3. EndpointOK(counted, d) /\ Advances(c, counted)
    BY <1>2, <2>1, <2>2, Relabelled
  <2>4. /\ Resend(c) \in Seq(Segment)
        /\ DOMAIN Resend(c) = DOMAIN c.send_buffer
        /\ \A i \in DOMAIN c.send_buffer :
             Resend(c)[i] = Packet(c.send_buffer[i], c.receive_next)
    BY <1>3, ResendType
  <2>5. ASSUME NEW i \in DOMAIN c.send_buffer
        PROVE  LET m == Packet(c.send_buffer[i], c.receive_next) IN
               SentOK(m, counted) /\ "SYN" \notin m.flags
    <3>1. c.send_buffer[i] \in Node
      BY <1>3
    <3>2. /\ c.send_buffer[i].seq > ISN
          /\ NodeEnd(c.send_buffer[i]) <= c.next_seq_num
      BY <1>2 DEF EndpointOK, SenderOK
    <3>3. c.send_buffer[i].seq \in Nat
      BY <3>1 DEF Node
    <3>. QED  BY <1>3, <2>1, <3>1, <3>2, <3>3, PacketType DEF SentOK, ISN
  <2>6. \A m \in Elements(Resend(c)) : SentOK(m, counted) /\ "SYN" \notin m.flags
    BY <2>4, <2>5 DEF Elements
  <2>. QED  BY <1>1, <1>4, <1>6, <2>1, <2>2, <2>3, <2>4, <2>6, SendingPass
<1>. QED  BY <1>1, <1>5, <1>6

-----------------------------------------------------------------------------
(* The passes of the handshake loops. *)

(* A pass of the active end, and what it may send while it opens. *)
LEMMA ActivePass ==
  ASSUME IInv, NEW p \in Side, p = "active", NEW cc, NEW Sent,
         ContextOK(cc), Advances(ctx[p], cc), EndpointOK(cc, ctx[Peer(p)]),
         ctx' = [ctx EXCEPT ![p] = cc],
         cc.connection_state \notin {"LISTEN", "SYN_RCVD"},
         cc.connection_state \in {"IDLE", "SYN_SENT"} =>
           /\ ctx[p].connection_state \in {"IDLE", "SYN_SENT"}
           /\ \A m \in Sent : m.flags = {"SYN"},
         \A m \in Sent : SentOK(m, cc) /\ ~ ({"SYN", "ACK"} \subseteq m.flags),
         UNCHANGED app, ChannelOK',
         Transit(p)' \subseteq Transit(p),
         Transit(Peer(p))' \subseteq Transit(Peer(p)) \cup Sent
  PROVE  IInv'
<1>1. ctx = [q \in Side |-> ctx[q]] /\ RolesOK /\ HandshakeOK
  BY DEF IInv, TypeOK
<1>2. /\ Peer(p) = "passive" /\ ctx'["active"] = cc
      /\ ctx'["passive"] = ctx["passive"]
  BY <1>1 DEF Peer, Side
<1>3. RolesOK'
  BY <1>1, <1>2 DEF RolesOK
<1>4. HandshakeOK'
  BY <1>1, <1>2 DEF HandshakeOK
<1>5. (app = [q \in Side |-> app[q]] /\ \A q \in Side : AppOK(app[q]))'
  BY PairFacts DEF AppOK
<1>. QED  BY <1>3, <1>4, <1>5, PassInvariant

(* A pass of the passive end, and what it may send while its peer opens. *)
LEMMA PassivePass ==
  ASSUME IInv, NEW p \in Side, p = "passive", NEW cc, NEW Sent,
         ContextOK(cc), Advances(ctx[p], cc), EndpointOK(cc, ctx[Peer(p)]),
         ctx' = [ctx EXCEPT ![p] = cc],
         cc.connection_state \notin {"IDLE", "SYN_SENT"},
         ctx[Peer(p)].connection_state \in {"IDLE", "SYN_SENT"} =>
           /\ cc.connection_state \in {"LISTEN", "SYN_RCVD", "REFUSED"}
           /\ \A m \in Sent :
                {"SYN", "ACK"} \subseteq m.flags /\ m.ack = ISN + 1,
         \A m \in Sent : SentOK(m, cc),
         ChannelOK',
         Transit(p)' \subseteq Transit(p),
         Transit(Peer(p))' \subseteq Transit(Peer(p)) \cup Sent,
         (app = [q \in Side |-> app[q]] /\ \A q \in Side : AppOK(app[q]))'
  PROVE  IInv'
<1>1. ctx = [q \in Side |-> ctx[q]] /\ RolesOK /\ HandshakeOK
  BY DEF IInv, TypeOK
<1>2. /\ Peer(p) = "active" /\ ctx'["passive"] = cc
      /\ ctx'["active"] = ctx["active"]
  BY <1>1 DEF Peer, Side
<1>3. RolesOK'
  BY <1>1, <1>2 DEF RolesOK
<1>4. HandshakeOK'
  BY <1>1, <1>2 DEF HandshakeOK
<1>. QED  BY <1>3, <1>4, PassInvariant

(* What an opening endpoint is, field by field. *)
LEMMA OpeningFacts ==
  ASSUME IInv, NEW p \in Side, ctx[p].connection_state \in Opening
  PROVE  LET c == ctx[p] IN
         /\ ContextOK(c) /\ EndpointOK(c, ctx[Peer(p)])
         /\ c.send_base = 1 /\ c.receive_buffer = EmptyBuffer
         /\ c.next_seq_num =
              IF c.connection_state \in {"IDLE", "LISTEN"} THEN 1 ELSE 2
         /\ c.receive_next = IF c.connection_state = "SYN_RCVD" THEN 2 ELSE 0
         /\ c.connection_state = "IDLE" => c.retransmission_count = 0
         /\ c.connection_state \in {"IDLE", "SYN_SENT"} => p = "active"
         /\ c.connection_state \in {"LISTEN", "SYN_RCVD"} => p = "passive"
<1>1. ContextOK(ctx[p]) /\ EndpointOK(ctx[p], ctx[Peer(p)])
  BY PairFacts
<1>2. RolesOK
  BY DEF IInv
<1>3. p \in {"active", "passive"}
  BY DEF Side
<1>4. ISN = 1 /\ ISN + 1 = 2
  BY DEF ISN
<1>. QED  BY <1>1, <1>2, <1>3, <1>4 DEF EndpointOK, OpeningOK, RolesOK

(* Before anything is received the window is empty. *)
LEMMA EmptyInWindow ==
  ASSUME NEW c, c.receive_buffer = EmptyBuffer
  PROVE  BufferOK(c) /\ DOMAIN c.receive_buffer = {}
BY DEF BufferOK, EmptyBuffer

(* The SYN is a segment, right with any end that has counted it. *)
LEMMA SynType ==
  /\ Syn \in Segment /\ SegmentEnd(Syn) = 1
  /\ Syn.flags = {"SYN"} /\ Syn.seq = 1 /\ Syn.ack = 0
<1>1. {"SYN"} \in SUBSET Flag /\ "FIN" \notin {"SYN"} /\ 1 \in Nat /\ 0 \in Nat
  BY DEF Flag
<1>2. Syn \in Segment /\ SegmentEnd(Syn) = 1
  BY <1>1, HeaderType DEF Syn, ISN
<1>. QED  BY <1>2 DEF Syn, Header, ISN

(* The SYNACK is a segment, right with the end that sends it. *)
LEMMA SynAckType ==
  ASSUME NEW c, c.receive_next \in Nat
  PROVE  /\ SynAck(c) \in Segment /\ SegmentEnd(SynAck(c)) = 1
         /\ SynAck(c).flags = {"SYN", "ACK"} /\ SynAck(c).seq = 1
         /\ SynAck(c).ack = c.receive_next
<1>1. {"SYN", "ACK"} \in SUBSET Flag /\ "FIN" \notin {"SYN", "ACK"} /\ 1 \in Nat
  BY DEF Flag
<1>2. SynAck(c) \in Segment /\ SegmentEnd(SynAck(c)) = 1
  BY <1>1, HeaderType DEF SynAck, ISN
<1>. QED  BY <1>2 DEF SynAck, Header, ISN

(* The first SYN. *)
LEMMA ConnectStep ==
  ASSUME IInv, NEW p \in Side, Connect(p)
  PROVE  IInv'
<1> DEFINE c == ctx[p]
           d == ctx[Peer(p)]
           cc == [c EXCEPT !.connection_state = "SYN_SENT", !.next_seq_num = 2]
<1>1. c.connection_state = "IDLE" /\ c.connection_state \in Opening
  BY DEF Connect, Opening
<1>2. /\ p = "active" /\ ContextOK(c) /\ EndpointOK(c, d) /\ c.send_base = 1
      /\ c.receive_buffer = EmptyBuffer /\ c.next_seq_num = 1
      /\ c.receive_next = 0 /\ c.retransmission_count = 0
  BY <1>1, OpeningFacts
<1>3. /\ ctx' = [ctx EXCEPT ![p] = cc] /\ Send(p, <<Syn>>)
      /\ UNCHANGED <<app, copy, faults>>
  <2> DEFINE o == [c EXCEPT !.connection_state = "SYN_SENT"]
  <2>1. o.retransmission_count = 0 /\ o.next_seq_num = 1
    BY <1>2 DEF ContextOK
  <2>2. SynPass(o) = [o EXCEPT !.next_seq_num = 2]
    <3> HIDE DEF o
    <3>. QED  BY <2>1 DEF SynPass
  <2>3. [o EXCEPT !.next_seq_num = 2] = cc
    BY <1>2 DEF ContextOK
  <2>4. /\ ctx' = [ctx EXCEPT ![p] = SynPass(o)] /\ Send(p, <<Syn>>)
        /\ UNCHANGED <<app, copy, faults>>
    BY DEF Connect
  <2>. QED  BY <2>2, <2>3, <2>4
<1>4. /\ ContextOK(cc) /\ cc.connection_state = "SYN_SENT"
      /\ cc.next_seq_num = 2 /\ cc.send_base = 1 /\ cc.receive_next = 0
      /\ cc.receive_buffer = EmptyBuffer /\ cc.send_buffer = c.send_buffer
  BY <1>2 DEF ContextOK, BufferOK, State, Opening
<1> HIDE DEF cc
<1>5. Advances(c, cc)
  BY <1>2, <1>4 DEF Advances
<1>6. EndpointOK(cc, d)
  <2>1. OpeningOK(cc)
    BY <1>4 DEF OpeningOK, ISN
  <2>2. ReceiverOK(cc, d)
    BY <1>2, <1>4 DEF EndpointOK, ReceiverOK
  <2>3. \A i \in DOMAIN c.send_buffer :
          NodeEnd(c.send_buffer[i]) \in Nat /\ NodeEnd(c.send_buffer[i]) <= 1
    BY <1>2, ContextFields, NodeEndType DEF EndpointOK, SenderOK
  <2>4. SenderOK(cc, d)
    BY <1>2, <1>4, <2>3
       DEF EndpointOK, SenderOK, SynchronizedState, Connected
  <2>. QED  BY <2>1, <2>2, <2>4 DEF EndpointOK
<1>7. <<Syn>> \in Seq(Segment) /\ Elements(<<Syn>>) = {Syn}
  BY SynType, ElementsSingleton
<1>8. /\ ChannelOK' /\ Transit(p)' \subseteq Transit(p)
      /\ Transit(Peer(p))' \subseteq Transit(Peer(p)) \cup {Syn}
  BY <1>3, <1>7, PairFacts, SendProperty
<1> DEFINE Sent == {Syn}
<1>9. \A m \in Sent : /\ SentOK(m, cc) /\ m.flags = {"SYN"}
                       /\ ~ ({"SYN", "ACK"} \subseteq m.flags)
  BY <1>4, SynType DEF SentOK, ISN
<1>10. Transit(Peer(p))' \subseteq Transit(Peer(p)) \cup Sent
  BY <1>8
<1>11. /\ cc.connection_state \notin {"LISTEN", "SYN_RCVD"}
       /\ c.connection_state \in {"IDLE", "SYN_SENT"}
  BY <1>1, <1>4
<1> HIDE DEF Sent
<1>. QED  BY <1>2, <1>3, <1>4, <1>5, <1>6, <1>8, <1>9, <1>10, <1>11, ActivePass

(* A sent header that is not a FIN: what PassInvariant asks of it. *)
LEMMA ExchangeOne ==
  ASSUME IInv, NEW p \in Side, NEW s, NEW m \in Segment, Exchange(p, s, <<m>>)
  PROVE  /\ s \in Transit(p) /\ s \in Segment /\ SentOK(s, ctx[Peer(p)])
         /\ ChannelOK'
         /\ Transit(p)' \subseteq Transit(p)
         /\ Transit(Peer(p))' \subseteq Transit(Peer(p)) \cup {m}
<1>1. <<m>> \in Seq(Segment) /\ Elements(<<m>>) = {m}
  BY ElementsSingleton
<1>2. /\ s \in Transit(p) /\ ChannelOK'
      /\ Transit(p)' \subseteq Transit(p)
      /\ Transit(Peer(p))' \subseteq Transit(Peer(p)) \cup {m}
  BY <1>1, PairFacts, ExchangeProperty
<1>. QED  BY <1>2, PairFacts

(* A pass that takes a packet and sends none. *)
LEMMA ExchangeNone ==
  ASSUME IInv, NEW p \in Side, NEW s, Exchange(p, s, <<>>)
  PROVE  /\ s \in Transit(p) /\ s \in Segment /\ SentOK(s, ctx[Peer(p)])
         /\ ChannelOK'
         /\ Transit(p)' \subseteq Transit(p)
         /\ Transit(Peer(p))' \subseteq Transit(Peer(p))
<1>1. <<>> \in Seq(Segment) /\ Elements(<<>>) = {}
  BY ElementsEmpty
<1>2. /\ s \in Transit(p) /\ ChannelOK'
      /\ Transit(p)' \subseteq Transit(p)
      /\ Transit(Peer(p))' \subseteq Transit(Peer(p)) \cup {}
  BY <1>1, PairFacts, ExchangeProperty
<1>. QED  BY <1>2, PairFacts

(* What arrives was in transit. *)
LEMMA ArrivingTransit ==
  ASSUME IInv, NEW p \in Side, NEW s \in Arriving(p)
  PROVE  s \in Transit(p) /\ s \in Segment /\ SentOK(s, ctx[Peer(p)])
<1>1. wire[p] \in Seq(Segment) /\ copy[p] \in Seq(Segment)
  BY PairFacts DEF ChannelOK
<1>2. s \in Transit(p)
  BY <1>1 DEF Arriving, Transit, Elements
<1>. QED  BY <1>2, PairFacts

(* The update of Established() keeps the context well typed: nothing is     *)
(* buffered during the handshake, whatever the numbers are.                *)
LEMMA EstablishedContext ==
  ASSUME NEW c, ContextOK(c), c.receive_buffer = EmptyBuffer,
         NEW peer \in Nat, NEW rnext \in Nat, NEW cc,
         cc = [c EXCEPT !.connection_state = "ESTABLISHED",
                        !.retransmission_count = 0, !.send_base = 2,
                        !.peer_initial_seq = peer, !.receive_next = rnext]
  PROVE  ContextOK(cc)
<1>1. "ESTABLISHED" \in State
  BY DEF State, Connected
<1>2. c \in [connection_state : State, errno : Errno,
             is_APP_CLOSE_QUEUED : BOOLEAN, is_FIN_SENT : BOOLEAN,
             is_FIN_RECEIVED : BOOLEAN, peer_initial_seq : Nat,
             next_seq_num : Nat, send_base : Nat, send_buffer : Seq(Node),
             receive_next : Nat, receive_buffer : {EmptyBuffer},
             retransmission_count : Nat]
  BY DEF ContextOK
<1>3. cc \in [connection_state : State, errno : Errno,
             is_APP_CLOSE_QUEUED : BOOLEAN, is_FIN_SENT : BOOLEAN,
             is_FIN_RECEIVED : BOOLEAN, peer_initial_seq : Nat,
             next_seq_num : Nat, send_base : Nat, send_buffer : Seq(Node),
             receive_next : Nat, receive_buffer : {EmptyBuffer},
             retransmission_count : Nat]
  BY <1>1, <1>2
<1>4. cc.receive_buffer = EmptyBuffer /\ cc.receive_next = rnext
  BY <1>2
<1>5. BufferOK(cc)
  BY <1>4, EmptyInWindow
<1>. QED  BY <1>3, <1>4, <1>5 DEF ContextOK

(* The same of the update of AcceptSyn().                                   *)
LEMMA SynRcvdContext ==
  ASSUME NEW c, ContextOK(c), c.receive_buffer = EmptyBuffer, NEW cc,
         cc = [c EXCEPT !.connection_state = "SYN_RCVD",
                        !.peer_initial_seq = 1,
                        !.receive_next = 2, !.next_seq_num = 2]
  PROVE  ContextOK(cc)
<1>1. "SYN_RCVD" \in State
  BY DEF State, Opening
<1>2. c \in [connection_state : State, errno : Errno,
             is_APP_CLOSE_QUEUED : BOOLEAN, is_FIN_SENT : BOOLEAN,
             is_FIN_RECEIVED : BOOLEAN, peer_initial_seq : Nat,
             next_seq_num : Nat, send_base : Nat, send_buffer : Seq(Node),
             receive_next : Nat, receive_buffer : {EmptyBuffer},
             retransmission_count : Nat]
  BY DEF ContextOK
<1>3. cc \in [connection_state : State, errno : Errno,
             is_APP_CLOSE_QUEUED : BOOLEAN, is_FIN_SENT : BOOLEAN,
             is_FIN_RECEIVED : BOOLEAN, peer_initial_seq : Nat,
             next_seq_num : Nat, send_base : Nat, send_buffer : Seq(Node),
             receive_next : Nat, receive_buffer : {EmptyBuffer},
             retransmission_count : Nat]
  BY <1>1, <1>2
<1>4. cc.receive_buffer = EmptyBuffer /\ cc.receive_next = 2
  BY <1>2
<1>5. BufferOK(cc)
  BY <1>4, EmptyInWindow
<1>. QED  BY <1>3, <1>4, <1>5 DEF ContextOK

(* The active end can only be answered by a SYNACK, which it accepts. *)
LEMMA ReceiveSynSentStep ==
  ASSUME IInv, NEW p \in Side, ReceiveSynSent(p)
  PROVE  IInv'
<1> DEFINE c == ctx[p]
           d == ctx[Peer(p)]
<1>1. c.connection_state = "SYN_SENT" /\ c.connection_state \in Opening
  BY DEF ReceiveSynSent, Opening
<1>2. /\ p = "active" /\ ContextOK(c) /\ EndpointOK(c, d) /\ c.send_base = 1
      /\ c.receive_buffer = EmptyBuffer /\ c.next_seq_num = 2
      /\ c.receive_next = 0
  BY <1>1, OpeningFacts
<1>3. PICK s \in Arriving(p) :
        LET synack == IsSynAck(c, s)
            cc == IF synack THEN AcceptSynAck(c, s) ELSE SynPass(c)
        IN /\ Exchange(p, s, IF synack THEN <<Ack(cc)>> ELSE <<Syn>>)
           /\ ctx' = [ctx EXCEPT ![p] = cc]
  BY DEF ReceiveSynSent
<1>4. s \in Transit(p) /\ s \in Segment /\ SentOK(s, d)
  BY ArrivingTransit
<1>5. {"SYN", "ACK"} \subseteq s.flags /\ s.ack = 2
  <2>1. HandshakeOK
    BY DEF IInv
  <2>. QED  BY <1>1, <1>2, <1>4, <2>1 DEF HandshakeOK, ISN
<1>6. IsSynAck(c, s)
  BY <1>2, <1>5 DEF IsSynAck
<1> DEFINE cc == AcceptSynAck(c, s)
           m == Ack(cc)
           Sent == {m}
<1>7. Exchange(p, s, <<m>>) /\ ctx' = [ctx EXCEPT ![p] = cc] /\ UNCHANGED app
  BY <1>3, <1>6 DEF ReceiveSynSent
<1>8. s.seq = 1 /\ 1 < d.next_seq_num /\ 2 <= d.receive_next
  BY <1>4, <1>5 DEF SentOK, ISN
<1>9. /\ cc = [c EXCEPT !.connection_state = "ESTABLISHED",
                        !.retransmission_count = 0, !.send_base = 2,
                        !.peer_initial_seq = 1, !.receive_next = 2]
  BY <1>5, <1>8 DEF AcceptSynAck, Established
<1> HIDE DEF cc
<1>10. /\ cc.connection_state = "ESTABLISHED" /\ cc.next_seq_num = 2
       /\ cc.send_base = 2 /\ cc.receive_next = 2
       /\ cc.receive_buffer = EmptyBuffer /\ cc.send_buffer = c.send_buffer
  BY <1>2, <1>9 DEF ContextOK
<1>11. ContextOK(cc)
  BY <1>2, <1>9, EstablishedContext
<1>12. Advances(c, cc)
  BY <1>2, <1>10 DEF Advances
<1>13. EndpointOK(cc, d)
  <2>1. OpeningOK(cc)
    BY <1>10 DEF OpeningOK, Opening
  <2>2. ReceiverOK(cc, d)
    <3>1. d.next_seq_num \in Nat
      BY PairFacts, ContextFields
    <3>. QED  BY <1>8, <1>10, <3>1, EmptyInWindow DEF ReceiverOK
  <2>3. SenderOK(cc, d)
    BY <1>2, <1>8, <1>10, WindowAssumption DEF EndpointOK, SenderOK, ISN
  <2>. QED  BY <2>1, <2>2, <2>3 DEF EndpointOK
<1>14. m \in Segment /\ SentOK(m, cc) /\ m.flags = {"ACK"}
  BY <1>10, <1>11, AckSent DEF ISN
<1> HIDE DEF m
<1>15. /\ ChannelOK' /\ Transit(p)' \subseteq Transit(p)
       /\ Transit(Peer(p))' \subseteq Transit(Peer(p)) \cup Sent
  BY <1>7, <1>14, ExchangeOne
<1>16. \A x \in Sent : SentOK(x, cc) /\ ~ ({"SYN", "ACK"} \subseteq x.flags)
  BY <1>14
<1>17. cc.connection_state \notin {"LISTEN", "SYN_RCVD", "IDLE", "SYN_SENT"}
  BY <1>10
<1> HIDE DEF Sent
<1>. QED  BY <1>2, <1>7, <1>11, <1>12, <1>13, <1>15, <1>16, <1>17, ActivePass

(* A SYN opens the passive end; anything else leaves it listening. *)
LEMMA ReceiveListenStep ==
  ASSUME IInv, NEW p \in Side, ReceiveListen(p)
  PROVE  IInv'
<1> DEFINE c == ctx[p]
           d == ctx[Peer(p)]
<1>1. c.connection_state = "LISTEN" /\ c.connection_state \in Opening
  BY DEF ReceiveListen, Opening
<1>2. /\ p = "passive" /\ ContextOK(c) /\ EndpointOK(c, d) /\ c.send_base = 1
      /\ c.receive_buffer = EmptyBuffer /\ c.next_seq_num = 1
      /\ c.receive_next = 0
  BY <1>1, OpeningFacts
<1>3. PICK s \in Arriving(p) :
        LET cc == IF "SYN" \in s.flags THEN AcceptSyn(c, s) ELSE c
        IN /\ Exchange(p, s, IF "SYN" \in s.flags THEN <<SynAck(cc)>> ELSE <<>>)
           /\ ctx' = [ctx EXCEPT ![p] = cc]
  BY DEF ReceiveListen
<1>4. s \in Transit(p) /\ s \in Segment /\ SentOK(s, d)
  BY ArrivingTransit
<1>5. (app = [q \in Side |-> app[q]] /\ \A q \in Side : AppOK(app[q]))'
  BY PairFacts DEF ReceiveListen, AppOK
<1>6. CASE "SYN" \notin s.flags
  <2> DEFINE Sent == {}
  <2>1. Exchange(p, s, <<>>) /\ ctx' = [ctx EXCEPT ![p] = c]
    BY <1>3, <1>6
  <2>2. /\ ChannelOK' /\ Transit(p)' \subseteq Transit(p)
        /\ Transit(Peer(p))' \subseteq Transit(Peer(p)) \cup Sent
    BY <2>1, ExchangeNone
  <2>3. Advances(c, c)
    BY <1>2, ContextFields DEF Advances
  <2>4. \A x \in Sent : /\ SentOK(x, c) /\ x.ack = ISN + 1
                        /\ {"SYN", "ACK"} \subseteq x.flags
    OBVIOUS
  <2>5. c.connection_state \in {"LISTEN", "SYN_RCVD", "REFUSED"}
        /\ c.connection_state \notin {"IDLE", "SYN_SENT"}
    BY <1>1
  <2> HIDE DEF Sent
  <2>. QED  BY <1>2, <1>5, <2>1, <2>2, <2>3, <2>4, <2>5, PassivePass
<1>7. CASE "SYN" \in s.flags
  <2> DEFINE cc == AcceptSyn(c, s)
             m == SynAck(cc)
             Sent == {m}
  <2>1. Exchange(p, s, <<m>>) /\ ctx' = [ctx EXCEPT ![p] = cc]
    BY <1>3, <1>7
  <2>2. s.seq = 1 /\ 1 < d.next_seq_num
    BY <1>4, <1>7 DEF SentOK, ISN
  <2>3. cc = [c EXCEPT !.connection_state = "SYN_RCVD", !.peer_initial_seq = 1,
                       !.receive_next = 2, !.next_seq_num = 2]
    BY <1>2, <2>2 DEF AcceptSyn
  <2> HIDE DEF cc
  <2>4. /\ cc.connection_state = "SYN_RCVD" /\ cc.next_seq_num = 2
        /\ cc.send_base = 1 /\ cc.receive_next = 2
        /\ cc.receive_buffer = EmptyBuffer /\ cc.send_buffer = c.send_buffer
    BY <1>2, <2>3 DEF ContextOK
  <2>5. ContextOK(cc)
    BY <1>2, <2>3, SynRcvdContext
  <2>6. Advances(c, cc)
    BY <1>2, <2>4 DEF Advances
  <2>7. EndpointOK(cc, d)
    <3>1. OpeningOK(cc)
      BY <2>4 DEF OpeningOK, ISN
    <3>2. ReceiverOK(cc, d)
      <4>1. d.next_seq_num \in Nat
        BY PairFacts, ContextFields
      <4>. QED  BY <2>2, <2>4, <4>1, EmptyInWindow DEF ReceiverOK
    <3>3. \A i \in DOMAIN c.send_buffer :
            NodeEnd(c.send_buffer[i]) \in Nat /\ NodeEnd(c.send_buffer[i]) <= 1
      BY <1>2, ContextFields, NodeEndType DEF EndpointOK, SenderOK
    <3>4. SenderOK(cc, d)
      BY <1>2, <2>4, <3>3 DEF EndpointOK, SenderOK, SynchronizedState, Connected
    <3>. QED  BY <3>1, <3>2, <3>4 DEF EndpointOK
  <2>8. /\ m \in Segment /\ SegmentEnd(m) = 1 /\ m.flags = {"SYN", "ACK"}
        /\ m.seq = 1 /\ m.ack = 2
    BY <2>4, SynAckType
  <2> HIDE DEF m
  <2>9. \A x \in Sent : /\ SentOK(x, cc) /\ x.ack = ISN + 1
                        /\ {"SYN", "ACK"} \subseteq x.flags
    BY <2>4, <2>8 DEF SentOK, ISN
  <2>10. /\ ChannelOK' /\ Transit(p)' \subseteq Transit(p)
         /\ Transit(Peer(p))' \subseteq Transit(Peer(p)) \cup Sent
    BY <2>1, <2>8, ExchangeOne
  <2>11. cc.connection_state \in {"LISTEN", "SYN_RCVD", "REFUSED"}
         /\ cc.connection_state \notin {"IDLE", "SYN_SENT"}
    BY <2>4
  <2> HIDE DEF Sent
  <2>. QED  BY <1>2, <1>5, <2>1, <2>5, <2>6, <2>7, <2>9, <2>10, <2>11, PassivePass
<1>. QED  BY <1>6, <1>7

(* The ACK that completes the handshake is no SYNACK, so it comes from an  *)
(* active end that is established, and starts past its SYN.                *)
LEMMA ReceiveSynRcvdStep ==
  ASSUME IInv, NEW p \in Side, ReceiveSynRcvd(p)
  PROVE  IInv'
<1> DEFINE c == ctx[p]
           d == ctx[Peer(p)]
<1>1. c.connection_state = "SYN_RCVD" /\ c.connection_state \in Opening
  BY DEF ReceiveSynRcvd, Opening
<1>2. /\ p = "passive" /\ ContextOK(c) /\ EndpointOK(c, d) /\ c.send_base = 1
      /\ c.receive_buffer = EmptyBuffer /\ c.next_seq_num = 2
      /\ c.receive_next = 2
  BY <1>1, OpeningFacts
<1>3. PICK s \in Arriving(p) :
        IF CompletesHandshake(c, s)
        THEN /\ Exchange(p, s, <<>>)
             /\ ctx' = [ctx EXCEPT ![p] = AcceptAck(c, s)]
             /\ app' = [app EXCEPT ![p].received = @ \o s.data]
        ELSE /\ Exchange(p, s, <<SynAck(c)>>)
             /\ UNCHANGED <<ctx, app>>
  BY DEF ReceiveSynRcvd
<1>4. s \in Transit(p) /\ s \in Segment /\ SentOK(s, d)
  BY ArrivingTransit
<1>5. HandshakeOK /\ Peer(p) = "active" /\ ctx = [q \in Side |-> ctx[q]]
  BY <1>2 DEF IInv, TypeOK, Peer
<1>6. CASE CompletesHandshake(c, s)
  <2> DEFINE rnext == s.seq + Len(s.data)
             cc == AcceptAck(c, s)
             Sent == {}
  <2>1. /\ Exchange(p, s, <<>>) /\ ctx' = [ctx EXCEPT ![p] = cc]
        /\ app' = [app EXCEPT ![p].received = @ \o s.data]
    BY <1>3, <1>6
  <2>2. "ACK" \in s.flags /\ s.ack = 2
    BY <1>2, <1>6 DEF CompletesHandshake
  <2>3. "SYN" \notin s.flags
    BY <1>2, <1>4, <1>5, <2>2 DEF HandshakeOK
  <2>4. d.connection_state \notin {"IDLE", "SYN_SENT"}
    BY <1>2, <1>4, <1>5, <2>3 DEF HandshakeOK
  <2>5. /\ s.seq \in Nat /\ s.data \in Seq(Byte) /\ Len(s.data) \in Nat
        /\ SegmentEnd(s) \in Nat /\ rnext <= SegmentEnd(s)
    BY <1>4, SegmentEndType DEF Segment
  <2>6. 1 < s.seq /\ 2 <= d.receive_next /\ SegmentEnd(s) <= d.next_seq_num
    BY <1>4, <2>2, <2>3 DEF SentOK, ISN
  <2>7. /\ d.next_seq_num \in Nat /\ d.receive_next \in Nat
    BY PairFacts, ContextFields
  <2>8. rnext \in Nat /\ 2 <= rnext /\ rnext <= d.next_seq_num
    BY <2>5, <2>6, <2>7
  <2>9. cc = [c EXCEPT !.connection_state = "ESTABLISHED",
                       !.retransmission_count = 0, !.send_base = 2,
                       !.peer_initial_seq = s.seq, !.receive_next = rnext]
    BY <2>2 DEF AcceptAck, Established
  <2> HIDE DEF cc, rnext
  <2>10. /\ cc.connection_state = "ESTABLISHED" /\ cc.next_seq_num = 2
         /\ cc.send_base = 2 /\ cc.receive_next = rnext
         /\ cc.receive_buffer = EmptyBuffer /\ cc.send_buffer = c.send_buffer
    BY <1>2, <2>9 DEF ContextOK
  <2>11. ContextOK(cc)
    BY <1>2, <2>5, <2>8, <2>9, EstablishedContext
  <2>12. Advances(c, cc)
    BY <1>2, <2>8, <2>10 DEF Advances
  <2>13. EndpointOK(cc, d)
    <3>1. OpeningOK(cc)
      BY <2>10 DEF OpeningOK, Opening
    <3>2. ReceiverOK(cc, d)
      BY <2>8, <2>10, EmptyInWindow DEF ReceiverOK
    <3>3. SenderOK(cc, d)
      BY <1>2, <2>6, <2>10, WindowAssumption DEF EndpointOK, SenderOK, ISN
    <3>. QED  BY <3>1, <3>2, <3>3 DEF EndpointOK
  <2>14. /\ ChannelOK' /\ Transit(p)' \subseteq Transit(p)
         /\ Transit(Peer(p))' \subseteq Transit(Peer(p)) \cup Sent
    BY <2>1, ExchangeNone
  <2>15. \A x \in Sent : /\ SentOK(x, cc) /\ x.ack = ISN + 1
                         /\ {"SYN", "ACK"} \subseteq x.flags
    OBVIOUS
  <2>16. cc.connection_state \notin {"IDLE", "SYN_SENT"}
    BY <2>10
  <2>17. (app = [q \in Side |-> app[q]] /\ \A q \in Side : AppOK(app[q]))'
    <3> DEFINE received == app[p].received \o s.data
               a == [app[p] EXCEPT !.received = received]
    <3>1. AppOK(app[p])
      BY PairFacts
    <3>2. received \in Seq(Byte)
      BY <2>5, <3>1 DEF AppOK
    <3>3. app' = [app EXCEPT ![p] = a]
      BY <2>1, PairFacts
    <3> HIDE DEF received
    <3>4. AppOK(a)
      BY <3>1, <3>2 DEF AppOK
    <3>. QED  BY <3>3, <3>4, AppChanges
  <2> HIDE DEF Sent
  <2>. QED  BY <1>2, <2>1, <2>4, <2>11, <2>12, <2>13, <2>14, <2>15, <2>16,
               <2>17, PassivePass
<1>7. CASE ~ CompletesHandshake(c, s)
  <2> DEFINE m == SynAck(c)
             Sent == {m}
  <2>1. Exchange(p, s, <<m>>) /\ UNCHANGED <<ctx, app>>
    BY <1>3, <1>7
  <2>2. /\ m \in Segment /\ SegmentEnd(m) = 1 /\ m.flags = {"SYN", "ACK"}
        /\ m.seq = 1 /\ m.ack = 2
    BY <1>2, SynAckType
  <2> HIDE DEF m
  <2>3. ctx' = [ctx EXCEPT ![p] = c]
    BY <1>5, <2>1
  <2>4. \A x \in Sent : /\ SentOK(x, c) /\ x.ack = ISN + 1
                        /\ {"SYN", "ACK"} \subseteq x.flags
    BY <1>2, <2>2 DEF SentOK, ISN
  <2>5. /\ ChannelOK' /\ Transit(p)' \subseteq Transit(p)
        /\ Transit(Peer(p))' \subseteq Transit(Peer(p)) \cup Sent
    BY <2>1, <2>2, ExchangeOne
  <2>6. c.connection_state \in {"LISTEN", "SYN_RCVD", "REFUSED"}
        /\ c.connection_state \notin {"IDLE", "SYN_SENT"}
    BY <1>1
  <2>7. Advances(c, c)
    BY <1>2, ContextFields DEF Advances
  <2>8. (app = [q \in Side |-> app[q]] /\ \A q \in Side : AppOK(app[q]))'
    BY <2>1, PairFacts DEF AppOK
  <2> HIDE DEF Sent
  <2>. QED  BY <1>2, <2>3, <2>4, <2>5, <2>6, <2>7, <2>8, PassivePass
<1>. QED  BY <1>6, <1>7

(* The SYN or the SYNACK goes out again, or the handshake is given up.     *)
LEMMA HandshakeTimeoutStep ==
  ASSUME IInv, NEW p \in Side, HandshakeTimeout(p)
  PROVE  IInv'
<1> DEFINE c == ctx[p]
           d == ctx[Peer(p)]
           counted == [c EXCEPT !.retransmission_count = @ + 1]
           failed == Fail(counted, "REFUSED", "ECONNREFUSED")
           m == HandshakePacket(counted)
<1>1. /\ c.connection_state \in {"SYN_SENT", "SYN_RCVD"}
      /\ c.connection_state \in Opening
      /\ UNCHANGED <<app, copy, faults>>
      /\ \/ ctx' = [ctx EXCEPT ![p] = counted] /\ Send(p, <<m>>)
         \/ ctx' = [ctx EXCEPT ![p] = failed] /\ wire' = wire
  BY DEF HandshakeTimeout, Opening
<1>2. /\ ContextOK(c) /\ EndpointOK(c, d) /\ c.send_base = 1
      /\ c.receive_buffer = EmptyBuffer /\ c.next_seq_num = 2
      /\ c.receive_next = IF c.connection_state = "SYN_RCVD" THEN 2 ELSE 0
      /\ c.connection_state = "SYN_SENT" => p = "active"
      /\ c.connection_state = "SYN_RCVD" => p = "passive"
  BY <1>1, OpeningFacts
<1>3. c.retransmission_count \in Nat
  BY <1>2, ContextFields
<1>4. /\ ContextOK(counted) /\ counted.next_seq_num = 2 /\ counted.send_base = 1
      /\ counted.receive_next = c.receive_next
      /\ counted.receive_buffer = EmptyBuffer
      /\ counted.send_buffer = c.send_buffer
      /\ counted.connection_state = c.connection_state
  BY <1>2, <1>3 DEF ContextOK, BufferOK
<1> HIDE DEF counted
<1>5. /\ ContextOK(failed) /\ failed.next_seq_num = 2 /\ failed.send_base = 1
      /\ failed.receive_next = c.receive_next
      /\ failed.receive_buffer = EmptyBuffer
      /\ failed.send_buffer = c.send_buffer
      /\ failed.connection_state = "REFUSED"
  BY <1>4 DEF ContextOK, BufferOK, Fail, State, Errno
<1> HIDE DEF failed
<1>6. c.receive_next \in Nat
  BY <1>2, ContextFields
<1>7. Advances(c, counted) /\ Advances(c, failed)
  BY <1>2, <1>4, <1>5, <1>6 DEF Advances
<1>8. EndpointOK(counted, d)
  <2>1. OpeningOK(counted)
    BY <1>1, <1>2, <1>4 DEF OpeningOK, ISN
  <2>2. ReceiverOK(counted, d)
    BY <1>2, <1>4 DEF EndpointOK, ReceiverOK
  <2>3. SenderOK(counted, d)
    BY <1>1, <1>2, <1>4 DEF EndpointOK, SenderOK, SynchronizedState, Connected
  <2>. QED  BY <2>1, <2>2, <2>3 DEF EndpointOK
<1>9. EndpointOK(failed, d)
  <2>1. OpeningOK(failed)
    BY <1>5 DEF OpeningOK, Opening
  <2>2. ReceiverOK(failed, d)
    BY <1>2, <1>5 DEF EndpointOK, ReceiverOK
  <2>3. SenderOK(failed, d)
    BY <1>2, <1>5 DEF EndpointOK, SenderOK, SynchronizedState, Connected
  <2>. QED  BY <2>1, <2>2, <2>3 DEF EndpointOK
<1>10. (app = [q \in Side |-> app[q]] /\ \A q \in Side : AppOK(app[q]))'
  BY <1>1, PairFacts DEF AppOK
<1>11. CASE ctx' = [ctx EXCEPT ![p] = failed] /\ wire' = wire
  <2> DEFINE Sent == {}
  <2>1. ChannelOK' /\ \A q \in Side : Transit(q)' = Transit(q)
    BY <1>1, <1>11, PairFacts DEF ChannelOK, Transit
  <2>2. /\ Transit(p)' \subseteq Transit(p)
        /\ Transit(Peer(p))' \subseteq Transit(Peer(p)) \cup Sent
    BY <2>1, Peers
  <2>3. \A x \in Sent : /\ SentOK(x, failed) /\ x.ack = ISN + 1
                        /\ {"SYN", "ACK"} \subseteq x.flags
                        /\ ~ ({"SYN", "ACK"} \subseteq x.flags)
    OBVIOUS
  <2> HIDE DEF Sent
  <2>4. CASE p = "active"
    BY <1>1, <1>5, <1>7, <1>9, <1>11, <2>1, <2>2, <2>3, <2>4, ActivePass
  <2>5. CASE p = "passive"
    BY <1>5, <1>7, <1>9, <1>10, <1>11, <2>1, <2>2, <2>3, <2>5, PassivePass
  <2>. QED  BY <2>4, <2>5 DEF Side
<1>12. CASE /\ ctx' = [ctx EXCEPT ![p] = counted] /\ Send(p, <<m>>)
            /\ c.connection_state = "SYN_SENT"
  <2> DEFINE Sent == {m}
  <2>1. m = Syn
    BY <1>4, <1>12 DEF HandshakePacket
  <2> HIDE DEF m
  <2>2. <<m>> \in Seq(Segment) /\ Elements(<<m>>) = Sent
    BY <2>1, SynType, ElementsSingleton
  <2>3. \A x \in Sent : /\ SentOK(x, counted) /\ x.flags = {"SYN"}
                        /\ ~ ({"SYN", "ACK"} \subseteq x.flags)
    BY <1>4, <1>6, <2>1, SynType DEF SentOK, ISN
  <2> HIDE DEF Sent
  <2>4. /\ ChannelOK' /\ Transit(p)' \subseteq Transit(p)
        /\ Transit(Peer(p))' \subseteq Transit(Peer(p)) \cup Sent
    BY <1>1, <1>12, <2>2, PairFacts, SendProperty
  <2>5. /\ counted.connection_state \notin {"LISTEN", "SYN_RCVD"}
        /\ c.connection_state \in {"IDLE", "SYN_SENT"} /\ p = "active"
    BY <1>2, <1>4, <1>12
  <2>6. ctx' = [ctx EXCEPT ![p] = counted] /\ UNCHANGED app
    BY <1>1, <1>12
  <2>. QED  BY <1>4, <1>7, <1>8, <2>3, <2>4, <2>5, <2>6, ActivePass
<1>13. CASE /\ ctx' = [ctx EXCEPT ![p] = counted] /\ Send(p, <<m>>)
            /\ c.connection_state = "SYN_RCVD"
  <2> DEFINE Sent == {m}
  <2>1. m = SynAck(counted)
    BY <1>4, <1>13 DEF HandshakePacket
  <2> HIDE DEF m
  <2>2. /\ m \in Segment /\ SegmentEnd(m) = 1 /\ m.flags = {"SYN", "ACK"}
        /\ m.seq = 1 /\ m.ack = 2
    BY <1>2, <1>4, <1>13, <2>1, SynAckType
  <2>3. <<m>> \in Seq(Segment) /\ Elements(<<m>>) = Sent
    BY <2>2, ElementsSingleton
  <2>4. \A x \in Sent : /\ SentOK(x, counted) /\ x.ack = ISN + 1
                        /\ {"SYN", "ACK"} \subseteq x.flags
    BY <1>2, <1>4, <1>13, <2>2 DEF SentOK, ISN
  <2> HIDE DEF Sent
  <2>5. /\ ChannelOK' /\ Transit(p)' \subseteq Transit(p)
        /\ Transit(Peer(p))' \subseteq Transit(Peer(p)) \cup Sent
    BY <1>1, <1>13, <2>3, PairFacts, SendProperty
  <2>6. counted.connection_state \in {"LISTEN", "SYN_RCVD", "REFUSED"}
        /\ counted.connection_state \notin {"IDLE", "SYN_SENT"}
    BY <1>4, <1>13
  <2>. QED  BY <1>2, <1>4, <1>7, <1>8, <1>10, <1>13, <2>4, <2>5, <2>6, PassivePass
<1>. QED  BY <1>1, <1>11, <1>12, <1>13

-----------------------------------------------------------------------------
(* The theorems. *)

(* The invariant holds initially: nothing is sent and nothing received. *)
LEMMA InitIInv == Init => IInv
<1> SUFFICES ASSUME Init PROVE IInv
  OBVIOUS
<1>1. /\ ctx = [p \in Side |->
                  InitialContext(IF p = "active" THEN "IDLE" ELSE "LISTEN")]
      /\ app = [p \in Side |->
                  [written |-> 0, app_recv_queue |-> <<>>, received |-> <<>>,
                   close_requested |-> FALSE, closed |-> FALSE]]
      /\ wire = [p \in Side |-> <<>>] /\ copy = [p \in Side |-> <<>>]
      /\ faults = 0
  BY DEF Init
<1>2. ASSUME NEW p \in Side
      PROVE  LET c == ctx[p] IN
             /\ ContextOK(c)
             /\ c.connection_state = IF p = "active" THEN "IDLE" ELSE "LISTEN"
             /\ c.receive_next = 0 /\ c.next_seq_num = 1 /\ c.send_base = 1
             /\ c.receive_buffer = EmptyBuffer /\ c.send_buffer = <<>>
             /\ c.retransmission_count = 0
  <2> DEFINE state == IF p = "active" THEN "IDLE" ELSE "LISTEN"
             c == InitialContext(state)
  <2>1. ctx[p] = c
    BY <1>1
  <2>2. state \in State
    BY DEF State, Opening
  <2> HIDE DEF state
  <2>3. /\ c.connection_state = state
        /\ c.receive_next = 0 /\ c.next_seq_num = 1 /\ c.send_base = 1
        /\ c.receive_buffer = EmptyBuffer /\ c.send_buffer = <<>>
        /\ c.retransmission_count = 0
    BY DEF InitialContext, ISN
  <2>4. c \in [connection_state : State, errno : Errno,
               is_APP_CLOSE_QUEUED : BOOLEAN, is_FIN_SENT : BOOLEAN,
               is_FIN_RECEIVED : BOOLEAN, peer_initial_seq : Nat,
               next_seq_num : Nat, send_base : Nat, send_buffer : Seq(Node),
               receive_next : Nat, receive_buffer : {EmptyBuffer},
               retransmission_count : Nat]
    BY <2>2 DEF InitialContext, Errno, ISN
  <2> HIDE DEF c
  <2>5. ContextOK(c)
    BY <2>3, <2>4, EmptyInWindow DEF ContextOK
  <2>. QED  BY <2>1, <2>3, <2>5 DEF state
<1>3. \A p \in Side : AppOK(app[p])
  BY <1>1 DEF AppOK
<1>4. TypeOK
  <2>1. ctx = [p \in Side |-> ctx[p]] /\ app = [p \in Side |-> app[p]]
    BY <1>1
  <2>2. wire \in [Side -> Seq(Segment)] /\ copy \in [Side -> Seq(Segment)]
    BY <1>1
  <2>. QED  BY <1>1, <1>2, <1>3, <2>1, <2>2 DEF TypeOK
<1>5. \A p \in Side : Transit(p) = {}
  BY <1>1, ElementsEmpty DEF Transit
<1>6. PairOK
  <2>1. ASSUME NEW p \in Side
        PROVE  EndpointOK(ctx[p], ctx[Peer(p)])
    <3>1. Peer(p) \in Side
      BY Peers
    <3>2. OpeningOK(ctx[p])
      BY <1>2 DEF OpeningOK, ISN
    <3>3. ReceiverOK(ctx[p], ctx[Peer(p)])
      BY <1>2, <3>1, EmptyInWindow DEF ReceiverOK
    <3>4. SenderOK(ctx[p], ctx[Peer(p)])
      BY <1>2 DEF SenderOK, SynchronizedState, Connected
    <3>. QED  BY <3>2, <3>3, <3>4 DEF EndpointOK
  <2>2. \A p \in Side : Transit(Peer(p)) = {}
    BY <1>5, Peers
  <2>. QED  BY <2>1, <2>2 DEF PairOK
<1>7. RolesOK /\ HandshakeOK
  BY <1>2, <1>5 DEF RolesOK, HandshakeOK, Side
<1>. QED  BY <1>4, <1>6, <1>7 DEF IInv

(* Every action preserves the invariant. *)
LEMMA NextIInv == IInv /\ [Next]_vars => IInv'
<1> SUFFICES ASSUME IInv, [Next]_vars PROVE IInv'
  OBVIOUS
<1>1. ASSUME NEW p \in Side, Connect(p) PROVE IInv'
  BY <1>1, ConnectStep
<1>2. ASSUME NEW p \in Side, Receive(p) PROVE IInv'
  BY <1>2, ReceiveSynSentStep, ReceiveListenStep, ReceiveSynRcvdStep,
     ReceiveSegmentStep DEF Receive
<1>3. ASSUME NEW p \in Side, Timeout(p) PROVE IInv'
  BY <1>3, HandshakeTimeoutStep, HandleTimeoutStep DEF Timeout
<1>4. ASSUME NEW p \in Side, HandleAppData(p) \/ HandleAppClose(p) PROVE IInv'
  BY <1>4, HandleAppDataStep, HandleAppCloseStep
<1>5. ASSUME NEW p \in Side, Write(p) \/ Close(p) PROVE IInv'
  BY <1>5, ApplicationSteps
<1>6. ASSUME NEW p \in Side, Drop(p) \/ Store(p) \/ Discard(p) PROVE IInv'
  BY <1>6, LosingSteps
<1>7. CASE UNCHANGED vars
  <2>1. UNCHANGED <<ctx, app, wire, copy, faults>>
    BY <1>7 DEF vars
  <2>2. ChannelOK' /\ \A q \in Side : Transit(q)' \subseteq Transit(q)
    <3>1. ChannelOK
      BY DEF IInv, TypeOK, ChannelOK
    <3>. QED  BY <2>1, <3>1 DEF ChannelOK, Transit
  <2>. QED  BY <2>1, <2>2, ChannelStep
<1>. QED  BY <1>1, <1>2, <1>3, <1>4, <1>5, <1>6, <1>7 DEF Next

(* The invariant gives the agreement of the windows. *)
LEMMA IInvWindows == IInv => WindowsAgree
<1> SUFFICES ASSUME IInv, NEW p \in Side, Synchronized(p)
             PROVE  /\ ctx[p].send_base <= ctx[Peer(p)].receive_next
                    /\ ctx[Peer(p)].receive_next <= ctx[p].next_seq_num
                    /\ ctx[p].next_seq_num <= ctx[p].send_base + Window
  BY DEF WindowsAgree
<1>1. SynchronizedState(ctx[p])
  BY DEF Synchronized, SynchronizedState
<1>2. EndpointOK(ctx[p], ctx[Peer(p)])
      /\ ctx[Peer(p)].receive_next <= ctx[p].next_seq_num
  BY PairFacts
<1>. QED  BY <1>1, <1>2 DEF EndpointOK, SenderOK

(* In every behaviour each endpoint is right with its peer, the packets in *)
(* transit are right with the endpoint that sent them, and both handshakes *)
(* are where the two ends take them to be, whatever the channel loses,     *)
(* repeats or delays (do_active_handshake, do_passive_handshake,           *)
(* control_loop).                                                          *)
THEOREM InductiveInvariant == Spec => []IInv
BY InitIInv, NextIInv, PTL DEF Spec

(* The type invariant: every variable keeps its type, and the receive      *)
(* buffer of an endpoint never holds a sequence number outside the current *)
(* receive window, whatever arrives (handle_incoming_segment).             *)
THEOREM TypeCorrect == Spec => []TypeOK
<1>1. IInv => TypeOK
  BY DEF IInv
<1>. QED  BY <1>1, InductiveInvariant, PTL

(* Whatever the channel drops, repeats, delays or puts in the place of     *)
(* another packet, the peer has what an endpoint no longer keeps for       *)
(* retransmission, no endpoint acknowledges what was not sent, and the     *)
(* window bounds what is outstanding.                                      *)
THEOREM WindowsAlwaysAgree == Spec => []WindowsAgree
BY IInvWindows, InductiveInvariant, PTL
-----------------------------------------------------------------------------
(* What an endpoint has sent stays right as it goes on sending. *)

(* cc is c later: it keeps the nodes of c that are not acknowledged, what  *)
(* it has besides is numbered later, and a numbered FIN ends the numbers.  *)
Continues(c, cc) ==
  /\ SynchronizedState(c) /\ SynchronizedState(cc)
  /\ c.send_base <= cc.send_base
  /\ \A i \in DOMAIN c.send_buffer :
       \/ NodeEnd(c.send_buffer[i]) <= cc.send_base
       \/ \E j \in DOMAIN cc.send_buffer : cc.send_buffer[j] = c.send_buffer[i]
  /\ \A j \in DOMAIN cc.send_buffer :
       \/ c.next_seq_num <= cc.send_buffer[j].seq
       \/ \E i \in DOMAIN c.send_buffer : c.send_buffer[i] = cc.send_buffer[j]
  /\ IF FinNumbered(c)
     THEN FinNumbered(cc) /\ cc.next_seq_num = c.next_seq_num
     ELSE FinNumbered(cc) => c.next_seq_num < cc.next_seq_num

(* A boundary between nodes stays one, or falls behind send_base. *)
LEMMA ContinuedBoundary ==
  ASSUME NEW c, NEW cc, ContextOK(c), ContextOK(cc), Continues(c, cc),
         NEW x \in Nat, Boundary(c, x)
  PROVE  Boundary(cc, x)
<1>1. c.send_base \in Nat /\ cc.send_base \in Nat
  BY ContextFields
<1>2. CASE x <= c.send_base
  BY <1>1, <1>2 DEF Boundary, Continues
<1>3. CASE \E i \in DOMAIN c.send_buffer : x = NodeEnd(c.send_buffer[i])
  BY <1>3 DEF Boundary, Continues
<1>. QED  BY <1>2, <1>3 DEF Boundary

(* What is at a sequence number stays there. *)
LEMMA ContinuedContent ==
  ASSUME NEW c, NEW cc, ContextOK(c), ContextOK(cc), Continues(c, cc),
         NEW x \in Nat, x < c.next_seq_num
  PROVE  ContentOf(cc, x) = ContentOf(c, x)
<1>1. c.next_seq_num \in Nat /\ cc.next_seq_num \in Nat
  BY ContextFields
<1>. QED  BY <1>1 DEF ContentOf, Continues

(* Numbers in a receive window are naturals. *)
LEMMA BufferedNat ==
  ASSUME NEW d, ContextOK(d)
  PROVE  DOMAIN d.receive_buffer \subseteq Nat
<1>1. d.receive_next \in Nat /\ InWindow(d.receive_buffer, d.receive_next)
  BY ContextFields
<1>. QED  BY <1>1, WindowAssumption DEF InWindow

(* What the peer has received stays right. *)
LEMMA ContinuedArrived ==
  ASSUME NEW c, NEW cc, NEW d, ContextOK(c), ContextOK(cc), ContextOK(d),
         Continues(c, cc), ReceiverOK(d, c), ArrivedOK(d, c)
  PROVE  ArrivedOK(d, cc)
<1>1. /\ c.next_seq_num \in Nat /\ cc.next_seq_num \in Nat
      /\ d.receive_next \in Nat /\ DOMAIN d.receive_buffer \subseteq Nat
      /\ d.receive_next <= c.next_seq_num
  BY ContextFields, BufferedNat DEF ReceiverOK
<1>2. ASSUME NEW x \in DOMAIN d.receive_buffer
      PROVE  d.receive_buffer[x] = ContentOf(cc, x)
  <2>1. x \in Nat /\ x < c.next_seq_num
    BY <1>1 DEF ReceiverOK
  <2>2. ContentOf(cc, x) = ContentOf(c, x)
    BY <2>1, ContinuedContent
  <2>. QED  BY <2>2 DEF ArrivedOK
<1>3. ASSUME SynchronizedState(d)
      PROVE  /\ ISN < d.receive_next
             /\ d.is_FIN_RECEIVED <=>
                  FinNumbered(cc) /\ d.receive_next = cc.next_seq_num
  BY <1>1, <1>3 DEF ArrivedOK, Continues
<1>4. Boundary(cc, d.receive_next)
  <2>1. Boundary(c, d.receive_next)
    BY DEF ArrivedOK, Continues
  <2>. QED  BY <1>1, <2>1, ContinuedBoundary
<1>5. ASSUME NEW j \in DOMAIN cc.send_buffer, NEW x \in Span(cc.send_buffer[j]),
             NEW y \in Span(cc.send_buffer[j]), x \in DOMAIN d.receive_buffer
      PROVE  y \in DOMAIN d.receive_buffer
  <2>1. x \in Nat /\ x < c.next_seq_num
    BY <1>1, <1>5 DEF ReceiverOK
  <2>2. cc.send_buffer[j] \in Node
    BY ContextFields
  <2>3. cc.send_buffer[j].seq \in Nat /\ cc.send_buffer[j].seq <= x
    BY <2>1, <2>2, NodeEndType DEF Node, Span
  <2>4. PICK i \in DOMAIN c.send_buffer : c.send_buffer[i] = cc.send_buffer[j]
    BY <1>1, <2>1, <2>3 DEF Continues
  <2>5. SynchronizedState(c)
    BY DEF Continues
  <2>. QED  BY <1>5, <2>4, <2>5 DEF ArrivedOK
<1>. QED  BY <1>2, <1>3, <1>4, <1>5 DEF ArrivedOK

(* What is on its way to the peer stays right. *)
LEMMA ContinuedCarried ==
  ASSUME NEW c, NEW cc, ContextOK(c), ContextOK(cc), Continues(c, cc),
         NEW m \in Segment, CarriedOK(m, c)
  PROVE  CarriedOK(m, cc)
<1>1. /\ m.seq \in Nat /\ SegmentEnd(m) \in Nat
      /\ c.send_base \in Nat /\ cc.send_base \in Nat
  BY ContextFields, SegmentEndType DEF Segment
<1>2. Boundary(cc, m.seq)
  BY <1>1, ContinuedBoundary DEF CarriedOK, Continues
<1>3. CASE SegmentEnd(m) <= c.send_base
  BY <1>1, <1>2, <1>3 DEF CarriedOK, Continues
<1>4. ASSUME NEW i \in DOMAIN c.send_buffer,
             m.seq = c.send_buffer[i].seq, m.data = c.send_buffer[i].data,
             IsFin(m) = c.send_buffer[i].fin
      PROVE  CarriedOK(m, cc)
  <2>1. CASE NodeEnd(c.send_buffer[i]) <= cc.send_base
    <3>1. SegmentEnd(m) = NodeEnd(c.send_buffer[i])
      BY <1>4 DEF SegmentEnd, NodeEnd
    <3>. QED  BY <1>2, <2>1, <3>1 DEF CarriedOK, Continues
  <2>2. CASE \E j \in DOMAIN cc.send_buffer : cc.send_buffer[j] = c.send_buffer[i]
    BY <1>2, <1>4, <2>2 DEF CarriedOK, Continues
  <2>. QED  BY <2>1, <2>2 DEF Continues
<1>5. CASE ~ CarriesData(m)
  BY <1>2, <1>5 DEF CarriedOK
<1>. QED  BY <1>3, <1>4, <1>5 DEF CarriedOK

(* The three together. *)
LEMMA ContinuedSentRight ==
  ASSUME NEW c, NEW cc, NEW d, NEW out, NEW back,
         ContextOK(c), ContextOK(cc), ContextOK(d), ReceiverOK(d, c),
         out \subseteq Segment, back \subseteq Segment,
         Continues(c, cc), TilesOK(cc), SentRight(c, d, out, back)
  PROVE  SentRight(cc, d, out, back)
<1>1. ArrivedOK(d, cc)
  BY ContinuedArrived DEF SentRight
<1>2. \A m \in out : CarriedOK(m, cc)
  BY ContinuedCarried DEF SentRight
<1>3. ASSUME NEW m \in back
      PROVE  AckOK(m, cc)
  <2>1. m.ack \in Nat
    BY DEF Segment
  <2>2. Boundary(c, m.ack)
    BY DEF SentRight, AckOK, Continues
  <2>. QED  BY <2>1, <2>2, ContinuedBoundary DEF AckOK
<1>. QED  BY <1>1, <1>2, <1>3 DEF SentRight

-----------------------------------------------------------------------------
(* The steps of a sender. *)

(* The place where the numbers end is a boundary. *)
LEMMA NextIsBoundary ==
  ASSUME NEW c, ContextOK(c), TilesOK(c), SynchronizedState(c)
  PROVE  Boundary(c, c.next_seq_num)
<1>1. c.send_buffer \in Seq(Node) /\ c.send_base \in Nat
  BY ContextFields
<1>2. CASE c.send_buffer = <<>>
  BY <1>1, <1>2 DEF TilesOK, Boundary
<1>3. CASE c.send_buffer # <<>>
  <2>1. Len(c.send_buffer) \in DOMAIN c.send_buffer
    BY <1>1, <1>3
  <2>. QED  BY <1>3, <2>1 DEF TilesOK, Boundary
<1>. QED  BY <1>2, <1>3

(* A change that leaves the send buffer and its bounds alone. *)
LEMMA SameSender ==
  ASSUME NEW c, NEW cc, TilesOK(c), ContextOK(c),
         SynchronizedState(c), SynchronizedState(cc),
         cc.send_base = c.send_base, cc.next_seq_num = c.next_seq_num,
         cc.send_buffer = c.send_buffer, FinNumbered(cc) <=> FinNumbered(c)
  PROVE  TilesOK(cc) /\ Continues(c, cc)
<1>1. c.send_base \in Nat /\ c.next_seq_num \in Nat
  BY ContextFields
<1>2. TilesOK(cc)
  BY DEF TilesOK, NodeOK
<1>3. Continues(c, cc)
  BY <1>1 DEF Continues
<1>. QED  BY <1>2, <1>3

(* A node joins the send buffer: handle_app_data, or the FIN. *)
LEMMA NodeJoins ==
  ASSUME NEW c, NEW cc, NEW n \in Node, ContextOK(c), ContextOK(cc), TilesOK(c),
         SynchronizedState(c), SynchronizedState(cc), ~ FinNumbered(c),
         cc.send_base = c.send_base, cc.next_seq_num = NodeEnd(n),
         cc.send_buffer = Append(c.send_buffer, n),
         n.seq = c.next_seq_num, n.seq < NodeEnd(n),
         n.fin <=> FinNumbered(cc), n.fin => n.data = <<>>,
         \A k \in DOMAIN n.data : n.data[k] = (n.seq - ISN) + (k - 1),
         c.send_base <= c.next_seq_num
  PROVE  TilesOK(cc) /\ Continues(c, cc)
<1> DEFINE b == c.send_buffer
           bb == cc.send_buffer
<1>1. /\ c.send_base \in Nat /\ c.next_seq_num \in Nat /\ b \in Seq(Node)
      /\ NodeEnd(n) \in Nat
  BY ContextFields, NodeEndType
<1>2. /\ Len(bb) = Len(b) + 1 /\ DOMAIN bb = 1 .. (Len(b) + 1)
      /\ DOMAIN b = 1 .. Len(b) /\ Len(b) \in Nat
      /\ \A i \in DOMAIN b : bb[i] = b[i]
      /\ bb[Len(b) + 1] = n
      /\ bb # <<>>
  BY <1>1
<1>3. \A i \in DOMAIN b :
        /\ b[i] \in Node /\ b[i].seq \in Nat /\ NodeEnd(b[i]) \in Nat
        /\ NodeOK(b[i], c)
        /\ b[i].seq = IF i = 1 THEN c.send_base ELSE NodeEnd(b[i - 1])
  <2>1. \A i \in DOMAIN b : b[i] \in Node
    BY <1>1
  <2>. QED  BY <2>1, NodeEndType DEF TilesOK, Node
<1> HIDE DEF b, bb
<1>4. \A i \in DOMAIN b : NodeOK(b[i], cc)
  BY <1>1, <1>3 DEF NodeOK
<1>5. NodeOK(n, cc)
  BY <1>1 DEF NodeOK
<1>6. \A i \in DOMAIN bb : NodeOK(bb[i], cc)
  BY <1>2, <1>4, <1>5
<1>7. ASSUME NEW i \in DOMAIN bb
      PROVE  bb[i].seq = IF i = 1 THEN cc.send_base ELSE NodeEnd(bb[i - 1])
  <2>1. CASE i \in DOMAIN b
    BY <1>2, <1>3, <2>1
  <2>2. CASE i \notin DOMAIN b
    <3>1. i = Len(b) + 1 /\ bb[i] = n
      BY <1>2, <2>2
    <3>2. c.next_seq_num = IF b = <<>> THEN c.send_base ELSE NodeEnd(b[Len(b)])
      BY DEF TilesOK, b
    <3>3. b = <<>> <=> Len(b) = 0
      BY <1>1 DEF b
    <3>4. CASE Len(b) = 0
      BY <3>1, <3>2, <3>3, <3>4
    <3>5. CASE Len(b) # 0
      <4>1. Len(b) \in DOMAIN b /\ i - 1 = Len(b) /\ i # 1
        BY <1>2, <3>1, <3>5
      <4>. QED  BY <1>2, <3>1, <3>2, <3>3, <3>5, <4>1
    <3>. QED  BY <3>4, <3>5
  <2>. QED  BY <2>1, <2>2
<1>8. ASSUME NEW i \in DOMAIN bb, NEW j \in DOMAIN bb, i < j
      PROVE  NodeEnd(bb[i]) <= bb[j].seq
  <2>1. i \in DOMAIN b
    BY <1>2, <1>8
  <2>2. CASE j \in DOMAIN b
    BY <1>2, <1>8, <2>1, <2>2 DEF TilesOK, b
  <2>3. CASE j \notin DOMAIN b
    BY <1>2, <1>3, <2>1, <2>3 DEF NodeOK
  <2>. QED  BY <2>2, <2>3
<1>9. cc.next_seq_num = NodeEnd(bb[Len(bb)])
  BY <1>2
<1>10. ASSUME NEW x \in cc.send_base .. (cc.next_seq_num - 1)
       PROVE  \E i \in DOMAIN bb : bb[i].seq <= x /\ x < NodeEnd(bb[i])
  <2>1. CASE x < c.next_seq_num
    <3>1. x \in c.send_base .. (c.next_seq_num - 1)
      BY <1>1, <2>1
    <3>2. PICK i \in DOMAIN b : b[i].seq <= x /\ x < NodeEnd(b[i])
      BY <3>1 DEF TilesOK, b
    <3>. QED  BY <1>2, <3>2
  <2>2. CASE ~ (x < c.next_seq_num)
    BY <1>1, <1>2, <2>2
  <2>. QED  BY <2>1, <2>2
<1>11. TilesOK(cc)
  BY <1>2, <1>6, <1>7, <1>8, <1>9, <1>10 DEF TilesOK, bb
<1>12. Continues(c, cc)
  BY <1>1, <1>2 DEF Continues, b, bb
<1>. QED  BY <1>11, <1>12

(* dequeue_send_buffer() at the end of the j-th node drops the first j. *)
LEMMA DequeueAt ==
  ASSUME NEW b \in Seq(Node), NEW j \in DOMAIN b,
         \A i, k \in DOMAIN b : i < k => NodeEnd(b[i]) <= b[k].seq,
         \A i \in DOMAIN b : b[i].seq < NodeEnd(b[i])
  PROVE  LET r == Dequeue(b, NodeEnd(b[j])) IN
         /\ r \in Seq(Node) /\ Len(r) = Len(b) - j
         /\ \A i \in DOMAIN r : i + j \in DOMAIN b /\ r[i] = b[i + j]
<1> DEFINE ack == NodeEnd(b[j])
           Kept == {i \in 1 .. Len(b) : NodeEnd(b[i]) > ack}
           first == CHOOSE i \in Kept : \A k \in Kept : i <= k
<1>1. DOMAIN b = 1 .. Len(b) /\ Len(b) \in Nat
  OBVIOUS
<1>2. \A i \in DOMAIN b : b[i].seq \in Nat /\ NodeEnd(b[i]) \in Nat
  <2>1. \A i \in DOMAIN b : b[i] \in Node
    OBVIOUS
  <2>. QED  BY <2>1, NodeEndType DEF Node
<1>3. Kept = {i \in 1 .. Len(b) : j < i}
  <2>1. ASSUME NEW i \in 1 .. Len(b), j < i
        PROVE  NodeEnd(b[i]) > ack
    BY <1>1, <1>2, <2>1
  <2>2. ASSUME NEW i \in 1 .. Len(b), i < j
        PROVE  ~ (NodeEnd(b[i]) > ack)
    BY <1>1, <1>2, <2>2
  <2>. QED  BY <1>1, <1>2, <2>1, <2>2
<1>4. CASE j = Len(b)
  <2>1. Kept = {}
    BY <1>1, <1>3, <1>4
  <2>2. Dequeue(b, ack) = <<>>
    BY <2>1 DEF Dequeue
  <2>. QED  BY <1>1, <1>4, <2>2
<1>5. CASE j # Len(b)
  <2>1. j + 1 \in Kept /\ \A k \in Kept : j + 1 <= k
    BY <1>1, <1>3, <1>5
  <2>2. Kept \subseteq Nat
    BY <1>1
  <2>3. Dequeue(b, ack) = SubSeq(b, first, Len(b))
    BY <2>1 DEF Dequeue
  <2> HIDE DEF Kept
  <2>4. first \in Kept /\ \A k \in Kept : first <= k
    BY <2>1
  <2> HIDE DEF first
  <2>5. first = j + 1
    BY <1>1, <2>1, <2>2, <2>4
  <2>6. Dequeue(b, ack) = SubSeq(b, j + 1, Len(b))
    BY <2>3, <2>5
  <2>. QED  BY <1>1, <1>5, <2>6
<1>. QED  BY <1>4, <1>5

(* What is acknowledged ends with a node, and leaves the send buffer. *)
LEMMA NodesLeave ==
  ASSUME NEW c, NEW ack \in Nat, ContextOK(c), TilesOK(c),
         SynchronizedState(c), AckAccepted(c, ack), Boundary(c, ack)
  PROVE  LET cc == Acknowledged(c, ack) IN
         /\ TilesOK(cc) /\ Continues(c, cc)
         /\ cc.send_base = ack /\ cc.next_seq_num = c.next_seq_num
<1> DEFINE b == c.send_buffer
           bb == Dequeue(b, ack)
           cc == [c EXCEPT !.send_base = ack, !.send_buffer = bb,
                           !.retransmission_count = 0]
<1>1. /\ c.send_base \in Nat /\ c.next_seq_num \in Nat /\ b \in Seq(Node)
  BY ContextFields
<1>2. c.send_base < ack /\ ack <= c.next_seq_num
  BY DEF AckAccepted
<1>3. PICK j \in DOMAIN b : ack = NodeEnd(b[j])
  BY <1>1, <1>2 DEF Boundary
<1> HIDE DEF b
<1>4. DOMAIN b = 1 .. Len(b) /\ Len(b) \in Nat /\ b # <<>>
  BY <1>1, <1>3
<1>5. \A i \in DOMAIN b :
        /\ b[i].seq \in Nat /\ NodeEnd(b[i]) \in Nat
        /\ NodeOK(b[i], c) /\ b[i].seq < NodeEnd(b[i])
        /\ b[i].seq = IF i = 1 THEN c.send_base ELSE NodeEnd(b[i - 1])
  <2>1. \A i \in DOMAIN b : b[i] \in Node
    BY <1>1
  <2>. QED  BY <2>1, NodeEndType DEF TilesOK, NodeOK, Node, b
<1>6. \A i, k \in DOMAIN b : i < k => NodeEnd(b[i]) <= b[k].seq
  BY DEF TilesOK, b
<1>7. /\ bb \in Seq(Node) /\ Len(bb) = Len(b) - j
      /\ \A i \in DOMAIN bb : i + j \in DOMAIN b /\ bb[i] = b[i + j]
  BY <1>1, <1>3, <1>5, <1>6, DequeueAt
<1>8. Acknowledged(c, ack) = cc
  BY DEF Acknowledged, b
<1> HIDE DEF bb
<1>9. /\ cc.send_base = ack /\ cc.send_buffer = bb
      /\ cc.next_seq_num = c.next_seq_num
      /\ cc.connection_state = c.connection_state
      /\ FinNumbered(cc) <=> FinNumbered(c)
  BY DEF ContextOK, FinNumbered
<1> HIDE DEF cc
<1>10. DOMAIN bb = 1 .. (Len(b) - j) /\ j \in 1 .. Len(b)
  BY <1>4, <1>7
<1>11. \A i \in DOMAIN b : i > j <=> ack < NodeEnd(b[i])
  BY <1>3, <1>4, <1>5, <1>6
<1>12. ASSUME NEW i \in DOMAIN b, i > j
       PROVE  i - j \in DOMAIN bb /\ bb[i - j] = b[i]
  BY <1>4, <1>7, <1>10, <1>12
<1>13. SynchronizedState(cc)
  BY <1>9 DEF SynchronizedState
<1>14. ASSUME NEW i \in DOMAIN bb
       PROVE  /\ NodeOK(bb[i], cc)
              /\ bb[i].seq = IF i = 1 THEN cc.send_base ELSE NodeEnd(bb[i - 1])
  <2>1. i + j \in DOMAIN b /\ i + j > j /\ i + j # 1 /\ bb[i] = b[i + j]
    BY <1>4, <1>7, <1>10
  <2>2. ack <= b[i + j].seq
    BY <1>3, <1>6, <2>1
  <2>3. NodeOK(bb[i], cc)
    BY <1>5, <1>9, <2>1, <2>2 DEF NodeOK
  <2>4. bb[i].seq = NodeEnd(b[(i + j) - 1])
    <3> DEFINE k == i + j
    <3>1. k \in DOMAIN b /\ k # 1 /\ bb[i] = b[k]
      BY <2>1
    <3> HIDE DEF k
    <3>2. b[k].seq = NodeEnd(b[k - 1])
      BY <1>5, <3>1
    <3>3. bb[i].seq = NodeEnd(b[k - 1])
      BY <3>1, <3>2
    <3>. QED  BY <3>3 DEF k
  <2>5. CASE i = 1
    BY <1>3, <1>9, <1>10, <2>3, <2>4, <2>5
  <2>6. CASE i # 1
    <3>1. i - 1 \in DOMAIN bb /\ (i - 1) + j = i + j - 1
      BY <1>10, <2>6
    <3>. QED  BY <1>7, <2>3, <2>4, <2>6, <3>1
  <2>. QED  BY <2>5, <2>6
<1>15. ASSUME NEW i \in DOMAIN bb, NEW k \in DOMAIN bb, i < k
       PROVE  NodeEnd(bb[i]) <= bb[k].seq
  BY <1>6, <1>7, <1>10, <1>15
<1>16. cc.next_seq_num = IF bb = <<>> THEN cc.send_base ELSE NodeEnd(bb[Len(bb)])
  <2>1. c.next_seq_num = NodeEnd(b[Len(b)])
    BY <1>4 DEF TilesOK, b
  <2>2. CASE j = Len(b)
    BY <1>3, <1>4, <1>7, <1>9, <2>1, <2>2
  <2>3. CASE j # Len(b)
    <3>1. Len(bb) \in DOMAIN bb /\ Len(bb) + j = Len(b) /\ bb # <<>>
      BY <1>4, <1>7, <1>10, <2>3
    <3>. QED  BY <1>7, <1>9, <2>1, <3>1
  <2>. QED  BY <2>2, <2>3
<1>17. ASSUME NEW x \in cc.send_base .. (cc.next_seq_num - 1)
       PROVE  \E i \in DOMAIN bb : bb[i].seq <= x /\ x < NodeEnd(bb[i])
  <2>1. x \in c.send_base .. (c.next_seq_num - 1) /\ x \in Nat /\ ack <= x
    BY <1>1, <1>2, <1>9
  <2>2. PICK i \in DOMAIN b : b[i].seq <= x /\ x < NodeEnd(b[i])
    BY <2>1 DEF TilesOK, b
  <2>3. i > j
    BY <1>5, <1>11, <2>1, <2>2
  <2>. QED  BY <1>12, <2>2, <2>3
<1>18. TilesOK(cc)
  <2>1. ISN < cc.send_base
    BY <1>1, <1>2, <1>9 DEF TilesOK, ISN
  <2>. QED  BY <1>9, <1>14, <1>15, <1>16, <1>17, <2>1 DEF TilesOK
<1>19. Continues(c, cc)
  <2>1. \A i \in DOMAIN b : \/ NodeEnd(b[i]) <= cc.send_base
                            \/ \E k \in DOMAIN bb : bb[k] = b[i]
    BY <1>5, <1>9, <1>11, <1>12
  <2>2. \A k \in DOMAIN bb : \E i \in DOMAIN b : b[i] = bb[k]
    BY <1>7
  <2>. QED  BY <1>1, <1>2, <1>9, <1>13, <2>1, <2>2 DEF Continues, b
<1>. QED  BY <1>8, <1>9, <1>18, <1>19

-----------------------------------------------------------------------------
(* One pass of a sender, in parts. *)

(* Everything the invariant says of c and of all that it has sent. *)
Right(c, d, out, back) ==
  /\ ContextOK(c) /\ ContextOK(d) /\ EndpointOK(c, d) /\ EndpointOK(d, c)
  /\ SynchronizedState(c) /\ StateOK(c) /\ SentRight(c, d, out, back)
  /\ out \subseteq Segment /\ back \subseteq Segment

(* A part of a pass keeps it. *)
LEMMA RightStep ==
  ASSUME NEW c, NEW cc, NEW d, NEW out, NEW back, Right(c, d, out, back),
         ContextOK(cc), EndpointOK(cc, d), Advances(c, cc),
         StateOK(cc), TilesOK(cc), Continues(c, cc)
  PROVE  Right(cc, d, out, back)
<1>1. EndpointOK(d, cc)
  BY PeerAdvances DEF Right
<1>2. SentRight(cc, d, out, back)
  BY ContinuedSentRight DEF Right, EndpointOK
<1>. QED  BY <1>1, <1>2 DEF Right, Continues

(* So does sending what the send buffer holds, or nothing. *)
LEMMA RightSends ==
  ASSUME NEW c, NEW d, NEW out, NEW back, NEW packets, Right(c, d, out, back),
         packets \subseteq Segment, \A m \in packets : CarriedOK(m, c)
  PROVE  Right(c, d, out \cup packets, back)
BY DEF Right, SentRight

(* The packet for a node that is in the send buffer. *)
LEMMA NodeSent ==
  ASSUME NEW c, NEW n \in Node, NEW ack \in Nat, TilesOK(c), ContextOK(c),
         SynchronizedState(c), NEW i \in DOMAIN c.send_buffer,
         c.send_buffer[i] = n
  PROVE  CarriedOK(Packet(n, ack), c) /\ CarriesData(Packet(n, ack))
<1>1. /\ n.seq \in Nat /\ n.data \in Seq(Byte) /\ n.fin \in BOOLEAN
      /\ c.send_buffer \in Seq(Node)
  BY ContextFields DEF Node
<1>2. /\ Packet(n, ack).seq = n.seq /\ Packet(n, ack).data = n.data
      /\ IsFin(Packet(n, ack)) = n.fin
  BY <1>1 DEF Packet, IsFin
<1>3. Boundary(c, n.seq)
  <2>1. n.seq = IF i = 1 THEN c.send_base ELSE NodeEnd(c.send_buffer[i - 1])
    BY DEF TilesOK
  <2>2. CASE i = 1
    BY <1>1, <2>1, <2>2 DEF Boundary
  <2>3. CASE i # 1
    <3>1. i - 1 \in DOMAIN c.send_buffer
      BY <1>1, <2>3
    <3>. QED  BY <2>1, <2>3, <3>1 DEF Boundary
  <2>. QED  BY <2>2, <2>3
<1>4. NodeOK(n, c)
  BY DEF TilesOK
<1>5. CarriesData(Packet(n, ack))
  <2>1. Len(n.data) > 0 \/ n.fin
    BY <1>1, <1>4 DEF NodeOK, NodeEnd, EndOf
  <2>. QED  BY <1>2, <2>1 DEF CarriesData
<1>. QED  BY <1>2, <1>3, <1>5 DEF CarriedOK

(* What concerns c as a receiver is left alone. *)
SameReceiver(c, cc) ==
  /\ cc.receive_next = c.receive_next
  /\ cc.receive_buffer = c.receive_buffer
  /\ cc.is_FIN_RECEIVED = c.is_FIN_RECEIVED
  /\ cc.peer_initial_seq = c.peer_initial_seq

(* The FIN joins the send buffer and goes out: handle_app_close, or        *)
(* handle_ack_from_peer for the one that waited.  c is the context before  *)
(* the close was noted, cc the one after the FIN is enqueued.              *)
LEMMA FinJoins ==
  ASSUME NEW c, NEW cc, ContextOK(c), ContextOK(cc), TilesOK(c),
         SynchronizedState(c), SynchronizedState(cc),
         ~ FinNumbered(c), FinNumbered(cc), c.send_base <= c.next_seq_num,
         NEW n, n = [seq |-> c.next_seq_num, data |-> <<>>, fin |-> TRUE],
         cc.send_base = c.send_base, cc.next_seq_num = c.next_seq_num + 1,
         cc.send_buffer = Append(c.send_buffer, n)
  PROVE  /\ TilesOK(cc) /\ Continues(c, cc)
         /\ n \in Node
         /\ \A ack \in Nat : CarriedOK(Packet(n, ack), cc)
<1>1. c.next_seq_num \in Nat /\ c.send_buffer \in Seq(Node)
  BY ContextFields
<1>2. /\ n \in Node /\ n.seq = c.next_seq_num /\ n.fin /\ n.data = <<>>
      /\ DOMAIN n.data = {}
  BY <1>1 DEF Node
<1>3. NodeEnd(n) = c.next_seq_num + 1
  BY <1>1 DEF NodeEnd, EndOf
<1>4. n.seq < NodeEnd(n)
  BY <1>1, <1>2, <1>3
<1>5. TilesOK(cc) /\ Continues(c, cc)
  BY <1>2, <1>3, <1>4, NodeJoins
<1>6. /\ Len(c.send_buffer) + 1 \in DOMAIN cc.send_buffer
      /\ cc.send_buffer[Len(c.send_buffer) + 1] = n
  BY <1>1, <1>2
<1>7. \A ack \in Nat : CarriedOK(Packet(n, ack), cc)
  BY <1>2, <1>5, <1>6, NodeSent
<1>. QED  BY <1>2, <1>5, <1>7

-----------------------------------------------------------------------------
(* handle_ack_from_peer(). *)

(* Dropping what is acknowledged. *)
LEMMA AcknowledgedRight ==
  ASSUME NEW c, NEW d, NEW out, NEW back, Right(c, d, out, back),
         c.connection_state \in Connected,
         NEW ack \in Nat, ack <= d.receive_next, Boundary(c, ack),
         AckAccepted(c, ack)
  PROVE  LET a == Acknowledged(c, ack) IN
         /\ Right(a, d, out, back) /\ Continues(c, a) /\ SameReceiver(c, a)
         /\ a.next_seq_num = c.next_seq_num
         /\ a.next_seq_num + 1 <= a.send_base + Window
         /\ ISN < a.next_seq_num
         /\ a.send_base <= a.next_seq_num
         /\ a.is_FIN_SENT = c.is_FIN_SENT
         /\ a.is_APP_CLOSE_QUEUED = c.is_APP_CLOSE_QUEUED
         /\ a.connection_state = c.connection_state
         /\ c.connection_state # "FIN_WAIT_2"
<1> DEFINE a == Acknowledged(c, ack)
<1>1. /\ ContextOK(c) /\ ContextOK(d) /\ EndpointOK(c, d) /\ SynchronizedState(c)
      /\ StateOK(c) /\ TilesOK(c)
  BY DEF Right, SentRight
<1>2. /\ ContextOK(a) /\ Advances(c, a) /\ EndpointOK(a, d)
      /\ a.next_seq_num + 1 <= a.send_base + Window
      /\ ISN < a.next_seq_num
  BY <1>1, AcknowledgedStep
<1>3. /\ TilesOK(a) /\ Continues(c, a)
      /\ a.send_base = ack /\ a.next_seq_num = c.next_seq_num
  BY <1>1, NodesLeave
<1>4. /\ SameReceiver(c, a)
      /\ a.is_FIN_SENT = c.is_FIN_SENT
      /\ a.is_APP_CLOSE_QUEUED = c.is_APP_CLOSE_QUEUED
      /\ a.connection_state = c.connection_state /\ a.errno = c.errno
  BY <1>1 DEF Acknowledged, SameReceiver, ContextOK
<1>5. /\ c.send_base < ack /\ ack <= c.next_seq_num
      /\ c.send_base \in Nat /\ c.next_seq_num \in Nat
  BY <1>1, ContextFields DEF AckAccepted
<1>6. c.connection_state # "FIN_WAIT_2"
  BY <1>1, <1>5 DEF StateOK, Finished
<1> HIDE DEF a
<1>7. StateOK(a)
  BY <1>1, <1>4, <1>6 DEF StateOK, SameReceiver, Connected, Opening
<1>8. Right(a, d, out, back)
  BY <1>1, <1>2, <1>3, <1>7, RightStep
<1>. QED  BY <1>2, <1>3, <1>4, <1>5, <1>6, <1>8 DEF a

(* The FIN that waited for the window. *)
LEMMA ReleaseFinRight ==
  ASSUME NEW c, NEW d, NEW out, NEW back, Right(c, d, out, back),
         c.connection_state \in Connected, c.connection_state # "FIN_WAIT_2",
         ISN < c.next_seq_num, c.next_seq_num + 1 <= c.send_base + Window,
         c.send_base <= c.next_seq_num
  PROVE  LET r == ReleaseFin(c) IN
         /\ Right(r, d, out, back) /\ Continues(c, r) /\ SameReceiver(c, r)
         /\ r.is_FIN_SENT = c.is_FIN_SENT /\ ~ r.is_APP_CLOSE_QUEUED
         /\ r.connection_state = c.connection_state
         /\ r.next_seq_num =
              c.next_seq_num + (IF c.is_APP_CLOSE_QUEUED THEN 1 ELSE 0)
         /\ c.is_APP_CLOSE_QUEUED =>
              CarriedOK(Packet(FinNode(c), c.receive_next), r)
<1> DEFINE r == ReleaseFin(c)
           b == Append(c.send_buffer, FinNode(c))
<1>1. /\ ContextOK(c) /\ ContextOK(d) /\ EndpointOK(c, d) /\ SynchronizedState(c)
      /\ StateOK(c) /\ TilesOK(c)
  BY DEF Right, SentRight
<1>2. /\ c.next_seq_num \in Nat /\ c.receive_next \in Nat
      /\ c.is_APP_CLOSE_QUEUED \in BOOLEAN
  BY <1>1, ContextFields DEF ContextOK
<1>3. ContextOK(r) /\ Advances(c, r) /\ EndpointOK(r, d) /\ SynchronizedState(r)
  BY <1>1, ReleaseFinStep
<1>4. CASE ~ c.is_APP_CLOSE_QUEUED
  <2>1. r = c
    BY <1>4 DEF ReleaseFin
  <2>2. Continues(c, c)
    BY <1>1, SameSender
  <2>. QED  BY <1>2, <1>4, <2>1, <2>2 DEF SameReceiver
<1>5. CASE c.is_APP_CLOSE_QUEUED
  <2>1. /\ r.send_base = c.send_base /\ r.next_seq_num = c.next_seq_num + 1
        /\ r.send_buffer = b /\ SameReceiver(c, r)
        /\ r.is_FIN_SENT = c.is_FIN_SENT /\ r.is_APP_CLOSE_QUEUED = FALSE
        /\ r.connection_state = c.connection_state /\ r.errno = c.errno
    BY <1>1, <1>5 DEF ReleaseFin, EnqueueFin, SameReceiver, ContextOK
  <2>2. ~ FinNumbered(c) /\ FinNumbered(r)
    BY <1>1, <1>5, <2>1 DEF StateOK, FinNumbered
  <2> HIDE DEF r
  <2>3. /\ TilesOK(r) /\ Continues(c, r)
        /\ \A ack \in Nat : CarriedOK(Packet(FinNode(c), ack), r)
    BY <1>1, <1>3, <2>1, <2>2, FinJoins DEF FinNode
  <2>4. StateOK(r)
    BY <1>1, <2>1 DEF StateOK, SameReceiver, Connected, Opening
  <2>5. Right(r, d, out, back)
    BY <1>3, <2>3, <2>4, RightStep
  <2>. QED  BY <1>2, <1>5, <2>1, <2>3, <2>5 DEF r
<1>. QED  BY <1>2, <1>4, <1>5

(* The acknowledgement of the FIN moves the state of the connection. *)
LEMMA FinAcknowledgedRight ==
  ASSUME NEW c, NEW d, NEW out, NEW back, Right(c, d, out, back),
         c.connection_state \in Connected, ~ c.is_APP_CLOSE_QUEUED
  PROVE  LET f == FinAcknowledged(c) IN
         /\ Right(f, d, out, back) /\ Continues(c, f) /\ SameReceiver(c, f)
         /\ f.is_FIN_SENT = c.is_FIN_SENT
         /\ f.is_APP_CLOSE_QUEUED = c.is_APP_CLOSE_QUEUED
         /\ f.next_seq_num = c.next_seq_num
         /\ f.errno = "none"
<1> DEFINE t == Transition(c.connection_state, "RECV_ACK")
           f == FinAcknowledged(c)
           g == [c EXCEPT !.connection_state = t]
<1>1. /\ ContextOK(c) /\ ContextOK(d) /\ EndpointOK(c, d) /\ SynchronizedState(c)
      /\ StateOK(c) /\ TilesOK(c) /\ c.errno = "none"
  BY DEF Right, SentRight, StateOK
<1>2. ContextOK(f) /\ Advances(c, f) /\ EndpointOK(f, d) /\ SynchronizedState(f)
  BY <1>1, FinAcknowledgedStep
<1>3. CASE c.is_FIN_SENT /\ c.send_base = c.next_seq_num
  <2>1. f = g
    BY <1>3 DEF FinAcknowledged
  <2>2. /\ g.send_base = c.send_base /\ g.next_seq_num = c.next_seq_num
        /\ g.send_buffer = c.send_buffer /\ SameReceiver(c, g)
        /\ g.is_FIN_SENT = c.is_FIN_SENT
        /\ g.is_APP_CLOSE_QUEUED = c.is_APP_CLOSE_QUEUED
        /\ g.connection_state = t /\ g.errno = c.errno
    BY <1>1 DEF SameReceiver, ContextOK
  <2> HIDE DEF f, g
  <2>3. FinNumbered(g) <=> FinNumbered(c)
    BY <2>2 DEF FinNumbered
  <2>4. TilesOK(g) /\ Continues(c, g)
    BY <1>1, <1>2, <2>1, <2>2, <2>3, SameSender
  <2>5. Finished(g)
    BY <1>3, <2>2 DEF Finished, FinNumbered
  <2>6. c.connection_state \in {"FIN_WAIT_1", "FIN_WAIT_2", "CLOSING", "LAST_ACK"}
    BY <1>1, <1>3 DEF StateOK
  <2>7. \/ /\ c.connection_state \in {"FIN_WAIT_1", "FIN_WAIT_2"}
           /\ t = "FIN_WAIT_2" /\ ~ c.is_FIN_RECEIVED
        \/ /\ c.connection_state \in {"CLOSING", "LAST_ACK"}
           /\ t = "CLOSED" /\ c.is_FIN_RECEIVED
    <3>1. /\ c.connection_state \in {"FIN_WAIT_1", "FIN_WAIT_2"} =>
               t = "FIN_WAIT_2" /\ ~ c.is_FIN_RECEIVED
          /\ c.connection_state \in {"CLOSING", "LAST_ACK"} =>
               t = "CLOSED" /\ c.is_FIN_RECEIVED
      BY <1>1, <2>6 DEF Transition, StateOK
    <3>. QED  BY <2>6, <3>1
  <2>8. StateOK(g)
    <3> HIDE DEF t
    <3>. QED  BY <1>1, <1>3, <2>2, <2>5, <2>7
              DEF StateOK, SameReceiver, Connected, Opening
  <2>9. Right(g, d, out, back)
    BY <1>2, <2>1, <2>4, <2>8, RightStep
  <2>. QED  BY <1>1, <2>1, <2>2, <2>4, <2>9 DEF f
<1>4. CASE ~ (c.is_FIN_SENT /\ c.send_base = c.next_seq_num)
  <2>1. f = c
    BY <1>4 DEF FinAcknowledged
  <2>2. Continues(c, c)
    BY <1>1, SameSender
  <2>. QED  BY <1>1, <2>1, <2>2 DEF SameReceiver
<1>. QED  BY <1>3, <1>4

(* The whole of handle_ack_from_peer(). *)
LEMMA HandleAckRight ==
  ASSUME NEW c, NEW d, NEW out, NEW back, Right(c, d, out, back),
         c.connection_state \in Connected,
         NEW ack \in Nat, ack <= d.receive_next, Boundary(c, ack)
  PROVE  LET cc == HandleAck(c, ack) IN
         /\ Right(cc, d, out \cup Elements(SentOnAck(c, ack)), back)
         /\ SameReceiver(c, cc) /\ cc.is_FIN_SENT = c.is_FIN_SENT
         /\ Taken(cc) = Taken(c) /\ cc.errno = "none"
         /\ FinNumbered(c) => cc.next_seq_num = c.next_seq_num
         /\ \A m \in Elements(SentOnAck(c, ack)) :
              m.ack = c.receive_next /\ CarriesData(m)
<1>1. /\ ContextOK(c) /\ ContextOK(d) /\ EndpointOK(c, d) /\ SynchronizedState(c)
      /\ StateOK(c) /\ c.errno = "none"
  BY DEF Right, StateOK
<1>2. CASE ~ AckAccepted(c, ack)
  <2>1. HandleAck(c, ack) = c /\ SentOnAck(c, ack) = <<>>
    BY <1>2 DEF HandleAck, SentOnAck
  <2>2. Elements(SentOnAck(c, ack)) = {}
    BY <2>1, ElementsEmpty
  <2>. QED  BY <1>1, <2>1, <2>2 DEF SameReceiver
<1>3. CASE AckAccepted(c, ack)
  <2> DEFINE a == Acknowledged(c, ack)
             r == ReleaseFin(a)
             f == FinAcknowledged(r)
             m == Packet(FinNode(c), c.receive_next)
             Sent == Elements(SentOnAck(c, ack))
  <2>1. /\ Right(a, d, out, back) /\ SameReceiver(c, a)
        /\ a.next_seq_num = c.next_seq_num
        /\ a.next_seq_num + 1 <= a.send_base + Window
        /\ ISN < a.next_seq_num
        /\ a.send_base <= a.next_seq_num
        /\ a.is_FIN_SENT = c.is_FIN_SENT
        /\ a.is_APP_CLOSE_QUEUED = c.is_APP_CLOSE_QUEUED
        /\ a.connection_state = c.connection_state
        /\ c.connection_state # "FIN_WAIT_2"
    BY <1>3, AcknowledgedRight
  <2>2. HandleAck(c, ack) = f
    BY <1>3 DEF HandleAck
  <2> HIDE DEF a
  <2>3. /\ Right(r, d, out, back) /\ SameReceiver(a, r)
        /\ r.is_FIN_SENT = a.is_FIN_SENT /\ ~ r.is_APP_CLOSE_QUEUED
        /\ r.connection_state = a.connection_state
        /\ r.next_seq_num =
             a.next_seq_num + (IF a.is_APP_CLOSE_QUEUED THEN 1 ELSE 0)
        /\ a.is_APP_CLOSE_QUEUED =>
             CarriedOK(Packet(FinNode(a), a.receive_next), r)
    BY <2>1, ReleaseFinRight
  <2>4. Packet(FinNode(a), a.receive_next) = m
    BY <2>1 DEF FinNode, SameReceiver
  <2> HIDE DEF r
  <2>5. /\ Sent \subseteq Segment /\ \A x \in Sent : CarriedOK(x, r)
        /\ \A x \in Sent : x.ack = c.receive_next /\ CarriesData(x)
    <3>1. CASE c.is_APP_CLOSE_QUEUED
      <4>1. SentOnAck(c, ack) = <<m>>
        BY <1>3, <3>1 DEF SentOnAck
      <4>2. FinNode(c) \in Node /\ c.receive_next \in Nat
        BY <1>1, FinNodeType, ContextFields
      <4>3. m \in Segment /\ m.ack = c.receive_next /\ CarriesData(m)
        BY <4>2, PacketType DEF Packet, FinNode, CarriesData, IsFin
      <4>4. CarriedOK(m, r)
        BY <2>1, <2>3, <2>4, <3>1
      <4> HIDE DEF m
      <4>5. Sent = {m}
        BY <4>1, <4>3, ElementsSingleton
      <4>. QED  BY <4>3, <4>4, <4>5
    <3>2. CASE ~ c.is_APP_CLOSE_QUEUED
      <4>1. Sent = {}
        BY <3>2, ElementsEmpty DEF SentOnAck
      <4>. QED  BY <4>1
    <3>. QED  BY <3>1, <3>2
  <2> HIDE DEF Sent
  <2>6. Right(r, d, out \cup Sent, back)
    BY <2>3, <2>5, RightSends
  <2>7. /\ Right(f, d, out \cup Sent, back) /\ SameReceiver(r, f)
        /\ f.is_FIN_SENT = r.is_FIN_SENT
        /\ f.is_APP_CLOSE_QUEUED = r.is_APP_CLOSE_QUEUED
        /\ f.next_seq_num = r.next_seq_num
        /\ f.errno = "none"
    BY <2>1, <2>3, <2>6, FinAcknowledgedRight
  <2> HIDE DEF f
  <2>8. SameReceiver(c, f) /\ f.is_FIN_SENT = c.is_FIN_SENT
    BY <2>1, <2>3, <2>7 DEF SameReceiver
  <2>9. /\ f.next_seq_num =
             c.next_seq_num + (IF c.is_APP_CLOSE_QUEUED THEN 1 ELSE 0)
        /\ ~ f.is_APP_CLOSE_QUEUED
    BY <2>1, <2>3, <2>7
  <2>10. FinNumbered(c) => f.next_seq_num = c.next_seq_num
    BY <1>1, <2>9, ContextFields DEF FinNumbered
  <2>11. Taken(f) = Taken(c)
    <3>1. c.next_seq_num \in Nat
      BY <1>1, ContextFields
    <3>2. CASE c.is_APP_CLOSE_QUEUED
      <4>1. c.is_FIN_SENT
        BY <1>1, <3>2 DEF StateOK
      <4>. QED  BY <2>8, <2>9, <3>1, <3>2, <4>1 DEF Taken, FinNumbered, ISN
    <3>3. CASE ~ c.is_APP_CLOSE_QUEUED
      BY <2>8, <2>9, <3>1, <3>3 DEF Taken, FinNumbered
    <3>. QED  BY <3>2, <3>3
  <2>. QED  BY <2>2, <2>5, <2>7, <2>8, <2>10, <2>11 DEF Sent
<1>. QED  BY <1>2, <1>3

-----------------------------------------------------------------------------
(* The receive buffer.  d is the sender of what c receives. *)

(* The nodes a sender keeps, with their types. *)
LEMMA TileFacts ==
  ASSUME NEW d, ContextOK(d), TilesOK(d), SynchronizedState(d)
  PROVE  /\ d.send_base \in Nat /\ d.next_seq_num \in Nat
         /\ \A i \in DOMAIN d.send_buffer :
              LET n == d.send_buffer[i] IN
              /\ n \in Node /\ n.seq \in Nat /\ NodeEnd(n) \in Nat
              /\ n.data \in Seq(Byte) /\ NodeOK(n, d) /\ n.seq < NodeEnd(n)
              /\ Span(n) \subseteq Nat
         /\ \A i, j \in DOMAIN d.send_buffer :
              i < j => NodeEnd(d.send_buffer[i]) <= d.send_buffer[j].seq
         /\ DOMAIN d.send_buffer \subseteq Nat
<1>1. d.send_buffer \in Seq(Node) /\ d.send_base \in Nat /\ d.next_seq_num \in Nat
  BY ContextFields
<1>2. \A i \in DOMAIN d.send_buffer : d.send_buffer[i] \in Node
  BY <1>1
<1>3. DOMAIN d.send_buffer \subseteq Nat
  BY <1>1
<1>4. \A n \in Node : /\ n.seq \in Nat /\ NodeEnd(n) \in Nat
                      /\ n.data \in Seq(Byte) /\ Span(n) \subseteq Nat
  BY NodeEndType DEF Node, Span
<1>5. \A i \in DOMAIN d.send_buffer : NodeOK(d.send_buffer[i], d)
  BY DEF TilesOK
<1>6. \A i \in DOMAIN d.send_buffer :
         d.send_buffer[i].seq < NodeEnd(d.send_buffer[i])
  BY <1>5 DEF NodeOK
<1>7. \A i, j \in DOMAIN d.send_buffer :
        i < j => NodeEnd(d.send_buffer[i]) <= d.send_buffer[j].seq
  BY DEF TilesOK
<1>. QED  BY <1>1, <1>2, <1>3, <1>4, <1>5, <1>6, <1>7

(* A boundary cuts no node: one that ends past it starts past it. *)
LEMMA NoNodeCut ==
  ASSUME NEW d, ContextOK(d), TilesOK(d), SynchronizedState(d),
         NEW x \in Nat, Boundary(d, x),
         NEW i \in DOMAIN d.send_buffer, x < NodeEnd(d.send_buffer[i])
  PROVE  x <= d.send_buffer[i].seq
<1> DEFINE b == d.send_buffer
<1>1. /\ d.send_base \in Nat /\ DOMAIN b \subseteq Nat
      /\ \A k \in DOMAIN b : /\ b[k].seq \in Nat /\ NodeEnd(b[k]) \in Nat
                             /\ NodeOK(b[k], d) /\ b[k].seq < NodeEnd(b[k])
      /\ \A k, j \in DOMAIN b : k < j => NodeEnd(b[k]) <= b[j].seq
  BY TileFacts
<1> HIDE DEF b
<1>2. i \in DOMAIN b /\ x < NodeEnd(b[i])
  BY DEF b
<1>3. CASE x <= d.send_base
  <2>1. d.send_base <= b[i].seq
    BY <1>1, <1>2 DEF NodeOK
  <2>. QED  BY <1>1, <1>2, <1>3, <2>1 DEF b
<1>4. ASSUME NEW j \in DOMAIN b, x = NodeEnd(b[j])
      PROVE  x <= b[i].seq
  <2>1. CASE j < i
    BY <1>1, <1>2, <1>4, <2>1
  <2>2. CASE j = i
    BY <1>1, <1>2, <1>4, <2>2
  <2>3. CASE i < j
    BY <1>1, <1>2, <1>4, <2>3
  <2>. QED  BY <1>1, <1>2, <2>1, <2>2, <2>3
<1>. QED  BY <1>3, <1>4 DEF Boundary, b

(* What handle_incoming_segment() accepts is a node that the sender still  *)
(* keeps, and all of it lies in the receive window.                        *)
LEMMA AcceptedIsNode ==
  ASSUME NEW c, NEW d, ContextOK(c), ContextOK(d), EndpointOK(d, c),
         NEW s \in Segment, CarriedOK(s, d), TilesOK(d), ArrivedOK(c, d),
         Acceptable(c, s)
  PROVE  /\ SynchronizedState(d)
         /\ \E i \in DOMAIN d.send_buffer :
              LET n == d.send_buffer[i] IN
              /\ s.seq = n.seq /\ s.data = n.data /\ IsFin(s) = n.fin
              /\ SegmentEnd(s) = NodeEnd(n)
              /\ c.receive_next <= n.seq
              /\ Trimmed(c.receive_next, s.seq, s.data, IsFin(s)) = Span(n)
<1>1. /\ c.receive_next \in Nat /\ SegmentEnd(s) \in Nat /\ d.send_base \in Nat
      /\ d.next_seq_num \in Nat
  BY ContextFields, SegmentEndType
<1>2. SynchronizedState(d) /\ c.receive_next < SegmentEnd(s)
  BY <1>1 DEF Acceptable, CarriedOK, TooOld
<1>3. /\ d.send_base <= c.receive_next
      /\ d.next_seq_num <= d.send_base + Window
  BY <1>2 DEF EndpointOK, SenderOK
<1>4. PICK i \in DOMAIN d.send_buffer :
        /\ s.seq = d.send_buffer[i].seq /\ s.data = d.send_buffer[i].data
        /\ IsFin(s) = d.send_buffer[i].fin
  BY <1>1, <1>2, <1>3 DEF Acceptable, CarriedOK
<1> DEFINE n == d.send_buffer[i]
<1>5. SegmentEnd(s) = NodeEnd(n)
  BY <1>4 DEF SegmentEnd, NodeEnd
<1>6. n.seq \in Nat /\ NodeEnd(n) \in Nat /\ NodeOK(n, d)
  BY <1>2, TileFacts
<1>7. c.receive_next <= n.seq
  BY <1>1, <1>2, <1>5, NoNodeCut DEF ArrivedOK
<1>8. NodeEnd(n) <= c.receive_next + Window
  BY <1>1, <1>3, <1>6, WindowAssumption DEF NodeOK
<1>9. Trimmed(c.receive_next, s.seq, s.data, IsFin(s)) = Span(n)
  <2>1. EndOf(s.seq, s.data, IsFin(s)) = NodeEnd(n)
    BY <1>5 DEF SegmentEnd
  <2>2. s.seq = n.seq
    BY <1>4
  <2> HIDE DEF n
  <2>. QED  BY <1>1, <1>6, <1>7, <1>8, <2>1, <2>2, WindowAssumption
            DEF Trimmed, Span
<1>. QED  BY <1>2, <1>4, <1>5, <1>7, <1>9

(* What a buffer towards c holds of what d has sent: right content, whole  *)
(* nodes.                                                                  *)
BufferRight(buffer, d) ==
  /\ \A x \in DOMAIN buffer : buffer[x] = ContentOf(d, x)
  /\ \A i \in DOMAIN d.send_buffer :
       \A x, y \in Span(d.send_buffer[i]) :
         x \in DOMAIN buffer => y \in DOMAIN buffer

(* A node has the content of its sequence numbers. *)
LEMMA NodeContent ==
  ASSUME NEW d, ContextOK(d), TilesOK(d), SynchronizedState(d),
         NEW i \in DOMAIN d.send_buffer, NEW x \in Span(d.send_buffer[i])
  PROVE  ContentAt(d.send_buffer[i].seq, d.send_buffer[i].data, x) = ContentOf(d, x)
<1> DEFINE n == d.send_buffer[i]
<1>1. /\ n \in Node /\ n.seq \in Nat /\ NodeEnd(n) \in Nat
      /\ n.data \in Seq(Byte) /\ NodeOK(n, d) /\ d.next_seq_num \in Nat
      /\ d.send_base \in Nat
  BY TileFacts
<1>2. n.fin \in BOOLEAN /\ Len(n.data) \in Nat /\ DOMAIN n.data = 1 .. Len(n.data)
  BY <1>1 DEF Node
<1>3. ISN < n.seq
  BY <1>1 DEF NodeOK, TilesOK, ISN
<1>4. x \in Nat /\ n.seq <= x /\ x < NodeEnd(n)
  BY <1>1 DEF Span
<1> HIDE DEF n
<1>5. CASE n.fin
  <2>1. /\ n.data = <<>> /\ Len(n.data) = 0 /\ NodeEnd(n) = d.next_seq_num
        /\ FinNumbered(d)
    BY <1>1, <1>5 DEF NodeOK
  <2>2. NodeEnd(n) = n.seq + 1
    BY <1>1, <1>5, <2>1 DEF NodeEnd, EndOf
  <2>3. x = d.next_seq_num - 1 /\ ~ (x < n.seq + Len(n.data))
    BY <1>1, <1>4, <2>1, <2>2
  <2>. QED  BY <2>1, <2>3 DEF ContentAt, ContentOf, n
<1>6. CASE ~ n.fin
  <2>1. NodeEnd(n) = n.seq + Len(n.data)
    BY <1>1, <1>2, <1>6 DEF NodeEnd, EndOf
  <2>2. (x - n.seq) + 1 \in DOMAIN n.data
    BY <1>1, <1>2, <1>4, <2>1
  <2>3. n.data[(x - n.seq) + 1] = (n.seq - ISN) + (((x - n.seq) + 1) - 1)
    BY <1>1, <2>2 DEF NodeOK
  <2>4. n.data[(x - n.seq) + 1] = x - ISN
    BY <1>1, <1>4, <2>3 DEF ISN
  <2>5. ~ (FinNumbered(d) /\ x = d.next_seq_num - 1)
    BY <1>1, <1>4, <1>6 DEF NodeOK
  <2>. QED  BY <1>4, <2>1, <2>4, <2>5 DEF ContentAt, ContentOf, n
<1>. QED  BY <1>2, <1>5, <1>6

(* Inserting a node keeps the buffer right. *)
LEMMA InsertRight ==
  ASSUME NEW c, NEW d, ContextOK(c), ContextOK(d), EndpointOK(d, c),
         NEW s \in Segment, CarriedOK(s, d), TilesOK(d), ArrivedOK(c, d),
         Acceptable(c, s)
  PROVE  BufferRight(Buffered(c, s), d)
<1> DEFINE b == Buffered(c, s)
           buffer == c.receive_buffer
<1>1. SynchronizedState(d)
  BY AcceptedIsNode
<1>2. PICK i \in DOMAIN d.send_buffer :
        LET n == d.send_buffer[i] IN
        /\ s.seq = n.seq /\ s.data = n.data
        /\ Trimmed(c.receive_next, s.seq, s.data, IsFin(s)) = Span(n)
  BY AcceptedIsNode
<1> DEFINE n == d.send_buffer[i]
<1>3. b = [x \in DOMAIN buffer \cup Span(n) |->
             IF x \in DOMAIN buffer THEN buffer[x] ELSE ContentAt(n.seq, n.data, x)]
  BY <1>2 DEF Buffered, Insert
<1> HIDE DEF b
<1>4. \A x \in DOMAIN b : b[x] = ContentOf(d, x)
  BY <1>1, <1>3, NodeContent DEF ArrivedOK
<1>5. ASSUME NEW j \in DOMAIN d.send_buffer, NEW x \in Span(d.send_buffer[j]),
             NEW y \in Span(d.send_buffer[j]), x \in DOMAIN b
      PROVE  y \in DOMAIN b
  <2>1. CASE x \in DOMAIN buffer
    BY <1>1, <1>3, <2>1 DEF ArrivedOK
  <2>2. CASE x \in Span(n)
    <3> DEFINE m == d.send_buffer[j]
    <3>1. /\ n.seq \in Nat /\ NodeEnd(n) \in Nat /\ m.seq \in Nat /\ NodeEnd(m) \in Nat
          /\ i < j => NodeEnd(n) <= m.seq
          /\ j < i => NodeEnd(m) <= n.seq
          /\ i \in Nat /\ j \in Nat
      BY <1>1, TileFacts
    <3> HIDE DEF n
    <3>2. /\ n.seq <= x /\ x < NodeEnd(n) /\ m.seq <= x /\ x < NodeEnd(m)
          /\ x \in Nat
      <4> HIDE DEF m
      <4>1. x \in Span(n) /\ x \in Span(m)
        BY <2>2 DEF m
      <4>. QED  BY <3>1, <4>1 DEF Span
    <3>3. i = j
      <4> HIDE DEF m
      <4>. QED  BY <3>1, <3>2
    <3>. QED  BY <1>3, <3>3 DEF n
  <2>. QED  BY <1>3, <1>5, <2>1, <2>2
<1>. QED  BY <1>4, <1>5 DEF BufferRight, b

(* The flush stops between two nodes, after the FIN or where nothing has   *)
(* arrived yet; what it passes up are the bytes of those positions.        *)
LEMMA FlushRight ==
  ASSUME NEW d, ContextOK(d), TilesOK(d), SynchronizedState(d),
         NEW buffer, NEW rnext \in Nat, InWindow(buffer, rnext),
         BufferRight(buffer, d), \A y \in DOMAIN buffer : y < d.next_seq_num,
         Boundary(d, rnext), d.send_base <= rnext, rnext <= d.next_seq_num
  PROVE  LET x == FlushedTo(buffer, rnext)
             fin == FlushesFin(buffer, rnext) IN
         /\ x \in Nat /\ rnext <= x /\ x <= d.next_seq_num
         /\ Boundary(d, x)
         /\ fin <=> x > rnext /\ FinNumbered(d) /\ x = d.next_seq_num
         /\ FlushedBytes(buffer, rnext) =
              [i \in 1 .. ((x - rnext) - (IF fin THEN 1 ELSE 0)) |->
                 (rnext - ISN) + (i - 1)]
         /\ BufferRight(Unflushed(buffer, rnext), d)
<1> DEFINE x == FlushedTo(buffer, rnext)
           fin == FlushesFin(buffer, rnext)
           b == d.send_buffer
<1>1. /\ d.send_base \in Nat /\ d.next_seq_num \in Nat
      /\ \A i \in DOMAIN b : /\ b[i].seq \in Nat /\ NodeEnd(b[i]) \in Nat
                             /\ NodeOK(b[i], d) /\ b[i].seq < NodeEnd(b[i])
  BY TileFacts
<1>2. ISN < rnext
  BY <1>1 DEF TilesOK, ISN
<1>3. /\ x \in rnext .. (rnext + Window) /\ FlushStops(buffer, rnext, x)
      /\ \A y \in rnext .. (x - 1) : ~ FlushStops(buffer, rnext, y)
  BY FlushedToProperty
<1>4. x \in Nat /\ rnext <= x
  BY <1>3, WindowAssumption
<1> HIDE DEF b
<1>5. \A y \in rnext .. (x - 1) :
        y \in DOMAIN buffer /\ buffer[y] = ContentOf(d, y) /\ y < d.next_seq_num
  BY FlushedWasBuffered DEF BufferRight
<1>6. x <= d.next_seq_num
  <2>1. CASE x = rnext
    BY <2>1
  <2>2. CASE x # rnext
    <3>1. x - 1 \in rnext .. (x - 1)
      BY <1>4, <2>2
    <3>. QED  BY <1>1, <1>4, <1>5, <3>1
  <2>. QED  BY <2>1, <2>2
<1>7. \A y \in rnext .. (x - 1) :
        ContentOf(d, y) = FIN <=> FinNumbered(d) /\ y = d.next_seq_num - 1
  BY <1>1, <1>2, <1>4 DEF ContentOf, FIN, ISN
<1>8. fin <=> x > rnext /\ FinNumbered(d) /\ x = d.next_seq_num
  <2>1. CASE x = rnext
    BY <1>4, <2>1 DEF FlushesFin
  <2>2. CASE x # rnext
    <3>1. x - 1 \in rnext .. (x - 1) /\ x > rnext
      BY <1>4, <2>2
    <3>2. fin <=> FinNumbered(d) /\ x - 1 = d.next_seq_num - 1
      BY <1>5, <1>7, <3>1 DEF FlushesFin
    <3>. QED  BY <1>1, <1>4, <3>1, <3>2
  <2>. QED  BY <2>1, <2>2
<1>9. Boundary(d, x)
  <2>1. CASE x = rnext
    BY <2>1
  <2>2. CASE x # rnext /\ ~ fin
    <3>1. x - 1 \in rnext .. (x - 1) /\ x - 1 \in Nat
      BY <1>4, <2>2
    <3>2. x - 1 \in d.send_base .. (d.next_seq_num - 1)
      BY <1>1, <1>4, <1>5, <3>1
    <3>3. PICK i \in DOMAIN b : b[i].seq <= x - 1 /\ x - 1 < NodeEnd(b[i])
      BY <3>2 DEF TilesOK, b
    <3>4. CASE NodeEnd(b[i]) = x
      BY <3>4 DEF Boundary, b
    <3>5. CASE NodeEnd(b[i]) # x
      <4>1. x - 1 \in Span(b[i]) /\ x \in Span(b[i])
        BY <1>1, <1>4, <3>1, <3>3, <3>5 DEF Span
      <4>2. x \in DOMAIN buffer
        BY <1>5, <3>1, <4>1 DEF BufferRight, b
      <4>3. buffer[x - 1] = FIN
        BY <1>3, <4>2 DEF FlushStops
      <4>. QED  BY <1>4, <2>2, <4>3 DEF FlushesFin
    <3>. QED  BY <3>4, <3>5
  <2>3. CASE fin
    BY <1>8, <2>3, NextIsBoundary
  <2>. QED  BY <2>1, <2>2, <2>3
<1>10. FlushedBytes(buffer, rnext) =
         [i \in 1 .. ((x - rnext) - (IF fin THEN 1 ELSE 0)) |->
            (rnext - ISN) + (i - 1)]
  <2> DEFINE n == IF fin THEN (x - rnext) - 1 ELSE x - rnext
  <2>1. n = (x - rnext) - (IF fin THEN 1 ELSE 0) /\ n \in Nat /\ n <= x - rnext
    BY <1>4, <1>8
  <2>2. FlushedBytes(buffer, rnext) = [i \in 1 .. n |-> buffer[rnext + i - 1]]
    BY DEF FlushedBytes
  <2>3. ASSUME NEW i \in 1 .. n
        PROVE  buffer[rnext + i - 1] = (rnext - ISN) + (i - 1)
    <3> DEFINE y == rnext + i - 1
    <3>1. y \in rnext .. (x - 1) /\ y \in Nat
      BY <1>4, <2>1
    <3>2. ~ (FinNumbered(d) /\ y = d.next_seq_num - 1)
      <4>1. CASE fin
        BY <1>1, <1>4, <1>8, <2>1, <4>1
      <4>2. CASE ~ fin
        BY <1>1, <1>4, <1>6, <1>8, <3>1, <4>2
      <4>. QED  BY <4>1, <4>2
    <3>3. buffer[y] = y - ISN
      BY <1>5, <3>1, <3>2 DEF ContentOf
    <3>4. y - ISN = (rnext - ISN) + (i - 1)
      BY <2>1 DEF ISN
    <3>. QED  BY <3>3, <3>4
  <2> HIDE DEF n
  <2>. QED  BY <2>1, <2>2, <2>3
<1>11. BufferRight(Unflushed(buffer, rnext), d)
  <2> DEFINE u == Unflushed(buffer, rnext)
  <2>1. u = [y \in {z \in DOMAIN buffer : z >= x} |-> buffer[y]]
    BY DEF Unflushed
  <2> HIDE DEF u
  <2>2. \A y \in DOMAIN u : y \in DOMAIN buffer /\ y >= x /\ u[y] = buffer[y]
    BY <2>1
  <2>3. ASSUME NEW i \in DOMAIN b, NEW y \in Span(b[i]), NEW z \in Span(b[i]),
               y \in DOMAIN u
        PROVE  z \in DOMAIN u
    <3>1. z \in DOMAIN buffer
      BY <2>2, <2>3 DEF BufferRight, b
    <3>2. /\ y \in Nat /\ z \in Nat /\ y < NodeEnd(b[i]) /\ b[i].seq <= z
          /\ b[i].seq \in Nat /\ NodeEnd(b[i]) \in Nat
      BY <1>1 DEF Span
    <3>3. x < NodeEnd(b[i])
      BY <1>4, <2>2, <2>3, <3>2
    <3>4. x <= b[i].seq
      BY <1>4, <1>9, <3>3, NoNodeCut DEF b
    <3>. QED  BY <1>4, <2>1, <3>1, <3>2, <3>4
  <2>. QED  BY <2>2, <2>3 DEF BufferRight, b, u
<1>. QED  BY <1>4, <1>6, <1>8, <1>9, <1>10, <1>11

-----------------------------------------------------------------------------
(* handle_incoming_segment().                                              *)

(* What concerns c as a sender is left alone. *)
SameSending(c, cc) ==
  /\ cc.send_base = c.send_base /\ cc.next_seq_num = c.next_seq_num
  /\ cc.send_buffer = c.send_buffer /\ cc.is_FIN_SENT = c.is_FIN_SENT
  /\ cc.is_APP_CLOSE_QUEUED = c.is_APP_CLOSE_QUEUED
  /\ cc.errno = c.errno /\ cc.peer_initial_seq = c.peer_initial_seq

(* The bytes after the ones already passed up. *)
Following(from, to) == [i \in 1 .. (to - from) |-> from + i]

(* A segment that is accepted is inserted, and the flush follows. *)
LEMMA FlushedSegmentRight ==
  ASSUME NEW c, NEW d, NEW out, NEW back, Right(c, d, out, back),
         c.errno = "none", NEW s \in Segment, CarriedOK(s, d), TilesOK(d),
         ArrivedOK(c, d), SegmentEnd(s) <= d.next_seq_num,
         d.receive_next <= c.next_seq_num, Acceptable(c, s)
  PROVE  LET cc == HandleSegment(c, s) IN
         /\ Right(cc, d, out, back) /\ ArrivedOK(cc, d) /\ SameSending(c, cc)
         /\ Passed(c) \in Nat /\ Passed(cc) \in Nat /\ Passed(c) <= Passed(cc)
         /\ Delivered(c, s) = Following(Passed(c), Passed(cc))
<1> DEFINE cc == HandleSegment(c, s)
           b == Buffered(c, s)
           rnext == c.receive_next
           x == FlushedTo(b, rnext)
           u == Unflushed(b, rnext)
           fin == FlushesFin(b, rnext)
           t == IF fin THEN Transition(c.connection_state, "RECV_FIN")
                ELSE c.connection_state
<1>1. /\ ContextOK(c) /\ ContextOK(d) /\ EndpointOK(c, d) /\ EndpointOK(d, c)
      /\ SynchronizedState(c) /\ StateOK(c) /\ TilesOK(c)
  BY DEF Right, SentRight
<1>2. /\ ContextOK(cc) /\ Advances(c, cc) /\ EndpointOK(cc, d)
      /\ SynchronizedState(cc)
  BY <1>1, HandleSegmentStep
<1>3. ~ c.is_FIN_RECEIVED /\ c.connection_state \in Connected
  BY <1>1 DEF Acceptable, StateOK, SynchronizedState
<1>4. c.connection_state \in {"ESTABLISHED", "FIN_WAIT_1", "FIN_WAIT_2"}
  BY <1>1, <1>3 DEF StateOK, Connected
<1>5. SynchronizedState(d) /\ BufferRight(b, d)
  BY <1>1, AcceptedIsNode, InsertRight
<1>6. /\ rnext \in Nat /\ d.next_seq_num \in Nat /\ d.send_base \in Nat
      /\ InWindow(c.receive_buffer, rnext) /\ SegmentEnd(s) \in Nat
      /\ s.seq \in Nat /\ s.data \in Seq(Byte) /\ IsFin(s) \in BOOLEAN
  BY <1>1, ContextFields, SegmentEndType DEF Segment, IsFin
<1>7. InWindow(b, rnext)
  BY <1>6, InsertInWindow DEF Buffered
<1>8. \A y \in DOMAIN b : y < d.next_seq_num
  <2>1. \A y \in DOMAIN c.receive_buffer : y < d.next_seq_num
    BY <1>1 DEF EndpointOK, ReceiverOK
  <2>2. \A y \in Trimmed(rnext, s.seq, s.data, IsFin(s)) : y < d.next_seq_num
    BY <1>6 DEF Trimmed, SegmentEnd
  <2>. QED  BY <2>1, <2>2 DEF Buffered, Insert
<1>9. /\ Boundary(d, rnext) /\ ISN < rnext /\ d.send_base <= rnext
      /\ rnext <= d.next_seq_num
      /\ ~ (FinNumbered(d) /\ rnext = d.next_seq_num)
  BY <1>1, <1>3, <1>5 DEF ArrivedOK, EndpointOK, SenderOK, ReceiverOK
<1>10. /\ x \in Nat /\ rnext <= x /\ x <= d.next_seq_num
       /\ Boundary(d, x)
       /\ fin <=> x > rnext /\ FinNumbered(d) /\ x = d.next_seq_num
       /\ FlushedBytes(b, rnext) =
            [i \in 1 .. ((x - rnext) - (IF fin THEN 1 ELSE 0)) |->
               (rnext - ISN) + (i - 1)]
       /\ BufferRight(u, d)
  BY <1>1, <1>5, <1>6, <1>7, <1>8, <1>9, FlushRight
<1>11. Delivered(c, s) = FlushedBytes(b, rnext)
  BY DEF Delivered
<1>12. fin \in BOOLEAN
  BY <1>10 DEF FlushesFin
<1>13. cc = [c EXCEPT !.receive_next = x, !.receive_buffer = u,
                      !.is_FIN_RECEIVED = fin, !.connection_state = t]
  BY DEF HandleSegment, Flushed
<1> HIDE DEF b, x, u, fin, t
<1>14. /\ cc.receive_next = x /\ cc.receive_buffer = u
       /\ cc.is_FIN_RECEIVED = fin /\ cc.connection_state = t
       /\ SameSending(c, cc)
  BY <1>1, <1>13 DEF ContextOK, SameSending
<1> HIDE DEF cc
<1>15. StateOK(cc)
  <2>1. CASE fin
    <3>1. /\ c.connection_state = "ESTABLISHED" => t = "CLOSE_WAIT"
          /\ c.connection_state = "FIN_WAIT_1" => t = "CLOSING"
          /\ c.connection_state = "FIN_WAIT_2" => t = "CLOSED"
      BY <2>1 DEF Transition, t
    <3>2. c.connection_state = "FIN_WAIT_2" => Finished(cc)
      BY <1>1, <1>14 DEF StateOK, Finished, FinNumbered, SameSending
    <3>. QED  BY <1>1, <1>4, <1>14, <2>1, <3>1, <3>2
              DEF StateOK, SameSending, Connected, Opening
  <2>2. CASE ~ fin
    <3>1. t = c.connection_state
      BY <2>2 DEF t
    <3>2. Finished(cc) <=> Finished(c)
      BY <1>14 DEF Finished, FinNumbered, SameSending
    <3>. QED  BY <1>1, <1>3, <1>4, <1>12, <1>14, <2>2, <3>1, <3>2
              DEF StateOK, SameSending, Connected, Opening
  <2>. QED  BY <2>1, <2>2
<1>16. TilesOK(cc) /\ Continues(c, cc)
  BY <1>1, <1>2, <1>14, SameSender DEF SameSending, FinNumbered
<1>17. Right(cc, d, out, back)
  BY <1>2, <1>15, <1>16, RightStep
<1>18. ArrivedOK(cc, d)
  BY <1>6, <1>9, <1>10, <1>14 DEF ArrivedOK, BufferRight, ISN
<1>19. /\ Passed(c) = rnext - (ISN + 1)
       /\ Passed(cc) = x - (ISN + (IF fin THEN 2 ELSE 1))
  BY <1>3, <1>14 DEF Passed
<1>20. /\ Passed(c) \in Nat /\ Passed(cc) \in Nat /\ Passed(c) <= Passed(cc)
       /\ Passed(cc) - Passed(c) = (x - rnext) - (IF fin THEN 1 ELSE 0)
       /\ \A i \in Nat : (rnext - ISN) + (i - 1) = Passed(c) + i
  <2>1. /\ rnext \in Nat /\ x \in Nat /\ rnext <= x /\ 1 < rnext
        /\ fin => x > rnext
    BY <1>6, <1>9, <1>10 DEF ISN
  <2>2. CASE fin
    BY <1>19, <2>1, <2>2 DEF ISN
  <2>3. CASE ~ fin
    BY <1>19, <2>1, <2>3 DEF ISN
  <2>. QED  BY <2>2, <2>3
<1>21. Delivered(c, s) = Following(Passed(c), Passed(cc))
  <2> DEFINE n == (x - rnext) - (IF fin THEN 1 ELSE 0)
  <2>1. n = Passed(cc) - Passed(c) /\ n \in Nat
    BY <1>20
  <2>2. Delivered(c, s) = [i \in 1 .. n |-> (rnext - ISN) + (i - 1)]
    BY <1>10, <1>11
  <2> HIDE DEF n
  <2>3. \A i \in 1 .. n : (rnext - ISN) + (i - 1) = Passed(c) + i
    BY <1>20, <2>1
  <2>. QED  BY <2>1, <2>2, <2>3 DEF Following
<1>. QED  BY <1>14, <1>17, <1>18, <1>20, <1>21 DEF cc

(* The whole of handle_incoming_segment(): the segment, and the ACK for it. *)
LEMMA HandleSegmentRight ==
  ASSUME NEW c, NEW d, NEW out, NEW back, Right(c, d, out, back),
         c.errno = "none", NEW s \in Segment, CarriedOK(s, d), TilesOK(d),
         ArrivedOK(c, d), SegmentEnd(s) <= d.next_seq_num,
         d.receive_next <= c.next_seq_num
  PROVE  LET cc == HandleSegment(c, s)
             Sent == Elements(SentOnSegment(c, s)) IN
         /\ Right(cc, d, out \cup Sent, back)
         /\ ArrivedOK(cc, d) /\ SameSending(c, cc)
         /\ Passed(c) \in Nat =>
              /\ Passed(cc) \in Nat /\ Passed(c) <= Passed(cc)
              /\ Delivered(c, s) = Following(Passed(c), Passed(cc))
         /\ \A m \in Sent : AckOK(m, d) /\ SynchronizedState(d)
<1> DEFINE cc == HandleSegment(c, s)
           Sent == Elements(SentOnSegment(c, s))
<1>1. /\ Right(cc, d, out, back) /\ ArrivedOK(cc, d) /\ SameSending(c, cc)
      /\ Passed(c) \in Nat =>
           /\ Passed(cc) \in Nat /\ Passed(c) <= Passed(cc)
           /\ Delivered(c, s) = Following(Passed(c), Passed(cc))
  <2>1. CASE Acceptable(c, s)
    BY <2>1, FlushedSegmentRight
  <2>2. CASE ~ Acceptable(c, s)
    <3>1. cc = c /\ Delivered(c, s) = <<>>
      BY <2>2 DEF HandleSegment, Delivered
    <3>2. Passed(c) \in Nat => Following(Passed(c), Passed(c)) = <<>>
      <4> DEFINE n == Passed(c)
      <4> HIDE DEF n
      <4>. QED  BY DEF Following, n
    <3>. QED  BY <3>1, <3>2 DEF SameSending
  <2>. QED  BY <2>1, <2>2
<1> HIDE DEF cc
<1>2. /\ ContextOK(cc) /\ SynchronizedState(cc) /\ TilesOK(cc)
      /\ EndpointOK(cc, d) /\ ContextOK(d) /\ EndpointOK(d, cc)
  BY <1>1 DEF Right, SentRight
<1>3. cc.next_seq_num \in Nat /\ cc.receive_next \in Nat
  BY <1>2, ContextFields
<1>4. ISN < cc.next_seq_num
  BY <1>2, SynchronizedFacts DEF EndpointOK, ReceiverOK
<1>5. /\ Ack(cc) \in Segment /\ Ack(cc).seq = cc.next_seq_num
      /\ Ack(cc).ack = cc.receive_next /\ ~ CarriesData(Ack(cc))
  BY <1>2, <1>3, <1>4, AckSent DEF Ack, Header, CarriesData, IsFin
<1>6. CarriedOK(Ack(cc), cc)
  BY <1>2, <1>5, NextIsBoundary DEF CarriedOK
<1>7. AckOK(Ack(cc), d)
  BY <1>1, <1>5 DEF AckOK, ArrivedOK
<1>8. Sent \subseteq {Ack(cc)}
  <2>1. SentOnSegment(c, s) = <<Ack(cc)>> \/ SentOnSegment(c, s) = <<>>
    BY DEF SentOnSegment, cc
  <2>. QED  BY <1>5, <2>1, ElementsSingleton, ElementsEmpty
<1>9. Right(cc, d, out \cup Sent, back)
  BY <1>1, <1>5, <1>6, <1>8, RightSends
<1>10. Sent # {} => SynchronizedState(d)
  <2>1. SentOnSegment(c, s) # <<>> => CarriesData(s)
    BY DEF SentOnSegment
  <2>2. CarriesData(s) => SynchronizedState(d)
    BY DEF CarriedOK
  <2>. QED  BY <2>1, <2>2, ElementsEmpty
<1>. QED  BY <1>1, <1>7, <1>8, <1>9, <1>10 DEF cc

-----------------------------------------------------------------------------
(* handle_network_data(). *)

(* What a thread in its control loop may send to d. *)
AnswersRight(packets, d) ==
  \A m \in packets : AckOK(m, d) /\ (CarriesData(m) \/ SynchronizedState(d))

(* The acknowledgement, then the segment. *)
LEMMA HandleNetworkDataRight ==
  ASSUME NEW c, NEW d, NEW out, NEW back, Right(c, d, out, back),
         c.connection_state \in Connected, NEW s \in Segment,
         SentOK(s, d), CarriedOK(s, d), AckOK(s, c), TilesOK(d), ArrivedOK(c, d)
  PROVE  LET cc == HandleNetworkData(c, s)
             Sent == Elements(SentOnNetworkData(c, s)) IN
         /\ Right(cc, d, out \cup Sent, back) /\ ArrivedOK(cc, d)
         /\ cc.is_FIN_SENT = c.is_FIN_SENT /\ Taken(cc) = Taken(c)
         /\ cc.peer_initial_seq = c.peer_initial_seq
         /\ FinNumbered(c) => cc.next_seq_num = c.next_seq_num
         /\ Passed(c) \in Nat =>
              /\ Passed(cc) \in Nat /\ Passed(c) <= Passed(cc)
              /\ Delivered(AfterAck(c, s), s) = Following(Passed(c), Passed(cc))
         /\ AnswersRight(Sent, d)
<1> DEFINE a == AfterAck(c, s)
           first == IF "ACK" \in s.flags THEN SentOnAck(c, s.ack) ELSE <<>>
           cc == HandleSegment(a, s)
           second == SentOnSegment(a, s)
           Sent == Elements(SentOnNetworkData(c, s))
<1>1. /\ ContextOK(c) /\ ContextOK(d) /\ EndpointOK(c, d) /\ EndpointOK(d, c)
      /\ SynchronizedState(c) /\ StateOK(c) /\ c.errno = "none"
      /\ s.ack \in Nat /\ s.ack <= d.receive_next
      /\ SegmentEnd(s) <= d.next_seq_num /\ Boundary(c, s.ack)
  BY DEF Right, StateOK, SentOK, Segment, AckOK
<1>2. first \in Seq(Segment)
  BY <1>1, HandleAckStep
<1>3. /\ Right(a, d, out \cup Elements(first), back)
      /\ SameReceiver(c, a) /\ a.is_FIN_SENT = c.is_FIN_SENT
      /\ Taken(a) = Taken(c) /\ a.errno = "none"
      /\ FinNumbered(c) => a.next_seq_num = c.next_seq_num
      /\ \A m \in Elements(first) : m.ack = c.receive_next /\ CarriesData(m)
  <2>1. CASE "ACK" \in s.flags
    BY <1>1, <2>1, HandleAckRight DEF AfterAck
  <2>2. CASE "ACK" \notin s.flags
    <3>1. a = c /\ first = <<>>
      BY <2>2 DEF AfterAck
    <3>2. Elements(first) = {}
      BY <3>1, ElementsEmpty
    <3>. QED  BY <1>1, <3>1, <3>2 DEF SameReceiver
  <2>. QED  BY <2>1, <2>2
<1> HIDE DEF a, first
<1>4. /\ ContextOK(a) /\ EndpointOK(a, d) /\ SynchronizedState(a)
      /\ d.receive_next <= a.next_seq_num
  BY <1>3 DEF Right, EndpointOK, ReceiverOK
<1>5. ArrivedOK(a, d)
  BY <1>1, <1>3, <1>4 DEF ArrivedOK, SameReceiver
<1>6. Passed(a) = Passed(c)
  BY <1>3 DEF Passed, SameReceiver
<1>7. /\ Right(cc, d, (out \cup Elements(first)) \cup Elements(second), back)
      /\ ArrivedOK(cc, d) /\ SameSending(a, cc)
      /\ Passed(a) \in Nat =>
           /\ Passed(cc) \in Nat /\ Passed(a) <= Passed(cc)
           /\ Delivered(a, s) = Following(Passed(a), Passed(cc))
      /\ \A m \in Elements(second) : AckOK(m, d) /\ SynchronizedState(d)
  BY <1>1, <1>3, <1>4, <1>5, HandleSegmentRight
<1>8. second \in Seq(Segment)
  BY <1>1, <1>4, HandleSegmentStep
<1> HIDE DEF cc, second
<1>9. Sent \subseteq Elements(first) \cup Elements(second)
  BY <1>2, <1>8, ElementsConcat DEF SentOnNetworkData, first, second, a
<1>10. Right(cc, d, out \cup Sent, back)
  BY <1>7, <1>9 DEF Right, SentRight
<1>11. AnswersRight(Sent, d)
  <2>1. \A m \in Elements(first) : AckOK(m, d) /\ CarriesData(m)
    BY <1>1, <1>3 DEF AckOK, ArrivedOK
  <2>. QED  BY <1>7, <1>9, <2>1 DEF AnswersRight
<1>12. /\ cc.is_FIN_SENT = c.is_FIN_SENT /\ Taken(cc) = Taken(c)
       /\ cc.peer_initial_seq = c.peer_initial_seq
       /\ FinNumbered(c) => cc.next_seq_num = c.next_seq_num
  BY <1>3, <1>7 DEF SameSending, SameReceiver, Taken, FinNumbered
<1>. QED  BY <1>6, <1>7, <1>10, <1>11, <1>12 DEF HandleNetworkData, a, cc

-----------------------------------------------------------------------------
(* One pass of the thread of p, as the whole invariant sees it. *)

(* What ReaderOK says of p, for the context c and the application a. *)
ReaderRight(p, c, a) ==
  SynchronizedState(c) /\ (p = "active" \/ c.peer_initial_seq = ISN + 1) =>
    /\ Passed(c) \in Nat
    /\ a.received = [i \in 1 .. Passed(c) |-> i]

(* What the invariant says of p and of what is in transit. *)
LEMMA StreamFacts ==
  ASSUME StreamInv, NEW p \in Side
  PROVE  LET c == ctx[p]
             d == ctx[Peer(p)]
             out == Transit(Peer(p))
             back == Transit(p) IN
         /\ ContextOK(c) /\ ContextOK(d) /\ EndpointOK(c, d) /\ EndpointOK(d, c)
         /\ out \subseteq Segment /\ back \subseteq Segment
         /\ StateOK(c) /\ SentRight(c, d, out, back)
         /\ TilesOK(d) /\ ArrivedOK(c, d)
         /\ \A m \in back : SentOK(m, d) /\ CarriedOK(m, d) /\ AckOK(m, c)
         /\ WriterOK(app[p], c) /\ ReaderRight(p, c, app[p])
         /\ AppOK(app[p]) /\ ChannelOK
         /\ ctx = [q \in Side |-> ctx[q]] /\ app = [q \in Side |-> app[q]]
         /\ SynchronizedState(c) => Right(c, d, out, back)
<1>1. /\ Peer(p) \in Side /\ Peer(Peer(p)) = p
  BY Peers
<1>2. IInv /\ EndOK(p) /\ EndOK(Peer(p))
  BY <1>1 DEF StreamInv
<1>3. /\ ContextOK(ctx[p]) /\ ContextOK(ctx[Peer(p)])
      /\ EndpointOK(ctx[p], ctx[Peer(p)]) /\ ChannelOK
      /\ \A m \in Transit(p) : m \in Segment /\ SentOK(m, ctx[Peer(p)])
      /\ app = [q \in Side |-> app[q]] /\ AppOK(app[p])
  BY <1>2, PairFacts
<1>4. /\ EndpointOK(ctx[Peer(p)], ctx[p])
      /\ \A m \in Transit(Peer(p)) : m \in Segment
  BY <1>1, <1>2, PairFacts
<1>5. ctx = [q \in Side |-> ctx[q]]
  BY <1>2 DEF IInv, TypeOK
<1>6. ReaderRight(p, ctx[p], app[p])
  BY <1>2 DEF EndOK, ReaderOK, ReaderRight, StreamAligned
<1>7. \A m \in Transit(p) : CarriedOK(m, ctx[Peer(p)]) /\ AckOK(m, ctx[p])
  BY <1>1, <1>2 DEF EndOK, SentRight
<1>8. TilesOK(ctx[Peer(p)]) /\ ArrivedOK(ctx[p], ctx[Peer(p)])
  BY <1>1, <1>2 DEF EndOK, SentRight
<1>9. /\ StateOK(ctx[p]) /\ WriterOK(app[p], ctx[p])
      /\ SentRight(ctx[p], ctx[Peer(p)], Transit(Peer(p)), Transit(p))
  BY <1>2 DEF EndOK
<1>. QED  BY <1>3, <1>4, <1>5, <1>6, <1>7, <1>8, <1>9 DEF Right

(* What a thread may send to d. *)
PacketsRight(packets, d) ==
  \A m \in packets :
    /\ AckOK(m, d)
    /\ \/ CarriesData(m) \/ "SYN" \in m.flags \/ m.seq = ISN + 1
       \/ SynchronizedState(d)

(* A pass of p that leaves p right and sends what is right. *)
LEMMA PassStreams ==
  ASSUME StreamInv, IInv', NEW p \in Side, NEW cc, NEW a, NEW Sent,
         ctx' = [ctx EXCEPT ![p] = cc], app' = [app EXCEPT ![p] = a],
         Transit(p)' \subseteq Transit(p),
         Transit(Peer(p))' \subseteq Transit(Peer(p)) \cup Sent,
         StateOK(cc),
         SentRight(cc, ctx[Peer(p)], Transit(Peer(p)) \cup Sent, Transit(p)),
         ArrivedOK(cc, ctx[Peer(p)]),
         WriterOK(a, cc), ReaderRight(p, cc, a),
         SynchronizedState(ctx[p]) => SynchronizedState(cc),
         PacketsRight(Sent, ctx[Peer(p)])
  PROVE  StreamInv'
<1> DEFINE q == Peer(p)
<1>1. /\ q \in Side /\ q # p /\ Peer(q) = p /\ \A r \in Side : r = p \/ r = q
  BY Peers
<1>2. /\ ctx = [r \in Side |-> ctx[r]] /\ app = [r \in Side |-> app[r]]
      /\ EndOK(p) /\ EndOK(q)
  BY <1>1, StreamFacts DEF StreamInv
<1>3. /\ ctx'[p] = cc /\ ctx'[q] = ctx[q] /\ app'[p] = a /\ app'[q] = app[q]
  BY <1>1, <1>2
<1>4. SentRight(cc, ctx[q], Transit(q)', Transit(p)')
  BY DEF SentRight
<1>5. SentRight(ctx[q], cc, Transit(p)', Transit(q)')
  BY <1>1, <1>2 DEF EndOK, SentRight, PacketsRight
<1>6. EndOK(p)'
  BY <1>1, <1>3, <1>4 DEF EndOK, ReaderOK, ReaderRight, StreamAligned
<1>7. EndOK(q)'
  BY <1>1, <1>2, <1>3, <1>5 DEF EndOK, ReaderOK, StreamAligned
<1>8. AnswersOK'
  <2>1. CASE p = "passive"
    BY <1>3, <2>1 DEF AnswersOK, StreamInv, PacketsRight
  <2>2. CASE p # "passive"
    <3>1. q = "passive"
      BY <1>1, <2>2 DEF Side
    <3>. QED  BY <1>3, <3>1 DEF AnswersOK, StreamInv, PacketsRight
  <2>. QED  BY <2>1, <2>2
<1>. QED  BY <1>1, <1>6, <1>7, <1>8 DEF StreamInv

(* A pass of a thread that is in its control loop. *)
LEMMA ConnectedStreams ==
  ASSUME StreamInv, IInv', NEW p \in Side, NEW cc, NEW a, NEW Sent,
         ctx' = [ctx EXCEPT ![p] = cc], app' = [app EXCEPT ![p] = a],
         Transit(p)' \subseteq Transit(p),
         Transit(Peer(p))' \subseteq Transit(Peer(p)) \cup Sent,
         Right(cc, ctx[Peer(p)], Transit(Peer(p)) \cup Sent, Transit(p)),
         ArrivedOK(cc, ctx[Peer(p)]),
         WriterOK(a, cc), ReaderRight(p, cc, a),
         AnswersRight(Sent, ctx[Peer(p)])
  PROVE  StreamInv'
BY PassStreams DEF Right, AnswersRight, PacketsRight

(* Reading on from k to n. *)
LEMMA ReadOn ==
  ASSUME NEW k \in Nat, NEW n \in Nat, k <= n
  PROVE  [i \in 1 .. k |-> i] \o Following(k, n) = [i \in 1 .. n |-> i]
<1> DEFINE s == [i \in 1 .. k |-> i]
           t == [i \in 1 .. (n - k) |-> k + i]
           st == s \o t
<1>1. /\ s \in Seq(Nat) /\ Len(s) = k /\ DOMAIN s = 1 .. k
      /\ \A i \in 1 .. k : s[i] = i
  OBVIOUS
<1>2. /\ t \in Seq(Nat) /\ Len(t) = n - k /\ DOMAIN t = 1 .. (n - k)
      /\ \A i \in 1 .. (n - k) : t[i] = k + i
  OBVIOUS
<1> HIDE DEF s, t
<1>3. st \in Seq(Nat) /\ Len(st) = n /\ DOMAIN st = 1 .. n
  BY <1>1, <1>2
<1>4. ASSUME NEW i \in 1 .. n
      PROVE  st[i] = i
  <2>1. CASE i <= k
    BY <1>1, <1>2, <2>1
  <2>2. CASE ~ (i <= k)
    <3>1. i - k \in 1 .. (n - k) /\ k + (i - k) = i
      BY <2>2
    <3>2. st[i] = t[i - k]
      BY <1>1, <1>2, <2>2, <3>1
    <3>. QED  BY <1>2, <3>1, <3>2
  <2>. QED  BY <2>1, <2>2
<1>5. st = [i \in 1 .. n |-> i]
  <2> HIDE DEF st
  <2>. QED  BY <1>3, <1>4
<1>. QED  BY <1>5 DEF Following, s, t

(* A segment arrives. *)
LEMMA ReceiveSegmentStreams ==
  ASSUME StreamInv, NEW p \in Side, ReceiveSegment(p)
  PROVE  StreamInv'
<1> DEFINE c == ctx[p]
           d == ctx[Peer(p)]
           out == Transit(Peer(p))
           back == Transit(p)
<1>1. IInv' /\ IInv
  BY ReceiveSegmentStep DEF StreamInv
<1>2. PICK s \in Arriving(p) :
        /\ Exchange(p, s, SentOnNetworkData(c, s))
        /\ ctx' = [ctx EXCEPT ![p] = HandleNetworkData(c, s)]
        /\ app' = [app EXCEPT ![p].received = @ \o Delivered(AfterAck(c, s), s)]
  BY DEF ReceiveSegment
<1>3. c.connection_state \in Connected /\ SynchronizedState(c)
  BY DEF ReceiveSegment, SynchronizedState
<1>4. /\ Right(c, d, out, back) /\ TilesOK(d) /\ ArrivedOK(c, d)
      /\ ContextOK(c) /\ ContextOK(d) /\ EndpointOK(c, d)
      /\ WriterOK(app[p], c) /\ ReaderRight(p, c, app[p]) /\ AppOK(app[p])
      /\ ChannelOK /\ app = [q \in Side |-> app[q]]
      /\ \A m \in back : /\ m \in Segment /\ SentOK(m, d)
                         /\ CarriedOK(m, d) /\ AckOK(m, c)
  BY <1>3, StreamFacts
<1>5. s \in back
  BY <1>1, ArrivingTransit
<1> DEFINE cc == HandleNetworkData(c, s)
           packets == SentOnNetworkData(c, s)
           Sent == Elements(packets)
           more == Delivered(AfterAck(c, s), s)
           a == [app[p] EXCEPT !.received = @ \o more]
<1>6. /\ Right(cc, d, out \cup Sent, back) /\ ArrivedOK(cc, d)
      /\ cc.is_FIN_SENT = c.is_FIN_SENT /\ Taken(cc) = Taken(c)
      /\ cc.peer_initial_seq = c.peer_initial_seq
      /\ Passed(c) \in Nat =>
           /\ Passed(cc) \in Nat /\ Passed(c) <= Passed(cc)
           /\ more = Following(Passed(c), Passed(cc))
      /\ AnswersRight(Sent, d)
  BY <1>3, <1>4, <1>5, HandleNetworkDataRight
<1>7. packets \in Seq(Segment)
  BY <1>3, <1>4, <1>5, HandleNetworkDataStep DEF EndpointOK, Right, ReceiverOK
<1>8. Transit(p)' \subseteq back /\ Transit(Peer(p))' \subseteq out \cup Sent
  BY <1>2, <1>4, <1>7, ExchangeProperty
<1> HIDE DEF cc, more, packets
<1>9. /\ ctx' = [ctx EXCEPT ![p] = cc]
      /\ app' = [app EXCEPT ![p] = a]
  BY <1>2, <1>4 DEF cc, more
<1>10. /\ a.app_recv_queue = app[p].app_recv_queue /\ a.written = app[p].written
       /\ a.close_requested = app[p].close_requested /\ a.closed = app[p].closed
       /\ a.received = app[p].received \o more
  BY <1>4 DEF AppOK
<1> HIDE DEF a
<1>11. WriterOK(a, cc)
  BY <1>3, <1>4, <1>6, <1>10 DEF WriterOK, Right
<1>12. ReaderRight(p, cc, a)
  <2> SUFFICES ASSUME SynchronizedState(cc),
                      p = "active" \/ cc.peer_initial_seq = ISN + 1
               PROVE  /\ Passed(cc) \in Nat
                      /\ a.received = [i \in 1 .. Passed(cc) |-> i]
    BY DEF ReaderRight
  <2>1. /\ Passed(c) \in Nat
        /\ app[p].received = [i \in 1 .. Passed(c) |-> i]
    BY <1>3, <1>4, <1>6 DEF ReaderRight
  <2>2. Passed(cc) \in Nat /\ Passed(c) <= Passed(cc)
    BY <1>6, <2>1
  <2>3. a.received = app[p].received \o Following(Passed(c), Passed(cc))
    BY <1>6, <1>10, <2>1
  <2>. QED  BY <2>1, <2>2, <2>3, ReadOn
<1>. QED  BY <1>1, <1>6, <1>8, <1>9, <1>11, <1>12, ConnectedStreams

-----------------------------------------------------------------------------
(* handle_app_data(). *)

(* The rest of a sequence. *)
LEMMA RestOfSequence ==
  ASSUME NEW S, NEW s \in Seq(S), NEW n \in Nat, n < Len(s)
  PROVE  LET r == SubSeq(s, n + 1, Len(s)) IN
         /\ r \in Seq(S) /\ Len(r) = Len(s) - n
         /\ DOMAIN r = 1 .. (Len(s) - n)
         /\ \A k \in 1 .. (Len(s) - n) : r[k] = s[n + k]
OBVIOUS

(* What stcp_app_recv() takes continues the stream, and what it leaves in  *)
(* the queue continues what it took.                                       *)
LEMMA TakenInOrder ==
  ASSUME NEW queue \in Seq(Seq(Byte)), queue # <<>>,
         NEW taken \in Nat, NEW written \in Nat, QueueOK(queue, taken, written),
         NEW len \in Nat, len > 0, len <= Len(Head(queue))
  PROVE  /\ \A k \in 1 .. len : Head(queue)[k] = taken + k
         /\ QueueOK(TakeBytes(queue, len), taken + len, written)
<1> DEFINE h == Head(queue)
           rest == TakeBytes(queue, len)
           to == taken + len
<1>1. /\ h \in Seq(Byte) /\ queue[1] = h /\ 1 \in DOMAIN queue
      /\ Tail(queue) \in Seq(Seq(Byte))
      /\ DOMAIN queue = 1 .. Len(queue) /\ Len(queue) \in Nat /\ Len(queue) > 0
      /\ Len(Tail(queue)) = Len(queue) - 1
      /\ \A i \in 1 .. (Len(queue) - 1) : Tail(queue)[i] = queue[i + 1]
  OBVIOUS
<1> HIDE DEF h
<1>2. /\ DOMAIN h = 1 .. Len(h) /\ Len(h) \in Nat /\ len <= Len(h)
      /\ \A k \in DOMAIN h : h[k] \in Nat
  BY <1>1 DEF Byte, h
<1>3. \A i \in DOMAIN queue :
        /\ Len(queue[i]) > 0
        /\ LastByte(queue, taken, i) <= written
        /\ \A k \in DOMAIN queue[i] :
             queue[i][k] = LastByte(queue, taken, i - 1) + k
  BY DEF QueueOK
<1>4. \A k \in DOMAIN h : h[k] = taken + k
  <2>1. LastByte(queue, taken, 1 - 1) = taken
    BY DEF LastByte
  <2>2. \A k \in DOMAIN queue[1] :
          queue[1][k] = LastByte(queue, taken, 1 - 1) + k
    BY <1>1, <1>3
  <2>. QED  BY <1>1, <2>1, <2>2
<1>5. /\ Len(h) > 0 /\ LastByte(queue, taken, 1) = taken + Len(h)
      /\ taken + Len(h) <= written
  <2>1. Len(h) > 0 /\ LastByte(queue, taken, 1) = h[Len(h)]
    BY <1>1, <1>3 DEF LastByte
  <2>2. Len(h) \in DOMAIN h
    BY <1>2, <2>1
  <2>3. LastByte(queue, taken, 1) = taken + Len(h)
    BY <1>4, <2>1, <2>2
  <2>4. LastByte(queue, taken, 1) <= written
    BY <1>1, <1>3
  <2>. QED  BY <2>1, <2>3, <2>4
<1>6. to <= written
  BY <1>2, <1>5
<1>7. CASE len = Len(h)
  <2>1. rest = Tail(queue)
    BY <1>2, <1>7 DEF TakeBytes, h
  <2>2. /\ DOMAIN rest = 1 .. (Len(queue) - 1) /\ Len(rest) = Len(queue) - 1
        /\ \A i \in DOMAIN rest : rest[i] = queue[i + 1] /\ i + 1 \in DOMAIN queue
    BY <1>1, <2>1
  <2> HIDE DEF rest
  <2>3. \A i \in 0 .. (Len(queue) - 1) :
          LastByte(rest, to, i) = LastByte(queue, taken, i + 1)
    <3> TAKE i \in 0 .. (Len(queue) - 1)
    <3>1. CASE i = 0
      BY <1>5, <1>7, <3>1 DEF LastByte
    <3>2. CASE i # 0
      <4>1. i \in DOMAIN rest /\ i + 1 # 0
        BY <1>1, <2>2, <3>2
      <4>. QED  BY <2>2, <3>2, <4>1 DEF LastByte
    <3>. QED  BY <3>1, <3>2
  <2>4. ASSUME NEW i \in DOMAIN rest
        PROVE  /\ Len(rest[i]) > 0
               /\ LastByte(rest, to, i) <= written
               /\ \A k \in DOMAIN rest[i] :
                    rest[i][k] = LastByte(rest, to, i - 1) + k
    <3> DEFINE j == i + 1
    <3>1. /\ j \in DOMAIN queue /\ rest[i] = queue[j] /\ j - 1 = i
          /\ i \in 0 .. (Len(queue) - 1) /\ i - 1 \in 0 .. (Len(queue) - 1)
          /\ (i - 1) + 1 = i
      BY <1>1, <2>2
    <3>2. /\ LastByte(rest, to, i) = LastByte(queue, taken, j)
          /\ LastByte(rest, to, i - 1) = LastByte(queue, taken, j - 1)
      <4>1. LastByte(rest, to, i - 1) = LastByte(queue, taken, (i - 1) + 1)
        BY <2>3, <3>1
      <4>. QED  BY <2>3, <3>1, <4>1
    <3> HIDE DEF j
    <3>. QED  BY <1>3, <3>1, <3>2
  <2>5. LastByte(rest, to, Len(rest)) = written
    <3>1. LastByte(queue, taken, Len(queue)) = written
      BY DEF QueueOK
    <3>2. Len(rest) \in 0 .. (Len(queue) - 1) /\ Len(rest) + 1 = Len(queue)
      BY <1>1, <2>2
    <3>. QED  BY <2>3, <3>1, <3>2
  <2>. QED  BY <1>4, <1>2, <1>6, <2>4, <2>5 DEF QueueOK, rest, h
<1>8. CASE len # Len(h)
  <2> DEFINE left == SubSeq(h, len + 1, Len(h))
  <2>1. len < Len(h)
    <3>1. \A l \in Nat : len <= l /\ len # l => len < l
      OBVIOUS
    <3>. QED  BY <1>2, <1>8, <3>1
  <2>2. rest = <<left>> \o Tail(queue)
    BY <1>2, <2>1 DEF TakeBytes, h
  <2>3. /\ left \in Seq(Byte) /\ Len(left) = Len(h) - len
        /\ DOMAIN left = 1 .. (Len(h) - len)
        /\ \A k \in 1 .. (Len(h) - len) : left[k] = h[len + k]
    BY <1>1, <2>1, RestOfSequence
  <2> HIDE DEF left
  <2>4. /\ DOMAIN rest = DOMAIN queue /\ Len(rest) = Len(queue)
        /\ rest[1] = left
        /\ \A i \in DOMAIN queue : i # 1 => rest[i] = queue[i]
    <3>1. /\ rest \in Seq(Seq(Byte)) /\ Len(rest) = Len(queue)
          /\ DOMAIN rest = 1 .. Len(queue) /\ rest[1] = left
      BY <1>1, <2>2, <2>3
    <3>2. ASSUME NEW i \in DOMAIN queue, i # 1
          PROVE  rest[i] = queue[i]
      <4>1. i - 1 \in 1 .. (Len(queue) - 1) /\ (i - 1) + 1 = i
        BY <1>1, <3>2
      <4>2. rest[i] = Tail(queue)[i - 1]
        BY <1>1, <2>2, <2>3, <4>1
      <4>. QED  BY <1>1, <4>1, <4>2
    <3>. QED  BY <1>1, <3>1, <3>2
  <2> HIDE DEF rest
  <2>5. \A k \in DOMAIN left : left[k] = to + k
    <3> TAKE k \in DOMAIN left
    <3>1. len + k \in DOMAIN h
      BY <1>2, <2>3
    <3>2. left[k] = taken + (len + k)
      BY <1>4, <2>3, <3>1
    <3>. QED  BY <2>3, <3>2
  <2>6. LastByte(rest, to, 1) = LastByte(queue, taken, 1) /\ Len(left) > 0
    <3>1. Len(left) \in DOMAIN left /\ Len(left) > 0
      BY <1>2, <2>1, <2>3
    <3>2. LastByte(rest, to, 1) = to + Len(left)
      BY <2>4, <2>5, <3>1 DEF LastByte
    <3>. QED  BY <1>2, <1>5, <2>1, <2>3, <3>1, <3>2
  <2>7. \A i \in DOMAIN queue : LastByte(rest, to, i) = LastByte(queue, taken, i)
    <3> TAKE i \in DOMAIN queue
    <3>1. CASE i = 1
      BY <2>6, <3>1
    <3>2. CASE i # 1
      BY <1>1, <2>4, <3>2 DEF LastByte
    <3>. QED  BY <3>1, <3>2
  <2>8. ASSUME NEW i \in DOMAIN rest
        PROVE  /\ Len(rest[i]) > 0
               /\ LastByte(rest, to, i) <= written
               /\ \A k \in DOMAIN rest[i] :
                    rest[i][k] = LastByte(rest, to, i - 1) + k
    <3>1. CASE i = 1
      <4>1. LastByte(rest, to, i - 1) = to
        BY <3>1 DEF LastByte
      <4>. QED  BY <1>3, <2>4, <2>5, <2>6, <2>7, <3>1, <4>1
    <3>2. CASE i # 1
      <4>1. i - 1 \in DOMAIN queue /\ i \in DOMAIN queue
        BY <1>1, <2>4, <3>2
      <4>. QED  BY <1>3, <2>4, <2>7, <3>2, <4>1
    <3>. QED  BY <3>1, <3>2
  <2>9. LastByte(rest, to, Len(rest)) = written
    <3>1. LastByte(queue, taken, Len(queue)) = written
      BY DEF QueueOK
    <3>2. Len(queue) \in DOMAIN queue
      BY <1>1
    <3>. QED  BY <2>4, <2>7, <3>1, <3>2
  <2>. QED  BY <1>4, <1>2, <1>6, <2>8, <2>9 DEF QueueOK, rest, h
<1>. QED  BY <1>7, <1>8

(* A pass that sends, with what it changes of the application. *)
LEMMA SendingStreams ==
  ASSUME StreamInv, IInv', NEW p \in Side, NEW cc, NEW a,
         NEW packets \in Seq(Segment),
         ctx' = [ctx EXCEPT ![p] = cc], app' = [app EXCEPT ![p] = a],
         Send(p, packets), UNCHANGED <<copy, faults>>,
         Right(cc, ctx[Peer(p)], Transit(Peer(p)), Transit(p)),
         ArrivedOK(cc, ctx[Peer(p)]), WriterOK(a, cc), ReaderRight(p, cc, a),
         \A m \in Elements(packets) :
           /\ CarriedOK(m, cc) /\ AckOK(m, ctx[Peer(p)])
           /\ CarriesData(m) \/ SynchronizedState(ctx[Peer(p)])
  PROVE  StreamInv'
<1> DEFINE Sent == Elements(packets)
<1>1. ChannelOK
  BY StreamFacts
<1>2. /\ Transit(p)' = Transit(p)
      /\ Transit(Peer(p))' \subseteq Transit(Peer(p)) \cup Sent
  BY <1>1, SendProperty
<1>3. Sent \subseteq Segment
  BY DEF Elements
<1> HIDE DEF Sent
<1>4. AnswersRight(Sent, ctx[Peer(p)]) /\ \A m \in Sent : CarriedOK(m, cc)
  BY DEF Sent, AnswersRight
<1>5. Right(cc, ctx[Peer(p)], Transit(Peer(p)) \cup Sent, Transit(p))
  BY <1>3, <1>4, RightSends
<1>. QED  BY <1>2, <1>4, <1>5, ConnectedStreams

(* handle_app_data(): a node takes the next bytes of the stream. *)
LEMMA HandleAppDataStreams ==
  ASSUME StreamInv, NEW p \in Side, HandleAppData(p)
  PROVE  StreamInv'
<1> DEFINE c == ctx[p]
           d == ctx[Peer(p)]
           out == Transit(Peer(p))
           back == Transit(p)
           queue == app[p].app_recv_queue
           len == Least(Least(WinRemain(c), MSS), Len(Head(queue)))
           data == SubSeq(Head(queue), 1, len)
           n == [seq |-> c.next_seq_num, data |-> data, fin |-> FALSE]
           m == Packet(n, c.receive_next)
           cc == Transmitted(c, n)
           rest == TakeBytes(queue, len)
           a == [app[p] EXCEPT !.app_recv_queue = rest]
<1>1. IInv' /\ IInv
  BY HandleAppDataStep DEF StreamInv
<1>2. /\ c.connection_state \in Connected /\ WindowOpen(c) /\ queue # <<>>
      /\ ~ c.is_FIN_SENT
      /\ ctx' = [ctx EXCEPT ![p] = cc]
      /\ app' = [app EXCEPT ![p].app_recv_queue = TakeBytes(@, len)]
      /\ Send(p, <<m>>) /\ UNCHANGED <<copy, faults>>
  BY DEF HandleAppData
<1>3. SynchronizedState(c)
  BY <1>2 DEF SynchronizedState
<1>4. /\ Right(c, d, out, back) /\ TilesOK(d) /\ ArrivedOK(c, d)
      /\ ContextOK(c) /\ ContextOK(d) /\ EndpointOK(c, d) /\ EndpointOK(d, c)
      /\ StateOK(c) /\ TilesOK(c)
      /\ WriterOK(app[p], c) /\ ReaderRight(p, c, app[p]) /\ AppOK(app[p])
      /\ app = [q \in Side |-> app[q]]
  BY <1>3, StreamFacts DEF Right, SentRight
<1>5. /\ c.next_seq_num \in Nat /\ c.send_base \in Nat /\ c.receive_next \in Nat
      /\ c.send_buffer \in Seq(Node)
  BY <1>4, ContextFields
<1>6. ISN < c.next_seq_num /\ c.send_base <= c.next_seq_num
  BY <1>3, <1>4, SynchronizedFacts DEF EndpointOK, ReceiverOK
<1>7. /\ queue \in Seq(Seq(Byte)) /\ app[p].written \in Nat
      /\ Taken(c) \in Nat /\ QueueOK(queue, Taken(c), app[p].written)
  BY <1>3, <1>4 DEF AppOK, WriterOK
<1>8. Head(queue) \in Seq(Byte) /\ Len(Head(queue)) \in Nat /\ Len(Head(queue)) > 0
  <2>1. 1 \in DOMAIN queue /\ queue[1] = Head(queue) /\ Head(queue) \in Seq(Byte)
    BY <1>2, <1>7
  <2>. QED  BY <1>7, <2>1 DEF QueueOK
<1>9. /\ len \in Nat /\ len > 0 /\ len <= Len(Head(queue))
      /\ len <= (c.send_base + Window) - c.next_seq_num
  <2>1. WinRemain(c) \in Nat /\ WinRemain(c) > 0
    BY <1>2, <1>5, WindowAssumption DEF WinRemain, WindowOpen
  <2>2. MSS \in Nat /\ MSS > 0
    BY STCPAssumption
  <2>. QED  BY <1>5, <1>8, <2>1, <2>2 DEF Least, WinRemain
<1> HIDE DEF len
<1>10. /\ \A k \in 1 .. len : Head(queue)[k] = Taken(c) + k
       /\ QueueOK(rest, Taken(c) + len, app[p].written)
  BY <1>2, <1>7, <1>9, TakenInOrder
<1>11. /\ data \in Seq(Byte) /\ Len(data) = len /\ DOMAIN data = 1 .. len
       /\ \A k \in 1 .. len : data[k] = Head(queue)[k]
  BY <1>8, <1>9
<1> HIDE DEF data, rest
<1>12. /\ n \in Node /\ n.seq = c.next_seq_num /\ n.data = data /\ ~ n.fin
  BY <1>5, <1>11 DEF Node
<1>13. NodeEnd(n) = c.next_seq_num + len
  BY <1>5, <1>9, <1>11 DEF NodeEnd, EndOf
<1> HIDE DEF n
<1>14. n.seq < NodeEnd(n) /\ NodeEnd(n) <= c.send_base + Window
  BY <1>5, <1>9, <1>12, <1>13, WindowAssumption
<1>15. /\ ContextOK(cc) /\ Advances(c, cc) /\ EndpointOK(cc, d)
       /\ SynchronizedState(cc) /\ m \in Segment
  BY <1>3, <1>4, <1>6, <1>12, <1>14, TransmittedStep
<1>16. /\ cc.send_base = c.send_base /\ cc.next_seq_num = NodeEnd(n)
       /\ cc.send_buffer = Append(c.send_buffer, n)
       /\ SameReceiver(c, cc)
       /\ cc.is_FIN_SENT = c.is_FIN_SENT
       /\ cc.is_APP_CLOSE_QUEUED = c.is_APP_CLOSE_QUEUED
       /\ cc.connection_state = c.connection_state /\ cc.errno = c.errno
  BY <1>4 DEF Transmitted, ContextOK, SameReceiver
<1> HIDE DEF cc
<1>17. ~ FinNumbered(c) /\ ~ FinNumbered(cc)
  BY <1>2, <1>16 DEF FinNumbered
<1>18. Taken(c) = c.next_seq_num - (ISN + 1) /\ Taken(cc) = Taken(c) + len
  BY <1>5, <1>9, <1>13, <1>16, <1>17 DEF Taken, ISN
<1>19. \A k \in DOMAIN n.data : n.data[k] = (n.seq - ISN) + (k - 1)
  <2> TAKE k \in DOMAIN n.data
  <2>1. k \in Nat /\ n.data[k] = Taken(c) + k
    BY <1>9, <1>10, <1>11, <1>12
  <2>. QED  BY <1>5, <1>12, <1>18, <2>1 DEF ISN
<1>20. TilesOK(cc) /\ Continues(c, cc)
  BY <1>3, <1>4, <1>6, <1>12, <1>14, <1>15, <1>16, <1>17, <1>19, NodeJoins
<1>21. c.connection_state # "FIN_WAIT_2"
  BY <1>2, <1>4 DEF StateOK, Connected
<1>22. StateOK(cc)
  BY <1>2, <1>4, <1>16, <1>21 DEF StateOK, SameReceiver, Connected, Opening
<1>23. Right(cc, d, out, back)
  BY <1>4, <1>15, <1>20, <1>22, RightStep
<1>24. ArrivedOK(cc, d)
  BY <1>3, <1>4, <1>15, <1>16 DEF ArrivedOK, SameReceiver
<1>25. CarriedOK(m, cc) /\ CarriesData(m)
  <2>1. /\ Len(c.send_buffer) + 1 \in DOMAIN cc.send_buffer
        /\ cc.send_buffer[Len(c.send_buffer) + 1] = n
    BY <1>5, <1>12, <1>16
  <2>. QED  BY <1>5, <1>12, <1>15, <1>20, <2>1, NodeSent
<1>26. AckOK(m, d)
  BY <1>4, <1>5, <1>12, PacketType DEF AckOK, ArrivedOK
<1> HIDE DEF m
<1>27. <<m>> \in Seq(Segment) /\ Elements(<<m>>) = {m}
  BY <1>15, ElementsSingleton
<1>28. app' = [app EXCEPT ![p] = a]
  BY <1>2, <1>4 DEF rest
<1>29. /\ a.app_recv_queue = rest /\ a.written = app[p].written
       /\ a.close_requested = app[p].close_requested /\ a.closed = app[p].closed
       /\ a.received = app[p].received
  BY <1>4 DEF AppOK
<1> HIDE DEF a
<1>30. WriterOK(a, cc)
  <2>1. Taken(cc) \in Nat
    BY <1>7, <1>9, <1>18
  <2>. QED  BY <1>2, <1>3, <1>4, <1>10, <1>15, <1>16, <1>18, <1>29, <2>1 DEF WriterOK
<1>31. ReaderRight(p, cc, a)
  BY <1>3, <1>4, <1>16, <1>29 DEF ReaderRight, Passed, SameReceiver
<1>. QED  BY <1>1, <1>2, <1>23, <1>24, <1>25, <1>26, <1>27, <1>28, <1>30, <1>31,
             SendingStreams

(* A pass that sends nothing. *)
LEMMA SilentStreams ==
  ASSUME StreamInv, IInv', NEW p \in Side, NEW cc, NEW a,
         ctx' = [ctx EXCEPT ![p] = cc], app' = [app EXCEPT ![p] = a],
         UNCHANGED <<wire, copy, faults>>,
         Right(cc, ctx[Peer(p)], Transit(Peer(p)), Transit(p)),
         ArrivedOK(cc, ctx[Peer(p)]), WriterOK(a, cc), ReaderRight(p, cc, a)
  PROVE  StreamInv'
<1>1. /\ Transit(p)' \subseteq Transit(p)
      /\ Transit(Peer(p))' \subseteq Transit(Peer(p)) \cup {}
  BY DEF Transit
<1>2. Right(cc, ctx[Peer(p)], Transit(Peer(p)) \cup {}, Transit(p))
  <2>1. Transit(Peer(p)) \cup {} = Transit(Peer(p))
    OBVIOUS
  <2>. QED  BY <2>1
<1>3. AnswersRight({}, ctx[Peer(p)])
  BY DEF AnswersRight
<1>. QED  BY <1>1, <1>2, <1>3, ConnectedStreams

(* handle_app_close(): the FIN joins the send buffer, or waits. *)
LEMMA HandleAppCloseStreams ==
  ASSUME StreamInv, NEW p \in Side, HandleAppClose(p)
  PROVE  StreamInv'
<1> DEFINE o == ctx[p]
           d == ctx[Peer(p)]
           out == Transit(Peer(p))
           back == Transit(p)
           t == Transition(o.connection_state, "SEND_FIN")
           c == [o EXCEPT !.is_FIN_SENT = TRUE, !.connection_state = t]
           n == FinNode(c)
           m == Packet(n, c.receive_next)
           e == EnqueueFin(c)
           w == [c EXCEPT !.is_APP_CLOSE_QUEUED = TRUE]
           a == [app[p] EXCEPT !.close_requested = FALSE]
<1>1. IInv' /\ IInv
  BY HandleAppCloseStep DEF StreamInv
<1>2. /\ o.connection_state \in Connected
      /\ app[p].close_requested /\ app[p].app_recv_queue = <<>>
      /\ app' = [app EXCEPT ![p].close_requested = FALSE]
      /\ IF WindowOpen(o)
         THEN ctx' = [ctx EXCEPT ![p] = e] /\ Send(p, <<m>>)
         ELSE ctx' = [ctx EXCEPT ![p] = w] /\ wire' = wire
      /\ UNCHANGED <<copy, faults>>
  BY DEF HandleAppClose, CloseReported
<1>3. SynchronizedState(o)
  BY <1>2 DEF SynchronizedState
<1>4. /\ Right(o, d, out, back) /\ TilesOK(d) /\ ArrivedOK(o, d)
      /\ ContextOK(o) /\ ContextOK(d) /\ EndpointOK(o, d) /\ EndpointOK(d, o)
      /\ StateOK(o) /\ TilesOK(o)
      /\ WriterOK(app[p], o) /\ ReaderRight(p, o, app[p]) /\ AppOK(app[p])
      /\ app = [q \in Side |-> app[q]]
  BY <1>3, StreamFacts DEF Right, SentRight
<1>5. /\ o.next_seq_num \in Nat /\ o.send_base \in Nat /\ o.receive_next \in Nat
      /\ o.send_buffer \in Seq(Node) /\ o.is_APP_CLOSE_QUEUED \in BOOLEAN
  BY <1>4, ContextFields DEF ContextOK
<1>6. ISN < o.next_seq_num /\ o.send_base <= o.next_seq_num
  BY <1>3, <1>4, SynchronizedFacts DEF EndpointOK, ReceiverOK
<1>7. app[p].closed /\ ~ o.is_FIN_SENT /\ ~ o.is_APP_CLOSE_QUEUED
  BY <1>2, <1>3, <1>4 DEF WriterOK, StateOK
<1>8. \/ o.connection_state = "ESTABLISHED" /\ t = "FIN_WAIT_1" /\ ~ o.is_FIN_RECEIVED
      \/ o.connection_state = "CLOSE_WAIT" /\ t = "LAST_ACK" /\ o.is_FIN_RECEIVED
  <2>1. o.connection_state \in {"ESTABLISHED", "CLOSE_WAIT"}
    BY <1>2, <1>4, <1>7 DEF StateOK, Connected
  <2>2. /\ o.connection_state = "ESTABLISHED" => ~ o.is_FIN_RECEIVED
        /\ o.connection_state = "CLOSE_WAIT" => o.is_FIN_RECEIVED
    BY <1>2, <1>4 DEF StateOK
  <2>3. /\ o.connection_state = "ESTABLISHED" => t = "FIN_WAIT_1"
        /\ o.connection_state = "CLOSE_WAIT" => t = "LAST_ACK"
    BY DEF Transition
  <2>. QED  BY <2>1, <2>2, <2>3
<1> HIDE DEF t
<1>9. /\ ContextOK(c) /\ c.next_seq_num = o.next_seq_num
      /\ c.send_base = o.send_base /\ c.send_buffer = o.send_buffer
      /\ SameReceiver(o, c) /\ c.connection_state = t /\ c.errno = o.errno
      /\ c.is_FIN_SENT = TRUE /\ c.is_APP_CLOSE_QUEUED = o.is_APP_CLOSE_QUEUED
  BY <1>4, <1>8 DEF ContextOK, BufferOK, SameReceiver, State, Connected
<1> HIDE DEF c
<1>10. SynchronizedState(c) /\ c.connection_state \notin Opening
  BY <1>8, <1>9 DEF SynchronizedState, Connected, Opening
<1>11. EndpointOK(c, d) /\ Advances(o, c)
  BY <1>3, <1>4, <1>9, <1>10, Relabelled DEF SameReceiver
<1>12. app' = [app EXCEPT ![p] = a]
  BY <1>2, <1>4
<1>13. /\ a.app_recv_queue = <<>> /\ a.written = app[p].written
       /\ a.close_requested = FALSE /\ a.closed
       /\ a.received = app[p].received
  BY <1>2, <1>4, <1>7 DEF AppOK
<1> HIDE DEF a
<1>14. /\ Taken(o) \in Nat /\ QueueOK(<<>>, Taken(o), a.written)
  BY <1>2, <1>3, <1>4, <1>13 DEF WriterOK
<1>15. CASE WindowOpen(o)
  <2>1. /\ n \in Node /\ n.seq = c.next_seq_num
        /\ n = [seq |-> o.next_seq_num, data |-> <<>>, fin |-> TRUE]
        /\ NodeEnd(n) = c.next_seq_num + 1 /\ e = Transmitted(c, n)
    BY <1>9, FinNodeType DEF FinNode
  <2>2. NodeEnd(n) <= c.send_base + Window
    BY <1>5, <1>9, <1>15, <2>1, WindowAssumption DEF WindowOpen
  <2>3. /\ ContextOK(e) /\ Advances(c, e) /\ EndpointOK(e, d)
        /\ SynchronizedState(e) /\ m \in Segment
    BY <1>4, <1>5, <1>6, <1>9, <1>10, <1>11, <2>1, <2>2, TransmittedStep
       DEF SameReceiver
  <2>4. /\ e.send_base = o.send_base /\ e.next_seq_num = o.next_seq_num + 1
        /\ e.send_buffer = Append(o.send_buffer, n) /\ SameReceiver(o, e)
        /\ e.is_FIN_SENT = TRUE /\ e.is_APP_CLOSE_QUEUED = FALSE
        /\ e.connection_state = t /\ e.errno = o.errno
    BY <1>7, <1>9 DEF EnqueueFin, ContextOK, SameReceiver
  <2> HIDE DEF e, n
  <2>5. ~ FinNumbered(o) /\ FinNumbered(e)
    BY <1>7, <2>4 DEF FinNumbered
  <2>6. /\ TilesOK(e) /\ Continues(o, e)
        /\ \A ack \in Nat : CarriedOK(Packet(n, ack), e)
    BY <1>3, <1>4, <1>6, <2>1, <2>3, <2>4, <2>5, FinJoins
  <2>7. StateOK(e)
    BY <1>2, <1>4, <1>8, <2>4 DEF StateOK, SameReceiver, Connected, Opening
  <2>8. Advances(o, e)
    BY <1>9, <2>3 DEF Advances, SameReceiver
  <2>9. Right(e, d, out, back)
    BY <1>4, <2>3, <2>6, <2>7, <2>8, RightStep
  <2>10. ArrivedOK(e, d)
    BY <1>3, <1>4, <2>3, <2>4 DEF ArrivedOK, SameReceiver
  <2>11. CarriedOK(m, e) /\ CarriesData(m)
    <3>1. IsFin(m)
      BY <2>1 DEF IsFin, Packet
    <3>. QED  BY <1>5, <1>9, <2>6, <3>1 DEF CarriesData, SameReceiver
  <2>12. AckOK(m, d)
    <3>1. m.ack = o.receive_next
      BY <1>9 DEF Packet, SameReceiver
    <3>. QED  BY <1>4, <3>1 DEF AckOK, ArrivedOK
  <2> HIDE DEF m
  <2>13. <<m>> \in Seq(Segment) /\ Elements(<<m>>) = {m}
    BY <2>3, ElementsSingleton
  <2>14. Taken(e) = Taken(o)
    BY <1>5, <2>4, <2>5 DEF Taken, ISN
  <2>15. WriterOK(a, e)
    BY <1>13, <1>14, <2>3, <2>14 DEF WriterOK
  <2>16. ReaderRight(p, e, a)
    BY <1>3, <1>4, <1>13, <2>4 DEF ReaderRight, Passed, SameReceiver
  <2>. QED  BY <1>1, <1>2, <1>12, <1>15, <2>9, <2>10, <2>11, <2>12, <2>13, <2>15,
               <2>16, SendingStreams
<1>16. CASE ~ WindowOpen(o)
  <2>1. /\ ContextOK(w) /\ w.next_seq_num = o.next_seq_num
        /\ w.send_base = o.send_base /\ w.send_buffer = o.send_buffer
        /\ SameReceiver(o, w) /\ w.connection_state = t /\ w.errno = o.errno
        /\ w.is_FIN_SENT = TRUE /\ w.is_APP_CLOSE_QUEUED = TRUE
    BY <1>9 DEF ContextOK, BufferOK, SameReceiver
  <2> HIDE DEF w
  <2>2. SynchronizedState(w) /\ w.connection_state \notin Opening
    BY <1>8, <2>1 DEF SynchronizedState, Connected, Opening
  <2>3. EndpointOK(w, d) /\ Advances(o, w)
    BY <1>3, <1>4, <2>1, <2>2, Relabelled DEF SameReceiver
  <2>4. ~ FinNumbered(o) /\ ~ FinNumbered(w)
    BY <1>7, <2>1 DEF FinNumbered
  <2>5. TilesOK(w) /\ Continues(o, w)
    BY <1>3, <1>4, <2>1, <2>2, <2>4, SameSender
  <2>6. StateOK(w)
    BY <1>2, <1>4, <1>8, <2>1 DEF StateOK, SameReceiver, Connected, Opening
  <2>7. Right(w, d, out, back)
    BY <1>4, <2>1, <2>3, <2>5, <2>6, RightStep
  <2>8. ArrivedOK(w, d)
    BY <1>3, <1>4, <2>1 DEF ArrivedOK, SameReceiver
  <2>9. Taken(w) = Taken(o)
    BY <2>1, <2>4 DEF Taken
  <2>10. WriterOK(a, w)
    BY <1>13, <1>14, <2>2, <2>9 DEF WriterOK
  <2>11. ReaderRight(p, w, a)
    BY <1>3, <1>4, <1>13, <2>1 DEF ReaderRight, Passed, SameReceiver
  <2>. QED  BY <1>1, <1>2, <1>12, <1>16, <2>7, <2>8, <2>10, <2>11, SilentStreams
<1>. QED  BY <1>15, <1>16

(* One more retransmission is counted. *)
LEMMA CountedContext ==
  ASSUME NEW c, ContextOK(c)
  PROVE  ContextOK([c EXCEPT !.retransmission_count = @ + 1])
<1>1. c.retransmission_count + 1 \in Nat
  BY ContextFields
<1>. QED  BY <1>1 DEF ContextOK, BufferOK

(* handle_timeout(): the nodes again, or the end of the connection. *)
LEMMA HandleTimeoutStreams ==
  ASSUME StreamInv, NEW p \in Side, HandleTimeout(p)
  PROVE  StreamInv'
<1> DEFINE c == ctx[p]
           d == ctx[Peer(p)]
           out == Transit(Peer(p))
           back == Transit(p)
           failed == Fail(c, "CLOSED", "ECONNABORTED")
           counted == [c EXCEPT !.retransmission_count = @ + 1]
<1>1. IInv' /\ IInv
  BY HandleTimeoutStep DEF StreamInv
<1>2. /\ c.connection_state \in Connected
      /\ UNCHANGED <<app, copy, faults>>
      /\ \/ ctx' = [ctx EXCEPT ![p] = failed] /\ wire' = wire
         \/ ctx' = [ctx EXCEPT ![p] = counted] /\ Send(p, Resend(c))
  <2>1. [ctx EXCEPT ![p].retransmission_count = @ + 1]
          = [ctx EXCEPT ![p] = counted]
    OBVIOUS
  <2>2. /\ c.connection_state \in Connected
        /\ UNCHANGED <<app, copy, faults>>
        /\ \/ ctx' = [ctx EXCEPT ![p] = failed] /\ wire' = wire
           \/ /\ ctx' = [ctx EXCEPT ![p].retransmission_count = @ + 1]
              /\ Send(p, Resend(c))
    BY DEF HandleTimeout
  <2>. QED  BY <2>1, <2>2
<1>3. SynchronizedState(c)
  BY <1>2 DEF SynchronizedState
<1>4. /\ Right(c, d, out, back) /\ TilesOK(d) /\ ArrivedOK(c, d)
      /\ ContextOK(c) /\ ContextOK(d) /\ EndpointOK(c, d) /\ EndpointOK(d, c)
      /\ StateOK(c) /\ TilesOK(c)
      /\ WriterOK(app[p], c) /\ ReaderRight(p, c, app[p])
      /\ app = [q \in Side |-> app[q]]
  BY <1>3, StreamFacts DEF Right, SentRight
<1>5. /\ c.retransmission_count \in Nat /\ c.next_seq_num \in Nat
      /\ c.receive_next \in Nat /\ c.send_buffer \in Seq(Node)
  BY <1>4, ContextFields
<1>6. app' = [app EXCEPT ![p] = app[p]]
  BY <1>2, <1>4
<1>7. ASSUME NEW cc, ContextOK(cc), SynchronizedState(cc), StateOK(cc),
             cc.next_seq_num = c.next_seq_num,
             cc.send_base = c.send_base, cc.send_buffer = c.send_buffer,
             SameReceiver(c, cc), cc.is_FIN_SENT = c.is_FIN_SENT,
             cc.is_APP_CLOSE_QUEUED = c.is_APP_CLOSE_QUEUED
      PROVE  /\ Right(cc, d, out, back) /\ ArrivedOK(cc, d)
             /\ WriterOK(app[p], cc) /\ ReaderRight(p, cc, app[p])
  <2>1. cc.connection_state \notin Opening
    BY <1>7 DEF SynchronizedState, Connected, Opening
  <2>2. EndpointOK(cc, d) /\ Advances(c, cc)
    BY <1>3, <1>4, <1>7, <2>1, Relabelled DEF SameReceiver
  <2>3. FinNumbered(cc) <=> FinNumbered(c)
    BY <1>7 DEF FinNumbered
  <2>4. TilesOK(cc) /\ Continues(c, cc)
    BY <1>3, <1>4, <1>7, <2>3, SameSender
  <2>5. Right(cc, d, out, back)
    BY <1>4, <1>7, <2>2, <2>4, RightStep
  <2>6. ArrivedOK(cc, d)
    BY <1>3, <1>4, <1>7 DEF ArrivedOK, SameReceiver
  <2>7. Taken(cc) = Taken(c)
    BY <1>7, <2>3 DEF Taken
  <2>8. WriterOK(app[p], cc)
    BY <1>3, <1>4, <1>7, <2>7 DEF WriterOK
  <2>9. ReaderRight(p, cc, app[p])
    BY <1>3, <1>4, <1>7 DEF ReaderRight, Passed, SameReceiver
  <2>. QED  BY <2>5, <2>6, <2>8, <2>9
<1>8. CASE ctx' = [ctx EXCEPT ![p] = failed] /\ wire' = wire
  <2>1. /\ ContextOK(failed) /\ failed.next_seq_num = c.next_seq_num
        /\ failed.send_base = c.send_base /\ failed.send_buffer = c.send_buffer
        /\ SameReceiver(c, failed) /\ failed.is_FIN_SENT = c.is_FIN_SENT
        /\ failed.is_APP_CLOSE_QUEUED = c.is_APP_CLOSE_QUEUED
        /\ failed.connection_state = "CLOSED" /\ failed.errno = "ECONNABORTED"
    BY <1>4 DEF ContextOK, BufferOK, Fail, State, Errno, SameReceiver
  <2> HIDE DEF failed
  <2>2. SynchronizedState(failed) /\ StateOK(failed)
    BY <1>4, <2>1 DEF SynchronizedState, StateOK, Connected, Opening
  <2>. QED  BY <1>1, <1>2, <1>6, <1>7, <1>8, <2>1, <2>2, SilentStreams
<1>9. CASE ctx' = [ctx EXCEPT ![p] = counted] /\ Send(p, Resend(c))
  <2>1. ContextOK(counted)
    BY <1>4, CountedContext
  <2>2. /\ counted.next_seq_num = c.next_seq_num
        /\ counted.send_base = c.send_base /\ counted.send_buffer = c.send_buffer
        /\ SameReceiver(c, counted) /\ counted.is_FIN_SENT = c.is_FIN_SENT
        /\ counted.is_APP_CLOSE_QUEUED = c.is_APP_CLOSE_QUEUED
        /\ counted.connection_state = c.connection_state
        /\ counted.errno = c.errno
    BY <1>4 DEF ContextOK, SameReceiver
  <2> HIDE DEF counted
  <2>3. Finished(counted) <=> Finished(c)
    BY <2>2 DEF Finished, FinNumbered
  <2>4. SynchronizedState(counted) /\ StateOK(counted)
    BY <1>2, <1>3, <1>4, <2>2, <2>3
       DEF SynchronizedState, StateOK, SameReceiver, Connected, Opening
  <2>5. /\ Right(counted, d, out, back) /\ ArrivedOK(counted, d)
        /\ WriterOK(app[p], counted) /\ ReaderRight(p, counted, app[p])
    BY <1>7, <2>1, <2>2, <2>4
  <2>6. /\ Resend(c) \in Seq(Segment)
        /\ DOMAIN Resend(c) = DOMAIN c.send_buffer
        /\ \A i \in DOMAIN c.send_buffer :
             Resend(c)[i] = Packet(c.send_buffer[i], c.receive_next)
    BY <1>5, ResendType
  <2>7. ASSUME NEW i \in DOMAIN c.send_buffer
        PROVE  LET m == Packet(c.send_buffer[i], c.receive_next) IN
               CarriedOK(m, counted) /\ AckOK(m, d) /\ CarriesData(m)
    <3>1. c.send_buffer[i] \in Node
      BY <1>5
    <3>2. TilesOK(counted)
      BY <2>5 DEF Right, SentRight
    <3> DEFINE m == Packet(c.send_buffer[i], c.receive_next)
    <3>3. CarriedOK(m, counted) /\ CarriesData(m)
      BY <1>5, <2>1, <2>2, <2>4, <3>1, <3>2, NodeSent
    <3>4. m.ack = c.receive_next
      BY DEF Packet
    <3>. QED  BY <1>4, <3>3, <3>4 DEF AckOK, ArrivedOK
  <2>8. \A m \in Elements(Resend(c)) :
          CarriedOK(m, counted) /\ AckOK(m, d) /\ CarriesData(m)
    BY <2>6, <2>7 DEF Elements
  <2>. QED  BY <1>1, <1>2, <1>6, <1>9, <2>5, <2>6, <2>8, SendingStreams
<1>. QED  BY <1>2, <1>8, <1>9

-----------------------------------------------------------------------------
(* The channel and the application. *)

(* A step that leaves all contexts alone and sends nothing. *)
LEMMA OtherStreams ==
  ASSUME StreamInv, IInv', NEW p \in Side, NEW a,
         ctx' = ctx, app' = [app EXCEPT ![p] = a],
         Transit(p)' \subseteq Transit(p),
         Transit(Peer(p))' \subseteq Transit(Peer(p)),
         WriterOK(a, ctx[p]), a.received = app[p].received
  PROVE  StreamInv'
<1>1. /\ StateOK(ctx[p]) /\ ArrivedOK(ctx[p], ctx[Peer(p)])
      /\ SentRight(ctx[p], ctx[Peer(p)], Transit(Peer(p)), Transit(p))
      /\ ReaderRight(p, ctx[p], app[p]) /\ ctx = [q \in Side |-> ctx[q]]
  BY StreamFacts
<1>2. ctx' = [ctx EXCEPT ![p] = ctx[p]]
  BY <1>1
<1>3. Transit(Peer(p)) \cup {} = Transit(Peer(p))
  OBVIOUS
<1>4. /\ SentRight(ctx[p], ctx[Peer(p)], Transit(Peer(p)) \cup {}, Transit(p))
      /\ Transit(Peer(p))' \subseteq Transit(Peer(p)) \cup {}
  BY <1>1, <1>3
<1>5. PacketsRight({}, ctx[Peer(p)])
  BY DEF PacketsRight
<1>6. ReaderRight(p, ctx[p], a)
  BY <1>1 DEF ReaderRight
<1>. QED  BY <1>1, <1>2, <1>4, <1>5, <1>6, PassStreams

(* The channel loses or sets aside a packet. *)
LEMMA LosingStreams ==
  ASSUME StreamInv, NEW p \in Side, Drop(p) \/ Store(p) \/ Discard(p)
  PROVE  StreamInv'
<1>1. IInv'
  BY LosingSteps DEF StreamInv
<1>2. /\ ChannelOK /\ WriterOK(app[p], ctx[p]) /\ app = [q \in Side |-> app[q]]
  BY StreamFacts
<1>3. /\ wire[p] # <<>> /\ wire' = [wire EXCEPT ![p] = Tail(@)]
      /\ copy' = copy \/ copy' = [copy EXCEPT ![p] = <<Head(wire[p])>>]
      /\ ctx' = ctx /\ app' = app
  BY DEF Drop, Store, Discard
<1>4. faults' \in Nat
  BY <1>1 DEF IInv, TypeOK
<1>5. \A q \in Side : Transit(q)' \subseteq Transit(q)
  BY <1>2, <1>3, <1>4, LoseProperty
<1>6. app' = [app EXCEPT ![p] = app[p]] /\ Peer(p) \in Side
  BY <1>2, <1>3, Peers
<1>. QED  BY <1>1, <1>2, <1>3, <1>5, <1>6, OtherStreams

(* What one mywrite() adds to the queue continues it. *)
LEMMA WrittenInOrder ==
  ASSUME NEW queue \in Seq(Seq(Byte)), NEW taken \in Nat, NEW written \in Nat,
         QueueOK(queue, taken, written), NEW n \in Nat \ {0}
  PROVE  QueueOK(Append(queue, [i \in 1 .. n |-> written + i]), taken, written + n)
<1> DEFINE new == [i \in 1 .. n |-> written + i]
           q == Append(queue, new)
<1>1. /\ DOMAIN new = 1 .. n /\ Len(new) = n /\ Len(new) > 0
      /\ \A k \in DOMAIN new : new[k] = written + k
  OBVIOUS
<1>2. new[Len(new)] = written + n
  BY <1>1
<1> HIDE DEF new
<1>3. /\ DOMAIN queue = 1 .. Len(queue) /\ Len(queue) \in Nat
      /\ DOMAIN q = 1 .. (Len(queue) + 1) /\ Len(q) = Len(queue) + 1
      /\ q[Len(queue) + 1] = new
      /\ \A i \in DOMAIN queue : q[i] = queue[i]
  OBVIOUS
<1> HIDE DEF q
<1>4. \A i \in 0 .. Len(queue) : LastByte(q, taken, i) = LastByte(queue, taken, i)
  <2> TAKE i \in 0 .. Len(queue)
  <2>1. CASE i = 0
    BY <2>1 DEF LastByte
  <2>2. CASE i # 0
    <3>1. i \in DOMAIN queue
      BY <1>3, <2>2
    <3>. QED  BY <1>3, <3>1 DEF LastByte
  <2>. QED  BY <2>1, <2>2
<1>5. LastByte(queue, taken, Len(queue)) = written /\ taken <= written
  BY DEF QueueOK
<1>6. LastByte(q, taken, Len(queue) + 1) = written + n
  BY <1>2, <1>3 DEF LastByte
<1>7. ASSUME NEW i \in DOMAIN queue
      PROVE  /\ Len(queue[i]) > 0
             /\ LastByte(queue, taken, i) <= written + n
             /\ \A k \in DOMAIN queue[i] :
                  queue[i][k] = LastByte(queue, taken, i - 1) + k
  <2>1. /\ Len(queue[i]) > 0 /\ LastByte(queue, taken, i) <= written
        /\ \A k \in DOMAIN queue[i] :
             queue[i][k] = LastByte(queue, taken, i - 1) + k
    BY DEF QueueOK
  <2>2. queue[i] \in Seq(Byte) /\ i # 0
    BY <1>3
  <2>3. queue[i][Len(queue[i])] \in Byte
    BY <2>1, <2>2
  <2>4. LastByte(queue, taken, i) \in Nat
    BY <2>2, <2>3 DEF LastByte, Byte
  <2>. QED  BY <2>1, <2>4
<1>8. ASSUME NEW i \in DOMAIN q
      PROVE  /\ Len(q[i]) > 0
             /\ LastByte(q, taken, i) <= written + n
             /\ \A k \in DOMAIN q[i] : q[i][k] = LastByte(q, taken, i - 1) + k
  <2>1. CASE i \in DOMAIN queue
    <3>1. i \in 0 .. Len(queue) /\ i - 1 \in 0 .. Len(queue) /\ q[i] = queue[i]
      BY <1>3, <2>1
    <3>. QED  BY <1>4, <1>7, <2>1, <3>1
  <2>2. CASE i \notin DOMAIN queue
    <3>1. i = Len(queue) + 1 /\ q[i] = new /\ i - 1 = Len(queue)
          /\ Len(queue) \in 0 .. Len(queue)
      BY <1>3, <2>2
    <3>2. LastByte(q, taken, i - 1) = written
      BY <1>4, <1>5, <3>1
    <3>. QED  BY <1>1, <1>6, <3>1, <3>2
  <2>. QED  BY <2>1, <2>2
<1>9. QueueOK(q, taken, written + n)
  BY <1>3, <1>5, <1>6, <1>8 DEF QueueOK
<1>. QED  BY <1>9 DEF q, new

(* mywrite() and myclose(). *)
LEMMA ApplicationStreams ==
  ASSUME StreamInv, NEW p \in Side, Write(p) \/ Close(p)
  PROVE  StreamInv'
<1>1. IInv'
  BY ApplicationSteps DEF StreamInv
<1>2. /\ WriterOK(app[p], ctx[p]) /\ AppOK(app[p]) /\ app = [q \in Side |-> app[q]]
  BY StreamFacts
<1>3. /\ SynchronizedState(ctx[p]) /\ ~ app[p].closed
      /\ ctx' = ctx /\ wire' = wire /\ copy' = copy
  BY DEF Write, Close, Unblocked, SynchronizedState
<1>4. /\ Transit(p)' \subseteq Transit(p)
      /\ Transit(Peer(p))' \subseteq Transit(Peer(p))
  BY <1>3 DEF Transit
<1>5. ~ app[p].close_requested /\ ~ ctx[p].is_FIN_SENT
      /\ Taken(ctx[p]) \in Nat
      /\ QueueOK(app[p].app_recv_queue, Taken(ctx[p]), app[p].written)
  BY <1>2, <1>3 DEF WriterOK
<1>6. CASE Write(p)
  <2>1. PICK n \in 1 .. MaxWrite :
          app' = [app EXCEPT ![p].written = @ + n,
                             ![p].app_recv_queue =
                    Append(@, [i \in 1 .. n |-> app[p].written + i])]
    BY <1>6 DEF Write
  <2>2. n \in Nat \ {0}
    BY <2>1, STCPAssumption
  <2> DEFINE queue == Append(app[p].app_recv_queue,
                             [i \in 1 .. n |-> app[p].written + i])
             a == [app[p] EXCEPT !.written = @ + n, !.app_recv_queue = queue]
  <2>3. app' = [app EXCEPT ![p] = a]
    BY <1>2, <2>1
  <2>4. QueueOK(queue, Taken(ctx[p]), app[p].written + n)
    BY <1>2, <1>5, <2>2, WrittenInOrder DEF AppOK
  <2> HIDE DEF queue
  <2>5. /\ a.app_recv_queue = queue /\ a.written = app[p].written + n
        /\ a.close_requested = app[p].close_requested
        /\ a.received = app[p].received /\ a.closed = app[p].closed
    BY <1>2 DEF AppOK
  <2> HIDE DEF a
  <2>6. WriterOK(a, ctx[p])
    BY <1>3, <1>5, <2>4, <2>5 DEF WriterOK
  <2>. QED  BY <1>1, <1>3, <1>4, <2>3, <2>5, <2>6, OtherStreams
<1>7. CASE Close(p)
  <2> DEFINE a == [app[p] EXCEPT !.closed = TRUE, !.close_requested = TRUE]
  <2>1. app' = [app EXCEPT ![p] = a]
    BY <1>2, <1>7 DEF Close
  <2>2. /\ a.app_recv_queue = app[p].app_recv_queue /\ a.written = app[p].written
        /\ a.closed = TRUE /\ a.close_requested = TRUE
        /\ a.received = app[p].received
    BY <1>2 DEF AppOK
  <2> HIDE DEF a
  <2>3. WriterOK(a, ctx[p])
    BY <1>3, <1>5, <2>2 DEF WriterOK
  <2>. QED  BY <1>1, <1>3, <1>4, <2>1, <2>2, <2>3, OtherStreams
<1>. QED  BY <1>6, <1>7

-----------------------------------------------------------------------------
(* The handshakes. *)

(* A place no later than the first sequence number after a SYN cuts no     *)
(* node.                                                                   *)
LEMMA StartIsBoundary ==
  ASSUME NEW d, ContextOK(d), TilesOK(d), SynchronizedState(d),
         NEW x \in Nat, x <= 2
  PROVE  Boundary(d, x)
<1>1. d.send_base \in Nat /\ ISN < d.send_base
  BY ContextFields DEF TilesOK
<1>. QED  BY <1>1 DEF Boundary, ISN

(* An end whose handshake has not succeeded sends again, or gives up. *)
LEMMA OpeningStreams ==
  ASSUME StreamInv, IInv', NEW p \in Side, NEW cc, NEW Sent,
         ctx[p].connection_state \in Opening,
         cc.connection_state \in Opening \cup {"REFUSED"},
         cc.connection_state \in Opening => cc.errno = ctx[p].errno,
         cc.is_FIN_SENT = ctx[p].is_FIN_SENT,
         cc.is_FIN_RECEIVED = ctx[p].is_FIN_RECEIVED,
         cc.is_APP_CLOSE_QUEUED = ctx[p].is_APP_CLOSE_QUEUED,
         cc.send_buffer = ctx[p].send_buffer,
         cc.receive_buffer = ctx[p].receive_buffer,
         cc.receive_next \in Nat, cc.receive_next <= 2,
         cc.next_seq_num \in Nat, cc.next_seq_num <= 2,
         ctx' = [ctx EXCEPT ![p] = cc], app' = app,
         Transit(p)' \subseteq Transit(p),
         Transit(Peer(p))' \subseteq Transit(Peer(p)) \cup Sent,
         \A m \in Sent : m \in Segment /\ ~ CarriesData(m)
                         /\ "SYN" \in m.flags /\ m.ack <= 2
  PROVE  StreamInv'
<1> DEFINE c == ctx[p]
           d == ctx[Peer(p)]
           out == Transit(Peer(p))
           back == Transit(p)
<1>1. /\ ContextOK(c) /\ ContextOK(d) /\ StateOK(c) /\ TilesOK(d)
      /\ SentRight(c, d, out, back) /\ ArrivedOK(c, d)
      /\ WriterOK(app[p], c) /\ app = [q \in Side |-> app[q]]
  BY StreamFacts
<1>2. ~ SynchronizedState(c) /\ ~ SynchronizedState(cc)
  BY DEF SynchronizedState, Opening, Connected
<1>3. StateOK(cc)
  BY <1>1 DEF StateOK, Opening, Connected, ISN
<1>4. ~ FinNumbered(c) /\ ~ FinNumbered(cc)
  BY <1>1 DEF StateOK, FinNumbered
<1>5. SentRight(cc, d, out \cup Sent, back)
  <2>1. TilesOK(cc)
    BY <1>2 DEF TilesOK
  <2>2. ArrivedOK(d, cc)
    BY <1>1, <1>2, <1>4 DEF SentRight, ArrivedOK, ContentOf
  <2>3. \A m \in out \cup Sent : CarriedOK(m, cc)
    BY <1>1, <1>2 DEF SentRight, CarriedOK
  <2>4. \A m \in back : AckOK(m, cc)
    BY <1>2 DEF AckOK
  <2>. QED  BY <2>1, <2>2, <2>3, <2>4 DEF SentRight
<1>6. ArrivedOK(cc, d)
  <2>1. SynchronizedState(d) => Boundary(d, cc.receive_next)
    BY <1>1, StartIsBoundary
  <2>. QED  BY <1>1, <1>2, <2>1 DEF ArrivedOK
<1>7. WriterOK(app[p], cc) /\ ReaderRight(p, cc, app[p])
  BY <1>1, <1>2 DEF WriterOK, ReaderRight
<1>8. PacketsRight(Sent, d)
  <2> SUFFICES ASSUME NEW m \in Sent
               PROVE  AckOK(m, d) /\ "SYN" \in m.flags
    BY DEF PacketsRight
  <2>1. m.ack \in Nat /\ m.ack <= 2
    BY DEF Segment
  <2>. QED  BY <1>1, <2>1, StartIsBoundary DEF AckOK
<1>9. app' = [app EXCEPT ![p] = app[p]]
  BY <1>1
<1>. QED  BY <1>2, <1>3, <1>5, <1>6, <1>7, <1>8, <1>9, PassStreams

(* An end whose handshake succeeds starts both its streams. *)
LEMMA OpenedStreams ==
  ASSUME StreamInv, IInv', NEW p \in Side, NEW cc, NEW a, NEW Sent,
         ctx[p].connection_state \in Opening, ctx[p].next_seq_num = 2,
         cc.connection_state = "ESTABLISHED", cc.errno = ctx[p].errno,
         cc.send_base = 2, cc.next_seq_num = 2,
         cc.is_FIN_SENT = ctx[p].is_FIN_SENT,
         cc.is_FIN_RECEIVED = ctx[p].is_FIN_RECEIVED,
         cc.is_APP_CLOSE_QUEUED = ctx[p].is_APP_CLOSE_QUEUED,
         cc.send_buffer = ctx[p].send_buffer,
         cc.receive_buffer = ctx[p].receive_buffer,
         ISN < cc.receive_next,
         SynchronizedState(ctx[Peer(p)]) =>
           Boundary(ctx[Peer(p)], cc.receive_next),
         ~ (FinNumbered(ctx[Peer(p)])
              /\ cc.receive_next = ctx[Peer(p)].next_seq_num),
         a.app_recv_queue = app[p].app_recv_queue, a.written = app[p].written,
         a.close_requested = app[p].close_requested, a.closed = app[p].closed,
         ReaderRight(p, cc, a),
         ctx' = [ctx EXCEPT ![p] = cc], app' = [app EXCEPT ![p] = a],
         Transit(p)' \subseteq Transit(p),
         Transit(Peer(p))' \subseteq Transit(Peer(p)) \cup Sent,
         \A m \in Sent : ~ CarriesData(m) /\ m.seq = 2,
         PacketsRight(Sent, ctx[Peer(p)])
  PROVE  StreamInv'
<1> DEFINE c == ctx[p]
           d == ctx[Peer(p)]
           out == Transit(Peer(p))
           back == Transit(p)
<1>1. /\ ContextOK(c) /\ ContextOK(d) /\ StateOK(c) /\ TilesOK(d)
      /\ SentRight(c, d, out, back) /\ ArrivedOK(c, d)
      /\ WriterOK(app[p], c) /\ EndpointOK(d, c)
      /\ out \subseteq Segment /\ back \subseteq Segment
      /\ \A m \in back : SentOK(m, d)
  BY StreamFacts
<1>2. /\ c.connection_state \in Opening /\ ~ SynchronizedState(c)
      /\ SynchronizedState(cc)
  BY DEF SynchronizedState, Opening, Connected
<1>3. c.next_seq_num = 2 /\ d.receive_next \in Nat /\ d.receive_next <= 2
  BY <1>1, ContextFields DEF EndpointOK, ReceiverOK
<1>4. /\ ~ c.is_FIN_SENT /\ ~ c.is_FIN_RECEIVED /\ ~ c.is_APP_CLOSE_QUEUED
      /\ c.send_buffer = <<>> /\ c.receive_buffer = EmptyBuffer
      /\ c.errno = "none"
  BY <1>1, <1>2 DEF StateOK
<1>5. ~ FinNumbered(c) /\ ~ FinNumbered(cc)
  BY <1>4 DEF FinNumbered
<1>6. StateOK(cc)
  BY <1>4 DEF StateOK, Opening, Connected
<1>7. TilesOK(cc)
  BY <1>4 DEF TilesOK, ISN
<1>8. \A x \in Nat : x <= 2 => Boundary(cc, x)
  BY DEF Boundary
<1>9. SentRight(cc, d, out \cup Sent, back)
  <2>1. ArrivedOK(d, cc)
    BY <1>1, <1>3, <1>4, <1>5, <1>8 DEF SentRight, ArrivedOK, ContentOf
  <2>2. ASSUME NEW m \in out PROVE CarriedOK(m, cc)
    <3>1. ~ CarriesData(m)
      BY <1>1, <1>2 DEF SentRight, CarriedOK
    <3>2. m \in Segment /\ SentOK(m, c)
      <4>1. Peer(p) \in Side /\ Peer(Peer(p)) = p
        BY Peers
      <4>. QED  BY <4>1, StreamFacts
    <3>3. /\ m.seq \in Nat /\ Len(m.data) \in Nat /\ SegmentEnd(m) \in Nat
          /\ m.seq + Len(m.data) <= SegmentEnd(m)
      BY <3>2, SegmentEndType DEF Segment
    <3>4. m.seq <= 2
      BY <1>3, <3>2, <3>3 DEF SentOK
    <3>. QED  BY <1>8, <3>1, <3>3, <3>4 DEF CarriedOK
  <2>3. \A m \in Sent : CarriedOK(m, cc)
    BY <1>8 DEF CarriedOK
  <2>4. ASSUME NEW m \in back PROVE AckOK(m, cc)
    <3>1. m.ack \in Nat /\ m.ack <= 2
      BY <1>1, <1>3 DEF SentOK, Segment
    <3>. QED  BY <1>8, <3>1 DEF AckOK
  <2>. QED  BY <1>7, <2>1, <2>2, <2>3, <2>4 DEF SentRight
<1>10. ArrivedOK(cc, d)
  BY <1>4 DEF ArrivedOK, EmptyBuffer
<1>11. WriterOK(a, cc)
  <2>1. /\ a.app_recv_queue = <<>> /\ a.written = 0
        /\ ~ a.closed /\ ~ a.close_requested
    BY <1>1, <1>2 DEF WriterOK
  <2>2. Taken(cc) = 0
    BY <1>5 DEF Taken, ISN
  <2>3. QueueOK(<<>>, 0, 0)
    BY DEF QueueOK, LastByte
  <2>. QED  BY <1>2, <1>4, <2>1, <2>2, <2>3 DEF WriterOK
<1>. QED  BY <1>2, <1>6, <1>9, <1>10, <1>11, PassStreams

(* What a SYN and a SYNACK carry. *)
LEMMA SynCarriesNothing ==
  ASSUME NEW c, c.receive_next \in Nat
  PROVE  /\ ~ CarriesData(Syn) /\ ~ CarriesData(SynAck(c))
         /\ "SYN" \in Syn.flags /\ "SYN" \in SynAck(c).flags
<1>. QED  BY DEF CarriesData, IsFin, Syn, SynAck, Header

(* Connect sends the first SYN. *)
LEMMA ConnectStreams ==
  ASSUME StreamInv, NEW p \in Side, Connect(p)
  PROVE  StreamInv'
<1> DEFINE c == ctx[p]
           o == [c EXCEPT !.connection_state = "SYN_SENT"]
           cc == SynPass(o)
           Sent == {Syn}
<1>1. IInv' /\ IInv
  BY ConnectStep DEF StreamInv
<1>2. /\ c.connection_state = "IDLE" /\ c.connection_state \in Opening
      /\ ctx' = [ctx EXCEPT ![p] = cc] /\ Send(p, <<Syn>>)
      /\ app' = app /\ UNCHANGED <<copy, faults>>
  BY DEF Connect, Opening
<1>3. /\ ContextOK(c) /\ c.receive_next = 0 /\ c.next_seq_num = 1
      /\ c.retransmission_count = 0 /\ ChannelOK
  <2>1. /\ ContextOK(c) /\ c.receive_next = 0 /\ c.next_seq_num = 1
        /\ c.retransmission_count = 0
    BY <1>1, <1>2, OpeningFacts
  <2>. QED  BY <2>1, StreamFacts
<1>4. /\ cc.connection_state = "SYN_SENT" /\ cc.errno = c.errno
      /\ cc.is_FIN_SENT = c.is_FIN_SENT
      /\ cc.is_FIN_RECEIVED = c.is_FIN_RECEIVED
      /\ cc.is_APP_CLOSE_QUEUED = c.is_APP_CLOSE_QUEUED
      /\ cc.send_buffer = c.send_buffer
      /\ cc.receive_buffer = c.receive_buffer /\ cc.receive_next = 0
      /\ cc.next_seq_num = 2
  BY <1>3 DEF ContextOK, SynPass
<1> HIDE DEF cc
<1>5. <<Syn>> \in Seq(Segment) /\ Elements(<<Syn>>) = Sent
  BY SynType, ElementsSingleton
<1>6. /\ Transit(p)' \subseteq Transit(p)
      /\ Transit(Peer(p))' \subseteq Transit(Peer(p)) \cup Sent
  BY <1>2, <1>3, <1>5, SendProperty
<1>7. \A m \in Sent : m \in Segment /\ ~ CarriesData(m)
                      /\ "SYN" \in m.flags /\ m.ack <= 2
  BY <1>3, SynType, SynCarriesNothing
<1> HIDE DEF Sent
<1>8. /\ cc.connection_state \in Opening
      /\ cc.receive_next \in Nat /\ cc.receive_next <= 2
      /\ cc.next_seq_num \in Nat /\ cc.next_seq_num <= 2
  BY <1>4 DEF Opening
<1>. QED  BY <1>1, <1>2, <1>4, <1>6, <1>7, <1>8, OpeningStreams

(* A SYN opens the passive end; anything else leaves it listening. *)
LEMMA ReceiveListenStreams ==
  ASSUME StreamInv, NEW p \in Side, ReceiveListen(p)
  PROVE  StreamInv'
<1> DEFINE c == ctx[p]
<1>1. IInv' /\ IInv
  BY ReceiveListenStep DEF StreamInv
<1>2. /\ c.connection_state = "LISTEN" /\ c.connection_state \in Opening
      /\ app' = app
  BY DEF ReceiveListen, Opening
<1>3. /\ ContextOK(c) /\ c.receive_next = 0
      /\ c.next_seq_num = 1 /\ c.send_base = 1
  BY <1>1, <1>2, OpeningFacts
<1>4. PICK s \in Arriving(p) :
        LET cc == IF "SYN" \in s.flags THEN AcceptSyn(c, s) ELSE c
        IN /\ Exchange(p, s, IF "SYN" \in s.flags THEN <<SynAck(cc)>> ELSE <<>>)
           /\ ctx' = [ctx EXCEPT ![p] = cc]
  BY DEF ReceiveListen
<1>5. CASE "SYN" \notin s.flags
  <2> DEFINE Sent == {}
  <2>1. Exchange(p, s, <<>>) /\ ctx' = [ctx EXCEPT ![p] = c]
    BY <1>4, <1>5
  <2>2. /\ Transit(p)' \subseteq Transit(p)
        /\ Transit(Peer(p))' \subseteq Transit(Peer(p)) \cup Sent
    BY <1>1, <2>1, ExchangeNone
  <2>3. \A m \in Sent : m \in Segment /\ ~ CarriesData(m)
                        /\ "SYN" \in m.flags /\ m.ack <= 2
    OBVIOUS
  <2> HIDE DEF Sent
  <2>4. /\ c.receive_next \in Nat /\ c.receive_next <= 2
        /\ c.next_seq_num \in Nat /\ c.next_seq_num <= 2
    BY <1>3
  <2>. QED  BY <1>1, <1>2, <2>1, <2>2, <2>3, <2>4, OpeningStreams
<1>6. CASE "SYN" \in s.flags
  <2> DEFINE cc == AcceptSyn(c, s)
             m == SynAck(cc)
             Sent == {m}
  <2>1. Exchange(p, s, <<m>>) /\ ctx' = [ctx EXCEPT ![p] = cc]
    BY <1>4, <1>6
  <2>2. s.seq = 1
    BY <1>1, <1>6, ArrivingTransit DEF SentOK, ISN
  <2>3. /\ cc.connection_state = "SYN_RCVD" /\ cc.errno = c.errno
        /\ cc.is_FIN_SENT = c.is_FIN_SENT
        /\ cc.is_FIN_RECEIVED = c.is_FIN_RECEIVED
        /\ cc.is_APP_CLOSE_QUEUED = c.is_APP_CLOSE_QUEUED
        /\ cc.send_buffer = c.send_buffer
        /\ cc.receive_buffer = c.receive_buffer /\ cc.receive_next = 2
        /\ cc.next_seq_num = 2
    BY <1>3, <2>2 DEF ContextOK, AcceptSyn
  <2> HIDE DEF cc
  <2>4. m \in Segment /\ m.ack = 2 /\ ~ CarriesData(m) /\ "SYN" \in m.flags
    BY <2>3, SynAckType, SynCarriesNothing
  <2> HIDE DEF m
  <2>5. /\ Transit(p)' \subseteq Transit(p)
        /\ Transit(Peer(p))' \subseteq Transit(Peer(p)) \cup Sent
    BY <1>1, <2>1, <2>4, ExchangeOne
  <2>6. \A x \in Sent : x \in Segment /\ ~ CarriesData(x)
                        /\ "SYN" \in x.flags /\ x.ack <= 2
    BY <2>4
  <2> HIDE DEF Sent
  <2>7. /\ cc.connection_state \in Opening
        /\ cc.receive_next \in Nat /\ cc.receive_next <= 2
        /\ cc.next_seq_num \in Nat /\ cc.next_seq_num <= 2
    BY <2>3 DEF Opening
  <2>. QED  BY <1>1, <1>2, <2>1, <2>3, <2>5, <2>6, <2>7, OpeningStreams
<1>. QED  BY <1>5, <1>6

(* The SYN or the SYNACK goes out again, or the handshake is given up. *)
LEMMA HandshakeTimeoutStreams ==
  ASSUME StreamInv, NEW p \in Side, HandshakeTimeout(p)
  PROVE  StreamInv'
<1> DEFINE c == ctx[p]
           counted == [c EXCEPT !.retransmission_count = @ + 1]
           failed == Fail(counted, "REFUSED", "ECONNREFUSED")
           m == HandshakePacket(counted)
<1>1. IInv' /\ IInv
  BY HandshakeTimeoutStep DEF StreamInv
<1>2. /\ c.connection_state \in Opening
      /\ app' = app /\ UNCHANGED <<copy, faults>>
      /\ \/ ctx' = [ctx EXCEPT ![p] = counted] /\ Send(p, <<m>>)
         \/ ctx' = [ctx EXCEPT ![p] = failed] /\ wire' = wire
  BY DEF HandshakeTimeout, Opening
<1>3. /\ ContextOK(c) /\ c.receive_next \in Nat /\ c.receive_next <= 2
      /\ c.next_seq_num \in Nat /\ c.next_seq_num <= 2
      /\ ChannelOK
  <2>1. /\ ContextOK(c) /\ c.receive_next \in Nat /\ c.receive_next <= 2
        /\ c.next_seq_num \in Nat /\ c.next_seq_num <= 2
    BY <1>1, <1>2, OpeningFacts
  <2>. QED  BY <2>1, StreamFacts
<1>4. /\ counted.connection_state = c.connection_state
      /\ counted.errno = c.errno
      /\ counted.is_FIN_SENT = c.is_FIN_SENT
      /\ counted.is_FIN_RECEIVED = c.is_FIN_RECEIVED
      /\ counted.is_APP_CLOSE_QUEUED = c.is_APP_CLOSE_QUEUED
      /\ counted.send_buffer = c.send_buffer
      /\ counted.receive_buffer = c.receive_buffer
      /\ counted.receive_next = c.receive_next
      /\ counted.next_seq_num = c.next_seq_num
      /\ ContextOK(counted)
  BY <1>3, CountedContext DEF ContextOK
<1> HIDE DEF counted
<1>5. /\ failed.connection_state = "REFUSED"
      /\ failed.is_FIN_SENT = c.is_FIN_SENT
      /\ failed.is_FIN_RECEIVED = c.is_FIN_RECEIVED
      /\ failed.is_APP_CLOSE_QUEUED = c.is_APP_CLOSE_QUEUED
      /\ failed.send_buffer = c.send_buffer
      /\ failed.receive_buffer = c.receive_buffer
      /\ failed.receive_next = c.receive_next
      /\ failed.next_seq_num = c.next_seq_num
  BY <1>4 DEF ContextOK, Fail
<1> HIDE DEF failed
<1>6. CASE ctx' = [ctx EXCEPT ![p] = failed] /\ wire' = wire
  <2> DEFINE Sent == {}
  <2>1. /\ Transit(p)' \subseteq Transit(p)
        /\ Transit(Peer(p))' \subseteq Transit(Peer(p)) \cup Sent
    BY <1>2, <1>6 DEF Transit
  <2>2. \A x \in Sent : x \in Segment /\ ~ CarriesData(x)
                        /\ "SYN" \in x.flags /\ x.ack <= 2
    OBVIOUS
  <2> HIDE DEF Sent
  <2>3. failed.connection_state \in {"REFUSED"} /\ failed.connection_state \notin Opening
    BY <1>5 DEF Opening
  <2>. QED  BY <1>1, <1>2, <1>3, <1>5, <1>6, <2>1, <2>2, <2>3, OpeningStreams
<1>7. CASE ctx' = [ctx EXCEPT ![p] = counted] /\ Send(p, <<m>>)
  <2> DEFINE Sent == {m}
  <2>1. m \in Segment /\ ~ CarriesData(m) /\ "SYN" \in m.flags /\ m.ack <= 2
    BY <1>3, <1>4, SynType, SynAckType, SynCarriesNothing DEF HandshakePacket
  <2> HIDE DEF m
  <2>2. <<m>> \in Seq(Segment) /\ Elements(<<m>>) = Sent
    BY <2>1, ElementsSingleton
  <2>3. /\ Transit(p)' \subseteq Transit(p)
        /\ Transit(Peer(p))' \subseteq Transit(Peer(p)) \cup Sent
    BY <1>2, <1>3, <1>7, <2>2, SendProperty
  <2>4. \A x \in Sent : x \in Segment /\ ~ CarriesData(x)
                        /\ "SYN" \in x.flags /\ x.ack <= 2
    BY <2>1
  <2> HIDE DEF Sent
  <2>. QED  BY <1>1, <1>2, <1>3, <1>4, <1>7, <2>3, <2>4, OpeningStreams
<1>. QED  BY <1>2, <1>6, <1>7

(* The SYNACK opens the active end: its ACK is the first thing it sends    *)
(* after its SYN.                                                          *)
LEMMA ReceiveSynSentStreams ==
  ASSUME StreamInv, NEW p \in Side, ReceiveSynSent(p)
  PROVE  StreamInv'
<1> DEFINE c == ctx[p]
           d == ctx[Peer(p)]
           a == app[p]
<1>1. IInv' /\ IInv
  BY ReceiveSynSentStep DEF StreamInv
<1>2. /\ c.connection_state = "SYN_SENT" /\ c.connection_state \in Opening
      /\ app' = app
  BY DEF ReceiveSynSent, Opening
<1>3. p = "active" /\ ContextOK(c) /\ c.send_base = 1 /\ c.next_seq_num = 2
  BY <1>1, <1>2, OpeningFacts
<1>4. /\ ContextOK(d) /\ StateOK(d) /\ TilesOK(d) /\ WriterOK(app[p], c)
      /\ WriterOK(app[Peer(p)], d) /\ StateOK(c)
      /\ app = [q \in Side |-> app[q]] /\ AppOK(app[p])
  <2>1. Peer(p) \in Side
    BY Peers
  <2>. QED  BY <2>1, StreamFacts
<1>5. PICK s \in Arriving(p) :
        LET synack == IsSynAck(c, s)
            cc == IF synack THEN AcceptSynAck(c, s) ELSE SynPass(c)
        IN /\ Exchange(p, s, IF synack THEN <<Ack(cc)>> ELSE <<Syn>>)
           /\ ctx' = [ctx EXCEPT ![p] = cc]
  BY DEF ReceiveSynSent
<1>6. s \in Transit(p) /\ SentOK(s, d)
  BY <1>1, ArrivingTransit
<1>7. {"SYN", "ACK"} \subseteq s.flags /\ s.ack = 2
  BY <1>1, <1>2, <1>3, <1>6 DEF IInv, HandshakeOK, ISN
<1>8. IsSynAck(c, s) /\ s.seq = 1
  BY <1>3, <1>6, <1>7 DEF IsSynAck, SentOK, ISN
<1> DEFINE cc == AcceptSynAck(c, s)
           m == Ack(cc)
           Sent == {m}
<1>9. Exchange(p, s, <<m>>) /\ ctx' = [ctx EXCEPT ![p] = cc]
  BY <1>5, <1>8
<1>10. /\ cc.connection_state = "ESTABLISHED" /\ cc.errno = c.errno
       /\ cc.send_base = 2 /\ cc.next_seq_num = 2 /\ cc.receive_next = 2
       /\ cc.is_FIN_SENT = c.is_FIN_SENT
       /\ cc.is_FIN_RECEIVED = c.is_FIN_RECEIVED
       /\ cc.is_APP_CLOSE_QUEUED = c.is_APP_CLOSE_QUEUED
       /\ cc.send_buffer = c.send_buffer
       /\ cc.receive_buffer = c.receive_buffer
  BY <1>3, <1>7, <1>8 DEF ContextOK, AcceptSynAck, Established
<1> HIDE DEF cc
<1>11. /\ m \in Segment /\ m.seq = 2 /\ m.ack = 2 /\ ~ CarriesData(m)
  BY <1>10 DEF Ack, Header, CarriesData, IsFin, Segment, Flag
<1> HIDE DEF m
<1>12. /\ Transit(p)' \subseteq Transit(p)
       /\ Transit(Peer(p))' \subseteq Transit(Peer(p)) \cup Sent
  BY <1>1, <1>9, <1>11, ExchangeOne
<1>13. \A x \in Sent : ~ CarriesData(x) /\ x.seq = 2
  BY <1>11
<1>14. SynchronizedState(d) => Boundary(d, cc.receive_next)
  BY <1>4, <1>10, StartIsBoundary
<1>15. PacketsRight(Sent, d)
  BY <1>10, <1>11, <1>14 DEF PacketsRight, AckOK, ISN
<1> HIDE DEF Sent
<1>16. ~ (FinNumbered(d) /\ cc.receive_next = d.next_seq_num)
  <2> SUFFICES ASSUME FinNumbered(d) PROVE d.next_seq_num # 2
    BY <1>10
  <2>1. SynchronizedState(d)
    <3>1. d.connection_state \notin Opening \cup {"REFUSED"}
      BY <1>4 DEF StateOK, FinNumbered
    <3>. QED  BY <1>4, <3>1, ContextFields DEF SynchronizedState, State
  <2>2. Taken(d) \in Nat /\ d.next_seq_num \in Nat
    BY <1>4, <2>1, ContextFields DEF WriterOK
  <2>. QED  BY <2>2 DEF Taken, ISN
<1>17. ReaderRight(p, cc, a)
  <2>1. a.received = <<>>
    BY <1>2, <1>4 DEF WriterOK, SynchronizedState, Connected
  <2>2. ~ cc.is_FIN_RECEIVED
    BY <1>2, <1>4, <1>10 DEF StateOK
  <2>3. Passed(cc) = 0
    BY <1>10, <2>2 DEF Passed, ISN
  <2>. QED  BY <2>1, <2>3 DEF ReaderRight
<1>18. app' = [app EXCEPT ![p] = a]
  BY <1>2, <1>4
<1>19. /\ ISN < cc.receive_next
       /\ c.connection_state \in Opening /\ c.next_seq_num = 2
  BY <1>2, <1>3, <1>10 DEF ISN
<1>20. /\ a.app_recv_queue = app[p].app_recv_queue /\ a.written = app[p].written
       /\ a.close_requested = app[p].close_requested /\ a.closed = app[p].closed
  OBVIOUS
<1> HIDE DEF a
<1>. QED  BY <1>1, <1>9, <1>10, <1>12, <1>13, <1>14, <1>15, <1>16, <1>17,
             <1>18, <1>19, <1>20, OpenedStreams

(* The end of a stream is past its first sequence number. *)
LEMMA FinIsNotFirst ==
  ASSUME NEW d, ContextOK(d), StateOK(d), NEW a, WriterOK(a, d), FinNumbered(d)
  PROVE  SynchronizedState(d) /\ d.next_seq_num \in Nat /\ d.next_seq_num > 2
<1>1. SynchronizedState(d)
  <2>1. d.connection_state \notin Opening \cup {"REFUSED"}
    BY DEF StateOK, FinNumbered
  <2>. QED  BY <2>1, ContextFields DEF SynchronizedState, State
<1>2. Taken(d) \in Nat /\ d.next_seq_num \in Nat
  BY <1>1, ContextFields DEF WriterOK
<1>. QED  BY <1>1, <1>2 DEF Taken, ISN

(* The segment that completes the passive handshake: its payload ends      *)
(* where no node is cut, and is the start of the stream if it is at the    *)
(* first sequence number after the SYN.                                    *)
LEMMA FirstSegment ==
  ASSUME NEW d, ContextOK(d), StateOK(d), TilesOK(d), NEW a, WriterOK(a, d),
         NEW s \in Segment, CarriedOK(s, d), ISN < s.seq,
         SynchronizedState(d) => d.send_base <= 2,
         CarriesData(s) \/ s.seq = 2
  PROVE  LET x == s.seq + Len(s.data) IN
         /\ SynchronizedState(d) => Boundary(d, x)
         /\ ~ (FinNumbered(d) /\ x = d.next_seq_num)
         /\ s.seq = 2 => \A k \in DOMAIN s.data : s.data[k] = k
<1> DEFINE x == s.seq + Len(s.data)
<1>1. /\ s.seq \in Nat /\ s.data \in Seq(Byte) /\ Len(s.data) \in Nat
      /\ DOMAIN s.data = 1 .. Len(s.data)
  BY DEF Segment
<1>2. CASE CarriesData(s)
  <2>1. SynchronizedState(d) /\ Boundary(d, s.seq)
    BY <1>2 DEF CarriedOK
  <2>2. SegmentEnd(s) \in Nat /\ s.seq < SegmentEnd(s)
    BY <1>1, <1>2, SegmentEndType DEF CarriesData, SegmentEnd, EndOf
  <2>3. PICK i \in DOMAIN d.send_buffer :
          /\ s.seq = d.send_buffer[i].seq /\ s.data = d.send_buffer[i].data
          /\ IsFin(s) = d.send_buffer[i].fin
    <3>1. d.send_base \in Nat
      BY ContextFields
    <3>2. ~ (SegmentEnd(s) <= d.send_base)
      BY <1>1, <2>1, <2>2, <3>1 DEF ISN
    <3>. QED  BY <1>2, <3>2 DEF CarriedOK
  <2> DEFINE n == d.send_buffer[i]
  <2>4. NodeOK(n, d) /\ n \in Node /\ NodeEnd(n) \in Nat /\ d.next_seq_num \in Nat
    BY <2>1, TileFacts
  <2>5. s.seq = 2 => \A k \in DOMAIN s.data : s.data[k] = k
    BY <1>1, <2>3, <2>4 DEF NodeOK, ISN
  <2>6. CASE n.fin
    <3>1. n.data = <<>> /\ n.seq < NodeEnd(n) /\ NodeEnd(n) <= d.next_seq_num
      BY <2>4, <2>6 DEF NodeOK
    <3>2. x = s.seq
      BY <1>1, <2>3, <3>1
    <3>. QED  BY <1>1, <2>1, <2>3, <2>4, <2>5, <3>1, <3>2
  <2>7. CASE ~ n.fin
    <3>1. x = NodeEnd(n)
      BY <1>1, <2>3, <2>7 DEF NodeEnd, EndOf
    <3>2. Boundary(d, x)
      BY <3>1 DEF Boundary
    <3>3. ~ (FinNumbered(d) /\ x = d.next_seq_num)
      BY <2>4, <2>7, <3>1 DEF NodeOK
    <3>. QED  BY <2>5, <3>2, <3>3
  <2>. QED  BY <2>6, <2>7
<1>3. CASE ~ CarriesData(s)
  <2>1. s.data = <<>> /\ s.seq = 2
    BY <1>1, <1>3 DEF CarriesData
  <2>2. x = 2
    BY <2>1
  <2>3. SynchronizedState(d) => Boundary(d, x)
    BY <2>2, StartIsBoundary
  <2>4. ~ (FinNumbered(d) /\ x = d.next_seq_num)
    BY <2>2, FinIsNotFirst
  <2>. QED  BY <2>1, <2>3, <2>4
<1>. QED  BY <1>2, <1>3

(* Any ACK of the SYNACK opens the passive end, which takes the payload    *)
(* for the start of the stream; without one, the SYNACK goes out again.    *)
LEMMA ReceiveSynRcvdStreams ==
  ASSUME StreamInv, NEW p \in Side, ReceiveSynRcvd(p)
  PROVE  StreamInv'
<1> DEFINE c == ctx[p]
           d == ctx[Peer(p)]
<1>1. IInv' /\ IInv /\ AnswersOK
  BY ReceiveSynRcvdStep DEF StreamInv
<1>2. c.connection_state = "SYN_RCVD" /\ c.connection_state \in Opening
  BY DEF ReceiveSynRcvd, Opening
<1>3. /\ p = "passive" /\ ContextOK(c) /\ c.send_base = 1
      /\ c.next_seq_num = 2 /\ c.receive_next = 2
  BY <1>1, <1>2, OpeningFacts
<1>4. PICK s \in Arriving(p) :
        IF CompletesHandshake(c, s)
        THEN /\ Exchange(p, s, <<>>)
             /\ ctx' = [ctx EXCEPT ![p] = AcceptAck(c, s)]
             /\ app' = [app EXCEPT ![p].received = @ \o s.data]
        ELSE /\ Exchange(p, s, <<SynAck(c)>>)
             /\ UNCHANGED <<ctx, app>>
  BY DEF ReceiveSynRcvd
<1>5. CASE ~ CompletesHandshake(c, s)
  <2> DEFINE m == SynAck(c)
             Sent == {m}
  <2>1. Exchange(p, s, <<m>>) /\ ctx' = ctx /\ app' = app
    BY <1>4, <1>5
  <2>2. ctx' = [ctx EXCEPT ![p] = c]
    BY <2>1, StreamFacts
  <2>3. m \in Segment /\ m.ack = 2 /\ ~ CarriesData(m) /\ "SYN" \in m.flags
    BY <1>3, SynAckType, SynCarriesNothing
  <2> HIDE DEF m
  <2>4. /\ Transit(p)' \subseteq Transit(p)
        /\ Transit(Peer(p))' \subseteq Transit(Peer(p)) \cup Sent
    BY <1>1, <2>1, <2>3, ExchangeOne
  <2>5. \A x \in Sent : x \in Segment /\ ~ CarriesData(x)
                        /\ "SYN" \in x.flags /\ x.ack <= 2
    BY <2>3
  <2> HIDE DEF Sent
  <2>6. /\ c.receive_next \in Nat /\ c.receive_next <= 2
        /\ c.next_seq_num \in Nat /\ c.next_seq_num <= 2
    BY <1>3
  <2>7. app' = app
    BY <2>1
  <2>. QED  BY <1>1, <1>2, <2>2, <2>4, <2>5, <2>6, <2>7, OpeningStreams
<1>6. CASE CompletesHandshake(c, s)
  <2> DEFINE cc == AcceptAck(c, s)
             a == [app[p] EXCEPT !.received = @ \o s.data]
             x == s.seq + Len(s.data)
             Sent == {}
  <2>1. /\ ContextOK(d) /\ StateOK(d) /\ TilesOK(d) /\ WriterOK(app[p], c)
        /\ WriterOK(app[Peer(p)], d) /\ StateOK(c) /\ EndpointOK(d, c)
        /\ app = [q \in Side |-> app[q]] /\ AppOK(app[p])
        /\ \A m \in Transit(p) : CarriedOK(m, d)
    <3>1. Peer(p) \in Side
      BY Peers
    <3>. QED  BY <3>1, StreamFacts
  <2>2. /\ Exchange(p, s, <<>>) /\ ctx' = [ctx EXCEPT ![p] = cc]
        /\ app' = [app EXCEPT ![p] = a]
    BY <1>4, <1>6, <2>1
  <2>3. s \in Transit(p) /\ s \in Segment /\ SentOK(s, d) /\ CarriedOK(s, d)
    BY <1>1, <2>1, ArrivingTransit
  <2>4. "ACK" \in s.flags /\ s.ack = 2
    BY <1>3, <1>6 DEF CompletesHandshake
  <2>5. "SYN" \notin s.flags
    BY <1>1, <1>3, <2>3, <2>4 DEF IInv, HandshakeOK
  <2>6. /\ s.seq \in Nat /\ s.data \in Seq(Byte) /\ Len(s.data) \in Nat
        /\ DOMAIN s.data = 1 .. Len(s.data) /\ ISN < s.seq /\ 1 < s.seq
    BY <2>3, <2>5 DEF Segment, SentOK, ISN
  <2>7. CarriesData(s) \/ s.seq = 2
    BY <1>1, <1>2, <1>3, <2>3, <2>5
       DEF AnswersOK, SynchronizedState, Connected, ISN
  <2>8. SynchronizedState(d) => d.send_base <= 2
    BY <1>3, <2>1 DEF EndpointOK, SenderOK
  <2>9. /\ SynchronizedState(d) => Boundary(d, x)
        /\ ~ (FinNumbered(d) /\ x = d.next_seq_num)
        /\ s.seq = 2 => \A k \in DOMAIN s.data : s.data[k] = k
    BY <2>1, <2>3, <2>6, <2>7, <2>8, FirstSegment
  <2>10. x \in Nat /\ ISN < x
    BY <2>6 DEF ISN
  <2> HIDE DEF x
  <2>11. /\ cc.connection_state = "ESTABLISHED" /\ cc.errno = c.errno
         /\ cc.send_base = 2 /\ cc.next_seq_num = 2 /\ cc.receive_next = x
         /\ cc.peer_initial_seq = s.seq
         /\ cc.is_FIN_SENT = c.is_FIN_SENT
         /\ cc.is_FIN_RECEIVED = c.is_FIN_RECEIVED
         /\ cc.is_APP_CLOSE_QUEUED = c.is_APP_CLOSE_QUEUED
         /\ cc.send_buffer = c.send_buffer
         /\ cc.receive_buffer = c.receive_buffer
    BY <1>3, <2>4 DEF ContextOK, AcceptAck, Established, x
  <2> HIDE DEF cc
  <2>12. /\ a.app_recv_queue = app[p].app_recv_queue /\ a.written = app[p].written
         /\ a.close_requested = app[p].close_requested /\ a.closed = app[p].closed
         /\ a.received = app[p].received \o s.data
    BY <2>1 DEF AppOK
  <2> HIDE DEF a
  <2>13. ReaderRight(p, cc, a)
    <3> SUFFICES ASSUME p = "active" \/ cc.peer_initial_seq = ISN + 1
                 PROVE  /\ Passed(cc) \in Nat
                        /\ a.received = [i \in 1 .. Passed(cc) |-> i]
      BY DEF ReaderRight
    <3>1. s.seq = 2 /\ \A k \in DOMAIN s.data : s.data[k] = k
      BY <1>3, <2>9, <2>11 DEF ISN
    <3>2. app[p].received = <<>>
      BY <1>2, <2>1 DEF WriterOK, SynchronizedState, Connected
    <3>3. a.received = s.data
      BY <2>6, <2>12, <3>2
    <3>4. ~ cc.is_FIN_RECEIVED
      BY <1>2, <2>1, <2>11 DEF StateOK
    <3>5. Passed(cc) = Len(s.data)
      BY <2>6, <2>11, <3>1, <3>4 DEF Passed, ISN, x
    <3>. QED  BY <2>6, <3>1, <3>3, <3>5
  <2>14. /\ Transit(p)' \subseteq Transit(p)
         /\ Transit(Peer(p))' \subseteq Transit(Peer(p)) \cup Sent
    BY <1>1, <2>2, ExchangeNone
  <2>15. /\ \A m \in Sent : ~ CarriesData(m) /\ m.seq = 2
         /\ PacketsRight(Sent, d)
    BY DEF PacketsRight
  <2> HIDE DEF Sent
  <2>16. /\ SynchronizedState(d) => Boundary(d, cc.receive_next)
         /\ ~ (FinNumbered(d) /\ cc.receive_next = d.next_seq_num)
         /\ ISN < cc.receive_next
    BY <2>9, <2>10, <2>11
  <2>. QED  BY <1>1, <1>2, <1>3, <2>2, <2>11, <2>12, <2>13, <2>14, <2>15, <2>16,
               OpenedStreams
<1>. QED  BY <1>5, <1>6

-----------------------------------------------------------------------------
(* The invariant. *)

(* Initially nothing is written, sent or received. *)
LEMMA InitStreamInv == Init => StreamInv
<1> SUFFICES ASSUME Init PROVE StreamInv
  OBVIOUS
<1>1. IInv
  BY InitIInv
<1>2. /\ ctx = [p \in Side |->
                  InitialContext(IF p = "active" THEN "IDLE" ELSE "LISTEN")]
      /\ app = [p \in Side |->
                  [written |-> 0, app_recv_queue |-> <<>>, received |-> <<>>,
                   close_requested |-> FALSE, closed |-> FALSE]]
      /\ wire = [p \in Side |-> <<>>] /\ copy = [p \in Side |-> <<>>]
  BY DEF Init
<1>3. \A p \in Side : Transit(p) = {}
  BY <1>2, ElementsEmpty DEF Transit
<1>4. ASSUME NEW p \in Side
      PROVE  LET c == ctx[p] IN
             /\ c.connection_state \in {"IDLE", "LISTEN"}
             /\ c.errno = "none" /\ c.send_buffer = <<>>
             /\ ~ c.is_FIN_SENT /\ ~ c.is_FIN_RECEIVED
             /\ ~ c.is_APP_CLOSE_QUEUED
             /\ c.receive_buffer = EmptyBuffer /\ c.receive_next = 0
             /\ c.next_seq_num = 1
             /\ app[p].app_recv_queue = <<>> /\ app[p].written = 0
             /\ app[p].received = <<>>
             /\ ~ app[p].closed /\ ~ app[p].close_requested
  BY <1>2 DEF InitialContext, ISN
<1>5. ASSUME NEW p \in Side
      PROVE  ~ SynchronizedState(ctx[p]) /\ ctx[p].connection_state \in Opening
  BY <1>4 DEF SynchronizedState, Connected, Opening
<1>6. ASSUME NEW p \in Side PROVE EndOK(p)
  <2> DEFINE c == ctx[p]
             d == ctx[Peer(p)]
  <2>1. Peer(p) \in Side
    BY Peers
  <2>2. StateOK(c)
    BY <1>4, <1>5 DEF StateOK, Opening, Connected, ISN
  <2>3. DOMAIN d.receive_buffer = {}
    BY <1>4, <2>1, EmptyInWindow
  <2>4. TilesOK(c) /\ ArrivedOK(d, c)
    BY <1>5, <2>1, <2>3 DEF TilesOK, ArrivedOK
  <2>5. SentRight(c, d, Transit(Peer(p)), Transit(p))
    BY <1>3, <2>1, <2>4 DEF SentRight
  <2>6. WriterOK(app[p], c) /\ ReaderOK(p)
    BY <1>4, <1>5 DEF WriterOK, ReaderOK
  <2>. QED  BY <2>2, <2>5, <2>6 DEF EndOK
<1>7. AnswersOK
  BY <1>3 DEF AnswersOK, Side
<1>. QED  BY <1>1, <1>6, <1>7 DEF StreamInv

(* Every action preserves the invariant. *)
LEMMA NextStreamInv == StreamInv /\ [Next]_vars => StreamInv'
<1> SUFFICES ASSUME StreamInv, [Next]_vars PROVE StreamInv'
  OBVIOUS
<1>1. ASSUME NEW p \in Side, Connect(p) PROVE StreamInv'
  BY <1>1, ConnectStreams
<1>2. ASSUME NEW p \in Side, Receive(p) PROVE StreamInv'
  BY <1>2, ReceiveSynSentStreams, ReceiveListenStreams, ReceiveSynRcvdStreams,
     ReceiveSegmentStreams DEF Receive
<1>3. ASSUME NEW p \in Side, Timeout(p) PROVE StreamInv'
  BY <1>3, HandshakeTimeoutStreams, HandleTimeoutStreams DEF Timeout
<1>4. ASSUME NEW p \in Side, HandleAppData(p) \/ HandleAppClose(p)
      PROVE  StreamInv'
  BY <1>4, HandleAppDataStreams, HandleAppCloseStreams
<1>5. ASSUME NEW p \in Side, Write(p) \/ Close(p) PROVE StreamInv'
  BY <1>5, ApplicationStreams
<1>6. ASSUME NEW p \in Side, Drop(p) \/ Store(p) \/ Discard(p) PROVE StreamInv'
  BY <1>6, LosingStreams
<1>7. CASE UNCHANGED vars
  <2>1. IInv'
    BY <1>7, NextIInv DEF StreamInv
  <2>2. /\ ctx' = ctx /\ app' = app
        /\ \A q \in Side : Transit(q)' = Transit(q)
    BY <1>7 DEF vars, Transit
  <2>3. ASSUME NEW p \in Side PROVE EndOK(p)'
    <3>1. EndOK(p) /\ Peer(p) \in Side
      BY Peers DEF StreamInv
    <3>. QED  BY <2>2, <3>1 DEF EndOK, ReaderOK, StreamAligned
  <2>4. AnswersOK'
    <3>1. AnswersOK
      BY DEF StreamInv
    <3>. QED  BY <2>2, <3>1 DEF AnswersOK, Side
  <2>. QED  BY <2>1, <2>3, <2>4 DEF StreamInv
<1>. QED  BY <1>1, <1>2, <1>3, <1>4, <1>5, <1>6, <1>7 DEF Next

(* In every behaviour the nodes each endpoint keeps tile what is           *)
(* unacknowledged and carry the bytes of those positions, the peer's       *)
(* receive buffer and the packets in transit hold whole nodes of it, and   *)
(* the application's queue goes on where the nodes end, whatever the       *)
(* channel loses, repeats or delays and however often Go-Back-N resends.   *)
THEOREM StreamInvariant == Spec => []StreamInv
BY InitStreamInv, NextStreamInv, PTL DEF Spec

-----------------------------------------------------------------------------
(* What follows from it. *)

(* The send buffer tiles the window, and only its last node is the FIN. *)
LEMMA StreamsTile == StreamInv => SendBufferTiles
<1> SUFFICES ASSUME StreamInv, NEW p \in Side, Synchronized(p)
             PROVE  LET c == ctx[p]
                        b == c.send_buffer
                    IN /\ \A i \in DOMAIN b :
                            /\ b[i].seq = IF i = 1 THEN c.send_base
                                          ELSE NodeEnd(b[i - 1])
                            /\ b[i].seq < NodeEnd(b[i])
                            /\ b[i].fin => i = Len(b)
                       /\ c.next_seq_num =
                            IF b = <<>> THEN c.send_base ELSE NodeEnd(b[Len(b)])
  BY DEF SendBufferTiles
<1> DEFINE c == ctx[p]
           b == c.send_buffer
<1>1. SynchronizedState(c)
  BY DEF Synchronized, SynchronizedState
<1>2. ContextOK(c) /\ TilesOK(c)
  BY StreamFacts DEF SentRight
<1>3. /\ \A i \in DOMAIN b : /\ b[i].seq < NodeEnd(b[i]) /\ NodeOK(b[i], c)
                             /\ NodeEnd(b[i]) \in Nat /\ b[i].seq \in Nat
      /\ \A i, j \in DOMAIN b : i < j => NodeEnd(b[i]) <= b[j].seq
      /\ DOMAIN b \subseteq Nat
  BY <1>1, <1>2, TileFacts
<1>4. /\ \A i \in DOMAIN b :
           b[i].seq = IF i = 1 THEN c.send_base ELSE NodeEnd(b[i - 1])
      /\ c.next_seq_num = IF b = <<>> THEN c.send_base ELSE NodeEnd(b[Len(b)])
  BY <1>1, <1>2 DEF TilesOK
<1>5. ASSUME NEW i \in DOMAIN b, b[i].fin PROVE i = Len(b)
  <2>1. b \in Seq(Node) /\ DOMAIN b = 1 .. Len(b) /\ Len(b) \in Nat
    BY <1>2, ContextFields
  <2>2. SUFFICES ASSUME i # Len(b) PROVE FALSE
    OBVIOUS
  <2>3. Len(b) \in DOMAIN b /\ i < Len(b) /\ b # <<>>
    BY <2>1, <2>2
  <2>4. NodeEnd(b[i]) = c.next_seq_num /\ c.next_seq_num = NodeEnd(b[Len(b)])
    BY <1>3, <1>4, <1>5, <2>3 DEF NodeOK
  <2>. QED  BY <1>3, <2>3, <2>4
<1>. QED  BY <1>3, <1>4, <1>5

(* Go-Back-N can always resend: in every behaviour the send buffer holds   *)
(* exactly the sequence numbers from send_base to next_seq_num, each once  *)
(* and in order, and the FIN only at the end (enqueue_send_buffer,         *)
(* dequeue_send_buffer).                                                   *)
THEOREM SendBufferAlwaysTiles == Spec => []SendBufferTiles
BY StreamsTile, StreamInvariant, PTL

(* How much of what an endpoint numbered the other one has passed up: at   *)
(* the end of file, all that the application wrote, which is closed.       *)
LEMMA PassedOfTaken ==
  ASSUME StreamInv, NEW p \in Side, SynchronizedState(ctx[p]),
         Passed(ctx[p]) \in Nat
  PROVE  /\ Passed(ctx[p]) <= app[Peer(p)].written
         /\ ctx[p].is_FIN_RECEIVED =>
              app[Peer(p)].closed /\ Passed(ctx[p]) = app[Peer(p)].written
<1> DEFINE c == ctx[p]
           d == ctx[Peer(p)]
           b == app[Peer(p)]
<1>1. Peer(p) \in Side /\ Peer(Peer(p)) = p
  BY Peers
<1>2. /\ ContextOK(c) /\ ContextOK(d) /\ EndpointOK(c, d)
      /\ ArrivedOK(c, d) /\ TilesOK(d)
  BY StreamFacts
<1>3. StateOK(d) /\ WriterOK(b, d) /\ AppOK(b)
  BY <1>1, StreamFacts
<1>4. /\ c.receive_next \in Nat /\ d.next_seq_num \in Nat /\ b.written \in Nat
      /\ c.receive_next <= d.next_seq_num
  BY <1>2, <1>3, ContextFields DEF EndpointOK, ReceiverOK, AppOK
<1>5. c.is_FIN_RECEIVED <=> FinNumbered(d) /\ c.receive_next = d.next_seq_num
  BY <1>2 DEF ArrivedOK
<1>6. CASE ~ SynchronizedState(d)
  <2>1. d.connection_state \in Opening \cup {"REFUSED"}
    BY <1>2, <1>6, ContextFields DEF SynchronizedState, State
  <2>2. d.next_seq_num <= 2 /\ ~ FinNumbered(d)
    BY <1>3, <2>1 DEF StateOK, FinNumbered, ISN
  <2>3. Passed(c) = c.receive_next - 2
    BY <1>4, <1>5, <2>2 DEF Passed, ISN
  <2>. QED  BY <1>4, <1>5, <2>2, <2>3
<1>7. CASE SynchronizedState(d)
  <2>1. /\ Taken(d) \in Nat /\ QueueOK(b.app_recv_queue, Taken(d), b.written)
        /\ d.is_FIN_SENT => b.closed /\ b.app_recv_queue = <<>>
    BY <1>3, <1>7 DEF WriterOK
  <2>2. Taken(d) <= b.written
    BY <2>1 DEF QueueOK
  <2>3. CASE c.is_FIN_RECEIVED
    <3>1. FinNumbered(d) /\ c.receive_next = d.next_seq_num
      BY <1>5, <2>3
    <3>2. Passed(c) = Taken(d)
      BY <2>3, <3>1 DEF Passed, Taken
    <3>3. b.closed /\ b.app_recv_queue = <<>>
      BY <2>1, <3>1 DEF FinNumbered
    <3>4. Taken(d) = b.written
      BY <2>1, <3>3 DEF QueueOK, LastByte
    <3>. QED  BY <2>2, <3>2, <3>3, <3>4
  <2>4. CASE ~ c.is_FIN_RECEIVED
    <3>1. Passed(c) = c.receive_next - 2
      BY <1>4, <2>4 DEF Passed, ISN
    <3>2. CASE FinNumbered(d)
      <4>1. Taken(d) = d.next_seq_num - 3 /\ c.receive_next # d.next_seq_num
        BY <1>4, <1>5, <2>4, <3>2 DEF Taken, ISN
      <4>. QED  BY <1>4, <2>1, <2>2, <2>4, <3>1, <4>1
    <3>3. CASE ~ FinNumbered(d)
      <4>1. Taken(d) = d.next_seq_num - 2
        BY <1>4, <3>3 DEF Taken, ISN
      <4>. QED  BY <1>4, <2>1, <2>2, <2>4, <3>1, <4>1
    <3>. QED  BY <3>2, <3>3
  <2>. QED  BY <2>3, <2>4
<1>. QED  BY <1>6, <1>7

(* What was read is a prefix of what was written.                          *)
LEMMA StreamsIntact == StreamInv => StreamIntact
<1> SUFFICES ASSUME StreamInv, NEW p \in Side,
                    Synchronized(p), StreamAligned(p)
             PROVE  /\ InOrder(p)
                    /\ Len(app[p].received) <= app[Peer(p)].written
                    /\ ctx[p].is_FIN_RECEIVED =>
                         /\ app[Peer(p)].closed
                         /\ Len(app[p].received) = app[Peer(p)].written
  BY DEF StreamIntact
<1> DEFINE n == Passed(ctx[p])
<1>1. SynchronizedState(ctx[p])
  BY DEF Synchronized, SynchronizedState
<1>2. n \in Nat /\ app[p].received = [i \in 1 .. n |-> i]
  BY <1>1 DEF StreamInv, EndOK, ReaderOK
<1>3. /\ n <= app[Peer(p)].written
      /\ ctx[p].is_FIN_RECEIVED =>
           app[Peer(p)].closed /\ n = app[Peer(p)].written
  BY <1>1, <1>2, PassedOfTaken
<1> HIDE DEF n
<1>4. Len(app[p].received) = n
  BY <1>2
<1>. QED  BY <1>2, <1>3, <1>4 DEF InOrder

(* What an application reads is a prefix of what the other one wrote, and  *)
(* end of file comes after all of it, whatever the channel does: no loss,  *)
(* repetition, reordering or retransmission shows through                  *)
(* (handle_incoming_segment, stcp_app_send, stcp_fin_received).            *)
THEOREM StreamAlwaysIntact == Spec => []StreamIntact
BY StreamsIntact, StreamInvariant, PTL

(* A connection that closed in order has delivered all that was written.   *)
LEMMA StreamsCloseCleanly == StreamInv => CleanClose
<1> SUFFICES ASSUME StreamInv, NEW p \in Side,
                    ctx[p].connection_state = "CLOSED", ctx[p].errno = "none"
             PROVE  /\ ctx[p].is_FIN_SENT /\ ctx[p].send_buffer = <<>>
                    /\ ctx[p].is_FIN_RECEIVED
                    /\ ctx[Peer(p)].is_FIN_RECEIVED
  BY DEF CleanClose
<1> DEFINE c == ctx[p]
           d == ctx[Peer(p)]
<1>1. Peer(p) \in Side /\ Peer(Peer(p)) = p
  BY Peers
<1>2. /\ ContextOK(c) /\ ContextOK(d) /\ StateOK(c) /\ TilesOK(c)
      /\ EndpointOK(c, d) /\ EndpointOK(d, c)
      /\ WriterOK(app[p], c) /\ ArrivedOK(d, c)
  BY StreamFacts DEF SentRight
<1>3. StateOK(d)
  BY <1>1, StreamFacts
<1>4. Finished(c) /\ FinNumbered(c) /\ c.is_FIN_RECEIVED /\ c.is_FIN_SENT
  BY <1>2 DEF StateOK, Finished, FinNumbered
<1>5. SynchronizedState(c)
  BY DEF SynchronizedState
<1>6. c.send_buffer = <<>>
  <2>1. SUFFICES ASSUME c.send_buffer # <<>> PROVE FALSE
    OBVIOUS
  <2>2. 1 \in DOMAIN c.send_buffer
    BY <1>2, <2>1, ContextFields
  <2>3. /\ NodeOK(c.send_buffer[1], c) /\ c.send_buffer[1].seq \in Nat
        /\ NodeEnd(c.send_buffer[1]) \in Nat /\ c.send_base \in Nat
    BY <1>2, <1>5, <2>2, TileFacts
  <2>. QED  BY <1>4, <2>3 DEF NodeOK, Finished
<1>7. /\ c.send_base \in Nat /\ c.next_seq_num \in Nat /\ d.receive_next \in Nat
      /\ c.send_base <= d.receive_next /\ d.receive_next <= c.next_seq_num
  BY <1>2, <1>5, ContextFields DEF EndpointOK, SenderOK, ReceiverOK
<1>8. d.receive_next = c.next_seq_num
  BY <1>4, <1>7 DEF Finished
<1>9. c.next_seq_num > 2
  BY <1>2, <1>4, FinIsNotFirst
<1>10. SynchronizedState(d)
  <2>1. SUFFICES ASSUME ~ SynchronizedState(d) PROVE FALSE
    OBVIOUS
  <2>2. d.connection_state \in Opening \cup {"REFUSED"}
    BY <1>2, <2>1, ContextFields DEF SynchronizedState, State
  <2>. QED  BY <1>3, <1>7, <1>8, <1>9, <2>2 DEF StateOK, ISN
<1>11. d.is_FIN_RECEIVED
  BY <1>2, <1>4, <1>8, <1>10 DEF ArrivedOK
<1>. QED  BY <1>4, <1>6, <1>11

(* A connection that ended without ECONNABORTED ended in full: this end    *)
(* has nothing left to resend, the peer has its FIN, and it has the        *)
(* peer's (transition_state).                                              *)
THEOREM AlwaysClosesCleanly == Spec => []CleanClose
BY StreamsCloseCleanly, StreamInvariant, PTL

-----------------------------------------------------------------------------
(* The refinement. *)

(* The next bytes of a stream, and the end of file if it comes with them,  *)
(* are a step of the abstract specification.                               *)
LEMMA ReadsOrFinishes ==
  ASSUME NEW p \in Side, NEW k \in Nat, NEW n \in Nat, k <= n,
         \A q \in Side : app'[q].written = app[q].written
                         /\ app'[q].closed = app[q].closed,
         \A q \in Side : q # p => /\ Received(q)' = Received(q)
                                  /\ Eof(q)' = Eof(q),
         Received(p) = [i \in 1 .. k |-> i],
         Received(p)' = [i \in 1 .. n |-> i],
         app[Peer(p)].written \in Nat, n <= app[Peer(p)].written,
         Eof(p) => Eof(p)' /\ n = k,
         Eof(p)' => app[Peer(p)].closed /\ n = app[Peer(p)].written
  PROVE  [Streams!Next]_(Streams!vars)
<1> DEFINE written == [q \in Side |-> app[q].written]
           closed == [q \in Side |-> app[q].closed]
           received == [q \in Side |-> Received(q)]
           eof == [q \in Side |-> Eof(q)]
<1>1. written' = written /\ closed' = closed
  OBVIOUS
<1>2. Streams!Other(p) = Peer(p) /\ Peer(p) \in Side
  BY DEF Streams!Other, Side, Peer
<1>3. /\ written[Peer(p)] = app[Peer(p)].written
      /\ closed[Peer(p)] = app[Peer(p)].closed
      /\ received[p] = [i \in 1 .. k |-> i] /\ eof[p] = Eof(p)
  BY <1>2
<1>4. Len(received[p]) = k
  BY <1>3
<1>5. received' = [received EXCEPT ![p] = [i \in 1 .. n |-> i]]
  OBVIOUS
<1>6. [i \in 1 .. n |-> i] =
        received[p] \o [i \in 1 .. (n - Len(received[p])) |-> Len(received[p]) + i]
  BY <1>3, <1>4, ReadOn DEF Following
<1>7. Streams!Deliver(p, n)
  BY <1>5, <1>6 DEF Streams!Deliver
<1>8. CASE Eof(p)' = Eof(p) /\ n = k
  <2>1. received' = received
    BY <1>8
  <2>2. eof' = eof
    BY <1>8
  <2>. QED  BY <1>1, <2>1, <2>2 DEF Streams!vars
<1>9. CASE Eof(p)' /\ ~ Eof(p)
  <2>1. eof' = [eof EXCEPT ![p] = TRUE]
    BY <1>9
  <2>2. Streams!Finish(p)
    BY <1>1, <1>2, <1>3, <1>7, <1>9, <2>1 DEF Streams!Finish
  <2>. QED  BY <2>2 DEF Streams!Next
<1>10. CASE ~ Eof(p)' /\ ~ Eof(p) /\ n # k
  <2>1. eof' = eof
    <3>1. Eof(p)' = Eof(p)
      BY <1>10 DEF Eof
    <3>. QED  BY <3>1
  <2>2. n \in (Len(received[p]) + 1) .. written[Streams!Other(p)]
    BY <1>2, <1>3, <1>4, <1>10
  <2>3. Streams!Read(p)
    BY <1>1, <1>3, <1>7, <1>10, <2>1, <2>2 DEF Streams!Read
  <2>. QED  BY <2>3 DEF Streams!Next
<1>. QED  BY <1>8, <1>9, <1>10 DEF Eof

(* A step after which all streams are as they were. *)
LEMMA StreamsStutter ==
  ASSUME NEW p \in Side, NEW cc, NEW a,
         ctx = [q \in Side |-> ctx[q]], app = [q \in Side |-> app[q]],
         ctx' = [ctx EXCEPT ![p] = cc], app' = [app EXCEPT ![p] = a],
         a.written = app[p].written, a.closed = app[p].closed,
         Received(p)' = Received(p), Eof(p)' = Eof(p)
  PROVE  [Streams!Next]_(Streams!vars)
<1>1. \A q \in Side : q # p => ctx'[q] = ctx[q] /\ app'[q] = app[q]
  OBVIOUS
<1>2. app'[p] = a
  OBVIOUS
<1>3. \A q \in Side : /\ app'[q].written = app[q].written
                      /\ app'[q].closed = app[q].closed
                      /\ Received(q)' = Received(q) /\ Eof(q)' = Eof(q)
  BY <1>1, <1>2 DEF Received, Eof, StreamAligned
<1>4. /\ [q \in Side |-> app[q].written]' = [q \in Side |-> app[q].written]
      /\ [q \in Side |-> app[q].closed]' = [q \in Side |-> app[q].closed]
      /\ [q \in Side |-> Received(q)]' = [q \in Side |-> Received(q)]
      /\ [q \in Side |-> Eof(q)]' = [q \in Side |-> Eof(q)]
  BY <1>3
<1>. QED  BY <1>4 DEF Streams!vars

(* A pass that delivers nothing and learns nothing of the peer's FIN. *)
LEMMA QuietPass ==
  ASSUME NEW p \in Side, NEW cc, NEW a,
         ctx = [q \in Side |-> ctx[q]], app = [q \in Side |-> app[q]],
         ctx' = [ctx EXCEPT ![p] = cc], app' = [app EXCEPT ![p] = a],
         a.written = app[p].written, a.closed = app[p].closed,
         a.received = app[p].received,
         cc.peer_initial_seq = ctx[p].peer_initial_seq,
         cc.is_FIN_RECEIVED = ctx[p].is_FIN_RECEIVED
  PROVE  [Streams!Next]_(Streams!vars)
<1>1. ctx'[p] = cc /\ app'[p] = a
  OBVIOUS
<1>2. Received(p)' = Received(p) /\ Eof(p)' = Eof(p)
  BY <1>1 DEF Received, Eof, StreamAligned
<1>. QED  BY <1>2, StreamsStutter

(* A pass of an end that has read nothing yet, and reads nothing. *)
LEMMA OpeningPass ==
  ASSUME NEW p \in Side, NEW cc, NEW a,
         ctx = [q \in Side |-> ctx[q]], app = [q \in Side |-> app[q]],
         ctx' = [ctx EXCEPT ![p] = cc], app' = [app EXCEPT ![p] = a],
         a.written = app[p].written, a.closed = app[p].closed,
         a.received = <<>>, app[p].received = <<>>,
         ~ cc.is_FIN_RECEIVED, ~ ctx[p].is_FIN_RECEIVED
  PROVE  [Streams!Next]_(Streams!vars)
<1>1. ctx'[p] = cc /\ app'[p] = a
  OBVIOUS
<1>2. Received(p)' = Received(p) /\ Eof(p)' = Eof(p)
  BY <1>1 DEF Received, Eof, StreamAligned
<1>. QED  BY <1>2, StreamsStutter

(* An end whose handshake has not succeeded has read nothing. *)
LEMMA OpeningReads ==
  ASSUME StreamInv, NEW p \in Side, ctx[p].connection_state \in Opening
  PROVE  /\ app[p].received = <<>> /\ ~ ctx[p].is_FIN_RECEIVED
         /\ ContextOK(ctx[p]) /\ AppOK(app[p])
         /\ ctx = [q \in Side |-> ctx[q]] /\ app = [q \in Side |-> app[q]]
<1>1. /\ StateOK(ctx[p]) /\ WriterOK(app[p], ctx[p])
      /\ ContextOK(ctx[p]) /\ AppOK(app[p])
      /\ ctx = [q \in Side |-> ctx[q]] /\ app = [q \in Side |-> app[q]]
  BY StreamFacts
<1>2. ~ SynchronizedState(ctx[p])
  BY DEF SynchronizedState, Opening, Connected
<1>. QED  BY <1>1, <1>2 DEF StateOK, WriterOK

(* The passes of the handshake, except the one that opens the passive end. *)
LEMMA HandshakeRefines ==
  ASSUME StreamInv, NEW p \in Side,
         \/ Connect(p) \/ ReceiveSynSent(p) \/ ReceiveListen(p)
         \/ HandshakeTimeout(p)
  PROVE  [Streams!Next]_(Streams!vars)
<1> DEFINE c == ctx[p]
<1>1. c.connection_state \in Opening /\ app' = app
  BY DEF Connect, ReceiveSynSent, ReceiveListen, HandshakeTimeout, Opening
<1>2. /\ app[p].received = <<>> /\ ~ c.is_FIN_RECEIVED
      /\ ContextOK(c) /\ AppOK(app[p])
      /\ ctx = [q \in Side |-> ctx[q]] /\ app = [q \in Side |-> app[q]]
  BY <1>1, OpeningReads
<1>3. app' = [app EXCEPT ![p] = app[p]]
  BY <1>1, <1>2
<1>4. ASSUME NEW cc, ctx' = [ctx EXCEPT ![p] = cc],
             cc.is_FIN_RECEIVED = c.is_FIN_RECEIVED
      PROVE  [Streams!Next]_(Streams!vars)
  <2>1. ~ cc.is_FIN_RECEIVED
    BY <1>2, <1>4
  <2>. QED  BY <1>2, <1>3, <1>4, <2>1, OpeningPass
<1>5. CASE Connect(p)
  <2> DEFINE cc == SynPass([c EXCEPT !.connection_state = "SYN_SENT"])
  <2>1. ctx' = [ctx EXCEPT ![p] = cc]
    BY <1>5 DEF Connect
  <2>2. cc.is_FIN_RECEIVED = c.is_FIN_RECEIVED
    BY <1>2 DEF ContextOK, SynPass
  <2> HIDE DEF cc
  <2>. QED  BY <1>4, <2>1, <2>2
<1>6. CASE ReceiveSynSent(p)
  <2>1. PICK s \in Arriving(p) :
          ctx' = [ctx EXCEPT ![p] = IF IsSynAck(c, s) THEN AcceptSynAck(c, s)
                                    ELSE SynPass(c)]
    BY <1>6 DEF ReceiveSynSent
  <2> DEFINE cc == IF IsSynAck(c, s) THEN AcceptSynAck(c, s) ELSE SynPass(c)
  <2>2. ctx' = [ctx EXCEPT ![p] = cc]
    BY <2>1
  <2>3. cc.is_FIN_RECEIVED = c.is_FIN_RECEIVED
    BY <1>2 DEF ContextOK, SynPass, AcceptSynAck, Established
  <2> HIDE DEF cc
  <2>. QED  BY <1>4, <2>2, <2>3
<1>7. CASE ReceiveListen(p)
  <2>1. PICK s \in Arriving(p) :
          ctx' = [ctx EXCEPT ![p] = IF "SYN" \in s.flags THEN AcceptSyn(c, s)
                                    ELSE c]
    BY <1>7 DEF ReceiveListen
  <2> DEFINE cc == IF "SYN" \in s.flags THEN AcceptSyn(c, s) ELSE c
  <2>2. ctx' = [ctx EXCEPT ![p] = cc]
    BY <2>1
  <2>3. cc.is_FIN_RECEIVED = c.is_FIN_RECEIVED
    BY <1>2 DEF ContextOK, AcceptSyn
  <2> HIDE DEF cc
  <2>. QED  BY <1>4, <2>2, <2>3
<1>8. CASE HandshakeTimeout(p)
  <2> DEFINE counted == [c EXCEPT !.retransmission_count = @ + 1]
             failed == Fail(counted, "REFUSED", "ECONNREFUSED")
  <2>1. \/ ctx' = [ctx EXCEPT ![p] = counted]
        \/ ctx' = [ctx EXCEPT ![p] = failed]
    BY <1>8 DEF HandshakeTimeout
  <2>2. counted.is_FIN_RECEIVED = c.is_FIN_RECEIVED /\ ContextOK(counted)
    BY <1>2, CountedContext DEF ContextOK
  <2> HIDE DEF counted
  <2>3. failed.is_FIN_RECEIVED = c.is_FIN_RECEIVED
    BY <2>2 DEF ContextOK, Fail
  <2> HIDE DEF failed
  <2>. QED  BY <1>4, <2>1, <2>2, <2>3
<1>. QED  BY <1>5, <1>6, <1>7, <1>8

(* The passes of control_loop() that take nothing from the network, and    *)
(* what the channel does.                                                  *)
LEMMA QuietRefines ==
  ASSUME StreamInv, NEW p \in Side,
         \/ HandleAppData(p) \/ HandleAppClose(p) \/ HandleTimeout(p)
         \/ Drop(p) \/ Store(p) \/ Discard(p)
  PROVE  [Streams!Next]_(Streams!vars)
<1> DEFINE c == ctx[p]
           o == app[p]
<1>1. /\ ContextOK(c) /\ AppOK(o)
      /\ ctx = [q \in Side |-> ctx[q]] /\ app = [q \in Side |-> app[q]]
  BY StreamFacts
<1>2. ctx = [ctx EXCEPT ![p] = c] /\ app = [app EXCEPT ![p] = o]
  BY <1>1
<1>3. CASE HandleAppData(p)
  <2> DEFINE len == Least(Least(WinRemain(c), MSS), Len(Head(o.app_recv_queue)))
             n == [seq |-> c.next_seq_num,
                   data |-> SubSeq(Head(o.app_recv_queue), 1, len), fin |-> FALSE]
             cc == Transmitted(c, n)
             queue == TakeBytes(o.app_recv_queue, len)
             a == [o EXCEPT !.app_recv_queue = queue]
  <2>1. ctx' = [ctx EXCEPT ![p] = cc] /\ app' = [app EXCEPT ![p] = a]
    BY <1>1, <1>3 DEF HandleAppData
  <2> HIDE DEF n, queue
  <2>2. /\ cc.peer_initial_seq = c.peer_initial_seq
        /\ cc.is_FIN_RECEIVED = c.is_FIN_RECEIVED
        /\ a.written = o.written /\ a.closed = o.closed /\ a.received = o.received
    BY <1>1 DEF ContextOK, AppOK, Transmitted
  <2> HIDE DEF cc, a
  <2>. QED  BY <1>1, <2>1, <2>2, QuietPass
<1>4. CASE HandleAppClose(p)
  <2> DEFINE sent == [c EXCEPT !.is_FIN_SENT = TRUE,
                        !.connection_state = Transition(@, "SEND_FIN")]
             queued == [sent EXCEPT !.is_APP_CLOSE_QUEUED = TRUE]
             a == [o EXCEPT !.close_requested = FALSE]
  <2>1. /\ app' = [app EXCEPT ![p] = a]
        /\ \/ ctx' = [ctx EXCEPT ![p] = EnqueueFin(sent)]
           \/ ctx' = [ctx EXCEPT ![p] = queued]
    BY <1>1, <1>4 DEF HandleAppClose
  <2>2. /\ EnqueueFin(sent).peer_initial_seq = c.peer_initial_seq
        /\ EnqueueFin(sent).is_FIN_RECEIVED = c.is_FIN_RECEIVED
        /\ queued.peer_initial_seq = c.peer_initial_seq
        /\ queued.is_FIN_RECEIVED = c.is_FIN_RECEIVED
    BY <1>1 DEF ContextOK, EnqueueFin
  <2>3. /\ a.written = o.written /\ a.closed = o.closed /\ a.received = o.received
    BY <1>1 DEF AppOK
  <2> HIDE DEF sent, queued, a
  <2>. QED  BY <1>1, <2>1, <2>2, <2>3, QuietPass
<1>5. CASE HandleTimeout(p)
  <2> DEFINE failed == Fail(c, "CLOSED", "ECONNABORTED")
             counted == [c EXCEPT !.retransmission_count = @ + 1]
  <2>1. /\ app' = [app EXCEPT ![p] = o]
        /\ \/ ctx' = [ctx EXCEPT ![p] = failed]
           \/ ctx' = [ctx EXCEPT ![p] = counted]
    BY <1>1, <1>2, <1>5 DEF HandleTimeout
  <2>2. /\ failed.peer_initial_seq = c.peer_initial_seq
        /\ failed.is_FIN_RECEIVED = c.is_FIN_RECEIVED
        /\ counted.peer_initial_seq = c.peer_initial_seq
        /\ counted.is_FIN_RECEIVED = c.is_FIN_RECEIVED
    BY <1>1 DEF ContextOK, Fail
  <2> HIDE DEF failed, counted
  <2>. QED  BY <1>1, <2>1, <2>2, QuietPass
<1>6. CASE Drop(p) \/ Store(p) \/ Discard(p)
  <2>1. ctx' = [ctx EXCEPT ![p] = c] /\ app' = [app EXCEPT ![p] = o]
    BY <1>2, <1>6 DEF Drop, Store, Discard
  <2>. QED  BY <1>1, <2>1, QuietPass
<1>. QED  BY <1>3, <1>4, <1>5, <1>6

(* mywrite() and myclose(). *)
LEMMA ApplicationRefines ==
  ASSUME StreamInv, NEW p \in Side, Write(p) \/ Close(p)
  PROVE  [Streams!Next]_(Streams!vars)
<1> DEFINE o == app[p]
           written == [q \in Side |-> app[q].written]
           closed == [q \in Side |-> app[q].closed]
           received == [q \in Side |-> Received(q)]
           eof == [q \in Side |-> Eof(q)]
<1>1. AppOK(o) /\ app = [q \in Side |-> app[q]]
  BY StreamFacts
<1>2. ~ o.closed /\ ctx' = ctx
  BY DEF Write, Close, Unblocked
<1>3. ASSUME NEW a, app' = [app EXCEPT ![p] = a], a.received = o.received
      PROVE  /\ written' = [written EXCEPT ![p] = a.written]
             /\ closed' = [closed EXCEPT ![p] = a.closed]
             /\ received' = received /\ eof' = eof
  <2>1. app'[p] = a /\ \A q \in Side : q # p => app'[q] = app[q]
    BY <1>1, <1>3
  <2>2. \A q \in Side : Received(q)' = Received(q) /\ Eof(q)' = Eof(q)
    BY <1>2, <1>3, <2>1 DEF Received, Eof, StreamAligned
  <2>3. /\ written' = [written EXCEPT ![p] = a.written]
        /\ closed' = [closed EXCEPT ![p] = a.closed]
    BY <2>1
  <2>4. received' = received
    BY <2>2
  <2>5. eof' = eof
    BY <2>2
  <2>. QED  BY <2>3, <2>4, <2>5
<1>4. CASE Write(p)
  <2>1. PICK n \in 1 .. MaxWrite :
          app' = [app EXCEPT ![p].written = @ + n,
                             ![p].app_recv_queue =
                    Append(@, [i \in 1 .. n |-> app[p].written + i])]
    BY <1>4 DEF Write
  <2> DEFINE queue == Append(o.app_recv_queue, [i \in 1 .. n |-> o.written + i])
             a == [o EXCEPT !.written = @ + n, !.app_recv_queue = queue]
  <2>2. app' = [app EXCEPT ![p] = a]
    BY <1>1, <2>1
  <2> HIDE DEF queue
  <2>3. /\ a.written = o.written + n /\ a.closed = o.closed
        /\ a.received = o.received
    BY <1>1 DEF AppOK
  <2> HIDE DEF a
  <2>4. /\ written' = [written EXCEPT ![p] = a.written]
        /\ closed' = [closed EXCEPT ![p] = a.closed]
        /\ received' = received /\ eof' = eof
    BY <1>3, <2>2, <2>3
  <2>5. written' = [written EXCEPT ![p] = @ + n] /\ closed' = closed
    <3>1. written[p] = o.written /\ closed[p] = o.closed
      OBVIOUS
    <3>2. closed = [closed EXCEPT ![p] = o.closed]
      BY <3>1
    <3>. QED  BY <2>3, <2>4, <3>1, <3>2
  <2>6. ~ closed[p]
    BY <1>2
  <2>7. Streams!Write(p)
    BY <2>1, <2>4, <2>5, <2>6 DEF Streams!Write
  <2>. QED  BY <2>7 DEF Streams!Next
<1>5. CASE Close(p)
  <2> DEFINE a == [o EXCEPT !.closed = TRUE, !.close_requested = TRUE]
  <2>1. app' = [app EXCEPT ![p] = a]
    BY <1>1, <1>5 DEF Close
  <2>2. a.written = o.written /\ a.closed = TRUE /\ a.received = o.received
    BY <1>1 DEF AppOK
  <2> HIDE DEF a
  <2>3. /\ written' = [written EXCEPT ![p] = a.written]
        /\ closed' = [closed EXCEPT ![p] = a.closed]
        /\ received' = received /\ eof' = eof
    BY <1>3, <2>1, <2>2
  <2>4. written' = written
    <3>1. written = [written EXCEPT ![p] = o.written]
      OBVIOUS
    <3>. QED  BY <2>2, <2>3, <3>1
  <2>5. ~ closed[p]
    BY <1>2
  <2>6. Streams!Close(p)
    BY <2>2, <2>3, <2>4, <2>5 DEF Streams!Close
  <2>. QED  BY <2>6 DEF Streams!Next
<1>. QED  BY <1>4, <1>5

(* A pass that hands bytes to the application, or tells it of the peer's   *)
(* FIN: what the invariant says after it makes it a step of the stream.    *)
LEMMA ReadingPass ==
  ASSUME StreamInv, StreamInv', NEW p \in Side, NEW cc, NEW a, NEW more \in Seq(Byte),
         ctx' = [ctx EXCEPT ![p] = cc], app' = [app EXCEPT ![p] = a],
         a.written = app[p].written, a.closed = app[p].closed,
         a.received = app[p].received \o more,
         SynchronizedState(cc),
         \/ /\ SynchronizedState(ctx[p])
            /\ cc.peer_initial_seq = ctx[p].peer_initial_seq
         \/ app[p].received = <<>> /\ ~ ctx[p].is_FIN_RECEIVED,
         ctx[p].is_FIN_RECEIVED => cc.is_FIN_RECEIVED /\ more = <<>>
  PROVE  [Streams!Next]_(Streams!vars)
<1> DEFINE c == ctx[p]
           o == app[p]
<1>1. StreamIntact /\ StreamIntact'
  BY StreamsIntact, PTL
<1>2. /\ AppOK(o) /\ Peer(p) \in Side /\ Peer(p) # p
      /\ ctx = [q \in Side |-> ctx[q]] /\ app = [q \in Side |-> app[q]]
  BY StreamFacts, Peers
<1>3. /\ ctx'[p] = cc /\ app'[p] = a
      /\ \A q \in Side : q # p => ctx'[q] = ctx[q] /\ app'[q] = app[q]
  BY <1>2
<1>4. CASE ~ StreamAligned(p)'
  <2>1. Received(p)' = <<>> /\ ~ Eof(p)'
    BY <1>4 DEF Received, Eof
  <2>2. Received(p) = <<>> /\ ~ Eof(p)
    BY <1>3, <1>4 DEF Received, Eof, StreamAligned
  <2>3. Received(p)' = Received(p) /\ Eof(p)' = Eof(p)
    BY <2>1, <2>2 DEF Eof
  <2>. QED  BY <1>2, <2>3, StreamsStutter
<1>5. CASE StreamAligned(p)'
  <2> DEFINE k == Len(o.received)
             n == Len(a.received)
  <2>1. /\ Synchronized(p)'
    BY <1>3 DEF Synchronized, SynchronizedState
  <2>2. /\ InOrder(p)' /\ n <= app'[Peer(p)].written
        /\ cc.is_FIN_RECEIVED =>
             app'[Peer(p)].closed /\ n = app'[Peer(p)].written
    BY <1>1, <1>3, <1>5, <2>1 DEF StreamIntact
  <2>3. o.received \in Seq(Byte) /\ k \in Nat /\ Len(more) \in Nat
    BY <1>2 DEF AppOK
  <2>4. n = k + Len(more)
    BY <2>3
  <2>5. Received(p)' = [i \in 1 .. n |-> i] /\ (Eof(p)' <=> cc.is_FIN_RECEIVED)
    BY <1>3, <1>5, <2>2 DEF Received, Eof, InOrder
  <2>6. /\ Received(p) = o.received /\ o.received = [i \in 1 .. k |-> i]
        /\ Eof(p) <=> c.is_FIN_RECEIVED
    <3>1. CASE /\ SynchronizedState(c)
               /\ cc.peer_initial_seq = c.peer_initial_seq
      <4>1. StreamAligned(p) /\ Synchronized(p)
        BY <1>3, <1>5, <3>1 DEF StreamAligned, Synchronized, SynchronizedState
      <4>. QED  BY <1>1, <4>1 DEF StreamIntact, InOrder, Received, Eof
    <3>2. CASE o.received = <<>> /\ ~ c.is_FIN_RECEIVED
      BY <3>2 DEF Received, Eof
    <3>. QED  BY <3>1, <3>2
  <2>7. Received(p) = [i \in 1 .. k |-> i]
    BY <2>6
  <2>8. \A q \in Side : /\ app'[q].written = app[q].written
                        /\ app'[q].closed = app[q].closed
    BY <1>3
  <2>9. \A q \in Side : q # p => Received(q)' = Received(q) /\ Eof(q)' = Eof(q)
    BY <1>3 DEF Received, Eof, StreamAligned
  <2>10. /\ app[Peer(p)].written \in Nat /\ n <= app[Peer(p)].written
         /\ Eof(p)' => app[Peer(p)].closed /\ n = app[Peer(p)].written
    BY <1>2, <1>3, <2>2, <2>5, StreamFacts DEF AppOK
  <2>11. Eof(p) => Eof(p)' /\ n = k
    <3>1. c.is_FIN_RECEIVED => n = k
      BY <2>3, <2>4
    <3>. QED  BY <2>5, <2>6, <3>1
  <2>12. n \in Nat /\ k <= n
    BY <2>3, <2>4
  <2> HIDE DEF n, k
  <2>. QED  BY <2>3, <2>5, <2>7, <2>8, <2>9, <2>10, <2>11, <2>12, ReadsOrFinishes
<1>. QED  BY <1>4, <1>5

(* The pass that opens the passive end. *)
LEMMA ReceiveSynRcvdRefines ==
  ASSUME StreamInv, StreamInv', NEW p \in Side, ReceiveSynRcvd(p)
  PROVE  [Streams!Next]_(Streams!vars)
<1> DEFINE c == ctx[p]
           o == app[p]
<1>1. c.connection_state \in Opening
  BY DEF ReceiveSynRcvd, Opening
<1>2. /\ o.received = <<>> /\ ~ c.is_FIN_RECEIVED
      /\ ContextOK(c) /\ AppOK(o)
      /\ ctx = [q \in Side |-> ctx[q]] /\ app = [q \in Side |-> app[q]]
  BY <1>1, OpeningReads
<1>3. PICK s \in Arriving(p) :
        \/ /\ ctx' = [ctx EXCEPT ![p] = AcceptAck(c, s)]
           /\ app' = [app EXCEPT ![p].received = @ \o s.data]
        \/ UNCHANGED <<ctx, app>>
  BY DEF ReceiveSynRcvd
<1>4. CASE UNCHANGED <<ctx, app>>
  <2>1. ctx' = [ctx EXCEPT ![p] = c] /\ app' = [app EXCEPT ![p] = o]
    BY <1>2, <1>4
  <2>. QED  BY <1>2, <2>1, OpeningPass
<1>5. CASE /\ ctx' = [ctx EXCEPT ![p] = AcceptAck(c, s)]
           /\ app' = [app EXCEPT ![p].received = @ \o s.data]
  <2> DEFINE cc == AcceptAck(c, s)
             more == s.data
             a == [o EXCEPT !.received = @ \o more]
  <2>1. ctx' = [ctx EXCEPT ![p] = cc] /\ app' = [app EXCEPT ![p] = a]
    BY <1>2, <1>5
  <2>2. more \in Seq(Byte)
    <3>1. IInv
      BY DEF StreamInv
    <3>. QED  BY <3>1, ArrivingTransit DEF Segment
  <2>3. cc.connection_state = "ESTABLISHED"
    BY <1>2 DEF ContextOK, AcceptAck, Established
  <2> HIDE DEF cc, more
  <2>4. /\ a.written = o.written /\ a.closed = o.closed
        /\ a.received = o.received \o more
    BY <1>2 DEF AppOK
  <2> HIDE DEF a
  <2>5. SynchronizedState(cc)
    BY <2>3 DEF SynchronizedState, Connected
  <2>. QED  BY <1>2, <2>1, <2>2, <2>4, <2>5, ReadingPass
<1>. QED  BY <1>3, <1>4, <1>5

(* After the FIN nothing more is taken from the peer. *)
LEMMA NothingAfterFin ==
  ASSUME NEW c, NEW s, c.is_FIN_RECEIVED
  PROVE  HandleSegment(c, s) = c /\ Delivered(c, s) = <<>>
<1>1. ~ Acceptable(c, s)
  BY DEF Acceptable
<1>. QED  BY <1>1 DEF HandleSegment, Delivered

(* handle_network_data() *)
LEMMA ReceiveSegmentRefines ==
  ASSUME StreamInv, StreamInv', NEW p \in Side, ReceiveSegment(p)
  PROVE  [Streams!Next]_(Streams!vars)
<1> DEFINE c == ctx[p]
           d == ctx[Peer(p)]
           o == app[p]
           out == Transit(Peer(p))
           back == Transit(p)
<1>1. PICK s \in Arriving(p) :
        /\ ctx' = [ctx EXCEPT ![p] = HandleNetworkData(c, s)]
        /\ app' = [app EXCEPT ![p].received = @ \o Delivered(AfterAck(c, s), s)]
  BY DEF ReceiveSegment
<1>2. c.connection_state \in Connected /\ SynchronizedState(c) /\ IInv
  BY DEF ReceiveSegment, SynchronizedState, StreamInv
<1>3. /\ Right(c, d, out, back) /\ TilesOK(d) /\ ArrivedOK(c, d)
      /\ ContextOK(c) /\ ContextOK(d) /\ EndpointOK(c, d) /\ AppOK(o)
      /\ app = [q \in Side |-> app[q]]
      /\ \A m \in back : /\ m \in Segment /\ SentOK(m, d)
                         /\ CarriedOK(m, d) /\ AckOK(m, c)
  BY <1>2, StreamFacts
<1>4. s \in back
  BY <1>2, ArrivingTransit
<1> DEFINE t == AfterAck(c, s)
           cc == HandleNetworkData(c, s)
           more == Delivered(t, s)
           a == [o EXCEPT !.received = @ \o more]
<1>5. SynchronizedState(cc) /\ more \in Seq(Byte)
  BY <1>2, <1>3, <1>4, HandleNetworkDataStep DEF EndpointOK, Right, ReceiverOK
<1>6. cc.peer_initial_seq = c.peer_initial_seq
  BY <1>2, <1>3, <1>4, HandleNetworkDataRight
<1>7. c.is_FIN_RECEIVED => t.is_FIN_RECEIVED
  <2>1. CASE "ACK" \notin s.flags
    BY <2>1 DEF AfterAck
  <2>2. CASE "ACK" \in s.flags
    <3>1. s.ack \in Nat /\ s.ack <= d.receive_next /\ Boundary(c, s.ack)
      BY <1>2, <1>3, <1>4 DEF Segment, SentOK, AckOK
    <3>2. SameReceiver(c, HandleAck(c, s.ack))
      BY <1>2, <1>3, <3>1, HandleAckRight
    <3>. QED  BY <2>2, <3>2 DEF AfterAck, SameReceiver
  <2>. QED  BY <2>1, <2>2
<1>8. c.is_FIN_RECEIVED => cc.is_FIN_RECEIVED /\ more = <<>>
  BY <1>7, NothingAfterFin DEF HandleNetworkData
<1> HIDE DEF cc, more
<1>9. ctx' = [ctx EXCEPT ![p] = cc] /\ app' = [app EXCEPT ![p] = a]
  BY <1>1, <1>3 DEF cc, more
<1>10. /\ a.written = o.written /\ a.closed = o.closed
       /\ a.received = o.received \o more
  BY <1>3 DEF AppOK
<1> HIDE DEF a
<1>. QED  BY <1>2, <1>5, <1>6, <1>8, <1>9, <1>10, ReadingPass

(* Every step is one of the streams, or leaves both alone. *)
LEMMA NextRefines ==
  StreamInv /\ StreamInv' /\ [Next]_vars => [Streams!Next]_(Streams!vars)
<1> SUFFICES ASSUME StreamInv, StreamInv', [Next]_vars
             PROVE  [Streams!Next]_(Streams!vars)
  OBVIOUS
<1>1. ASSUME NEW p \in Side, Receive(p) PROVE [Streams!Next]_(Streams!vars)
  BY <1>1, HandshakeRefines, ReceiveSynRcvdRefines, ReceiveSegmentRefines
     DEF Receive
<1>2. ASSUME NEW p \in Side, Connect(p) \/ Timeout(p)
      PROVE  [Streams!Next]_(Streams!vars)
  BY <1>2, HandshakeRefines, QuietRefines DEF Timeout
<1>3. ASSUME NEW p \in Side,
             \/ HandleAppData(p) \/ HandleAppClose(p)
             \/ Drop(p) \/ Store(p) \/ Discard(p)
      PROVE  [Streams!Next]_(Streams!vars)
  BY <1>3, QuietRefines
<1>4. ASSUME NEW p \in Side, Write(p) \/ Close(p)
      PROVE  [Streams!Next]_(Streams!vars)
  BY <1>4, ApplicationRefines
<1>5. CASE UNCHANGED vars
  BY <1>5 DEF vars, Streams!vars, Received, Eof, StreamAligned
<1>. QED  BY <1>1, <1>2, <1>3, <1>4, <1>5 DEF Next

(* Initially nothing is written or read. *)
LEMMA InitRefines == Init => Streams!Init
<1> SUFFICES ASSUME Init PROVE Streams!Init
  OBVIOUS
<1>1. \A p \in Side : /\ app[p].written = 0 /\ app[p].closed = FALSE
                      /\ Received(p) = <<>> /\ Eof(p) = FALSE
  BY DEF Init, InitialContext, Received, Eof
<1>. QED  BY <1>1 DEF Streams!Init

(* STCP implements two reliable byte streams, wherever the handshake put   *)
(* the start of the stream in its place: every pass of a transport thread  *)
(* (transport_init, control_loop) hands the application the next bytes of  *)
(* the peer's stream or the end of file, or changes neither stream,        *)
(* whatever the channel of network.c does to the packets.                  *)
THEOREM StreamsImplemented == Spec => ImplementsStreams
<1>1. Init /\ [][Next]_vars /\ []StreamInv => Streams!Init /\ [][Streams!Next]_(Streams!vars)
  BY InitRefines, NextRefines, PTL
<1>. QED  BY <1>1, StreamInvariant, PTL DEF Spec, ImplementsStreams, Streams!Spec

-----------------------------------------------------------------------------
(* The FIN is last. *)

(* Which context a step may change. *)
LEMMA StepChanges ==
  ASSUME NEW p \in Side, ctx = [q \in Side |-> ctx[q]],
         \/ Connect(p) \/ Receive(p) \/ Timeout(p)
         \/ HandleAppData(p) \/ HandleAppClose(p)
         \/ Write(p) \/ Close(p)
         \/ Drop(p) \/ Store(p) \/ Discard(p)
  PROVE  \A q \in Side : q # p => ctx'[q] = ctx[q]
<1>1. CASE Connect(p) \/ Timeout(p)
  BY <1>1 DEF Connect, Timeout, HandshakeTimeout, HandleTimeout
<1>2. CASE ReceiveSynSent(p) \/ ReceiveListen(p)
  BY <1>2 DEF ReceiveSynSent, ReceiveListen
<1>3. CASE ReceiveSynRcvd(p)
  BY <1>3 DEF ReceiveSynRcvd
<1>4. CASE ReceiveSegment(p)
  BY <1>4 DEF ReceiveSegment
<1>5. CASE HandleAppData(p) \/ HandleAppClose(p)
  BY <1>5 DEF HandleAppData, HandleAppClose
<1>6. CASE Write(p) \/ Close(p) \/ Drop(p) \/ Store(p) \/ Discard(p)
  BY <1>6 DEF Write, Close, Drop, Store, Discard
<1>. QED  BY <1>1, <1>2, <1>3, <1>4, <1>5, <1>6 DEF Receive

(* No pass of p moves next_seq_num past its FIN. *)
LEMMA FinFreezes ==
  ASSUME StreamInv, NEW p \in Side, NEW i \in DOMAIN ctx[p].send_buffer,
         ctx[p].send_buffer[i].fin,
         \/ Connect(p) \/ Receive(p) \/ Timeout(p)
         \/ HandleAppData(p) \/ HandleAppClose(p)
         \/ Write(p) \/ Close(p)
         \/ Drop(p) \/ Store(p) \/ Discard(p)
  PROVE  ctx'[p].next_seq_num = ctx[p].next_seq_num
<1> DEFINE c == ctx[p]
           d == ctx[Peer(p)]
           out == Transit(Peer(p))
           back == Transit(p)
<1>1. /\ ContextOK(c) /\ StateOK(c) /\ TilesOK(c) /\ WriterOK(app[p], c)
      /\ ctx = [q \in Side |-> ctx[q]]
  BY StreamFacts DEF SentRight
<1>2. c.connection_state \notin Opening \cup {"REFUSED"}
  BY <1>1 DEF StateOK
<1>3. SynchronizedState(c)
  BY <1>1, <1>2, ContextFields DEF SynchronizedState, State
<1>4. FinNumbered(c) /\ c.is_FIN_SENT
  BY <1>1, <1>3 DEF TilesOK, NodeOK, FinNumbered
<1>5. /\ ~ Connect(p) /\ ~ ReceiveSynSent(p) /\ ~ ReceiveListen(p)
      /\ ~ ReceiveSynRcvd(p) /\ ~ HandshakeTimeout(p)
  BY <1>2 DEF Connect, ReceiveSynSent, ReceiveListen, ReceiveSynRcvd,
              HandshakeTimeout, Opening
<1>6. ~ HandleAppData(p) /\ ~ HandleAppClose(p)
  BY <1>1, <1>3, <1>4 DEF HandleAppData, HandleAppClose, CloseReported, WriterOK
<1>7. CASE HandleTimeout(p)
  <2> DEFINE failed == Fail(c, "CLOSED", "ECONNABORTED")
             counted == [c EXCEPT !.retransmission_count = @ + 1]
  <2>1. \/ ctx' = [ctx EXCEPT ![p] = failed]
        \/ ctx' = [ctx EXCEPT ![p] = counted]
    BY <1>1, <1>7 DEF HandleTimeout
  <2>2. /\ failed.next_seq_num = c.next_seq_num
        /\ counted.next_seq_num = c.next_seq_num
    BY <1>1 DEF ContextOK, Fail
  <2> HIDE DEF failed, counted
  <2>. QED  BY <1>1, <2>1, <2>2
<1>8. CASE ReceiveSegment(p)
  <2>1. PICK s \in Arriving(p) : ctx' = [ctx EXCEPT ![p] = HandleNetworkData(c, s)]
    BY <1>8 DEF ReceiveSegment
  <2>2. /\ Right(c, d, out, back) /\ TilesOK(d) /\ ArrivedOK(c, d)
        /\ \A m \in back : /\ m \in Segment /\ SentOK(m, d)
                           /\ CarriedOK(m, d) /\ AckOK(m, c)
    BY <1>3, StreamFacts
  <2>3. s \in back /\ c.connection_state \in Connected
    BY <1>8, ArrivingTransit DEF ReceiveSegment, StreamInv
  <2>4. HandleNetworkData(c, s).next_seq_num = c.next_seq_num
    BY <1>4, <2>2, <2>3, HandleNetworkDataRight
  <2>. QED  BY <1>1, <2>1, <2>4
<1>9. CASE Write(p) \/ Close(p) \/ Drop(p) \/ Store(p) \/ Discard(p)
  BY <1>9 DEF Write, Close, Drop, Store, Discard
<1>. QED  BY <1>5, <1>6, <1>7, <1>8, <1>9 DEF Receive, Timeout

(* An endpoint numbers nothing after its FIN, also when the FIN had to     *)
(* wait for room in the window (handle_app_close, handle_ack_from_peer,    *)
(* handle_app_data).                                                       *)
THEOREM FinAlwaysLast == Spec => FinIsLast
<1> DEFINE Frozen == \A p \in Side :
             (\E i \in DOMAIN ctx[p].send_buffer : ctx[p].send_buffer[i].fin) =>
               ctx'[p].next_seq_num = ctx[p].next_seq_num
<1>1. ASSUME StreamInv, Next PROVE Frozen
  <2>1. ctx = [q \in Side |-> ctx[q]]
    BY <1>1 DEF StreamInv, IInv, TypeOK
  <2>2. PICK p \in Side : \/ Connect(p) \/ Receive(p) \/ Timeout(p)
                          \/ HandleAppData(p) \/ HandleAppClose(p)
                          \/ Write(p) \/ Close(p)
                          \/ Drop(p) \/ Store(p) \/ Discard(p)
    BY <1>1 DEF Next
  <2>3. \A q \in Side : q # p => ctx'[q] = ctx[q]
    BY <2>1, <2>2, StepChanges
  <2>4. (\E i \in DOMAIN ctx[p].send_buffer : ctx[p].send_buffer[i].fin) =>
           ctx'[p].next_seq_num = ctx[p].next_seq_num
    BY <1>1, <2>2, FinFreezes
  <2>. QED  BY <2>3, <2>4
<1>2. StreamInv /\ [Next]_vars => [Frozen]_vars
  BY <1>1
<1>. QED  BY <1>2, StreamInvariant, PTL DEF Spec, FinIsLast
=============================================================================
