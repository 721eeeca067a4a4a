---------------------------- MODULE SegmentList ----------------------------
(***************************************************************************)
(* The receive buffer of hw3/transport.c as the code keeps it: a linked    *)
(* list of segments, an interval merge that fills the gaps between its     *)
(* nodes, and the flush that takes nodes off its head.                     *)
(***************************************************************************)
EXTENDS ReceiveWindow

CONSTANTS Total, First

ASSUME SegmentAssumption == Total \in Nat /\ First \in Nat

VARIABLES
  receive_next,      \* ctx->receive_next
  receive_buffer,    \* ctx->receive_buffer: its nodes, from head on
  received,          \* what stcp_app_send() was given
  is_FIN_RECEIVED    \* ctx->is_FIN_RECEIVED

vars == <<receive_next, receive_buffer, received, is_FIN_RECEIVED>>

Lower(a, b) == IF a < b THEN a ELSE b

NodeEnd(n) == EndOf(n.seq, n.data, n.fin)

-----------------------------------------------------------------------------
(* insert_segment_to_receive_buffer_robust() *)

(* Mutant: every fragment of a FIN segment is taken for its end. *)
PieceWithFin(s, from, to) ==
  [seq |-> from,
   data |-> SubSeq(s.data, (from - s.seq) + 1,
                   (to - s.seq) - (IF s.fin THEN 1 ELSE 0)),
   fin |-> s.fin]

(* The node for the part [from, to) of segment s. *)
Piece(s, from, to) ==
  LET fin_here == to = NodeEnd(s) /\ s.fin
  IN [seq |-> from,
      data |-> SubSeq(s.data, (from - s.seq) + 1,
                      (to - s.seq) - (IF fin_here THEN 1 ELSE 0)),
      fin |-> fin_here]

(* insert_before_node() or insert_tail(), if there is anything to insert. *)
Fill(s, from, to) == IF from < to THEN <<Piece(s, from, to)>> ELSE <<>>

(* Mutant: pos is not moved past a node it reaches. *)
PastUnmoved(s, pos, node) ==
  IF pos < node.seq THEN Lower(node.seq, NodeEnd(s)) ELSE pos

(* pos after a node: past the gap before it and past the node itself. *)
Past(s, pos, node) ==
  LET seg_end == NodeEnd(s)
      after_gap == IF pos < node.seq THEN Lower(node.seq, seg_end) ELSE pos
  IN IF after_gap < NodeEnd(node) THEN Lower(NodeEnd(node), seg_end)
     ELSE after_gap

(* One turn of the loop: the gap before a node is filled, and pos moves on. *)
Merge(u, s, node) ==
  [list |-> u.list \o Fill(s, u.pos, Lower(node.seq, NodeEnd(s))) \o <<node>>,
   pos |-> Past(s, u.pos, node)]

(* upto[i] is what the loop has made of the first i nodes of the list.     *)
(* When pos is at seg_end the code leaves it; the rest stays as it is.     *)
InsertRobust(list, s) ==
  LET upto[i \in 0 .. Len(list)] ==
        IF i = 0 THEN [list |-> <<>>, pos |-> s.seq] ELSE Merge(upto[i - 1], s, list[i])
      u == upto[Len(list)]
  IN u.list \o Fill(s, u.pos, NodeEnd(s))

-----------------------------------------------------------------------------
(* flush_in_order_segments_from_receive_buffer(): upto[i] is what the loop *)
(* has done when it has looked at the first i nodes.                       *)

Take(u, list, i) ==
  IF u.taken = i - 1 /\ ~ u.fin /\ list[i].seq = u.next
  THEN [next |-> NodeEnd(list[i]), bytes |-> u.bytes \o list[i].data,
        taken |-> i, fin |-> list[i].fin]
  ELSE u

Flush(list, rnext) ==
  LET upto[i \in 0 .. Len(list)] ==
        IF i = 0
        THEN [next |-> rnext, bytes |-> <<>>, taken |-> 0, fin |-> FALSE]
        ELSE Take(upto[i - 1], list, i)
  IN upto[Len(list)]

-----------------------------------------------------------------------------
(* handle_incoming_segment() *)

(* Mutant: the front is cut off the sequence number but not off the data. *)
CutFrontSeqOnly(s, win_start) ==
  IF s.seq < win_start THEN [s EXCEPT !.seq = win_start] ELSE s

(* "Drop already received data from front-side" *)
CutFront(s, win_start) ==
  IF s.seq < win_start
  THEN [s EXCEPT !.seq = win_start,
                 !.data = SubSeq(@, (win_start - s.seq) + 1, Len(@))]
  ELSE s

(* "Drop beyond the receive window from back-side": the FIN goes first. *)
CutBack(s, win_end) ==
  LET cut == NodeEnd(s) - win_end
      bytes == IF s.fin THEN cut - 1 ELSE cut
  IN IF NodeEnd(s) > win_end
     THEN [s EXCEPT !.fin = FALSE, !.data = SubSeq(@, 1, Len(@) - bytes)]
     ELSE s

Trim(s, win_start) == CutBack(CutFront(s, win_start), win_start + Window)

Receive(s) ==
  LET list == InsertRobust(receive_buffer, Trim(s, receive_next))
      flush == Flush(list, receive_next)
  IN /\ ~ is_FIN_RECEIVED
     /\ NodeEnd(s) > receive_next
     /\ s.seq < receive_next + Window
     /\ receive_next' = flush.next
     /\ receive_buffer' = SubSeq(list, flush.taken + 1, Len(list))
     /\ received' = received \o flush.bytes
     /\ is_FIN_RECEIVED' = flush.fin

-----------------------------------------------------------------------------
Init ==
  /\ receive_next = First
  /\ receive_buffer = <<>>
  /\ received = <<>>
  /\ is_FIN_RECEIVED = FALSE

(* What the list holds, by sequence number. *)
ContentOf(list) ==
  [x \in UNION {list[i].seq .. (NodeEnd(list[i]) - 1) : i \in DOMAIN list} |->
     LET i == CHOOSE k \in DOMAIN list :
                list[k].seq <= x /\ x < NodeEnd(list[k])
     IN ContentAt(list[i].seq, list[i].data, x)]

Abstract == INSTANCE Reassembly WITH receive_buffer <- ContentOf(receive_buffer)

Next == \E s \in Abstract!Segments : Abstract!Carried(s) /\ Receive(s)

Spec == Init /\ [][Next]_vars

-----------------------------------------------------------------------------
(* "Maintains the buffer as a sorted, non-overlapping list"                *)
(* (readme.md:66), without empty nodes, inside the receive window, with a  *)
(* gap before its head (or the flush would have taken it) and the FIN only *)
(* at its end.                                                             *)
SortedDisjoint ==
  LET b == receive_buffer IN
  /\ \A i \in DOMAIN b :
       /\ b[i].seq < NodeEnd(b[i])
       /\ NodeEnd(b[i]) <= receive_next + Window
       /\ b[i].fin => i = Len(b)
       /\ i < Len(b) => NodeEnd(b[i]) <= b[i + 1].seq
  /\ b # <<>> => receive_next < Head(b).seq

(* The list implements the window of module Reassembly, and with it the    *)
(* operators that module STCP uses for the receive buffer.                 *)
ImplementsReassembly == Abstract!Spec

(* What the application reads is exact, whatever pieces arrived. *)
ReadsExactly == Abstract!Faithful

-----------------------------------------------------------------------------
(* The inductive invariant behind them, proved in SegmentList_proofs.      *)

(* A node is a part of the peer's stream.                                  *)
Cut(n) ==
  /\ n \in [seq : Nat, data : Seq(Nat), fin : BOOLEAN]
  /\ First <= n.seq /\ n.seq + Len(n.data) <= First + Total
  /\ \A k \in DOMAIN n.data : n.data[k] = (n.seq - First) + k
  /\ n.fin => n.seq + Len(n.data) = First + Total

(* A list of such parts, none empty, in order and disjoint.                *)
Ordered(b) ==
  /\ \A i \in DOMAIN b : Cut(b[i]) /\ b[i].seq < NodeEnd(b[i])
  /\ \A i, j \in DOMAIN b : i < j => NodeEnd(b[i]) <= b[j].seq

SegInv ==
  /\ receive_buffer \in Seq([seq : Nat, data : Seq(Nat), fin : BOOLEAN])
  /\ Ordered(receive_buffer)
  /\ \A i \in DOMAIN receive_buffer :
       /\ receive_next < receive_buffer[i].seq
       /\ NodeEnd(receive_buffer[i]) <= receive_next + Window
  /\ received \in Seq(Nat) /\ is_FIN_RECEIVED \in BOOLEAN
  /\ Len(received) <= Total /\ \A k \in DOMAIN received : received[k] = k
  /\ is_FIN_RECEIVED => Len(received) = Total
  /\ receive_next = First + Len(received) + (IF is_FIN_RECEIVED THEN 1 ELSE 0)
=============================================================================
