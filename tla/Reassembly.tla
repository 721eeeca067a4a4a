----------------------------- MODULE Reassembly -----------------------------
(***************************************************************************)
(* The receiving half of an STCP endpoint alone: a peer whose stream has   *)
(* Total bytes and then a FIN sends any piece of it, in any order, any     *)
(* number of times, cut anywhere.  This is the specification; SegmentList  *)
(* is the linked list of hw3/transport.c that implements it.               *)
(***************************************************************************)
EXTENDS ReceiveWindow

CONSTANTS
  Total,         \* bound: how many bytes the peer's stream has
  First          \* the sequence number of its first byte

VARIABLES
  receive_next, receive_buffer, received, is_FIN_RECEIVED

vars == <<receive_next, receive_buffer, received, is_FIN_RECEIVED>>

(* Every segment a peer can cut from its stream: the bytes from sequence   *)
(* number seq on, and perhaps the FIN after the last one.                  *)
Segments ==
  {[seq |-> First + a, data |-> [i \in 1 .. (b - a) |-> a + i], fin |-> f] :
     a \in 0 .. Total, b \in 0 .. Total, f \in BOOLEAN}

Carried(s) ==
  /\ Len(s.data) > 0 \/ s.fin
  /\ s.fin => EndOf(s.seq, s.data, TRUE) = First + Total + 1

Init ==
  /\ receive_next = First
  /\ receive_buffer = EmptyBuffer
  /\ received = <<>>
  /\ is_FIN_RECEIVED = FALSE

(* handle_incoming_segment(), for what is new in the window. *)
Receive(s) ==
  LET buffer == Insert(receive_buffer, receive_next, s.seq, s.data, s.fin)
  IN /\ ~ is_FIN_RECEIVED
     /\ EndOf(s.seq, s.data, s.fin) > receive_next
     /\ s.seq < receive_next + Window
     /\ receive_next' = FlushedTo(buffer, receive_next)
     /\ receive_buffer' = Unflushed(buffer, receive_next)
     /\ received' = received \o FlushedBytes(buffer, receive_next)
     /\ is_FIN_RECEIVED' = FlushesFin(buffer, receive_next)

Next == \E s \in Segments : Carried(s) /\ Receive(s)

Spec == Init /\ [][Next]_vars

-----------------------------------------------------------------------------
(* The bytes read are the first bytes of the stream, in order, and all of  *)
(* them when the FIN has been taken: no cut, overlap, duplicate or order   *)
(* of arrival changes what the application reads.                          *)
Faithful ==
  /\ received = [i \in 1 .. Len(received) |-> i]
  /\ is_FIN_RECEIVED => Len(received) = Total
  /\ receive_next = First + Len(received) + (IF is_FIN_RECEIVED THEN 1 ELSE 0)
=============================================================================
