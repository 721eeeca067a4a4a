--------------------------- MODULE ReceiveWindow ---------------------------
(***************************************************************************)
(* The receive window of an STCP endpoint (hw3/transport.c), as the value  *)
(* it represents: which sequence numbers past receive_next have arrived    *)
(* and what each of them carries.  The C code keeps a linked list of       *)
(* segments; module SegmentList models that list and is checked to         *)
(* implement the operators below.                                          *)
(*                                                                         *)
(* A byte is the position (1, 2, ...) it has in the sender's stream, so a  *)
(* byte that is misplaced, repeated or skipped shows.  FIN occupies one    *)
(* sequence number, like in the code.                                      *)
(***************************************************************************)
EXTENDS Naturals, Sequences

CONSTANT Window      \* DEFAULT_WIN_SIZE

ASSUME WindowAssumption == Window \in Nat \ {0}

FIN == 0             \* what a FIN puts at its sequence number
Byte == Nat \ {FIN}

(* An empty list->head. *)
EmptyBuffer == [x \in {} |-> FIN]

-----------------------------------------------------------------------------
(* seq_end of a segment: one past its last sequence number. *)
EndOf(seq, data, fin) == seq + Len(data) + (IF fin THEN 1 ELSE 0)

(* What the segment puts at sequence number x. *)
ContentAt(seq, data, x) ==
  IF x < seq + Len(data) THEN data[(x - seq) + 1] ELSE FIN

(* The part of a segment that lies in the receive window: the front-side   *)
(* and back-side cuts of handle_incoming_segment().                        *)
Trimmed(rnext, seq, data, fin) ==
  (seq .. (EndOf(seq, data, fin) - 1)) \cap (rnext .. (rnext + Window - 1))

(* insert_segment_to_receive_buffer_robust(): what is already buffered     *)
(* stays, only the gaps are filled.                                        *)
Insert(buffer, rnext, seq, data, fin) ==
  [x \in DOMAIN buffer \cup Trimmed(rnext, seq, data, fin) |->
     IF x \in DOMAIN buffer THEN buffer[x] ELSE ContentAt(seq, data, x)]

-----------------------------------------------------------------------------
(* flush_in_order_segments_from_receive_buffer() stops at the first        *)
(* sequence number that is missing, and after a FIN.                       *)
FlushStops(buffer, rnext, x) ==
  \/ x \notin DOMAIN buffer
  \/ x > rnext /\ buffer[x - 1] = FIN

(* receive_next after the flush. *)
FlushedTo(buffer, rnext) ==
  CHOOSE x \in rnext .. (rnext + Window) :
    /\ FlushStops(buffer, rnext, x)
    /\ \A y \in rnext .. (x - 1) : ~ FlushStops(buffer, rnext, y)

(* The flush ended by taking a FIN out of the buffer. *)
FlushesFin(buffer, rnext) ==
  LET x == FlushedTo(buffer, rnext) IN x > rnext /\ buffer[x - 1] = FIN

(* The bytes given to stcp_app_send(), in order. *)
FlushedBytes(buffer, rnext) ==
  LET x == FlushedTo(buffer, rnext)
      n == IF FlushesFin(buffer, rnext) THEN (x - rnext) - 1 ELSE x - rnext
  IN [i \in 1 .. n |-> buffer[rnext + i - 1]]

(* Mutant: the flushed nodes stay in the list. *)
UnflushedAll(buffer, rnext) == buffer

(* What stays in the list. *)
Unflushed(buffer, rnext) ==
  [x \in {y \in DOMAIN buffer : y >= FlushedTo(buffer, rnext)} |-> buffer[x]]
=============================================================================
