---------------------------- MODULE STCPStreams ----------------------------
(***************************************************************************)
(* The byte streams that a connection of module STCP implements, and the   *)
(* inductive invariant behind SendBufferTiles, StreamIntact and CleanClose *)
(* and behind the refinement: checked by TLC, proved in STCP_proofs.       *)
(***************************************************************************)
EXTENDS STCPInvariant

-----------------------------------------------------------------------------
(* The sender.  c is an endpoint, a the application on top of it.          *)

(* The FIN has its sequence number: it is not waiting for the window.      *)
FinNumbered(c) == c.is_FIN_SENT /\ ~ c.is_APP_CLOSE_QUEUED

(* The FIN is acknowledged. *)
Finished(c) == FinNumbered(c) /\ c.send_base = c.next_seq_num

(* The state of the connection and the flags of the context agree. *)
StateOK(c) ==
  /\ c.is_APP_CLOSE_QUEUED => c.is_FIN_SENT
  /\ c.connection_state \in Opening \cup {"REFUSED"} =>
       /\ ~ c.is_FIN_SENT /\ ~ c.is_FIN_RECEIVED
       /\ c.send_buffer = <<>> /\ c.receive_buffer = EmptyBuffer
       /\ c.receive_next <= ISN + 1 /\ c.next_seq_num <= ISN + 1
  /\ c.connection_state \in Opening \cup Connected => c.errno = "none"
  /\ c.connection_state \in Connected =>
       /\ c.is_FIN_SENT <=>
            c.connection_state \in {"FIN_WAIT_1", "FIN_WAIT_2", "CLOSING", "LAST_ACK"}
       /\ c.is_FIN_RECEIVED <=>
            c.connection_state \in {"CLOSING", "CLOSE_WAIT", "LAST_ACK"}
  /\ c.connection_state = "FIN_WAIT_2" => Finished(c)
  /\ c.connection_state = "CLOSED" /\ c.errno = "none" =>
       Finished(c) /\ c.is_FIN_RECEIVED

(* A node of the send buffer lies between send_base and next_seq_num, the  *)
(* byte at each of its sequence numbers is the one of that position in the *)
(* stream, and it is the FIN just when it ends at next_seq_num for good.   *)
NodeOK(n, c) ==
  /\ c.send_base <= n.seq /\ n.seq < NodeEnd(n) /\ NodeEnd(n) <= c.next_seq_num
  /\ n.fin <=> FinNumbered(c) /\ NodeEnd(n) = c.next_seq_num
  /\ n.fin => n.data = <<>>
  /\ \A k \in DOMAIN n.data : n.data[k] = (n.seq - ISN) + (k - 1)

(* The nodes follow each other without gap or overlap, from send_base to   *)
(* next_seq_num.                                                           *)
TilesOK(c) ==
  LET b == c.send_buffer IN
  SynchronizedState(c) =>
    /\ ISN < c.send_base
    /\ \A i \in DOMAIN b :
         /\ NodeOK(b[i], c)
         /\ b[i].seq = IF i = 1 THEN c.send_base ELSE NodeEnd(b[i - 1])
    /\ \A i, j \in DOMAIN b : i < j => NodeEnd(b[i]) <= b[j].seq
    /\ c.next_seq_num = IF b = <<>> THEN c.send_base ELSE NodeEnd(b[Len(b)])
    /\ \A x \in c.send_base .. (c.next_seq_num - 1) :
         \E i \in DOMAIN b : b[i].seq <= x /\ x < NodeEnd(b[i])

(* How many bytes c has numbered. *)
Taken(c) ==
  c.next_seq_num - (ISN + (IF FinNumbered(c) THEN 2 ELSE 1))

(* The last byte in the first i buffers of the queue. *)
LastByte(queue, taken, i) ==
  IF i = 0 THEN taken ELSE queue[i][Len(queue[i])]

(* What mywrite() left in the queue is the rest of the stream, in order. *)
QueueOK(queue, taken, written) ==
  /\ taken <= written
  /\ \A i \in DOMAIN queue :
       /\ Len(queue[i]) > 0
       /\ LastByte(queue, taken, i) <= written
       /\ \A k \in DOMAIN queue[i] :
            queue[i][k] = LastByte(queue, taken, i - 1) + k
  /\ LastByte(queue, taken, Len(queue)) = written

(* The application's side of the sender: the close is reported once, and   *)
(* after all that was written.                                             *)
WriterOK(a, c) ==
  IF SynchronizedState(c)
  THEN /\ Taken(c) \in Nat
       /\ QueueOK(a.app_recv_queue, Taken(c), a.written)
       /\ a.close_requested => a.closed /\ ~ c.is_FIN_SENT
       /\ c.is_FIN_SENT => a.closed /\ a.app_recv_queue = <<>>
  ELSE /\ a.app_recv_queue = <<>> /\ a.written = 0 /\ a.received = <<>>
       /\ ~ a.closed /\ ~ a.close_requested

-----------------------------------------------------------------------------
(* The receiver d of what c sends. *)

(* A place where no node of c is cut. *)
Boundary(c, x) ==
  \/ x <= c.send_base
  \/ \E i \in DOMAIN c.send_buffer : x = NodeEnd(c.send_buffer[i])

(* The sequence numbers of a node. *)
Span(n) == n.seq .. (NodeEnd(n) - 1)

(* What c has put at sequence number x. *)
ContentOf(c, x) ==
  IF FinNumbered(c) /\ x = c.next_seq_num - 1 THEN FIN ELSE x - ISN

(* The receive buffer holds what c has sent, whole nodes of it, and the    *)
(* receiver has seen the FIN just when it has all that c will ever number. *)
ArrivedOK(d, c) ==
  /\ \A x \in DOMAIN d.receive_buffer : d.receive_buffer[x] = ContentOf(c, x)
  /\ SynchronizedState(d) =>
       /\ ISN < d.receive_next
       /\ d.is_FIN_RECEIVED <=>
            FinNumbered(c) /\ d.receive_next = c.next_seq_num
  /\ SynchronizedState(c) =>
       /\ Boundary(c, d.receive_next)
       /\ \A i \in DOMAIN c.send_buffer :
            \A x, y \in Span(c.send_buffer[i]) :
              x \in DOMAIN d.receive_buffer => y \in DOMAIN d.receive_buffer

(* A segment m that c sent and that may still arrive: if it carries        *)
(* anything, that is acknowledged, or a node c still keeps; and where it   *)
(* starts no node is cut.                                                  *)
CarriedOK(m, c) ==
  /\ CarriesData(m) =>
       /\ SynchronizedState(c)
       /\ \/ SegmentEnd(m) <= c.send_base
          \/ \E i \in DOMAIN c.send_buffer :
               LET n == c.send_buffer[i] IN
               m.seq = n.seq /\ m.data = n.data /\ IsFin(m) = n.fin
  /\ SynchronizedState(c) => Boundary(c, m.seq)

(* A segment m on its way to c acknowledges whole nodes. *)
AckOK(m, c) == SynchronizedState(c) => Boundary(c, m.ack)

(* How many bytes d has passed up. *)
Passed(d) ==
  d.receive_next - (ISN + (IF d.is_FIN_RECEIVED THEN 2 ELSE 1))

(* The application has read the bytes in order, from where the handshake   *)
(* put the start of the stream, up to receive_next.                        *)
ReaderOK(p) ==
  SynchronizedState(ctx[p]) /\ StreamAligned(p) =>
    /\ Passed(ctx[p]) \in Nat
    /\ app[p].received = [i \in 1 .. Passed(ctx[p]) |-> i]

-----------------------------------------------------------------------------
(* The whole. *)

(* As long as the passive end has not opened it has sent nothing to be     *)
(* acknowledged, so a bare ACK to it is the one of the SYNACK.             *)
AnswersOK ==
  ~ SynchronizedState(ctx["passive"]) =>
    \A m \in Transit("passive") :
      CarriesData(m) \/ "SYN" \in m.flags \/ m.seq = ISN + 1

(* What holds of all that c has sent: what it keeps, what d has of it,     *)
(* what is on its way to d, and what is on its way back.                   *)
SentRight(c, d, out, back) ==
  /\ TilesOK(c) /\ ArrivedOK(d, c)
  /\ \A m \in out : CarriedOK(m, c)
  /\ \A m \in back : AckOK(m, c)

EndOK(p) ==
  /\ StateOK(ctx[p])
  /\ SentRight(ctx[p], ctx[Peer(p)], Transit(Peer(p)), Transit(p))
  /\ WriterOK(app[p], ctx[p])
  /\ ReaderOK(p)

(* Why the streams are intact: the nodes an endpoint keeps tile what is    *)
(* unacknowledged and carry the bytes of those positions, what is in       *)
(* transit and in the peer's receive buffer is whole nodes of it, and the  *)
(* application queue continues where the nodes end.                        *)
StreamInv == IInv /\ (\A p \in Side : EndOK(p)) /\ AnswersOK

-----------------------------------------------------------------------------
(* The abstract specification. *)

(* What p's application has read and been told.  A stream whose start the  *)
(* handshake misplaced (InOrderDelivery) counts as one that never          *)
(* delivers.                                                               *)
Received(p) == IF StreamAligned(p) THEN app[p].received ELSE <<>>

Eof(p) == StreamAligned(p) /\ ctx[p].is_FIN_RECEIVED

Streams == INSTANCE ByteStreams WITH
  End      <- Side,
  written  <- [p \in Side |-> app[p].written],
  closed   <- [p \in Side |-> app[p].closed],
  received <- [p \in Side |-> Received(p)],
  eof      <- [p \in Side |-> Eof(p)]

(* STCP implements two reliable byte streams, where the handshake put the  *)
(* start of the stream in its place: every pass of a transport thread is a *)
(* step of one stream or leaves both alone.                                *)
ImplementsStreams == Streams!Spec
=============================================================================
