-------------------------------- MODULE STCP --------------------------------
(***************************************************************************)
(* STCP (hw3/transport.c): two endpoints that open a connection with a     *)
(* three-way handshake, exchange bytes under a Go-Back-N window and close  *)
(* it with FINs, over the unreliable channel of hw3/network.c.             *)
(*                                                                         *)
(* An endpoint is one transport thread.  Each of its actions is one pass   *)
(* of the handshake loops or of control_loop(): what                       *)
(* stcp_wait_for_event() returned and all that the handler for it does,    *)
(* the packets it sends included.  A thread touches its own context_t and  *)
(* the queues, so passes of the two threads interleave.                    *)
(***************************************************************************)
EXTENDS ReceiveWindow

CONSTANTS
  MSS,               \* STCP_MSS: the most bytes in a segment
  MaxRetx,           \* MAX_RETRANSMISSION_COUNT
  AppBytes,          \* bound: how many bytes each application writes
  MaxWrite,          \* bound: the most bytes in one mywrite()
  MaxFaults,         \* bound: how many packets the channel mistreats
  PrematureTimeouts  \* whether RTO may expire while packets are in transit

Side == {"active", "passive"}

ASSUME STCPAssumption ==
  /\ MSS \in Nat \ {0}
  /\ MaxRetx \in Nat
  /\ AppBytes \in [Side -> Nat]
  /\ MaxWrite \in Nat \ {0}
  /\ MaxFaults \in Nat
  /\ PrematureTimeouts \in BOOLEAN

Peer(p) == IF p = "active" THEN "passive" ELSE "active"

VARIABLES
  ctx,      \* ctx[p]: the context_t of endpoint p
  app,      \* app[p]: the application side of p's mysocket
  wire,     \* wire[p]: packets handed to _network_send() for p, in order
  copy,     \* copy[p]: copy_buffer of the channel towards p
  faults    \* how many packets the channel has mistreated so far

vars == <<ctx, app, wire, copy, faults>>

-----------------------------------------------------------------------------
(* Segments, and the nodes of the send buffer. *)

ISN == 1             \* generate_initial_seq_num()

Flag == {"SYN", "ACK", "FIN"}

Segment == [flags : SUBSET Flag, seq : Nat, ack : Nat, data : Seq(Byte)]

Header(flags, seq, ack) ==
  [flags |-> flags, seq |-> seq, ack |-> ack, data |-> <<>>]

IsFin(s) == "FIN" \in s.flags

SegmentEnd(s) == EndOf(s.seq, s.data, IsFin(s))

(* segment_t, as the send buffer keeps it for retransmission *)
Node == [seq : Nat, data : Seq(Byte), fin : BOOLEAN]

NodeEnd(n) == EndOf(n.seq, n.data, n.fin)

(* The packet for a node: ACK, and FIN if the node is one. *)
Packet(n, ack) ==
  [flags |-> IF n.fin THEN {"ACK", "FIN"} ELSE {"ACK"},
   seq |-> n.seq, ack |-> ack, data |-> n.data]

(* Mutant: "end < ack" for "end <= ack" keeps an acknowledged node.        *)
DequeueStrictly(buffer, ack) ==
  LET Kept == {i \in 1 .. Len(buffer) : NodeEnd(buffer[i]) >= ack}
  IN IF Kept = {} THEN <<>>
     ELSE SubSeq(buffer,
                 CHOOSE i \in Kept : \A j \in Kept : i <= j, Len(buffer))

(* dequeue_send_buffer(): drop the nodes at the head that end by ack. *)
Dequeue(buffer, ack) ==
  LET Kept == {i \in 1 .. Len(buffer) : NodeEnd(buffer[i]) > ack}
  IN IF Kept = {} THEN <<>>
     ELSE SubSeq(buffer,
                 CHOOSE i \in Kept : \A j \in Kept : i <= j, Len(buffer))

(* resend_send_buffer(): Go-Back-N, every node again. *)
Resend(c) ==
  [i \in 1 .. Len(c.send_buffer) |-> Packet(c.send_buffer[i], c.receive_next)]

-----------------------------------------------------------------------------
(* Connection states.  The first five are where the code is before or      *)
(* instead of control_loop(); the others are stcp_state_t.                 *)

Opening == {"IDLE", "LISTEN", "SYN_SENT", "SYN_RCVD"}

Connected == {"ESTABLISHED", "FIN_WAIT_1", "FIN_WAIT_2", "CLOSING",
              "CLOSE_WAIT", "LAST_ACK"}

State == Opening \cup Connected \cup {"CLOSED", "REFUSED"}

(* Mutant: FIN_WAIT_1 does not wait for the acknowledgement of its FIN.    *)
TransitionHasty(state, event) ==
  CASE state = "ESTABLISHED" /\ event = "SEND_FIN" -> "FIN_WAIT_1"
    [] state = "ESTABLISHED" /\ event = "RECV_FIN" -> "CLOSE_WAIT"
    [] state = "FIN_WAIT_1"  /\ event = "RECV_ACK" -> "FIN_WAIT_2"
    [] state = "CLOSE_WAIT"  /\ event = "SEND_FIN" -> "LAST_ACK"
    [] state = "LAST_ACK"    /\ event = "RECV_ACK" -> "CLOSED"
    [] state \in {"FIN_WAIT_1", "FIN_WAIT_2"} /\ event = "RECV_FIN" -> "CLOSED"
    [] OTHER -> state

(* Mutant: no way out of FIN_WAIT_2. *)
TransitionStuck(state, event) ==
  CASE state = "ESTABLISHED" /\ event = "SEND_FIN" -> "FIN_WAIT_1"
    [] state = "ESTABLISHED" /\ event = "RECV_FIN" -> "CLOSE_WAIT"
    [] state = "FIN_WAIT_1"  /\ event = "RECV_ACK" -> "FIN_WAIT_2"
    [] state = "FIN_WAIT_1"  /\ event = "RECV_FIN" -> "CLOSING"
    [] state = "CLOSING"     /\ event = "RECV_ACK" -> "CLOSED"
    [] state = "CLOSE_WAIT"  /\ event = "SEND_FIN" -> "LAST_ACK"
    [] state = "LAST_ACK"    /\ event = "RECV_ACK" -> "CLOSED"
    [] OTHER -> state

(* transition_state() *)
Transition(state, event) ==
  CASE state = "ESTABLISHED" /\ event = "SEND_FIN" -> "FIN_WAIT_1"
    [] state = "ESTABLISHED" /\ event = "RECV_FIN" -> "CLOSE_WAIT"
    [] state = "FIN_WAIT_1"  /\ event = "RECV_ACK" -> "FIN_WAIT_2"
    [] state = "FIN_WAIT_1"  /\ event = "RECV_FIN" -> "CLOSING"
    [] state = "FIN_WAIT_2"  /\ event = "RECV_FIN" -> "CLOSED"
    [] state = "CLOSING"     /\ event = "RECV_ACK" -> "CLOSED"
    [] state = "CLOSE_WAIT"  /\ event = "SEND_FIN" -> "LAST_ACK"
    [] state = "LAST_ACK"    /\ event = "RECV_ACK" -> "CLOSED"
    [] OTHER -> state

Errno == {"none", "ECONNREFUSED", "ECONNABORTED"}

(* calloc() and the assignments of transport_init() *)
InitialContext(state) ==
  [connection_state     |-> state,
   errno                |-> "none",
   is_APP_CLOSE_QUEUED  |-> FALSE,
   is_FIN_SENT          |-> FALSE,
   is_FIN_RECEIVED      |-> FALSE,
   peer_initial_seq     |-> 0,
   next_seq_num         |-> ISN,
   send_base            |-> ISN,
   send_buffer          |-> <<>>,
   receive_next         |-> 0,
   receive_buffer       |-> EmptyBuffer,
   retransmission_count |-> 0]

(* win_remain > 0: send_base + DEFAULT_WIN_SIZE is past next_seq_num *)
WinRemain(c) == (c.send_base + Window) - c.next_seq_num

WindowOpen(c) == c.next_seq_num < c.send_base + Window

WaitingForAck(c) == c.send_base # c.next_seq_num

(* The bare acknowledgement. *)
Ack(c) == Header({"ACK"}, c.next_seq_num, c.receive_next)

Established(c) ==
  [c EXCEPT !.connection_state = "ESTABLISHED", !.retransmission_count = 0]

(* The handshake or the connection is given up. *)
Fail(c, state, errno) == [c EXCEPT !.connection_state = state, !.errno = errno]

-----------------------------------------------------------------------------
(* handle_ack_from_peer() *)

AckAccepted(c, ack) == c.send_base < ack /\ ack <= c.next_seq_num

FinNode(c) == [seq |-> c.next_seq_num, data |-> <<>>, fin |-> TRUE]

EnqueueFin(c) ==
  [c EXCEPT !.send_buffer = Append(@, FinNode(c)), !.next_seq_num = @ + 1]

Acknowledged(c, ack) ==
  [c EXCEPT !.send_base = ack,
            !.send_buffer = Dequeue(@, ack),
            !.retransmission_count = 0]

(* Mutant: the queued close is never cleared. *)
ReleaseFinAgain(c) == IF c.is_APP_CLOSE_QUEUED THEN EnqueueFin(c) ELSE c

ReleaseFin(c) ==
  IF c.is_APP_CLOSE_QUEUED
  THEN [EnqueueFin(c) EXCEPT !.is_APP_CLOSE_QUEUED = FALSE]
  ELSE c

FinAcknowledged(c) ==
  IF c.is_FIN_SENT /\ c.send_base = c.next_seq_num
  THEN [c EXCEPT !.connection_state = Transition(@, "RECV_ACK")]
  ELSE c

HandleAck(c, ack) ==
  IF AckAccepted(c, ack)
  THEN FinAcknowledged(ReleaseFin(Acknowledged(c, ack)))
  ELSE c

(* The FIN that was waiting for room in the window. *)
SentOnAck(c, ack) ==
  IF AckAccepted(c, ack) /\ c.is_APP_CLOSE_QUEUED
  THEN <<Packet(FinNode(c), c.receive_next)>>
  ELSE <<>>

-----------------------------------------------------------------------------
(* handle_incoming_segment(), for a segment with payload or FIN *)

CarriesData(s) == Len(s.data) > 0 \/ IsFin(s)

TooOld(c, s) == SegmentEnd(s) <= c.receive_next

TooNew(c, s) == s.seq >= c.receive_next + Window

Acceptable(c, s) ==
  CarriesData(s) /\ ~ c.is_FIN_RECEIVED /\ ~ TooOld(c, s) /\ ~ TooNew(c, s)

Buffered(c, s) ==
  Insert(c.receive_buffer, c.receive_next, s.seq, s.data, IsFin(s))

Flushed(c, buffer) ==
  LET fin == FlushesFin(buffer, c.receive_next)
  IN [c EXCEPT
        !.receive_next = FlushedTo(buffer, c.receive_next),
        !.receive_buffer = Unflushed(buffer, c.receive_next),
        !.is_FIN_RECEIVED = fin,
        !.connection_state = IF fin THEN Transition(@, "RECV_FIN") ELSE @]

HandleSegment(c, s) ==
  IF Acceptable(c, s) THEN Flushed(c, Buffered(c, s)) ELSE c

(* Bytes passed up by stcp_app_send(). *)
Delivered(c, s) ==
  IF Acceptable(c, s) THEN FlushedBytes(Buffered(c, s), c.receive_next)
  ELSE <<>>

(* Mutant: acknowledges the segment that came, not receive_next. *)
SentOnSegmentSelective(c, s) ==
  IF CarriesData(s) /\ ~ c.is_FIN_RECEIVED /\ ~ TooNew(c, s)
  THEN <<[Ack(HandleSegment(c, s)) EXCEPT !.ack = SegmentEnd(s)]>>
  ELSE <<>>

(* The ACK sent after the flush, or again for a segment that is too old. *)
SentOnSegment(c, s) ==
  IF CarriesData(s) /\ ~ c.is_FIN_RECEIVED /\ ~ TooNew(c, s)
  THEN <<Ack(HandleSegment(c, s))>>
  ELSE <<>>

-----------------------------------------------------------------------------
(* handle_network_data(): the ACK first, then what the segment carries. *)

AfterAck(c, s) == IF "ACK" \in s.flags THEN HandleAck(c, s.ack) ELSE c

HandleNetworkData(c, s) == HandleSegment(AfterAck(c, s), s)

SentOnNetworkData(c, s) ==
  (IF "ACK" \in s.flags THEN SentOnAck(c, s.ack) ELSE <<>>)
    \o SentOnSegment(AfterAck(c, s), s)

-----------------------------------------------------------------------------
(* The channel.  _network_send() draws the fate of each packet when it is  *)
(* sent; the draws are independent and copy_buffer changes in sending      *)
(* order, so the model draws when the packet comes to the head of wire.    *)

Send(p, packets) == wire' = [wire EXCEPT ![Peer(p)] = @ \o packets]

Mistreat == faults < MaxFaults /\ faults' = faults + 1

(* What may come out of the channel towards p next. *)
Arriving(p) ==
  {wire[p][i] : i \in {1} \cap DOMAIN wire[p]} \cup
  {copy[p][i] : i \in DOMAIN copy[p]}

(* p's thread takes s from its network_recv_queue and sends packets. *)
Exchange(p, s, packets) ==
  /\ wire[p] # <<>>
  /\ \/ /\ s = Head(wire[p])                           \* sent normally
        /\ wire' = [wire EXCEPT ![p] = Tail(@), ![Peer(p)] = @ \o packets]
        /\ UNCHANGED faults
     \/ /\ s = Head(wire[p])                           \* sent twice
        /\ Send(p, packets)
        /\ Mistreat
     \/ /\ copy[p] # <<>>                              \* the stored packet
        /\ s = Head(copy[p])                           \*   in its place
        /\ wire' = [wire EXCEPT ![p] = Tail(@), ![Peer(p)] = @ \o packets]
        /\ Mistreat
  /\ UNCHANGED copy

Drop(p) ==
  /\ wire[p] # <<>>
  /\ wire' = [wire EXCEPT ![p] = Tail(@)]
  /\ Mistreat
  /\ UNCHANGED <<ctx, app, copy>>

Store(p) ==
  /\ wire[p] # <<>>
  /\ wire' = [wire EXCEPT ![p] = Tail(@)]
  /\ copy' = [copy EXCEPT ![p] = <<Head(wire[p])>>]
  /\ Mistreat
  /\ UNCHANGED <<ctx, app>>

(* A packet for an endpoint whose transport thread has returned. *)
Discard(p) ==
  /\ ctx[p].connection_state \in {"CLOSED", "REFUSED"}
  /\ wire[p] # <<>>
  /\ wire' = [wire EXCEPT ![p] = Tail(@)]
  /\ UNCHANGED <<ctx, app, copy, faults>>

-----------------------------------------------------------------------------
(* do_active_handshake() *)

Syn == Header({"SYN"}, ISN, 0)

(* The head of the loop: a SYN goes out, and next_seq_num moves as long as *)
(* no retransmission was counted.                                          *)
SynPass(c) ==
  IF c.retransmission_count = 0 THEN [c EXCEPT !.next_seq_num = @ + 1] ELSE c

Connect(p) ==
  /\ ctx[p].connection_state = "IDLE"
  /\ ctx' = [ctx EXCEPT ![p] = SynPass([@ EXCEPT !.connection_state = "SYN_SENT"])]
  /\ Send(p, <<Syn>>)
  /\ UNCHANGED <<app, copy, faults>>

IsSynAck(c, s) == {"SYN", "ACK"} \subseteq s.flags /\ s.ack = c.send_base + 1

AcceptSynAck(c, s) ==
  [Established(c) EXCEPT !.send_base = s.ack,
                         !.peer_initial_seq = s.seq,
                         !.receive_next = s.seq + 1]

ReceiveSynSent(p) ==
  /\ ctx[p].connection_state = "SYN_SENT"
  /\ \E s \in Arriving(p) :
       LET synack == IsSynAck(ctx[p], s)
           c == IF synack THEN AcceptSynAck(ctx[p], s) ELSE SynPass(ctx[p])
       IN /\ Exchange(p, s, IF synack THEN <<Ack(c)>> ELSE <<Syn>>)
          /\ ctx' = [ctx EXCEPT ![p] = c]
  /\ UNCHANGED app

-----------------------------------------------------------------------------
(* do_passive_handshake() *)

SynAck(c) == Header({"SYN", "ACK"}, ISN, c.receive_next)

AcceptSyn(c, s) ==
  [c EXCEPT !.connection_state = "SYN_RCVD",
            !.peer_initial_seq = s.seq,
            !.receive_next = s.seq + 1,
            !.next_seq_num = c.send_base + 1]

ReceiveListen(p) ==
  /\ ctx[p].connection_state = "LISTEN"
  /\ \E s \in Arriving(p) :
       LET c == IF "SYN" \in s.flags THEN AcceptSyn(ctx[p], s) ELSE ctx[p]
       IN /\ Exchange(p, s, IF "SYN" \in s.flags THEN <<SynAck(c)>> ELSE <<>>)
          /\ ctx' = [ctx EXCEPT ![p] = c]
  /\ UNCHANGED app

CompletesHandshake(c, s) == "ACK" \in s.flags /\ s.ack = c.send_base + 1

(* Mutant: the payload of the completing ACK is not counted. *)
AcceptAckUncounted(c, s) ==
  [Established(c) EXCEPT !.send_base = s.ack,
                         !.peer_initial_seq = s.seq,
                         !.receive_next = s.seq]

(* Any ACK will do, also one that carries data: the stream is taken to     *)
(* start at its sequence number, and its payload goes straight to the      *)
(* application.                                                            *)
AcceptAck(c, s) ==
  [Established(c) EXCEPT !.send_base = s.ack,
                         !.peer_initial_seq = s.seq,
                         !.receive_next = s.seq + Len(s.data)]

ReceiveSynRcvd(p) ==
  /\ ctx[p].connection_state = "SYN_RCVD"
  /\ \E s \in Arriving(p) :
       IF CompletesHandshake(ctx[p], s)
       THEN /\ Exchange(p, s, <<>>)
            /\ ctx' = [ctx EXCEPT ![p] = AcceptAck(@, s)]
            /\ app' = [app EXCEPT ![p].received = @ \o s.data]
       ELSE /\ Exchange(p, s, <<SynAck(ctx[p])>>)
            /\ UNCHANGED <<ctx, app>>

-----------------------------------------------------------------------------
(* Timeouts. *)

TimerMayExpire == PrematureTimeouts \/ \A p \in Side : wire[p] = <<>>

HandshakePacket(c) ==
  IF c.connection_state = "SYN_SENT" THEN Syn ELSE SynAck(c)

(* The handshake loops: one more attempt, or ECONNREFUSED. *)
HandshakeTimeout(p) ==
  /\ ctx[p].connection_state \in {"SYN_SENT", "SYN_RCVD"}
  /\ TimerMayExpire
  /\ LET c == [ctx[p] EXCEPT !.retransmission_count = @ + 1]
     IN IF c.retransmission_count <= MaxRetx
        THEN /\ ctx' = [ctx EXCEPT ![p] = c]
             /\ Send(p, <<HandshakePacket(c)>>)
        ELSE /\ ctx' = [ctx EXCEPT ![p] = Fail(c, "REFUSED", "ECONNREFUSED")]
             /\ UNCHANGED wire
  /\ UNCHANGED <<app, copy, faults>>

(* Mutant: retransmissions are not counted. *)
HandleTimeoutForever(p) ==
  /\ ctx[p].connection_state \in Connected
  /\ WaitingForAck(ctx[p])
  /\ TimerMayExpire
  /\ Send(p, Resend(ctx[p]))
  /\ UNCHANGED <<ctx, app, copy, faults>>

(* handle_timeout(): resend all, or ECONNABORTED.  It may come although    *)
(* something has just been queued: stcp_wait_for_event() does not look     *)
(* again once the condition variable has timed out.                        *)
HandleTimeout(p) ==
  /\ ctx[p].connection_state \in Connected
  /\ WaitingForAck(ctx[p])
  /\ TimerMayExpire
  /\ IF ctx[p].retransmission_count = MaxRetx
     THEN /\ ctx' = [ctx EXCEPT ![p] = Fail(@, "CLOSED", "ECONNABORTED")]
          /\ UNCHANGED wire
     ELSE /\ ctx' = [ctx EXCEPT ![p].retransmission_count = @ + 1]
          /\ Send(p, Resend(ctx[p]))
  /\ UNCHANGED <<app, copy, faults>>

-----------------------------------------------------------------------------
(* The other events of control_loop(). *)

(* A node joins the send buffer and goes out. *)
Transmitted(c, n) ==
  [c EXCEPT !.send_buffer = Append(@, n), !.next_seq_num = NodeEnd(n)]

Least(a, b) == IF a <= b THEN a ELSE b

(* Mutant: what did not fit the segment is lost. *)
TakeBytesAndRest(queue, len) == Tail(queue)

(* stcp_app_recv(): from the buffer of one mywrite(), at most len bytes;   *)
(* what is left of it stays at the head of the queue.                      *)
TakeBytes(queue, len) ==
  IF Len(Head(queue)) > len
  THEN <<SubSeq(Head(queue), len + 1, Len(Head(queue)))>> \o Tail(queue)
  ELSE Tail(queue)

(* handle_app_data() *)
HandleAppData(p) ==
  LET c == ctx[p]
      queue == app[p].app_recv_queue
      len == Least(Least(WinRemain(c), MSS), Len(Head(queue)))
      n == [seq |-> c.next_seq_num, data |-> SubSeq(Head(queue), 1, len),
            fin |-> FALSE]
  IN /\ c.connection_state \in Connected
     /\ WindowOpen(c)
     /\ queue # <<>>
     /\ ~ c.is_FIN_SENT
     /\ ctx' = [ctx EXCEPT ![p] = Transmitted(c, n)]
     /\ app' = [app EXCEPT ![p].app_recv_queue = TakeBytes(@, len)]
     /\ Send(p, <<Packet(n, c.receive_next)>>)
     /\ UNCHANGED <<copy, faults>>

(* handle_network_data() *)
ReceiveSegment(p) ==
  /\ ctx[p].connection_state \in Connected
  /\ \E s \in Arriving(p) :
       /\ Exchange(p, s, SentOnNetworkData(ctx[p], s))
       /\ ctx' = [ctx EXCEPT ![p] = HandleNetworkData(@, s)]
       /\ app' = [app EXCEPT ![p].received =
                     @ \o Delivered(AfterAck(ctx[p], s), s)]

(* Mutant: the close overtakes data the application has written. *)
CloseReportedEarly(p) == app[p].close_requested

(* stcp_wait_for_event() reports the close once, when the application's    *)
(* data is all taken, whatever flags it was asked for.                     *)
CloseReported(p) ==
  app[p].close_requested /\ app[p].app_recv_queue = <<>>

(* handle_app_close() *)
HandleAppClose(p) ==
  LET c == [ctx[p] EXCEPT !.is_FIN_SENT = TRUE,
              !.connection_state = Transition(@, "SEND_FIN")]
  IN /\ ctx[p].connection_state \in Connected
     /\ CloseReported(p)
     /\ app' = [app EXCEPT ![p].close_requested = FALSE]
     /\ IF WindowOpen(ctx[p])
        THEN /\ ctx' = [ctx EXCEPT ![p] = EnqueueFin(c)]
             /\ Send(p, <<Packet(FinNode(c), c.receive_next)>>)
        ELSE /\ ctx' = [ctx EXCEPT ![p] = [c EXCEPT !.is_APP_CLOSE_QUEUED = TRUE]]
             /\ UNCHANGED wire
     /\ UNCHANGED <<copy, faults>>

-----------------------------------------------------------------------------
(* The application: mywrite() and myclose(), once myconnect() or           *)
(* myaccept() has returned the descriptor.                                 *)

Unblocked(p) ==
  /\ ctx[p].connection_state \in Connected \cup {"CLOSED"}
  /\ ~ app[p].closed

Write(p) ==
  /\ Unblocked(p)
  /\ \E n \in 1 .. MaxWrite :
       /\ app[p].written + n <= AppBytes[p]
       /\ app' = [app EXCEPT
            ![p].written = @ + n,
            ![p].app_recv_queue =
               Append(@, [i \in 1 .. n |-> app[p].written + i])]
  /\ UNCHANGED <<ctx, wire, copy, faults>>

Close(p) ==
  /\ Unblocked(p)
  /\ app' = [app EXCEPT ![p].closed = TRUE, ![p].close_requested = TRUE]
  /\ UNCHANGED <<ctx, wire, copy, faults>>

-----------------------------------------------------------------------------
Init ==
  /\ ctx = [p \in Side |->
              InitialContext(IF p = "active" THEN "IDLE" ELSE "LISTEN")]
  /\ app = [p \in Side |->
              [written |-> 0, app_recv_queue |-> <<>>, received |-> <<>>,
               close_requested |-> FALSE, closed |-> FALSE]]
  /\ wire = [p \in Side |-> <<>>]
  /\ copy = [p \in Side |-> <<>>]
  /\ faults = 0

(* A pass of p's transport thread on what the network brought. *)
Receive(p) ==
  \/ ReceiveSynSent(p)
  \/ ReceiveListen(p)
  \/ ReceiveSynRcvd(p)
  \/ ReceiveSegment(p)

Timeout(p) == HandshakeTimeout(p) \/ HandleTimeout(p)

Next ==
  \E p \in Side :
    \/ Connect(p) \/ Receive(p) \/ Timeout(p)
    \/ HandleAppData(p) \/ HandleAppClose(p)
    \/ Write(p) \/ Close(p)
    \/ Drop(p) \/ Store(p) \/ Discard(p)

Spec == Init /\ [][Next]_vars

(* What p's transport thread does when it is given the processor. *)
Thread(p) ==
  \/ Connect(p) \/ Receive(p)
  \/ HandleAppData(p) \/ HandleAppClose(p)
  \/ Discard(p)

(* The scheduler runs both transport threads, and timers that run out are  *)
(* noticed.  Nothing obliges an application to write, or the channel to    *)
(* mistreat a packet.                                                      *)
Fairness == \A p \in Side : WF_vars(Thread(p)) /\ WF_vars(Timeout(p))

FairSpec == Spec /\ Fairness

-----------------------------------------------------------------------------
(* Types. *)

BufferOK(c) ==
  /\ DOMAIN c.receive_buffer \subseteq
       c.receive_next .. (c.receive_next + Window - 1)
  /\ \A x \in DOMAIN c.receive_buffer : c.receive_buffer[x] \in Nat

ContextOK(c) ==
  /\ c \in [connection_state     : State,
            errno                : Errno,
            is_APP_CLOSE_QUEUED  : BOOLEAN,
            is_FIN_SENT          : BOOLEAN,
            is_FIN_RECEIVED      : BOOLEAN,
            peer_initial_seq     : Nat,
            next_seq_num         : Nat,
            send_base            : Nat,
            send_buffer          : Seq(Node),
            receive_next         : Nat,
            receive_buffer       : {c.receive_buffer},
            retransmission_count : Nat]
  /\ BufferOK(c)

AppOK(a) ==
  a \in [written : Nat, app_recv_queue : Seq(Seq(Byte)), received : Seq(Byte),
         close_requested : BOOLEAN, closed : BOOLEAN]

(* Every variable has its type, and the receive buffer holds sequence      *)
(* numbers of the current receive window only.                             *)
TypeOK ==
  /\ ctx = [p \in Side |-> ctx[p]] /\ \A p \in Side : ContextOK(ctx[p])
  /\ app = [p \in Side |-> app[p]] /\ \A p \in Side : AppOK(app[p])
  /\ wire \in [Side -> Seq(Segment)]
  /\ copy \in [Side -> Seq(Segment)]
  /\ faults \in Nat

-----------------------------------------------------------------------------
(* Safety. *)

(* The handshake of p succeeded, now or before the connection ended. *)
Synchronized(p) == ctx[p].connection_state \in Connected \cup {"CLOSED"}

(* The windows of the two ends agree: what the sender no longer keeps      *)
(* (handle_ack_from_peer) has reached the receiver in order, the receiver  *)
(* has acknowledged nothing that was not sent, and no more than            *)
(* DEFAULT_WIN_SIZE sequence numbers are outstanding.                      *)
WindowsAgree ==
  \A p \in Side :
    Synchronized(p) =>
      /\ ctx[p].send_base <= ctx[Peer(p)].receive_next
      /\ ctx[Peer(p)].receive_next <= ctx[p].next_seq_num
      /\ ctx[p].next_seq_num <= ctx[p].send_base + Window

(* Go-Back-N can always resend: the send buffer holds exactly the          *)
(* sequence numbers from send_base to next_seq_num, each once, in order,   *)
(* and only the last node may be the FIN.                                  *)
SendBufferTiles ==
  \A p \in Side :
    LET c == ctx[p]
        b == c.send_buffer
        from(i) == IF i = 1 THEN c.send_base ELSE NodeEnd(b[i - 1])
    IN Synchronized(p) =>
         /\ \A i \in DOMAIN b :
              /\ b[i].seq = from(i) /\ b[i].seq < NodeEnd(b[i])
              /\ b[i].fin => i = Len(b)
         /\ c.next_seq_num =
              IF b = <<>> THEN c.send_base ELSE NodeEnd(b[Len(b)])

(* The handshake put the start of the incoming stream where it is: the     *)
(* passive end takes it from the ACK that completes its handshake.         *)
StreamAligned(p) == p = "active" \/ ctx[p].peer_initial_seq = ISN + 1

InOrder(p) ==
  app[p].received = [i \in 1 .. Len(app[p].received) |-> i]

(* What an application reads is a prefix of what the other one wrote, and  *)
(* end of file (stcp_fin_received) comes after all of it: no loss,         *)
(* duplicate, reordering or retransmission shows through.                  *)
StreamIntact ==
  \A p \in Side :
    Synchronized(p) /\ StreamAligned(p) =>
      /\ InOrder(p)
      /\ Len(app[p].received) <= app[Peer(p)].written
      /\ ctx[p].is_FIN_RECEIVED =>
           /\ app[Peer(p)].closed
           /\ Len(app[p].received) = app[Peer(p)].written

(* A connection that ended without ECONNABORTED ended in full: the peer    *)
(* has this end's FIN and nothing is left to resend, and this end has the  *)
(* peer's FIN.                                                             *)
CleanClose ==
  \A p \in Side :
    ctx[p].connection_state = "CLOSED" /\ ctx[p].errno = "none" =>
      /\ ctx[p].is_FIN_SENT /\ ctx[p].send_buffer = <<>>
      /\ ctx[p].is_FIN_RECEIVED
      /\ ctx[Peer(p)].is_FIN_RECEIVED

(* The FIN is the last sequence number an endpoint uses, also when it had  *)
(* to wait for room in the window.                                         *)
FinIsLast ==
  [][\A p \in Side :
       (\E i \in DOMAIN ctx[p].send_buffer : ctx[p].send_buffer[i].fin) =>
         ctx'[p].next_seq_num = ctx[p].next_seq_num]_vars

-----------------------------------------------------------------------------
(* Liveness. *)

Ended(p) == ctx[p].connection_state \in {"CLOSED", "REFUSED"}

(* No endpoint waits for an acknowledgement for ever, of its SYN, its      *)
(* SYNACK, its data or its FIN: it comes, or the retransmissions run out   *)
(* (the handshake loops, handle_timeout).                                  *)
InFlightResolves ==
  \A p \in Side :
    (WaitingForAck(ctx[p]) /\ ~ Ended(p))
      ~> (Ended(p) \/ ~ WaitingForAck(ctx[p]))

(* The applications call myclose() in the end, like client.c and server.c. *)
BothClose == \A p \in Side : <>(app[p].closed \/ Ended(p))

(* When both applications close, both transport threads return, so that    *)
(* myclose() returns too.                                                  *)
BothEnd == BothClose => <>[](\A p \in Side : Ended(p))

(* On a channel that mistreats nothing, every connection opens, and when   *)
(* it is closed it has carried all that was written and ends without an    *)
(* error at either end.                                                    *)
ReliableTransfer ==
  BothClose /\ [](faults = 0) =>
    <>[](\A p \in Side :
           /\ ctx[p].connection_state = "CLOSED" /\ ctx[p].errno = "none"
           /\ Len(app[p].received) = app[Peer(p)].written
           /\ InOrder(p))

-----------------------------------------------------------------------------
(* What hw3/readme.md says of the program and the code does not do.        *)

(* "Confirmed all data delivered in order, no data loss or corruption"     *)
(* (readme.md:125), on a channel that loses packets.  do_passive_handshake *)
(* takes the sequence number of any ACK for the start of the stream.       *)
InOrderDelivery == \A p \in Side : InOrder(p)

(* "Supports TCP-style graceful close (handling all relevant FSM states).  *)
(* Ensures all data and FINs are reliably delivered and acknowledged       *)
(* before full teardown" (readme.md:54-55): no end is torn down with its   *)
(* FIN unacknowledged when the other one closed in full.  FIN_WAIT_2 goes  *)
(* to CLOSED without a TIME_WAIT, so the last ACK is sent only once.       *)
AcknowledgedBeforeTeardown ==
  \A p \in Side :
    /\ ctx[p].connection_state = "CLOSED"
    /\ ctx[Peer(p)].connection_state = "CLOSED"
    /\ ctx[Peer(p)].errno = "none"
    => ~ WaitingForAck(ctx[p])
=============================================================================
