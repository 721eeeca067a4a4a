--------------------------- MODULE STCPInvariant ---------------------------
(***************************************************************************)
(* The inductive invariant of module STCP behind WindowsAgree: proved in   *)
(* STCP_proofs, and checked by TLC on the way.                             *)
(***************************************************************************)
EXTENDS STCP

(* The channel. *)

Elements(s) == {s[i] : i \in DOMAIN s}

(* What may still arrive at p. *)
Transit(p) == Elements(wire[p]) \cup Elements(copy[p])

ChannelOK == /\ wire \in [Side -> Seq(Segment)]
             /\ copy \in [Side -> Seq(Segment)]
             /\ faults \in Nat

-----------------------------------------------------------------------------
(* The inductive invariant.  It says of each endpoint c, with peer d:      *)

SynchronizedState(c) == c.connection_state \in Connected \cup {"CLOSED"}

(* where the handshake is, before it succeeds; *)
OpeningOK(c) ==
  c.connection_state \in Opening =>
    /\ c.send_base = ISN
    /\ c.receive_buffer = EmptyBuffer
    /\ c.next_seq_num =
         IF c.connection_state \in {"IDLE", "LISTEN"} THEN ISN ELSE ISN + 1
    /\ c.receive_next =
         IF c.connection_state = "SYN_RCVD" THEN ISN + 1 ELSE 0
    /\ c.connection_state = "IDLE" => c.retransmission_count = 0

(* that what it has from the peer, the peer has sent; *)
ReceiverOK(c, d) ==
  /\ c.receive_next <= d.next_seq_num
  /\ \A x \in DOMAIN c.receive_buffer : x < d.next_seq_num

(* that the peer has what it no longer keeps, and the window is respected; *)
SenderOK(c, d) ==
  /\ \A i \in DOMAIN c.send_buffer :
       /\ c.send_buffer[i].seq > ISN
       /\ NodeEnd(c.send_buffer[i]) <= c.next_seq_num
  /\ SynchronizedState(c) =>
       /\ ISN < c.send_base
       /\ c.send_base <= d.receive_next
       /\ c.next_seq_num <= c.send_base + Window

EndpointOK(c, d) == OpeningOK(c) /\ ReceiverOK(c, d) /\ SenderOK(c, d)

(* and of a segment m in transit from c: it acknowledges no more than c    *)
(* has, carries no more than c has numbered, and only SYNs are at ISN.     *)
SentOK(m, c) ==
  /\ m.ack <= c.receive_next
  /\ SegmentEnd(m) <= c.next_seq_num
  /\ IF "SYN" \in m.flags THEN m.seq = ISN /\ ISN < c.next_seq_num
     ELSE ISN < m.seq

(* Each side runs its own handshake. *)
RolesOK ==
  /\ ctx["active"].connection_state \notin {"LISTEN", "SYN_RCVD"}
  /\ ctx["passive"].connection_state \notin {"IDLE", "SYN_SENT"}

(* Until the active side is established it has sent only SYNs, so the      *)
(* passive side can have answered only with SYNACKs.                       *)
HandshakeOK ==
  /\ \A m \in Transit("passive") : ~ ({"SYN", "ACK"} \subseteq m.flags)
  /\ ctx["active"].connection_state \in {"IDLE", "SYN_SENT"} =>
       /\ \A m \in Transit("passive") : m.flags = {"SYN"}
       /\ \A m \in Transit("active") :
            {"SYN", "ACK"} \subseteq m.flags /\ m.ack = ISN + 1
       /\ ctx["passive"].connection_state \in {"LISTEN", "SYN_RCVD", "REFUSED"}

PairOK ==
  \A p \in Side :
    /\ EndpointOK(ctx[p], ctx[Peer(p)])
    /\ \A m \in Transit(Peer(p)) : SentOK(m, ctx[p])

(* Why the windows agree: each end is right with its peer, the packets in  *)
(* transit are right with their sender, and the handshake is where the two *)
(* ends take it to be.                                                     *)
IInv == TypeOK /\ PairOK /\ RolesOK /\ HandshakeOK
=============================================================================
