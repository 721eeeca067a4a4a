----------------------------- MODULE Forwarding -----------------------------
(***************************************************************************)
(* What the router of hw4 does with an IP packet before it needs the MAC   *)
(* address of the next hop: the decisions of sr_handlepacket()             *)
(* (sr_router.c), from the blacklist to the packet that is to be sent.     *)
(* The next hop is always the packet's own destination: the code does not  *)
(* use the gateway of the routing table entry.                             *)
(***************************************************************************)
EXTENDS Naturals

CONSTANTS
  Host,        \* addresses of other machines
  Interface,   \* addresses of the router's own interfaces
  Blocked,     \* addresses inside the blacklisted prefix
  Routed,      \* addresses that some routing table entry matches
  Egress       \* Egress[a]: address of the interface towards a

Address == Host \cup Interface

ASSUME ForwardingAssumption ==
  /\ Host \cap Interface = {}
  /\ Blocked \subseteq Address
  /\ Routed \subseteq Address
  /\ Egress \in [Routed -> Interface]

(* "error" is ICMP of type 3 or 11, "icmp" any other ICMP but an echo      *)
(* request or reply, "transport" TCP or UDP.                               *)
Protocol == {"echo", "reply", "error", "icmp", "transport", "other"}

(* long: there is enough of it to quote in an ICMP error (ICMP_DATA_SIZE). *)
(* expiring: its TTL is at most 1 when it arrives.                         *)
Packet == [src : Address, dst : Address, proto : Protocol,
           long : BOOLEAN, expiring : BOOLEAN]

-----------------------------------------------------------------------------

(* ip_black_list() *)
Blacklisted(p) == p.src \in Blocked \/ p.dst \in Blocked

(* The ICMP error about p, back to its sender. *)
Error(p) == [src |-> Egress[p.src], dst |-> p.src, proto |-> "error",
             long |-> TRUE, expiring |-> FALSE]

(* Port unreachable, TTL expired, net unreachable: sent if the sender can  *)
(* be routed to and p is long enough to be quoted.                         *)
Refusal(p) == IF p.src \in Routed /\ p.long THEN {Error(p)} ELSE {}

EchoReply(p) == [p EXCEPT !.src = p.dst, !.dst = p.src, !.proto = "reply",
                          !.expiring = FALSE]

(* For one of the router's interfaces. *)
Local(p) ==
  CASE p.proto = "echo" /\ p.src \in Routed -> {EchoReply(p)}
    [] p.proto = "transport"                -> Refusal(p)
    [] OTHER                                -> {}

(* For another machine. *)
Forwarded(p) ==
  IF p.dst \in Routed /\ ~ p.expiring THEN {p} ELSE Refusal(p)

(* The packet that is sent on because of p, if there is one. *)
Handled(p) ==
  IF Blacklisted(p) THEN {}
  ELSE IF p.dst \in Interface THEN Local(p)
  ELSE Forwarded(p)

(* sr_arpcache_handle_arpreq() answers p with host unreachable when the    *)
(* next hop has not answered: not when p is too short or an ICMP error.    *)
Answerable(p) == p.long /\ p.proto # "error" /\ p.src \in Routed
=============================================================================
