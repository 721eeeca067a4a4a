----------------------------- MODULE MCArpCache -----------------------------
(* Instances of ArpCache for TLC: a router with one interface, hosts a and *)
(* b that it can reach, and a host behind the blacklist.                   *)
EXTENDS ArpCache

CONSTANTS a, b, evil, r0

TheHosts == {a, b, evil}
TheInterfaces == {r0}
TheBlocked == {evil}
TheRouted == {a, b, evil, r0}
TheEgress == [x \in TheRouted |-> r0]

IP(src, dst, proto) == [src |-> src, dst |-> dst, proto |-> proto,
                        long |-> TRUE, expiring |-> FALSE]

Expiring(p) == [p EXCEPT !.expiring = TRUE]

(* From a to b and a ping of the router. *)
OneDirection == {IP(a, b, "transport"), IP(a, r0, "echo")}

(* Both hosts send to each other. *)
BothDirections == {IP(a, b, "transport"), IP(b, a, "transport")}

(* Both directions, one that dies here, and blacklisted ones. *)
Mixed == BothDirections \cup
  {IP(a, r0, "echo"), Expiring(IP(a, b, "transport")),
   IP(evil, b, "transport"), IP(a, evil, "transport")}
=============================================================================
