---------------------------- MODULE MCVnsSession ----------------------------
(* VnsSession with two-bit addresses: twelve routing table files, with     *)
(* nested and equal prefixes, a default route, a blank line and lines that *)
(* cannot be converted, and two topologies.                                *)
EXTENDS VnsSessionInvariant

TheAddresses == 0 .. 3
TheMasks == {0, 2, 3}          \* /0, /1 and /2

(* For contiguous masks m, x & m clears the low bits. *)
ClearLowBits(x, m) == x - (x % (4 - m))

TheNames == {"eth1", "eth2"}
TheIps == [n \in TheNames |-> IF n = "eth1" THEN 0 ELSE 3]

R(d, m, n) == [dest |-> d, mask |-> m, interface |-> n]
Lines == {R(0, 0, "eth2"), R(0, 2, "eth1"), R(1, 3, "eth2"), R(2, 2, "eth2"),
          R(2, 3, "eth1"), R(2, 3, "eth2"), BAD}
TheFiles == {<<l>> : l \in Lines \ {R(0, 2, "eth1")}}
  \cup {<<>>, <<R(2, 2, "eth2"), BLANK, R(2, 3, "eth1")>>,
        <<R(2, 3, "eth1"), R(2, 3, "eth2")>>, <<R(2, 3, "eth2"), R(2, 2, "eth2")>>,
        <<R(2, 2, "eth2"), R(0, 2, "eth1")>>, <<R(2, 2, "eth2"), BAD>>}

P(i, a, s, d, l, e) ==
  [iface |-> i, arp |-> a, src |-> s, dst |-> d, long |-> l, expiring |-> e]
ThePackets == {P("eth1", TRUE, 1, 0, TRUE, FALSE), P("eth1", TRUE, 1, 2, TRUE, FALSE),
               P("eth1", FALSE, 1, 2, TRUE, FALSE), P("eth2", FALSE, 2, 1, FALSE, TRUE),
               P("eth2", FALSE, 2, 0, TRUE, FALSE), P("eth1", FALSE, 1, 2, FALSE, FALSE),
               P("eth2", FALSE, 2, 3, FALSE, FALSE)}

TheTopologies == {<<"eth1", "eth2">>, <<"eth2">>}
=============================================================================
