--------------------------- MODULE MCRoutingTable ---------------------------
(* RoutingTable with two-bit addresses: every table of up to three entries *)
(* and every address.                                                      *)
EXTENDS RoutingTable

TheAddresses == 0 .. 3
TheMasks == {0, 2, 3}          \* /0, /1 and /2

(* For contiguous masks m, x & m clears the low bits. *)
ClearLowBits(x, m) == x - (x % (4 - m))
=============================================================================
