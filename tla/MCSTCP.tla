------------------------------- MODULE MCSTCP -------------------------------
(* Instances of STCP for TLC: how much each application writes.            *)
EXTENDS STCPStreams

OneWay == [p \in Side |-> IF p = "active" THEN 2 ELSE 0]
BothWays == [p \in Side |-> IF p = "active" THEN 2 ELSE 1]
OneEach == [p \in Side |-> 1]
=============================================================================
