----------------------------- MODULE MCPrefork ------------------------------
(* Instances of Prefork for TLC.                                           *)
EXTENDS Prefork, TLC

CONSTANTS c1, c2

TheClients == {c1, c2}

Echo == [header |-> <<{"first", "host"}, {"length", "end"}>>, size |-> 1, length |-> 1]

(* A body longer than its Content-Length, and a header without a host.     *)
Longer == [header |-> <<{"first", "length", "host", "end"}>>, size |-> 2, length |-> 1]
Hostless == [header |-> <<{"first", "length", "end"}>>, size |-> 0, length |-> 0]

TheRequests == (c1 :> {Echo}) @@ (c2 :> {Longer, Hostless})

(* Two users of sclient.                                                   *)
Twice == [c \in TheClients |-> {Echo}]
=============================================================================
