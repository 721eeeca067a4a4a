--------------------------- MODULE MCListenQueue ---------------------------
(* Instances of ListenQueue for TLC.                                       *)
EXTENDS ListenQueue
=============================================================================
