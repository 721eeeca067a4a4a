---------------------------- MODULE ByteStreams ----------------------------
(***************************************************************************)
(* What a pair of connected mysockets promises its applications            *)
(* (mysock.h): two independent byte streams.  Each end writes and then     *)
(* closes; the other end reads the same bytes in the same order, and sees  *)
(* end of file once the writer has closed and everything was read.         *)
(* Nothing is promised about when, or that it happens at all.              *)
(***************************************************************************)
EXTENDS Naturals, Sequences

CONSTANTS
  End,         \* the two ends of the connection
  MaxWrite     \* the most bytes in one mywrite()

VARIABLES
  written,     \* written[p]: how many bytes p wrote; byte i is i
  closed,      \* closed[p]: p called myclose()
  received,    \* received[p]: the bytes handed to p's application
  eof          \* eof[p]: p's application was told the peer is done

vars == <<written, closed, received, eof>>

Other(p) == CHOOSE q \in End : q # p

Init ==
  /\ written = [p \in End |-> 0]
  /\ closed = [p \in End |-> FALSE]
  /\ received = [p \in End |-> <<>>]
  /\ eof = [p \in End |-> FALSE]

Write(p) ==
  /\ ~ closed[p]
  /\ \E n \in 1 .. MaxWrite : written' = [written EXCEPT ![p] = @ + n]
  /\ UNCHANGED <<closed, received, eof>>

Close(p) ==
  /\ ~ closed[p]
  /\ closed' = [closed EXCEPT ![p] = TRUE]
  /\ UNCHANGED <<written, received, eof>>

(* The next bytes of the peer's stream, up to byte n. *)
Deliver(p, n) ==
  received' = [received EXCEPT
    ![p] = @ \o [i \in 1 .. (n - Len(@)) |-> Len(received[p]) + i]]

Read(p) ==
  /\ ~ eof[p]
  /\ \E n \in (Len(received[p]) + 1) .. written[Other(p)] : Deliver(p, n)
  /\ UNCHANGED <<written, closed, eof>>

(* The last bytes, if any are left, and end of file. *)
Finish(p) ==
  /\ ~ eof[p]
  /\ closed[Other(p)]
  /\ Deliver(p, written[Other(p)])
  /\ eof' = [eof EXCEPT ![p] = TRUE]
  /\ UNCHANGED <<written, closed>>

Next == \E p \in End : Write(p) \/ Close(p) \/ Read(p) \/ Finish(p)

Spec == Init /\ [][Next]_vars
=============================================================================
