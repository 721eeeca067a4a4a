---------------------------- MODULE ListenQueue -----------------------------
(***************************************************************************)
(* A listening mysocket of hw3 (connection_demux.c) with the threads that  *)
(* meet at its queue of connections: the receive thread of the listening   *)
(* socket (network_io_socket.c, network_io_tcp.c), the transport thread of *)
(* each connection that is being established (mysock.c, stcp_api.c), and   *)
(* the application, which accepts one connection after the other           *)
(* (server.c) and may close the listening socket.                          *)
(*                                                                         *)
(* A step of a thread is what it does between two points where another     *)
(* thread can come in: the locks, the condition variable, the joins, and   *)
(* cur_len, which two threads change with different locks held.            *)
(***************************************************************************)
EXTENDS Integers, Sequences, FiniteSets, FiniteSetsExt, SequencesExt

CONSTANTS
  NPeers,     \* bound: peers, numbered in the order in which they connect
  Backlog,    \* the second argument of mylisten()
  MaxSockets, \* mysocket descriptors beside that of the listening socket
  AppCloses   \* whether the application may close the listening socket

ASSUME ListenQueueAssumption ==
  /\ NPeers \in Nat /\ Backlog \in Nat /\ MaxSockets \in Nat \ {0}
  /\ AppCloses \in BOOLEAN

VARIABLES
  peer,       \* peer[p]: what peer p did on its connection
  pending,    \* connections that the kernel holds for accept()
  new_socket, \* the connection accepted last, until it is handed on
  recv,       \* the receive thread of the listening socket
  slots,      \* connection_queue: a descriptor in use, or None
  cur_len,
  completed,  \* completed_queue: positions in connection_queue
  lock,       \* listen_lock: its readers and its writer
  ctx,        \* ctx[sd]: the mysock_context of a connection
  app,        \* the application's thread
  failed,     \* the assertion that ended the program, or ""
  history     \* the peers completed and accepted, in order; whether a SYN was
              \* dropped, and whether cur_len was changed by two threads at once

vars == <<peer, pending, new_socket, recv, slots, cur_len, completed, lock, ctx,
          app, failed, history>>

Peers == 1 .. NPeers
Sd == 1 .. MaxSockets
None == 0

ECONNABORTED == 103
Errno == {0, ECONNABORTED}

max_len == Backlog + 1
Slot == 1 .. max_len

(* Nothing runs after a failed assertion or exit().                        *)
Running == failed = "" /\ app.pc # "exited"

-----------------------------------------------------------------------------
(* The locks.  A reader-writer lock that is held by a writer keeps readers *)
(* out, and the other way round.                                           *)

CanRead == ~ lock.writer
ReadLock == lock' = [lock EXCEPT !.readers = @ + 1]
ReadUnlock == lock' = [lock EXCEPT !.readers = @ - 1]

(* An assertion: the program goes on, or aborts.                           *)
Check(name, holds) == failed' = IF holds THEN failed ELSE name

Free == [pc |-> "free", peer |-> None, errno |-> 0, blocking |-> TRUE,
         close_requested |-> FALSE]

-----------------------------------------------------------------------------
(* Peers: transport_init() of the active side, over TCP.                   *)

(* _tcp_connect().                                                         *)
PeerConnects(p) ==
  /\ peer[p] = "idle" /\ \A q \in 1 .. p - 1 : peer[q] # "idle"
  /\ peer' = [peer EXCEPT ![p] = "connected"]
  /\ pending' = Append(pending, p)
  /\ UNCHANGED <<new_socket, recv, slots, cur_len, completed, lock, ctx, app, failed, history>>

(* Its SYN is sent, or the peer goes away before that.                     *)
PeerSends(p, what) ==
  /\ peer[p] = "connected" /\ peer' = [peer EXCEPT ![p] = what]
  /\ UNCHANGED <<pending, new_socket, recv, slots, cur_len, completed, lock, ctx, app,
                 failed, history>>

-----------------------------------------------------------------------------
(* network_recv_thread_func() of the listening socket.                     *)

(* poll() reports the exit pipe; it is looked at before the socket.        *)
RecvExits ==
  /\ recv.pc = "poll" /\ app.stop
  /\ recv' = [recv EXCEPT !.pc = "ended"]
  /\ UNCHANGED <<peer, pending, new_socket, slots, cur_len, completed, lock, ctx, app,
                 failed, history>>

(* accept() in _network_recv_packet().                                     *)
RecvAccepts ==
  /\ recv.pc = "poll" /\ ~ app.stop /\ pending # <<>>
  /\ Check("new_socket", new_socket = None)
  /\ pending' = Tail(pending)
  /\ new_socket' = Head(pending)
  /\ recv' = [recv EXCEPT !.pc = "read"]
  /\ UNCHANGED <<peer, slots, cur_len, completed, lock, ctx, app, history>>

(* It reads from the new connection, with the SYN or at its end.  The end  *)
(* of that connection ends the thread.                                     *)
RecvReads ==
  /\ recv.pc = "read" /\ peer[new_socket] \in {"syn", "gone"}
  /\ recv' = [recv EXCEPT !.pc = IF peer[new_socket] = "syn" THEN "enqueue" ELSE "ended"]
  /\ UNCHANGED <<peer, pending, new_socket, slots, cur_len, completed, lock, ctx, app,
                 failed, history>>

(* _mysock_enqueue_connection() up to the increment of cur_len: a SYN is   *)
(* dropped when it is queued already or the queue is full.                 *)
EnqueueConnection ==
  LET free == {k \in Slot : slots[k] = None}
      known == \E k \in Slot : slots[k] # None /\ ctx[slots[k]].peer = new_socket
  IN /\ recv.pc = "enqueue" /\ CanRead
     /\ IF known \/ cur_len >= max_len
        THEN /\ recv' = [recv EXCEPT !.pc = "poll"]
             /\ UNCHANGED <<lock, failed>>
        ELSE /\ Check("queue_entry", free # {})
             /\ ReadLock
             /\ recv' = [recv EXCEPT !.pc = "fill", !.len = cur_len,
                                     !.slot = IF free = {} THEN None ELSE Min(free)]
     /\ history' = [history EXCEPT !.dropped = @ \/ known \/ cur_len >= max_len,
                                   !.raced = @ \/ app.pc = "count"]
     /\ UNCHANGED <<peer, pending, new_socket, slots, cur_len, completed, ctx, app>>

UnusedSd == {sd \in Sd : ctx[sd].pc = "free"}

(* Mutants: the count is not taken back, the socket stays after it was     *)
(* handed on.                                                              *)
FillSlotCounts ==
  /\ recv.pc = "fill"
  /\ IF UnusedSd = {}
     THEN /\ cur_len' = recv.len + 1
          /\ history' = [history EXCEPT !.dropped = TRUE]
          /\ UNCHANGED <<slots, ctx, new_socket>>
     ELSE LET sd == Min(UnusedSd)
          IN /\ cur_len' = recv.len + 1
             /\ slots' = [slots EXCEPT ![recv.slot] = sd]
             /\ ctx' = [ctx EXCEPT ![sd] = [Free EXCEPT !.pc = "handshake",
                                                        !.peer = new_socket]]
             /\ new_socket' = None
             /\ UNCHANGED history
  /\ ReadUnlock
  /\ recv' = [recv EXCEPT !.pc = "poll", !.len = 0, !.slot = None]
  /\ UNCHANGED <<peer, pending, completed, app, failed>>

FillSlotKeepsSocket ==
  /\ recv.pc = "fill"
  /\ IF UnusedSd = {}
     THEN /\ cur_len' = recv.len   \* counted, and taken back
          /\ history' = [history EXCEPT !.dropped = TRUE]
          /\ UNCHANGED <<slots, ctx, new_socket>>
     ELSE LET sd == Min(UnusedSd)
          IN /\ cur_len' = recv.len + 1
             /\ slots' = [slots EXCEPT ![recv.slot] = sd]
             /\ ctx' = [ctx EXCEPT ![sd] = [Free EXCEPT !.pc = "handshake",
                                                        !.peer = new_socket]]
             /\ UNCHANGED <<new_socket, history>>
  /\ ReadUnlock
  /\ recv' = [recv EXCEPT !.pc = "poll", !.len = 0, !.slot = None]
  /\ UNCHANGED <<peer, pending, completed, app, failed>>

(* The rest: a descriptor, the connection's socket, the threads, the SYN   *)
(* on the new connection's queue.                                          *)
FillSlot ==
  /\ recv.pc = "fill"
  /\ IF UnusedSd = {}
     THEN /\ cur_len' = recv.len   \* counted, and taken back
          /\ history' = [history EXCEPT !.dropped = TRUE]
          /\ UNCHANGED <<slots, ctx, new_socket>>
     ELSE LET sd == Min(UnusedSd)
          IN /\ cur_len' = recv.len + 1
             /\ slots' = [slots EXCEPT ![recv.slot] = sd]
             /\ ctx' = [ctx EXCEPT ![sd] = [Free EXCEPT !.pc = "handshake",
                                                        !.peer = new_socket]]
             /\ new_socket' = None
             /\ UNCHANGED history
  /\ ReadUnlock
  /\ recv' = [recv EXCEPT !.pc = "poll", !.len = 0, !.slot = None]
  /\ UNCHANGED <<peer, pending, completed, app, failed>>

-----------------------------------------------------------------------------
(* transport_thread_func() of a passive connection.                        *)

(* transport_init() comes to an end of the handshake, and                  *)
(* stcp_unblock_application() sets stcp_errno and blocking.                *)
Unblock(sd, errno) ==
  /\ ctx[sd].pc = "handshake"
  /\ ctx' = [ctx EXCEPT ![sd].pc = "complete", ![sd].errno = errno, ![sd].blocking = FALSE]
  /\ UNCHANGED <<peer, pending, new_socket, recv, slots, cur_len, completed, lock, app,
                 failed, history>>

EntryOf(sd) == {k \in Slot : slots[k] = sd}

(* Mutant: a completed connection is put at the head of the queue.         *)
CompleteAtHead(sd) ==
  /\ ctx[sd].pc = "complete" /\ CanRead /\ ~ app.locked
  /\ Check("connection_req", EntryOf(sd) # {})
  /\ IF EntryOf(sd) = {} THEN UNCHANGED <<completed, lock, ctx, history>>
     ELSE /\ completed' = <<Min(EntryOf(sd))>> \o completed
          /\ history' = [history EXCEPT !.completed = Append(@, ctx[sd].peer)]
          /\ ReadLock
          /\ ctx' = [ctx EXCEPT ![sd].pc = "signal"]
  /\ UNCHANGED <<peer, pending, new_socket, recv, slots, cur_len, app>>

(* _mysock_passive_connection_complete() up to pthread_cond_signal().      *)
PassiveConnectionComplete(sd) ==
  /\ ctx[sd].pc = "complete" /\ CanRead /\ ~ app.locked
  /\ Check("connection_req", EntryOf(sd) # {})
  /\ IF EntryOf(sd) = {} THEN UNCHANGED <<completed, lock, ctx, history>>
     ELSE /\ completed' = Append(completed, Min(EntryOf(sd)))
          /\ history' = [history EXCEPT !.completed = Append(@, ctx[sd].peer)]
          /\ ReadLock
          /\ ctx' = [ctx EXCEPT ![sd].pc = "signal"]
  /\ UNCHANGED <<peer, pending, new_socket, recv, slots, cur_len, app>>

(* Mutant: nothing is signalled.                                           *)
UnlockUnsignalled(sd) ==
  /\ ctx[sd].pc = "signal"
  /\ ReadUnlock
  /\ ctx' = [ctx EXCEPT ![sd].pc = IF ctx[sd].errno = 0 THEN "established" ELSE "ended"]
  /\ UNCHANGED <<peer, pending, new_socket, recv, slots, cur_len, completed, app, failed, history>>

(* pthread_cond_signal() wakes a thread that waits; then the lock is given *)
(* back.  A connection that failed ends here.                              *)
SignalAndUnlock(sd) ==
  /\ ctx[sd].pc = "signal"
  /\ app' = [app EXCEPT !.woken = @ \/ app.pc = "wait"]
  /\ ReadUnlock
  /\ ctx' = [ctx EXCEPT ![sd].pc = IF ctx[sd].errno = 0 THEN "established" ELSE "ended"]
  /\ UNCHANGED <<peer, pending, new_socket, recv, slots, cur_len, completed, failed, history>>

(* control_loop() returns: both sides closed, or the connection aborted.   *)
TransportEnds(sd) ==
  /\ ctx[sd].pc = "established"
  /\ ctx' = [ctx EXCEPT ![sd].pc = "ended"]
  /\ UNCHANGED <<peer, pending, new_socket, recv, slots, cur_len, completed, lock, app,
                 failed, history>>

-----------------------------------------------------------------------------
(* The application: main() and do_connection() of server.c.                *)

AppAt(pc) == app' = [app EXCEPT !.pc = pc]

(* myaccept() up to the test of completed_queue.                           *)
DequeueStarts ==
  /\ app.pc = "idle" /\ CanRead
  /\ ReadLock /\ AppAt("test")
  /\ UNCHANGED <<peer, pending, new_socket, recv, slots, cur_len, completed, ctx, failed, history>>

(* With connection_lock: wait, or take the first completed connection and  *)
(* read cur_len.                                                           *)
DequeueTests ==
  /\ app.pc = "test"
  /\ IF completed = <<>>
     THEN AppAt("wait") /\ UNCHANGED <<slots, completed, failed, history>>
     ELSE LET k == Head(completed)
              sd == slots[k]
          IN /\ failed' = CASE sd = None -> "new_ctx"
                              [] sd # None /\ cur_len = 0 -> "cur_len"
                              [] OTHER -> failed
             /\ completed' = Tail(completed)
             /\ slots' = [slots EXCEPT ![k] = None]
             /\ app' = [app EXCEPT !.pc = "count", !.sd = sd, !.len = cur_len,
                                   !.locked = TRUE]
             /\ history' = [history EXCEPT !.raced = @ \/ recv.pc = "fill", !.accepted =
                             IF sd = None THEN @ ELSE Append(@, ctx[sd].peer)]
  /\ UNCHANGED <<peer, pending, new_socket, recv, cur_len, lock, ctx>>

(* pthread_cond_wait() comes back after a signal.                          *)
Wakes ==
  /\ app.pc = "wait" /\ app.woken
  /\ app' = [app EXCEPT !.pc = "test", !.woken = FALSE]
  /\ UNCHANGED <<peer, pending, new_socket, recv, slots, cur_len, completed, lock, ctx,
                 failed, history>>

(* --cur_len, and myaccept() returns; main() exits when it failed.         *)
DequeueReturns ==
  /\ app.pc = "count"
  /\ cur_len' = app.len - 1
  /\ ReadUnlock
  /\ app' = [app EXCEPT !.pc = IF ctx[app.sd].errno = 0 THEN "serve" ELSE "exited",
                        !.len = 0, !.locked = FALSE]
  /\ UNCHANGED <<peer, pending, new_socket, recv, slots, completed, ctx, failed, history>>

(* do_connection() is done: myclose() asks the transport thread to end,    *)
(* and waits for it.                                                       *)
CloseConnection ==
  /\ app.pc = "serve" /\ AppAt("join")
  /\ ctx' = [ctx EXCEPT ![app.sd].close_requested = TRUE]
  /\ UNCHANGED <<peer, pending, new_socket, recv, slots, cur_len, completed, lock,
                 failed, history>>

(* Mutant: the context is not freed.                                       *)
ContextKept ==
  /\ app.pc = "join" /\ ctx[app.sd].pc = "ended"
  /\ app' = [app EXCEPT !.pc = "idle", !.sd = None]
  /\ UNCHANGED <<peer, pending, new_socket, recv, slots, cur_len, completed, lock, ctx,
                 failed, history>>

ConnectionClosed ==
  /\ app.pc = "join" /\ ctx[app.sd].pc = "ended"
  /\ ctx' = [ctx EXCEPT ![app.sd] = Free]
  /\ app' = [app EXCEPT !.pc = "idle", !.sd = None]
  /\ UNCHANGED <<peer, pending, new_socket, recv, slots, cur_len, completed, lock,
                 failed, history>>

(* myclose() of the listening socket: the exit pipe, the end of the        *)
(* receive thread, listen_lock for writing.                                *)
CloseListening ==
  /\ app.pc = "idle" /\ AppCloses
  /\ app' = [app EXCEPT !.pc = "joinrecv", !.stop = TRUE]
  /\ UNCHANGED <<peer, pending, new_socket, recv, slots, cur_len, completed, lock, ctx,
                 failed, history>>

ReceiveThreadJoined ==
  /\ app.pc = "joinrecv" /\ recv.pc = "ended" /\ AppAt("writelock")
  /\ UNCHANGED <<peer, pending, new_socket, recv, slots, cur_len, completed, lock, ctx,
                 failed, history>>

WriteLock ==
  /\ app.pc = "writelock" /\ lock.readers = 0 /\ ~ lock.writer
  /\ lock' = [lock EXCEPT !.writer = TRUE] /\ AppAt("closeslots")
  /\ UNCHANGED <<peer, pending, new_socket, recv, slots, cur_len, completed, ctx,
                 failed, history>>

UsedSlots == {k \in Slot : slots[k] # None}

(* myclose() of the first connection in the queue, up to the join ...      *)
CloseQueued ==
  LET sd == slots[Min(UsedSlots)]
  IN /\ app.pc = "closeslots" /\ UsedSlots # {}
     /\ ctx' = [ctx EXCEPT ![sd].close_requested = TRUE]
     /\ app' = [app EXCEPT !.pc = "joinqueued", !.sd = sd]
     /\ UNCHANGED <<peer, pending, new_socket, recv, slots, cur_len, completed, lock,
                    failed, history>>

(* ... and after it.                                                       *)
QueuedClosed ==
  /\ app.pc = "joinqueued" /\ ctx[app.sd].pc = "ended"
  /\ ctx' = [ctx EXCEPT ![app.sd] = Free]
  /\ slots' = [slots EXCEPT ![Min(UsedSlots)] = None]
  /\ app' = [app EXCEPT !.pc = "closeslots", !.sd = None]
  /\ UNCHANGED <<peer, pending, new_socket, recv, cur_len, completed, lock, failed, history>>

(* The queue is freed with its completed connections.                      *)
QueueFreed ==
  /\ app.pc = "closeslots" /\ UsedSlots = {}
  /\ completed' = <<>> /\ cur_len' = 0
  /\ lock' = [lock EXCEPT !.writer = FALSE]
  /\ AppAt("closed")
  /\ UNCHANGED <<peer, pending, new_socket, recv, slots, ctx, failed, history>>

-----------------------------------------------------------------------------
Init ==
  /\ peer = [p \in Peers |-> "idle"]
  /\ pending = <<>> /\ new_socket = None
  /\ recv = [pc |-> "poll", len |-> 0, slot |-> None]
  /\ slots = [k \in Slot |-> None] /\ cur_len = 0 /\ completed = <<>>
  /\ lock = [readers |-> 0, writer |-> FALSE]
  /\ ctx = [sd \in Sd |-> Free]
  /\ app = [pc |-> "idle", sd |-> None, len |-> 0, woken |-> FALSE,
            locked |-> FALSE, stop |-> FALSE]
  /\ failed = "" /\ history = [completed |-> <<>>, accepted |-> <<>>,
                              dropped |-> FALSE, raced |-> FALSE]

Receive == RecvExits \/ RecvAccepts \/ RecvReads \/ EnqueueConnection \/ FillSlot

HandsOver(sd) ==
  \/ \E errno \in Errno : Unblock(sd, errno)
  \/ PassiveConnectionComplete(sd) \/ SignalAndUnlock(sd)

Transport(sd) == HandsOver(sd) \/ TransportEnds(sd)

Serve ==
  \/ DequeueTests \/ Wakes \/ DequeueReturns
  \/ CloseConnection \/ ConnectionClosed
  \/ ReceiveThreadJoined \/ WriteLock \/ CloseQueued \/ QueuedClosed \/ QueueFreed

Next ==
  /\ Running
  /\ \/ \E p \in Peers : PeerConnects(p) \/ \E what \in {"syn", "gone"} : PeerSends(p, what)
     \/ Receive
     \/ \E sd \in Sd : Transport(sd)
     \/ DequeueStarts \/ CloseListening \/ Serve

Spec == Init /\ [][Next]_vars

(* Threads that can run do.  A handshake ends, a connection ends once it   *)
(* is to be closed (its peer closes as well, or is given up), and a peer   *)
(* that connected sends its SYN or goes away.                              *)
FairSpec ==
  /\ Spec
  /\ WF_vars(Running /\ Receive)
  /\ \A sd \in Sd : WF_vars(Running /\ HandsOver(sd))
  /\ \A sd \in Sd : WF_vars(Running /\ ctx[sd].close_requested /\ TransportEnds(sd))
  /\ WF_vars(Running /\ DequeueStarts) /\ WF_vars(Running /\ Serve)
  /\ \A p \in Peers : WF_vars(Running /\ \E what \in {"syn", "gone"} : PeerSends(p, what))

-----------------------------------------------------------------------------
TypeOK ==
  /\ peer \in [Peers -> {"idle", "connected", "syn", "gone"}]
  /\ pending \in Seq(Peers) /\ new_socket \in Peers \cup {None}
  /\ recv.pc \in {"poll", "read", "enqueue", "fill", "ended"}
  /\ slots \in [Slot -> Sd \cup {None}] /\ cur_len \in Int
  /\ completed \in Seq(Slot)
  /\ lock.readers \in Nat /\ lock.writer \in BOOLEAN
  /\ \A sd \in Sd : ctx[sd].peer \in Peers \cup {None} /\ ctx[sd].errno \in Errno
  /\ app.sd \in Sd \cup {None}
  /\ Range(history.completed) \cup Range(history.accepted) \subseteq Peers

Accepted == Range(history.accepted)

PeerAt(k) == IF slots[k] = None THEN None ELSE ctx[slots[k]].peer

(* The queue of completed connections is handed to the application whole   *)
(* and in the order of completion: nothing lost, doubled or overtaken, by  *)
(* however many transport threads it is filled (connection_demux.c:299).   *)
AcceptsInOrder ==
  app.pc # "closed" /\ ~ lock.writer =>
    history.completed = history.accepted \o
                          [i \in DOMAIN completed |-> PeerAt(completed[i])]

(* A descriptor is in one place: in the queue, with the application, or    *)
(* unused; its threads never outlive it.  Nothing is left of a listening   *)
(* socket that was closed: its receive thread has ended, and every         *)
(* connection that was never accepted is closed with its descriptor free   *)
(* again (mysock_api.c:181).                                               *)
DescriptorsOwned ==
  /\ TypeOK
  /\ \A sd \in Sd : ctx[sd].pc # "free" <=> EntryOf(sd) # {} \/ app.sd = sd
  /\ app.pc = "closed" =>
       recv.pc = "ended" /\ \A sd \in Sd : ctx[sd].pc = "free" /\ EntryOf(sd) = {}

(* cur_len counts the connections in the queue, a connection being taken   *)
(* from it or put in it apart, as long as the receive thread and myaccept()*)
(* have not changed it at the same time, which no common lock prevents     *)
(* (connection_demux.c:114, 201).                                          *)
Counted ==
  ~ history.raced /\ ~ lock.writer /\ app.pc # "count" =>
    cur_len = Cardinality(UsedSlots)

(* An assertion fails for one of two reasons only: cur_len lost an update  *)
(* (connection_demux.c:113, 200), or a SYN was dropped and its socket not  *)
(* handed on (network_io_tcp.c:202).                                       *)
FailsForCause ==
  /\ failed \in {"", "cur_len", "queue_entry", "new_socket"}
  /\ failed \in {"cur_len", "queue_entry"} => history.raced
  /\ failed = "new_socket" => history.dropped

(* A connection that completes is accepted, unless the program ends or the *)
(* application closes the listening socket: no wake-up is lost.            *)
CompletedIsAccepted ==
  \A p \in Peers : p \in Range(history.completed) ~> p \in Accepted \/ ~ Running \/ app.stop

(* myclose() of a listening socket returns (connection_demux.c:369).       *)
CloseReturns == app.stop ~> app.pc = "closed" \/ ~ Running

-----------------------------------------------------------------------------
(* The inductive invariant behind AcceptsInOrder, DescriptorsOwned,        *)
(* Counted and FailsForCause, ListenInv: checked by TLC, proved in         *)
(* ListenQueue_proofs.                                                     *)

(* What the application holds, by where it is. *)

AppPc == {"idle", "test", "wait", "count", "serve", "join", "joinrecv", "writelock",
          "closeslots", "joinqueued", "closed", "exited"}

RecvPc == {"poll", "read", "enqueue", "fill", "ended"}

CtxPc == {"free", "handshake", "complete", "signal", "established", "ended"}

(* It holds a connection that it accepted,                                 *)
Accepting == {"count", "serve", "join", "exited"}

(* it is inside myaccept(), with the reader's lock,                        *)
Dequeueing == {"test", "wait", "count"}

(* it closes the listening socket, whose receive thread has been joined.   *)
Joined == {"writelock", "closeslots", "joinqueued", "closed"}

(* The handshake is over and the entry was put in completed_queue.         *)
HandedOver == {"signal", "established", "ended"}

Receiver == [pc : RecvPc, len : Int, slot : Slot \cup {None}]

Context == [pc : CtxPc, peer : Peers \cup {None}, errno : Errno, blocking : BOOLEAN,
            close_requested : BOOLEAN]

Application == [pc : AppPc, sd : Sd \cup {None}, len : Int, woken : BOOLEAN,
                locked : BOOLEAN, stop : BOOLEAN]

History == [completed : Seq(Peers), accepted : Seq(Peers), dropped : BOOLEAN,
            raced : BOOLEAN]

Failures == {"", "cur_len", "queue_entry", "new_socket"}

VariablesOK ==
  /\ peer \in [Peers -> {"idle", "connected", "syn", "gone"}]
  /\ pending \in Seq(Peers) /\ new_socket \in Peers \cup {None}
  /\ recv \in Receiver
  /\ slots \in [Slot -> Sd \cup {None}] /\ cur_len \in Int
  /\ completed \in Seq(Slot)
  /\ lock \in [readers : Nat, writer : BOOLEAN]
  /\ ctx \in [Sd -> Context] /\ app \in Application
  /\ failed \in Failures /\ history \in History

Signalling == {sd \in Sd : ctx[sd].pc = "signal"}

(* The readers of listen_lock are the threads inside its critical          *)
(* sections, and the writer is the application in the last part of         *)
(* myclose().                                                              *)
LockOK ==
  /\ lock.readers = Cardinality(Signalling) + (IF recv.pc = "fill" THEN 1 ELSE 0)
                      + (IF app.pc \in Dequeueing THEN 1 ELSE 0)
  /\ lock.writer <=> app.pc \in {"closeslots", "joinqueued"}

(* The receive thread: it holds a socket from accept() on until it is      *)
(* handed on or dropped, a free entry between the search and the fill, and *)
(* it has ended when myclose() has joined it.                              *)
RecvOK ==
  /\ recv.pc \in {"read", "enqueue", "fill"} => new_socket # None
  /\ recv.pc = "poll" /\ new_socket # None => history.dropped
  /\ recv.pc = "fill" /\ failed # "queue_entry" =>
       recv.slot # None /\ slots[recv.slot] = None
  /\ app.pc \in Joined => recv.pc = "ended"

(* A descriptor in use is in one entry of the queue or with the            *)
(* application; the one that is accepted is out of the queue, the one that *)
(* myclose() joins is still its first entry.                               *)
OwnedOK ==
  /\ \A sd \in Sd : ctx[sd].pc # "free" <=> EntryOf(sd) # {} \/ app.sd = sd
  /\ \A k, l \in Slot : slots[k] = slots[l] /\ slots[k] # None => k = l
  /\ \A sd \in Sd : ctx[sd].pc # "free" => ctx[sd].peer # None
  /\ app.sd # None <=> app.pc \in Accepting \cup {"joinqueued"}
  /\ app.pc \in Accepting => EntryOf(app.sd) = {} /\ ctx[app.sd].pc \in HandedOver
  /\ app.pc = "joinqueued" => UsedSlots # {} /\ app.sd = slots[Min(UsedSlots)]
  /\ app.pc = "closed" => UsedSlots = {}

(* The entries of completed_queue are used, each is there once, and its    *)
(* connection has been handed over; with those the application accepted    *)
(* they are all that completed, in the order of completion.                *)
CompletedOK ==
  ~ lock.writer =>
    /\ \A i \in DOMAIN completed :
         slots[completed[i]] # None /\ ctx[slots[completed[i]]].pc \in HandedOver
    /\ \A i, j \in DOMAIN completed : completed[i] = completed[j] => i = j
    /\ app.pc # "closed" =>
         /\ Len(history.completed) = Len(history.accepted) + Len(completed)
         /\ \A i \in DOMAIN history.accepted : history.completed[i] = history.accepted[i]
         /\ \A i \in DOMAIN completed :
              history.completed[Len(history.accepted) + i] = PeerAt(completed[i])

(* cur_len, and the values of it that the receive thread and myaccept()    *)
(* have read, count the used entries, as long as those two have not met.   *)
CountOK ==
  ~ history.raced =>
    /\ ~ lock.writer =>
         cur_len = Cardinality(UsedSlots) + (IF app.pc = "count" THEN 1 ELSE 0)
    /\ app.pc = "count" => app.len = cur_len /\ recv.pc # "fill"
    /\ recv.pc = "fill" => recv.len = cur_len

CauseOK ==
  /\ failed \in {"cur_len", "queue_entry"} => history.raced
  /\ failed = "new_socket" => history.dropped

ListenInv ==
  /\ VariablesOK /\ LockOK /\ RecvOK /\ OwnedOK /\ CompletedOK /\ CountOK /\ CauseOK
=============================================================================
