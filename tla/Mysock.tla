------------------------------- MODULE Mysock -------------------------------
(***************************************************************************)
(* The two ends of an hw3 connection above and below STCP: the demo client *)
(* (client.c) and server (server.c), the mysocket calls (mysock_api.c),    *)
(* the queues and threads of a connection (mysock.c, stcp_api.c), the      *)
(* receive threads and the TCP connection that carries the segments        *)
(* (network_io_socket.c, network_io_tcp.c).                                *)
(*                                                                         *)
(* STCP itself is taken for what ByteStreams promises of it: segments      *)
(* arrive once and in order, or the connection is given up.  A segment is  *)
(* the sequence of its bytes, empty for a FIN.                             *)
(*                                                                         *)
(* Each side has one condition variable, data_ready_cond, on which its     *)
(* application and its transport thread wait.  A thread changes a queue    *)
(* under the lock in one step and broadcasts in the next.                  *)
(***************************************************************************)
EXTENDS Integers, Sequences, FiniteSets, SequencesExt

CONSTANTS
  Files,     \* bound: the requests of the client, in order: lengths of files, or -1
  BufSize,   \* sizeof resp, of server.c: what a mywrite() of it takes at most
  LineSize,  \* sizeof line, of client.c: what its myread() takes at most
  MSS        \* STCP_MSS

ASSUME MysockAssumption ==
  /\ Files \in Seq(Int) /\ \A i \in DOMAIN Files : Files[i] >= -1
  /\ BufSize \in Nat \ {0} /\ LineSize \in Nat \ {0} /\ MSS \in Nat \ {0}

VARIABLES
  app,      \* app[s]: the application's thread, a call of it being made
  tr,       \* tr[s]: the transport thread
  rv,       \* rv[s]: the network receive thread
  sock,     \* sock[s]: the flags of the mysock_context
  q,        \* q[s]: app_recv_queue, app_send_queue and network_recv_queue
  net,      \* net[s]: segments on their way to s over TCP
  tcp,      \* tcp[s]: the TCP socket of s: unconnected, connected or closed
  waiting,  \* waiting[s]: threads that wait for data_ready_cond
  signal,   \* signal[s]: threads that are to broadcast data_ready_cond
  hist      \* what was written and read on each side, and what went wrong

vars == <<app, tr, rv, sock, q, net, tcp, waiting, signal, hist>>

Side == {"client", "server"}
Peer(s) == CHOOSE r \in Side : r # s

EOL == -2                      \* the CRLF at the end of a line
Line(x) == <<x, EOL>>          \* a name, or a length, is one byte
Body(n) == [i \in 1 .. n |-> 100 + i]

ECONNREFUSED == 111

-----------------------------------------------------------------------------
(* Threads.                                                                *)

Runs(s, thread) ==
  thread \notin waiting[s] /\ thread \notin signal[s] /\ app[s].pc # "exited"

Wait(s, thread) == waiting' = [waiting EXCEPT ![s] = @ \cup {thread}]
ToSignal(s, thread) == signal' = [signal EXCEPT ![s] = @ \cup {thread}]

(* pthread_cond_broadcast() after the lock was given back.                 *)
Broadcast(s, thread) ==
  /\ thread \in signal[s] /\ app[s].pc # "exited"
  /\ signal' = [signal EXCEPT ![s] = @ \ {thread}]
  /\ waiting' = [waiting EXCEPT ![s] = {}]
  /\ UNCHANGED <<app, tr, rv, sock, q, net, tcp, hist>>

(* _mysock_enqueue_buffer() and _mysock_dequeue_buffer() with              *)
(* remove_partial: the head of a queue loses what it gives.                *)
Enqueue(queue, packet) == Append(queue, packet)

(* Mutant: the rest of a packet is put behind the packets after it.        *)
DequeuedAhead(queue, max_len) ==
  IF Len(Head(queue)) > max_len
  THEN Append(Tail(queue), SubSeq(Head(queue), max_len + 1, Len(Head(queue))))
  ELSE Tail(queue)

Taken(queue, max_len) ==
  IF Len(Head(queue)) > max_len THEN SubSeq(Head(queue), 1, max_len) ELSE Head(queue)

Dequeued(queue, max_len) ==
  IF Len(Head(queue)) > max_len
  THEN <<SubSeq(Head(queue), max_len + 1, Len(Head(queue)))>> \o Tail(queue)
  ELSE Tail(queue)

-----------------------------------------------------------------------------
(* The transport thread.                                                   *)

Ready(s, event) ==
  \/ event = "APP_DATA" /\ q[s].app_recv # <<>>
  \/ event = "NETWORK_DATA" /\ q[s].network # <<>>
  \/ event = "APP_CLOSE" /\ sock[s].close_requested /\ q[s].app_recv = <<>>

Events(s) == {event \in {"APP_DATA", "NETWORK_DATA", "APP_CLOSE"} : Ready(s, event)}

(* The SYN needs the TCP connection, which either thread makes.  A refused *)
(* connect() leaves its errno behind and is tried again with the next SYN. *)
SendSyn(s) ==
  /\ tr[s].pc = "syn" /\ Runs(s, "transport")
  /\ \/ /\ tcp' = [tcp EXCEPT ![s] = "connected"]
        /\ tr' = [tr EXCEPT ![s].pc = "handshake"]
        /\ UNCHANGED hist
     \/ /\ tcp[s] = "unconnected"
        /\ tr' = [tr EXCEPT ![s].pc = "handshake", ![s].errno = ECONNREFUSED]
        /\ hist' = [hist EXCEPT !.trouble = TRUE]
        /\ UNCHANGED tcp
  /\ UNCHANGED <<app, rv, sock, q, net, waiting, signal>>

Unblock(s) ==
  sock' = [sock EXCEPT ![s].blocking = FALSE, ![s].stcp_errno = tr'[s].errno]

(* The handshake of the active side comes to its end, and that of the      *)
(* passive side with it.  It needs the receive thread.                     *)
Established(s) ==
  /\ s = "client" /\ tr[s].pc = "handshake" /\ Runs(s, "transport")
  /\ tcp[s] = "connected" /\ rv[s] = "poll"
  /\ tr' = [tr EXCEPT ![s].pc = "wait", ![Peer(s)].pc = "wait"]
  /\ Unblock(s)
  /\ tcp' = [tcp EXCEPT ![Peer(s)] = "connected"]
  /\ rv' = [rv EXCEPT ![Peer(s)] = "poll"]
  /\ UNCHANGED <<app, q, net, waiting, signal, hist>>

(* Its SYN was sent MAX_RETRANSMISSION_COUNT times.                        *)
HandshakeFails(s) ==
  /\ s = "client" /\ tr[s].pc = "handshake" /\ Runs(s, "transport")
  /\ tr' = [tr EXCEPT ![s].pc = "final", ![s].errno = ECONNREFUSED]
  /\ Unblock(s)
  /\ hist' = [hist EXCEPT !.trouble = TRUE]
  /\ UNCHANGED <<app, rv, q, net, tcp, waiting, signal>>

(* stcp_wait_for_event(): a request to close is reported once, and only    *)
(* after the data that was written before it.                              *)
WaitForEvent(s) ==
  /\ tr[s].pc = "wait" /\ Runs(s, "transport")
  /\ IF Events(s) = {}
     THEN Wait(s, "transport") /\ UNCHANGED <<tr, sock>>
     ELSE /\ tr' = [tr EXCEPT ![s].pc = "handle", ![s].events = Events(s)]
          /\ sock' = [sock EXCEPT ![s].close_requested = @ /\ "APP_CLOSE" \notin Events(s)]
          /\ UNCHANGED waiting
  /\ UNCHANGED <<app, rv, q, net, tcp, signal, hist>>

Handles(s, event) ==
  tr[s].pc = "handle" /\ Runs(s, "transport") /\ event \in tr[s].events

(* handle_app_data(): one segment.  After a FIN the data is not taken, and *)
(* no empty segment is sent.                                               *)
HandleAppData(s) ==
  /\ Handles(s, "APP_DATA")
  /\ tr' = [tr EXCEPT ![s].events = @ \ {"APP_DATA"}]
  /\ IF tr[s].fin_sent THEN UNCHANGED <<q, net>>
     ELSE /\ net' = [net EXCEPT ![Peer(s)] =
                       IF Head(q[s].app_recv) = <<>> THEN @
                       ELSE Append(@, Taken(q[s].app_recv, MSS))]
          /\ q' = [q EXCEPT ![s].app_recv = Dequeued(@, MSS)]
  /\ UNCHANGED <<app, rv, sock, tcp, waiting, signal, hist>>

(* Mutant: a FIN is put before the data the application has not read.      *)
HandleFinFirst(s) ==
  /\ Handles(s, "NETWORK_DATA") /\ "APP_DATA" \notin tr[s].events
  /\ q' = [q EXCEPT ![s].network = Tail(@),
                    ![s].app_send = IF Head(q[s].network) = <<>> THEN <<<<>>>> \o @
                                         ELSE Enqueue(@, Head(q[s].network))]
  /\ tr' = [tr EXCEPT ![s].events = @ \ {"NETWORK_DATA"},
                      ![s].fin_received = @ \/ Head(q[s].network) = <<>>]
  /\ ToSignal(s, "transport")
  /\ UNCHANGED <<app, rv, sock, net, tcp, waiting, hist>>

(* Mutant: stcp_app_send() does not wake the application.                  *)
HandleNetworkDataQuietly(s) ==
  /\ Handles(s, "NETWORK_DATA") /\ "APP_DATA" \notin tr[s].events
  /\ q' = [q EXCEPT ![s].network = Tail(@),
                    ![s].app_send = Enqueue(@, Head(q[s].network))]
  /\ tr' = [tr EXCEPT ![s].events = @ \ {"NETWORK_DATA"},
                      ![s].fin_received = @ \/ Head(q[s].network) = <<>>]
  /\ UNCHANGED <<app, rv, sock, net, tcp, waiting, signal, hist>>

(* handle_network_data(): data or a FIN for the application.               *)
HandleNetworkData(s) ==
  /\ Handles(s, "NETWORK_DATA") /\ "APP_DATA" \notin tr[s].events
  /\ q' = [q EXCEPT ![s].network = Tail(@),
                    ![s].app_send = Enqueue(@, Head(q[s].network))]
  /\ tr' = [tr EXCEPT ![s].events = @ \ {"NETWORK_DATA"},
                      ![s].fin_received = @ \/ Head(q[s].network) = <<>>]
  /\ ToSignal(s, "transport")
  /\ UNCHANGED <<app, rv, sock, net, tcp, waiting, hist>>

HandleAppClose(s) ==
  /\ Handles(s, "APP_CLOSE") /\ tr[s].events = {"APP_CLOSE"}
  /\ tr' = [tr EXCEPT ![s].events = {}, ![s].fin_sent = TRUE]
  /\ net' = [net EXCEPT ![Peer(s)] = Append(@, <<>>)]
  /\ UNCHANGED <<app, rv, sock, q, tcp, waiting, signal, hist>>

(* control_loop() goes on until both FINs have passed.                     *)
EndOfTurn(s) ==
  /\ tr[s].pc = "handle" /\ Runs(s, "transport") /\ tr[s].events = {}
  /\ tr' = [tr EXCEPT ![s].pc = IF tr[s].fin_sent /\ tr[s].fin_received
                                THEN "final" ELSE "wait"]
  /\ UNCHANGED <<app, rv, sock, q, net, tcp, waiting, signal, hist>>

(* What was sent and has not reached the peer's transport thread.          *)
InFlight(s) == net[Peer(s)] # <<>> \/ q[Peer(s)].network # <<>>

(* handle_timeout() gives the connection up when what it sent, a FIN or    *)
(* data, is not acknowledged: it did not arrive, or its ACKs did not.      *)
GiveUp(s) ==
  /\ tr[s].pc = "wait" /\ "transport" \notin signal[s] /\ app[s].pc # "exited"
  /\ tr[s].fin_sent \/ Len(FlattenSeq(q[s].app_recv)) < Len(hist.written[s])
  /\ tr' = [tr EXCEPT ![s].pc = "final"]
  /\ waiting' = [waiting EXCEPT ![s] = @ \ {"transport"}]
  /\ hist' = [hist EXCEPT !.trouble = TRUE]
  /\ UNCHANGED <<app, rv, sock, q, net, tcp, signal>>

(* transport_init() has returned: a last end of file for myread().         *)
TransportEnds(s) ==
  /\ tr[s].pc = "final" /\ Runs(s, "transport")
  /\ tr' = [tr EXCEPT ![s].pc = "ended"]
  /\ q' = [q EXCEPT ![s].app_send = Enqueue(@, <<>>)]
  /\ ToSignal(s, "transport")
  /\ UNCHANGED <<app, rv, sock, net, tcp, waiting, hist>>

-----------------------------------------------------------------------------
(* network_recv_thread_func().                                             *)

(* poll() reports a socket that is not connected; then it connects.        *)
RecvConnects(s) ==
  /\ rv[s] = "poll" /\ Runs(s, "recv") /\ tcp[s] = "unconnected" /\ ~ sock[s].exit_pipe
  /\ \/ tcp' = [tcp EXCEPT ![s] = "connected"] /\ UNCHANGED <<rv, hist>>
     \/ /\ rv' = [rv EXCEPT ![s] = "ended"]
        /\ hist' = [hist EXCEPT !.trouble = TRUE]
        /\ UNCHANGED tcp
  /\ UNCHANGED <<app, tr, sock, q, net, waiting, signal>>

RecvPacket(s) ==
  /\ rv[s] = "poll" /\ Runs(s, "recv") /\ net[s] # <<>> /\ ~ sock[s].exit_pipe
  /\ q' = [q EXCEPT ![s].network = Enqueue(@, Head(net[s]))]
  /\ net' = [net EXCEPT ![s] = Tail(@)]
  /\ ToSignal(s, "recv")
  /\ UNCHANGED <<app, tr, rv, sock, tcp, waiting, hist>>

(* The exit pipe, or the end of the TCP connection.                        *)
RecvEnds(s) ==
  /\ rv[s] = "poll" /\ Runs(s, "recv")
  /\ sock[s].exit_pipe \/ (net[s] = <<>> /\ tcp[Peer(s)] = "closed")
  /\ rv' = [rv EXCEPT ![s] = "ended"]
  /\ UNCHANGED <<app, tr, sock, q, net, tcp, waiting, signal, hist>>

-----------------------------------------------------------------------------
(* The calls of the application.                                           *)

(* A call returns, and the application is at pc.                           *)
At(s, pc) == app' = [app EXCEPT ![s].pc = pc]

(* myconnect(): the threads are started, and it waits to be unblocked.     *)
Connect ==
  /\ app["client"].pc = "start" /\ At("client", "connecting")
  /\ tr' = [tr EXCEPT !["client"].pc = "syn"]
  /\ rv' = [rv EXCEPT !["client"] = "poll"]
  /\ UNCHANGED <<sock, q, net, tcp, waiting, signal, hist>>

(* main() of the client exits when it failed; the process takes the TCP    *)
(* connection with it.                                                     *)
ConnectReturns ==
  /\ app["client"].pc = "connecting" /\ ~ sock["client"].blocking
  /\ IF sock["client"].stcp_errno = 0
     THEN At("client", "ask") /\ UNCHANGED tcp
     ELSE At("client", "exited") /\ tcp' = [tcp EXCEPT !["client"] = "closed"]
  /\ UNCHANGED <<tr, rv, sock, q, net, waiting, signal, hist>>

(* myaccept() of the server.                                               *)
Accept ==
  /\ app["server"].pc = "accept" /\ tr["server"].pc # "none" /\ At("server", "line")
  /\ UNCHANGED <<tr, rv, sock, q, net, tcp, waiting, signal, hist>>

(* mywrite(): all of it is queued.                                         *)
Write(s, buf) ==
  /\ q' = [q EXCEPT ![s].app_recv = Enqueue(@, buf)]
  /\ ToSignal(s, "app")
  /\ hist' = [hist EXCEPT !.written[s] = @ \o buf]
  /\ UNCHANGED <<tr, rv, sock, net, tcp, waiting>>

(* myread() waits for data, or reads at most max_len bytes of it; after    *)
(* the end of file it reads nothing.                                       *)
ReadWaits(s) ==
  /\ ~ sock[s].eof /\ q[s].app_send = <<>> /\ Wait(s, "app")
  /\ UNCHANGED <<app, tr, rv, sock, q, net, tcp, signal, hist>>

Received(s, max_len) == IF sock[s].eof THEN <<>> ELSE Taken(q[s].app_send, max_len)

Read(s, max_len) ==
  /\ q[s].app_send = <<>> => sock[s].eof
  /\ IF sock[s].eof THEN UNCHANGED <<sock, q, hist>>
     ELSE LET data == Received(s, max_len)
          IN /\ sock' = [sock EXCEPT ![s].eof = data = <<>>]
             /\ q' = [q EXCEPT ![s].app_send = Dequeued(@, max_len)]
             /\ hist' = [hist EXCEPT !.got[s] = @ \o data]
  /\ UNCHANGED <<tr, rv, net, tcp, waiting, signal>>

(* get_nvt_line(): bytes until the end of the line or of the connection;   *)
(* what was read so far stays in the line then.                            *)
GetLine(s, then) ==
  LET data == Received(s, 1)
  IN \/ ReadWaits(s)
     \/ /\ Read(s, 1)
        /\ app' = [app EXCEPT ![s].line = IF data = <<EOL>> THEN @ ELSE @ \o data,
                              ![s].pc = IF data \in {<<>>, <<EOL>>} THEN then ELSE @]

-----------------------------------------------------------------------------
(* loop_until_end() of the client.                                         *)

Client == "client"
Calling(s, pc) == app[s].pc = pc /\ Runs(s, "app")

(* The next request, or the end of the input.                              *)
Ask ==
  /\ Calling(Client, "ask")
  /\ IF app[Client].asked = Len(Files)
     THEN At(Client, "close") /\ UNCHANGED <<tr, rv, sock, q, net, tcp, waiting, signal, hist>>
     ELSE /\ app' = [app EXCEPT ![Client].pc = "answer", ![Client].asked = @ + 1,
                                ![Client].line = <<>>]
          /\ Write(Client, Line(app[Client].asked + 1))

ReadAnswer == Calling(Client, "answer") /\ GetLine(Client, "parse")

(* A line that is not an answer ends the loop, a file that does not exist  *)
(* is passed over.                                                         *)
Parse ==
  /\ Calling(Client, "parse")
  /\ app' = [app EXCEPT ![Client].pc = IF app[Client].line = <<>> THEN "close"
                                       ELSE IF app[Client].line = <<-1>> THEN "ask"
                                       ELSE "file",
                        ![Client].left = IF app[Client].line = <<>> THEN @
                                         ELSE app[Client].line[1]]
  /\ UNCHANGED <<tr, rv, sock, q, net, tcp, waiting, signal, hist>>

(* The file, byte for byte; a short one is reported and ends the program.  *)
ReadFile ==
  LET left == app[Client].left
      max_len == IF left < LineSize THEN left ELSE LineSize
      data == Received(Client, max_len)
  IN /\ Calling(Client, "file")
     /\ \/ /\ left = 0
           /\ app' = [app EXCEPT ![Client].pc = "ask", ![Client].received = @ + 1]
           /\ UNCHANGED <<tr, rv, sock, q, net, tcp, waiting, signal, hist>>
        \/ left # 0 /\ ReadWaits(Client)
        \/ /\ left # 0 /\ Read(Client, max_len)
           /\ app' = [app EXCEPT ![Client].left = @ - Len(data),
                                 ![Client].pc = IF data = <<>> THEN "close" ELSE @]

-----------------------------------------------------------------------------
(* do_connection() of the server.                                          *)

Server == "server"

GetRequest == Calling(Server, "line") /\ GetLine(Server, "process")

(* process_line(): the line of the answer ...                              *)
Process ==
  LET line == app[Server].line
  IN /\ Calling(Server, "process")
     /\ IF line = <<>>
        THEN At(Server, "close") /\ UNCHANGED <<tr, rv, sock, q, net, tcp, waiting, signal, hist>>
        ELSE LET length == Files[line[1]]
             IN /\ app' = [app EXCEPT ![Server].pc = IF length = -1 THEN "line" ELSE "body",
                                      ![Server].left = IF length = -1 THEN 0 ELSE length,
                                      ![Server].line = IF length = -1 THEN <<>> ELSE line]
                /\ Write(Server, Line(length))

(* ... and the file, a buffer at a time, unless read() fails.              *)
SendFile ==
  LET left == app[Server].left
      length == Files[app[Server].line[1]]
      n == IF left < BufSize THEN left ELSE BufSize
  IN /\ Calling(Server, "body")
     /\ IF left = 0
        THEN /\ app' = [app EXCEPT ![Server].pc = "line", ![Server].line = <<>>]
             /\ UNCHANGED <<tr, rv, sock, q, net, tcp, waiting, signal, hist>>
        ELSE /\ app' = [app EXCEPT ![Server].left = @ - n]
             /\ Write(Server, SubSeq(Body(length), length - left + 1, length - left + n))

ReadFails ==
  /\ Calling(Server, "body") /\ At(Server, "close")
  /\ hist' = [hist EXCEPT !.unread = TRUE]
  /\ UNCHANGED <<tr, rv, sock, q, net, tcp, waiting, signal>>

-----------------------------------------------------------------------------
(* myclose() of either side.                                               *)

RequestClose(s) ==
  /\ Calling(s, "close") /\ At(s, "join")
  /\ sock' = [sock EXCEPT ![s].close_requested = TRUE]
  /\ ToSignal(s, "app")
  /\ UNCHANGED <<tr, rv, q, net, tcp, waiting, hist>>

(* Mutant: the transport thread is not joined.                             *)
TransportLeft(s) ==
  /\ Calling(s, "join")
  /\ At(s, "joinrecv")
  /\ sock' = [sock EXCEPT ![s].exit_pipe = TRUE]
  /\ UNCHANGED <<tr, rv, q, net, tcp, waiting, signal, hist>>

(* _network_stop_recv_thread() once the transport thread has ended.        *)
TransportJoined(s) ==
  /\ Calling(s, "join") /\ tr[s].pc = "ended" /\ "transport" \notin signal[s]
  /\ At(s, "joinrecv")
  /\ sock' = [sock EXCEPT ![s].exit_pipe = TRUE]
  /\ UNCHANGED <<tr, rv, q, net, tcp, waiting, signal, hist>>

(* _mysock_free_context(): the queues with what they still hold, and the   *)
(* TCP connection.                                                         *)
FreeContext(s) ==
  /\ Calling(s, "joinrecv") /\ rv[s] = "ended" /\ "recv" \notin signal[s]
  /\ At(s, "closed")
  /\ q' = [q EXCEPT ![s] = [app_recv |-> <<>>, app_send |-> <<>>, network |-> <<>>]]
  /\ tcp' = [tcp EXCEPT ![s] = "closed"]
  /\ UNCHANGED <<tr, rv, sock, net, waiting, signal, hist>>

-----------------------------------------------------------------------------
Init ==
  /\ app = [s \in Side |-> [pc |-> IF s = Client THEN "start" ELSE "accept", line |-> <<>>,
                            left |-> 0, asked |-> 0, received |-> 0]]
  /\ tr = [s \in Side |-> [pc |-> "none", events |-> {}, errno |-> 0,
                           fin_sent |-> FALSE, fin_received |-> FALSE]]
  /\ rv = [s \in Side |-> "none"]
  /\ sock = [s \in Side |-> [blocking |-> TRUE, stcp_errno |-> 0, close_requested |-> FALSE,
                             eof |-> FALSE, exit_pipe |-> FALSE]]
  /\ q = [s \in Side |-> [app_recv |-> <<>>, app_send |-> <<>>, network |-> <<>>]]
  /\ net = [s \in Side |-> <<>>]
  /\ tcp = [s \in Side |-> "unconnected"]
  /\ waiting = [s \in Side |-> {}] /\ signal = [s \in Side |-> {}]
  /\ hist = [written |-> [s \in Side |-> <<>>], got |-> [s \in Side |-> <<>>],
             trouble |-> FALSE, unread |-> FALSE]

Transport(s) ==
  \/ SendSyn(s) \/ Established(s) \/ WaitForEvent(s)
  \/ HandleAppData(s) \/ HandleNetworkData(s) \/ HandleAppClose(s) \/ EndOfTurn(s)
  \/ TransportEnds(s) \/ Broadcast(s, "transport")

Receive(s) ==
  RecvConnects(s) \/ RecvPacket(s) \/ RecvEnds(s) \/ Broadcast(s, "recv")

Close(s) == RequestClose(s) \/ TransportJoined(s) \/ FreeContext(s)

ClientApp ==
  \/ Connect \/ ConnectReturns \/ Ask \/ ReadAnswer \/ Parse \/ ReadFile
  \/ Close(Client) \/ Broadcast(Client, "app")

ServerApp ==
  \/ Accept \/ GetRequest \/ Process \/ SendFile \/ ReadFails
  \/ Close(Server) \/ Broadcast(Server, "app")

Next ==
  \/ \E s \in Side : Transport(s) \/ Receive(s) \/ HandshakeFails(s) \/ GiveUp(s)
  \/ ClientApp \/ ServerApp

Spec == Init /\ [][Next]_vars

(* Every thread that can run does, the user of the client types on, and a  *)
(* transport thread whose segments nobody takes any more gives up, in the  *)
(* handshake as well.                                                      *)
NobodyTakes(s) == tr[Peer(s)].pc = "ended" \/ app[Peer(s)].pc = "exited"

FairSpec ==
  /\ Spec
  /\ \A s \in Side : WF_vars(Transport(s)) /\ WF_vars(Receive(s))
  /\ \A s \in Side : WF_vars(NobodyTakes(s) /\ InFlight(s) /\ GiveUp(s))
  /\ \A s \in Side : WF_vars(rv[s] = "ended" /\ HandshakeFails(s))
  /\ WF_vars(ClientApp) /\ WF_vars(ServerApp)

-----------------------------------------------------------------------------
TypeOK ==
  /\ \A s \in Side :
       /\ tr[s].pc \in {"none", "syn", "handshake", "wait", "handle", "final", "ended"}
       /\ tr[s].events \subseteq {"APP_DATA", "NETWORK_DATA", "APP_CLOSE"}
       /\ tr[s].errno \in {0, ECONNREFUSED} /\ sock[s].stcp_errno \in {0, ECONNREFUSED}
       /\ rv[s] \in {"none", "poll", "ended"}
       /\ tcp[s] \in {"unconnected", "connected", "closed"}
       /\ waiting[s] \subseteq {"app", "transport"}
       /\ signal[s] \subseteq {"app", "transport", "recv"}
       /\ app[s].left \in Int /\ app[s].asked \in 0 .. Len(Files)
       /\ Len(app[s].line) <= 1

BrokeOff(s) == s = Server /\ app[s].pc = "closed" /\ hist.unread

Bytes(s) ==
  hist.got[s] \o FlattenSeq(q[s].app_send) \o FlattenSeq(q[s].network)
    \o FlattenSeq(net[s]) \o FlattenSeq(q[Peer(s)].app_recv)

(* What was written on one side is, in this order, what the other side has *)
(* read, its two queues, the segments under way and the first queue: no    *)
(* queue loses, doubles or overtakes a byte, and neither does myclose(),   *)
(* but that of a server that broke off at a file it could not read: a next *)
(* request may lie in its queue (server.c:249-254).  After a connection    *)
(* that broke, what was read is the beginning of it; after one that did    *)
(* not, the client has every file there is.                                *)
StreamsIntact ==
  /\ \A s \in Side :
       /\ IsPrefix(hist.got[s], hist.written[Peer(s)])
       /\ ~ hist.trouble /\ ~ BrokeOff(s) => Bytes(s) = hist.written[Peer(s)]
  /\ app[Client].pc = "closed" /\ ~ hist.trouble /\ ~ hist.unread =>
       app[Client].received = Cardinality({i \in DOMAIN Files : Files[i] # -1})

(* The request to close reaches STCP once, and after everything that was   *)
(* written (stcp_api.c:82-84); myread() returns 0 when all the other side  *)
(* wrote has been read, and not before that side asked to close.           *)
EndsComeLast ==
  \A s \in Side :
    /\ "APP_CLOSE" \in tr[s].events => ~ tr[s].fin_sent /\ q[s].app_recv = <<>>
    /\ sock[s].eof /\ ~ hist.trouble =>
         /\ hist.got[s] = hist.written[Peer(s)]
         /\ app[Peer(s)].pc \in {"join", "joinrecv", "closed"}

(* No thread of a connection is left when its context is freed, and none   *)
(* is about to use its condition variable (mysock.c:310-313).              *)
NoThreadOutlives ==
  /\ TypeOK
  /\ \A s \in Side : app[s].pc = "closed" =>
       tr[s].pc = "ended" /\ rv[s] = "ended" /\ signal[s] = {} /\ waiting[s] = {}

(* Unless the connection breaks, both applications come to an end: no      *)
(* thread waits for a broadcast that was made already.  When the transport *)
(* thread has ended, its application learns of it and ends, whatever       *)
(* became of the connection (mysock.c:394-397).                            *)
BothEnd ==
  /\ <>(hist.trouble \/ \A s \in Side : app[s].pc = "closed")
  /\ \A s \in Side : tr[s].pc = "ended" ~> app[s].pc \in {"closed", "exited"}
=============================================================================
