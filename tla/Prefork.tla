------------------------------ MODULE Prefork -------------------------------
(***************************************************************************)
(* The preforking server of hw1 (sserver.c) and its clients (sclient.c).   *)
(*                                                                         *)
(* A parent forks N_CHILD children that accept connections from the same   *)
(* listening socket, and then waits for each of them.  A child serves one  *)
(* connection after the other with one buffer.  Signals arrive between any *)
(* two steps: SIGCHLD when a child dies, SIGINT for the whole group.       *)
(*                                                                         *)
(* Bytes are counted in pieces.  The k-th piece of what client c sends is  *)
(* <<c, k>>: some lines of its header, of which the last piece has the     *)
(* empty one ("end"), or of its body.  A read() returns any number of the  *)
(* pieces that came.                                                       *)
(***************************************************************************)
EXTENDS Integers, Sequences, FiniteSets, FiniteSetsExt, SequencesExt

CONSTANTS
  Client,        \* clients, with one connection each
  Requests,      \* Requests[c]: the requests that client c may make
  N_CHILD,       \* number of children
  MaxHdr,        \* MAX_HDR, in pieces
  MaxBody,       \* MAX_CONT, in pieces
  SockBuf,       \* what a socket holds in one direction, in pieces
  MaxFaults      \* bound: processes killed from outside, interrupts from the
                 \* keyboard and calls of fork() that fail, together

(* A request: a header has a first line, good or bad, and ends with its    *)
(* first empty line, if it has one.  length is read from it where it is    *)
(* not bad, so it is at most MAX_CONT (line 258).                          *)
Request ==
  {r \in [header : Seq(SUBSET STRING), size : Nat, length : 0 .. MaxBody] :
     /\ r.header # <<>>
     /\ {"first", "bad first"} \cap Head(r.header) # {}
     /\ \A k \in 1 .. Len(r.header) - 1 : "end" \notin r.header[k]}

NoConn == "none"

ASSUME PreforkAssumption ==
  /\ {N_CHILD, MaxHdr, SockBuf} \subseteq Nat \ {0}
  /\ {MaxBody, MaxFaults} \subseteq Nat
  /\ \A c \in Client : Requests[c] \subseteq Request
  /\ NoConn \notin Client

VARIABLES
  request,     \* request[c]: the lines in each piece of the header, the pieces of
                 \* the body, its Content-Length
  client,      \* client[c]: where main() of sclient is, what is left to write, what it read
  net,         \* net[c]: pieces on their way up and down, state of the server's end
  backlog,     \* connections that nobody accepted yet
  child,       \* child[i]: a child of the server
  parent,      \* where main() of sserver is, child_pids, signals that are pending
  faults       \* kills, interrupts and failed forks so far

vars == <<request, client, net, backlog, child, parent, faults>>

Child == 1 .. N_CHILD

Alive(i) == child[i].pc \in {"accept", "header", "body", "write"}

(* The listening socket is open as long as a process has it.               *)
Listening == parent.pc # "exited" \/ \E i \in Child : Alive(i)

Nul == <<"nul", 0>>

MemSize == MaxHdr + MaxBody + 1

(* The lines in a piece of a buffer.                                       *)
Lines(t) ==
  IF t # Nul /\ t[2] <= Len(request[t[1]].header) THEN request[t[1]].header[t[2]] ELSE {}

Pieces(c) == [k \in 1 .. Len(request[c].header) + request[c].size |-> <<c, k>>]

Unset == 0
ForkFailed == -1

-----------------------------------------------------------------------------
(* The buffer of a child, and the parser.                                  *)

(* strstr(buffer, CRLFCRLF): the piece with the empty line, up to the NUL. *)
HeaderEnd(mem) ==
  LET ends == {k \in DOMAIN mem : /\ "end" \in Lines(mem[k])
                                  /\ \A j \in 1 .. k - 1 : mem[j] # Nul}
  IN IF ends = {} THEN 0 ELSE Min(ends)

(* read() to buf + n.                                                      *)
Store(mem, n, pieces) ==
  [k \in DOMAIN mem |-> IF k \in n + 1 .. n + Len(pieces) THEN pieces[k - n] ELSE mem[k]]

(* parse_first_line(), parse_host() and parse_content_length() fail.       *)
Rejected == {"bad first", "bad host", "bad length"}

(* parse_header(): -1, or 0 and the last Content-Length is used.           *)
ParseHeader(lines) ==
  IF lines \cap Rejected # {} \/ ~ {"host", "length"} \subseteq lines
  THEN -1 ELSE 0

-----------------------------------------------------------------------------
(* Responses, and the end of a connection.                                 *)

EndOfHeader == <<"end", 0>>
Bad == <<<<"status", 400>>, EndOfHeader>>
Ok(body) == <<<<"status", 200>>, EndOfHeader>> \o body

(* A close() with data that was not read resets the connection.            *)
Shut(n, how) == [n EXCEPT !.state = IF n.up = <<>> THEN how ELSE "reset", !.up = <<>>]

(* Mutant: a path that goes on to accept() without close(client_fd).       *)
CloseForgotten(i, mem) ==
  /\ child' = [child EXCEPT ![i] = [@ EXCEPT !.pc = "accept", !.conn = NoConn, !.mem = mem,
                                             !.n = 0, !.need = 0, !.resp = <<>>]]
  /\ UNCHANGED net

(* close(client_fd), then accept() again.                                  *)
Close(i, mem) ==
  /\ child' = [child EXCEPT ![i] = [@ EXCEPT !.pc = "accept", !.conn = NoConn, !.mem = mem,
                                             !.n = 0, !.need = 0, !.resp = <<>>]]
  /\ net' = [net EXCEPT ![child[i].conn] = Shut(@, "closed")]

(* write_all() of a response is next.                                      *)
Reply(i, mem, response) ==
  child' = [child EXCEPT ![i] = [@ EXCEPT !.pc = "write", !.mem = mem, !.resp = response]]

SendOk(i, mem, length) ==
  Reply(i, mem, Ok(SubSeq(mem, HeaderEnd(mem) + 1, HeaderEnd(mem) + length)))

-----------------------------------------------------------------------------
(* A child.                                                                *)

(* accept(); the buffer keeps what the last connection left in it.         *)
Accept(i) ==
  /\ child[i].pc = "accept" /\ backlog # <<>>
  /\ child' = [child EXCEPT ![i] = [@ EXCEPT !.pc = "header", !.conn = Head(backlog)]]
  /\ net' = [net EXCEPT ![Head(backlog)].state = IF @ = "lost" THEN @ ELSE "open"]
  /\ backlog' = Tail(backlog)
  /\ UNCHANGED <<request, client, parent, faults>>

Left(c) == client[c].pc = "killed"

(* read() fails: the peer's host reset the connection.                     *)
ReadFails(i) ==
  /\ child[i].pc \in {"header", "body"} /\ net[child[i].conn].state = "lost"
  /\ Close(i, child[i].mem)
  /\ UNCHANGED <<request, client, backlog, parent, faults>>

(* What read_until_header() left is n pieces of mem: parse them.           *)
HandleHeader(i, mem, n) ==
  LET buffer == [mem EXCEPT ![n + 1] = Nul]
      end == HeaderEnd(buffer)
      length == request[buffer[1][1]].length
      need == length - (n - end)
  IN IF end = 0 \/ ParseHeader(UNION {Lines(buffer[k]) : k \in 1 .. end}) < 0
     THEN Reply(i, buffer, Bad)
     ELSE IF need > 0
     THEN child' = [child EXCEPT ![i] = [@ EXCEPT !.pc = "body", !.mem = buffer,
                                                  !.n = n, !.need = need]]
     ELSE SendOk(i, buffer, length)

(* A round of read_until_header().  It searches the whole buffer.          *)
ReadHeader(i) ==
  LET c == child[i].conn
      n == child[i].n
  IN /\ child[i].pc = "header" /\ net[c].state = "open" /\ net[c].up # <<>>
     /\ \E m \in 1 .. Min({Len(net[c].up), MaxHdr - n}) :
          LET mem == Store(child[i].mem, n, SubSeq(net[c].up, 1, m))
          IN /\ net' = [net EXCEPT ![c].up = SubSeq(@, m + 1, Len(@))]
             /\ IF HeaderEnd(mem) # 0 \/ n + m = MaxHdr
                THEN HandleHeader(i, mem, n + m)
                ELSE child' = [child EXCEPT ![i] = [@ EXCEPT !.mem = mem, !.n = n + m]]
     /\ UNCHANGED <<request, client, backlog, parent, faults>>

(* EOF in the header: with nothing read the connection is closed.          *)
EndInHeader(i) ==
  LET c == child[i].conn
  IN /\ child[i].pc = "header" /\ net[c].state = "open" /\ net[c].up = <<>> /\ Left(c)
     /\ IF child[i].n = 0
        THEN Close(i, child[i].mem)
        ELSE HandleHeader(i, child[i].mem, child[i].n) /\ UNCHANGED net
     /\ UNCHANGED <<request, client, backlog, parent, faults>>

(* A round of read_all() for the rest of the body.                         *)
ReadBody(i) ==
  LET c == child[i].conn
      n == child[i].n
  IN /\ child[i].pc = "body" /\ net[c].state = "open" /\ net[c].up # <<>>
     /\ \E m \in 1 .. Min({Len(net[c].up), child[i].need}) :
          LET mem == Store(child[i].mem, n, SubSeq(net[c].up, 1, m))
          IN /\ net' = [net EXCEPT ![c].up = SubSeq(@, m + 1, Len(@))]
             /\ IF m = child[i].need
                THEN SendOk(i, mem, request[c].length)
                ELSE child' = [child EXCEPT ![i].mem = mem, ![i].n = n + m, ![i].need = @ - m]
     /\ UNCHANGED <<request, client, backlog, parent, faults>>

(* Mutant: EOF in the body is not looked for.                              *)
EndInBodyIgnored(i) ==
  LET c == child[i].conn
  IN /\ child[i].pc = "body" /\ net[c].state = "open" /\ net[c].up = <<>> /\ Left(c)
     /\ SendOk(i, child[i].mem, request[c].length) /\ UNCHANGED net
     /\ UNCHANGED <<request, client, backlog, parent, faults>>

(* EOF before the body is complete: no response.                           *)
EndInBody(i) ==
  LET c == child[i].conn
  IN /\ child[i].pc = "body" /\ net[c].state = "open" /\ net[c].up = <<>> /\ Left(c)
     /\ Close(i, child[i].mem)
     /\ UNCHANGED <<request, client, backlog, parent, faults>>

(* write_all(): a full socket blocks it; errors are not looked at.         *)
Write(i) ==
  LET c == child[i].conn
      resp == child[i].resp
      m == Min({Len(resp), SockBuf - Len(net[c].down)})
  IN /\ child[i].pc = "write"
     /\ IF resp = <<>> THEN Close(i, child[i].mem)
        ELSE IF net[c].state = "lost" \/ Left(c)
        THEN /\ child' = [child EXCEPT ![i].resp = <<>>]
             /\ UNCHANGED net
        ELSE /\ m > 0
             /\ child' = [child EXCEPT ![i].resp = SubSeq(@, m + 1, Len(@))]
             /\ net' = [net EXCEPT ![c].down = @ \o SubSeq(resp, 1, m)]
     /\ UNCHANGED <<request, client, backlog, parent, faults>>

-----------------------------------------------------------------------------
(* Processes that are killed, and signals.                                 *)

(* The children in K are killed: their connections end.                    *)
ChildAfter(K) ==
  [i \in Child |-> IF i \in K /\ Alive(i)
                   THEN [child[i] EXCEPT !.pc = "zombie", !.conn = NoConn, !.resp = <<>>]
                   ELSE child[i]]

NetAfter(K) ==
  [c \in Client |-> IF \E i \in K : Alive(i) /\ child[i].conn = c
                    THEN Shut(net[c], "cut") ELSE net[c]]

(* Mutant: the loop of kill_all_children() ends one too early.             *)
KillAllButLast(pids) == {i \in Child : pids[i] > 0 /\ i < N_CHILD}

(* kill_all_children(), with what a process has in child_pids.             *)
KillAllChildren(pids) == {i \in Child : pids[i] > 0}

(* The handlers of the parent; a killed child brings SIGCHLD once more.    *)
HandleSignal ==
  /\ parent.pc # "exited" /\ (parent.sigchld \/ parent.sigint)
  /\ LET killed == KillAllChildren(parent.child_pids)
     IN /\ child' = ChildAfter(killed) /\ net' = NetAfter(killed)
        /\ parent' = [parent EXCEPT !.sigint = FALSE,
                                    !.sigchld = \E i \in killed : Alive(i)]
  /\ UNCHANGED <<request, client, backlog, faults>>

(* sigint_handler() in a child, which has the elder children's numbers.    *)
ChildHandlesSignal(i) ==
  /\ Alive(i) /\ child[i].sigint
  /\ LET killed == KillAllChildren(child[i].child_pids)
     IN /\ child' = [ChildAfter(killed) EXCEPT ![i].sigint = FALSE]
        /\ net' = NetAfter(killed)
        /\ parent' = [parent EXCEPT !.sigchld = @ \/ \E j \in killed : Alive(j)]
  /\ UNCHANGED <<request, client, backlog, faults>>

Fault == faults < MaxFaults /\ faults' = faults + 1

(* A child is killed from outside.                                         *)
ChildKilled(i) ==
  /\ Alive(i) /\ Fault
  /\ child' = ChildAfter({i}) /\ net' = NetAfter({i})
  /\ parent' = [parent EXCEPT !.sigchld = TRUE]
  /\ UNCHANGED <<request, client, backlog>>

(* SIGINT from the keyboard, to the parent and to all its children.        *)
Interrupt ==
  /\ parent.pc # "exited" /\ Fault
  /\ parent' = [parent EXCEPT !.sigint = TRUE]
  /\ child' = [i \in Child |-> [child[i] EXCEPT !.sigint = Alive(i)]]
  /\ UNCHANGED <<request, client, net, backlog>>

-----------------------------------------------------------------------------
(* main() of sserver.                                                      *)

NewChild(pids) ==
  [pc |-> "accept", conn |-> NoConn, mem |-> [k \in 1 .. MemSize |-> Nul], n |-> 0,
   need |-> 0, resp |-> <<>>, sigint |-> FALSE, child_pids |-> pids]

Unborn == [NewChild([i \in Child |-> Unset]) EXCEPT !.pc = "unborn"]

(* After child_pids[next] was assigned, or waited for.                     *)
Advance(loop, after) ==
  IF parent.next = N_CHILD
  THEN [parent EXCEPT !.pc = after, !.next = 1]
  ELSE [parent EXCEPT !.pc = loop, !.next = @ + 1]

(* fork(): the child starts before the parent has its number.              *)
Fork ==
  /\ parent.pc = "fork"
  /\ child' = [child EXCEPT ![parent.next] = NewChild(parent.child_pids)]
  /\ parent' = [parent EXCEPT !.pc = "record"]
  /\ UNCHANGED <<request, client, net, backlog, faults>>

Record ==
  /\ parent.pc = "record"
  /\ parent' = [Advance("fork", "wait") EXCEPT !.child_pids[parent.next] = parent.next]
  /\ UNCHANGED <<request, client, net, backlog, child, faults>>

(* fork() fails: child_pids[next] is -1.                                   *)
ForkFails ==
  /\ parent.pc = "fork" /\ Fault
  /\ parent' = [Advance("fork", "wait") EXCEPT !.child_pids[parent.next] = ForkFailed]
  /\ UNCHANGED <<request, client, net, backlog, child>>

(* The children that waitpid(pid) can be about; -1 is any child.           *)
Waitable(pid) ==
  {i \in Child : (pid = ForkFailed \/ i = pid) /\ child[i].pc \notin {"unborn", "reaped"}}

(* Mutant: waitpid() also comes back when SIGCHLD was handled.             *)
InterruptedOrNoChild(pid) == Waitable(pid) = {} \/ parent.sigchld

(* waitpid() fails: there is no such child.  A handler does not end it,    *)
(* since signal() asks for a restart.                                      *)
NoSuchChild(pid) == Waitable(pid) = {}

(* waitpid().  After the last one the parent closes the socket and returns. *)
Wait ==
  LET pid == parent.child_pids[parent.next]
  IN /\ parent.pc = "wait"
     /\ \/ NoSuchChild(pid) /\ UNCHANGED child
        \/ \E i \in Waitable(pid) : /\ child[i].pc = "zombie"
                                    /\ child' = [child EXCEPT ![i].pc = "reaped"]
     /\ parent' = Advance("wait", "exited")
     /\ IF parent'.pc = "exited" /\ ~ Listening'
        THEN /\ net' = [c \in Client |-> IF c \in Range(backlog)
                                         THEN [net[c] EXCEPT !.state = "reset", !.up = <<>>]
                                         ELSE net[c]]
             /\ backlog' = <<>>
        ELSE UNCHANGED <<net, backlog>>
     /\ UNCHANGED <<request, client, faults>>

-----------------------------------------------------------------------------
(* main() of sclient.                                                      *)

ClientTo(c, pc) == client' = [client EXCEPT ![c].pc = pc]

Connect(c) ==
  /\ client[c].pc = "connect"
  /\ IF Listening
     THEN /\ client' = [client EXCEPT ![c].pc = "write", ![c].left = Pieces(c)]
          /\ backlog' = Append(backlog, c)
          /\ net' = [net EXCEPT ![c].state = "waiting"]
     ELSE ClientTo(c, "failed") /\ UNCHANGED <<backlog, net>>
  /\ UNCHANGED <<request, child, parent, faults>>

(* What is left to write; after that the client reads.                     *)
ClientLeft(c, left) ==
  client' = [client EXCEPT ![c].left = left, ![c].pc = IF left = <<>> THEN "read" ELSE @]

(* write_all() of the header and of the body.                              *)
WriteRequest(c) ==
  LET m == Min({Len(client[c].left), SockBuf - Len(net[c].up)})
  IN /\ client[c].pc = "write" /\ net[c].state \in {"waiting", "open"} /\ m > 0
     /\ ClientLeft(c, SubSeq(client[c].left, m + 1, Len(client[c].left)))
     /\ net' = [net EXCEPT ![c].up = @ \o SubSeq(client[c].left, 1, m)]
     /\ UNCHANGED <<request, backlog, child, parent, faults>>

(* The server closed: write() fails, or the kernel drops what it takes.    *)
WriteAfterClose(c) ==
  /\ client[c].pc = "write" /\ net[c].state \in {"closed", "cut", "reset"}
  /\ \/ ClientTo(c, "failed")
     \/ net[c].state # "reset" /\ ClientLeft(c, <<>>)
  /\ UNCHANGED <<request, net, backlog, child, parent, faults>>

ReadResponse(c) ==
  /\ client[c].pc = "read" /\ net[c].down # <<>>
  /\ client' = [client EXCEPT ![c].got = @ \o net[c].down]
  /\ net' = [net EXCEPT ![c].down = <<>>]
  /\ UNCHANGED <<request, backlog, child, parent, faults>>

(* read_all() sees EOF or an error: the response is printed if its header  *)
(* is complete.                                                            *)
EndOfResponse(c) ==
  /\ client[c].pc = "read" /\ net[c].down = <<>>
  /\ net[c].state \in {"closed", "cut", "reset"}
  /\ ClientTo(c, IF net[c].state # "reset" /\ EndOfHeader \in Range(client[c].got)
                 THEN "printed" ELSE "failed")
  /\ UNCHANGED <<request, net, backlog, child, parent, faults>>

(* The client is killed, or its host: the server sees EOF, or an error.    *)
ClientKilled(c) ==
  /\ client[c].pc \in {"write", "read"} /\ net[c].state \in {"waiting", "open"}
  /\ Fault
  /\ ClientTo(c, "killed")
  /\ \/ UNCHANGED net
     \/ net' = [net EXCEPT ![c].state = "lost", ![c].up = <<>>]
  /\ UNCHANGED <<request, backlog, child, parent>>

-----------------------------------------------------------------------------
Init ==
  /\ request \in [Client -> UNION {Requests[c] : c \in Client}]
  /\ \A c \in Client : request[c] \in Requests[c]
  /\ client = [c \in Client |-> [pc |-> "connect", left |-> <<>>, got |-> <<>>]]
  /\ net = [c \in Client |-> [up |-> <<>>, down |-> <<>>, state |-> "none"]]
  /\ backlog = <<>>
  /\ child = [i \in Child |-> Unborn]
  /\ parent = [pc |-> "fork", next |-> 1, child_pids |-> [i \in Child |-> Unset],
               sigchld |-> FALSE, sigint |-> FALSE]
  /\ faults = 0

ChildStep(i) ==
  \/ ReadFails(i) \/ ReadHeader(i) \/ EndInHeader(i) \/ ReadBody(i) \/ EndInBody(i)
  \/ Write(i)

ParentStep == Fork \/ ForkFails \/ Record \/ Wait

ClientStep(c) ==
  \/ Connect(c) \/ WriteRequest(c) \/ WriteAfterClose(c)
  \/ ReadResponse(c) \/ EndOfResponse(c)

Next ==
  \/ \E i \in Child : Accept(i) \/ ChildStep(i) \/ ChildHandlesSignal(i) \/ ChildKilled(i)
  \/ ParentStep \/ HandleSignal \/ Interrupt
  \/ \E c \in Client : ClientStep(c) \/ ClientKilled(c)

Spec == Init /\ [][Next]_vars

(* Every process runs and signals are delivered.  Nothing is assumed of    *)
(* kills, interrupts and failed forks, or of when a user starts a client.  *)
FairSpec ==
  /\ Spec
  /\ WF_vars(ParentStep) /\ WF_vars(HandleSignal)
  /\ \A i \in Child : WF_vars(Accept(i) \/ ChildStep(i)) /\ WF_vars(ChildHandlesSignal(i))
  /\ \A c \in Client : WF_vars(client[c].pc # "connect" /\ ClientStep(c))

-----------------------------------------------------------------------------
(* Properties.                                                             *)

(* Every variable has its type, and a connection is in one place.          *)
TypeOK ==
  /\ \A i \in Child :
       /\ child[i].pc \in {"unborn", "accept", "header", "body", "write", "zombie", "reaped"}
       /\ child[i].n \in 0 .. MaxHdr + MaxBody /\ child[i].need \in 0 .. MaxBody
       /\ child[i].conn # NoConn => child[i].conn \notin Range(backlog)
  /\ \A i, j \in Child : child[i].conn # NoConn /\ child[i].conn = child[j].conn => i = j
  /\ \A c \in Client : Len(net[c].up) <= SockBuf /\ Len(net[c].down) <= SockBuf
  /\ parent.pc \in {"fork", "record", "wait", "exited"} /\ parent.next \in Child

(* The requests that the protocol allows, from its description.            *)
WellFormed(req) ==
  /\ "first" \in Head(req.header) /\ "end" \in Last(req.header) /\ Len(req.header) <= MaxHdr
  /\ \E k, l \in DOMAIN req.header : "host" \in req.header[k] /\ "length" \in req.header[l]
  /\ \A k \in DOMAIN req.header : Rejected \cap req.header[k] = {}

(* What client c may be told to req: its own body up to Content-Length.    *)
Answers(c, req) ==
  {Bad} \cup IF WellFormed(req)
             THEN {Ok([k \in 1 .. req.length |-> <<c, Len(req.header) + k>>])}
             ELSE {}

(* What a child sends (send_200(), send_400()) and what reached the client *)
(* are together one answer to this client's request: the buffer that a     *)
(* child uses for all its connections never shows what another one left in *)
(* it, and a client prints a whole answer unless its child was killed.     *)
EchoIntact ==
  /\ \A i \in Child : child[i].pc = "write" =>
       LET c == child[i].conn
       IN \E answer \in Answers(c, request[c]) :
            IF Left(c) THEN IsSuffix(child[i].resp, answer)
            ELSE client[c].got \o net[c].down \o child[i].resp = answer
  /\ \A c \in Client :
       client[c].pc = "printed" /\ net[c].state = "closed" => client[c].got \in Answers(c, request[c])

(* When main() returns (line 430) every child was waited for, whatever     *)
(* calls of fork() failed and whatever signals came: no child survives.    *)
NoOrphans ==
  /\ TypeOK
  /\ parent.pc = "exited" => \A i \in Child : child[i].pc \in {"unborn", "reaped"}

(* A client that connected comes to an end, whoever is killed: a child     *)
(* serves it, or its connection is closed with the server.                 *)
ClientsEnd ==
  \A c \in Client :
    client[c].pc = "write" ~> client[c].pc \in {"printed", "failed", "killed"}

(* Once all children are forked, the death of one, or an interrupt, ends   *)
(* them all and the parent ("kill remaining children and terminate         *)
(* parent", line 32).                                                      *)
StopsTogether ==
  parent.pc = "wait" /\ (parent.sigchld \/ parent.sigint)
    ~> parent.pc = "exited" /\ ~ Listening

(* Line 32 as it is written: any child that is terminated ends the server. *)
DeathEndsServer ==
  (\E i \in Child : child[i].pc = "zombie") ~> parent.pc = "exited"

(* Line 317: a header is refused for what it says, or when it has no end   *)
(* in MAX_HDR bytes; a request the protocol allows is not refused while    *)
(* its client is there to send the rest.                                   *)
RefusedForCause ==
  [][\A i \in Child :
       child[i].pc = "header" /\ child'[i].pc = "write" /\ child'[i].resp = Bad
         => ~ WellFormed(request[child[i].conn]) \/ Left(child[i].conn)]_vars

-----------------------------------------------------------------------------
(* The inductive invariant behind NoOrphans and EchoIntact, PreforkInv:    *)
(* checked by TLC, proved in Prefork_proofs.                               *)

(* Types.                                                                  *)

Piece == Client \X (Nat \ {0})

(* What a response is made of.                                             *)
Token == Piece \cup {Nul, EndOfHeader, <<"status", 200>>, <<"status", 400>>}

Serving == {"header", "body", "write"}

ChildRecord ==
  [pc : {"unborn", "accept", "zombie", "reaped"} \cup Serving, conn : Client \cup {NoConn},
   mem : [1 .. MemSize -> Piece \cup {Nul}], n : 0 .. MaxHdr + MaxBody, need : 0 .. MaxBody,
   resp : Seq(Token), sigint : BOOLEAN, child_pids : [Child -> Int]]

NetRecord ==
  [up : Seq(Piece), down : Seq(Token),
   state : {"none", "waiting", "open", "lost", "closed", "cut", "reset"}]

ClientRecord ==
  [pc : {"connect", "write", "read", "printed", "failed", "killed"}, left : Seq(Piece),
   got : Seq(Token)]

ParentRecord ==
  [pc : {"fork", "record", "wait", "exited"}, next : Child, child_pids : [Child -> Int],
   sigchld : BOOLEAN, sigint : BOOLEAN]

VariablesOK ==
  /\ request \in [Client -> Request]
  /\ client \in [Client -> ClientRecord] /\ net \in [Client -> NetRecord]
  /\ backlog \in Seq(Client) /\ child \in [Child -> ChildRecord]
  /\ parent \in ParentRecord

-----------------------------------------------------------------------------
(* A connection: w is what the server has of it, u what the client has.    *)

(* What the client still sends of its request, after n pieces of it.       *)
StreamAt(c, w, u, n) ==
  /\ \A k \in DOMAIN w.up : w.up[k] = <<c, n + k>>
  /\ u.pc = "write" => \A k \in DOMAIN u.left : u.left[k] = <<c, n + Len(w.up) + k>>

Unanswered(w, u) == w.down = <<>> /\ u.got = <<>>

(* No answer to request r before it is served, and one whole answer after  *)
(* it.                                                                     *)
PeerOK(c, r, w, u) ==
  /\ Len(w.up) <= SockBuf /\ Len(w.down) <= SockBuf
  /\ u.pc = "connect" => w.state = "none"
  /\ w.state = "none" => w.up = <<>> /\ Unanswered(w, u)
  /\ w.state = "lost" => u.pc = "killed"
  /\ w.state = "closed" /\ u.pc # "killed" => u.got \o w.down \in Answers(c, r)
  /\ u.pc = "printed" => w.down = <<>> /\ w.state \in {"closed", "cut"}

(* A connection that waits has its request to send from the first piece    *)
(* on.                                                                     *)
WaitOK(c, w, u) ==
  /\ w.state \in {"waiting", "lost"} /\ u.pc # "connect"
  /\ Unanswered(w, u) /\ StreamAt(c, w, u, 0)

(* The first n pieces of the buffer are the first n of c's request.        *)
Received(mem, n, c) == \A k \in 1 .. n : mem[k] = <<c, k>>

(* The whole header of request r is read, and it is well-formed; the rest  *)
(* of the body is need pieces.                                             *)
BodyNext(x, r) ==
  LET end == Len(r.header)
  IN /\ WellFormed(r)
     /\ end <= x.n /\ x.need > 0 /\ x.n + x.need = end + r.length

(* What is left of a response to r, after k parts of the answer are sent.  *)
Answering(x, r, w, u) ==
  \E answer \in Answers(x.conn, r) : \E k \in 0 .. Len(answer) :
    /\ x.resp = SubSeq(answer, k + 1, Len(answer))
    /\ u.pc # "killed" => u.got \o w.down = SubSeq(answer, 1, k)

(* A child x: if it serves a connection, with that.                        *)
ServeOK(x, r, w, u) ==
  /\ x.pc \in Serving <=> x.conn # NoConn
  /\ x.pc = "accept" => x.n = 0
  /\ x.pc = "header" => x.n <= MaxHdr
  /\ x.pc \in Serving =>
       w.state \in {"open", "lost"} /\ u.pc # "connect"
  /\ x.pc \in {"header", "body"} =>
       Received(x.mem, x.n, x.conn) /\ StreamAt(x.conn, w, u, x.n) /\ Unanswered(w, u)
  /\ x.pc = "body" => BodyNext(x, r)
  /\ x.pc = "write" => Answering(x, r, w, u)

(* A connection is in the backlog or with one child.                       *)
OnePlace ==
  /\ \A i, j \in Child : child[i].conn # NoConn /\ child[i].conn = child[j].conn => i = j
  /\ \A i \in Child : child[i].conn \notin Range(backlog)
  /\ \A k, l \in DOMAIN backlog : backlog[k] = backlog[l] => k = l

(* What the parent knows of its children: whom it has numbered and waited  *)
(* for.  A child it could not fork is never born.                          *)
FamilyOK ==
  \A i \in Child :
    LET pid == parent.child_pids[i]
        pc == child[i].pc
    IN /\ pid \in {Unset, ForkFailed, i}
       /\ pid = ForkFailed => pc = "unborn"
       /\ parent.pc \in {"fork", "record"} /\ i > parent.next => pc = "unborn"
       /\ parent.pc = "fork" /\ i = parent.next => pc = "unborn"
       /\ parent.pc \in {"fork", "record"} => (pid = Unset <=> i >= parent.next)
       /\ parent.pc \in {"wait", "exited"} => pid # Unset
       /\ (parent.pc = "wait" /\ i < parent.next) \/ parent.pc = "exited" =>
            pc \in {"unborn", "reaped"}

PreforkInv ==
  /\ VariablesOK /\ OnePlace /\ FamilyOK
  /\ \A c \in Client : PeerOK(c, request[c], net[c], client[c])
  /\ \A c \in Range(backlog) : WaitOK(c, net[c], client[c])
  /\ \A i \in Child :
       LET c == child[i].conn
       IN ServeOK(child[i], request[c], net[c], client[c])
=============================================================================
