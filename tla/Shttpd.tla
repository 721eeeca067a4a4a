------------------------------- MODULE Shttpd -------------------------------
(***************************************************************************)
(* The web server of hw2 (shttpd.c): one thread, an edge-triggered epoll   *)
(* instance, and a context for each connection that is either read (until *)
(* a request is complete) or written (until its response is sent).         *)
(*                                                                         *)
(* A handler runs to its end before the next event is looked at, so each   *)
(* is one step.  What happens between two steps is done by the clients, by *)
(* the kernel's buffers and by the signal that stops the server.  Bytes    *)
(* are counted in pieces: a request is a few pieces of which the last one  *)
(* holds the empty line, a response a few pieces of header and of file.    *)
(***************************************************************************)
EXTENDS Integers, Sequences, FiniteSets, SequencesExt

CONSTANTS
  Client,       \* clients, with one connection each
  Requests,     \* Requests[c]: the requests client c may make
  Limit,        \* Limit[c]: how many of them it makes at most
  Files,        \* Files[url]: what stat(), access() and open() say of it
  MaxHdr,       \* MAX_HDR, in pieces
  HeaderLen,    \* the header of a response, in pieces
  SndBuf,       \* the send buffer of a socket, in pieces
  MaxFaults,    \* bound: system calls that fail
  Long          \* a request without an empty line in its first MaxHdr pieces

(* A request has a first line, header lines of the kinds below and a URL.  *)
LineKind == {"host", "bad host", "keep-alive", "close", "bad connection", "other"}

Request == [first : {"1.0", "1.1", "bad"}, lines : Seq(LineKind), url : DOMAIN Files]

File == [kind : {"file", "missing", "directory", "unreadable"}, size : Nat]

Listener == "listen_fd"

ASSUME ShttpdAssumption ==
  /\ MaxHdr \in Nat \ {0, 1} \* the two pieces of a request that is not Long fit
  /\ HeaderLen \in Nat \ {0} /\ SndBuf \in Nat \ {0}
  /\ MaxFaults \in Nat
  /\ IsFiniteSet(Client) /\ Listener \notin Client
  /\ Limit \in [Client -> Nat]
  /\ \A c \in Client : Requests[c] \subseteq Request
  /\ Long \in Request
  /\ \A url \in DOMAIN Files : Files[url] \in File

VARIABLES
  client,       \* client[c]: its end of the connection, what it asked and got
  conn,         \* conn[c]: the server's end of the connection
  rbuf,         \* rbuf[c]: pieces received for the server, not yet read
  sbuf,         \* sbuf[c]: pieces written by the server, not yet received
  ctx,          \* ctx[c]: the connection_context, while conn[c] is "open"
  backlog,      \* connections to be accepted
  ready,        \* connections on epoll's ready list
  batch,        \* what is left of the events of the last epoll_wait()
  pc,           \* where main() is in its loop
  timeout,      \* the timeout chosen for epoll_wait(): -1 or 100
  g_stop,
  active_connections,
  faults

vars == <<client, conn, rbuf, sbuf, ctx, backlog, ready, batch, pc, timeout,
          g_stop, active_connections, faults>>

NoFile == "none"

-----------------------------------------------------------------------------
(* The HTTP parser.                                                        *)

ParseFirstLine(req) ==
  [ok |-> req.first # "bad", host |-> FALSE, keep_alive |-> req.first = "1.1"]

ParseHost(parsed, line) ==
  [parsed EXCEPT !.ok = @ /\ line = "host", !.host = TRUE]

ParseConnection(parsed, line) ==
  [parsed EXCEPT !.ok = @ /\ line # "bad connection", !.keep_alive = line = "keep-alive"]

ParseLine(parsed, line) ==
  IF ~ parsed.ok THEN parsed
  ELSE CASE line \in {"host", "bad host"}                       -> ParseHost(parsed, line)
         [] line \in {"keep-alive", "close", "bad connection"}  -> ParseConnection(parsed, line)
         [] OTHER                                               -> parsed

(* OK or BAD_REQUEST, and what it found.                                   *)
ParseRequest(req) ==
  LET parsed == FoldLeft(ParseLine, ParseFirstLine(req), req.lines)
  IN [code |-> IF parsed.ok /\ parsed.host THEN 200 ELSE 400,
      keep_alive |-> parsed.keep_alive]

-----------------------------------------------------------------------------
(* Connections and their contexts.                                         *)

(* create_connection_context(); the initial interest is that of ADD.       *)
FreshContext ==
  [read_buffer |-> <<>>, keep_alive |-> TRUE, file |-> NoFile, file_offset |-> 0,
   file_remain |-> 0, write_phase |-> "HEADER", code |-> 0, header_sent |-> 0,
   interest |-> {"IN"}]

(* reset_context(), before the connection is read again.                   *)
ResetContext(x) ==
  [x EXCEPT !.read_buffer = <<>>, !.file = NoFile, !.file_offset = 0,
            !.file_remain = 0, !.write_phase = "HEADER", !.code = 0, !.header_sent = 0]

Gone(c) == ~ client[c].open

(* What poll() says of the socket.  The peer's close makes it readable and *)
(* any write comes back at once.                                           *)
Mask(c) == (IF rbuf[c] # <<>> \/ Gone(c) THEN {"IN"} ELSE {})
             \cup (IF Len(sbuf[c]) < SndBuf \/ Gone(c) THEN {"OUT"} ELSE {})

Fail(n) == faults + n <= MaxFaults /\ faults' = faults + n

(* Mutant: the interest in reading is kept while a response is written.    *)
RearmBoth(c, x, interest) ==
  /\ ctx' = [ctx EXCEPT ![c] = [x EXCEPT !.interest = interest \cup {"IN"}]]
  /\ ready' = IF Mask(c)' \cap (interest \cup {"IN"}) # {} THEN ready \cup {c} ELSE ready
  /\ UNCHANGED <<conn, active_connections>>

(* Mutant: an event that was there before the call is waited for again.    *)
RearmLate(c, x, interest) ==
  /\ ctx' = [ctx EXCEPT ![c] = [x EXCEPT !.interest = interest]]
  /\ UNCHANGED <<ready, conn, active_connections>>

(* epoll_ctl(MOD), or ADD: an event that is there already is reported.     *)
Rearm(c, x, interest) ==
  /\ ctx' = [ctx EXCEPT ![c] = [x EXCEPT !.interest = interest]]
  /\ ready' = IF Mask(c)' \cap interest # {} THEN ready \cup {c} ELSE ready
  /\ UNCHANGED <<conn, active_connections>>

(* close_connection().  Closing a socket with data that was not read makes *)
(* the kernel reset the connection: what was not yet received is lost.     *)
CloseConnection(c) ==
  /\ conn' = [conn EXCEPT ![c] = IF rbuf'[c] = <<>> THEN "closed" ELSE "reset"]
  /\ ctx' = [ctx EXCEPT ![c] = FreshContext]
  /\ ready' = ready \ {c}
  /\ active_connections' = active_connections - 1

-----------------------------------------------------------------------------
(* Responses.                                                              *)

(* Mutant: the file that a failed response had opened is still sent.       *)
RefusalWithBody(x, code) ==
  [x EXCEPT !.code = code, !.header_sent = 0,
            !.write_phase = "HEADER", !.keep_alive = FALSE]

(* send_error(): the context it leaves; the file stays open.               *)
Refusal(x, code) ==
  [x EXCEPT !.code = code, !.header_sent = 0, !.file_remain = 0,
            !.write_phase = "HEADER", !.keep_alive = FALSE]

SendError(c, x, code) ==
  \/ Fail(0) /\ Rearm(c, Refusal(x, code), {"OUT"})
  \/ Fail(1) /\ CloseConnection(c)

(* The status that prepare_response() gives a file.                        *)
FileStatus(url) ==
  CASE Files[url].kind = "missing"                      -> 404
    [] Files[url].kind \in {"directory", "unreadable"}  -> 403
    [] OTHER                                            -> 200

Prepared(x, url) ==
  [x EXCEPT !.file = url, !.file_offset = 0, !.file_remain = Files[url].size,
            !.write_phase = "HEADER", !.code = 200, !.header_sent = 0]

(* The part of handle_epollin() that has a complete request in x.  The     *)
(* file may fail to open, and epoll_ctl() may fail, once or twice.         *)
Respond(c, x, req) ==
  LET parsed == ParseRequest(req)
      y == [x EXCEPT !.keep_alive = parsed.keep_alive /\ ~ g_stop]
      status == FileStatus(req.url)
  IN IF parsed.code # 200 THEN SendError(c, x, parsed.code)
     ELSE IF status # 200 THEN SendError(c, y, status)
     ELSE \/ Fail(0) /\ Rearm(c, Prepared(y, req.url), {"OUT"})
          \/ Fail(1) /\ Rearm(c, Refusal(y, 500), {"OUT"})
          \/ Fail(1) /\ Rearm(c, Refusal(Prepared(y, req.url), 500), {"OUT"})
          \/ Fail(2) /\ CloseConnection(c)

(* The pieces of the response that are still to be written.                *)
HeaderPiece(x, i) == [code |-> x.code, keep_alive |-> x.keep_alive, n |-> i]

BodyPiece(url, i) == [file |-> url, n |-> i]

ToWrite(x) ==
  [i \in 1..HeaderLen - x.header_sent |-> HeaderPiece(x, x.header_sent + i)]
    \o [i \in 1..x.file_remain |-> BodyPiece(x.file, x.file_offset + i)]

(* The context after k more pieces went out.                               *)
Written(x, k) ==
  LET header == IF k < HeaderLen - x.header_sent THEN k ELSE HeaderLen - x.header_sent
      body == k - header
  IN [x EXCEPT !.header_sent = @ + header,
               !.write_phase = IF @ = "HEADER" /\ x.header_sent + header < HeaderLen
                               THEN "HEADER" ELSE "BODY",
               !.file_offset = @ + body, !.file_remain = @ - body]

-----------------------------------------------------------------------------
(* The event loop.                                                         *)

NextEvent == Head(batch)

(* The rest of the batch, once flags of its first event are dealt with.    *)
EventDone(flags) ==
  batch' = IF NextEvent.flags = flags THEN Tail(batch)
           ELSE <<[NextEvent EXCEPT !.flags = @ \ flags]>> \o Tail(batch)

(* handle_new_connection()                                                 *)
HandleNewConnection ==
  LET c == Head(backlog)
  IN /\ pc = "batch" /\ batch # <<>> /\ NextEvent.fd = Listener
     /\ batch' = Tail(batch)
     /\ \/ /\ Fail(1)                                      \* accept() fails
           /\ UNCHANGED <<backlog, conn, ctx, ready, active_connections>>
        \/ /\ IF g_stop THEN Fail(0) ELSE Fail(1)     \* fcntl(), malloc() or ADD
           /\ backlog' = Tail(backlog)                \* closed at once
           /\ conn' = [conn EXCEPT ![c] = IF rbuf[c] = <<>> THEN "closed" ELSE "reset"]
           /\ UNCHANGED <<ctx, ready, active_connections>>
        \/ /\ ~ g_stop /\ Fail(0)
           /\ backlog' = Tail(backlog)
           /\ conn' = [conn EXCEPT ![c] = "open"]
           /\ ctx' = [ctx EXCEPT ![c] = FreshContext]
           /\ ready' = IF "IN" \in Mask(c) THEN ready \cup {c} ELSE ready
           /\ active_connections' = active_connections + 1
     /\ UNCHANGED <<client, rbuf, sbuf, pc, timeout, g_stop>>

(* handle_epollin(): read until there is a request, the buffer is full or  *)
(* there is nothing to read.                                               *)
HandleEpollin(c) ==
  LET x == ctx[c]
      room == MaxHdr - Len(x.read_buffer)
      n == IF Len(rbuf[c]) < room THEN Len(rbuf[c]) ELSE room
      buffer == x.read_buffer \o SubSeq(rbuf[c], 1, n)
      y == [x EXCEPT !.read_buffer = buffer]
  IN /\ pc = "batch" /\ batch # <<>> /\ NextEvent.fd = c /\ "IN" \in NextEvent.flags
     /\ EventDone({"IN"})
     /\ UNCHANGED <<client, sbuf, backlog, pc, timeout, g_stop>>
     /\ rbuf' = [rbuf EXCEPT ![c] = SubSeq(@, n + 1, Len(@))]
     /\ \/ \E i \in DOMAIN buffer : buffer[i].last /\ Respond(c, y, buffer[i].req)
        \/ /\ \A i \in DOMAIN buffer : ~ buffer[i].last
           /\ \/ Len(buffer) = MaxHdr /\ SendError(c, y, 400)
              \/ Len(buffer) < MaxHdr /\ Gone(c) /\ Fail(0) /\ CloseConnection(c)
              \/ /\ Len(buffer) < MaxHdr /\ ~ Gone(c) /\ Fail(0)
                 /\ ctx' = [ctx EXCEPT ![c] = y]
                 /\ UNCHANGED <<conn, ready, active_connections>>

(* Mutant: a response under way is given up when the server is to stop.    *)
AllWrittenHasty(rest, k) == k = Len(rest) \/ g_stop

(* send_header() and send_body() come back with everything written.        *)
AllWritten(rest, k) == k = Len(rest)

(* handle_epollout(), with send_header() and send_body(): write until the  *)
(* send buffer is full or all is sent.  When the client is gone a write    *)
(* fails or is dropped.                                                    *)
HandleEpollout(c) ==
  LET x == ctx[c]
      rest == ToWrite(x)
      room == IF Gone(c) THEN Len(rest) ELSE SndBuf - Len(sbuf[c])
      k == IF Len(rest) < room THEN Len(rest) ELSE room
      y == Written(x, k)
  IN /\ pc = "batch" /\ batch # <<>> /\ NextEvent.fd = c /\ NextEvent.flags = {"OUT"}
     /\ EventDone({"OUT"})
     /\ UNCHANGED <<client, rbuf, backlog, pc, timeout, g_stop>>
     /\ \/ /\ Gone(c) /\ rest # <<>> /\ Fail(0)
           /\ CloseConnection(c) /\ UNCHANGED sbuf
        \/ /\ sbuf' = [sbuf EXCEPT ![c] = IF Gone(c) THEN @ ELSE @ \o SubSeq(rest, 1, k)]
           /\ \/ /\ ~ AllWritten(rest, k) /\ Fail(0)
                 /\ ctx' = [ctx EXCEPT ![c] = y]
                 /\ UNCHANGED <<conn, ready, active_connections>>
              \/ /\ AllWritten(rest, k) /\ (g_stop \/ ~ x.keep_alive) /\ Fail(0)
                 /\ CloseConnection(c)
              \/ /\ AllWritten(rest, k) /\ ~ g_stop /\ x.keep_alive
                 /\ \/ Fail(0) /\ Rearm(c, ResetContext(y), {"IN"})
                    \/ Fail(1) /\ CloseConnection(c)

(* Mutant: the timeout does not depend on the signal.                      *)
ChooseTimeoutForever ==
  /\ pc = "top"
  /\ timeout' = -1
  /\ pc' = "wait"
  /\ UNCHANGED <<client, conn, rbuf, sbuf, ctx, backlog, ready, batch, g_stop,
                 active_connections, faults>>

(* The head of the loop.  "wait" is the time from the choice of the timeout *)
(* to the return of epoll_wait(), the call itself included.                *)
ChooseTimeout ==
  /\ pc = "top"
  /\ timeout' = IF g_stop THEN 100 ELSE -1
  /\ pc' = "wait"
  /\ UNCHANGED <<client, conn, rbuf, sbuf, ctx, backlog, ready, batch, g_stop,
                 active_connections, faults>>

Flags(c) == Mask(c) \cap ctx[c].interest

(* Connections and the listening socket that have something to report.     *)
Reported == {c \in ready : Flags(c) # {}}

Events ==
  {[fd |-> c, flags |-> Flags(c)] : c \in Reported}
    \cup (IF backlog = <<>> THEN {} ELSE {[fd |-> Listener, flags |-> {"IN"}]})

(* epoll_wait() returns events, or none when its timeout is over.          *)
EpollWait ==
  /\ pc = "wait"
  /\ Events = {} => timeout = 100
  /\ \E order \in SetToSeqs(Events) : batch' = order
  /\ ready' = {}
  /\ pc' = "batch"
  /\ UNCHANGED <<client, conn, rbuf, sbuf, ctx, backlog, timeout, g_stop,
                 active_connections, faults>>

(* The end of the loop body.  When the server stops it closes the          *)
(* listening socket, and the kernel resets what was not accepted.          *)
BatchDone ==
  /\ pc = "batch" /\ batch = <<>>
  /\ IF g_stop /\ active_connections = 0
     THEN /\ pc' = "exited" /\ backlog' = <<>>
          /\ conn' = [c \in Client |-> IF conn[c] = "backlog" THEN "reset" ELSE conn[c]]
     ELSE pc' = "top" /\ UNCHANGED <<backlog, conn>>
  /\ UNCHANGED <<client, rbuf, sbuf, ctx, ready, batch, timeout, g_stop,
                 active_connections, faults>>

(* handle_signal().  It interrupts epoll_wait(), unless it comes after the *)
(* timeout was chosen and before the call has begun.                       *)
Signal ==
  /\ ~ g_stop /\ pc # "exited"
  /\ g_stop' = TRUE
  /\ pc' \in (IF pc = "wait" THEN {"wait", "top"} ELSE {pc})
  /\ UNCHANGED <<client, conn, rbuf, sbuf, ctx, backlog, ready, batch, timeout,
                 active_connections, faults>>

-----------------------------------------------------------------------------
(* Clients.  They wait for a response before they ask again.               *)

Pieces(req) == IF req = Long THEN MaxHdr + 1 ELSE 2

(* An independent statement of what a request deserves.                    *)
Deserved(req) ==
  LET kinds == ToSet(req.lines)
      fine == /\ req # Long /\ req.first # "bad"
              /\ "host" \in kinds /\ kinds \cap {"bad host", "bad connection"} = {}
      spoken == {i \in DOMAIN req.lines : req.lines[i] \in {"keep-alive", "close"}}
  IN [code |-> IF fine THEN FileStatus(req.url) ELSE 400,
      keep_alive |-> IF spoken = {} THEN req.first = "1.1"
                     ELSE req.lines[Max(spoken)] = "keep-alive"]

(* The pieces of a response, without what its header says of the           *)
(* connection.                                                             *)
Response(code, url) ==
  [i \in 1..HeaderLen |-> <<"header", code, i>>]
    \o (IF code = 200 THEN [i \in 1..Files[url].size |-> <<url, 200, i>>] ELSE <<>>)

Seen(pieces) ==
  [i \in DOMAIN pieces |-> IF "code" \in DOMAIN pieces[i]
                           THEN <<"header", pieces[i].code, pieces[i].n>>
                           ELSE <<pieces[i].file, 200, pieces[i].n>>]

Responses(asked) ==
  FlattenSeq([i \in DOMAIN asked |-> Response(Deserved(asked[i]).code, asked[i].url)])

Answered(c) == Seen(client[c].got) = Responses(client[c].asked)

(* What the header of the last response says of the connection.            *)
KeptAlive(c) ==
  LET headers == SelectSeq(client[c].got, LAMBDA p : "code" \in DOMAIN p)
  IN headers # <<>> => Last(headers).keep_alive

Connect(c) ==
  /\ conn[c] = "none" /\ pc # "exited"
  /\ conn' = [conn EXCEPT ![c] = "backlog"]
  /\ backlog' = Append(backlog, c)
  /\ UNCHANGED <<client, rbuf, sbuf, ctx, ready, batch, pc, timeout, g_stop,
                 active_connections, faults>>

(* A piece arrives, and epoll is told of it.                               *)
Arrive(c, req, left) ==
  /\ rbuf' = [rbuf EXCEPT ![c] =
                Append(@, [req |-> req, last |-> left = 0 /\ req # Long])]
  /\ ready' = IF conn[c] = "open" /\ "IN" \in ctx[c].interest
              THEN ready \cup {c} ELSE ready
  /\ UNCHANGED <<conn, sbuf, ctx, backlog, batch, pc, timeout, g_stop,
                 active_connections, faults>>

CanSend(c) == client[c].open /\ conn[c] \in {"backlog", "open"} /\ pc # "exited"

(* The first piece of another request.                                     *)
Ask(c) ==
  /\ CanSend(c) /\ client[c].left = 0 /\ Answered(c) /\ KeptAlive(c)
  /\ Len(client[c].asked) < Limit[c]
  /\ \E r \in Requests[c] :
       /\ client' = [client EXCEPT ![c].asked = Append(@, r), ![c].left = Pieces(r) - 1]
       /\ Arrive(c, r, Pieces(r) - 1)

SendPiece(c) ==
  /\ CanSend(c) /\ client[c].left > 0
  /\ client' = [client EXCEPT ![c].left = @ - 1]
  /\ Arrive(c, Last(client[c].asked), client[c].left - 1)

(* The client takes a piece; a full send buffer has room again.            *)
Receive(c) ==
  /\ client[c].open /\ sbuf[c] # <<>> /\ conn[c] # "reset"
  /\ client' = [client EXCEPT ![c].got = Append(@, Head(sbuf[c]))]
  /\ sbuf' = [sbuf EXCEPT ![c] = Tail(@)]
  /\ ready' = IF /\ conn[c] = "open" /\ "OUT" \in ctx[c].interest
                 /\ Len(sbuf[c]) = SndBuf
              THEN ready \cup {c} ELSE ready
  /\ UNCHANGED <<conn, rbuf, ctx, backlog, batch, pc, timeout, g_stop,
                 active_connections, faults>>

Stranger == [open |-> TRUE, asked |-> <<>>, left |-> 0, got |-> <<>>]

(* The client closes, at any time.  What it had got is no longer kept.     *)
Leave(c) ==
  /\ client[c].open /\ conn[c] # "none"
  /\ client' = [client EXCEPT ![c] = [Stranger EXCEPT !.open = FALSE]]
  /\ sbuf' = [sbuf EXCEPT ![c] = <<>>]
  /\ ready' = IF conn[c] = "open" THEN ready \cup {c} ELSE ready
  /\ UNCHANGED <<conn, rbuf, ctx, backlog, batch, pc, timeout, g_stop,
                 active_connections, faults>>

(* A client with nothing left to do leaves in the end.                     *)
Finished(c) == Answered(c) \/ conn[c] \in {"closed", "reset"}

-----------------------------------------------------------------------------
Init ==
  /\ client = [c \in Client |-> Stranger]
  /\ conn = [c \in Client |-> "none"]
  /\ rbuf = [c \in Client |-> <<>>]
  /\ sbuf = [c \in Client |-> <<>>]
  /\ ctx = [c \in Client |-> FreshContext]
  /\ backlog = <<>> /\ ready = {} /\ batch = <<>>
  /\ pc = "top" /\ timeout = -1
  /\ g_stop = FALSE /\ active_connections = 0 /\ faults = 0

Server ==
  \/ ChooseTimeout \/ EpollWait \/ BatchDone \/ HandleNewConnection
  \/ \E c \in Client : HandleEpollin(c) \/ HandleEpollout(c)

Clients ==
  \E c \in Client : Connect(c) \/ Ask(c) \/ SendPiece(c) \/ Receive(c) \/ Leave(c)

Next == Server \/ Clients \/ Signal

Spec == Init /\ [][Next]_vars

(* The server's thread runs; a client sends what it began to send, takes   *)
(* what arrives, and leaves when it is done.                               *)
ClientGoesOn(c) == SendPiece(c) \/ Receive(c) \/ (Finished(c) /\ Leave(c))

Fairness == WF_vars(Server) /\ \A c \in Client : WF_vars(ClientGoesOn(c))

FairSpec == Spec /\ Fairness

-----------------------------------------------------------------------------
(* The variables keep their types, and the count of active connections     *)
(* that the server stops by is the number of contexts.                     *)
TypeOK ==
  /\ conn \in [Client -> {"none", "backlog", "open", "closed", "reset"}]
  /\ \A c \in Client : /\ Len(sbuf[c]) <= SndBuf
                       /\ Len(ctx[c].read_buffer) <= MaxHdr
                       /\ ctx[c].header_sent \in 0..HeaderLen
                       /\ ctx[c].file_remain \in Nat
                       /\ ctx[c].interest \subseteq {"IN", "OUT"}
  /\ ready \subseteq Client
  /\ pc \in {"top", "wait", "batch", "exited"}
  /\ active_connections = Cardinality({c \in Client : conn[c] = "open"})

(* No event that is still to be handled, nor the second half of one, names *)
(* a context that was freed: main() calls handle_epollin() and then        *)
(* handle_epollout() for one event.                                        *)
NoFreedContext ==
  /\ TypeOK
  /\ \A i \in DOMAIN batch : batch[i].fd # Listener => conn[batch[i].fd] = "open"

(* The first piece of a response, and the number of the response that the  *)
(* i-th piece is of.                                                       *)
Header(p) == "code" \in DOMAIN p /\ p.n = 1
Nth(pieces, i) == Cardinality({j \in 1 .. i : Header(pieces[j])})

Announces(pieces, asked) ==
  \A i \in DOMAIN pieces :
    Header(pieces[i]) /\ pieces[i].keep_alive =>
      pieces[i].code = 200 /\ Deserved(asked[Nth(pieces, i)]).keep_alive

(* What a client gets is, in the order of its requests and however writes  *)
(* were cut, the header and the file each deserves; only the last one may  *)
(* be an internal error instead.  A header announces that the connection   *)
(* stays open only to a request that asked for that.                       *)
ResponsesIntact ==
  \A c \in Client :
    LET pieces == client[c].got \o sbuf[c]
        asked == client[c].asked
    IN /\ \/ IsPrefix(Seen(pieces), Responses(asked))
          \/ asked # <<>> /\ IsPrefix(Seen(pieces), Responses(Front(asked)) \o Response(500, NoFile))
       /\ Announces(pieces, asked)

(* A response is cut short neither by a close nor by the end of the        *)
(* server, whenever the signal comes: what a client that stayed has got or *)
(* will get is a number of whole responses.                                *)
NeverCutShort ==
  \A c \in Client :
    LET stream == Seen(client[c].got \o sbuf[c])
        asked == client[c].asked
    IN (conn[c] = "closed" \/ (conn[c] = "open" /\ pc = "exited")) /\ ~ Gone(c)
         => \E n \in 0..Len(asked) :
              stream \in {Responses(SubSeq(asked, 1, n)),
                          Responses(SubSeq(asked, 1, n)) \o Response(500, NoFile)}

(* Edge-triggered events are not lost: a request that was sent is answered *)
(* or the connection ends, however its pieces and the writes are timed.    *)
RequestServed ==
  \A c \in Client :
    (client[c].asked # <<>> /\ ~ Answered(c))
      ~> (Answered(c) \/ Gone(c) \/ conn[c] \in {"closed", "reset"})

(* Once the loop has seen the signal the server stops, when its clients    *)
(* are done.                                                               *)
StopsOnceSeen == (g_stop /\ pc = "top") ~> (pc = "exited")

-----------------------------------------------------------------------------
(* The inductive invariant behind NoFreedContext: types, and what an event *)
(* of the batch means.                                                     *)

Code == {200, 400, 403, 404, 500}

Piece == [req : Request, last : BOOLEAN]

Reply ==
  [code : Code, keep_alive : BOOLEAN, n : 1 .. HeaderLen]
  \cup [file : DOMAIN Files, n : Nat]

Context ==
  [read_buffer : Seq(Piece), keep_alive : BOOLEAN, file : DOMAIN Files \cup {NoFile},
   file_offset : Nat, file_remain : Nat, write_phase : {"HEADER", "BODY"},
   code : Code \cup {0}, header_sent : 0 .. HeaderLen, interest : {{"IN"}, {"OUT"}}]

VariablesOK ==
  /\ conn \in [Client -> {"none", "backlog", "open", "closed", "reset"}]
  /\ client \in [Client -> [open : BOOLEAN, asked : Seq(Request), left : Nat, got : Seq(Reply)]]
  /\ rbuf \in [Client -> Seq(Piece)] /\ sbuf \in [Client -> Seq(Reply)]
  /\ ctx \in [Client -> Context]
  /\ pc \in {"top", "wait", "batch", "exited"} /\ timeout \in {-1, 100}
  /\ g_stop \in BOOLEAN /\ faults \in 0 .. MaxFaults

(* A context as its handlers leave it.  One that is written has a status.  *)
GoodContext(x) ==
  /\ x \in Context
  /\ Len(x.read_buffer) <= MaxHdr
  /\ x.file_remain > 0 => x.file \in DOMAIN Files
  /\ x.interest = {"OUT"} => x.code \in Code

ConnectionOK(c) ==
  /\ GoodContext(ctx[c])
  /\ client[c].left > 0 => client[c].asked # <<>>
  /\ Len(sbuf[c]) <= SndBuf

BacklogOK ==
  /\ backlog \in Seq(Client)
  /\ \A i \in DOMAIN backlog :
       /\ conn[backlog[i]] = "backlog"
       /\ \A j \in DOMAIN backlog : backlog[i] = backlog[j] => i = j

(* An event is for an open connection, once, and says the one thing that   *)
(* the connection waits for.                                               *)
EventOK(e) ==
  \/ e.fd = Listener /\ backlog # <<>>
  \/ e.fd \in Client /\ conn[e.fd] = "open" /\ e.flags = ctx[e.fd].interest

Event == [fd : Client \cup {Listener}, flags : {{"IN"}, {"OUT"}}]

EventsOK ==
  /\ batch \in Seq(Event)
  /\ \A i \in DOMAIN batch :
       /\ EventOK(batch[i])
       /\ \A j \in DOMAIN batch : batch[i].fd = batch[j].fd => i = j
  /\ ready \subseteq Client /\ \A c \in ready : conn[c] = "open"

CountOK == active_connections = Cardinality({c \in Client : conn[c] = "open"})

EventInv ==
  /\ VariablesOK /\ \A c \in Client : ConnectionOK(c)
  /\ BacklogOK /\ EventsOK /\ CountOK
-----------------------------------------------------------------------------
(* The inductive invariant behind ResponsesIntact and NeverCutShort: where *)
(* a connection is between a request and the end of its response.          *)

(* sent is whole responses to all that was asked.                          *)
Answers(sent, asked) ==
  /\ Seen(sent) = Responses(asked)
  /\ Nth(sent, Len(sent)) = Len(asked) /\ Announces(sent, asked)

(* The same, the last response having this status.                         *)
AnswersWith(sent, asked, code) ==
  /\ Seen(sent) = Responses(Front(asked)) \o Response(code, Last(asked).url)
  /\ Nth(sent, Len(sent)) = Len(asked) /\ Announces(sent, asked)

(* Nothing is under way.                                                   *)
Idle(asked, left, sent, held) == left = 0 /\ held = <<>> /\ Answers(sent, asked)

(* held is what the server has of the last request, read or not.           *)
Asking(asked, left, sent, held) ==
  /\ asked # <<>> /\ Answers(sent, Front(asked))
  /\ Len(held) = Pieces(Last(asked)) - left
  /\ \A i \in DOMAIN held :
       /\ held[i].req = Last(asked)
       /\ held[i].last <=> i = Pieces(Last(asked)) /\ Last(asked) # Long

(* x has the response to the last request under way.  It will not be read  *)
(* again before that request has arrived.                                  *)
Responding(asked, left, sent, x, unread) ==
  /\ asked # <<>> /\ ToWrite(x) # <<>>
  /\ x.code \in {Deserved(Last(asked)).code, 500}
  /\ AnswersWith(sent \o ToWrite(x), asked, x.code)
  /\ x.keep_alive =>
       x.code = 200 /\ Deserved(Last(asked)).keep_alive /\ left = 0 /\ unread = <<>>

(* The connection was closed between two responses.                        *)
Ended(asked, sent) ==
  \/ Answers(sent, asked)
  \/ asked # <<>> /\ (Answers(sent, Front(asked)) \/ AnswersWith(sent, asked, 500))

ServiceOK(c) ==
  LET asked == client[c].asked
      left == client[c].left
      sent == client[c].got \o sbuf[c]
      held == ctx[c].read_buffer \o rbuf[c]
  IN /\ conn[c] \in {"none", "backlog"} => ctx[c] = FreshContext /\ sent = <<>>
     /\ Gone(c) => asked = <<>> /\ left = 0 /\ sent = <<>>
     /\ ~ Gone(c) =>
          CASE conn[c] \in {"closed", "reset"} -> Ended(asked, sent)
            [] conn[c] \notin {"closed", "reset"} /\ ctx[c].interest = {"OUT"} ->
                 Responding(asked, left, sent, ctx[c], rbuf[c])
            [] OTHER -> Idle(asked, left, sent, held) \/ Asking(asked, left, sent, held)

ServiceInv ==
  /\ EventInv
  /\ \A c \in Client : ServiceOK(c)
  /\ pc = "exited" => \A c \in Client : conn[c] # "open"
=============================================================================
