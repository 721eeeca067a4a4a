--------------------------- MODULE MysockInvariant ---------------------------
(***************************************************************************)
(* The inductive invariant of module Mysock: what its theorems rest on.    *)
(***************************************************************************)
EXTENDS Mysock

Segments == Seq(Seq(Int))
Ending == {"join", "joinrecv", "closed"}

AppRecord ==
  [pc : {"start", "connecting", "exited", "ask", "answer", "parse", "file",
         "accept", "line", "process", "body", "close"} \cup Ending,
   line : Seq(Int), left : Int, asked : 0 .. Len(Files), received : Nat]

TransportRecord ==
  [pc : {"none", "syn", "handshake", "wait", "handle", "final", "ended"},
   events : SUBSET {"APP_DATA", "NETWORK_DATA", "APP_CLOSE"},
   errno : {0, ECONNREFUSED}, fin_sent : BOOLEAN, fin_received : BOOLEAN]

SockRecord ==
  [blocking : BOOLEAN, stcp_errno : {0, ECONNREFUSED}, close_requested : BOOLEAN,
   eof : BOOLEAN, exit_pipe : BOOLEAN]

QueueRecord == [app_recv : Segments, app_send : Segments, network : Segments]

HistRecord ==
  [written : [Side -> Seq(Int)], got : [Side -> Seq(Int)], trouble : BOOLEAN, unread : BOOLEAN]

Types ==
  /\ app \in [Side -> AppRecord] /\ tr \in [Side -> TransportRecord]
  /\ rv \in [Side -> {"none", "poll", "ended"}] /\ sock \in [Side -> SockRecord]
  /\ q \in [Side -> QueueRecord] /\ net \in [Side -> Segments]
  /\ tcp \in [Side -> {"unconnected", "connected", "closed"}]
  /\ waiting \in [Side -> SUBSET {"app", "transport"}]
  /\ signal \in [Side -> SUBSET {"app", "transport", "recv"}]
  /\ hist \in HistRecord

-----------------------------------------------------------------------------
(* Threads.                                                                *)

(* What the transport thread of s knows and does, and which threads are    *)
(* left of a connection that is closed.                                    *)
Threads(s) ==
  /\ tr[s].pc # "handle" => tr[s].events = {}
  /\ "transport" \in waiting[s] => tr[s].pc = "wait"
  /\ "NETWORK_DATA" \in tr[s].events => q[s].network # <<>>
  /\ "APP_DATA" \in tr[s].events => q[s].app_recv # <<>>
  /\ app[s].pc \in {"joinrecv", "closed"} => tr[s].pc = "ended" /\ "transport" \notin signal[s]
  /\ app[s].pc = "closed" => rv[s] = "ended" /\ signal[s] = {} /\ waiting[s] = {}

(* The request to close is on one of three stages.                         *)
Requests(s) ==
  /\ sock[s].close_requested =>
       app[s].pc \in Ending /\ "APP_CLOSE" \notin tr[s].events /\ ~ tr[s].fin_sent
  /\ "APP_CLOSE" \in tr[s].events =>
       app[s].pc = "join" /\ ~ tr[s].fin_sent /\ q[s].app_recv = <<>>
  /\ tr[s].fin_sent => app[s].pc \in Ending /\ q[s].app_recv = <<>>

(* The transport thread of the server starts when the client's handshake   *)
(* ends.                                                                   *)
Opening ==
  /\ app["client"].pc = "start" => tr["client"].pc = "none"
  /\ tr["client"].pc \in {"none", "syn", "handshake"} => tr["server"].pc = "none"
  /\ tr["server"].pc = "none" => app["server"].pc = "accept"

-----------------------------------------------------------------------------
(* Bytes and FINs on their way to s.                                       *)

Under(s) ==
  hist.got[s] \o FlattenSeq(q[s].app_send) \o FlattenSeq(q[s].network) \o FlattenSeq(net[s])

Flow(s) ==
  /\ app[s].pc # "closed" => IsPrefix(Under(s), hist.written[Peer(s)])
  /\ app[s].pc # "closed" /\ app[Peer(s)].pc # "closed" => Bytes(s) = hist.written[Peer(s)]
  /\ IsPrefix(hist.got[s], hist.written[Peer(s)])
  /\ ~ hist.trouble /\ ~ BrokeOff(s) => Bytes(s) = hist.written[Peer(s)]

Blank(segments) == \A i \in DOMAIN segments : segments[i] = <<>>
HasFin(segments) == \E i \in DOMAIN segments : segments[i] = <<>>
FinLast(segments) ==
  \A i, j \in DOMAIN segments : i < j /\ segments[i] = <<>> => segments[j] = <<>>

(* Without trouble, nothing but FINs follows a FIN.                        *)
Fins(s) ==
  ~ hist.trouble =>
    /\ FinLast(q[s].app_send) /\ FinLast(q[s].network) /\ FinLast(net[s])
    /\ HasFin(q[s].app_send) \/ tr[s].fin_received \/ sock[s].eof =>
         Blank(q[s].network) /\ Blank(net[s]) /\ tr[Peer(s)].fin_sent
    /\ HasFin(q[s].network) => Blank(net[s]) /\ tr[Peer(s)].fin_sent
    /\ HasFin(net[s]) => tr[Peer(s)].fin_sent
    /\ sock[s].eof => Blank(q[s].app_send) /\ hist.got[s] = hist.written[Peer(s)]
    /\ tr[s].pc \in {"final", "ended"} => tr[s].fin_sent /\ tr[s].fin_received

-----------------------------------------------------------------------------
(* Requests and answers.                                                   *)

(* Where the answer to the i-th request ends.                              *)
AnswerEnd[i \in 0 .. Len(Files)] ==
  IF i = 0 THEN 0 ELSE AnswerEnd[i - 1] + 2 + (IF Files[i] = -1 THEN 0 ELSE Files[i])

Asked == app["client"].asked
There(n) == {i \in 1 .. n : Files[i] # -1}

RequestsWritten ==
  /\ Len(hist.written["client"]) = 2 * Asked
  /\ \A i \in 1 .. Asked :
       hist.written["client"][2 * i - 1] = i /\ hist.written["client"][2 * i] = EOL

AnswersWritten ==
  \A i \in 1 .. Len(Files) :
    /\ AnswerEnd[i - 1] + 1 <= Len(hist.written["server"]) =>
         hist.written["server"][AnswerEnd[i - 1] + 1] = Files[i]
    /\ AnswerEnd[i - 1] + 2 <= Len(hist.written["server"]) =>
         hist.written["server"][AnswerEnd[i - 1] + 2] = EOL

(* The server has answered k requests, and maybe a part of the next one.   *)
(* Where it stands in its loop says what it has read and written; an end   *)
(* of file in the middle of a request is one of a broken connection.       *)
Serving(k) ==
  LET pc == app["server"].pc
      line == app["server"].line
      eof == sock["server"].eof
      read == Len(hist.got["server"])
      wrote == Len(hist.written["server"])
  IN /\ \/ wrote = AnswerEnd[k]
        \/ k < Len(Files) /\ AnswerEnd[k] + 2 <= wrote /\ wrote <= AnswerEnd[k + 1]
     /\ pc \in {"accept", "line", "process", "body", "close"} \cup Ending
     /\ pc = "accept" => read = 0 /\ line = <<>> /\ ~ eof /\ k = 0
     /\ pc \in {"accept", "line", "process"} => wrote = AnswerEnd[k]
     /\ pc \in {"accept", "line"} =>
          IF eof THEN line = <<>> /\ hist.trouble
          ELSE read = 2 * k + Len(line) /\ (line = <<>> \/ line = <<k + 1>>)
     /\ pc = "process" /\ line = <<>> => eof
     /\ (pc = "process" /\ line # <<>>) \/ pc = "body" =>
          line = <<k + 1>> /\ k + 1 <= Asked /\ (IF eof THEN hist.trouble ELSE read = 2 * k + 2)
     /\ pc = "body" =>
          /\ Files[k + 1] # -1 /\ app["server"].left \in 0 .. Files[k + 1]
          /\ wrote = AnswerEnd[k] + 2 + Files[k + 1] - app["server"].left
     /\ pc \in {"close"} \cup Ending => eof \/ hist.unread
     /\ Len(line) \in {0, 1}

(* The client: where it stands says what it has read.  Without trouble it  *)
(* reads an end of file only when the server could not read a file.        *)
Asking ==
  LET pc == app["client"].pc
      line == app["client"].line
      eof == sock["client"].eof
      n == Asked
      HasRead(count, files) ==
        IF eof THEN hist.trouble
        ELSE Len(hist.got["client"]) = count /\ app["client"].received = Cardinality(There(files))
  IN /\ pc \in {"start", "connecting", "exited", "ask", "answer", "parse", "file", "close"}
                 \cup Ending
     /\ pc \in {"start", "connecting"} => n = 0 /\ ~ eof
     /\ pc \in {"start", "connecting", "ask"} => HasRead(AnswerEnd[n], n)
     /\ pc \in {"answer", "parse", "file"} => n >= 1
     /\ pc = "answer" =>
          /\ HasRead(AnswerEnd[n - 1] + Len(line), n - 1)
          /\ line = <<>> \/ (line = <<Files[n]>> /\ ~ eof)
     /\ pc = "parse" =>
          \/ line = <<>> /\ eof /\ (hist.trouble \/ hist.unread)
          \/ line = <<Files[n]>> /\ HasRead(AnswerEnd[n - 1] + 2, n - 1)
     /\ pc = "file" =>
          /\ Files[n] # -1 /\ app["client"].left \in 0 .. Files[n]
          /\ HasRead(AnswerEnd[n] - app["client"].left, n - 1)
     /\ pc \in {"close"} \cup Ending =>
          \/ hist.trouble
          \/ eof /\ hist.unread
          \/ n = Len(Files) /\ Len(hist.got["client"]) = AnswerEnd[n]
               /\ app["client"].received = Cardinality(There(n))
     /\ Len(line) \in {0, 1}

Protocol ==
  /\ RequestsWritten /\ AnswersWritten /\ Asking
  /\ \E k \in 0 .. Len(Files) : Serving(k)

-----------------------------------------------------------------------------
(* All of it. *)
MysockInv ==
  /\ Types
  /\ \A s \in Side : Threads(s) /\ Requests(s) /\ Flow(s) /\ Fins(s)
  /\ Opening
  /\ Protocol
=============================================================================
