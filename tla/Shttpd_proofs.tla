---------------------------- MODULE Shttpd_proofs ----------------------------
(***************************************************************************)
(* Theorems about module Shttpd, for every number of clients, requests and *)
(* faults, and every size of the buffers, headers and files.               *)
(***************************************************************************)
EXTENDS Shttpd, SequenceTheorems, FiniteSetTheorems, WellFoundedInduction, TLAPS

-----------------------------------------------------------------------------
(* Sequences. *)

(* The head of a sequence is taken.                                        *)
LEMMA TailOf ==
  ASSUME NEW S, NEW s \in Seq(S), s # <<>>, NEW t, t = Tail(s)
  PROVE  /\ t \in Seq(S) /\ Len(s) \in Nat /\ Len(t) \in Nat /\ Len(t) = Len(s) - 1
         /\ Head(s) = s[1] /\ s[1] \in S /\ 1 \in DOMAIN s
         /\ DOMAIN s = 1 .. Len(s) /\ DOMAIN t = 1 .. Len(t)
         /\ \A k \in 1 .. Len(t) : k + 1 \in 1 .. Len(s) /\ t[k] = s[k + 1] /\ k + 1 # 1
<1>1. /\ t \in Seq(S) /\ Len(s) \in Nat /\ Len(t) \in Nat /\ Len(t) = Len(s) - 1
      /\ Head(s) = s[1] /\ s[1] \in S
      /\ DOMAIN s = 1 .. Len(s) /\ DOMAIN t = 1 .. Len(t)
      /\ \A k \in 1 .. Len(t) : t[k] = s[k + 1]
  BY HeadTailProperties, LenProperties
<1>. QED  BY <1>1

(* Something is put behind a sequence.                                     *)
LEMMA AppendOf ==
  ASSUME NEW S, NEW s \in Seq(S), NEW x \in S, NEW t, t = Append(s, x)
  PROVE  /\ t \in Seq(S) /\ Len(s) \in Nat /\ Len(t) = Len(s) + 1
         /\ DOMAIN s = 1 .. Len(s) /\ DOMAIN t = 1 .. Len(s) + 1
         /\ t[Len(s) + 1] = x
         /\ \A k \in 1 .. Len(s) : t[k] = s[k]
         /\ \A k \in 1 .. Len(s) + 1 : k \in 1 .. Len(s) \/ k = Len(s) + 1
<1>1. t \in Seq(S) /\ Len(s) \in Nat /\ Len(t) = Len(s) + 1
  BY AppendProperties, LenProperties
<1>2. t[Len(s) + 1] = x /\ \A k \in 1 .. Len(s) : t[k] = s[k]
  BY AppendProperties, LenProperties
<1>3. DOMAIN s = 1 .. Len(s) /\ DOMAIN t = 1 .. Len(s) + 1
  BY <1>1, LenProperties
<1>. QED  BY <1>1, <1>2, <1>3

(* The beginning of a sequence, and the rest of it.                        *)
LEMMA CutOf ==
  ASSUME NEW S, NEW s \in Seq(S), NEW n \in 0 .. Len(s)
  PROVE  /\ SubSeq(s, 1, n) \in Seq(S) /\ Len(SubSeq(s, 1, n)) = n
         /\ SubSeq(s, n + 1, Len(s)) \in Seq(S)
<1>1. Len(s) \in Nat
  BY LenProperties
<1>2. 1 .. n \subseteq DOMAIN s /\ n + 1 .. Len(s) \subseteq DOMAIN s
  BY <1>1, LenProperties
<1>. QED  BY <1>1, <1>2, SubSeqProperties

-----------------------------------------------------------------------------
(* Contexts. *)

(* A new context is a good one, ...                                        *)
LEMMA FreshGood == GoodContext(FreshContext)
BY ShttpdAssumption DEF GoodContext, FreshContext, Context, Code

(* ... and so is one whose interest changes once it has a status, ...      *)
LEMMA InterestGood ==
  ASSUME NEW x, GoodContext(x), NEW interest \in {{"IN"}, {"OUT"}},
         interest = {"OUT"} => x.code \in Code
  PROVE  GoodContext([x EXCEPT !.interest = interest])
BY DEF GoodContext, Context

(* ... one that refuses a request, ...                                     *)
LEMMA RefusalGood ==
  ASSUME NEW x, GoodContext(x), NEW code \in Code
  PROVE  GoodContext(Refusal(x, code)) /\ Refusal(x, code).code \in Code
<1>. PICK y : y = Refusal(x, code)
  OBVIOUS
<1>1. x \in Context /\ 0 \in 0 .. HeaderLen
  BY ShttpdAssumption DEF GoodContext
<1>. PICK x1 : x1 = [x EXCEPT !.code = code, !.header_sent = 0]
  OBVIOUS
<1>. PICK x2 : x2 = [x1 EXCEPT !.file_remain = 0, !.write_phase = "HEADER"]
  OBVIOUS
<1>2. y = [x2 EXCEPT !.keep_alive = FALSE]
  BY DEF Refusal
<1>3. x1 \in Context /\ x1.code = code /\ x1.read_buffer = x.read_buffer
  BY <1>1 DEF Context
<1>4. x2 \in Context /\ x2.code = x1.code /\ x2.file_remain = 0 /\ x2.read_buffer = x1.read_buffer
  BY <1>3 DEF Context
<1>5. y \in Context /\ y.code = x2.code /\ y.file_remain = 0 /\ y.read_buffer = x2.read_buffer
  BY <1>2, <1>4 DEF Context
<1>. QED  BY <1>3, <1>4, <1>5 DEF GoodContext

(* ... one that is prepared to send a file, ...                            *)
LEMMA PreparedGood ==
  ASSUME NEW x, GoodContext(x), NEW url \in DOMAIN Files
  PROVE  GoodContext(Prepared(x, url)) /\ Prepared(x, url).code \in Code
<1>1. Files[url].size \in Nat
  BY ShttpdAssumption DEF File
<1>. PICK size : size = Files[url].size
  OBVIOUS
<1>. PICK y : y = Prepared(x, url)
  OBVIOUS
<1>2. x \in Context /\ 0 \in 0 .. HeaderLen /\ 200 \in Code
  BY ShttpdAssumption DEF GoodContext, Code
<1>. PICK x1 : x1 = [x EXCEPT !.file = url, !.file_offset = 0, !.file_remain = size]
  OBVIOUS
<1>3. y = [x1 EXCEPT !.write_phase = "HEADER", !.code = 200, !.header_sent = 0]
  BY DEF Prepared
<1>4. x1 \in Context /\ x1.file = url /\ x1.read_buffer = x.read_buffer
  BY <1>1, <1>2 DEF Context
<1>5. y \in Context /\ y.code = 200 /\ y.file = x1.file /\ y.read_buffer = x1.read_buffer
  BY <1>2, <1>3, <1>4, ZenonT(30) DEF Context
<1>. QED  BY <1>2, <1>4, <1>5 DEF GoodContext

(* ... one that is read again, ...                                         *)
LEMMA ResetGood ==
  ASSUME NEW x, GoodContext(x)
  PROVE  GoodContext([ResetContext(x) EXCEPT !.interest = {"IN"}])
<1>. PICK y : y = [ResetContext(x) EXCEPT !.interest = {"IN"}]
  OBVIOUS
<1>1. x \in Context /\ 0 \in 0 .. HeaderLen /\ MaxHdr \in Nat
  BY ShttpdAssumption DEF GoodContext
<1>. PICK z : z = ResetContext(x)
  OBVIOUS
<1>6. <<>> \in Seq(Piece) /\ Len(<<>>) = 0
  OBVIOUS
<1>. PICK empty \in Seq(Piece) : empty = <<>>
  BY <1>6
<1>. PICK x1 : x1 = [x EXCEPT !.read_buffer = empty, !.file = NoFile, !.file_offset = 0]
  OBVIOUS
<1>2. z = [x1 EXCEPT !.file_remain = 0, !.write_phase = "HEADER", !.code = 0, !.header_sent = 0]
  BY DEF ResetContext
<1>5. x1 \in Context /\ x1.read_buffer = empty
  BY <1>1 DEF Context
<1>3. z \in Context /\ z.file_remain = 0 /\ z.read_buffer = x1.read_buffer
  BY <1>1, <1>2, <1>5 DEF Context
<1>4. y \in Context /\ y.file_remain = 0 /\ y.read_buffer = x1.read_buffer /\ y.interest = {"IN"}
  BY <1>3 DEF Context
<1>. QED  BY <1>1, <1>3, <1>4, <1>5, <1>6 DEF GoodContext

(* ... one that has read as much as fits, ...                              *)
LEMMA BufferGood ==
  ASSUME NEW x, GoodContext(x), NEW buffer \in Seq(Piece), Len(buffer) <= MaxHdr
  PROVE  GoodContext([x EXCEPT !.read_buffer = buffer])
BY DEF GoodContext, Context

(* ... and one that is to be kept or closed.                               *)
LEMMA KeepAliveGood ==
  ASSUME NEW x, GoodContext(x), NEW keep_alive \in BOOLEAN
  PROVE  GoodContext([x EXCEPT !.keep_alive = keep_alive])
BY DEF GoodContext, Context

(* What a context that is written has to write.                            *)
LEMMA ToWriteType ==
  ASSUME NEW x, GoodContext(x), x.code \in Code
  PROVE  /\ ToWrite(x) \in Seq(Reply)
         /\ Len(ToWrite(x)) = (HeaderLen - x.header_sent) + x.file_remain
<1>. PICK h, r, o : h = x.header_sent /\ r = x.file_remain /\ o = x.file_offset
  OBVIOUS
<1>1. h \in 0 .. HeaderLen /\ r \in Nat /\ o \in Nat /\ HeaderLen \in Nat /\ x.keep_alive \in BOOLEAN
      /\ (r > 0 => x.file \in DOMAIN Files)
  BY ShttpdAssumption DEF GoodContext, Context
<1>. DEFINE s == [i \in 1 .. HeaderLen - h |-> HeaderPiece(x, h + i)]
            t == [i \in 1 .. r |-> BodyPiece(x.file, o + i)]
<1>2. s \in Seq(Reply) /\ Len(s) = HeaderLen - h
  <2>1. \A i \in 1 .. HeaderLen - h : h + i \in 1 .. HeaderLen
    BY <1>1
  <2>2. \A i \in 1 .. HeaderLen - h : HeaderPiece(x, h + i) \in Reply
    BY <1>1, <2>1 DEF HeaderPiece, Reply
  <2>3. HeaderLen - h \in Nat
    BY <1>1
  <2>. HIDE DEF Reply, HeaderPiece
  <2>. QED  BY <2>2, <2>3
<1>3. t \in Seq(Reply) /\ Len(t) = r
  <2>1. \A i \in 1 .. r : BodyPiece(x.file, o + i) \in Reply
    BY <1>1 DEF BodyPiece, Reply
  <2>. QED  BY <1>1, <2>1
<1>4. ToWrite(x) = s \o t
  BY DEF ToWrite
<1>. HIDE DEF s, t
<1>. HIDE DEF Reply
<1>. QED  BY <1>2, <1>3, <1>4, ConcatProperties, SMTT(30)

(* Some of it is written.                                                  *)
LEMMA WrittenGood ==
  ASSUME NEW x, GoodContext(x), NEW k \in 0 .. (HeaderLen - x.header_sent) + x.file_remain
  PROVE  GoodContext(Written(x, k)) /\ Written(x, k).interest = x.interest
         /\ Written(x, k).code = x.code
<1>. PICK h, r, o : h = x.header_sent /\ r = x.file_remain /\ o = x.file_offset
  OBVIOUS
<1>1. h \in 0 .. HeaderLen /\ r \in Nat /\ o \in Nat /\ HeaderLen \in Nat
  BY ShttpdAssumption DEF GoodContext, Context
<1>. PICK header : header = IF k < HeaderLen - h THEN k ELSE HeaderLen - h
  OBVIOUS
<1>. PICK body : body = k - header
  OBVIOUS
<1>. PICK phase : phase = IF x.write_phase = "HEADER" /\ h + header < HeaderLen
                          THEN "HEADER" ELSE "BODY"
  OBVIOUS
<1>2. Written(x, k) = [x EXCEPT !.header_sent = h + header, !.write_phase = phase,
                                !.file_offset = o + body, !.file_remain = r - body]
  BY Zenon DEF Written
<1>3. header \in Nat /\ body \in 0 .. r /\ h + header \in 0 .. HeaderLen
  BY <1>1
<1>4. o + body \in Nat /\ r - body \in Nat /\ (r - body > 0 => r > 0)
  BY <1>1, <1>3
<1>. QED  BY <1>2, <1>3, <1>4 DEF GoodContext, Context

-----------------------------------------------------------------------------
(* The number of open connections. *)

(* The count is right after a connection opened, ...                       *)
LEMMA OneOpens ==
  ASSUME CountOK, NEW c \in Client, conn \in [Client -> {"none", "backlog", "open", "closed", "reset"}],
         conn[c] # "open", conn' = [conn EXCEPT ![c] = "open"],
         active_connections' = active_connections + 1
  PROVE  CountOK'
<1>. DEFINE T == {d \in Client : conn[d] = "open"}
<1>1. IsFiniteSet(T)
  BY ShttpdAssumption, FS_Subset
<1>2. {d \in Client : conn'[d] = "open"} = T \cup {c}
  OBVIOUS
<1>3. Cardinality(T \cup {c}) = Cardinality(T) + 1
  BY <1>1, FS_AddElement
<1>. QED  BY <1>2, <1>3 DEF CountOK

(* ... after one closed, ...                                               *)
LEMMA OneCloses ==
  ASSUME CountOK, NEW c \in Client, conn \in [Client -> {"none", "backlog", "open", "closed", "reset"}],
         conn[c] = "open", NEW s \in {"closed", "reset"}, conn' = [conn EXCEPT ![c] = s],
         active_connections' = active_connections - 1
  PROVE  CountOK'
<1>. DEFINE T == {d \in Client : conn[d] = "open"}
<1>1. IsFiniteSet(T)
  BY ShttpdAssumption, FS_Subset
<1>2. {d \in Client : conn'[d] = "open"} = T \ {c} /\ c \in T
  OBVIOUS
<1>3. Cardinality(T \ {c}) = Cardinality(T) - 1
  BY <1>1, <1>2, FS_RemoveElement
<1>. QED  BY <1>2, <1>3 DEF CountOK

(* ... and after a step that does neither.                                 *)
LEMMA NoneChanges ==
  ASSUME CountOK, \A d \in Client : conn'[d] = "open" <=> conn[d] = "open",
         active_connections' = active_connections
  PROVE  CountOK'
<1>1. {d \in Client : conn'[d] = "open"} = {d \in Client : conn[d] = "open"}
  OBVIOUS
<1>. QED  BY <1>1 DEF CountOK

-----------------------------------------------------------------------------
(* Events. *)

(* The event that is handled is for an open connection.                    *)
LEMMA EventOf ==
  ASSUME EventInv, NEW c \in Client, batch # <<>>, NextEvent.fd = c
  PROVE  conn[c] = "open" /\ NextEvent.flags = ctx[c].interest
         /\ ctx[c].interest \in {{"IN"}, {"OUT"}} /\ GoodContext(ctx[c])
         /\ Len(sbuf[c]) <= SndBuf
<1>1. batch \in Seq(Event) /\ GoodContext(ctx[c]) /\ Len(sbuf[c]) <= SndBuf
  BY DEF EventInv, EventsOK, ConnectionOK
<1>2. NextEvent = batch[1] /\ 1 \in DOMAIN batch
  BY <1>1, TailOf DEF NextEvent
<1>3. EventOK(batch[1]) /\ c # Listener
  BY <1>2, ShttpdAssumption DEF EventInv, EventsOK
<1>. QED  BY <1>1, <1>2, <1>3 DEF EventOK, GoodContext, Context

(* An event whose one flag is dealt with is off the batch.                 *)
LEMMA EventOff ==
  ASSUME EventInv, NEW c \in Client, batch # <<>>, NextEvent.fd = c,
         NEW flag \in {"IN", "OUT"}, flag \in NextEvent.flags, EventDone({flag})
  PROVE  batch' = Tail(batch) /\ ctx[c].interest = {flag}
<1>1. NextEvent.flags = ctx[c].interest /\ ctx[c].interest \in {{"IN"}, {"OUT"}}
  BY EventOf
<1>2. NextEvent.flags = {flag}
  BY <1>1
<1>. QED  BY <1>1, <1>2 DEF EventDone

(* The first event was handled: only its connection changes.               *)
LEMMA RestOfBatch ==
  ASSUME EventsOK, batch # <<>>, batch' = Tail(batch),
         NEW fd, fd = NextEvent.fd,
         \A d \in Client : d # fd /\ conn[d] = "open" => conn'[d] = "open" /\ ctx'[d] = ctx[d],
         backlog' = backlog \/ fd = Listener,
         ready' \subseteq Client, \A d \in ready' : conn'[d] = "open"
  PROVE  EventsOK'
<1>1. batch \in Seq(Event)
  BY DEF EventsOK
<1>2. /\ batch' \in Seq(Event) /\ Head(batch) = batch[1] /\ 1 \in DOMAIN batch
      /\ DOMAIN batch = 1 .. Len(batch) /\ DOMAIN batch' = 1 .. Len(batch')
      /\ \A k \in 1 .. Len(batch') : k + 1 \in 1 .. Len(batch) /\ batch'[k] = batch[k + 1] /\ k + 1 # 1
  BY <1>1, TailOf
<1>3. ASSUME NEW k \in DOMAIN batch'
      PROVE  /\ EventOK(batch[k])'
             /\ \A j \in DOMAIN batch' : batch'[k].fd = batch'[j].fd => k = j
  <2>1. k + 1 \in DOMAIN batch /\ batch'[k] = batch[k + 1] /\ k + 1 # 1
    BY <1>2
  <2>. PICK e : e = batch[k + 1]
    OBVIOUS
  <2>2. EventOK(e) /\ e.fd # fd
    BY <1>2, <2>1 DEF EventsOK, NextEvent
  <2>3. EventOK(batch[k])'
    BY <2>1, <2>2 DEF EventOK
  <2>4. ASSUME NEW j \in DOMAIN batch', batch'[k].fd = batch'[j].fd PROVE k = j
    <3>1. j + 1 \in DOMAIN batch /\ batch'[j] = batch[j + 1]
      BY <1>2
    <3>2. k + 1 = j + 1
      BY <2>1, <2>4, <3>1 DEF EventsOK
    <3>3. k \in Nat /\ j \in Nat
      BY <1>2
    <3>. QED  BY <3>2, <3>3
  <2>. QED  BY <2>3, <2>4
<1>. QED  BY <1>2, <1>3 DEF EventsOK

(* An event for a connection was handled.                                  *)
LEMMA HandledStep ==
  ASSUME EventInv, NEW c \in Client, batch # <<>>, NextEvent.fd = c, batch' = Tail(batch),
         UNCHANGED <<client, backlog, pc, timeout, g_stop>>,
         rbuf' \in [Client -> Seq(Piece)], faults' \in 0 .. MaxFaults,
         sbuf' \in [Client -> Seq(Reply)], \A d \in Client : Len(sbuf'[d]) <= SndBuf,
         NEW x, GoodContext(x), ctx' = [ctx EXCEPT ![c] = x],
         \/ ready' \subseteq ready \cup {c} /\ UNCHANGED <<conn, active_connections>>
         \/ /\ ready' \subseteq ready \ {c} /\ active_connections' = active_connections - 1
            /\ \E s \in {"closed", "reset"} : conn' = [conn EXCEPT ![c] = s]
  PROVE  EventInv'
<1>. USE DEF EventInv
<1>1. conn[c] = "open" /\ conn' \in [Client -> {"none", "backlog", "open", "closed", "reset"}]
  <2>1. conn[c] = "open"
    BY EventOf
  <2>2. ASSUME NEW s \in {"closed", "reset"}, conn' = [conn EXCEPT ![c] = s]
        PROVE  conn' \in [Client -> {"none", "backlog", "open", "closed", "reset"}]
    BY <2>2 DEF VariablesOK
  <2>3. conn \in [Client -> {"none", "backlog", "open", "closed", "reset"}]
    BY DEF VariablesOK
  <2>. QED  BY <2>1, <2>2, <2>3
<1>2. VariablesOK'
  BY <1>1 DEF VariablesOK, GoodContext
<1>3. \A d \in Client : ConnectionOK(d)'
  BY DEF ConnectionOK, VariablesOK
<1>4. \A d \in Client : d # c => conn'[d] = conn[d] /\ ctx'[d] = ctx[d]
  BY DEF VariablesOK
<1>5. BacklogOK'
  <2>1. \A i \in DOMAIN backlog : backlog[i] # c
    BY <1>1 DEF BacklogOK
  <2>2. \A i \in DOMAIN backlog : backlog[i] \in Client
    BY ElementOfSeq, LenProperties DEF BacklogOK
  <2>. QED  BY <1>4, <2>1, <2>2 DEF BacklogOK
<1>6. EventsOK'
  <2>1. ready' \subseteq Client /\ \A d \in ready' : conn'[d] = "open"
    BY <1>1, <1>4 DEF EventsOK
  <2>. QED  BY <1>4, <2>1, RestOfBatch
<1>7. CountOK'
  BY <1>1, OneCloses, NoneChanges, ZenonT(30) DEF VariablesOK
<1>. QED  BY <1>2, <1>3, <1>5, <1>6, <1>7

(* What a handler leaves of connection c.                                  *)
Served(c) ==
  /\ \E x : GoodContext(x) /\ ctx' = [ctx EXCEPT ![c] = x]
  /\ \/ ready' \subseteq ready \cup {c} /\ UNCHANGED <<conn, active_connections>>
     \/ /\ ready' \subseteq ready \ {c} /\ active_connections' = active_connections - 1
        /\ \E s \in {"closed", "reset"} : conn' = [conn EXCEPT ![c] = s]

(* The bound on system calls that fail is kept.                            *)
LEMMA FailType ==
  ASSUME VariablesOK, NEW n \in Nat, Fail(n)
  PROVE  faults' \in 0 .. MaxFaults
BY ShttpdAssumption DEF VariablesOK, Fail

(* epoll_ctl() leaves the connection with a good context, ...              *)
LEMMA RearmServes ==
  ASSUME NEW c, NEW x, GoodContext(x), NEW interest \in {{"IN"}, {"OUT"}},
         interest = {"OUT"} => x.code \in Code, Rearm(c, x, interest)
  PROVE  Served(c)
<1>1. GoodContext([x EXCEPT !.interest = interest])
  BY InterestGood
<1>2. ctx' = [ctx EXCEPT ![c] = [x EXCEPT !.interest = interest]]
      /\ ready' \subseteq ready \cup {c} /\ UNCHANGED <<conn, active_connections>>
  BY DEF Rearm
<1>. QED  BY <1>1, <1>2 DEF Served

(* ... close_connection() with none, ...                                   *)
LEMMA CloseServes ==
  ASSUME NEW c, CloseConnection(c)
  PROVE  Served(c)
<1>1. \E s \in {"closed", "reset"} : conn' = [conn EXCEPT ![c] = s]
  BY DEF CloseConnection
<1>. QED  BY <1>1, FreshGood DEF CloseConnection, Served

(* ... and send_error() with one or the other.                             *)
LEMMA SendErrorServes ==
  ASSUME VariablesOK, NEW c, NEW x, GoodContext(x), NEW code \in Code, SendError(c, x, code)
  PROVE  Served(c) /\ faults' \in 0 .. MaxFaults
<1>1. CASE Fail(0) /\ Rearm(c, Refusal(x, code), {"OUT"})
  BY <1>1, RefusalGood, RearmServes, FailType
<1>2. CASE Fail(1) /\ CloseConnection(c)
  BY <1>2, CloseServes, FailType
<1>. QED  BY <1>1, <1>2 DEF SendError

(* A request in the buffer leads to one or the other.                      *)
LEMMA RespondServes ==
  ASSUME VariablesOK, NEW c, NEW x, GoodContext(x), NEW req \in Request, Respond(c, x, req)
  PROVE  Served(c) /\ faults' \in 0 .. MaxFaults
<1>. PICK code, kept, status :
       /\ code = ParseRequest(req).code /\ kept = (ParseRequest(req).keep_alive /\ ~ g_stop)
       /\ status = FileStatus(req.url)
  OBVIOUS
<1>. PICK y : y = [x EXCEPT !.keep_alive = kept]
  OBVIOUS
<1>1. code \in Code /\ status \in Code
  BY DEF ParseRequest, FileStatus, Code
<1>2. kept \in BOOLEAN
  OBVIOUS
<1>3. GoodContext(y)
  BY <1>2, KeepAliveGood
<1>4. req.url \in DOMAIN Files
  BY DEF Request
<1>5. GoodContext(Prepared(y, req.url)) /\ Prepared(y, req.url).code \in Code
  BY <1>3, <1>4, PreparedGood
<1>6. \/ SendError(c, x, code) \/ SendError(c, y, status)
      \/ Fail(0) /\ Rearm(c, Prepared(y, req.url), {"OUT"})
      \/ Fail(1) /\ Rearm(c, Refusal(y, 500), {"OUT"})
      \/ Fail(1) /\ Rearm(c, Refusal(Prepared(y, req.url), 500), {"OUT"})
      \/ Fail(2) /\ CloseConnection(c)
  BY ZenonT(30) DEF Respond
<1>7. 500 \in Code
  BY DEF Code
<1>8. CASE SendError(c, x, code) \/ SendError(c, y, status)
  BY <1>1, <1>3, <1>8, SendErrorServes
<1>9. CASE Fail(0) /\ Rearm(c, Prepared(y, req.url), {"OUT"})
  BY <1>5, <1>9, RearmServes, FailType
<1>10. CASE Fail(1) /\ (Rearm(c, Refusal(y, 500), {"OUT"})
                          \/ Rearm(c, Refusal(Prepared(y, req.url), 500), {"OUT"}))
  BY <1>3, <1>5, <1>7, <1>10, RefusalGood, RearmServes, FailType
<1>11. CASE Fail(2) /\ CloseConnection(c)
  BY <1>11, CloseServes, FailType
<1>. QED  BY <1>6, <1>8, <1>9, <1>10, <1>11

(* A handler of connection c has dealt with an event.                      *)
LEMMA ServedStep ==
  ASSUME EventInv, NEW c \in Client, batch # <<>>, NextEvent.fd = c, batch' = Tail(batch),
         UNCHANGED <<client, backlog, pc, timeout, g_stop>>,
         rbuf' \in [Client -> Seq(Piece)], faults' \in 0 .. MaxFaults,
         sbuf' \in [Client -> Seq(Reply)], \A d \in Client : Len(sbuf'[d]) <= SndBuf,
         Served(c)
  PROVE  EventInv'
<1>1. PICK x : GoodContext(x) /\ ctx' = [ctx EXCEPT ![c] = x]
  BY DEF Served
<1>. QED  BY <1>1, HandledStep DEF Served

(* handle_epollin() keeps the invariant of the event loop.                 *)
LEMMA HandleEpollinStep ==
  ASSUME EventInv, NEW c \in Client, HandleEpollin(c)
  PROVE  EventInv'
<1>. PICK x, room, n, buffer, y :
       /\ x = ctx[c] /\ room = MaxHdr - Len(x.read_buffer)
       /\ n = IF Len(rbuf[c]) < room THEN Len(rbuf[c]) ELSE room
       /\ buffer = x.read_buffer \o SubSeq(rbuf[c], 1, n)
       /\ y = [x EXCEPT !.read_buffer = buffer]
  OBVIOUS
<1>1. /\ batch # <<>> /\ NextEvent.fd = c /\ "IN" \in NextEvent.flags /\ EventDone({"IN"})
      /\ UNCHANGED <<client, sbuf, backlog, pc, timeout, g_stop>>
      /\ rbuf' = [rbuf EXCEPT ![c] = SubSeq(rbuf[c], n + 1, Len(rbuf[c]))]
  BY DEF HandleEpollin
<1>2. \/ \E i \in DOMAIN buffer : Respond(c, y, buffer[i].req)
      \/ SendError(c, y, 400)
      \/ Len(buffer) < MaxHdr /\ Fail(0) /\ CloseConnection(c)
      \/ /\ Len(buffer) < MaxHdr /\ Fail(0) /\ ctx' = [ctx EXCEPT ![c] = y]
         /\ UNCHANGED <<conn, ready, active_connections>>
  BY ZenonT(30) DEF HandleEpollin
<1>3. VariablesOK /\ GoodContext(x) /\ rbuf[c] \in Seq(Piece) /\ x.read_buffer \in Seq(Piece)
      /\ Len(x.read_buffer) <= MaxHdr
  BY DEF EventInv, ConnectionOK, VariablesOK, GoodContext, Context
<1>4. n \in 0 .. Len(rbuf[c]) /\ n <= room /\ Len(x.read_buffer) \in Nat /\ MaxHdr \in Nat
  <2>1. Len(rbuf[c]) \in Nat /\ Len(x.read_buffer) \in Nat /\ MaxHdr \in Nat
    BY <1>3, LenProperties, ShttpdAssumption
  <2>2. room = MaxHdr - Len(x.read_buffer) /\ room \in Nat
    BY <1>3, <2>1
  <2>. QED  BY <2>1, <2>2
<1>5. buffer \in Seq(Piece) /\ Len(buffer) <= MaxHdr
  <2>1. SubSeq(rbuf[c], 1, n) \in Seq(Piece) /\ Len(SubSeq(rbuf[c], 1, n)) = n
    BY <1>3, <1>4, CutOf
  <2>2. buffer \in Seq(Piece) /\ Len(buffer) = Len(x.read_buffer) + n
    BY <1>3, <2>1, ConcatProperties
  <2>3. n \in Nat
    BY <1>3, <1>4, LenProperties
  <2>. QED  BY <1>4, <2>2, <2>3
<1>6. GoodContext(y)
  BY <1>3, <1>5, BufferGood
<1>7. rbuf' \in [Client -> Seq(Piece)]
  <2>1. SubSeq(rbuf[c], n + 1, Len(rbuf[c])) \in Seq(Piece)
    BY <1>3, <1>4, CutOf
  <2>. QED  BY <1>1, <1>3, <2>1 DEF VariablesOK
<1>8. Served(c) /\ faults' \in 0 .. MaxFaults
  <2>1. ASSUME NEW i \in DOMAIN buffer, Respond(c, y, buffer[i].req)
        PROVE  Served(c) /\ faults' \in 0 .. MaxFaults
    <3>1. buffer[i] \in Piece
      BY <1>5, ElementOfSeq, LenProperties
    <3>. QED  BY <1>3, <1>6, <2>1, <3>1, RespondServes DEF Piece
  <2>2. CASE SendError(c, y, 400)
    BY <1>3, <1>6, <2>2, SendErrorServes DEF Code
  <2>3. CASE Fail(0) /\ CloseConnection(c)
    BY <1>3, <2>3, CloseServes, FailType
  <2>4. CASE /\ Fail(0) /\ ctx' = [ctx EXCEPT ![c] = y]
             /\ UNCHANGED <<conn, ready, active_connections>>
    BY <1>3, <1>6, <2>4, FailType DEF Served
  <2>. QED  BY <1>2, <2>1, <2>2, <2>3, <2>4
<1>9. batch' = Tail(batch)
  BY <1>1, EventOff
<1>10. sbuf' \in [Client -> Seq(Reply)] /\ \A d \in Client : Len(sbuf'[d]) <= SndBuf
  BY <1>1 DEF EventInv, VariablesOK, ConnectionOK
<1>. QED  BY <1>1, <1>7, <1>8, <1>9, <1>10, ServedStep

(* handle_epollout() keeps it.                                             *)
LEMMA HandleEpolloutStep ==
  ASSUME EventInv, NEW c \in Client, HandleEpollout(c)
  PROVE  EventInv'
<1>. PICK x, rest, room, k, y :
       /\ x = ctx[c] /\ rest = ToWrite(x)
       /\ room = IF Gone(c) THEN Len(rest) ELSE SndBuf - Len(sbuf[c])
       /\ k = IF Len(rest) < room THEN Len(rest) ELSE room
       /\ y = Written(x, k)
  OBVIOUS
<1>1. /\ batch # <<>> /\ NextEvent.fd = c /\ NextEvent.flags = {"OUT"} /\ EventDone({"OUT"})
      /\ UNCHANGED <<client, rbuf, backlog, pc, timeout, g_stop>>
  BY DEF HandleEpollout
<1>2. \/ Fail(0) /\ CloseConnection(c) /\ UNCHANGED sbuf
      \/ /\ sbuf' = [sbuf EXCEPT ![c] = IF Gone(c) THEN sbuf[c] ELSE sbuf[c] \o SubSeq(rest, 1, k)]
         /\ \/ /\ Fail(0) /\ ctx' = [ctx EXCEPT ![c] = y]
               /\ UNCHANGED <<conn, ready, active_connections>>
            \/ Fail(0) /\ CloseConnection(c)
            \/ Fail(0) /\ Rearm(c, ResetContext(y), {"IN"})
            \/ Fail(1) /\ CloseConnection(c)
  BY Zenon DEF HandleEpollout
<1>3. /\ VariablesOK /\ GoodContext(x) /\ sbuf[c] \in Seq(Reply) /\ Len(sbuf[c]) <= SndBuf
      /\ x.interest = {"OUT"} /\ x.code \in Code
  <2>1. NextEvent.flags = x.interest /\ GoodContext(x) /\ Len(sbuf[c]) <= SndBuf
    BY <1>1, EventOf
  <2>. QED  BY <1>1, <2>1 DEF EventInv, VariablesOK, GoodContext
<1>4. rest \in Seq(Reply) /\ Len(rest) = (HeaderLen - x.header_sent) + x.file_remain
      /\ Len(rest) \in Nat
  BY <1>3, ToWriteType, LenProperties
<1>5. k \in 0 .. Len(rest) /\ k <= room /\ Len(sbuf[c]) \in Nat /\ SndBuf \in Nat
  BY <1>3, <1>4, LenProperties, ShttpdAssumption
<1>6. GoodContext(y) /\ y.interest = {"OUT"} /\ y.code \in Code
  BY <1>3, <1>4, <1>5, WrittenGood
<1>7. sbuf' \in [Client -> Seq(Reply)] /\ \A d \in Client : Len(sbuf'[d]) <= SndBuf
  <2>1. CASE UNCHANGED sbuf
    BY <2>1 DEF EventInv, VariablesOK, ConnectionOK
  <2>2. CASE ~ Gone(c) /\ sbuf' = [sbuf EXCEPT ![c] = sbuf[c] \o SubSeq(rest, 1, k)]
    <3>1. SubSeq(rest, 1, k) \in Seq(Reply) /\ Len(SubSeq(rest, 1, k)) = k
      BY <1>4, <1>5, CutOf
    <3>2. PICK s : s = sbuf[c] \o SubSeq(rest, 1, k)
      OBVIOUS
    <3>3. s \in Seq(Reply) /\ Len(s) = Len(sbuf[c]) + k
      BY <1>3, <3>1, <3>2, ConcatProperties
    <3>4. Len(s) <= SndBuf
      <4>1. room = SndBuf - Len(sbuf[c])
        BY <2>2
      <4>2. k \in Nat
        BY <1>4, <1>5
      <4>3. PICK l : l = Len(sbuf[c])
        OBVIOUS
      <4>4. k <= SndBuf - l /\ l \in Nat /\ SndBuf \in Nat /\ Len(s) = l + k
        BY <1>5, <3>3, <4>1, <4>3
      <4>5. l + k <= SndBuf
        BY ONLY <4>2, <4>4
      <4>. QED  BY ONLY <4>4, <4>5
    <3>5. sbuf \in [Client -> Seq(Reply)] /\ \A d \in Client : Len(sbuf[d]) <= SndBuf
      BY DEF EventInv, VariablesOK, ConnectionOK
    <3>. QED  BY <2>2, <3>2, <3>3, <3>4, <3>5
  <2>3. CASE Gone(c) /\ sbuf' = [sbuf EXCEPT ![c] = sbuf[c]]
    BY <2>3 DEF EventInv, VariablesOK, ConnectionOK
  <2>. QED  BY <1>2, <2>1, <2>2, <2>3
<1>8. Served(c) /\ faults' \in 0 .. MaxFaults
  <2>1. CASE (Fail(0) \/ Fail(1)) /\ CloseConnection(c)
    BY <1>3, <2>1, CloseServes, FailType
  <2>2. CASE /\ Fail(0) /\ ctx' = [ctx EXCEPT ![c] = y]
             /\ UNCHANGED <<conn, ready, active_connections>>
    BY <1>3, <1>6, <2>2, FailType DEF Served
  <2>3. CASE Fail(0) /\ Rearm(c, ResetContext(y), {"IN"})
    <3>1. GoodContext([ResetContext(y) EXCEPT !.interest = {"IN"}])
      BY <1>6, ResetGood
    <3>2. ctx' = [ctx EXCEPT ![c] = [ResetContext(y) EXCEPT !.interest = {"IN"}]]
          /\ ready' \subseteq ready \cup {c} /\ UNCHANGED <<conn, active_connections>>
      BY <2>3 DEF Rearm
    <3>. QED  BY <1>3, <2>3, <3>1, <3>2, FailType DEF Served
  <2>. QED  BY <1>2, <2>1, <2>2, <2>3
<1>9. batch' = Tail(batch)
  BY <1>1, EventOff
<1>10. rbuf' \in [Client -> Seq(Piece)]
  BY <1>1, <1>3 DEF VariablesOK
<1>. QED  BY <1>1, <1>7, <1>8, <1>9, <1>10, ServedStep

(* The event of the listening socket: there is a connection to accept, and *)
(* no other event for that socket.                                         *)
LEMMA HandleNewConnectionStep == EventInv /\ HandleNewConnection => EventInv'
<1>1. SUFFICES ASSUME EventInv, HandleNewConnection PROVE EventInv'
  OBVIOUS
<1>. USE <1>1 DEF EventInv
<1>. PICK c : c = Head(backlog)
  OBVIOUS
<1>2. /\ batch # <<>> /\ NextEvent.fd = Listener /\ batch' = Tail(batch)
      /\ UNCHANGED <<client, rbuf, sbuf, pc, timeout, g_stop>>
  BY DEF HandleNewConnection
<1>3. backlog # <<>>
  <2>1. batch \in Seq(Event) /\ NextEvent = batch[1] /\ 1 \in DOMAIN batch
    BY <1>2, TailOf DEF EventsOK, NextEvent
  <2>. QED  BY <1>2, <2>1, ShttpdAssumption DEF EventsOK, EventOK
<1>4. c = backlog[1] /\ c \in Client /\ conn[c] = "backlog"
      /\ DOMAIN backlog = 1 .. Len(backlog) /\ 1 \in DOMAIN backlog
  BY <1>3, TailOf DEF BacklogOK
<1>5. \/ Fail(1) /\ UNCHANGED <<backlog, conn, ctx, ready, active_connections>>
      \/ /\ (Fail(0) \/ Fail(1)) /\ backlog' = Tail(backlog)
         /\ \E s \in {"closed", "reset"} : conn' = [conn EXCEPT ![c] = s]
         /\ UNCHANGED <<ctx, ready, active_connections>>
      \/ /\ Fail(0) /\ backlog' = Tail(backlog)
         /\ conn' = [conn EXCEPT ![c] = "open"] /\ ctx' = [ctx EXCEPT ![c] = FreshContext]
         /\ ready' \subseteq ready \cup {c} /\ active_connections' = active_connections + 1
  BY DEF HandleNewConnection
<1>6. faults' \in 0 .. MaxFaults /\ conn \in [Client -> {"none", "backlog", "open", "closed", "reset"}]
  BY <1>5, FailType DEF VariablesOK
<1>7. /\ conn' \in [Client -> {"none", "backlog", "open", "closed", "reset"}]
      /\ \A d \in Client : d # c => conn'[d] = conn[d] /\ ctx'[d] = ctx[d]
      /\ \A d \in Client : conn[d] = "open" => conn'[d] = "open" /\ ctx'[d] = ctx[d]
      /\ \A d \in ready' : d \in Client /\ conn'[d] = "open"
  <2>1. ctx \in [Client -> Context] /\ \A d \in ready : d \in Client /\ conn[d] = "open"
    BY DEF VariablesOK, EventsOK
  <2>2. CASE UNCHANGED <<backlog, conn, ctx, ready, active_connections>>
    BY <1>6, <2>1, <2>2
  <2>3. ASSUME NEW s \in {"closed", "reset"}, conn' = [conn EXCEPT ![c] = s],
               UNCHANGED <<ctx, ready, active_connections>>
        PROVE  /\ conn' \in [Client -> {"none", "backlog", "open", "closed", "reset"}]
               /\ \A d \in Client : d # c => conn'[d] = conn[d] /\ ctx'[d] = ctx[d]
               /\ \A d \in Client : conn[d] = "open" => conn'[d] = "open" /\ ctx'[d] = ctx[d]
               /\ \A d \in ready' : d \in Client /\ conn'[d] = "open"
    BY <1>4, <1>6, <2>1, <2>3
  <2>4. CASE /\ conn' = [conn EXCEPT ![c] = "open"] /\ ctx' = [ctx EXCEPT ![c] = FreshContext]
             /\ ready' \subseteq ready \cup {c}
    BY <1>4, <1>6, <2>1, <2>4
  <2>. QED  BY <1>5, <2>2, <2>3, <2>4
<1>8. ctx' \in [Client -> Context] /\ \A d \in Client : GoodContext(ctx'[d])
  <2>1. CASE ctx' = ctx
    BY <2>1 DEF VariablesOK, ConnectionOK
  <2>2. CASE ctx' = [ctx EXCEPT ![c] = FreshContext]
    <3>. PICK x : x = FreshContext
      OBVIOUS
    <3>1. GoodContext(x) /\ x \in Context
      BY FreshGood DEF GoodContext
    <3>. QED  BY <1>4, <2>2, <3>1 DEF VariablesOK, ConnectionOK
  <2>. QED  BY <1>5, <2>1, <2>2
<1>9. VariablesOK'
  BY <1>2, <1>6, <1>7, <1>8 DEF VariablesOK
<1>10. \A d \in Client : ConnectionOK(d)'
  BY <1>2, <1>8 DEF ConnectionOK
<1>11. BacklogOK'
  <2>1. CASE UNCHANGED <<backlog, conn>>
    BY <2>1 DEF BacklogOK
  <2>2. CASE backlog' = Tail(backlog)
    <3>1. /\ backlog' \in Seq(Client)
          /\ DOMAIN backlog' = 1 .. Len(backlog')
          /\ \A k \in 1 .. Len(backlog') : k + 1 \in 1 .. Len(backlog)
               /\ backlog'[k] = backlog[k + 1] /\ k + 1 # 1
      BY <1>3, <2>2, TailOf DEF BacklogOK
    <3>2. ASSUME NEW k \in DOMAIN backlog'
          PROVE  /\ conn'[backlog'[k]] = "backlog"
                 /\ \A j \in DOMAIN backlog' : backlog'[k] = backlog'[j] => k = j
      <4>1. k + 1 \in DOMAIN backlog /\ backlog'[k] = backlog[k + 1] /\ k + 1 # 1
        BY <1>4, <3>1, <3>2
      <4>2. backlog[k + 1] # c /\ conn[backlog[k + 1]] = "backlog" /\ backlog[k + 1] \in Client
        BY <1>4, <4>1, ElementOfSeq DEF BacklogOK
      <4>3. conn'[backlog'[k]] = "backlog"
        BY <1>7, <4>1, <4>2
      <4>4. ASSUME NEW j \in DOMAIN backlog', backlog'[k] = backlog'[j] PROVE k = j
        <5>1. j + 1 \in DOMAIN backlog /\ backlog'[j] = backlog[j + 1]
          BY <1>4, <3>1, <4>4
        <5>2. k + 1 = j + 1 /\ k \in Nat /\ j \in Nat
          BY <3>1, <4>1, <4>4, <5>1 DEF BacklogOK
        <5>. QED  BY <5>2
      <4>. QED  BY <4>3, <4>4
    <3>. QED  BY <3>1, <3>2 DEF BacklogOK
  <2>. QED  BY <1>5, <2>1, <2>2
<1>12. EventsOK'
  <2>1. ready' \subseteq Client
    BY <1>7
  <2>. QED  BY <1>2, <1>7, <2>1, RestOfBatch
<1>13. CountOK'
  <2>1. CASE conn' = [conn EXCEPT ![c] = "open"] /\ active_connections' = active_connections + 1
    BY <1>4, <1>6, <2>1, OneOpens
  <2>2. CASE conn' = conn /\ active_connections' = active_connections
    BY <2>2, NoneChanges
  <2>3. ASSUME NEW s \in {"closed", "reset"}, conn' = [conn EXCEPT ![c] = s],
               active_connections' = active_connections
        PROVE  CountOK'
    <3>1. \A d \in Client : conn'[d] = "open" <=> conn[d] = "open"
      BY <1>4, <1>6, <2>3
    <3>. QED  BY <2>3, <3>1, NoneChanges
  <2>. QED  BY <1>5, <2>1, <2>2, <2>3
<1>. QED  BY <1>9, <1>10, <1>11, <1>12, <1>13

(* A step that leaves the batch and the contexts alone.                    *)
LEMMA EventsFrame ==
  ASSUME EventsOK, UNCHANGED <<batch, ctx>>, backlog # <<>> => backlog' # <<>>,
         \A d \in Client : conn[d] = "open" => conn'[d] = "open",
         \A d \in ready' : d \in Client /\ conn'[d] = "open"
  PROVE  EventsOK'
<1>1. ASSUME NEW i \in DOMAIN batch PROVE EventOK(batch[i])'
  <2>. PICK e : e = batch[i]
    OBVIOUS
  <2>1. EventOK(e)
    BY DEF EventsOK
  <2>. QED  BY <2>1 DEF EventOK
<1>. QED  BY <1>1 DEF EventsOK

(* The two steps of main() that only choose what comes next.               *)
LEMMA ChooseTimeoutStep == EventInv /\ (ChooseTimeout \/ Signal) => EventInv'
<1>1. SUFFICES ASSUME EventInv, ChooseTimeout \/ Signal PROVE EventInv'
  OBVIOUS
<1>. USE <1>1 DEF EventInv
<1>2. /\ UNCHANGED <<client, conn, rbuf, sbuf, ctx, backlog, ready, batch, active_connections, faults>>
      /\ pc' \in {"top", "wait", "batch", "exited"} /\ timeout' \in {-1, 100} /\ g_stop' \in BOOLEAN
  BY DEF ChooseTimeout, Signal, VariablesOK
<1>3. VariablesOK'
  BY <1>2 DEF VariablesOK
<1>4. \A c \in Client : ConnectionOK(c)'
  BY <1>2 DEF ConnectionOK
<1>5. BacklogOK' /\ CountOK'
  BY <1>2, NoneChanges DEF BacklogOK
<1>6. EventsOK'
  BY <1>2, EventsFrame DEF EventsOK
<1>. QED  BY <1>3, <1>4, <1>5, <1>6

(* epoll_wait() reports each connection once, and for the one thing it     *)
(* waits for.                                                              *)
LEMMA EpollWaitStep == EventInv /\ EpollWait => EventInv'
<1>1. SUFFICES ASSUME EventInv, EpollWait PROVE EventInv'
  OBVIOUS
<1>. USE <1>1 DEF EventInv
<1>2. /\ UNCHANGED <<client, conn, rbuf, sbuf, ctx, backlog, timeout, g_stop,
                     active_connections, faults>>
      /\ ready' = {} /\ pc' = "batch"
  BY DEF EpollWait
<1>3. batch' \in SetToSeqs(Events)
  BY DEF EpollWait
<1>4. \A c \in Reported : c \in Client /\ conn[c] = "open" /\ Flags(c) = ctx[c].interest
                          /\ ctx[c].interest \in {{"IN"}, {"OUT"}}
  <2>1. SUFFICES ASSUME NEW c \in Reported
                 PROVE  c \in Client /\ conn[c] = "open" /\ Flags(c) = ctx[c].interest
                        /\ ctx[c].interest \in {{"IN"}, {"OUT"}}
    OBVIOUS
  <2>2. c \in Client /\ conn[c] = "open" /\ Flags(c) # {} /\ Flags(c) \subseteq ctx[c].interest
    BY DEF Reported, EventsOK, Flags
  <2>3. ctx[c].interest \in {{"IN"}, {"OUT"}}
    BY <2>2 DEF ConnectionOK, GoodContext, Context
  <2>. QED  BY <2>2, <2>3
<1>5. \A e \in Events : /\ e \in Event /\ EventOK(e)
                        /\ \A d \in Events : e.fd = d.fd => e = d
  <2>1. \A e \in Events : \/ e = [fd |-> Listener, flags |-> {"IN"}] /\ backlog # <<>>
                          \/ \E c \in Reported : e = [fd |-> c, flags |-> Flags(c)]
    BY DEF Events
  <2>2. \A e \in Events : e \in Event /\ EventOK(e)
    BY <1>4, <2>1 DEF Event, EventOK
  <2>3. ASSUME NEW e \in Events, NEW d \in Events, e.fd = d.fd PROVE e = d
    <3>1. (e = [fd |-> Listener, flags |-> {"IN"}] /\ e.fd = Listener)
            \/ \E c \in Reported : e = [fd |-> c, flags |-> Flags(c)] /\ e.fd = c /\ c \in Client
      BY <1>4, <2>1
    <3>2. (d = [fd |-> Listener, flags |-> {"IN"}] /\ d.fd = Listener)
            \/ \E c \in Reported : d = [fd |-> c, flags |-> Flags(c)] /\ d.fd = c /\ c \in Client
      BY <1>4, <2>1
    <3>3. CASE e.fd = Listener
      BY <2>3, <3>1, <3>2, <3>3, ShttpdAssumption, Zenon
    <3>4. CASE e.fd # Listener
      <4>1. PICK c \in Reported : e = [fd |-> c, flags |-> Flags(c)] /\ e.fd = c
        BY <3>1, <3>4
      <4>2. PICK b \in Reported : d = [fd |-> b, flags |-> Flags(b)] /\ d.fd = b
        BY <2>3, <3>2, <3>4
      <4>3. b = c
        BY <2>3, <4>1, <4>2
      <4>. QED  BY <4>1, <4>2, <4>3, Zenon
    <3>. QED  BY <3>3, <3>4
  <2>. QED  BY <2>2, <2>3
<1>. PICK n : n = Cardinality(Events)
  OBVIOUS
<1>6. /\ batch' \in [1 .. n -> Events]
      /\ \A i, j \in 1 .. n : i # j => batch'[i] # batch'[j]
  BY <1>3, Zenon DEF SetToSeqs
<1>7. n \in Nat
  <2>1. IsFiniteSet(Reported)
    BY <1>4, ShttpdAssumption, FS_Subset DEF Reported
  <2>2. IsFiniteSet({[fd |-> c, flags |-> Flags(c)] : c \in Reported})
    <3>. DEFINE T == {[fd |-> c, flags |-> Flags(c)] : c \in Reported}
    <3>. PICK f : f = [c \in Reported |-> [fd |-> c, flags |-> Flags(c)]]
      OBVIOUS
    <3>1. f \in Surjection(Reported, T)
      BY DEF Surjection
    <3>. QED  BY <2>1, <3>1, FS_Surjection
  <2>3. IsFiniteSet(IF backlog = <<>> THEN {} ELSE {[fd |-> Listener, flags |-> {"IN"}]})
    BY FS_EmptySet, FS_Singleton
  <2>4. IsFiniteSet(Events)
    BY <2>2, <2>3, FS_Union DEF Events
  <2>. QED  BY <2>4, FS_CardinalityType
<1>8. batch' \in Seq(Event) /\ DOMAIN batch' = 1 .. n
  BY <1>5, <1>6, <1>7
<1>9. EventsOK'
  <2>1. ASSUME NEW i \in DOMAIN batch'
        PROVE  /\ EventOK(batch[i])'
               /\ \A j \in DOMAIN batch' : batch'[i].fd = batch'[j].fd => i = j
    <3>. PICK e : e = batch'[i]
      OBVIOUS
    <3>1. EventOK(e)
      BY <1>5, <1>6, <1>8, <2>1
    <3>2. EventOK(batch[i])'
      BY <1>2, <3>1 DEF EventOK
    <3>. QED  BY <1>5, <1>6, <1>8, <3>2
  <2>. QED  BY <1>2, <1>8, <2>1 DEF EventsOK
<1>10. VariablesOK'
  BY <1>2 DEF VariablesOK
<1>11. \A c \in Client : ConnectionOK(c)'
  BY <1>2 DEF ConnectionOK
<1>12. BacklogOK' /\ CountOK'
  BY <1>2, NoneChanges DEF BacklogOK
<1>. QED  BY <1>9, <1>10, <1>11, <1>12

(* The server exits when no connection is open.                            *)
LEMMA BatchDoneStep == EventInv /\ BatchDone => EventInv'
<1>1. SUFFICES ASSUME EventInv, BatchDone PROVE EventInv'
  OBVIOUS
<1>. USE <1>1 DEF EventInv
<1>2. /\ batch = <<>> /\ UNCHANGED <<client, rbuf, sbuf, ctx, ready, batch, timeout, g_stop,
                                     active_connections, faults>>
      /\ \/ /\ pc' = "exited" /\ backlog' = <<>>
            /\ conn' = [c \in Client |-> IF conn[c] = "backlog" THEN "reset" ELSE conn[c]]
         \/ pc' = "top" /\ UNCHANGED <<backlog, conn>>
  BY DEF BatchDone
<1>3. conn \in [Client -> {"none", "backlog", "open", "closed", "reset"}]
  BY DEF VariablesOK
<1>4. /\ conn' \in [Client -> {"none", "backlog", "open", "closed", "reset"}]
      /\ \A d \in Client : conn'[d] = "open" <=> conn[d] = "open"
  BY <1>2, <1>3
<1>5. VariablesOK'
  BY <1>2, <1>4 DEF VariablesOK
<1>6. \A c \in Client : ConnectionOK(c)'
  BY <1>2 DEF ConnectionOK
<1>7. BacklogOK'
  <2>1. CASE backlog' = <<>>
    <3>1. backlog' \in Seq(Client) /\ DOMAIN backlog' = {}
      BY <2>1
    <3>. QED  BY <3>1 DEF BacklogOK
  <2>2. CASE UNCHANGED <<backlog, conn>>
    BY <2>2 DEF BacklogOK
  <2>. QED  BY <1>2, <2>1, <2>2
<1>8. EventsOK'
  BY <1>2, <1>4 DEF EventsOK
<1>9. CountOK'
  BY <1>2, <1>4, NoneChanges
<1>. QED  BY <1>5, <1>6, <1>7, <1>8, <1>9

-----------------------------------------------------------------------------
(* The clients. *)

(* A client makes a step: contexts and events stay.                        *)
LEMMA ClientStep ==
  ASSUME EventInv, UNCHANGED <<ctx, batch, timeout, pc, g_stop, active_connections, faults>>,
         client' \in [Client -> [open : BOOLEAN, asked : Seq(Request), left : Nat, got : Seq(Reply)]],
         rbuf' \in [Client -> Seq(Piece)], sbuf' \in [Client -> Seq(Reply)],
         \A d \in Client : /\ Len(sbuf'[d]) <= SndBuf
                           /\ client'[d].left > 0 => client'[d].asked # <<>>,
         \A d \in ready' : d \in Client /\ conn[d] = "open", UNCHANGED <<conn, backlog>>
  PROVE  EventInv'
<1>. USE DEF EventInv
<1>1. VariablesOK'
  BY DEF VariablesOK
<1>2. \A d \in Client : ConnectionOK(d)'
  BY DEF ConnectionOK
<1>3. BacklogOK' /\ CountOK'
  BY NoneChanges DEF BacklogOK
<1>4. EventsOK'
  BY EventsFrame
<1>. QED  BY <1>1, <1>2, <1>3, <1>4

(* A connection enters the backlog.                                        *)
LEMMA ConnectStep ==
  ASSUME EventInv, NEW c \in Client, Connect(c)
  PROVE  EventInv'
<1>. USE DEF EventInv
<1>1. /\ conn[c] = "none" /\ conn' = [conn EXCEPT ![c] = "backlog"]
      /\ backlog' = Append(backlog, c)
      /\ UNCHANGED <<client, rbuf, sbuf, ctx, ready, batch, pc, timeout, g_stop,
                     active_connections, faults>>
  BY DEF Connect
<1>2. conn \in [Client -> {"none", "backlog", "open", "closed", "reset"}]
  BY DEF VariablesOK
<1>3. /\ conn' \in [Client -> {"none", "backlog", "open", "closed", "reset"}]
      /\ \A d \in Client : d # c => conn'[d] = conn[d]
      /\ \A d \in Client : conn'[d] = "open" <=> conn[d] = "open"
  BY <1>1, <1>2
<1>4. VariablesOK'
  BY <1>1, <1>3 DEF VariablesOK
<1>5. \A d \in Client : ConnectionOK(d)'
  BY <1>1 DEF ConnectionOK
<1>6. /\ backlog' \in Seq(Client) /\ backlog \in Seq(Client) /\ Len(backlog) \in Nat
      /\ DOMAIN backlog = 1 .. Len(backlog) /\ DOMAIN backlog' = 1 .. Len(backlog) + 1
      /\ backlog'[Len(backlog) + 1] = c
      /\ \A k \in 1 .. Len(backlog) : backlog'[k] = backlog[k]
      /\ \A k \in 1 .. Len(backlog) + 1 : k \in 1 .. Len(backlog) \/ k = Len(backlog) + 1
  BY <1>1, AppendOf DEF BacklogOK
<1>7. \A k \in 1 .. Len(backlog) : backlog[k] \in Client /\ conn[backlog[k]] = "backlog"
  BY <1>6, ElementOfSeq DEF BacklogOK
<1>8. BacklogOK'
  <2>1. ASSUME NEW i \in DOMAIN backlog' PROVE conn'[backlog'[i]] = "backlog"
    BY <1>1, <1>2, <1>3, <1>6, <1>7
  <2>2. ASSUME NEW i \in DOMAIN backlog', NEW j \in DOMAIN backlog', backlog'[i] = backlog'[j]
        PROVE  i = j
    <3>1. \A k \in 1 .. Len(backlog) : backlog'[k] # c
      BY <1>1, <1>6, <1>7
    <3>2. CASE i \in 1 .. Len(backlog) /\ j \in 1 .. Len(backlog)
      BY <1>6, <2>2, <3>2 DEF BacklogOK
    <3>. QED  BY <1>6, <2>2, <3>1, <3>2
  <2>. QED  BY <1>6, <2>1, <2>2 DEF BacklogOK
<1>9. EventsOK'
  <2>1. backlog' # <<>>
    <3>1. 1 \in DOMAIN backlog'
      BY <1>6
    <3>. QED  BY <3>1
  <2>. QED  BY <1>1, <1>3, <2>1, EventsFrame DEF EventsOK
<1>10. CountOK'
  BY <1>1, <1>3, NoneChanges
<1>. QED  BY <1>4, <1>5, <1>8, <1>9, <1>10

(* A piece of a request arrives.                                           *)
LEMMA ArriveType ==
  ASSUME EventInv, NEW c \in Client, NEW req \in Request, NEW left, Arrive(c, req, left)
  PROVE  /\ rbuf' \in [Client -> Seq(Piece)]
         /\ \A d \in ready' : d \in Client /\ conn[d] = "open"
         /\ UNCHANGED <<conn, sbuf, ctx, backlog, batch, pc, timeout, g_stop,
                        active_connections, faults>>
<1>. PICK last \in BOOLEAN : last = (left = 0 /\ req # Long)
  OBVIOUS
<1>. PICK piece : piece = [req |-> req, last |-> last]
  OBVIOUS
<1>1. piece \in Piece
  BY DEF Piece
<1>2. rbuf' = [rbuf EXCEPT ![c] = Append(rbuf[c], piece)]
  BY DEF Arrive
<1>3. rbuf \in [Client -> Seq(Piece)] /\ rbuf[c] \in Seq(Piece)
  BY DEF EventInv, VariablesOK
<1>4. Append(rbuf[c], piece) \in Seq(Piece)
  BY <1>1, <1>3, AppendProperties
<1>5. rbuf' \in [Client -> Seq(Piece)]
  BY <1>2, <1>3, <1>4
<1>6. \A d \in ready' : d \in Client /\ conn[d] = "open"
  BY DEF Arrive, EventInv, EventsOK
<1>. QED  BY <1>5, <1>6 DEF Arrive

ClientRecord == [open : BOOLEAN, asked : Seq(Request), left : Nat, got : Seq(Reply)]

(* What the invariant says of a client and its sockets.                    *)
LEMMA ClientKept ==
  ASSUME EventInv
  PROVE  /\ client \in [Client -> ClientRecord]
         /\ sbuf \in [Client -> Seq(Reply)] /\ rbuf \in [Client -> Seq(Piece)]
         /\ \A d \in Client : /\ Len(sbuf[d]) <= SndBuf
                              /\ client[d].left > 0 => client[d].asked # <<>>
         /\ \A d \in ready : d \in Client /\ conn[d] = "open"
BY DEF EventInv, VariablesOK, ConnectionOK, EventsOK, ClientRecord

(* The record of one client changes.                                       *)
LEMMA ClientChanged ==
  ASSUME EventInv, NEW c \in Client, NEW r \in ClientRecord, r.left > 0 => r.asked # <<>>,
         client' = [client EXCEPT ![c] = r]
  PROVE  /\ client' \in [Client -> [open : BOOLEAN, asked : Seq(Request), left : Nat, got : Seq(Reply)]]
         /\ \A d \in Client : client'[d].left > 0 => client'[d].asked # <<>>
<1>1. client \in [Client -> ClientRecord]
      /\ \A d \in Client : client[d].left > 0 => client[d].asked # <<>>
  BY ClientKept
<1>2. client' \in [Client -> ClientRecord] /\ client'[c] = r
      /\ \A d \in Client : d # c => client'[d] = client[d]
  BY <1>1
<1>3. \A d \in Client : client'[d].left > 0 => client'[d].asked # <<>>
  BY <1>1, <1>2
<1>. QED  BY <1>2, <1>3 DEF ClientRecord

(* A client begins a request.                                              *)
LEMMA AskStep ==
  ASSUME EventInv, NEW c \in Client, Ask(c)
  PROVE  EventInv'
<1>1. PICK r \in Requests[c] :
        /\ client' = [client EXCEPT ![c].asked = Append(client[c].asked, r), ![c].left = Pieces(r) - 1]
        /\ Arrive(c, r, Pieces(r) - 1)
  BY DEF Ask
<1>. PICK v : v = client[c]
  OBVIOUS
<1>. PICK asked : asked = Append(v.asked, r)
  OBVIOUS
<1>. PICK w : w = [v EXCEPT !.asked = asked, !.left = Pieces(r) - 1]
  OBVIOUS
<1>2. r \in Request /\ Pieces(r) - 1 \in Nat
  BY ShttpdAssumption DEF Pieces
<1>3. v \in ClientRecord
  BY ClientKept
<1>4. asked \in Seq(Request) /\ asked # <<>>
  <2>1. v.asked \in Seq(Request)
    BY <1>3 DEF ClientRecord
  <2>. QED  BY <1>2, <2>1, AppendProperties
<1>5. w \in ClientRecord /\ w.asked = asked
  BY <1>2, <1>3, <1>4 DEF ClientRecord
<1>6. client' = [client EXCEPT ![c] = w]
  BY <1>1, ClientKept
<1>7. /\ client' \in [Client -> [open : BOOLEAN, asked : Seq(Request), left : Nat, got : Seq(Reply)]]
      /\ \A d \in Client : client'[d].left > 0 => client'[d].asked # <<>>
  BY <1>4, <1>5, <1>6, ClientChanged
<1>8. /\ rbuf' \in [Client -> Seq(Piece)]
      /\ \A d \in ready' : d \in Client /\ conn[d] = "open"
      /\ UNCHANGED <<conn, sbuf, ctx, backlog, batch, pc, timeout, g_stop,
                     active_connections, faults>>
  BY <1>1, <1>2, ArriveType
<1>. QED  BY <1>7, <1>8, ClientKept, ClientStep

(* It goes on with it.                                                     *)
LEMMA SendPieceStep ==
  ASSUME EventInv, NEW c \in Client, SendPiece(c)
  PROVE  EventInv'
<1>. PICK v : v = client[c]
  OBVIOUS
<1>1. /\ v.left > 0 /\ client' = [client EXCEPT ![c].left = v.left - 1]
      /\ Arrive(c, Last(v.asked), v.left - 1)
  BY ClientKept DEF SendPiece
<1>. PICK w : w = [v EXCEPT !.left = v.left - 1]
  OBVIOUS
<1>2. v \in ClientRecord /\ v.asked # <<>> /\ v.asked \in Seq(Request) /\ v.left \in Nat
  BY <1>1, ClientKept DEF ClientRecord
<1>3. Last(v.asked) \in Request
  <2>1. Len(v.asked) \in DOMAIN v.asked
    BY <1>2, LenProperties, EmptySeq
  <2>. QED  BY <1>2, <2>1, ElementOfSeq, LenProperties DEF Last
<1>4. w \in ClientRecord /\ w.asked = v.asked
  BY <1>1, <1>2 DEF ClientRecord
<1>5. client' = [client EXCEPT ![c] = w]
  BY <1>1, ClientKept
<1>6. /\ client' \in [Client -> [open : BOOLEAN, asked : Seq(Request), left : Nat, got : Seq(Reply)]]
      /\ \A d \in Client : client'[d].left > 0 => client'[d].asked # <<>>
  BY <1>2, <1>4, <1>5, ClientChanged
<1>7. /\ rbuf' \in [Client -> Seq(Piece)]
      /\ \A d \in ready' : d \in Client /\ conn[d] = "open"
      /\ UNCHANGED <<conn, sbuf, ctx, backlog, batch, pc, timeout, g_stop,
                     active_connections, faults>>
  BY <1>1, <1>3, ArriveType
<1>. QED  BY <1>6, <1>7, ClientKept, ClientStep

(* It takes a piece of a response.                                         *)
LEMMA ReceiveStep ==
  ASSUME EventInv, NEW c \in Client, Receive(c)
  PROVE  EventInv'
<1>. PICK v, s : v = client[c] /\ s = sbuf[c]
  OBVIOUS
<1>. PICK got, t : got = Append(v.got, Head(s)) /\ t = Tail(s)
  OBVIOUS
<1>. PICK w : w = [v EXCEPT !.got = got]
  OBVIOUS
<1>1. /\ s # <<>> /\ client' = [client EXCEPT ![c].got = got] /\ sbuf' = [sbuf EXCEPT ![c] = t]
      /\ ready' = ready \/ (conn[c] = "open" /\ ready' = ready \cup {c})
      /\ UNCHANGED <<conn, rbuf, ctx, backlog, batch, pc, timeout, g_stop,
                     active_connections, faults>>
  BY ClientKept DEF Receive
<1>2. v \in ClientRecord /\ v.got \in Seq(Reply) /\ s \in Seq(Reply)
      /\ (v.left > 0 => v.asked # <<>>) /\ Len(s) <= SndBuf
  BY ClientKept DEF ClientRecord
<1>3. t \in Seq(Reply) /\ Head(s) \in Reply /\ Len(t) = Len(s) - 1 /\ Len(s) \in Nat
  BY <1>1, <1>2, TailOf
<1>4. got \in Seq(Reply)
  BY <1>2, <1>3, AppendProperties
<1>5. w \in ClientRecord /\ w.asked = v.asked /\ w.left = v.left
  BY <1>2, <1>4 DEF ClientRecord
<1>6. client' = [client EXCEPT ![c] = w]
  BY <1>1, ClientKept
<1>7. /\ client' \in [Client -> [open : BOOLEAN, asked : Seq(Request), left : Nat, got : Seq(Reply)]]
      /\ \A d \in Client : client'[d].left > 0 => client'[d].asked # <<>>
  BY <1>2, <1>5, <1>6, ClientChanged
<1>8. sbuf' \in [Client -> Seq(Reply)] /\ \A d \in Client : Len(sbuf'[d]) <= SndBuf
  <2>1. Len(t) <= SndBuf
    BY <1>2, <1>3, ShttpdAssumption
  <2>. QED  BY <1>1, <1>3, <2>1, ClientKept
<1>9. rbuf' \in [Client -> Seq(Piece)] /\ \A d \in ready' : d \in Client /\ conn[d] = "open"
  BY <1>1, ClientKept
<1>. QED  BY <1>1, <1>7, <1>8, <1>9, ClientStep

(* It closes its end.                                                      *)
LEMMA LeaveStep ==
  ASSUME EventInv, NEW c \in Client, Leave(c)
  PROVE  EventInv'
<1>. PICK w : w = [Stranger EXCEPT !.open = FALSE]
  OBVIOUS
<1>1. /\ client' = [client EXCEPT ![c] = w] /\ sbuf' = [sbuf EXCEPT ![c] = <<>>]
      /\ ready' = ready \/ (conn[c] = "open" /\ ready' = ready \cup {c})
      /\ UNCHANGED <<conn, rbuf, ctx, backlog, batch, pc, timeout, g_stop,
                     active_connections, faults>>
  BY DEF Leave
<1>2. w \in ClientRecord /\ (w.left > 0 => w.asked # <<>>)
  <2>. <<>> \in Seq(Request)
    OBVIOUS
  <2>. <<>> \in Seq(Reply)
    OBVIOUS
  <2>. PICK e : e = <<>>
    OBVIOUS
  <2>. PICK z : z = Stranger
    OBVIOUS
  <2>1. z \in ClientRecord /\ z.left = 0
    <3>1. z = [open |-> TRUE, asked |-> e, left |-> 0, got |-> e]
      BY DEF Stranger
    <3>. QED  BY <3>1 DEF ClientRecord
  <2>2. w = [z EXCEPT !.open = FALSE]
    OBVIOUS
  <2>3. w \in ClientRecord /\ w.left = 0
    BY <2>1, <2>2 DEF ClientRecord
  <2>. QED  BY <2>3
<1>3. /\ client' \in [Client -> [open : BOOLEAN, asked : Seq(Request), left : Nat, got : Seq(Reply)]]
      /\ \A d \in Client : client'[d].left > 0 => client'[d].asked # <<>>
  BY <1>1, <1>2, ClientChanged
<1>4. sbuf' \in [Client -> Seq(Reply)] /\ \A d \in Client : Len(sbuf'[d]) <= SndBuf
  <2>1. <<>> \in Seq(Reply) /\ Len(<<>>) <= SndBuf
    BY ShttpdAssumption
  <2>. QED  BY <1>1, <2>1, ClientKept
<1>5. rbuf' \in [Client -> Seq(Piece)] /\ \A d \in ready' : d \in Client /\ conn[d] = "open"
  BY <1>1, ClientKept
<1>. QED  BY <1>1, <1>3, <1>4, <1>5, ClientStep

-----------------------------------------------------------------------------
(* The invariant. *)

(* The invariant of the event loop holds at first ...                      *)
LEMMA InitHolds == Init => EventInv
<1>1. SUFFICES ASSUME Init PROVE EventInv
  OBVIOUS
<1>. USE <1>1 DEF Init
<1>2. FreshContext \in Context /\ GoodContext(FreshContext)
  BY FreshGood DEF GoodContext
<1>3. VariablesOK
  <2>. <<>> \in Seq(Request)
    OBVIOUS
  <2>. <<>> \in Seq(Reply)
    OBVIOUS
  <2>. <<>> \in Seq(Piece)
    OBVIOUS
  <2>. PICK e : e = <<>>
    OBVIOUS
  <2>1. Stranger \in [open : BOOLEAN, asked : Seq(Request), left : Nat, got : Seq(Reply)]
    <3>1. Stranger = [open |-> TRUE, asked |-> e, left |-> 0, got |-> e]
      BY DEF Stranger
    <3>. QED  BY <3>1
  <2>2. client \in [Client -> [open : BOOLEAN, asked : Seq(Request), left : Nat, got : Seq(Reply)]]
    BY <2>1
  <2>3. rbuf \in [Client -> Seq(Piece)] /\ sbuf \in [Client -> Seq(Reply)]
    OBVIOUS
  <2>4. ctx \in [Client -> Context]
    BY <1>2
  <2>5. /\ conn \in [Client -> {"none", "backlog", "open", "closed", "reset"}]
        /\ pc \in {"top", "wait", "batch", "exited"} /\ timeout \in {-1, 100}
        /\ g_stop \in BOOLEAN /\ faults \in 0 .. MaxFaults
    <3>1. conn \in [Client -> {"none", "backlog", "open", "closed", "reset"}]
      OBVIOUS
    <3>2. MaxFaults \in Nat
      BY ShttpdAssumption
    <3>3. faults \in 0 .. MaxFaults
      BY <3>2
    <3>4. pc \in {"top", "wait", "batch", "exited"} /\ g_stop \in BOOLEAN
      OBVIOUS
    <3>5. timeout \in {-1, 100}
      OBVIOUS
    <3>. QED  BY <3>1, <3>3, <3>4, <3>5
  <2>. QED  BY <2>2, <2>3, <2>4, <2>5 DEF VariablesOK
<1>4. \A c \in Client : ConnectionOK(c)
  BY <1>2, ShttpdAssumption DEF ConnectionOK, Stranger
<1>5. BacklogOK /\ EventsOK
  BY DEF BacklogOK, EventsOK
<1>6. CountOK
  <2>1. {c \in Client : conn[c] = "open"} = {}
    OBVIOUS
  <2>. QED  BY <2>1, FS_EmptySet DEF CountOK
<1>. QED  BY <1>3, <1>4, <1>5, <1>6 DEF EventInv

(* ... and after every step.                                               *)
LEMMA NextHolds == EventInv /\ [Next]_vars => EventInv'
<1>1. EventInv /\ Server => EventInv'
  BY ChooseTimeoutStep, EpollWaitStep, BatchDoneStep, HandleNewConnectionStep,
     HandleEpollinStep, HandleEpolloutStep DEF Server
<1>2. EventInv /\ Clients => EventInv'
  BY ConnectStep, AskStep, SendPieceStep, ReceiveStep, LeaveStep DEF Clients
<1>3. EventInv /\ UNCHANGED vars => EventInv'
  <2>1. SUFFICES ASSUME EventInv, UNCHANGED vars PROVE EventInv'
    OBVIOUS
  <2>2. UNCHANGED <<client, conn, rbuf, sbuf, ctx, backlog, ready, batch, pc, timeout,
                    g_stop, active_connections, faults>>
    BY <2>1 DEF vars
  <2>3. \A d \in ready' : d \in Client /\ conn[d] = "open"
    BY <2>1, <2>2, ClientKept
  <2>. QED  BY <2>1, <2>2, <2>3, ClientKept, ClientStep DEF ClientRecord
<1>. QED  BY <1>1, <1>2, <1>3, ChooseTimeoutStep DEF Next

(* The invariant of the event loop, for every number of clients and all    *)
(* that they may request.                                                  *)
THEOREM EventInvariant == Spec => []EventInv
BY InitHolds, NextHolds, PTL DEF Spec

(* No event names a context that was freed, and active_connections is the  *)
(* number of contexts (main(), handle_epollin(), handle_epollout()).       *)
THEOREM NeverFreedContext == Spec => []NoFreedContext
<1>1. EventInv => NoFreedContext
  <2>1. SUFFICES ASSUME EventInv PROVE NoFreedContext
    OBVIOUS
  <2>2. TypeOK
    <3>1. \A c \in Client : /\ Len(sbuf[c]) <= SndBuf
                            /\ Len(ctx[c].read_buffer) <= MaxHdr
                            /\ ctx[c].header_sent \in 0..HeaderLen
                            /\ ctx[c].file_remain \in Nat
                            /\ ctx[c].interest \subseteq {"IN", "OUT"}
      BY <2>1 DEF EventInv, ConnectionOK, GoodContext, Context
    <3>. QED  BY <2>1, <3>1 DEF EventInv, VariablesOK, EventsOK, CountOK, TypeOK
  <2>. QED  BY <2>1, <2>2 DEF NoFreedContext, EventInv, EventsOK, EventOK
<1>. QED  BY <1>1, EventInvariant, PTL
-----------------------------------------------------------------------------
(* Induction. *)

(* Every non-empty set of naturals has a least element.                    *)
LEMMA LeastOf ==
  ASSUME NEW T, T \subseteq Nat, T # {}
  PROVE  \E x \in T : \A y \in T : x <= y
<1>1. IsWellFoundedOn({ss \in Nat \X Nat : ss[1] < ss[2]}, Nat)
  BY NatLessThanWellFounded DEF OpToRel
<1>2. PICK x \in T :
        \A y \in T : ~(<<y, x>> \in {ss \in Nat \X Nat : ss[1] < ss[2]})
  BY <1>1, WFMin
<1>3. \A y \in T : /\ <<y, x>> \in Nat \X Nat
                   /\ <<y, x>>[1] = y /\ <<y, x>>[2] = x
  OBVIOUS
<1>4. \A y \in T : ~ (y < x)
  BY <1>2, <1>3
<1>. QED  BY <1>4

(* A set with m, and with i + 1 if it has i < n, has every i from m to n.  *)
LEMMA Through ==
  ASSUME NEW m \in Nat, NEW n \in Nat, NEW T, m <= n => m \in T,
         \A i \in m .. (n - 1) : i \in T => i + 1 \in T
  PROVE  \A i \in m .. n : i \in T
<1>. DEFINE M == (m .. n) \ T
<1>1. SUFFICES ASSUME M # {} PROVE FALSE
  OBVIOUS
<1>2. PICK x \in M : \A y \in M : x <= y
  <2>1. M \subseteq Nat
    OBVIOUS
  <2>. HIDE DEF M
  <2>. QED  BY <1>1, <2>1, LeastOf
<1>3. x \in Nat /\ x # m /\ x - 1 \in m .. (n - 1) /\ (x - 1) + 1 = x /\ ~ x <= x - 1
  BY <1>2
<1>. QED  BY <1>2, <1>3

-----------------------------------------------------------------------------
(* Responses one after the other. *)

(* What Seen and Response make of the pieces of a response.                *)
Shown == ({"header"} \cup DOMAIN Files) \X Code \X Nat

Parts == Seq(Seq(Shown))

(* f[i] is what the first i responses of s have.                           *)
IsFold(f, s) ==
  f = [i \in 1 .. Len(s) |-> IF i = 1 THEN s[i] ELSE f[i - 1] \o s[i]]

FoldsTo(f, s, n) ==
  /\ f \in [1 .. n -> Seq(Shown)]
  /\ \A i \in 1 .. n : f[i] = IF i = 1 THEN s[i] ELSE f[i - 1] \o s[i]

(* What the library's theorems say of a sequence of responses.             *)
LEMMA PartFacts ==
  ASSUME NEW s \in Parts
  PROVE  /\ Len(s) \in Nat /\ DOMAIN s = 1 .. Len(s) /\ \A i \in 1 .. Len(s) : s[i] \in Seq(Shown)
         /\ s = <<>> <=> Len(s) = 0
         /\ s # <<>> => Len(s) \in 1 .. Len(s) /\ 1 \in 1 .. Len(s)
<1>1. /\ Len(s) \in Nat /\ DOMAIN s = 1 .. Len(s) /\ \A i \in 1 .. Len(s) : s[i] \in Seq(Shown)
  BY DEF Parts
<1>2. s = <<>> <=> Len(s) = 0
  BY EmptySeq DEF Parts
<1>. QED  BY <1>1, <1>2

(* The empty sequence, which is no pieces and no responses.                *)
LEMMA NoPieces == <<>> \in Seq(Shown) /\ <<>> \in Parts /\ Len(<<>>) = 0
BY EmptySeq DEF Parts

(* A fold over a sequence exists, built one element at a time.             *)
LEMMA FoldExists ==
  ASSUME NEW s \in Parts
  PROVE  \E f : FoldsTo(f, s, Len(s))
<1>. PICK n : n = Len(s) /\ n \in Nat
  BY PartFacts
<1>. DEFINE T == {m \in Nat : \E f : FoldsTo(f, s, m)}
<1>1. 0 \in T
  <2>. DEFINE h == [i \in 1 .. 0 |-> <<>>]
  <2>1. \A i \in 1 .. 0 : FALSE
    OBVIOUS
  <2>2. FoldsTo(h, s, 0)
    BY <2>1 DEF FoldsTo
  <2>. QED  BY <2>2
<1>2. ASSUME NEW m \in 0 .. (n - 1), m \in T PROVE m + 1 \in T
  <2>1. PICK g : FoldsTo(g, s, m)
    BY <1>2
  <2>. DEFINE x == IF m = 0 THEN s[m + 1] ELSE g[m] \o s[m + 1]
              h == [i \in 1 .. (m + 1) |-> IF i = m + 1 THEN x ELSE g[i]]
  <2>2. m \in Nat /\ (m # 0 => m \in 1 .. m) /\ m + 1 \in 1 .. Len(s) /\ (m + 1 = 1 <=> m = 0)
        /\ (m + 1) - 1 = m
    OBVIOUS
  <2>3. s[m + 1] \in Seq(Shown)
    BY <2>2, PartFacts
  <2>4. g \in [1 .. m -> Seq(Shown)]
    BY <2>1 DEF FoldsTo
  <2>5. x \in Seq(Shown)
    <3>1. m # 0 => g[m] \in Seq(Shown)
      BY <2>2, <2>4
    <3>. QED  BY <2>3, <3>1, ConcatProperties
  <2>. HIDE DEF x
  <2>6. \A i \in 1 .. (m + 1) : i = m + 1 \/ i \in 1 .. m
    BY <2>2
  <2>7. h \in [1 .. (m + 1) -> Seq(Shown)]
    BY <2>4, <2>5, <2>6
  <2>8. ASSUME NEW i \in 1 .. (m + 1)
        PROVE  h[i] = IF i = 1 THEN s[i] ELSE h[i - 1] \o s[i]
    <3>1. CASE i = m + 1
      <4>1. h[i] = x
        BY <3>1
      <4>2. m # 0 => h[m] = g[m]
        BY <2>2
      <4>. QED  BY <2>2, <3>1, <4>1, <4>2 DEF x
    <3>2. CASE i # m + 1
      <4>1. i \in 1 .. m /\ (i # 1 => i - 1 \in 1 .. (m + 1) /\ i - 1 # m + 1)
        BY <2>2, <3>2
      <4>2. h[i] = g[i] /\ (i # 1 => h[i - 1] = g[i - 1])
        BY <3>2, <4>1
      <4>3. g[i] = IF i = 1 THEN s[i] ELSE g[i - 1] \o s[i]
        BY <2>1, <4>1, Zenon DEF FoldsTo
      <4>. QED  BY <4>2, <4>3
    <3>. QED  BY <3>1, <3>2
  <2>. HIDE DEF h
  <2>9. FoldsTo(h, s, m + 1)
    BY <2>7, <2>8 DEF FoldsTo
  <2>. QED  BY <2>2, <2>9
<1>. HIDE DEF T
<1>3. \A i \in 0 .. n : i \in T
  BY <1>1, <1>2, Through
<1>4. n \in T
  BY <1>3
<1>. QED  BY <1>4 DEF T

(* Two sequences that begin alike have the same pieces as far.             *)
LEMMA FoldsAgree ==
  ASSUME NEW s, NEW t, NEW f, NEW g, NEW m \in Nat, NEW n \in Nat, NEW k \in Nat, k <= m, k <= n,
         FoldsTo(f, s, m), FoldsTo(g, t, n), \A i \in 1 .. k : s[i] = t[i]
  PROVE  \A i \in 1 .. k : f[i] = g[i]
<1>. DEFINE T == {i \in 1 .. k : f[i] = g[i]}
<1>0. ASSUME 1 <= k PROVE f[1] = s[1] /\ g[1] = t[1] /\ s[1] = t[1] /\ 1 \in 1 .. k
  <2>1. 1 \in 1 .. m /\ 1 \in 1 .. n /\ 1 \in 1 .. k
    BY <1>0
  <2>. QED  BY <2>1, Zenon DEF FoldsTo
<1>1. 1 <= k => 1 \in T
  BY <1>0
<1>2. ASSUME NEW i \in 1 .. (k - 1), i \in T PROVE i + 1 \in T
  <2>1. i + 1 \in 1 .. k /\ i + 1 \in 1 .. m /\ i + 1 \in 1 .. n /\ i + 1 # 1 /\ (i + 1) - 1 = i
    OBVIOUS
  <2>2. f[i + 1] = f[i] \o s[i + 1] /\ g[i + 1] = g[i] \o t[i + 1]
    BY <2>1 DEF FoldsTo
  <2>3. f[i] = g[i]
    BY <1>2
  <2>. QED  BY <2>1, <2>2, <2>3
<1>. HIDE DEF T
<1>3. \A i \in 1 .. k : i \in T
  BY <1>1, <1>2, Through
<1>. QED  BY <1>3 DEF T

(* No responses have no pieces.                                            *)
LEMMA FlattenEmpty == FlattenSeq(<<>>) = <<>>
BY DEF FlattenSeq

(* FlattenSeq is the end of such a fold.                                   *)
LEMMA FlattenFold ==
  ASSUME NEW s \in Parts, s # <<>>, NEW f, FoldsTo(f, s, Len(s))
  PROVE  FlattenSeq(s) = f[Len(s)]
<1>. DEFINE g == CHOOSE g : IsFold(g, s)
<1>0. Len(s) \in Nat /\ Len(s) # 0 /\ Len(s) \in 1 .. Len(s)
  BY PartFacts, EmptySeq DEF Parts
<1>1. \E h : IsFold(h, s)
  <2>1. f = [i \in 1 .. Len(s) |-> IF i = 1 THEN s[i] ELSE f[i - 1] \o s[i]]
    BY Zenon DEF FoldsTo
  <2>. QED  BY <2>1, Zenon DEF IsFold
<1>2. IsFold(g, s)
  BY <1>1, Zenon
<1>3. FlattenSeq(s) = g[Len(s)]
  BY <1>0, Zenon DEF FlattenSeq, IsFold
<1>. HIDE DEF g
<1>4. \A i \in 1 .. Len(s) : g[i] = IF i = 1 THEN s[i] ELSE g[i - 1] \o s[i]
  BY <1>2, Zenon DEF IsFold
<1>. DEFINE T == {i \in 1 .. Len(s) : f[i] = g[i]}
<1>5. 1 \in T
  <2>1. 1 \in 1 .. Len(s)
    BY <1>0
  <2>2. f[1] = s[1] /\ g[1] = s[1]
    BY <1>4, <2>1, Zenon DEF FoldsTo
  <2>. QED  BY <2>1, <2>2
<1>6. ASSUME NEW i \in 1 .. (Len(s) - 1), i \in T PROVE i + 1 \in T
  <2>1. i + 1 \in 1 .. Len(s) /\ i + 1 # 1 /\ (i + 1) - 1 = i
    BY <1>0
  <2>2. f[i + 1] = f[i] \o s[i + 1] /\ g[i + 1] = g[i] \o s[i + 1]
    BY <1>4, <2>1 DEF FoldsTo
  <2>3. f[i] = g[i]
    BY <1>6
  <2>. QED  BY <2>1, <2>2, <2>3
<1>. HIDE DEF T
<1>7. \A i \in 1 .. Len(s) : i \in T
  BY <1>0, <1>5, <1>6, Through
<1>. QED  BY <1>0, <1>3, <1>7 DEF T

(* The pieces of responses are pieces.                                     *)
LEMMA FlattenType ==
  ASSUME NEW s \in Parts
  PROVE  FlattenSeq(s) \in Seq(Shown)
<1>1. CASE s = <<>>
  BY <1>1, FlattenEmpty, NoPieces
<1>2. CASE s # <<>>
  <2>1. PICK f : FoldsTo(f, s, Len(s))
    BY FoldExists
  <2>2. Len(s) \in 1 .. Len(s)
    BY <1>2, PartFacts
  <2>3. f[Len(s)] \in Seq(Shown)
    BY <2>1, <2>2 DEF FoldsTo
  <2>. QED  BY <1>2, <2>1, <2>3, FlattenFold
<1>. QED  BY <1>1, <1>2

(* A response put behind the others puts its pieces behind theirs.         *)
LEMMA FlattenAppend ==
  ASSUME NEW s \in Parts, NEW x \in Seq(Shown)
  PROVE  Append(s, x) \in Parts /\ FlattenSeq(Append(s, x)) = FlattenSeq(s) \o x
<1>. PICK t : t = Append(s, x)
  OBVIOUS
<1>. PICK n : n = Len(s) /\ n \in Nat
  BY PartFacts
<1>1. t \in Parts /\ t # <<>> /\ Len(t) = n + 1 /\ t[n + 1] = x /\ \A i \in 1 .. n : t[i] = s[i]
  BY AppendProperties DEF Parts
<1>2. PICK g : FoldsTo(g, t, n + 1)
  BY <1>1, FoldExists
<1>3. FlattenSeq(t) = g[n + 1]
  BY <1>1, <1>2, FlattenFold
<1>4. n + 1 \in 1 .. (n + 1) /\ (n + 1 = 1 <=> n = 0) /\ (n + 1) - 1 = n /\ (n # 0 => n \in 1 .. n)
  OBVIOUS
<1>5. g[n + 1] = IF n = 0 THEN x ELSE g[n] \o x
  BY <1>1, <1>2, <1>4, Zenon DEF FoldsTo
<1>6. CASE s = <<>>
  <2>1. n = 0 /\ <<>> \o x = x
    BY <1>6, ConcatEmptySeq
  <2>. QED  BY <1>1, <1>3, <1>5, <1>6, <2>1, FlattenEmpty
<1>7. CASE s # <<>>
  <2>1. n # 0
    BY <1>7, EmptySeq DEF Parts
  <2>2. PICK f : FoldsTo(f, s, n)
    BY FoldExists
  <2>3. \A i \in 1 .. n : f[i] = g[i]
    <3>1. n <= n /\ n <= n + 1 /\ n + 1 \in Nat /\ \A i \in 1 .. n : s[i] = t[i]
      BY <1>1
    <3>. QED  BY ONLY <1>2, <2>2, <3>1, n \in Nat, FoldsAgree
  <2>4. FlattenSeq(s) = f[n]
    BY <1>7, <2>2, FlattenFold
  <2>. QED  BY <1>1, <1>3, <1>4, <1>5, <2>1, <2>3, <2>4
<1>. QED  BY <1>6, <1>7

-----------------------------------------------------------------------------
(* The parser. *)

(* The greatest element of a set that ends with m + 1.                     *)
LEMMA MaxIsLast ==
  ASSUME NEW m \in Nat, NEW s \in SUBSET (1 .. m + 1), m + 1 \in s
  PROVE  Max(s) = m + 1
<1>1. \A y \in s : m + 1 >= y
  OBVIOUS
<1>2. \A x \in s : (\A y \in s : x >= y) => x = m + 1
  OBVIOUS
<1>. QED  BY <1>1, <1>2, Zenon DEF Max

(* The greatest element of a set of positions.                             *)
LEMMA MaxOfSet ==
  ASSUME NEW m \in Nat, NEW s \in SUBSET (1 .. m), s # {}
  PROVE  Max(s) \in s /\ \A y \in s : y <= Max(s)
<1>. DEFINE T == {n \in Nat : \A t \in SUBSET (1 .. n) :
                    t # {} => Max(t) \in t /\ \A y \in t : y <= Max(t)}
<1>1. 0 \in T
  <2>1. 1 .. 0 = {}
    OBVIOUS
  <2>. QED  BY <2>1
<1>2. ASSUME NEW n \in 0 .. (m - 1), n \in T PROVE n + 1 \in T
  <2>1. SUFFICES ASSUME NEW t \in SUBSET (1 .. n + 1), t # {}
                 PROVE  Max(t) \in t /\ \A y \in t : y <= Max(t)
    OBVIOUS
  <2>2. CASE n + 1 \in t
    BY <2>2, MaxIsLast
  <2>3. CASE n + 1 \notin t
    <3>1. t \in SUBSET (1 .. n)
      BY <2>3
    <3>. QED  BY <1>2, <2>1, <3>1
  <2>. QED  BY <2>2, <2>3
<1>. HIDE DEF T
<1>3. \A i \in 0 .. m : i \in T
  BY <1>1, <1>2, Through
<1>4. m \in T
  BY <1>3
<1>. QED  BY <1>4 DEF T

(* g does for each set of lines what the parser does, in their order.      *)
ParsesLines(g, start, lines, n) ==
  g = [s \in SUBSET (1 .. n) |->
         IF s = {} THEN start ELSE ParseLine(g[s \ {Max(s)}], lines[Max(s)])]

(* The function by which FoldLeft is defined exists.                       *)
LEMMA ParseExists ==
  ASSUME NEW start, NEW lines, NEW n \in Nat
  PROVE  \E g : ParsesLines(g, start, lines, n)
<1>. DEFINE T == {m \in Nat : \E g : ParsesLines(g, start, lines, m)}
<1>1. 0 \in T
  <2>. DEFINE h == [s \in SUBSET (1 .. 0) |-> start]
  <2>1. ParsesLines(h, start, lines, 0)
    BY DEF ParsesLines
  <2>. QED  BY <2>1
<1>2. ASSUME NEW m \in 0 .. (n - 1), m \in T PROVE m + 1 \in T
  <2>1. PICK g : ParsesLines(g, start, lines, m)
    BY <1>2
  <2>. DEFINE h == [s \in SUBSET (1 .. m + 1) |->
                      IF m + 1 \in s THEN ParseLine(g[s \ {m + 1}], lines[m + 1]) ELSE g[s]]
  <2>2. ASSUME NEW s \in SUBSET (1 .. m + 1)
        PROVE  h[s] = IF s = {} THEN start
                      ELSE ParseLine(h[s \ {Max(s)}], lines[Max(s)])
    <3>1. CASE m + 1 \in s
      <4>1. s \ {m + 1} \in SUBSET (1 .. m) /\ s \ {m + 1} \in SUBSET (1 .. m + 1)
        OBVIOUS
      <4>2. h[s \ {m + 1}] = g[s \ {m + 1}]
        BY <4>1
      <4>3. Max(s) = m + 1
        BY <3>1, MaxIsLast
      <4>. QED  BY <3>1, <4>2, <4>3
    <3>2. CASE m + 1 \notin s
      <4>1. s \in SUBSET (1 .. m) /\ h[s] = g[s]
        BY <3>2
      <4>2. CASE s = {}
        BY <2>1, <4>1, <4>2 DEF ParsesLines
      <4>3. CASE s # {}
        <5>1. Max(s) \in s
          BY ONLY <4>1, <4>3, m \in Nat, MaxOfSet
        <5>2. s \ {Max(s)} \in SUBSET (1 .. m) /\ s \ {Max(s)} \in SUBSET (1 .. m + 1)
              /\ m + 1 \notin s \ {Max(s)}
          BY <3>2, <4>1
        <5>3. h[s \ {Max(s)}] = g[s \ {Max(s)}]
          BY <5>2
        <5>. QED  BY <2>1, <4>1, <4>3, <5>3 DEF ParsesLines
      <4>. QED  BY <4>2, <4>3
    <3>. QED  BY <3>1, <3>2
  <2>3. ParsesLines(h, start, lines, m + 1)
    <3>. DEFINE k == [s \in SUBSET (1 .. m + 1) |->
                        IF s = {} THEN start
                        ELSE ParseLine(h[s \ {Max(s)}], lines[Max(s)])]
    <3>1. \A s \in SUBSET (1 .. m + 1) : h[s] = k[s]
      BY <2>2
    <3>2. h = k
      BY <3>1
    <3>. QED  BY <3>2 DEF ParsesLines
  <2>. QED  BY <2>3
<1>. HIDE DEF T
<1>3. \A i \in 0 .. n : i \in T
  BY <1>1, <1>2, Through
<1>4. n \in T
  BY <1>3
<1>. QED  BY <1>4 DEF T

Folded(start, lines) == FoldLeft(ParseLine, start, lines)

(* What the parser has found after k lines.                                *)
LEMMA ParseLoop ==
  ASSUME NEW start, NEW S, NEW lines \in Seq(S)
  PROVE  \E parsed :
           /\ parsed[0] = start /\ Folded(start, lines) = parsed[Len(lines)]
           /\ \A k \in 1 .. Len(lines) : parsed[k] = ParseLine(parsed[k - 1], lines[k])
<1>. DEFINE n == Len(lines)
            g == CHOOSE g : ParsesLines(g, start, lines, n)
            parsed == [k \in 0 .. n |-> g[1 .. k]]
<1>1. n \in Nat /\ DOMAIN lines = 1 .. n
  OBVIOUS
<1>2. ParsesLines(g, start, lines, n)
  BY <1>1, ParseExists
<1>3. Folded(start, lines) = g[1 .. n]
  BY <1>1, Zenon DEF Folded, FoldLeft, MapThenFoldSet, ParsesLines
<1>. HIDE DEF g, n
<1>4. parsed[0] = start /\ parsed[n] = g[1 .. n]
  <2>1. 1 .. 0 = {} /\ {} \in SUBSET (1 .. n) /\ 0 \in 0 .. n /\ n \in 0 .. n
    BY <1>1
  <2>2. g[{}] = start
    BY <1>2, <2>1 DEF ParsesLines
  <2>. QED  BY <2>1, <2>2
<1>5. ASSUME NEW k \in 1 .. n PROVE parsed[k] = ParseLine(parsed[k - 1], lines[k])
  <2>1. 1 .. k \in SUBSET (1 .. n) /\ 1 .. k # {} /\ k - 1 \in 0 .. n /\ k \in 0 .. n
    BY <1>1
  <2>2. Max(1 .. k) = k
    <3>1. k - 1 \in Nat /\ (k - 1) + 1 = k /\ k \in 1 .. k
      BY <1>1
    <3>. QED  BY <3>1, MaxIsLast
  <2>3. (1 .. k) \ {k} = 1 .. k - 1
    BY <1>1
  <2>. QED  BY <1>2, <2>1, <2>2, <2>3 DEF ParsesLines
<1>. QED  BY <1>3, <1>4, <1>5 DEF n

Spoken == {"keep-alive", "close"}
Parsed == [ok : BOOLEAN, host : BOOLEAN, keep_alive : BOOLEAN]

(* What the parser keeps true: what it has found in the first k lines.     *)
FoundOK(p, first, lines, k) ==
  /\ p \in Parsed
  /\ p.ok <=> first # "bad" /\ \A i \in 1 .. k : lines[i] \notin {"bad host", "bad connection"}
  /\ p.ok => (p.host <=> \E i \in 1 .. k : lines[i] = "host")
  /\ p.ok /\ (\A i \in 1 .. k : lines[i] \notin Spoken) => (p.keep_alive <=> first = "1.1")
  /\ p.ok => \A m \in 1 .. k :
       lines[m] \in Spoken /\ (\A i \in 1 .. k : lines[i] \in Spoken => i <= m) =>
         (p.keep_alive <=> lines[m] = "keep-alive")

(* A line more.                                                            *)
LEMMA ParseLineOK ==
  ASSUME NEW first, NEW lines \in Seq(LineKind), NEW k \in 1 .. Len(lines),
         NEW p, FoundOK(p, first, lines, k - 1)
  PROVE  FoundOK(ParseLine(p, lines[k]), first, lines, k)
<1>. PICK line, q : line = lines[k] /\ q = ParseLine(p, line)
  OBVIOUS
<1>1. /\ line \in LineKind /\ k \in 1 .. k /\ k \in Nat
      /\ \A i \in 1 .. k : i = k \/ i \in 1 .. k - 1
      /\ \A i \in 1 .. k - 1 : i \in 1 .. k /\ i < k
  OBVIOUS
<1>2. p \in Parsed
  BY DEF FoundOK
<1>3. CASE ~ p.ok
  <2>1. q = p
    BY <1>3 DEF ParseLine
  <2>2. ~ (first # "bad" /\ \A i \in 1 .. k : lines[i] \notin {"bad host", "bad connection"})
    BY <1>1, <1>3 DEF FoundOK
  <2>. QED  BY <1>2, <1>3, <2>1, <2>2 DEF FoundOK
<1>4. CASE p.ok /\ line \in {"bad host", "bad connection"}
  <2>1. q \in Parsed /\ ~ q.ok
    <3>1. CASE line = "bad host"
      <4>1. q = [p EXCEPT !.ok = FALSE, !.host = TRUE]
        BY <1>2, <1>4, <3>1 DEF ParseLine, ParseHost, Parsed
      <4>. QED  BY <1>2, <4>1 DEF Parsed
    <3>2. CASE line = "bad connection"
      <4>1. q = [p EXCEPT !.ok = FALSE, !.keep_alive = FALSE]
        BY <1>2, <1>4, <3>2 DEF ParseLine, ParseConnection, Parsed
      <4>. QED  BY <1>2, <4>1 DEF Parsed
    <3>. QED  BY <1>4, <3>1, <3>2
  <2>. QED  BY <1>1, <1>4, <2>1 DEF FoundOK
<1>5. CASE p.ok /\ line = "host"
  <2>1. q = [p EXCEPT !.ok = TRUE, !.host = TRUE]
    BY <1>2, <1>5 DEF ParseLine, ParseHost, Parsed
  <2>2. q \in Parsed /\ q.ok = p.ok /\ q.host = TRUE /\ q.keep_alive = p.keep_alive
    BY <1>2, <1>5, <2>1 DEF Parsed
  <2>. QED  BY <1>1, <1>5, <2>2 DEF FoundOK, Spoken
<1>6. CASE p.ok /\ line = "other"
  <2>1. q = p
    BY <1>6 DEF ParseLine
  <2>. QED  BY <1>1, <1>6, <2>1 DEF FoundOK, Spoken
<1>7. CASE p.ok /\ line \in Spoken
  <2>1. q = [p EXCEPT !.ok = TRUE, !.keep_alive = (line = "keep-alive")]
    <3>1. line \notin {"host", "bad host", "bad connection"}
          /\ line \in {"keep-alive", "close", "bad connection"}
      BY <1>7 DEF Spoken
    <3>. QED  BY <1>2, <1>7, <3>1 DEF ParseLine, ParseConnection, Parsed
  <2>2. q \in Parsed /\ q.ok = p.ok /\ q.host = p.host /\ (q.keep_alive <=> line = "keep-alive")
    BY <1>2, <1>7, <2>1 DEF Parsed
  <2>3. q.ok <=> first # "bad" /\ \A i \in 1 .. k : lines[i] \notin {"bad host", "bad connection"}
    BY <1>1, <1>7, <2>2 DEF FoundOK, Spoken
  <2>4. q.host <=> \E i \in 1 .. k : lines[i] = "host"
    BY <1>1, <1>7, <2>2 DEF FoundOK, Spoken
  <2>5. \A m \in 1 .. k : (\A i \in 1 .. k : lines[i] \in Spoken => i <= m) => m = k
    BY <1>1, <1>7
  <2>. QED  BY <1>1, <1>7, <2>2, <2>3, <2>4, <2>5 DEF FoundOK
<1>. QED  BY <1>1, <1>3, <1>4, <1>5, <1>6, <1>7 DEF LineKind, Spoken

(* The parser accepts what deserves an answer, and keeps the connections   *)
(* that a request asks to keep.                                            *)
LEMMA ParserRight ==
  ASSUME NEW req \in Request, req # Long
  PROVE  /\ ParseRequest(req).code \in {200, 400} /\ ParseRequest(req).keep_alive \in BOOLEAN
         /\ ParseRequest(req).code = 400 => Deserved(req).code = 400
         /\ ParseRequest(req).code = 200 => /\ Deserved(req).code = FileStatus(req.url)
                                            /\ Deserved(req).keep_alive = ParseRequest(req).keep_alive
<1>. PICK first, lines, n : first = req.first /\ lines = req.lines /\ n = Len(lines)
  OBVIOUS
<1>1. lines \in Seq(LineKind) /\ first \in {"1.0", "1.1", "bad"} /\ n \in Nat /\ DOMAIN lines = 1 .. n
  <2>1. lines \in Seq(LineKind) /\ first \in {"1.0", "1.1", "bad"}
    BY DEF Request
  <2>. QED  BY <2>1, LenProperties
<1>. PICK start : start = ParseFirstLine(req)
  OBVIOUS
<1>2. PICK parsed : /\ parsed[0] = start /\ Folded(start, lines) = parsed[n]
                    /\ \A k \in 1 .. n : parsed[k] = ParseLine(parsed[k - 1], lines[k])
  BY <1>1, ParseLoop
<1>. DEFINE T == {k \in 0 .. n : FoundOK(parsed[k], first, lines, k)}
<1>3. 0 \in T
  <2>1. start = [ok |-> first # "bad", host |-> FALSE, keep_alive |-> first = "1.1"]
    BY DEF ParseFirstLine
  <2>2. start \in Parsed /\ (start.ok <=> first # "bad") /\ start.host = FALSE
        /\ (start.keep_alive <=> first = "1.1")
    <3>. PICK good \in BOOLEAN, kept \in BOOLEAN : good = (first # "bad") /\ kept = (first = "1.1")
      OBVIOUS
    <3>1. start = [ok |-> good, host |-> FALSE, keep_alive |-> kept]
      BY <2>1
    <3>2. start \in Parsed
      BY ONLY <3>1, good \in BOOLEAN, kept \in BOOLEAN DEF Parsed
    <3>3. start.ok = good /\ start.host = FALSE /\ start.keep_alive = kept
      BY ONLY <3>1
    <3>. QED  BY <3>2, <3>3
  <2>3. 1 .. 0 = {} /\ 0 \in 0 .. n
    BY <1>1
  <2>4. FoundOK(start, first, lines, 0)
    BY <2>2, <2>3 DEF FoundOK
  <2>. QED  BY <1>2, <2>3, <2>4
<1>4. ASSUME NEW k \in 0 .. (n - 1), k \in T PROVE k + 1 \in T
  <2>1. k + 1 \in 1 .. n /\ (k + 1) - 1 = k /\ k + 1 \in 0 .. n
    BY <1>1
  <2>2. FoundOK(parsed[k], first, lines, k) /\ parsed[k + 1] = ParseLine(parsed[k], lines[k + 1])
    BY <1>2, <1>4, <2>1
  <2>3. FoundOK(parsed[k + 1], first, lines, k + 1)
    BY <1>1, <2>1, <2>2, ParseLineOK
  <2>. QED  BY <2>1, <2>3
<1>5. \A k \in 0 .. n : k \in T
  <2>. HIDE DEF T
  <2>. QED  BY <1>1, <1>3, <1>4, Through
<1>. PICK p : p = parsed[n]
  OBVIOUS
<1>6. FoundOK(p, first, lines, n)
  <2>1. n \in T
    BY <1>1, <1>5
  <2>. QED  BY <2>1
<1>7. ParseRequest(req) = [code |-> IF p.ok /\ p.host THEN 200 ELSE 400, keep_alive |-> p.keep_alive]
  <2>1. p = FoldLeft(ParseLine, ParseFirstLine(req), req.lines)
    BY <1>2 DEF Folded
  <2>. QED  BY <2>1 DEF ParseRequest
<1>. HIDE DEF T
<1>. DEFINE kinds == ToSet(lines)
            fine == /\ first # "bad"
                    /\ "host" \in kinds /\ kinds \cap {"bad host", "bad connection"} = {}
            spoken == {i \in DOMAIN lines : lines[i] \in {"keep-alive", "close"}}
            kept == IF spoken = {} THEN first = "1.1" ELSE lines[Max(spoken)] = "keep-alive"
<1>8. /\ Deserved(req).code = IF fine THEN FileStatus(req.url) ELSE 400
      /\ Deserved(req).keep_alive = kept
  BY DEF Deserved
<1>9. fine <=> p.ok /\ p.host
  <2>1. kinds = {lines[i] : i \in 1 .. n}
    BY <1>1 DEF ToSet
  <2>2. /\ p.ok <=> first # "bad" /\ \A i \in 1 .. n : lines[i] \notin {"bad host", "bad connection"}
        /\ p.ok => (p.host <=> \E i \in 1 .. n : lines[i] = "host")
    BY ONLY <1>6, Zenon DEF FoundOK
  <2>3. /\ kinds \cap {"bad host", "bad connection"} = {}
             <=> \A i \in 1 .. n : lines[i] \notin {"bad host", "bad connection"}
        /\ "host" \in kinds <=> \E i \in 1 .. n : lines[i] = "host"
    BY ONLY <2>1
  <2>. QED  BY ONLY <2>2, <2>3, Zenon
<1>10. p.ok => p.keep_alive = kept
  <2>1. SUFFICES ASSUME p.ok PROVE p.keep_alive = kept
    OBVIOUS
  <2>2. p.keep_alive \in BOOLEAN
    BY <1>6 DEF FoundOK, Parsed
  <2>3. CASE spoken = {}
    <3>1. \A i \in 1 .. n : lines[i] \notin Spoken
      BY <1>1, <2>3 DEF Spoken
    <3>. QED  BY <1>6, <2>1, <2>2, <2>3, <3>1 DEF FoundOK
  <2>4. CASE spoken # {}
    <3>. PICK m : m = Max(spoken)
      OBVIOUS
    <3>1. m \in spoken /\ \A y \in spoken : y <= m
      <4>1. spoken \in SUBSET (1 .. n)
        BY <1>1
      <4>. HIDE DEF spoken
      <4>. QED  BY <1>1, <2>4, <4>1, MaxOfSet
    <3>2. m \in 1 .. n /\ lines[m] \in Spoken /\ \A i \in 1 .. n : lines[i] \in Spoken => i <= m
      BY <1>1, <3>1 DEF Spoken
    <3>3. p.keep_alive <=> lines[m] = "keep-alive"
      BY <1>6, <2>1, <3>2 DEF FoundOK
    <3>. QED  BY <2>2, <2>4, <3>3
  <2>. QED  BY <2>3, <2>4
<1>. HIDE DEF fine, kept
<1>11. p.keep_alive \in BOOLEAN /\ p.ok \in BOOLEAN /\ p.host \in BOOLEAN
  BY <1>6 DEF FoundOK, Parsed
<1>. QED  BY <1>7, <1>8, <1>9, <1>10, <1>11

-----------------------------------------------------------------------------
(* What is seen of a response. *)

(* A sequence is its front and its last element.                           *)
LEMMA FrontLast ==
  ASSUME NEW S, NEW s \in Seq(S), s # <<>>
  PROVE  /\ Front(s) \in Seq(S) /\ Last(s) \in S /\ s = Append(Front(s), Last(s))
         /\ Len(s) \in Nat /\ Len(s) \in DOMAIN s /\ Len(Front(s)) = Len(s) - 1
         /\ Len(Front(s)) \in Nat
         /\ \A i \in 1 .. Len(s) - 1 : Front(s)[i] = s[i]
<1>. PICK n : n = Len(s)
  OBVIOUS
<1>1. n \in Nat /\ n # 0 /\ DOMAIN s = 1 .. n
  BY EmptySeq, LenProperties
<1>2. 1 .. n - 1 \subseteq DOMAIN s /\ n - 1 \in Nat /\ n \in 1 .. n
  BY <1>1
<1>3. /\ Front(s) \in Seq(S) /\ Len(Front(s)) = n - 1
      /\ \A i \in 1 .. n - 1 : Front(s)[i] = s[i]
  BY <1>1, <1>2, SubSeqProperties DEF Front
<1>4. Last(s) \in S
  BY <1>1, <1>2 DEF Last
<1>5. s = Append(Front(s), Last(s))
  <2>. PICK f, l : f = Front(s) /\ l = Last(s)
    OBVIOUS
  <2>. PICK t : t = Append(f, l)
    OBVIOUS
  <2>1. t \in Seq(S) /\ Len(t) = n /\ t[n] = l /\ \A i \in 1 .. n - 1 : t[i] = f[i]
    <3>1. /\ t \in Seq(S) /\ Len(t) = Len(f) + 1 /\ t[Len(f) + 1] = l
          /\ \A i \in 1 .. Len(f) : t[i] = f[i]
      BY <1>3, <1>4, AppendProperties
    <3>2. Len(f) = n - 1 /\ (n - 1) + 1 = n
      BY <1>1, <1>3
    <3>. QED  BY <3>1, <3>2
  <2>2. \A i \in 1 .. n : t[i] = s[i]
    <3>1. \A i \in 1 .. n : i = n \/ i \in 1 .. n - 1
      BY <1>1
    <3>. QED  BY <1>3, <2>1, <3>1 DEF Last
  <2>. QED  BY <1>1, <2>1, <2>2, SeqEqual
<1>. QED  BY <1>1, <1>2, <1>3, <1>4, <1>5

SeenAs(p) == IF "code" \in DOMAIN p THEN <<"header", p.code, p.n>> ELSE <<p.file, 200, p.n>>

(* A piece is one of a header or one of a file.                            *)
LEMMA SeenPiece ==
  ASSUME NEW p \in Reply
  PROVE  SeenAs(p) \in Shown
<1>1. CASE p \in [code : Code, keep_alive : BOOLEAN, n : 1 .. HeaderLen]
  <2>1. "code" \in DOMAIN p /\ p.code \in Code /\ p.n \in 1 .. HeaderLen
    BY <1>1
  <2>2. p.n \in Nat
    BY <2>1, ShttpdAssumption
  <2>. QED  BY <2>1, <2>2 DEF SeenAs, Shown
<1>2. CASE p \in [file : DOMAIN Files, n : Nat]
  <2>1. "code" \notin DOMAIN p /\ p.file \in DOMAIN Files /\ p.n \in Nat
    BY <1>2
  <2>. QED  BY <2>1 DEF SeenAs, Shown, Code
<1>. QED  BY <1>1, <1>2 DEF Reply

(* What is seen is seen piece by piece.                                    *)
LEMMA SeenType ==
  ASSUME NEW s \in Seq(Reply)
  PROVE  /\ Seen(s) \in Seq(Shown) /\ Len(Seen(s)) = Len(s)
         /\ Len(s) \in Nat /\ DOMAIN s = 1 .. Len(s)
         /\ \A i \in 1 .. Len(s) : s[i] \in Reply /\ Seen(s)[i] = SeenAs(s[i])
<1>. PICK n : n = Len(s)
  OBVIOUS
<1>1. n \in Nat /\ DOMAIN s = 1 .. n /\ \A i \in 1 .. n : s[i] \in Reply
  BY LenProperties
<1>2. Seen(s) = [i \in 1 .. n |-> SeenAs(s[i])]
  BY <1>1, Zenon DEF Seen, SeenAs
<1>3. \A i \in 1 .. n : SeenAs(s[i]) \in Shown
  BY <1>1, SeenPiece
<1>4. Seen(s) \in [1 .. n -> Shown] /\ \A i \in 1 .. n : Seen(s)[i] = SeenAs(s[i])
  BY <1>2, <1>3, Zenon
<1>5. Seen(s) \in Seq(Shown) /\ Len(Seen(s)) = n
  BY <1>1, <1>4, IsASeq, LenProperties
<1>. QED  BY <1>1, <1>4, <1>5

(* s is a, of length m, and b, of length n, put together.                  *)
Joined(S, a, b, s, m, n) ==
  /\ m \in Nat /\ n \in Nat /\ s \in Seq(S) /\ Len(s) = m + n
  /\ DOMAIN a = 1 .. m /\ DOMAIN b = 1 .. n /\ DOMAIN s = 1 .. m + n
  /\ \A i \in 1 .. m : i \in 1 .. m + n /\ s[i] = a[i]
  /\ \A i \in 1 .. n : m + i \in 1 .. m + n /\ s[m + i] = b[i]
  /\ \A i \in 1 .. m + n : i \in 1 .. m \/ (i - m \in 1 .. n /\ i = m + (i - m))

(* Sequences put together, element by element.                             *)
LEMMA ConcatOf ==
  ASSUME NEW S, NEW a \in Seq(S), NEW b \in Seq(S)
  PROVE  Joined(S, a, b, a \o b, Len(a), Len(b))
<1>. PICK m, n, s : m = Len(a) /\ n = Len(b) /\ s = a \o b
  OBVIOUS
<1>1. m \in Nat /\ n \in Nat
  BY LenProperties
<1>2. /\ s \in Seq(S) /\ Len(s) = Len(a) + Len(b)
      /\ \A i \in 1 .. Len(a) + Len(b) : s[i] = IF i <= Len(a) THEN a[i] ELSE b[i - Len(a)]
  BY ConcatProperties
<1>3. /\ s \in Seq(S) /\ Len(s) = m + n
      /\ \A i \in 1 .. m + n : s[i] = IF i <= m THEN a[i] ELSE b[i - m]
  BY <1>2
<1>4. \A i \in 1 .. m : i \in 1 .. m + n /\ i <= m
  BY <1>1
<1>5. \A i \in 1 .. n : m + i \in 1 .. m + n /\ ~ m + i <= m /\ (m + i) - m = i
  BY <1>1
<1>6. \A i \in 1 .. m + n : i \in 1 .. m \/ (i - m \in 1 .. n /\ i = m + (i - m))
  BY <1>1
<1>7. DOMAIN a = 1 .. m /\ DOMAIN b = 1 .. n /\ DOMAIN s = 1 .. m + n
  BY <1>3, LenProperties
<1>8. \A i \in 1 .. m : i \in 1 .. m + n /\ s[i] = a[i]
  BY <1>3, <1>4
<1>9. ASSUME NEW i \in 1 .. n PROVE m + i \in 1 .. m + n /\ s[m + i] = b[i]
  BY <1>3, <1>5
<1>10. Joined(S, a, b, s, m, n)
  BY <1>1, <1>3, <1>6, <1>7, <1>8, <1>9 DEF Joined
<1>. QED  BY <1>10

(* What is seen of pieces put together.                                    *)
LEMMA SeenConcat ==
  ASSUME NEW a \in Seq(Reply), NEW b \in Seq(Reply)
  PROVE  a \o b \in Seq(Reply) /\ Seen(a \o b) = Seen(a) \o Seen(b)
<1>. PICK s, m, n : s = a \o b /\ m = Len(a) /\ n = Len(b)
  OBVIOUS
<1>. PICK x, y, z : x = Seen(a) /\ y = Seen(b) /\ z = Seen(s)
  OBVIOUS
<1>1. /\ m \in Nat /\ n \in Nat /\ s \in Seq(Reply) /\ Len(s) = m + n
      /\ \A i \in 1 .. m : i \in 1 .. m + n /\ s[i] = a[i]
      /\ \A i \in 1 .. n : m + i \in 1 .. m + n /\ s[m + i] = b[i]
      /\ \A i \in 1 .. m + n : i \in 1 .. m \/ (i - m \in 1 .. n /\ i = m + (i - m))
  <2>1. Joined(Reply, a, b, s, m, n)
    BY ConcatOf
  <2>. QED  BY <2>1 DEF Joined
<1>2. /\ x \in Seq(Shown) /\ Len(x) = m /\ \A i \in 1 .. m : x[i] = SeenAs(a[i])
      /\ y \in Seq(Shown) /\ Len(y) = n /\ \A i \in 1 .. n : y[i] = SeenAs(b[i])
      /\ z \in Seq(Shown) /\ Len(z) = m + n /\ \A i \in 1 .. m + n : z[i] = SeenAs(s[i])
  BY <1>1, SeenType
<1>. PICK t : t = x \o y
  OBVIOUS
<1>3. /\ t \in Seq(Shown) /\ Len(t) = m + n
      /\ \A i \in 1 .. m : t[i] = x[i]
      /\ \A i \in 1 .. n : t[m + i] = y[i]
  <2>1. Joined(Shown, x, y, t, m, n)
    BY <1>2, ConcatOf
  <2>. QED  BY <2>1 DEF Joined
<1>4. ASSUME NEW i \in 1 .. m + n PROVE t[i] = z[i]
  <2>1. CASE i \in 1 .. m
    BY <1>1, <1>2, <1>3, <2>1
  <2>2. CASE i - m \in 1 .. n /\ i = m + (i - m)
    <3>. PICK j \in 1 .. n : i = m + j
      BY <2>2
    <3>1. t[m + j] = y[j] /\ s[m + j] = b[j]
      BY ONLY <1>1, <1>3, j \in 1 .. n
    <3>2. y[j] = SeenAs(b[j]) /\ z[i] = SeenAs(s[i])
      BY <1>2
    <3>. QED  BY <3>1, <3>2
  <2>. QED  BY <1>1, <2>1, <2>2
<1>5. t = z
  BY <1>2, <1>3, <1>4, SeqEqual
<1>. QED  BY <1>1, <1>5

-----------------------------------------------------------------------------
(* Responses. *)

HeaderOf(code) == [i \in 1 .. HeaderLen |-> <<"header", code, i>>]

BodyOf(url) == [i \in 1 .. Files[url].size |-> <<url, 200, i>>]

(* The header of a response.                                               *)
LEMMA HeaderOfType ==
  ASSUME NEW code \in Code
  PROVE  /\ HeaderOf(code) \in Seq(Shown) /\ Len(HeaderOf(code)) = HeaderLen
         /\ HeaderLen \in Nat /\ HeaderLen # 0
<1>1. HeaderLen \in Nat /\ HeaderLen # 0
  BY ShttpdAssumption
<1>2. \A i \in 1 .. HeaderLen : <<"header", code, i>> \in Shown
  BY <1>1 DEF Shown
<1>3. HeaderOf(code) \in [1 .. HeaderLen -> Shown]
  BY <1>2 DEF HeaderOf
<1>. QED  BY <1>1, <1>3, IsASeq, LenProperties

(* The body of a response.                                                 *)
LEMMA BodyOfType ==
  ASSUME NEW url \in DOMAIN Files
  PROVE  /\ BodyOf(url) \in Seq(Shown) /\ Len(BodyOf(url)) = Files[url].size
         /\ Files[url].size \in Nat
<1>1. Files[url].size \in Nat
  BY ShttpdAssumption DEF File
<1>2. \A i \in 1 .. Files[url].size : <<url, 200, i>> \in Shown
  BY <1>1 DEF Shown, Code
<1>3. BodyOf(url) \in [1 .. Files[url].size -> Shown]
  BY <1>2 DEF BodyOf
<1>. QED  BY <1>1, <1>3, IsASeq, LenProperties

(* A response has a header at least, and one that is not 200 no more.      *)
LEMMA ResponseType ==
  ASSUME NEW code \in Code, NEW url, code = 200 => url \in DOMAIN Files
  PROVE  /\ Response(code, url) \in Seq(Shown)
         /\ Len(Response(code, url)) \in Nat /\ Len(Response(code, url)) >= HeaderLen
         /\ code = 200 => Response(code, url) = HeaderOf(200) \o BodyOf(url)
         /\ code # 200 => Response(code, url) = HeaderOf(code)
<1>. PICK h : h = HeaderOf(code)
  OBVIOUS
<1>1. h \in Seq(Shown) /\ Len(h) = HeaderLen /\ HeaderLen \in Nat
  BY HeaderOfType
<1>2. CASE code = 200
  <2>. PICK b : b = BodyOf(url)
    OBVIOUS
  <2>1. b \in Seq(Shown) /\ Len(b) \in Nat
    BY <1>2, BodyOfType
  <2>2. h \o b \in Seq(Shown) /\ Len(h \o b) = Len(h) + Len(b)
    BY <1>1, <2>1, ConcatProperties
  <2>3. Response(code, url) = h \o b
    BY <1>2 DEF Response, HeaderOf, BodyOf
  <2>4. Len(Response(code, url)) = HeaderLen + Len(b)
    BY <1>1, <2>2, <2>3
  <2>. PICK n \in Nat : n = Len(b)
    BY <2>1
  <2>5. Len(Response(code, url)) = HeaderLen + n
    BY <2>4
  <2>6. Len(Response(code, url)) \in Nat /\ Len(Response(code, url)) >= HeaderLen
    BY ONLY <1>1, <2>5, n \in Nat
  <2>. QED  BY <1>2, <2>2, <2>3, <2>6
<1>3. CASE code # 200
  <2>1. Response(code, url) = h \o <<>>
    BY <1>3 DEF Response, HeaderOf
  <2>2. Response(code, url) = h
    BY <1>1, <2>1, ConcatEmptySeq
  <2>. QED  BY <1>1, <1>3, <2>2
<1>. QED  BY <1>2, <1>3

(* The status that a request deserves.                                     *)
LEMMA DeservedCode ==
  ASSUME NEW req \in Request
  PROVE  /\ Deserved(req).code \in Code \ {500} /\ req.url \in DOMAIN Files
         /\ req = Long => Deserved(req).code = 400
<1>1. req.url \in DOMAIN Files
  BY DEF Request
<1>2. FileStatus(req.url) \in {404, 403, 200}
  BY DEF FileStatus
<1>3. PICK fine : (fine => req # Long) /\ Deserved(req).code = IF fine THEN FileStatus(req.url) ELSE 400
  BY DEF Deserved
<1>. QED  BY <1>1, <1>2, <1>3 DEF Code

ResponseTo(req) == Response(Deserved(req).code, req.url)

(* What a request deserves is a response.                                  *)
LEMMA ResponseToType ==
  ASSUME NEW req \in Request
  PROVE  /\ ResponseTo(req) \in Seq(Shown) /\ Len(ResponseTo(req)) \in Nat
         /\ Len(ResponseTo(req)) >= HeaderLen
BY DeservedCode, ResponseType DEF ResponseTo

ResponsesTo(asked) == [i \in DOMAIN asked |-> ResponseTo(asked[i])]

(* The responses to some requests.                                         *)
LEMMA ResponsesType ==
  ASSUME NEW asked \in Seq(Request)
  PROVE  /\ ResponsesTo(asked) \in Parts /\ Len(ResponsesTo(asked)) = Len(asked)
         /\ Responses(asked) = FlattenSeq(ResponsesTo(asked))
         /\ Responses(asked) \in Seq(Shown)
<1>. PICK s : s = ResponsesTo(asked)
  OBVIOUS
<1>1. Len(asked) \in Nat /\ DOMAIN asked = 1 .. Len(asked)
      /\ \A i \in 1 .. Len(asked) : asked[i] \in Request
  BY LenProperties
<1>2. s \in [1 .. Len(asked) -> Seq(Shown)]
  BY <1>1, ResponseToType DEF ResponsesTo
<1>3. s \in Parts /\ Len(s) = Len(asked)
  BY <1>1, <1>2, IsASeq, LenProperties DEF Parts
<1>4. Responses(asked) = FlattenSeq(s)
  BY Zenon DEF Responses, ResponsesTo, ResponseTo
<1>. QED  BY <1>3, <1>4, FlattenType

(* Nothing was asked.                                                      *)
LEMMA NoResponses == Responses(<<>>) = <<>>
<1>1. <<>> \in Seq(Request) /\ Len(<<>>) = 0
  BY EmptySeq
<1>2. ResponsesTo(<<>>) \in Parts /\ Len(ResponsesTo(<<>>)) = 0
      /\ Responses(<<>>) = FlattenSeq(ResponsesTo(<<>>))
  BY <1>1, ResponsesType
<1>3. ResponsesTo(<<>>) = <<>>
  BY <1>2, PartFacts
<1>. QED  BY <1>2, <1>3, FlattenEmpty

(* A request more is a response more.                                      *)
LEMMA ResponsesAppend ==
  ASSUME NEW asked \in Seq(Request), NEW req \in Request
  PROVE  Responses(Append(asked, req)) = Responses(asked) \o ResponseTo(req)
<1>. PICK t, s, u : t = Append(asked, req) /\ s = ResponsesTo(asked) /\ u = ResponsesTo(t)
  OBVIOUS
<1>. PICK n : n = Len(asked)
  OBVIOUS
<1>1. /\ t \in Seq(Request) /\ n \in Nat /\ Len(t) = n + 1 /\ t[n + 1] = req
      /\ \A i \in 1 .. n : t[i] = asked[i]
      /\ DOMAIN asked = 1 .. n /\ DOMAIN t = 1 .. n + 1
  BY AppendOf
<1>2. /\ s \in Parts /\ Len(s) = n /\ Responses(asked) = FlattenSeq(s)
      /\ u \in Parts /\ Len(u) = n + 1 /\ Responses(t) = FlattenSeq(u)
  BY <1>1, ResponsesType
<1>. PICK x : x = ResponseTo(req)
  OBVIOUS
<1>3. x \in Seq(Shown)
  BY ResponseToType
<1>. PICK v : v = Append(s, x)
  OBVIOUS
<1>4. v \in Parts /\ FlattenSeq(v) = FlattenSeq(s) \o x
  BY <1>2, <1>3, FlattenAppend
<1>5. v = u
  <2>1. Len(v) = n + 1 /\ v[n + 1] = x /\ \A i \in 1 .. n : v[i] = s[i]
    <3>1. Len(v) = Len(s) + 1 /\ v[Len(s) + 1] = x /\ \A i \in 1 .. Len(s) : v[i] = s[i]
      BY <1>2, <1>3, AppendProperties DEF Parts
    <3>. QED  BY <1>2, <3>1
  <2>2. \A i \in 1 .. n : u[i] = s[i]
    BY <1>1 DEF ResponsesTo
  <2>3. u[n + 1] = x
    BY <1>1 DEF ResponsesTo
  <2>4. \A i \in 1 .. n + 1 : i \in 1 .. n \/ i = n + 1
    BY <1>1
  <2>5. \A i \in 1 .. Len(v) : v[i] = u[i]
    BY <2>1, <2>2, <2>3, <2>4
  <2>. QED  BY <1>2, <1>4, <2>1, <2>5, SeqEqual DEF Parts
<1>. QED  BY <1>2, <1>4, <1>5

(* The last response, and those before it.                                 *)
LEMMA ResponsesLast ==
  ASSUME NEW asked \in Seq(Request), asked # <<>>
  PROVE  /\ Front(asked) \in Seq(Request) /\ Last(asked) \in Request
         /\ Len(Front(asked)) = Len(asked) - 1 /\ Len(asked) \in Nat
         /\ Responses(Front(asked)) \in Seq(Shown)
         /\ Responses(asked) = Responses(Front(asked)) \o ResponseTo(Last(asked))
<1>1. /\ Front(asked) \in Seq(Request) /\ Last(asked) \in Request
      /\ asked = Append(Front(asked), Last(asked))
      /\ Len(Front(asked)) = Len(asked) - 1 /\ Len(asked) \in Nat
  BY FrontLast
<1>2. Responses(asked) = Responses(Front(asked)) \o ResponseTo(Last(asked))
  BY <1>1, ResponsesAppend
<1>. QED  BY <1>1, <1>2, ResponsesType

-----------------------------------------------------------------------------
(* The number of the response that a piece is of. *)

(* Responses are counted.                                                  *)
LEMMA NthType ==
  ASSUME NEW pieces, NEW i \in Nat
  PROVE  /\ Nth(pieces, i) \in Nat
         /\ \A k \in 0 .. i : Nth(pieces, k) \in Nat /\ Nth(pieces, k) <= Nth(pieces, i)
<1>. DEFINE T(k) == {j \in 1 .. k : Header(pieces[j])}
<1>1. IsFiniteSet(T(i))
  <2>1. IsFiniteSet(1 .. i) /\ T(i) \subseteq 1 .. i
    BY FS_Interval
  <2>. QED  BY <2>1, FS_Subset
<1>2. Cardinality(T(i)) \in Nat
  BY <1>1, FS_CardinalityType
<1>3. ASSUME NEW k \in 0 .. i
      PROVE  Cardinality(T(k)) \in Nat /\ Cardinality(T(k)) <= Cardinality(T(i))
  <2>1. T(k) \subseteq T(i)
    OBVIOUS
  <2>. HIDE DEF T
  <2>2. IsFiniteSet(T(k)) /\ Cardinality(T(k)) <= Cardinality(T(i))
    BY <1>1, <2>1, FS_Subset
  <2>. QED  BY <2>2, FS_CardinalityType
<1>. QED  BY <1>2, <1>3, Zenon DEF Nth

(* Counting looks at no later piece.                                       *)
LEMMA NthSame ==
  ASSUME NEW p, NEW q, NEW i \in Nat, \A j \in 1 .. i : p[j] = q[j]
  PROVE  Nth(p, i) = Nth(q, i)
<1>1. {j \in 1 .. i : Header(p[j])} = {j \in 1 .. i : Header(q[j])}
  OBVIOUS
<1>. QED  BY <1>1 DEF Nth

(* One of the pieces behind the m-th is the first of a response.           *)
LEMMA NthMore ==
  ASSUME NEW p, NEW m \in Nat, NEW k \in Nat, m + 1 <= k, Header(p[m + 1]),
         \A j \in m + 2 .. k : ~ Header(p[j])
  PROVE  Nth(p, k) = Nth(p, m) + 1
<1>. DEFINE T == {j \in 1 .. m : Header(p[j])}
<1>1. IsFiniteSet(T)
  BY FS_Interval, FS_Subset
<1>2. m + 1 \notin T
  OBVIOUS
<1>3. {j \in 1 .. k : Header(p[j])} = T \cup {m + 1}
  <2>1. \A j \in 1 .. k : j \in 1 .. m \/ j = m + 1 \/ j \in m + 2 .. k
    OBVIOUS
  <2>2. \A j \in 1 .. m : j \in 1 .. k
    OBVIOUS
  <2>3. m + 1 \in 1 .. k
    OBVIOUS
  <2>. QED  BY <2>1, <2>2, <2>3
<1>4. Cardinality(T \cup {m + 1}) = Cardinality(T) + 1
  BY <1>1, <1>2, FS_AddElement
<1>. QED  BY <1>3, <1>4 DEF Nth

-----------------------------------------------------------------------------
(* What a context has to write. *)

(* The i-th piece of it.                                                   *)
PieceOf(x, i) ==
  IF i <= HeaderLen - x.header_sent THEN HeaderPiece(x, x.header_sent + i)
  ELSE BodyPiece(x.file, x.file_offset + (i - (HeaderLen - x.header_sent)))

(* What is left of the header comes first, then what is left of the file.  *)
LEMMA ToWritePieces ==
  ASSUME NEW x, GoodContext(x), x.code \in Code
  PROVE  /\ ToWrite(x) \in Seq(Reply) /\ Len(ToWrite(x)) \in Nat
         /\ Len(ToWrite(x)) = (HeaderLen - x.header_sent) + x.file_remain
         /\ \A i \in 1 .. Len(ToWrite(x)) : ToWrite(x)[i] = PieceOf(x, i)
<1>. PICK h, r, o : h = x.header_sent /\ r = x.file_remain /\ o = x.file_offset
  OBVIOUS
<1>1. h \in 0 .. HeaderLen /\ r \in Nat /\ o \in Nat /\ HeaderLen \in Nat
  BY ShttpdAssumption DEF GoodContext, Context
<1>. PICK n \in Nat : n = HeaderLen - h
  BY <1>1
<1>2. ToWrite(x) \in Seq(Reply) /\ Len(ToWrite(x)) = n + r
  BY ToWriteType
<1>. DEFINE s == [i \in 1 .. n |-> HeaderPiece(x, h + i)]
            t == [i \in 1 .. r |-> BodyPiece(x.file, o + i)]
<1>3. ToWrite(x) = s \o t
  BY DEF ToWrite
<1>4. /\ \A i \in 1 .. n : s[i] = HeaderPiece(x, h + i)
      /\ \A i \in 1 .. r : t[i] = BodyPiece(x.file, o + i)
  OBVIOUS
<1>. PICK S : S = Range(s) \cup Range(t)
  OBVIOUS
<1>5. s \in Seq(S) /\ t \in Seq(S) /\ Len(s) = n /\ Len(t) = r
  <2>1. s \in [1 .. n -> S] /\ t \in [1 .. r -> S]
    BY DEF Range
  <2>. HIDE DEF s, t
  <2>. QED  BY <1>1, <2>1, IsASeq, LenProperties
<1>. HIDE DEF s, t
<1>. PICK z : z = s \o t
  OBVIOUS
<1>6. /\ \A i \in 1 .. n : z[i] = s[i]
      /\ \A i \in 1 .. r : z[n + i] = t[i]
      /\ \A i \in 1 .. n + r : i \in 1 .. n \/ (i - n \in 1 .. r /\ i = n + (i - n))
  <2>1. Joined(S, s, t, z, n, r)
    BY <1>5, ConcatOf
  <2>. QED  BY <2>1 DEF Joined
<1>7. ASSUME NEW i \in 1 .. n + r PROVE z[i] = PieceOf(x, i)
  <2>1. CASE i \in 1 .. n
    <3>1. i <= n
      BY <2>1
    <3>. QED  BY <1>4, <1>6, <2>1, <3>1 DEF PieceOf
  <2>2. CASE i - n \in 1 .. r /\ i = n + (i - n)
    <3>1. ~ i <= n
      BY <1>1, <2>2
    <3>. PICK j \in 1 .. r : j = i - n /\ i = n + j
      BY <2>2
    <3>2. z[n + j] = t[j]
      BY ONLY <1>6, j \in 1 .. r
    <3>. QED  BY <1>4, <3>1, <3>2 DEF PieceOf
  <2>. QED  BY <1>6, <2>1, <2>2
<1>8. ToWrite(x) = z /\ n = HeaderLen - x.header_sent /\ r = x.file_remain
  BY <1>3
<1>9. n + r \in Nat
  BY <1>1
<1>. QED  BY ONLY <1>2, <1>7, <1>8, <1>9

(* What a response has to write from its beginning on.                     *)
Begins(x, url) ==
  /\ GoodContext(x) /\ x.code \in Code /\ x.header_sent = 0
  /\ x.code = 200 => /\ url \in DOMAIN Files /\ x.file = url
                     /\ x.file_offset = 0 /\ x.file_remain = Files[url].size
  /\ x.code # 200 => x.file_remain = 0

(* The pieces of it.                                                       *)
LEMMA BeginsWith ==
  ASSUME NEW x, NEW url, Begins(x, url),
         NEW w, w = ToWrite(x), NEW r, r = x.file_remain
  PROVE  /\ HeaderLen \in Nat /\ HeaderLen # 0 /\ r \in Nat
         /\ w \in Seq(Reply) /\ Len(w) = HeaderLen + r
         /\ \A i \in 1 .. HeaderLen : w[i] = HeaderPiece(x, i)
         /\ \A i \in 1 .. r : w[HeaderLen + i] = BodyPiece(x.file, x.file_offset + i)
<1>. PICK H, n : H = HeaderLen /\ n = Len(w)
  OBVIOUS
<1>0. GoodContext(x) /\ x.code \in Code /\ x.header_sent = 0 /\ H \in Nat /\ H # 0 /\ r \in Nat
  BY ShttpdAssumption DEF Begins, GoodContext, Context
<1>1. w \in Seq(Reply) /\ n = (H - 0) + r /\ \A i \in 1 .. n : w[i] = PieceOf(x, i)
  BY <1>0, ToWritePieces
<1>2. n = H + r /\ H - 0 = H
  BY <1>0, <1>1
<1>3. ASSUME NEW i \in 1 .. H PROVE w[i] = HeaderPiece(x, i)
  <2>1. i \in 1 .. n /\ i <= H /\ 0 + i = i
    BY <1>0, <1>2
  <2>. QED  BY <1>0, <1>1, <1>2, <2>1 DEF PieceOf
<1>4. ASSUME NEW i \in 1 .. r PROVE w[H + i] = BodyPiece(x.file, x.file_offset + i)
  <2>1. H + i \in 1 .. n /\ ~ H + i <= H /\ (H + i) - H = i
    BY <1>0, <1>2
  <2>. QED  BY <1>0, <1>1, <1>2, <2>1 DEF PieceOf
<1>. QED  BY <1>0, <1>1, <1>2, <1>3, <1>4

(* What is seen of a piece of the header, and of a piece of the file.      *)
LEMMA SeenHeader ==
  ASSUME NEW x, NEW i
  PROVE  SeenAs(HeaderPiece(x, i)) = <<"header", x.code, i>>
BY DEF SeenAs, HeaderPiece

(* A piece of a file is seen as such.                                      *)
LEMMA SeenBody ==
  ASSUME NEW url, NEW i
  PROVE  SeenAs(BodyPiece(url, i)) = <<url, 200, i>>
BY DEF SeenAs, BodyPiece

(* It is that response.                                                    *)
LEMMA BeginsSeen ==
  ASSUME NEW x, NEW url, Begins(x, url)
  PROVE  Seen(ToWrite(x)) = Response(x.code, url)
<1>. PICK w, H : w = ToWrite(x) /\ H = HeaderLen
  OBVIOUS
<1>. PICK r : r = x.file_remain
  OBVIOUS
<1>1. /\ H \in Nat /\ H # 0 /\ r \in Nat
      /\ w \in Seq(Reply) /\ Len(w) = H + r
      /\ \A i \in 1 .. H : w[i] = HeaderPiece(x, i)
      /\ \A i \in 1 .. r : w[H + i] = BodyPiece(x.file, x.file_offset + i)
  BY BeginsWith
<1>. PICK s : s = Seen(w)
  OBVIOUS
<1>2. s \in Seq(Shown) /\ Len(s) = H + r /\ \A i \in 1 .. H + r : s[i] = SeenAs(w[i])
  BY <1>1, SeenType
<1>3. ASSUME NEW i \in 1 .. H PROVE s[i] = <<"header", x.code, i>>
  <2>1. i \in 1 .. H + r
    BY <1>1
  <2>. QED  BY <1>1, <1>2, <2>1, SeenHeader
<1>4. ASSUME NEW i \in 1 .. r PROVE s[H + i] = <<x.file, 200, x.file_offset + i>>
  <2>1. H + i \in 1 .. H + r
    BY <1>1
  <2>. QED  BY <1>1, <1>2, <2>1, SeenBody
<1>. PICK h : h = HeaderOf(x.code)
  OBVIOUS
<1>5. h \in Seq(Shown) /\ Len(h) = H /\ \A i \in 1 .. H : h[i] = <<"header", x.code, i>>
  <2>1. x.code \in Code
    BY DEF Begins
  <2>. QED  BY <2>1, HeaderOfType DEF HeaderOf
<1>6. CASE x.code # 200
  <2>1. x.code \in Code /\ r = 0
    BY <1>6 DEF Begins
  <2>2. Response(x.code, url) = h
    BY <1>6, <2>1, ResponseType
  <2>3. Len(s) = H
    BY <1>1, <1>2, <2>1
  <2>. QED  BY <1>2, <1>3, <1>5, <2>2, <2>3, SeqEqual
<1>7. CASE x.code = 200
  <2>. PICK b : b = BodyOf(url)
    OBVIOUS
  <2>1. url \in DOMAIN Files /\ x.file = url /\ x.file_offset = 0 /\ r = Files[url].size
        /\ x.code \in Code
    BY <1>7 DEF Begins
  <2>2. b \in Seq(Shown) /\ Len(b) = r /\ \A i \in 1 .. r : b[i] = <<url, 200, i>>
    BY <2>1, BodyOfType DEF BodyOf
  <2>. PICK t : t = h \o b
    OBVIOUS
  <2>3. t = Response(x.code, url)
    BY <1>7, <2>1, ResponseType
  <2>4. /\ t \in Seq(Shown) /\ Len(t) = H + r
        /\ \A i \in 1 .. H : t[i] = h[i]
        /\ \A i \in 1 .. r : t[H + i] = b[i]
        /\ \A i \in 1 .. H + r : i \in 1 .. H \/ (i - H \in 1 .. r /\ i = H + (i - H))
    <3>1. Joined(Shown, h, b, t, H, r)
      BY <1>5, <2>2, ConcatOf
    <3>. QED  BY <3>1 DEF Joined
  <2>5. ASSUME NEW i \in 1 .. H + r PROVE s[i] = t[i]
    <3>1. CASE i \in 1 .. H
      BY <1>3, <1>5, <2>4, <3>1
    <3>2. CASE i - H \in 1 .. r /\ i = H + (i - H)
      <4>. PICK j \in 1 .. r : j = i - H /\ i = H + j
        BY <3>2
      <4>1. 0 + j = j
        OBVIOUS
      <4>2. s[H + j] = <<url, 200, j>>
        BY <1>4, <2>1, <4>1
      <4>3. t[H + j] = b[j] /\ b[j] = <<url, 200, j>>
        BY ONLY <2>2, <2>4, j \in 1 .. r
      <4>. QED  BY <4>2, <4>3
    <3>. QED  BY <2>4, <3>1, <3>2
  <2>. QED  BY <1>2, <2>3, <2>4, <2>5, SeqEqual
<1>. QED  BY <1>6, <1>7

(* Its first piece, and no other, is the first piece of a header.          *)
LEMMA BeginsPieces ==
  ASSUME NEW x, NEW url, Begins(x, url), NEW w, w = ToWrite(x)
  PROVE  /\ w \in Seq(Reply) /\ Len(w) \in Nat /\ Len(w) >= 1 /\ w # <<>>
         /\ Header(w[1]) /\ \A j \in 2 .. Len(w) : ~ Header(w[j])
         /\ w[1].code = x.code /\ w[1].keep_alive = x.keep_alive
<1>. PICK H : H = HeaderLen
  OBVIOUS
<1>. PICK r : r = x.file_remain
  OBVIOUS
<1>1. /\ H \in Nat /\ H # 0 /\ r \in Nat
      /\ w \in Seq(Reply) /\ Len(w) = H + r
      /\ \A i \in 1 .. H : w[i] = HeaderPiece(x, i)
      /\ \A i \in 1 .. r : w[H + i] = BodyPiece(x.file, x.file_offset + i)
  BY BeginsWith
<1>2. 1 \in 1 .. H /\ H + r \in Nat /\ H + r >= 1
  BY <1>1
<1>3. w # <<>>
  <2>1. Len(w) # 0
    BY <1>1, <1>2
  <2>. QED  BY <2>1, EmptySeq
<1>4. w[1] = HeaderPiece(x, 1)
  BY <1>1, <1>2
<1>5. Header(w[1]) /\ w[1].code = x.code /\ w[1].keep_alive = x.keep_alive
  BY <1>4 DEF HeaderPiece, Header
<1>6. ASSUME NEW j \in 2 .. H + r PROVE ~ Header(w[j])
  <2>1. CASE j <= H
    <3>1. j \in 1 .. H /\ j # 1
      BY <1>1, <2>1
    <3>2. w[j] = HeaderPiece(x, j)
      BY <1>1, <3>1
    <3>. QED  BY <3>1, <3>2 DEF HeaderPiece, Header
  <2>2. CASE ~ j <= H
    <3>. PICK i \in 1 .. r : j = H + i
      <4>1. j - H \in 1 .. r /\ j = H + (j - H)
        BY <1>1, <2>2
      <4>. QED  BY <4>1
    <3>. PICK k : k = x.file_offset + i
      OBVIOUS
    <3>1. w[j] = BodyPiece(x.file, k)
      BY <1>1
    <3>. QED  BY <3>1 DEF BodyPiece, Header
  <2>. QED  BY <2>1, <2>2
<1>. QED  BY <1>1, <1>2, <1>3, <1>5, <1>6

(* What is behind the first k elements of a sequence.                      *)
LEMMA RestOf ==
  ASSUME NEW S, NEW w \in Seq(S), NEW n, n = Len(w), NEW k \in 0 .. n
  PROVE  /\ SubSeq(w, k + 1, n) \in Seq(S) /\ Len(SubSeq(w, k + 1, n)) = n - k
         /\ \A i \in 1 .. n - k : SubSeq(w, k + 1, n)[i] = w[k + i]
<1>1. n \in Nat /\ k \in Nat /\ k + 1 \in Int /\ n \in Int
  BY LenProperties
<1>2. \A i \in k + 1 .. n : w[i] \in S
  BY <1>1, ElementOfSeq
<1>. PICK s : s = SubSeq(w, k + 1, n)
  OBVIOUS
<1>3. /\ s \in Seq(S) /\ Len(s) = IF k + 1 <= n THEN n - (k + 1) + 1 ELSE 0
      /\ \A i \in 1 .. n - (k + 1) + 1 : s[i] = w[(k + 1) + i - 1]
  BY <1>1, <1>2, SubSeqProperties
<1>4. n - (k + 1) + 1 = n - k /\ (~ k + 1 <= n => n - k = 0)
      /\ \A i \in 1 .. n - k : (k + 1) + i - 1 = k + i
  BY <1>1
<1>. QED  BY <1>3, <1>4

(* After k more pieces went out, it is the rest.                           *)
LEMMA ToWriteWritten ==
  ASSUME NEW x, GoodContext(x), x.code \in Code, NEW k \in 0 .. Len(ToWrite(x))
  PROVE  /\ ToWrite(Written(x, k)) = SubSeq(ToWrite(x), k + 1, Len(ToWrite(x)))
         /\ Written(x, k).keep_alive = x.keep_alive /\ Written(x, k).read_buffer = x.read_buffer
<1>. PICK y, v, w, n : /\ y = Written(x, k) /\ v = ToWrite(y)
                       /\ w = ToWrite(x) /\ n = Len(w)
  OBVIOUS
<1>. PICK H, h, r, o : H = HeaderLen /\ h = x.header_sent /\ r = x.file_remain /\ o = x.file_offset
  OBVIOUS
<1>1. h \in 0 .. H /\ r \in Nat /\ o \in Nat /\ H \in Nat
  BY ShttpdAssumption DEF GoodContext, Context
<1>2. w \in Seq(Reply) /\ n \in Nat /\ n = (H - h) + r /\ \A i \in 1 .. n : w[i] = PieceOf(x, i)
  BY ToWritePieces
<1>. PICK header : header = IF k < H - h THEN k ELSE H - h
  OBVIOUS
<1>. PICK body : body = k - header
  OBVIOUS
<1>. PICK phase : phase = IF x.write_phase = "HEADER" /\ h + header < H
                          THEN "HEADER" ELSE "BODY"
  OBVIOUS
<1>3. y = [x EXCEPT !.header_sent = h + header, !.write_phase = phase,
                    !.file_offset = o + body, !.file_remain = r - body]
  BY Zenon DEF Written
<1>4. /\ y.header_sent = h + header /\ y.file_offset = o + body /\ y.file_remain = r - body
      /\ y.code = x.code /\ y.keep_alive = x.keep_alive /\ y.file = x.file
      /\ y.read_buffer = x.read_buffer
  BY <1>3 DEF GoodContext, Context
<1>5. GoodContext(y)
  BY <1>2, WrittenGood
<1>6. v \in Seq(Reply) /\ Len(v) = (H - (h + header)) + (r - body)
      /\ \A i \in 1 .. Len(v) : v[i] = PieceOf(y, i)
  BY <1>4, <1>5, ToWritePieces
<1>7. header \in Nat /\ body \in Nat /\ k = header + body /\ (body # 0 => header = H - h)
      /\ header <= H - h /\ Len(v) = n - k /\ k \in 0 .. n
  <2>1. k \in 0 .. n
    OBVIOUS
  <2>. PICK l : l = Len(v)
    OBVIOUS
  <2>2. l = (H - (h + header)) + (r - body)
    BY <1>6
  <2>3. n \in Nat /\ n = (H - h) + r
    BY <1>2
  <2>. QED  BY ONLY <1>1, <2>1, <2>2, <2>3, l = Len(v), body = k - header,
                    header = IF k < H - h THEN k ELSE H - h
<1>. PICK s : s = SubSeq(w, k + 1, n)
  OBVIOUS
<1>8. s \in Seq(Reply) /\ Len(s) = n - k /\ \A i \in 1 .. n - k : s[i] = w[k + i]
  <2>1. k \in 0 .. n
    OBVIOUS
  <2>2. w \in Seq(Reply)
    BY <1>2
  <2>. QED  BY ONLY <2>1, <2>2, n = Len(w), s = SubSeq(w, k + 1, n), RestOf
<1>9. ASSUME NEW i \in 1 .. n - k PROVE v[i] = s[i]
  <2>0. n \in Nat /\ n = (H - h) + r
    BY <1>2
  <2>1. k + i \in 1 .. n
    BY ONLY <1>7, <2>0, i \in 1 .. n - k
  <2>2. s[i] = PieceOf(x, k + i) /\ v[i] = PieceOf(y, i)
    BY <1>2, <1>6, <1>7, <1>8, <2>1
  <2>3. CASE i <= H - (h + header)
    <3>1. k + i <= H - h /\ h + (k + i) = (h + header) + i
      BY ONLY <1>1, <1>7, <2>0, <2>3, i \in 1 .. n - k
    <3>. QED  BY <1>4, <2>2, <2>3, <3>1 DEF PieceOf, HeaderPiece
  <2>4. CASE ~ i <= H - (h + header)
    <3>1. ~ k + i <= H - h
          /\ o + ((k + i) - (H - h)) = (o + body) + (i - (H - (h + header)))
      BY ONLY <1>1, <1>7, <2>0, <2>4, i \in 1 .. n - k
    <3>. QED  BY <1>4, <2>2, <2>4, <3>1 DEF PieceOf
  <2>. QED  BY <2>3, <2>4
<1>10. v = s
  BY <1>6, <1>7, <1>8, <1>9, SeqEqual
<1>. QED  BY <1>4, <1>10

-----------------------------------------------------------------------------
(* Answers. *)

(* What is before the last element of a longer sequence.                   *)
LEMMA FrontOfAppend ==
  ASSUME NEW S, NEW s \in Seq(S), NEW x \in S, NEW t, t = Append(s, x)
  PROVE  /\ t \in Seq(S) /\ t # <<>> /\ Front(t) = s /\ Last(t) = x
         /\ Len(s) \in Nat /\ Len(t) = Len(s) + 1
<1>. PICK n, m : n = Len(s) /\ m = Len(t)
  OBVIOUS
<1>1. /\ t \in Seq(S) /\ n \in Nat /\ m = n + 1 /\ t[n + 1] = x
      /\ \A i \in 1 .. n : t[i] = s[i]
  BY AppendOf
<1>2. m # 0 /\ m - 1 = n
  BY <1>1
<1>3. t # <<>>
  BY <1>1, <1>2, EmptySeq
<1>. PICK f : f = Front(t)
  OBVIOUS
<1>4. f \in Seq(S) /\ Len(f) = n /\ \A i \in 1 .. n : f[i] = t[i]
  <2>1. f \in Seq(S) /\ Len(f) = m - 1 /\ \A i \in 1 .. m - 1 : f[i] = t[i]
    BY ONLY <1>1, <1>3, f = Front(t), m = Len(t), FrontLast
  <2>. QED  BY <1>2, <2>1
<1>5. f = s
  BY <1>1, <1>4, SeqEqual
<1>6. Last(t) = x
  BY <1>1 DEF Last
<1>. QED  BY <1>1, <1>3, <1>5, <1>6

(* The first piece of a response is of the first response at least.        *)
LEMMA NthPositive ==
  ASSUME NEW p, NEW i \in Nat, i # 0, Header(p[i])
  PROVE  Nth(p, i) \in Nat /\ Nth(p, i) >= 1
<1>. PICK m \in Nat : i = m + 1
  <2>1. i - 1 \in Nat /\ i = (i - 1) + 1
    OBVIOUS
  <2>. QED  BY <2>1
<1>1. \A j \in m + 2 .. i : FALSE
  OBVIOUS
<1>2. Nth(p, i) = Nth(p, m) + 1
  BY <1>1, NthMore
<1>3. Nth(p, m) \in Nat
  BY NthType
<1>. QED  BY <1>2, <1>3

(* What was announced to some requests was announced to more of them.      *)
LEMMA AnnouncesMore ==
  ASSUME NEW asked \in Seq(Request), asked # <<>>, NEW sent \in Seq(Reply),
         Answers(sent, Front(asked))
  PROVE  Announces(sent, asked)
<1>. PICK f, m, n : f = Front(asked) /\ m = Len(sent) /\ n = Len(f)
  OBVIOUS
<1>1. n \in Nat /\ n = Len(asked) - 1 /\ \A i \in 1 .. n : f[i] = asked[i]
  BY FrontLast
<1>2. m \in Nat /\ DOMAIN sent = 1 .. m
  BY LenProperties
<1>3. Nth(sent, m) = n /\ Announces(sent, f)
  BY DEF Answers
<1>4. ASSUME NEW i \in DOMAIN sent, Header(sent[i]) /\ sent[i].keep_alive
      PROVE  sent[i].code = 200 /\ Deserved(asked[Nth(sent, i)]).keep_alive
  <2>1. i \in Nat /\ i # 0 /\ i \in 0 .. m
    BY <1>2, <1>4
  <2>2. Nth(sent, i) \in Nat /\ Nth(sent, i) >= 1
    BY <1>4, <2>1, NthPositive
  <2>3. Nth(sent, i) <= n
    BY <1>2, <1>3, <2>1, NthType
  <2>4. Nth(sent, i) \in 1 .. n
    BY <1>1, <2>2, <2>3
  <2>5. f[Nth(sent, i)] = asked[Nth(sent, i)]
    BY <1>1, <2>4
  <2>6. sent[i].code = 200 /\ Deserved(f[Nth(sent, i)]).keep_alive
    BY <1>3, <1>4, Zenon DEF Announces
  <2>. QED  BY <2>5, <2>6
<1>. QED  BY <1>4, Zenon DEF Announces

(* What is said in pieces is said in the first of them.                    *)
LEMMA AnnouncesPrefix ==
  ASSUME NEW asked, NEW a \in Seq(Reply), NEW b \in Seq(Reply), Announces(a \o b, asked)
  PROVE  Announces(a, asked)
<1>. PICK s, m, n : s = a \o b /\ m = Len(a) /\ n = Len(b)
  OBVIOUS
<1>1. /\ m \in Nat /\ n \in Nat /\ DOMAIN a = 1 .. m /\ DOMAIN s = 1 .. m + n
      /\ \A i \in 1 .. m : i \in 1 .. m + n /\ s[i] = a[i]
  <2>1. Joined(Reply, a, b, s, m, n)
    BY ConcatOf
  <2>. QED  BY <2>1 DEF Joined
<1>2. Announces(s, asked)
  OBVIOUS
<1>3. ASSUME NEW i \in DOMAIN a, Header(a[i]) /\ a[i].keep_alive
      PROVE  a[i].code = 200 /\ Deserved(asked[Nth(a, i)]).keep_alive
  <2>1. i \in DOMAIN s /\ s[i] = a[i] /\ i \in Nat /\ \A j \in 1 .. i : j \in 1 .. m
    BY <1>1
  <2>2. Nth(s, i) = Nth(a, i)
    BY <1>1, <2>1, NthSame
  <2>3. Header(s[i]) /\ s[i].keep_alive
    BY <1>3, <2>1
  <2>4. s[i].code = 200 /\ Deserved(asked[Nth(s, i)]).keep_alive
    BY <1>2, <2>1, <2>3, Zenon DEF Announces
  <2>. QED  BY <2>1, <2>2, <2>4
<1>. QED  BY <1>3, Zenon DEF Announces

(* A response is begun to the last request, when the others are answered.  *)
LEMMA StartsResponse ==
  ASSUME NEW asked \in Seq(Request), asked # <<>>, NEW sent \in Seq(Reply),
         Answers(sent, Front(asked)), NEW x, Begins(x, Last(asked).url),
         x.keep_alive => x.code = 200 /\ Deserved(Last(asked)).keep_alive
  PROVE  /\ ToWrite(x) # <<>> /\ ToWrite(x) \in Seq(Reply)
         /\ AnswersWith(sent \o ToWrite(x), asked, x.code)
<1>. PICK w, f, l, s : w = ToWrite(x) /\ f = Front(asked) /\ l = Last(asked) /\ s = sent \o w
  OBVIOUS
<1>. PICK m, n, k : m = Len(sent) /\ n = Len(w) /\ k = Len(f)
  OBVIOUS
<1>1. /\ w \in Seq(Reply) /\ n \in Nat /\ n >= 1 /\ w # <<>>
      /\ Header(w[1]) /\ \A j \in 2 .. n : ~ Header(w[j])
      /\ w[1].code = x.code /\ w[1].keep_alive = x.keep_alive
  BY SMTT(30), BeginsPieces
<1>2. Seen(w) = Response(x.code, l.url)
  BY BeginsSeen
<1>3. s \in Seq(Reply) /\ Seen(s) = Seen(sent) \o Seen(w)
  BY ONLY <1>1, sent \in Seq(Reply), s = sent \o w, SeenConcat
<1>4. Seen(sent) = Responses(f) /\ Nth(sent, m) = k
  BY DEF Answers
<1>5. Seen(s) = Responses(f) \o Response(x.code, l.url)
  BY <1>2, <1>3, <1>4
<1>6. /\ m \in Nat /\ Len(s) = m + n /\ DOMAIN sent = 1 .. m /\ DOMAIN s = 1 .. m + n
      /\ \A i \in 1 .. m : s[i] = sent[i]
      /\ \A i \in 1 .. n : s[m + i] = w[i]
      /\ \A i \in 1 .. m + n : i \in 1 .. m \/ (i - m \in 1 .. n /\ i = m + (i - m))
  <2>1. Joined(Reply, sent, w, s, m, n)
    BY <1>1, ConcatOf
  <2>. QED  BY <2>1 DEF Joined
<1>7. ASSUME NEW j \in m + 2 .. m + n PROVE ~ Header(s[j])
  <2>. PICK i \in 2 .. n : j = m + i /\ i \in 1 .. n
    <3>1. j - m \in 2 .. n /\ j = m + (j - m) /\ j - m \in 1 .. n
      BY <1>1, <1>6
    <3>. QED  BY <3>1
  <2>1. s[j] = w[i]
    BY <1>6
  <2>. QED  BY <1>1, <2>1
<1>8. Header(s[m + 1]) /\ s[m + 1] = w[1]
  <2>1. 1 \in 1 .. n
    BY <1>1
  <2>2. s[m + 1] = w[1]
    BY <1>6, <2>1
  <2>. QED  BY <1>1, <2>2
<1>9. Nth(s, m) = k
  <2>1. Nth(s, m) = Nth(sent, m)
    BY ONLY <1>6, NthSame
  <2>. QED  BY <1>4, <2>1
<1>10. k \in Nat /\ k = Len(asked) - 1 /\ Len(asked) \in Nat
       /\ l = asked[Len(asked)]
  BY FrontLast DEF Last
<1>11. Nth(s, m + n) = k + 1 /\ Nth(s, m + 1) = k + 1
  <2>1. m + n \in Nat /\ m + 1 \in Nat /\ m + 1 <= m + n /\ m + 1 <= m + 1
        /\ \A j \in m + 2 .. m + 1 : FALSE
    BY <1>1, <1>6
  <2>2. Nth(s, m + n) = Nth(s, m) + 1
    BY ONLY <1>6, <1>7, <1>8, <2>1, NthMore
  <2>3. Nth(s, m + 1) = Nth(s, m) + 1
    BY ONLY <1>6, <1>8, <2>1, NthMore
  <2>. QED  BY <1>9, <2>2, <2>3
<1>12. k + 1 = Len(asked) /\ asked[k + 1] = l
  BY <1>10
<1>13. Announces(sent, asked)
  BY AnnouncesMore
<1>14. ASSUME NEW i \in DOMAIN s, Header(s[i]) /\ s[i].keep_alive
       PROVE  s[i].code = 200 /\ Deserved(asked[Nth(s, i)]).keep_alive
  <2>1. CASE i \in 1 .. m
    <3>1. s[i] = sent[i] /\ i \in DOMAIN sent /\ i \in Nat /\ \A j \in 1 .. i : j \in 1 .. m
      BY <1>6, <2>1
    <3>2. Nth(s, i) = Nth(sent, i)
      BY ONLY <1>6, <3>1, NthSame
    <3>3. Header(sent[i]) /\ sent[i].keep_alive
      BY <1>14, <3>1
    <3>4. sent[i].code = 200 /\ Deserved(asked[Nth(sent, i)]).keep_alive
      BY <1>13, <3>1, <3>3, Zenon DEF Announces
    <3>. QED  BY <3>1, <3>2, <3>4
  <2>2. CASE i - m \in 1 .. n /\ i = m + (i - m)
    <3>1. i = m + 1
      <4>1. CASE i - m = 1
        BY <2>2, <4>1
      <4>2. CASE i - m # 1
        <5>1. i \in m + 2 .. m + n
          BY <1>1, <1>6, <2>2, <4>2
        <5>. QED  BY <1>7, <1>14, <5>1
      <4>. QED  BY <4>1, <4>2
    <3>2. w[1].keep_alive
      BY <1>8, <1>14, <3>1
    <3>3. x.keep_alive
      BY <1>1, <3>2
    <3>4. x.code = 200 /\ Deserved(l).keep_alive
      BY <3>3
    <3>5. s[i].code = 200
      BY <1>1, <1>8, <3>1, <3>4
    <3>6. asked[Nth(s, i)] = l
      BY <1>11, <1>12, <3>1
    <3>. QED  BY <3>4, <3>5, <3>6
  <2>. QED  BY <1>6, <2>1, <2>2
<1>15. Announces(s, asked)
  BY <1>14, Zenon DEF Announces
<1>16. Nth(s, Len(s)) = Len(asked)
  BY <1>6, <1>11, <1>12
<1>17. AnswersWith(s, asked, x.code)
  BY <1>5, <1>15, <1>16 DEF AnswersWith
<1>. QED  BY <1>1, <1>17

(* The deserved response to the last request answers it.                   *)
LEMMA AnswersLast ==
  ASSUME NEW asked \in Seq(Request), asked # <<>>, NEW sent,
         AnswersWith(sent, asked, Deserved(Last(asked)).code)
  PROVE  Answers(sent, asked)
BY ResponsesLast DEF Answers, AnswersWith, ResponseTo

(* A response that is under way is shorter than the one deserved: who has  *)
(* got all answers knows that nothing is under way.                        *)
LEMMA StillUnanswered ==
  ASSUME NEW asked \in Seq(Request), asked # <<>>, NEW sent \in Seq(Reply), NEW w \in Seq(Reply),
         NEW got \in Seq(Reply), Len(got) <= Len(sent),
         \/ Answers(sent, Front(asked))
         \/ \E code \in {Deserved(Last(asked)).code, 500} :
              w # <<>> /\ AnswersWith(sent \o w, asked, code)
  PROVE  Seen(got) # Responses(asked)
<1>. PICK f, l, u, v, s : /\ f = Front(asked) /\ l = Last(asked) /\ s = sent \o w
                          /\ u = Responses(f) /\ v = ResponseTo(l)
  OBVIOUS
<1>. PICK H, U, V, M, N : H = HeaderLen /\ U = Len(u) /\ V = Len(v) /\ M = Len(sent) /\ N = Len(w)
  OBVIOUS
<1>. PICK L : L = Len(got)
  OBVIOUS
<1>1. u \in Seq(Shown) /\ l \in Request /\ Responses(asked) = u \o v
  BY ResponsesLast
<1>2. v \in Seq(Shown) /\ V \in Nat /\ V >= H /\ U \in Nat /\ H \in Nat /\ H # 0
  BY <1>1, ResponseToType, LenProperties, ShttpdAssumption
<1>3. Len(Responses(asked)) = U + V
  BY <1>1, <1>2, ConcatProperties
<1>4. /\ Len(Seen(sent)) = M /\ M \in Nat /\ N \in Nat
      /\ Len(Seen(got)) = L /\ L \in Nat /\ L <= M
  BY SeenType, LenProperties
<1>5. CASE Answers(sent, f)
  <2>1. M = U
    BY <1>4, <1>5 DEF Answers
  <2>2. L # U + V
    BY ONLY <1>2, <1>4, <2>1
  <2>. QED  BY <1>3, <1>4, <2>1, <2>2
<1>6. ASSUME NEW code \in {Deserved(l).code, 500}, w # <<>>, AnswersWith(s, asked, code)
      PROVE  Seen(got) # Responses(asked)
  <2>1. N # 0
    BY <1>6, EmptySeq
  <2>2. s \in Seq(Reply) /\ Len(s) = M + N
    BY ConcatProperties
  <2>3. Len(Seen(s)) = M + N
    BY <2>2, SeenType
  <2>4. code \in Code /\ l.url \in DOMAIN Files
    BY <1>1, DeservedCode DEF Code
  <2>. PICK r, R : r = Response(code, l.url) /\ R = Len(r)
    OBVIOUS
  <2>5. r \in Seq(Shown) /\ R \in Nat /\ R <= V
    <3>1. CASE code = Deserved(l).code
      BY <1>2, <3>1 DEF ResponseTo
    <3>2. CASE code = 500
      <4>1. r = HeaderOf(500) /\ r \in Seq(Shown)
        BY <2>4, <3>2, ResponseType
      <4>2. R = H
        BY <2>4, <3>2, <4>1, HeaderOfType
      <4>. QED  BY <1>2, <4>1, <4>2
    <3>. QED  BY <3>1, <3>2
  <2>6. Seen(s) = u \o r
    BY <1>6 DEF AnswersWith
  <2>7. M + N = U + R
    BY <1>1, <2>3, <2>5, <2>6, ConcatProperties
  <2>8. L # U + V
    BY ONLY <1>2, <1>4, <2>1, <2>5, <2>7
  <2>. QED  BY <1>3, <1>4, <2>8
<1>. QED  BY <1>5, <1>6

-----------------------------------------------------------------------------
(* Where a connection is between a request and the end of its response. *)

(* p and v are a and b, cut after the first n elements of b.               *)
Cut(S, a, b, n, p, v) ==
  p \in Seq(S) /\ Len(p) = Len(a) + n /\ v \in Seq(S) /\ p \o v = a \o b

(* A sequence that is cut is put together again.                           *)
LEMMA CutAndJoined ==
  ASSUME NEW S, NEW a \in Seq(S), NEW b \in Seq(S), NEW n \in 0 .. Len(b),
         NEW u, u = SubSeq(b, 1, n), NEW v, v = SubSeq(b, n + 1, Len(b))
  PROVE  Cut(S, a, b, n, a \o u, v)
<1>1. u \in Seq(S) /\ Len(u) = n /\ v \in Seq(S)
  BY CutOf
<1>2. u \o v = b
  <2>1. /\ Len(b) \in Nat /\ 1 \in 1 .. Len(b) + 1 /\ n \in 1 - 1 .. Len(b)
        /\ Len(b) \in n .. Len(b)
    BY LenProperties
  <2>2. u \o v = SubSeq(b, 1, Len(b))
    BY <2>1, ConcatAdjacentSubSeq
  <2>. QED  BY <2>2, SubSeqFull
<1>3. (a \o u) \o v = a \o b
  <2>1. (a \o u) \o v = a \o (u \o v)
    <3>1. a \in Seq(S) /\ u \in Seq(S) /\ v \in Seq(S)
      BY <1>1
    <3>. QED  BY ONLY <3>1, ConcatAssociative, SMTT(30)
  <2>. QED  BY <1>2, <2>1, Zenon
<1>. QED  BY <1>1, <1>3, ConcatProperties DEF Cut

(* ServiceOK, of a state of the server's end, the client's end, what was   *)
(* asked and is left to send, what was sent, the context and what is not   *)
(* read.                                                                   *)
Service(state, open, asked, left, sent, x, unread) ==
  /\ state \in {"none", "backlog"} => x = FreshContext /\ sent = <<>>
  /\ ~ open => asked = <<>> /\ left = 0 /\ sent = <<>>
  /\ open /\ state \in {"closed", "reset"} => Ended(asked, sent)
  /\ open /\ state \notin {"closed", "reset"} /\ x.interest = {"OUT"} =>
       Responding(asked, left, sent, x, unread)
  /\ open /\ state \notin {"closed", "reset"} /\ x.interest # {"OUT"} =>
       \/ Idle(asked, left, sent, x.read_buffer \o unread)
       \/ Asking(asked, left, sent, x.read_buffer \o unread)

(* That is what ServiceOK says, before a step and after it.                *)
LEMMA ServiceOf ==
  ASSUME NEW c
  PROVE  ServiceOK(c) <=> Service(conn[c], client[c].open, client[c].asked, client[c].left,
                                  client[c].got \o sbuf[c], ctx[c], rbuf[c])
BY DEF ServiceOK, Service, Gone

(* The same after a step.                                                  *)
LEMMA ServiceThen ==
  ASSUME NEW c
  PROVE  ServiceOK(c)' <=> Service(conn'[c], client'[c].open, client'[c].asked, client'[c].left,
                                   client'[c].got \o sbuf'[c], ctx'[c], rbuf'[c])
BY DEF ServiceOK, Service, Gone

(* A connection that a step does not touch.                                *)
LEMMA ServiceFrame ==
  ASSUME NEW c, ServiceOK(c), client'[c] = client[c], conn'[c] = conn[c], ctx'[c] = ctx[c],
         rbuf'[c] = rbuf[c], sbuf'[c] = sbuf[c]
  PROVE  ServiceOK(c)'
BY ServiceOf, ServiceThen, Zenon

(* A context whose connection waits for an event, and one whose response   *)
(* says that the connection is kept or closed.                             *)
Awaiting(x, interest) == [x EXCEPT !.interest = interest]

Keeping(x, keep_alive) == [x EXCEPT !.keep_alive = keep_alive]

(* A context with this in its buffer.                                      *)
Holding(x, buffer) == [x EXCEPT !.read_buffer = buffer]

(* A refusal, and the response with a file, begin like that.               *)
LEMMA RefusalBegins ==
  ASSUME NEW x, GoodContext(x), NEW code \in Code, code # 200, NEW url,
         NEW z, z = Awaiting(Refusal(x, code), {"OUT"})
  PROVE  Begins(z, url) /\ ~ z.keep_alive /\ z.code = code /\ z.interest = {"OUT"}
<1>. PICK y : y = Refusal(x, code)
  OBVIOUS
<1>1. x \in Context /\ GoodContext(y) /\ y.code \in Code
  BY RefusalGood DEF GoodContext
<1>2. y = [x EXCEPT !.code = code, !.header_sent = 0, !.file_remain = 0,
                    !.write_phase = "HEADER", !.keep_alive = FALSE]
  BY DEF Refusal
<1>3. y.code = code /\ y.header_sent = 0 /\ y.file_remain = 0 /\ y.keep_alive = FALSE
  BY <1>1, <1>2, Zenon DEF Context
<1>4. y \in Context
  BY <1>1 DEF GoodContext
<1>5. /\ z.code = y.code /\ z.header_sent = y.header_sent /\ z.file_remain = y.file_remain
      /\ z.keep_alive = y.keep_alive /\ z.interest = {"OUT"}
  BY <1>4 DEF Context, Awaiting
<1>6. GoodContext(z)
  BY <1>1, InterestGood DEF Awaiting
<1>. QED  BY <1>3, <1>5, <1>6 DEF Begins

(* A response with a file begins with its header, and has all of the file  *)
(* to come.                                                                *)
LEMMA PreparedBegins ==
  ASSUME NEW x, GoodContext(x), NEW url \in DOMAIN Files,
         NEW z, z = Awaiting(Prepared(x, url), {"OUT"})
  PROVE  Begins(z, url) /\ z.keep_alive = x.keep_alive /\ z.code = 200 /\ z.interest = {"OUT"}
<1>. PICK y, size : y = Prepared(x, url) /\ size = Files[url].size
  OBVIOUS
<1>1. x \in Context /\ GoodContext(y) /\ y.code \in Code
  BY PreparedGood DEF GoodContext
<1>2. y = [x EXCEPT !.file = url, !.file_offset = 0, !.file_remain = size,
                    !.write_phase = "HEADER", !.code = 200, !.header_sent = 0]
  BY DEF Prepared
<1>3. /\ y.code = 200 /\ y.header_sent = 0 /\ y.file_remain = size /\ y.file = url
      /\ y.file_offset = 0 /\ y.keep_alive = x.keep_alive
  BY <1>1, <1>2, ZenonT(30) DEF Context
<1>4. y \in Context
  BY <1>1 DEF GoodContext
<1>5. /\ z.code = y.code /\ z.header_sent = y.header_sent /\ z.file_remain = y.file_remain
      /\ z.file = y.file /\ z.file_offset = y.file_offset
      /\ z.keep_alive = y.keep_alive /\ z.interest = {"OUT"}
  BY <1>4 DEF Context, Awaiting
<1>6. GoodContext(z)
  BY <1>1, InterestGood DEF Awaiting
<1>7. z.keep_alive = x.keep_alive
  BY <1>3, <1>5, Zenon
<1>8. /\ z.code = 200 /\ z.code \in Code /\ z.header_sent = 0 /\ z.file = url
      /\ z.file_offset = 0 /\ z.file_remain = Files[url].size
  BY <1>3, <1>5 DEF Code
<1>. QED  BY <1>5, <1>6, <1>7, <1>8, Zenon DEF Begins

(* A response that begins is under way.                                    *)
LEMMA BeginsResponding ==
  ASSUME NEW asked \in Seq(Request), asked # <<>>, NEW sent \in Seq(Reply), NEW left, NEW unread,
         Answers(sent, Front(asked)), NEW z, Begins(z, Last(asked).url),
         z.code \in {Deserved(Last(asked)).code, 500},
         z.keep_alive => z.code = 200 /\ Deserved(Last(asked)).keep_alive
                         /\ left = 0 /\ unread = <<>>
  PROVE  Responding(asked, left, sent, z, unread)
BY StartsResponse DEF Responding

(* Some of it goes out, not all.                                           *)
LEMMA RespondingOn ==
  ASSUME NEW asked, NEW sent \in Seq(Reply), NEW left, NEW unread,
         NEW x, GoodContext(x), x.code \in Code, Responding(asked, left, sent, x, unread),
         NEW k \in 0 .. Len(ToWrite(x)), k # Len(ToWrite(x))
  PROVE  Responding(asked, left, sent \o SubSeq(ToWrite(x), 1, k), Written(x, k), unread)
<1>. PICK w, n, y : w = ToWrite(x) /\ n = Len(w) /\ y = Written(x, k)
  OBVIOUS
<1>. PICK u, v : u = SubSeq(w, 1, k) /\ v = SubSeq(w, k + 1, n)
  OBVIOUS
<1>1. w \in Seq(Reply) /\ n \in Nat /\ n = (HeaderLen - x.header_sent) + x.file_remain
  BY ToWritePieces
<1>2. ToWrite(y) = v /\ y.keep_alive = x.keep_alive
  BY ToWriteWritten
<1>3. y.code = x.code
  BY <1>1, WrittenGood
<1>4. v # <<>>
  <2>1. k \in 0 .. n /\ k # n
    OBVIOUS
  <2>2. Len(v) = n - k
    BY <1>1, <2>1, RestOf
  <2>3. n - k # 0
    BY ONLY <1>1, <2>1
  <2>. QED  BY <2>2, <2>3, EmptySeq
<1>5. (sent \o u) \o v = sent \o w
  <2>1. k \in 0 .. Len(w) /\ v = SubSeq(w, k + 1, Len(w)) /\ sent \in Seq(Reply)
    OBVIOUS
  <2>2. w \in Seq(Reply) /\ u = SubSeq(w, 1, k)
    BY <1>1
  <2>3. Cut(Reply, sent, w, k, sent \o u, v)
    BY ONLY <2>1, <2>2, CutAndJoined
  <2>. QED  BY <2>3, Zenon DEF Cut
<1>. QED  BY <1>2, <1>3, <1>4, <1>5, Zenon DEF Responding

(* All of it goes out.                                                     *)
LEMMA RespondingDone ==
  ASSUME NEW asked \in Seq(Request), NEW sent \in Seq(Reply), NEW left, NEW unread,
         NEW x, GoodContext(x), x.code \in Code, Responding(asked, left, sent, x, unread),
         NEW k, k = Len(ToWrite(x))
  PROVE  /\ Ended(asked, sent \o SubSeq(ToWrite(x), 1, k))
         /\ x.keep_alive => Idle(asked, left, sent \o SubSeq(ToWrite(x), 1, k), <<>> \o unread)
<1>. PICK w, s : w = ToWrite(x) /\ s = sent \o w
  OBVIOUS
<1>1. w \in Seq(Reply)
  BY ToWritePieces
<1>2. SubSeq(w, 1, k) = w
  BY <1>1, SubSeqFull
<1>3. asked # <<>> /\ x.code \in {Deserved(Last(asked)).code, 500} /\ AnswersWith(s, asked, x.code)
  BY DEF Responding
<1>4. CASE x.code = Deserved(Last(asked)).code
  <2>1. Answers(s, asked)
    BY <1>3, <1>4, AnswersLast
  <2>2. ASSUME x.keep_alive PROVE left = 0 /\ <<>> \o unread = <<>>
    <3>1. left = 0 /\ unread = <<>>
      BY <2>2 DEF Responding
    <3>2. <<>> \in Seq(Reply)
      BY EmptySeq
    <3>. QED  BY <3>1, <3>2, ConcatEmptySeq
  <2>. QED  BY <1>2, <2>1, <2>2 DEF Ended, Idle
<1>5. CASE x.code = 500 /\ x.code # Deserved(Last(asked)).code
  <2>1. ~ x.keep_alive
    BY <1>5 DEF Responding
  <2>. QED  BY <1>2, <1>3, <1>5, <2>1 DEF Ended
<1>. QED  BY <1>3, <1>4, <1>5

(* Reading.  With the end of a request in the buffer nothing else is on    *)
(* its way; a full buffer without one has the long request.                *)
LEMMA ReadRequest ==
  ASSUME NEW asked \in Seq(Request), NEW left \in Nat, NEW sent,
         NEW buffer \in Seq(Piece), NEW unread \in Seq(Piece),
         Idle(asked, left, sent, buffer \o unread) \/ Asking(asked, left, sent, buffer \o unread)
  PROVE  /\ \A i \in DOMAIN buffer : buffer[i].last =>
              /\ asked # <<>> /\ Answers(sent, Front(asked)) /\ left = 0 /\ unread = <<>>
              /\ buffer[i].req = Last(asked) /\ Last(asked) # Long
         /\ Len(buffer) = MaxHdr /\ (\A i \in DOMAIN buffer : ~ buffer[i].last) =>
              asked # <<>> /\ Answers(sent, Front(asked)) /\ Last(asked) = Long
<1>. PICK held, m, n, p : /\ held = buffer \o unread /\ m = Len(buffer) /\ n = Len(unread)
                          /\ p = Pieces(Last(asked))
  OBVIOUS
<1>1. /\ m \in Nat /\ n \in Nat /\ held \in Seq(Piece) /\ Len(held) = m + n
      /\ DOMAIN buffer = 1 .. m /\ DOMAIN held = 1 .. m + n
      /\ \A i \in 1 .. m : i \in 1 .. m + n /\ held[i] = buffer[i]
  <2>1. Joined(Piece, buffer, unread, held, m, n)
    BY ConcatOf
  <2>. QED  BY <2>1 DEF Joined
<1>2. Idle(asked, left, sent, held) \/ Asking(asked, left, sent, held)
  OBVIOUS
<1>3. MaxHdr \in Nat /\ MaxHdr >= 2 /\ p \in Nat /\ (Last(asked) # Long => p = 2)
  BY ShttpdAssumption DEF Pieces
<1>4. m # 0 => ~ Idle(asked, left, sent, held)
  <2>1. m # 0 => m + n # 0
    BY ONLY <1>1
  <2>2. held = <<>> => Len(held) = 0
    BY EmptySeq
  <2>. QED  BY <1>1, <2>1, <2>2 DEF Idle
<1>5. ASSUME NEW i \in DOMAIN buffer, buffer[i].last
      PROVE  /\ asked # <<>> /\ Answers(sent, Front(asked)) /\ left = 0 /\ unread = <<>>
             /\ buffer[i].req = Last(asked) /\ Last(asked) # Long
  <2>1. m # 0 /\ i \in DOMAIN held /\ held[i] = buffer[i] /\ i \in 1 .. m
    BY <1>1
  <2>2. Asking(asked, left, sent, held)
    BY <1>2, <1>4, <2>1
  <2>3. /\ asked # <<>> /\ Answers(sent, Front(asked)) /\ m + n = p - left
        /\ buffer[i].req = Last(asked) /\ i = p /\ Last(asked) # Long
    BY <1>1, <1>5, <2>1, <2>2 DEF Asking
  <2>4. left = 0 /\ n = 0
    <3>1. left \in Nat
      OBVIOUS
    <3>. QED  BY ONLY <1>1, <1>3, <2>1, <2>3, <3>1
  <2>5. unread = <<>>
    BY <2>4, EmptySeq
  <2>. QED  BY <2>3, <2>4, <2>5
<1>6. ASSUME m = MaxHdr, \A i \in DOMAIN buffer : ~ buffer[i].last
      PROVE  asked # <<>> /\ Answers(sent, Front(asked)) /\ Last(asked) = Long
  <2>1. m # 0 /\ 2 \in 1 .. m
    BY <1>3, <1>6
  <2>2. Asking(asked, left, sent, held)
    BY <1>2, <1>4, <2>1
  <2>3. 2 \in DOMAIN held /\ ~ held[2].last
    BY <1>1, <1>6, <2>1
  <2>4. Last(asked) = Long
    BY <1>3, <2>2, <2>3 DEF Asking
  <2>. QED  BY <2>2, <2>4 DEF Asking
<1>. QED  BY <1>5, <1>6

-----------------------------------------------------------------------------
(* The server's steps between requests and responses. *)

(* The types of a connection.                                              *)
LEMMA ServiceData ==
  ASSUME EventInv, NEW c \in Client
  PROVE  /\ client[c].asked \in Seq(Request) /\ client[c].left \in Nat
         /\ client[c].got \in Seq(Reply) /\ sbuf[c] \in Seq(Reply)
         /\ client[c].got \o sbuf[c] \in Seq(Reply) /\ client[c].open \in BOOLEAN
         /\ rbuf[c] \in Seq(Piece) /\ GoodContext(ctx[c]) /\ ctx[c].read_buffer \in Seq(Piece)
         /\ ctx[c].interest \in {{"IN"}, {"OUT"}}
         /\ conn[c] \in {"none", "backlog", "open", "closed", "reset"}
<1>1. /\ client[c].asked \in Seq(Request) /\ client[c].left \in Nat
      /\ client[c].got \in Seq(Reply) /\ sbuf[c] \in Seq(Reply) /\ client[c].open \in BOOLEAN
      /\ rbuf[c] \in Seq(Piece)
  BY ClientKept DEF ClientRecord
<1>2. GoodContext(ctx[c]) /\ conn[c] \in {"none", "backlog", "open", "closed", "reset"}
  BY DEF EventInv, ConnectionOK, VariablesOK
<1>3. ctx[c].read_buffer \in Seq(Piece) /\ ctx[c].interest \in {{"IN"}, {"OUT"}}
  BY <1>2 DEF GoodContext, Context
<1>4. client[c].got \o sbuf[c] \in Seq(Reply)
  BY <1>1, ConcatProperties
<1>. QED  BY <1>1, <1>2, <1>3, <1>4

(* Only one connection is touched.                                         *)
LEMMA OneService ==
  ASSUME NEW c \in Client, \A d \in Client : ServiceOK(d), ServiceOK(c)',
         \A d \in Client : d # c => /\ client'[d] = client[d] /\ conn'[d] = conn[d]
                                    /\ ctx'[d] = ctx[d] /\ rbuf'[d] = rbuf[d]
                                    /\ sbuf'[d] = sbuf[d]
  PROVE  \A d \in Client : ServiceOK(d)'
<1>1. ASSUME NEW d \in Client, d # c PROVE ServiceOK(d)'
  BY <1>1, ServiceFrame
<1>. QED  BY <1>1, Zenon

(* What a handler leaves of the connection that asked.                     *)
Outcome(c, asked, left, sent, unread) ==
  \/ conn'[c] \in {"closed", "reset"}
  \/ /\ conn'[c] = conn[c] /\ ctx'[c].interest = {"OUT"}
     /\ Responding(asked, left, sent, ctx'[c], unread)

(* epoll_ctl() changes the context's interest and leaves the socket.       *)
LEMMA RearmOutcome ==
  ASSUME EventInv, NEW c \in Client, NEW x, NEW interest, Rearm(c, x, interest)
  PROVE  conn' = conn /\ ctx' = [ctx EXCEPT ![c] = Awaiting(x, interest)]
         /\ ctx'[c] = Awaiting(x, interest)
<1>1. c \in DOMAIN ctx
  BY DEF EventInv, VariablesOK
<1>2. conn' = conn /\ ctx' = [ctx EXCEPT ![c] = Awaiting(x, interest)]
  BY DEF Rearm, Awaiting
<1>. QED  BY <1>1, <1>2, Zenon

(* close_connection() closes the socket or resets it.                      *)
LEMMA CloseOutcome ==
  ASSUME EventInv, NEW c \in Client, CloseConnection(c)
  PROVE  conn'[c] \in {"closed", "reset"}
<1>1. c \in DOMAIN conn
  BY DEF EventInv, VariablesOK
<1>2. conn' = [conn EXCEPT ![c] = IF rbuf'[c] = <<>> THEN "closed" ELSE "reset"]
  BY DEF CloseConnection
<1>. QED  BY <1>1, <1>2

(* send_error() begins a response that nothing follows.                    *)
LEMMA RefusalOutcome ==
  ASSUME EventInv, NEW c \in Client, NEW asked \in Seq(Request), asked # <<>>, NEW left,
         NEW sent \in Seq(Reply), NEW unread, Answers(sent, Front(asked)),
         NEW x, GoodContext(x), NEW code \in Code, code # 200,
         code \in {Deserved(Last(asked)).code, 500},
         NEW y, y = Refusal(x, code), Rearm(c, y, {"OUT"})
  PROVE  Outcome(c, asked, left, sent, unread)
<1>. PICK z : z = Awaiting(y, {"OUT"})
  OBVIOUS
<1>1. Begins(z, Last(asked).url) /\ ~ z.keep_alive /\ z.code = code /\ z.interest = {"OUT"}
  BY RefusalBegins
<1>2. conn' = conn /\ ctx'[c] = z
  BY RearmOutcome
<1>3. z.code \in {Deserved(Last(asked)).code, 500}
  BY <1>1
<1>4. Responding(asked, left, sent, z, unread)
  BY <1>1, <1>3, BeginsResponding
<1>5. conn'[c] = conn[c] /\ ctx'[c] = z /\ z.interest = {"OUT"}
  BY <1>1, <1>2
<1>6. ctx'[c].interest = {"OUT"} /\ Responding(asked, left, sent, ctx'[c], unread)
  BY <1>4, <1>5
<1>. QED  BY <1>5, <1>6 DEF Outcome

(* send_error() leaves a refusal under way, or no connection.              *)
LEMMA SendErrorOutcome ==
  ASSUME EventInv, NEW c \in Client, NEW asked \in Seq(Request), asked # <<>>, NEW left,
         NEW sent \in Seq(Reply), NEW unread, Answers(sent, Front(asked)),
         NEW x, GoodContext(x), NEW code \in Code, code # 200,
         code \in {Deserved(Last(asked)).code, 500}, SendError(c, x, code)
  PROVE  Outcome(c, asked, left, sent, unread)
<1>1. CASE Rearm(c, Refusal(x, code), {"OUT"})
  BY <1>1, RefusalOutcome
<1>2. CASE CloseConnection(c)
  BY <1>2, CloseOutcome DEF Outcome
<1>. QED  BY <1>1, <1>2 DEF SendError

(* A complete request: the response it deserves begins, or an internal     *)
(* error, or the connection is closed.                                     *)
LEMMA RespondOutcome ==
  ASSUME EventInv, NEW c \in Client, NEW asked \in Seq(Request), asked # <<>>,
         NEW left, left = 0, NEW sent \in Seq(Reply), NEW unread, unread = <<>>,
         Answers(sent, Front(asked)), NEW x, GoodContext(x), Last(asked) # Long,
         Respond(c, x, Last(asked))
  PROVE  Outcome(c, asked, left, sent, unread)
<1>. PICK l : l = Last(asked)
  OBVIOUS
<1>. PICK code, kept, status :
       /\ code = ParseRequest(l).code /\ kept = (ParseRequest(l).keep_alive /\ ~ g_stop)
       /\ status = FileStatus(l.url)
  OBVIOUS
<1>. PICK y : y = Keeping(x, kept)
  OBVIOUS
<1>. PICK prepared, refusal, failed : /\ prepared = Prepared(y, l.url)
                                      /\ refusal = Refusal(y, 500)
                                      /\ failed = Refusal(prepared, 500)
  OBVIOUS
<1>1. l \in Request /\ l # Long /\ l.url \in DOMAIN Files
  BY FrontLast, DeservedCode
<1>2. /\ code \in {200, 400}
      /\ code = 400 => Deserved(l).code = 400
      /\ code = 200 => /\ Deserved(l).code = status
                       /\ Deserved(l).keep_alive = ParseRequest(l).keep_alive
  BY <1>1, ParserRight
<1>3. kept \in BOOLEAN /\ status \in {200, 403, 404}
  BY DEF FileStatus
<1>4. GoodContext(y)
  BY <1>3, KeepAliveGood DEF Keeping
<1>5. Respond(c, x, l)
  OBVIOUS
<1>12. IF code # 200 THEN SendError(c, x, code)
       ELSE IF status # 200 THEN SendError(c, y, status)
       ELSE \/ Fail(0) /\ Rearm(c, prepared, {"OUT"})
            \/ Fail(1) /\ Rearm(c, refusal, {"OUT"})
            \/ Fail(1) /\ Rearm(c, failed, {"OUT"})
            \/ Fail(2) /\ CloseConnection(c)
  BY <1>5, ZenonT(30) DEF Respond, Keeping
<1>6. \/ code # 200 /\ SendError(c, x, code)
      \/ code = 200 /\ status # 200 /\ SendError(c, y, status)
      \/ /\ code = 200 /\ status = 200
         /\ \/ Rearm(c, prepared, {"OUT"})
            \/ Rearm(c, refusal, {"OUT"})
            \/ Rearm(c, failed, {"OUT"})
            \/ CloseConnection(c)
  BY <1>12, Zenon
<1>7. CASE code # 200 /\ SendError(c, x, code)
  <2>1. code = 400 /\ code \in Code /\ code \in {Deserved(Last(asked)).code, 500}
    BY <1>2, <1>7 DEF Code
  <2>. QED  BY <1>7, <2>1, SendErrorOutcome
<1>8. CASE code = 200 /\ status # 200 /\ SendError(c, y, status)
  <2>1. status \in Code /\ status \in {Deserved(Last(asked)).code, 500}
    BY <1>2, <1>3, <1>8 DEF Code
  <2>. QED  BY <1>4, <1>8, <2>1, SendErrorOutcome
<1>9. CASE code = 200 /\ status = 200 /\ Rearm(c, prepared, {"OUT"})
  <2>. PICK z : z = Awaiting(prepared, {"OUT"})
    OBVIOUS
  <2>1. Begins(z, l.url) /\ z.keep_alive = y.keep_alive /\ z.code = 200 /\ z.interest = {"OUT"}
    BY <1>1, <1>4, PreparedBegins
  <2>2. conn' = conn /\ ctx'[c] = z
    BY <1>9, RearmOutcome
  <2>3. z.code \in {Deserved(Last(asked)).code, 500}
    BY <1>2, <1>9, <2>1
  <2>4. y.keep_alive = kept
    BY DEF GoodContext, Context, Keeping
  <2>5. z.keep_alive => Deserved(Last(asked)).keep_alive
    <3>1. Deserved(l).keep_alive = ParseRequest(l).keep_alive
      BY <1>2, <1>9, Zenon
    <3>2. ASSUME z.keep_alive PROVE ParseRequest(l).keep_alive
      <4>1. kept
        BY <2>1, <2>4, <3>2, Zenon
      <4>. QED  BY <4>1, Zenon
    <3>. QED  BY <3>1, <3>2, Zenon
  <2>6. Responding(asked, left, sent, z, unread)
    BY <2>1, <2>3, <2>5, BeginsResponding
  <2>. QED  BY <2>1, <2>2, <2>6, Zenon DEF Outcome
<1>10. CASE Rearm(c, refusal, {"OUT"}) \/ Rearm(c, failed, {"OUT"})
  <2>1. 500 \in Code /\ GoodContext(prepared)
    BY <1>1, <1>4, PreparedGood DEF Code
  <2>2. CASE Rearm(c, refusal, {"OUT"})
    BY <1>4, <2>1, <2>2, RefusalOutcome
  <2>3. CASE Rearm(c, failed, {"OUT"})
    BY <2>1, <2>3, RefusalOutcome
  <2>. QED  BY <1>10, <2>2, <2>3
<1>11. CASE CloseConnection(c)
  BY <1>11, CloseOutcome DEF Outcome
<1>. QED  BY <1>6, <1>7, <1>8, <1>9, <1>10, <1>11

(* A connection that was closed between two responses.                     *)
LEMMA ClosedService ==
  ASSUME NEW state \in {"closed", "reset"}, NEW open \in BOOLEAN, NEW asked, NEW left, NEW sent,
         NEW x, NEW unread, open => Ended(asked, sent),
         ~ open => asked = <<>> /\ left = 0 /\ sent = <<>>
  PROVE  Service(state, open, asked, left, sent, x, unread)
BY DEF Service

(* One whose client is gone.                                               *)
LEMMA GoneService ==
  ASSUME NEW state, state \notin {"none", "backlog"}, NEW left, left = 0,
         NEW asked, asked = <<>>, NEW sent, sent = <<>>, NEW x, NEW unread
  PROVE  Service(state, FALSE, asked, left, sent, x, unread)
BY DEF Service

(* One that waits for a request or for its end, and one that is written.   *)
LEMMA ReadService ==
  ASSUME NEW x, x.interest = {"IN"}, NEW asked, NEW left, NEW sent, NEW unread,
         \/ Idle(asked, left, sent, x.read_buffer \o unread)
         \/ Asking(asked, left, sent, x.read_buffer \o unread)
  PROVE  Service("open", TRUE, asked, left, sent, x, unread)
<1>1. {"IN"} # {"OUT"}
  OBVIOUS
<1>. QED  BY <1>1 DEF Service

(* One whose response is under way.                                        *)
LEMMA WriteService ==
  ASSUME NEW x, x.interest = {"OUT"}, NEW asked, NEW left, NEW sent, NEW unread,
         Responding(asked, left, sent, x, unread)
  PROVE  Service("open", TRUE, asked, left, sent, x, unread)
BY DEF Service

(* What Service says of an open connection.                                *)
LEMMA OpenService ==
  ASSUME NEW open, NEW asked, NEW left, NEW sent, NEW x, NEW unread,
         Service("open", open, asked, left, sent, x, unread),
         x.interest \in {{"IN"}, {"OUT"}}
  PROVE  /\ ~ open => asked = <<>> /\ left = 0 /\ sent = <<>>
         /\ open /\ x.interest = {"OUT"} => Responding(asked, left, sent, x, unread)
         /\ open /\ x.interest = {"IN"} =>
              \/ Idle(asked, left, sent, x.read_buffer \o unread)
              \/ Asking(asked, left, sent, x.read_buffer \o unread)
<1>1. {"IN"} # {"OUT"}
  OBVIOUS
<1>. QED  BY <1>1 DEF Service

(* A connection may end while it is read.                                  *)
LEMMA MayEnd ==
  ASSUME NEW asked, NEW left, NEW sent, NEW held,
         Idle(asked, left, sent, held) \/ Asking(asked, left, sent, held)
  PROVE  Ended(asked, sent)
BY DEF Idle, Asking, Ended

(* What handle_epollin() does when it has read.                            *)
Reads(c, y, buffer) ==
  \/ \E i \in DOMAIN buffer : buffer[i].last /\ Respond(c, y, buffer[i].req)
  \/ /\ \A i \in DOMAIN buffer : ~ buffer[i].last
     /\ Len(buffer) = MaxHdr /\ SendError(c, y, 400)
  \/ CloseConnection(c)
  \/ ctx' = [ctx EXCEPT ![c] = y] /\ UNCHANGED conn

(* It has read context x, for which there was something before, so that    *)
(* there is y and something is unread.                                     *)
HasRead(open, asked, left, sent, x, before, y, unread) ==
  /\ open \in BOOLEAN /\ asked \in Seq(Request) /\ left \in Nat /\ sent \in Seq(Reply)
  /\ x.interest = {"IN"} /\ GoodContext(y) /\ y.interest = {"IN"}
  /\ y.read_buffer \in Seq(Piece) /\ unread \in Seq(Piece)
  /\ y.read_buffer \o unread = x.read_buffer \o before
  /\ Service("open", open, asked, left, sent, x, before)

(* What has been read is, or is not yet, the one request that was asked.   *)
LEMMA ReadOutcome ==
  ASSUME EventInv, NEW c \in Client, conn[c] = "open", conn'[c] \in {"open", "closed", "reset"},
         NEW open, NEW asked, NEW left, NEW sent, NEW x, NEW before, NEW y, NEW unread,
         HasRead(open, asked, left, sent, x, before, y, unread), Reads(c, y, y.read_buffer)
  PROVE  Service(conn'[c], open, asked, left, sent, ctx'[c], unread)
<1>. PICK buffer : buffer = y.read_buffer
  OBVIOUS
<1>0. /\ open \in BOOLEAN /\ asked \in Seq(Request) /\ left \in Nat /\ sent \in Seq(Reply)
      /\ x.interest = {"IN"} /\ GoodContext(y) /\ y.interest = {"IN"}
      /\ buffer \in Seq(Piece) /\ unread \in Seq(Piece)
      /\ buffer \o unread = x.read_buffer \o before
      /\ Service("open", open, asked, left, sent, x, before) /\ Reads(c, y, buffer)
  BY DEF HasRead
<1>. USE <1>0
<1>1. x.interest \in {{"IN"}, {"OUT"}}
  OBVIOUS
<1>2. /\ ~ open => asked = <<>> /\ left = 0 /\ sent = <<>>
      /\ open => \/ Idle(asked, left, sent, buffer \o unread)
                 \/ Asking(asked, left, sent, buffer \o unread)
  <2>1. Service("open", open, asked, left, sent, x, before) /\ x.interest = {"IN"}
    OBVIOUS
  <2>. PICK held : held = x.read_buffer \o before
    OBVIOUS
  <2>2. /\ ~ open => asked = <<>> /\ left = 0 /\ sent = <<>>
        /\ open => Idle(asked, left, sent, held) \/ Asking(asked, left, sent, held)
    BY ONLY <1>1, <2>1, held = x.read_buffer \o before, OpenService
  <2>3. held = buffer \o unread
    OBVIOUS
  <2>. QED  BY ONLY <2>2, <2>3
<1>3. CASE ~ open
  <2>1. asked = <<>> /\ left = 0 /\ sent = <<>> /\ open = FALSE
    BY <1>2, <1>3
  <2>. QED  BY <2>1, GoneService
<1>4. CASE open
  <2>1. \/ Idle(asked, left, sent, buffer \o unread)
        \/ Asking(asked, left, sent, buffer \o unread)
    BY <1>2, <1>4
  <2>2. Ended(asked, sent) /\ open = TRUE
    BY <1>4, <2>1, MayEnd
  <2>3. CASE conn'[c] \in {"closed", "reset"}
    BY <1>4, <2>2, <2>3, ClosedService
  <2>4. ASSUME Outcome(c, asked, left, sent, unread)
        PROVE  Service(conn'[c], open, asked, left, sent, ctx'[c], unread)
    <3>1. CASE /\ conn'[c] = conn[c] /\ ctx'[c].interest = {"OUT"}
               /\ Responding(asked, left, sent, ctx'[c], unread)
      <4>. PICK z : z = ctx'[c]
        OBVIOUS
      <4>1. conn'[c] = "open" /\ z.interest = {"OUT"} /\ Responding(asked, left, sent, z, unread)
        BY <3>1
      <4>2. Service("open", TRUE, asked, left, sent, z, unread)
        BY <4>1, WriteService
      <4>. QED  BY <2>2, <4>1, <4>2
    <3>. QED  BY <2>3, <2>4, <3>1 DEF Outcome
  <2>5. ASSUME NEW i \in DOMAIN buffer, buffer[i].last, Respond(c, y, buffer[i].req)
        PROVE  Outcome(c, asked, left, sent, unread)
    <3>1. /\ asked # <<>> /\ Answers(sent, Front(asked)) /\ left = 0 /\ unread = <<>>
          /\ buffer[i].req = Last(asked) /\ Last(asked) # Long
      <4>1. \A j \in DOMAIN buffer : buffer[j].last =>
              /\ asked # <<>> /\ Answers(sent, Front(asked)) /\ left = 0 /\ unread = <<>>
              /\ buffer[j].req = Last(asked) /\ Last(asked) # Long
        BY ONLY <2>1, asked \in Seq(Request), left \in Nat, buffer \in Seq(Piece),
                unread \in Seq(Piece), ReadRequest
      <4>. QED  BY ONLY <2>5, <4>1
    <3>. QED  BY <2>5, <3>1, RespondOutcome
  <2>6. ASSUME \A i \in DOMAIN buffer : ~ buffer[i].last, Len(buffer) = MaxHdr,
               SendError(c, y, 400)
        PROVE  Outcome(c, asked, left, sent, unread)
    <3>1. asked # <<>> /\ Answers(sent, Front(asked)) /\ Last(asked) = Long
      BY <2>1, <2>6, ReadRequest
    <3>2. Last(asked) \in Request
      BY <3>1, FrontLast
    <3>3. 400 \in Code /\ 400 \in {Deserved(Last(asked)).code, 500}
      BY <3>1, <3>2, DeservedCode DEF Code
    <3>. QED  BY <2>6, <3>1, <3>3, SendErrorOutcome
  <2>7. CASE CloseConnection(c)
    BY <2>3, <2>7, CloseOutcome
  <2>8. CASE ctx' = [ctx EXCEPT ![c] = y] /\ UNCHANGED conn
    <3>1. ctx'[c] = y /\ conn'[c] = "open"
      BY <2>8 DEF EventInv, VariablesOK
    <3>2. Service("open", TRUE, asked, left, sent, y, unread)
      BY <2>1, ReadService
    <3>. QED  BY <2>2, <3>1, <3>2
  <2>. QED  BY <2>4, <2>5, <2>6, <2>7, <2>8 DEF Reads
<1>. QED  BY <1>3, <1>4

(* handle_epollin() finds the one request that was asked, whole.           *)
LEMMA HandleEpollinServes ==
  ASSUME EventInv, \A d \in Client : ServiceOK(d), NEW c \in Client, HandleEpollin(c)
  PROVE  \A d \in Client : ServiceOK(d)'
<1>. PICK x, room, n, buffer, y, unread :
       /\ x = ctx[c] /\ room = MaxHdr - Len(x.read_buffer)
       /\ n = IF Len(rbuf[c]) < room THEN Len(rbuf[c]) ELSE room
       /\ buffer = x.read_buffer \o SubSeq(rbuf[c], 1, n)
       /\ y = Holding(x, buffer)
       /\ unread = SubSeq(rbuf[c], n + 1, Len(rbuf[c]))
  OBVIOUS
<1>. PICK open, asked, left, sent :
       /\ open = client[c].open /\ asked = client[c].asked /\ left = client[c].left
       /\ sent = client[c].got \o sbuf[c]
  OBVIOUS
<1>1. /\ batch # <<>> /\ NextEvent.fd = c /\ "IN" \in NextEvent.flags /\ EventDone({"IN"})
      /\ UNCHANGED <<client, sbuf>> /\ rbuf' = [rbuf EXCEPT ![c] = unread]
  BY DEF HandleEpollin
<1>2. Reads(c, y, buffer)
  BY ZenonT(30) DEF HandleEpollin, Holding, Reads
<1>3. /\ asked \in Seq(Request) /\ left \in Nat /\ sent \in Seq(Reply) /\ open \in BOOLEAN
      /\ rbuf[c] \in Seq(Piece) /\ GoodContext(x) /\ x.read_buffer \in Seq(Piece)
  BY ServiceData
<1>4. conn[c] = "open" /\ x.interest = {"IN"}
  BY <1>1, EventOf, EventOff
<1>5. /\ n \in 0 .. Len(rbuf[c]) /\ n \in Nat /\ n <= room
      /\ Len(x.read_buffer) \in Nat /\ MaxHdr \in Nat
  <2>1. Len(rbuf[c]) \in Nat /\ Len(x.read_buffer) \in Nat /\ MaxHdr \in Nat
        /\ Len(x.read_buffer) <= MaxHdr
    BY <1>3, LenProperties, ShttpdAssumption DEF GoodContext
  <2>. PICK l, m : l = Len(x.read_buffer) /\ m = Len(rbuf[c])
    OBVIOUS
  <2>2. room = MaxHdr - l /\ n = IF m < room THEN m ELSE room
    OBVIOUS
  <2>3. m \in Nat /\ l \in Nat /\ MaxHdr \in Nat /\ l <= MaxHdr
    BY <2>1
  <2>4. n \in 0 .. m /\ n \in Nat /\ n <= room
    BY ONLY <2>2, <2>3
  <2>. QED  BY <2>1, <2>4
<1>6. buffer \in Seq(Piece) /\ Len(buffer) <= MaxHdr /\ unread \in Seq(Piece)
      /\ buffer \o unread = x.read_buffer \o rbuf[c]
  <2>1. Cut(Piece, x.read_buffer, rbuf[c], n, buffer, unread)
    BY <1>3, <1>5, CutAndJoined
  <2>. PICK l, m : l = Len(x.read_buffer) /\ m = Len(buffer)
    OBVIOUS
  <2>2. m = l + n /\ room = MaxHdr - l
    BY <2>1 DEF Cut
  <2>3. n \in Nat /\ n <= room /\ l \in Nat /\ MaxHdr \in Nat
    BY <1>5
  <2>4. m <= MaxHdr
    BY ONLY <2>2, <2>3
  <2>. QED  BY <2>1, <2>4, Zenon DEF Cut
<1>7. GoodContext(y) /\ y.read_buffer = buffer /\ y.interest = {"IN"}
  <2>1. GoodContext(y)
    BY <1>3, <1>6, BufferGood DEF Holding
  <2>. QED  BY <1>3, <1>4, <2>1 DEF GoodContext, Context, Holding
<1>8. /\ rbuf'[c] = unread /\ client'[c] = client[c] /\ sbuf'[c] = sbuf[c]
      /\ \A d \in Client : d # c => rbuf'[d] = rbuf[d] /\ client'[d] = client[d] /\ sbuf'[d] = sbuf[d]
  BY <1>1, ClientKept
<1>9. Served(c)
  <2>1. VariablesOK
    BY DEF EventInv
  <2>2. ASSUME NEW i \in DOMAIN buffer, Respond(c, y, buffer[i].req) PROVE Served(c)
    <3>1. buffer[i] \in Piece
      BY <1>6, ElementOfSeq, LenProperties
    <3>2. buffer[i].req \in Request
      BY <3>1 DEF Piece
    <3>. QED  BY <1>7, <3>2, <2>1, <2>2, <3>1, RespondServes
  <2>3. CASE SendError(c, y, 400)
    <3>1. 400 \in Code
      BY DEF Code
    <3>. QED  BY ONLY <1>7, <2>1, <2>3, <3>1, SendErrorServes
  <2>4. CASE CloseConnection(c)
    BY <2>4, CloseServes
  <2>5. Served(c) \/ (ctx' = [ctx EXCEPT ![c] = y] /\ UNCHANGED <<conn, ready, active_connections>>)
    BY <2>2, <2>3, <2>4, ZenonT(30) DEF HandleEpollin, Holding
  <2>. QED  BY <1>7, <2>5 DEF Served
<1>10. /\ \A d \in Client : d # c => conn'[d] = conn[d] /\ ctx'[d] = ctx[d]
       /\ conn'[c] \in {"open", "closed", "reset"}
  BY <1>4, <1>9 DEF Served, EventInv, VariablesOK
<1>11. Service("open", open, asked, left, sent, x, rbuf[c])
  BY <1>4, ServiceOf
<1>12. Service(conn'[c], open, asked, left, sent, ctx'[c], unread)
  <2>1. HasRead(open, asked, left, sent, x, rbuf[c], y, unread)
    BY <1>3, <1>4, <1>6, <1>7, <1>11 DEF HasRead
  <2>2. Reads(c, y, y.read_buffer)
    BY <1>2, <1>7
  <2>. QED  BY <1>4, <1>10, <2>1, <2>2, ReadOutcome
<1>13. ServiceOK(c)'
  BY <1>8, <1>12, ServiceThen
<1>. QED  BY <1>8, <1>10, <1>13, OneService

(* A context that is read again.                                           *)
LEMMA ResetRead ==
  ASSUME NEW x, GoodContext(x), NEW z, z = Awaiting(ResetContext(x), {"IN"})
  PROVE  z.read_buffer = <<>> /\ z.interest = {"IN"}
<1>. PICK y, e : y = ResetContext(x) /\ e = <<>>
  OBVIOUS
<1>. PICK x1 : x1 = [x EXCEPT !.read_buffer = e, !.file = NoFile, !.file_offset = 0]
  OBVIOUS
<1>1. y = [x1 EXCEPT !.file_remain = 0, !.write_phase = "HEADER", !.code = 0, !.header_sent = 0]
  BY DEF ResetContext
<1>2. x1.read_buffer = e /\ DOMAIN x1 = DOMAIN x
  BY DEF GoodContext, Context
<1>3. y.read_buffer = e /\ DOMAIN y = DOMAIN x
  BY <1>1, <1>2
<1>4. "interest" \in DOMAIN x
  BY DEF GoodContext, Context
<1>. QED  BY <1>3, <1>4 DEF Awaiting

(* What handle_epollout() does when it has written k pieces.               *)
Writes(c, x, k) ==
  \/ k # Len(ToWrite(x)) /\ ctx' = [ctx EXCEPT ![c] = Written(x, k)] /\ UNCHANGED conn
  \/ k = Len(ToWrite(x)) /\ CloseConnection(c)
  \/ k = Len(ToWrite(x)) /\ x.keep_alive /\ Rearm(c, ResetContext(Written(x, k)), {"IN"})

HasWritten(asked, left, sent, x, unread, k) ==
  /\ asked \in Seq(Request) /\ sent \in Seq(Reply)
  /\ GoodContext(x) /\ x.code \in Code /\ x.interest = {"OUT"}
  /\ k \in 0 .. Len(ToWrite(x)) /\ Responding(asked, left, sent, x, unread)

(* A response goes on, or it was the whole of it.                          *)
LEMMA WriteOutcome ==
  ASSUME EventInv, NEW c \in Client, conn[c] = "open",
         NEW asked, NEW left, NEW sent, NEW x, NEW unread, NEW k,
         HasWritten(asked, left, sent, x, unread, k), Writes(c, x, k),
         NEW now, now = sent \o SubSeq(ToWrite(x), 1, k)
  PROVE  Service(conn'[c], TRUE, asked, left, now, ctx'[c], unread)
<1>1. /\ asked \in Seq(Request) /\ sent \in Seq(Reply)
      /\ GoodContext(x) /\ x.code \in Code /\ x.interest = {"OUT"}
      /\ k \in 0 .. Len(ToWrite(x)) /\ Responding(asked, left, sent, x, unread)
  BY DEF HasWritten
<1>. PICK y : y = Written(x, k)
  OBVIOUS
<1>2. c \in DOMAIN ctx /\ c \in DOMAIN conn
  BY DEF EventInv, VariablesOK
<1>3. GoodContext(y) /\ y.interest = {"OUT"}
  <2>1. Len(ToWrite(x)) = (HeaderLen - x.header_sent) + x.file_remain
    BY <1>1, ToWritePieces
  <2>. QED  BY <1>1, <2>1, WrittenGood
<1>4. CASE k # Len(ToWrite(x)) /\ ctx' = [ctx EXCEPT ![c] = y] /\ UNCHANGED conn
  <2>1. ctx'[c] = y /\ conn'[c] = "open"
    BY <1>2, <1>4
  <2>2. Responding(asked, left, now, y, unread)
    BY <1>1, <1>4, RespondingOn
  <2>3. Service("open", TRUE, asked, left, now, y, unread)
    BY <1>3, <2>2, WriteService
  <2>. QED  BY <2>1, <2>3, Zenon
<1>5. ASSUME k = Len(ToWrite(x))
      PROVE  Ended(asked, now) /\ (x.keep_alive => Idle(asked, left, now, <<>> \o unread))
  BY <1>1, <1>5, RespondingDone
<1>6. CASE k = Len(ToWrite(x)) /\ CloseConnection(c)
  <2>1. conn'[c] \in {"closed", "reset"} /\ Ended(asked, now)
    BY <1>5, <1>6, CloseOutcome
  <2>. QED  BY <2>1, ClosedService
<1>7. CASE k = Len(ToWrite(x)) /\ x.keep_alive /\ Rearm(c, ResetContext(y), {"IN"})
  <2>. PICK r, z : r = ResetContext(y) /\ z = Awaiting(r, {"IN"})
    OBVIOUS
  <2>1. conn' = conn /\ ctx'[c] = z
    BY <1>7, RearmOutcome
  <2>2. z.read_buffer = <<>> /\ z.interest = {"IN"}
    BY <1>3, ResetRead
  <2>3. Idle(asked, left, now, z.read_buffer \o unread)
    BY <1>5, <1>7, <2>2
  <2>4. Service("open", TRUE, asked, left, now, z, unread)
    BY <2>2, <2>3, ReadService
  <2>. QED  BY <2>1, <2>4
<1>. QED  BY <1>4, <1>6, <1>7 DEF Writes

(* What was sent, when more of it is put into the send buffer.             *)
LEMMA SentMore ==
  ASSUME NEW got \in Seq(Reply), NEW s \in Seq(Reply), NEW w \in Seq(Reply),
         NEW t, t = s \o w, NEW sent, sent = got \o s
  PROVE  got \o t = sent \o w
<1>1. (got \o s) \o w = got \o (s \o w)
  <2>1. got \in Seq(Reply) /\ s \in Seq(Reply) /\ w \in Seq(Reply)
    OBVIOUS
  <2>. QED  BY ONLY <2>1, ConcatAssociative
<1>. QED  BY <1>1

(* handle_epollout() goes on where the last write ended.                   *)
LEMMA HandleEpolloutServes ==
  ASSUME EventInv, \A d \in Client : ServiceOK(d), NEW c \in Client, HandleEpollout(c)
  PROVE  \A d \in Client : ServiceOK(d)'
<1>. PICK x, rest, room, k, y :
       /\ x = ctx[c] /\ rest = ToWrite(x)
       /\ room = IF Gone(c) THEN Len(rest) ELSE SndBuf - Len(sbuf[c])
       /\ k = IF Len(rest) < room THEN Len(rest) ELSE room
       /\ y = Written(x, k)
  OBVIOUS
<1>. PICK open, asked, left, sent, unread :
       /\ open = client[c].open /\ asked = client[c].asked /\ left = client[c].left
       /\ sent = client[c].got \o sbuf[c] /\ unread = rbuf[c]
  OBVIOUS
<1>. PICK more : more = SubSeq(rest, 1, k)
  OBVIOUS
<1>1. /\ batch # <<>> /\ NextEvent.fd = c /\ NextEvent.flags = {"OUT"}
      /\ UNCHANGED <<client, rbuf>>
  BY DEF HandleEpollout
<1>2. \/ Gone(c) /\ CloseConnection(c) /\ UNCHANGED sbuf
      \/ /\ sbuf' = [sbuf EXCEPT ![c] = IF Gone(c) THEN sbuf[c] ELSE sbuf[c] \o more]
         /\ Writes(c, x, k)
  BY ZenonT(30) DEF HandleEpollout, Writes, AllWritten
<1>3. /\ asked \in Seq(Request) /\ sent \in Seq(Reply) /\ open \in BOOLEAN
      /\ client[c].got \in Seq(Reply) /\ sbuf[c] \in Seq(Reply) /\ GoodContext(x)
  BY ServiceData
<1>4. conn[c] = "open" /\ x.interest = {"OUT"} /\ x.code \in Code /\ Len(sbuf[c]) <= SndBuf
  <2>1. conn[c] = "open" /\ x.interest = {"OUT"} /\ Len(sbuf[c]) <= SndBuf
    BY <1>1, EventOf
  <2>. QED  BY <1>3, <2>1 DEF GoodContext
<1>5. rest \in Seq(Reply) /\ Len(rest) \in Nat
  BY <1>3, <1>4, ToWriteType, LenProperties
<1>6. k \in 0 .. Len(rest)
  <2>. PICK l, m : l = Len(rest) /\ m = Len(sbuf[c])
    OBVIOUS
  <2>1. l \in Nat /\ m \in Nat /\ SndBuf \in Nat /\ m <= SndBuf
    BY <1>3, <1>4, <1>5, LenProperties, ShttpdAssumption
  <2>2. room \in Nat
    <3>1. room = l \/ room = SndBuf - m
      OBVIOUS
    <3>. QED  BY ONLY <2>1, <3>1
  <2>3. k = IF l < room THEN l ELSE room
    OBVIOUS
  <2>4. k \in 0 .. l
    BY ONLY <2>1, <2>2, <2>3
  <2>. QED  BY <2>4
<1>7. /\ \A d \in Client : d # c => /\ rbuf'[d] = rbuf[d] /\ client'[d] = client[d]
                                    /\ sbuf'[d] = sbuf[d]
      /\ rbuf'[c] = unread /\ client'[c] = client[c]
      /\ sbuf'[c] = sbuf[c] \/ (~ Gone(c) /\ sbuf'[c] = sbuf[c] \o more)
      /\ Gone(c) => sbuf'[c] = sbuf[c]
      /\ ~ Gone(c) => sbuf'[c] = sbuf[c] \o more /\ Writes(c, x, k)
  BY <1>1, <1>2, ClientKept
<1>8. /\ \A d \in Client : d # c => conn'[d] = conn[d] /\ ctx'[d] = ctx[d]
      /\ conn'[c] \in {"open", "closed", "reset"}
  <2>1. c \in DOMAIN conn /\ ctx \in [Client -> Context]
        /\ conn \in [Client -> {"none", "backlog", "open", "closed", "reset"}]
    BY DEF EventInv, VariablesOK
  <2>2. CASE CloseConnection(c)
    BY <2>1, <2>2 DEF CloseConnection
  <2>3. CASE ctx' = [ctx EXCEPT ![c] = y] /\ UNCHANGED conn
    BY <1>4, <2>1, <2>3
  <2>. PICK z : z = ResetContext(y)
    OBVIOUS
  <2>4. ASSUME Rearm(c, z, {"IN"})
        PROVE  /\ \A d \in Client : d # c => conn'[d] = conn[d] /\ ctx'[d] = ctx[d]
               /\ conn'[c] \in {"open", "closed", "reset"}
    <3>1. conn' = conn /\ ctx' = [ctx EXCEPT ![c] = Awaiting(z, {"IN"})]
      BY <2>4, RearmOutcome
    <3>. QED  BY <1>4, <2>1, <3>1
  <2>. QED  BY <1>2, <2>2, <2>3, <2>4 DEF Writes
<1>9. Service("open", open, asked, left, sent, x, unread)
  BY <1>4, ServiceOf
<1>10. x.interest \in {{"IN"}, {"OUT"}}
  BY <1>4
<1>11. CASE Gone(c)
  <2>1. open = FALSE
    BY <1>3, <1>11 DEF Gone
  <2>2. asked = <<>> /\ left = 0 /\ sent = <<>>
    BY ONLY <1>9, <1>10, <2>1, OpenService
  <2>3. Service(conn'[c], FALSE, asked, left, sent, ctx'[c], unread)
    BY <1>8, <2>2, GoneService
  <2>4. client'[c].got \o sbuf'[c] = sent
    BY <1>7, <1>11
  <2>5. ServiceOK(c)'
    BY <1>7, <2>1, <2>3, <2>4, ServiceThen
  <2>. QED  BY <1>7, <1>8, <2>5, OneService
<1>12. CASE ~ Gone(c)
  <2>1. open = TRUE
    BY <1>3, <1>12 DEF Gone
  <2>2. Responding(asked, left, sent, x, unread)
    BY <1>4, <1>9, <1>10, <2>1, OpenService
  <2>3. HasWritten(asked, left, sent, x, unread, k)
    BY <1>3, <1>4, <1>6, <2>2 DEF HasWritten
  <2>. PICK now : now = sent \o more
    OBVIOUS
  <2>4. Service(conn'[c], TRUE, asked, left, now, ctx'[c], unread)
    BY <1>4, <1>7, <1>12, <2>3, WriteOutcome
  <2>5. client'[c].got \o sbuf'[c] = now
    <3>1. more \in Seq(Reply)
      BY <1>5, <1>6, CutOf
    <3>2. client'[c].got = client[c].got /\ sbuf'[c] = sbuf[c] \o more
      BY <1>7, <1>12
    <3>. PICK got, s, t : got = client[c].got /\ s = sbuf[c] /\ t = sbuf'[c]
      OBVIOUS
    <3>3. got \in Seq(Reply) /\ s \in Seq(Reply) /\ t = s \o more /\ sent = got \o s
      BY <1>3, <3>2
    <3>4. got \o t = sent \o more
      BY ONLY <3>1, <3>3, SentMore
    <3>. QED  BY <3>2, <3>4
  <2>6. ServiceOK(c)'
    BY <1>7, <2>1, <2>4, <2>5, ServiceThen
  <2>. QED  BY <1>7, <1>8, <2>6, OneService
<1>. QED  BY <1>11, <1>12

(* Before it is accepted a connection can only be read, and may end.       *)
LEMMA WaitingMoves ==
  ASSUME NEW state \in {"none", "backlog"}, NEW open \in BOOLEAN, NEW asked, NEW left, NEW sent,
         NEW x, NEW unread, Service(state, open, asked, left, sent, x, unread),
         NEW next \in {"none", "backlog", "open", "closed", "reset"}
  PROVE  Service(next, open, asked, left, sent, x, unread) /\ x = FreshContext
<1>1. x = FreshContext /\ sent = <<>> /\ state \notin {"closed", "reset"}
  BY DEF Service
<1>2. x.interest # {"OUT"}
  BY <1>1 DEF FreshContext
<1>3. ~ open => asked = <<>> /\ left = 0 /\ sent = <<>>
  BY DEF Service
<1>. PICK held : held = x.read_buffer \o unread
  OBVIOUS
<1>4. open => Idle(asked, left, sent, held) \/ Asking(asked, left, sent, held)
  BY <1>1, <1>2 DEF Service
<1>5. open => Ended(asked, sent)
  BY <1>4, MayEnd
<1>. QED  BY <1>1, <1>2, <1>3, <1>4, <1>5 DEF Service

(* accept(), and what goes wrong with it.                                  *)
LEMMA HandleNewConnectionServes ==
  ASSUME EventInv, \A d \in Client : ServiceOK(d), HandleNewConnection
  PROVE  \A d \in Client : ServiceOK(d)'
<1>. PICK c : c = Head(backlog)
  OBVIOUS
<1>1. /\ batch # <<>> /\ NextEvent.fd = Listener
      /\ UNCHANGED <<client, rbuf, sbuf>>
  BY DEF HandleNewConnection
<1>2. backlog # <<>>
  <2>1. batch \in Seq(Event) /\ NextEvent = batch[1] /\ 1 \in DOMAIN batch
    BY <1>1, TailOf DEF EventInv, EventsOK, NextEvent
  <2>. QED  BY <1>1, <2>1, ShttpdAssumption DEF EventInv, EventsOK, EventOK
<1>3. c = backlog[1] /\ c \in Client /\ conn[c] = "backlog"
  <2>1. c = backlog[1] /\ c \in Client /\ 1 \in DOMAIN backlog
    BY <1>2, TailOf DEF EventInv, BacklogOK
  <2>. QED  BY <2>1 DEF EventInv, BacklogOK
<1>4. \/ UNCHANGED <<conn, ctx>>
      \/ (\E s \in {"closed", "reset"} : conn' = [conn EXCEPT ![c] = s]) /\ UNCHANGED ctx
      \/ conn' = [conn EXCEPT ![c] = "open"] /\ ctx' = [ctx EXCEPT ![c] = FreshContext]
  BY DEF HandleNewConnection
<1>5. /\ conn \in [Client -> {"none", "backlog", "open", "closed", "reset"}]
      /\ ctx \in [Client -> Context]
  BY DEF EventInv, VariablesOK
<1>6. /\ \A d \in Client : d # c => conn'[d] = conn[d] /\ ctx'[d] = ctx[d]
      /\ conn'[c] \in {"none", "backlog", "open", "closed", "reset"}
      /\ ctx'[c] = ctx[c] \/ ctx'[c] = FreshContext
  BY <1>3, <1>4, <1>5
<1>. PICK open, asked, left, sent :
       /\ open = client[c].open /\ asked = client[c].asked /\ left = client[c].left
       /\ sent = client[c].got \o sbuf[c]
  OBVIOUS
<1>7. open \in BOOLEAN
  BY <1>3, ServiceData
<1>8. Service("backlog", open, asked, left, sent, ctx[c], rbuf[c])
  BY <1>3, ServiceOf
<1>. PICK next : next = conn'[c]
  OBVIOUS
<1>9. Service(next, open, asked, left, sent, ctx[c], rbuf[c]) /\ ctx[c] = FreshContext
  BY <1>6, <1>7, <1>8, WaitingMoves
<1>10. ctx'[c] = ctx[c]
  BY <1>6, <1>9
<1>11. ServiceOK(c)'
  BY <1>1, <1>9, <1>10, ServiceThen
<1>. QED  BY <1>1, <1>3, <1>6, <1>11, OneService

(* The end of a pass through the loop, and of the server: what was not     *)
(* accepted is reset, and no connection is open.                           *)
LEMMA BatchDoneServes ==
  ASSUME EventInv, \A d \in Client : ServiceOK(d), BatchDone
  PROVE  /\ \A d \in Client : ServiceOK(d)'
         /\ pc' = "exited" => \A d \in Client : conn'[d] # "open"
<1>1. /\ UNCHANGED <<client, rbuf, sbuf, ctx>>
      /\ \/ /\ pc' = "exited" /\ active_connections = 0
            /\ conn' = [c \in Client |-> IF conn[c] = "backlog" THEN "reset" ELSE conn[c]]
         \/ pc' = "top" /\ UNCHANGED conn
  BY DEF BatchDone
<1>2. ASSUME NEW d \in Client PROVE ServiceOK(d)'
  <2>1. CASE conn'[d] = conn[d]
    BY <1>1, <2>1, ServiceFrame
  <2>2. CASE conn'[d] # conn[d]
    <3>. PICK open, asked, left, sent :
           /\ open = client[d].open /\ asked = client[d].asked /\ left = client[d].left
           /\ sent = client[d].got \o sbuf[d]
      OBVIOUS
    <3>1. conn[d] = "backlog" /\ conn'[d] = "reset"
      BY <1>1, <2>2
    <3>2. Service("backlog", open, asked, left, sent, ctx[d], rbuf[d]) /\ open \in BOOLEAN
      BY <3>1, ServiceOf, ServiceData
    <3>3. Service("reset", open, asked, left, sent, ctx[d], rbuf[d])
      BY <3>2, WaitingMoves
    <3>. QED  BY <1>1, <3>1, <3>3, ServiceThen
  <2>. QED  BY <2>1, <2>2
<1>3. ASSUME pc' = "exited", NEW d \in Client PROVE conn'[d] # "open"
  <2>. DEFINE T == {c \in Client : conn[c] = "open"}
  <2>1. active_connections = 0
        /\ conn' = [c \in Client |-> IF conn[c] = "backlog" THEN "reset" ELSE conn[c]]
    BY <1>1, <1>3
  <2>2. IsFiniteSet(T) /\ Cardinality(T) = 0
    <3>1. IsFiniteSet(T)
      BY ShttpdAssumption, FS_Subset
    <3>2. Cardinality(T) = active_connections
      BY DEF EventInv, CountOK
    <3>. QED  BY <2>1, <3>1, <3>2
  <2>3. T = {}
    BY <2>2, FS_EmptySet
  <2>4. conn[d] # "open"
    BY <2>3
  <2>. QED  BY <2>1, <2>4
<1>. QED  BY <1>2, <1>3

(* A step that leaves both ends of every connection alone.                 *)
LEMMA AllKept ==
  ASSUME \A d \in Client : ServiceOK(d), UNCHANGED <<client, conn, ctx, rbuf, sbuf>>
  PROVE  \A d \in Client : ServiceOK(d)'
<1>1. ASSUME NEW d \in Client PROVE ServiceOK(d)'
  BY ServiceFrame
<1>. QED  BY <1>1

-----------------------------------------------------------------------------
(* The clients' steps. *)

(* A piece comes behind those of the request that have arrived.            *)
LEMMA PieceArrives ==
  ASSUME NEW asked, asked # <<>>, NEW sent, Answers(sent, Front(asked)),
         NEW req, req = Last(asked), NEW left \in Nat,
         NEW buffer \in Seq(Piece), NEW unread \in Seq(Piece),
         Len(buffer \o unread) = Pieces(req) - (left + 1),
         \A i \in DOMAIN (buffer \o unread) :
           /\ (buffer \o unread)[i].req = req
           /\ (buffer \o unread)[i].last <=> i = Pieces(req) /\ req # Long,
         NEW piece \in Piece, piece.req = req, piece.last <=> left = 0 /\ req # Long
  PROVE  Asking(asked, left, sent, buffer \o Append(unread, piece))
<1>. PICK later, held, w, m, n, p :
       /\ later = Append(unread, piece) /\ held = buffer \o unread /\ w = buffer \o later
       /\ m = Len(buffer) /\ n = Len(unread) /\ p = Pieces(req)
  OBVIOUS
<1>1. /\ later \in Seq(Piece) /\ n \in Nat /\ Len(later) = n + 1 /\ later[n + 1] = piece
      /\ \A j \in 1 .. n : later[j] = unread[j]
  BY AppendOf
<1>2. Joined(Piece, buffer, unread, held, m, n) /\ Joined(Piece, buffer, later, w, m, n + 1)
  BY <1>1, ConcatOf
<1>3. /\ m \in Nat /\ Len(held) = m + n /\ DOMAIN held = 1 .. m + n
      /\ Len(w) = m + (n + 1) /\ DOMAIN w = 1 .. m + (n + 1)
  BY <1>2 DEF Joined
<1>4. p \in Nat /\ m + n = p - (left + 1)
  BY <1>3, ShttpdAssumption DEF Pieces
<1>5. Len(w) = p - left
  BY <1>3, <1>4, <1>1
<1>6. ASSUME NEW i \in DOMAIN w
      PROVE  w[i].req = req /\ (w[i].last <=> i = p /\ req # Long)
  <2>1. i \in 1 .. m + (n + 1)
    BY <1>3
  <2>2. CASE i \in 1 .. m
    <3>1. w[i] = buffer[i] /\ held[i] = buffer[i] /\ i \in 1 .. m + n
      BY <1>2, <2>2 DEF Joined
    <3>. QED  BY <1>3, <3>1
  <2>3. CASE i \notin 1 .. m
    <3>. PICK j : j = i - m
      OBVIOUS
    <3>1. j \in 1 .. (n + 1) /\ i = m + j
      BY <1>1, <1>3, <2>1, <2>3
    <3>2. w[i] = later[j]
      <4>1. \A q \in 1 .. (n + 1) : w[m + q] = later[q]
        BY ONLY <1>2 DEF Joined
      <4>. QED  BY ONLY <3>1, <4>1
    <3>3. CASE j \in 1 .. n
      <4>1. held[i] = unread[j] /\ i \in 1 .. m + n
        BY SMTT(30), <1>2, <3>1, <3>3 DEF Joined
      <4>. QED  BY <1>1, <1>3, <3>2, <3>3, <4>1
    <3>4. CASE j \notin 1 .. n
      <4>0. n \in Nat /\ m \in Nat /\ left \in Nat
        BY <1>1, <1>3
      <4>1. j = n + 1
        BY ONLY <3>1, <3>4, <4>0
      <4>2. w[i] = piece
        BY <1>1, <3>2, <4>1
      <4>3. i = p <=> left = 0
        BY ONLY <1>4, <3>1, <4>0, <4>1
      <4>. QED  BY <4>2, <4>3
    <3>. QED  BY <3>3, <3>4
  <2>. QED  BY <2>2, <2>3
<1>. QED  BY <1>5, <1>6 DEF Asking

(* A client asks again when it has all answers: nothing is under way.      *)
LEMMA AskServes ==
  ASSUME NEW state \in {"backlog", "open"}, NEW asked \in Seq(Request), NEW got \in Seq(Reply),
         NEW s \in Seq(Reply), NEW x, GoodContext(x), x.read_buffer \in Seq(Piece),
         NEW unread \in Seq(Piece), Service(state, TRUE, asked, 0, got \o s, x, unread),
         Seen(got) = Responses(asked), NEW req \in Request, NEW piece \in Piece,
         NEW left, left = Pieces(req) - 1,
         piece.req = req, piece.last <=> left = 0 /\ req # Long
  PROVE  Service(state, TRUE, Append(asked, req), left, got \o s, x, Append(unread, piece))
<1>. PICK sent, held, more : /\ sent = got \o s /\ held = x.read_buffer \o unread
                             /\ more = Append(asked, req)
  OBVIOUS
<1>1. /\ sent \in Seq(Reply) /\ Len(got) \in Nat /\ Len(s) \in Nat
      /\ Len(sent) = Len(got) + Len(s)
  BY ConcatProperties, LenProperties
<1>2. Len(got) <= Len(sent)
  BY <1>1
<1>3. /\ state = "backlog" => x = FreshContext /\ sent = <<>>
      /\ x.interest = {"OUT"} => Responding(asked, 0, sent, x, unread)
      /\ x.interest # {"OUT"} => Idle(asked, 0, sent, held) \/ Asking(asked, 0, sent, held)
  BY DEF Service
<1>4. ASSUME x.interest = {"OUT"} PROVE FALSE
  <2>. PICK w : w = ToWrite(x)
    OBVIOUS
  <2>1. x.code \in Code
    BY <1>4 DEF GoodContext
  <2>2. w \in Seq(Reply)
    BY <2>1, ToWritePieces
  <2>3. /\ asked # <<>> /\ w # <<>> /\ x.code \in {Deserved(Last(asked)).code, 500}
        /\ AnswersWith(sent \o w, asked, x.code)
    BY <1>3, <1>4 DEF Responding
  <2>4. \E code \in {Deserved(Last(asked)).code, 500} :
          w # <<>> /\ AnswersWith(sent \o w, asked, code)
    BY <2>3, Zenon
  <2>5. got \in Seq(Reply) /\ asked \in Seq(Request)
    OBVIOUS
  <2>6. Seen(got) # Responses(asked)
    BY ONLY <1>1, <1>2, <2>2, <2>3, <2>4, <2>5, StillUnanswered
  <2>. QED  BY <2>6
<1>5. ~ Asking(asked, 0, sent, held)
  <2>1. SUFFICES ASSUME Asking(asked, 0, sent, held) PROVE FALSE
    OBVIOUS
  <2>2. asked # <<>> /\ Answers(sent, Front(asked))
    BY <2>1 DEF Asking
  <2>3. <<>> \in Seq(Reply)
    BY EmptySeq
  <2>4. Seen(got) # Responses(asked)
    BY <1>1, <1>2, <2>2, <2>3, StillUnanswered
  <2>. QED  BY <2>4
<1>6. held = <<>> /\ Answers(sent, asked)
  BY <1>3, <1>4, <1>5 DEF Idle
<1>7. more # <<>> /\ Front(more) = asked /\ Last(more) = req
  BY FrontOfAppend
<1>8. Pieces(req) - 1 \in Nat /\ Pieces(req) - ((Pieces(req) - 1) + 1) = 0
  BY ShttpdAssumption DEF Pieces
<1>9. Len(held) = 0 /\ \A i \in DOMAIN held : FALSE
  BY <1>6
<1>10. Asking(more, left, sent, x.read_buffer \o Append(unread, piece))
  <2>. PICK buffer : buffer = x.read_buffer
    OBVIOUS
  <2>1. /\ left \in Nat /\ Len(held) = Pieces(req) - (left + 1) /\ held = buffer \o unread
        /\ buffer \in Seq(Piece) /\ unread \in Seq(Piece) /\ piece \in Piece
        /\ piece.req = req /\ (piece.last <=> left = 0 /\ req # Long)
    BY <1>8, <1>9
  <2>2. more # <<>> /\ Answers(sent, Front(more)) /\ req = Last(more)
    BY <1>6, <1>7
  <2>3. Asking(more, left, sent, buffer \o Append(unread, piece))
    BY ONLY <1>9, <2>1, <2>2, PieceArrives
  <2>. QED  BY <2>3
<1>. QED  BY <1>3, <1>4, <1>10 DEF Service

(* More of a request arrives while it is read, or while a long one is      *)
(* refused.                                                                *)
LEMMA SendServes ==
  ASSUME NEW state \in {"backlog", "open"}, NEW asked, NEW left \in Nat, NEW sent,
         NEW x, x.read_buffer \in Seq(Piece), NEW unread \in Seq(Piece),
         Service(state, TRUE, asked, left + 1, sent, x, unread),
         NEW piece \in Piece, piece.req = Last(asked),
         piece.last <=> left = 0 /\ Last(asked) # Long
  PROVE  Service(state, TRUE, asked, left, sent, x, Append(unread, piece))
<1>. PICK held : held = x.read_buffer \o unread
  OBVIOUS
<1>0. left + 1 # 0
  OBVIOUS
<1>1. /\ state = "backlog" => x = FreshContext /\ sent = <<>>
      /\ x.interest = {"OUT"} => Responding(asked, left + 1, sent, x, unread)
      /\ x.interest # {"OUT"} =>
           Idle(asked, left + 1, sent, held) \/ Asking(asked, left + 1, sent, held)
  BY DEF Service
<1>2. ASSUME x.interest = {"OUT"} PROVE Responding(asked, left, sent, x, Append(unread, piece))
  BY <1>0, <1>1, <1>2 DEF Responding
<1>3. ASSUME x.interest # {"OUT"}
      PROVE  Asking(asked, left, sent, x.read_buffer \o Append(unread, piece))
  <2>1. Asking(asked, left + 1, sent, held)
    BY <1>0, <1>1, <1>3 DEF Idle
  <2>. PICK req : req = Last(asked)
    OBVIOUS
  <2>2. /\ asked # <<>> /\ Answers(sent, Front(asked)) /\ Len(held) = Pieces(req) - (left + 1)
        /\ \A i \in DOMAIN held : held[i].req = req /\ (held[i].last <=> i = Pieces(req) /\ req # Long)
    BY <2>1 DEF Asking
  <2>. QED  BY <2>2, PieceArrives
<1>. QED  BY <1>1, <1>2, <1>3 DEF Service

(* A client connects.                                                      *)
LEMMA ConnectServes ==
  ASSUME EventInv, \A d \in Client : ServiceOK(d), NEW c \in Client, Connect(c)
  PROVE  \A d \in Client : ServiceOK(d)'
<1>1. /\ conn[c] = "none" /\ conn' = [conn EXCEPT ![c] = "backlog"]
      /\ UNCHANGED <<client, rbuf, sbuf, ctx>>
  BY DEF Connect
<1>2. /\ \A d \in Client : d # c => conn'[d] = conn[d]
      /\ conn'[c] = "backlog"
  BY <1>1 DEF EventInv, VariablesOK
<1>. PICK open, asked, left, sent :
       /\ open = client[c].open /\ asked = client[c].asked /\ left = client[c].left
       /\ sent = client[c].got \o sbuf[c]
  OBVIOUS
<1>3. Service("none", open, asked, left, sent, ctx[c], rbuf[c]) /\ open \in BOOLEAN
  BY <1>1, ServiceOf, ServiceData
<1>4. Service("backlog", open, asked, left, sent, ctx[c], rbuf[c])
  BY <1>3, WaitingMoves
<1>5. ServiceOK(c)'
  BY <1>1, <1>2, <1>4, ServiceThen
<1>. QED  BY <1>1, <1>2, <1>5, OneService

(* The piece that arrives.                                                 *)
LEMMA ArrivedPiece ==
  ASSUME EventInv, NEW c \in Client, NEW req \in Request, NEW left \in Nat, Arrive(c, req, left)
  PROVE  /\ UNCHANGED <<conn, sbuf, ctx, pc>>
         /\ \A d \in Client : d # c => rbuf'[d] = rbuf[d]
         /\ \E piece \in Piece : /\ piece.req = req /\ (piece.last <=> left = 0 /\ req # Long)
                                 /\ rbuf'[c] = Append(rbuf[c], piece)
<1>. PICK last \in BOOLEAN : last = (left = 0 /\ req # Long)
  OBVIOUS
<1>. PICK piece : piece = [req |-> req, last |-> last]
  OBVIOUS
<1>1. piece \in Piece /\ piece.req = req /\ piece.last = last
  BY DEF Piece
<1>2. rbuf' = [rbuf EXCEPT ![c] = Append(rbuf[c], piece)] /\ UNCHANGED <<conn, sbuf, ctx, pc>>
  BY DEF Arrive
<1>3. rbuf \in [Client -> Seq(Piece)]
  BY DEF EventInv, VariablesOK
<1>4. rbuf'[c] = Append(rbuf[c], piece) /\ \A d \in Client : d # c => rbuf'[d] = rbuf[d]
  BY <1>2, <1>3
<1>5. piece.last <=> left = 0 /\ req # Long
  BY <1>1
<1>. QED  BY <1>1, <1>2, <1>4, <1>5

(* A client asks.                                                          *)
LEMMA AskKeeps ==
  ASSUME EventInv, \A d \in Client : ServiceOK(d), NEW c \in Client, Ask(c)
  PROVE  (\A d \in Client : ServiceOK(d)') /\ UNCHANGED <<conn, pc>>
<1>1. PICK req \in Requests[c] :
        /\ client' = [client EXCEPT ![c].asked = Append(client[c].asked, req),
                                    ![c].left = Pieces(req) - 1]
        /\ Arrive(c, req, Pieces(req) - 1)
  BY DEF Ask
<1>2. req \in Request /\ Pieces(req) - 1 \in Nat
  BY ShttpdAssumption DEF Pieces
<1>3. /\ client[c].open /\ conn[c] \in {"backlog", "open"} /\ client[c].left = 0
      /\ Seen(client[c].got) = Responses(client[c].asked)
  BY DEF Ask, CanSend, Answered
<1>. PICK left : left = Pieces(req) - 1
  OBVIOUS
<1>11. left \in Nat /\ Arrive(c, req, left) /\ req \in Request
  BY <1>1, <1>2, Zenon
<1>4. /\ UNCHANGED <<conn, sbuf, ctx, pc>>
      /\ \A d \in Client : d # c => rbuf'[d] = rbuf[d]
  BY <1>11, ArrivedPiece
<1>5. PICK piece \in Piece :
        /\ piece.req = req /\ (piece.last <=> left = 0 /\ req # Long)
        /\ rbuf'[c] = Append(rbuf[c], piece)
  BY ONLY <1>11, EventInv, c \in Client, ArrivedPiece
<1>6. /\ client'[c].asked = Append(client[c].asked, req) /\ client'[c].left = Pieces(req) - 1
      /\ client'[c].got = client[c].got /\ client'[c].open = client[c].open
      /\ \A d \in Client : d # c => client'[d] = client[d]
  <2>1. client \in [Client -> ClientRecord] /\ client[c] \in ClientRecord
    BY ClientKept
  <2>. QED  BY <1>1, <2>1 DEF ClientRecord
<1>. PICK state, asked, got, s, x, unread :
       /\ state = conn[c] /\ asked = client[c].asked /\ got = client[c].got /\ s = sbuf[c]
       /\ x = ctx[c] /\ unread = rbuf[c]
  OBVIOUS
<1>7. /\ asked \in Seq(Request) /\ got \in Seq(Reply) /\ s \in Seq(Reply) /\ GoodContext(x)
      /\ x.read_buffer \in Seq(Piece) /\ unread \in Seq(Piece) /\ client[c].open = TRUE
  BY <1>3, ServiceData
<1>8. Service(state, TRUE, asked, 0, got \o s, x, unread)
  BY <1>3, <1>7, ServiceOf
<1>9. Service(state, TRUE, Append(asked, req), left, got \o s, x, Append(unread, piece))
  <2>1. state \in {"backlog", "open"} /\ left = Pieces(req) - 1
    BY <1>3
  <2>2. Seen(got) = Responses(asked) /\ req \in Request /\ piece \in Piece
    BY <1>2, <1>3
  <2>3. piece.req = req /\ (piece.last <=> left = 0 /\ req # Long)
    BY <1>5
  <2>. QED  BY ONLY <1>7, <1>8, <2>1, <2>2, <2>3, AskServes
<1>10. ServiceOK(c)'
  BY <1>4, <1>5, <1>6, <1>7, <1>9, ServiceThen
<1>. QED  BY <1>4, <1>6, <1>10, OneService

(* A client goes on asking.                                                *)
LEMMA SendPieceKeeps ==
  ASSUME EventInv, \A d \in Client : ServiceOK(d), NEW c \in Client, SendPiece(c)
  PROVE  (\A d \in Client : ServiceOK(d)') /\ UNCHANGED <<conn, pc>>
<1>. PICK state, asked, l, sent, x, unread :
       /\ state = conn[c] /\ asked = client[c].asked /\ l = client[c].left
       /\ sent = client[c].got \o sbuf[c] /\ x = ctx[c] /\ unread = rbuf[c]
  OBVIOUS
<1>. PICK left : left = l - 1
  OBVIOUS
<1>1. /\ client[c].open /\ state \in {"backlog", "open"} /\ l > 0
      /\ client' = [client EXCEPT ![c].left = left] /\ Arrive(c, Last(asked), left)
  BY ClientKept DEF SendPiece, CanSend
<1>2. /\ asked \in Seq(Request) /\ l \in Nat /\ GoodContext(x) /\ client[c].open = TRUE
      /\ x.read_buffer \in Seq(Piece) /\ unread \in Seq(Piece) /\ asked # <<>>
  BY <1>1, ServiceData, ClientKept
<1>3. left \in Nat /\ l = left + 1
  BY <1>1, <1>2
<1>4. Last(asked) \in Request
  BY <1>2, FrontLast
<1>5. /\ UNCHANGED <<conn, sbuf, ctx, pc>>
      /\ \A d \in Client : d # c => rbuf'[d] = rbuf[d]
  BY <1>1, <1>3, <1>4, ArrivedPiece
<1>6. PICK piece \in Piece :
        /\ piece.req = Last(asked) /\ (piece.last <=> left = 0 /\ Last(asked) # Long)
        /\ rbuf'[c] = Append(unread, piece)
  BY <1>1, <1>3, <1>4, ArrivedPiece
<1>7. /\ client'[c].asked = asked /\ client'[c].left = left
      /\ client'[c].got = client[c].got /\ client'[c].open = client[c].open
      /\ \A d \in Client : d # c => client'[d] = client[d]
  <2>1. client \in [Client -> ClientRecord] /\ client[c] \in ClientRecord
    BY ClientKept
  <2>. QED  BY <1>1, <2>1 DEF ClientRecord
<1>8. Service(state, TRUE, asked, left + 1, sent, x, unread)
  BY <1>2, <1>3, ServiceOf
<1>9. Service(state, TRUE, asked, left, sent, x, Append(unread, piece))
  BY <1>1, <1>2, <1>3, <1>6, <1>8, SendServes
<1>10. ServiceOK(c)'
  BY <1>2, <1>5, <1>6, <1>7, <1>9, ServiceThen
<1>. QED  BY <1>5, <1>7, <1>10, OneService

(* The first piece of a sequence is put behind the sequence before it.     *)
LEMMA HeadMoves ==
  ASSUME NEW got \in Seq(Reply), NEW s \in Seq(Reply), s # <<>>,
         NEW more, more = Append(got, Head(s)), NEW t, t = Tail(s)
  PROVE  more \o t = got \o s
<1>. PICK a, b, m, n, k : /\ a = got \o s /\ b = more \o t
                          /\ m = Len(got) /\ n = Len(s) /\ k = Len(t)
  OBVIOUS
<1>1. /\ t \in Seq(Reply) /\ n \in Nat /\ k \in Nat /\ k = n - 1
      /\ Head(s) = s[1] /\ s[1] \in Reply /\ 1 \in 1 .. n
      /\ \A j \in 1 .. k : j + 1 \in 1 .. n /\ t[j] = s[j + 1]
  BY TailOf
<1>2. /\ more \in Seq(Reply) /\ m \in Nat /\ Len(more) = m + 1 /\ more[m + 1] = s[1]
      /\ \A j \in 1 .. m : more[j] = got[j]
  BY <1>1, AppendOf
<1>3. Joined(Reply, got, s, a, m, n) /\ Joined(Reply, more, t, b, m + 1, k)
  BY <1>1, <1>2, ConcatOf
<1>4. a \in Seq(Reply) /\ b \in Seq(Reply) /\ Len(a) = m + n /\ Len(b) = (m + 1) + k
  BY <1>3 DEF Joined
<1>5. Len(a) = Len(b)
  BY <1>1, <1>2, <1>4
<1>6. ASSUME NEW i \in 1 .. (m + 1) + k PROVE a[i] = b[i]
  <2>0. m \in Nat /\ n \in Nat /\ k \in Nat /\ k = n - 1
    BY <1>1, <1>2
  <2>1. CASE i \in 1 .. m
    <3>1. i \in 1 .. m + 1
      BY ONLY <2>0, <2>1
    <3>2. a[i] = got[i] /\ b[i] = more[i]
      BY <1>3, <2>1, <3>1 DEF Joined
    <3>. QED  BY <1>2, <2>1, <3>2
  <2>2. CASE i = m + 1
    <3>1. i \in 1 .. m + 1
      BY ONLY <2>0, <2>2
    <3>2. a[i] = s[1] /\ b[i] = more[i]
      BY <1>1, <1>3, <2>2, <3>1 DEF Joined
    <3>. QED  BY <1>2, <2>2, <3>2
  <2>3. CASE i \notin 1 .. m + 1
    <3>. PICK j : j = i - (m + 1)
      OBVIOUS
    <3>1. j \in 1 .. k /\ i = (m + 1) + j /\ i = m + (j + 1)
      BY ONLY <2>0, <2>3, i \in 1 .. (m + 1) + k, j = i - (m + 1)
    <3>2. b[i] = t[j] /\ j + 1 \in 1 .. n /\ t[j] = s[j + 1]
      BY <1>1, <1>3, <3>1 DEF Joined
    <3>. PICK l : l = j + 1
      OBVIOUS
    <3>3. a[i] = s[l]
      <4>1. l \in 1 .. n /\ i = m + l
        BY <3>1, <3>2
      <4>. QED  BY <1>3, <4>1 DEF Joined
    <3>. QED  BY <3>2, <3>3
  <2>4. i \in 1 .. m \/ i = m + 1 \/ i \notin 1 .. m + 1
    BY ONLY <2>0
  <2>. QED  BY <2>1, <2>2, <2>3, <2>4
<1>. QED  BY <1>4, <1>5, <1>6, SeqEqual

(* What a client takes was sent to it before.                              *)
LEMMA ReceiveKeeps ==
  ASSUME EventInv, \A d \in Client : ServiceOK(d), NEW c \in Client, Receive(c)
  PROVE  (\A d \in Client : ServiceOK(d)') /\ UNCHANGED <<conn, pc>>
<1>. PICK got, s : got = client[c].got /\ s = sbuf[c]
  OBVIOUS
<1>. PICK more, t : more = Append(got, Head(s)) /\ t = Tail(s)
  OBVIOUS
<1>1. /\ s # <<>> /\ client' = [client EXCEPT ![c].got = more] /\ sbuf' = [sbuf EXCEPT ![c] = t]
      /\ UNCHANGED <<conn, rbuf, ctx, pc>>
  BY ClientKept DEF Receive
<1>2. got \in Seq(Reply) /\ s \in Seq(Reply)
  BY ServiceData
<1>3. more \o t = got \o s
  <2>1. s # <<>>
    BY DEF Receive
  <2>2. more = Append(got, Head(s)) /\ t = Tail(s)
    OBVIOUS
  <2>. QED  BY ONLY <1>2, <2>1, <2>2, HeadMoves
<1>4. /\ client'[c].asked = client[c].asked /\ client'[c].left = client[c].left
      /\ client'[c].got = more /\ client'[c].open = client[c].open
      /\ \A d \in Client : d # c => client'[d] = client[d]
  <2>1. client \in [Client -> ClientRecord] /\ client[c] \in ClientRecord
    BY ClientKept
  <2>. QED  BY <1>1, <2>1 DEF ClientRecord
<1>5. sbuf'[c] = t /\ \A d \in Client : d # c => sbuf'[d] = sbuf[d]
  BY <1>1, ClientKept
<1>6. client'[c].got \o sbuf'[c] = client[c].got \o sbuf[c]
  BY <1>3, <1>4, <1>5
<1>7. ServiceOK(c)'
  BY <1>1, <1>4, <1>6, ServiceOf, ServiceThen, Zenon
<1>. QED  BY <1>1, <1>4, <1>5, <1>7, OneService

(* A client leaves, and asks for nothing more.                             *)
LEMMA LeaveKeeps ==
  ASSUME EventInv, \A d \in Client : ServiceOK(d), NEW c \in Client, Leave(c)
  PROVE  (\A d \in Client : ServiceOK(d)') /\ UNCHANGED <<conn, pc>>
<1>. PICK w : w = [Stranger EXCEPT !.open = FALSE]
  OBVIOUS
<1>1. /\ client' = [client EXCEPT ![c] = w] /\ sbuf' = [sbuf EXCEPT ![c] = <<>>]
      /\ conn[c] # "none" /\ UNCHANGED <<conn, rbuf, ctx, pc>>
  BY DEF Leave
<1>2. w.open = FALSE /\ w.asked = <<>> /\ w.left = 0 /\ w.got = <<>>
  BY DEF Stranger
<1>3. /\ client'[c] = w /\ sbuf'[c] = <<>>
      /\ \A d \in Client : d # c => client'[d] = client[d] /\ sbuf'[d] = sbuf[d]
  BY <1>1, ClientKept
<1>4. client'[c].got \o sbuf'[c] = <<>>
  <2>1. <<>> \in Seq(Reply)
    BY EmptySeq
  <2>2. <<>> \o <<>> = <<>>
    BY <2>1, ConcatEmptySeq
  <2>. QED  BY <1>2, <1>3, <2>2
<1>. PICK state, x, unread : state = conn[c] /\ x = ctx[c] /\ unread = rbuf[c]
  OBVIOUS
<1>5. state \in {"none", "backlog"} => x = FreshContext
  BY ServiceOf DEF Service
<1>6. Service(state, FALSE, <<>>, 0, <<>>, x, unread)
  BY <1>5 DEF Service
<1>7. ServiceOK(c)'
  BY <1>1, <1>2, <1>3, <1>4, <1>6, ServiceThen, Zenon
<1>. QED  BY <1>1, <1>3, <1>7, OneService

(* No answers to nothing asked.                                            *)
LEMMA NothingAsked == Answers(<<>>, <<>>)
<1>1. <<>> \in Seq(Reply) /\ Len(<<>>) = 0 /\ <<>> \in Seq(Shown)
  BY EmptySeq
<1>2. Seen(<<>>) = <<>>
  <2>1. Seen(<<>>) \in Seq(Shown) /\ Len(Seen(<<>>)) = 0
    BY <1>1, SeenType
  <2>. QED  BY <2>1, EmptySeq
<1>3. Nth(<<>>, 0) = 0
  <2>1. {j \in 1 .. 0 : Header(<<>>[j])} = {}
    OBVIOUS
  <2>. QED  BY <2>1, FS_EmptySet DEF Nth
<1>4. Announces(<<>>, <<>>)
  BY DEF Announces
<1>. QED  BY <1>1, <1>2, <1>3, <1>4, NoResponses DEF Answers

(* At first nothing was asked.                                             *)
LEMMA InitServes == Init => \A d \in Client : ServiceOK(d)
<1>1. SUFFICES ASSUME Init, NEW d \in Client PROVE ServiceOK(d)
  OBVIOUS
<1>2. /\ client[d] = Stranger /\ conn[d] = "none" /\ rbuf[d] = <<>> /\ sbuf[d] = <<>>
      /\ ctx[d] = FreshContext
  BY <1>1 DEF Init
<1>3. Answers(<<>>, <<>>)
  BY NothingAsked
<1>4. /\ FreshContext.read_buffer \o <<>> = <<>> /\ FreshContext.interest = {"IN"}
      /\ client[d].got \o sbuf[d] = <<>>
  <2>1. <<>> \in Seq(Reply)
    BY EmptySeq
  <2>2. <<>> \o <<>> = <<>>
    BY <2>1, ConcatEmptySeq
  <2>. QED  BY <1>2, <2>2 DEF FreshContext, Stranger
<1>5. client[d].open = TRUE /\ client[d].asked = <<>> /\ client[d].left = 0
  BY <1>2 DEF Stranger
<1>6. Idle(<<>>, 0, <<>>, FreshContext.read_buffer \o <<>>)
  BY <1>3, <1>4 DEF Idle
<1>7. {"IN"} # {"OUT"}
  OBVIOUS
<1>8. Service("none", TRUE, <<>>, 0, <<>>, FreshContext, <<>>)
  BY <1>4, <1>6, <1>7 DEF Service
<1>. QED  BY <1>2, <1>4, <1>5, <1>8, ServiceOf

-----------------------------------------------------------------------------
(* The invariant of the service. *)

(* The server is over when no connection is open.                          *)
LEMMA OpenKept ==
  ASSUME ServiceInv, UNCHANGED <<conn, pc>>
  PROVE  pc' = "exited" => \A d \in Client : conn'[d] # "open"
BY DEF ServiceInv

(* Every step keeps the invariant of the service, ...                      *)
LEMMA ServiceNext ==
  ASSUME ServiceInv, [Next]_vars
  PROVE  ServiceInv'
<1>1. EventInv /\ \A d \in Client : ServiceOK(d)
  BY DEF ServiceInv
<1>2. EventInv'
  BY <1>1, NextHolds
<1>. DEFINE Kept == /\ \A d \in Client : ServiceOK(d)'
                    /\ pc' = "exited" => \A d \in Client : conn'[d] # "open"
<1>3. ASSUME ChooseTimeout \/ EpollWait \/ Signal PROVE Kept
  <2>1. UNCHANGED <<client, conn, ctx, rbuf, sbuf>> /\ (pc' # "exited" \/ UNCHANGED pc)
    <3>1. pc = "wait" => pc # "exited"
      OBVIOUS
    <3>. QED  BY <1>3 DEF ChooseTimeout, EpollWait, Signal
  <2>. QED  BY <1>1, <2>1, AllKept, OpenKept
<1>4. ASSUME BatchDone PROVE Kept
  BY <1>1, <1>4, BatchDoneServes
<1>5. ASSUME HandleNewConnection PROVE Kept
  <2>1. pc' # "exited"
    BY <1>5 DEF HandleNewConnection
  <2>. QED  BY <1>1, <1>5, <2>1, HandleNewConnectionServes
<1>6. ASSUME NEW c \in Client, HandleEpollin(c) PROVE Kept
  <2>1. pc' # "exited"
    BY <1>6 DEF HandleEpollin
  <2>. QED  BY <1>1, <1>6, <2>1, HandleEpollinServes
<1>7. ASSUME NEW c \in Client, HandleEpollout(c) PROVE Kept
  <2>1. pc' # "exited"
    BY <1>7 DEF HandleEpollout
  <2>. QED  BY <1>1, <1>7, <2>1, HandleEpolloutServes
<1>8. ASSUME NEW c \in Client, Connect(c) PROVE Kept
  <2>1. pc' # "exited"
    BY <1>8 DEF Connect
  <2>. QED  BY <1>1, <1>8, <2>1, ConnectServes
<1>9. ASSUME NEW c \in Client, Ask(c) PROVE Kept
  BY <1>1, <1>9, AskKeeps, OpenKept
<1>10. ASSUME NEW c \in Client, SendPiece(c) PROVE Kept
  BY <1>1, <1>10, SendPieceKeeps, OpenKept
<1>11. ASSUME NEW c \in Client, Receive(c) PROVE Kept
  BY <1>1, <1>11, ReceiveKeeps, OpenKept
<1>12. ASSUME NEW c \in Client, Leave(c) PROVE Kept
  BY <1>1, <1>12, LeaveKeeps, OpenKept
<1>13. ASSUME UNCHANGED vars PROVE Kept
  <2>1. UNCHANGED <<client, conn, ctx, rbuf, sbuf>> /\ UNCHANGED pc
    BY <1>13 DEF vars
  <2>. QED  BY <1>1, <2>1, AllKept, OpenKept
<1>. HIDE DEF Kept
<1>14. ASSUME Server PROVE Kept
  BY <1>3, <1>4, <1>5, <1>6, <1>7, <1>14 DEF Server
<1>15. ASSUME Clients PROVE Kept
  BY <1>8, <1>9, <1>10, <1>11, <1>12, <1>15 DEF Clients
<1>16. Kept
  BY <1>3, <1>13, <1>14, <1>15 DEF Next
<1>. QED  BY <1>2, <1>16 DEF ServiceInv, Kept

(* ... which holds at first.                                               *)
LEMMA ServiceInit == Init => ServiceInv
<1>1. SUFFICES ASSUME Init PROVE ServiceInv
  OBVIOUS
<1>2. pc # "exited"
  BY <1>1 DEF Init
<1>. QED  BY <1>1, <1>2, InitHolds, InitServes DEF ServiceInv

(* Every connection is where the protocol has it between a request and the *)
(* end of its response, whatever is interrupted, cut or refused            *)
(* (handle_epollin(), handle_epollout(), main()).                          *)
THEOREM ServiceInvariant == Spec => []ServiceInv
BY ServiceInit, ServiceNext, PTL DEF Spec

(* A sequence begins one that goes on behind it, and itself.               *)
LEMMA PrefixOfMore ==
  ASSUME NEW S, NEW s \in Seq(S), NEW t \in Seq(S)
  PROVE  IsPrefix(s, s \o t) /\ IsPrefix(s, s)
<1>. PICK m, n : m = Len(s) /\ n = Len(t)
  OBVIOUS
<1>1. m \in Nat /\ n \in Nat
  BY LenProperties
<1>2. Len(s \o t) = m + n
  BY ConcatProperties
<1>3. m <= m + n /\ m <= m
  BY ONLY <1>1
<1>4. SubSeq(s \o t, 1, m) = SubSeq(s, 1, m)
  <2>1. CASE m = 0
    <3>1. 0 < 1
      OBVIOUS
    <3>2. s \o t \in Seq(S)
      BY ConcatProperties
    <3>3. SubSeq(s \o t, 1, 0) = <<>> /\ SubSeq(s, 1, 0) = <<>>
      BY <3>1, <3>2, SubSeqEmpty
    <3>. QED  BY <2>1, <3>3
  <2>2. CASE m # 0
    <3>1. 1 \in 1 .. m /\ m \in 1 .. m
      BY <1>1, <2>2
    <3>. QED  BY <3>1, SubSeqOfConcat1
  <2>. QED  BY <2>1, <2>2
<1>. QED  BY <1>2, <1>3, <1>4 DEF IsPrefix

(* A failure says nothing of a file.                                       *)
LEMMA FailureAlike ==
  ASSUME NEW url
  PROVE  Response(500, url) = Response(500, NoFile) /\ Response(500, NoFile) \in Seq(Shown)
<1>1. 500 \in Code /\ 500 # 200
  BY DEF Code
<1>2. Response(500, url) = HeaderOf(500) /\ Response(500, NoFile) = HeaderOf(500)
      /\ Response(500, NoFile) \in Seq(Shown)
  BY <1>1, ResponseType
<1>. QED  BY <1>2

(* What ResponsesIntact says of one connection.                            *)
Intact(pieces, asked) ==
  /\ \/ IsPrefix(Seen(pieces), Responses(asked))
     \/ asked # <<>> /\ IsPrefix(Seen(pieces), Responses(Front(asked)) \o Response(500, NoFile))
  /\ Announces(pieces, asked)

(* All answers are intact, ...                                             *)
LEMMA AnswersIntact ==
  ASSUME NEW asked \in Seq(Request), NEW sent \in Seq(Reply), Answers(sent, asked)
  PROVE  Intact(sent, asked)
<1>1. Responses(asked) \in Seq(Shown) /\ Seen(sent) = Responses(asked)
  BY ResponsesType DEF Answers
<1>2. IsPrefix(Seen(sent), Responses(asked))
  BY <1>1, PrefixOfMore
<1>. QED  BY <1>2 DEF Intact, Answers

(* ... all but the last one, ...                                           *)
LEMMA FrontIntact ==
  ASSUME NEW asked \in Seq(Request), asked # <<>>, NEW sent \in Seq(Reply),
         Answers(sent, Front(asked))
  PROVE  Intact(sent, asked)
<1>. PICK a, b, s : /\ a = Responses(Front(asked)) /\ b = ResponseTo(Last(asked)) /\ s = Seen(sent)
  OBVIOUS
<1>1. a \in Seq(Shown) /\ Last(asked) \in Request /\ Responses(asked) = a \o b
  BY ResponsesLast
<1>2. b \in Seq(Shown) /\ s = a
  BY <1>1, ResponseToType DEF Answers
<1>3. IsPrefix(s, Responses(asked))
  BY <1>1, <1>2, PrefixOfMore
<1>4. Announces(sent, asked)
  BY AnnouncesMore
<1>. QED  BY <1>3, <1>4 DEF Intact

(* ... and those with a last response that is under way or complete.       *)
LEMMA UnderWayIntact ==
  ASSUME NEW asked \in Seq(Request), asked # <<>>, NEW sent \in Seq(Reply), NEW w \in Seq(Reply),
         NEW code \in {Deserved(Last(asked)).code, 500}, AnswersWith(sent \o w, asked, code)
  PROVE  Intact(sent, asked)
<1>. PICK a, s, v : a = Responses(Front(asked)) /\ s = Seen(sent) /\ v = Seen(w)
  OBVIOUS
<1>1. /\ a \in Seq(Shown) /\ Last(asked) \in Request
      /\ Responses(asked) = a \o ResponseTo(Last(asked))
  BY ResponsesLast
<1>2. s \in Seq(Shown) /\ v \in Seq(Shown) /\ Seen(sent \o w) = s \o v
  BY SeenType, SeenConcat
<1>3. s \o v = a \o Response(code, Last(asked).url) /\ Announces(sent \o w, asked)
  BY <1>2 DEF AnswersWith
<1>4. IsPrefix(s, s \o v)
  BY <1>2, PrefixOfMore
<1>5. Announces(sent, asked)
  BY <1>3, AnnouncesPrefix
<1>6. CASE code = Deserved(Last(asked)).code
  <2>1. s \o v = Responses(asked)
    BY <1>1, <1>3, <1>6 DEF ResponseTo
  <2>. QED  BY <1>4, <1>5, <2>1 DEF Intact
<1>7. CASE code = 500
  <2>1. s \o v = a \o Response(500, NoFile)
    <3>1. Response(500, Last(asked).url) = Response(500, NoFile)
      BY FailureAlike
    <3>. QED  BY ONLY <1>3, <1>7, <3>1
  <2>. QED  BY <1>4, <1>5, <2>1 DEF Intact
<1>. QED  BY <1>6, <1>7

(* The end of a connection is intact.                                      *)
LEMMA EndedIntact ==
  ASSUME NEW asked \in Seq(Request), NEW sent \in Seq(Reply), Ended(asked, sent)
  PROVE  Intact(sent, asked)
<1>1. CASE Answers(sent, asked)
  BY <1>1, AnswersIntact
<1>2. CASE asked # <<>> /\ Answers(sent, Front(asked))
  BY <1>2, FrontIntact
<1>3. CASE asked # <<>> /\ AnswersWith(sent, asked, 500)
  <2>. PICK e : e = <<>>
    OBVIOUS
  <2>1. e \in Seq(Reply) /\ sent \o e = sent
    BY EmptySeq, ConcatEmptySeq
  <2>2. AnswersWith(sent \o e, asked, 500)
    BY <1>3, <2>1
  <2>. PICK code : code = 500
    OBVIOUS
  <2>3. code \in {Deserved(Last(asked)).code, 500} /\ asked # <<>>
        /\ AnswersWith(sent \o e, asked, code)
    BY <1>3, <2>2
  <2>4. asked \in Seq(Request) /\ sent \in Seq(Reply) /\ e \in Seq(Reply)
    BY <2>1
  <2>. QED  BY ONLY <2>3, <2>4, UnderWayIntact
<1>. QED  BY <1>1, <1>2, <1>3 DEF Ended

(* What a connection has sent is intact wherever it is.                    *)
LEMMA ServiceIntact ==
  ASSUME EventInv, NEW c \in Client, ServiceOK(c)
  PROVE  Intact(client[c].got \o sbuf[c], client[c].asked)
<1>. PICK state, open, asked, left, sent, x, unread :
       /\ state = conn[c] /\ open = client[c].open /\ asked = client[c].asked
       /\ left = client[c].left /\ sent = client[c].got \o sbuf[c]
       /\ x = ctx[c] /\ unread = rbuf[c]
  OBVIOUS
<1>1. /\ asked \in Seq(Request) /\ sent \in Seq(Reply) /\ open \in BOOLEAN /\ GoodContext(x)
      /\ x.interest \in {{"IN"}, {"OUT"}}
  BY ServiceData
<1>2. Service(state, open, asked, left, sent, x, unread)
  BY ServiceOf
<1>. PICK held : held = x.read_buffer \o unread
  OBVIOUS
<1>3. \/ asked = <<>> /\ sent = <<>>
      \/ Ended(asked, sent)
      \/ x.interest = {"OUT"} /\ Responding(asked, left, sent, x, unread)
      \/ Idle(asked, left, sent, held) \/ Asking(asked, left, sent, held)
  BY <1>1, <1>2, Zenon DEF Service
<1>4. CASE asked = <<>> /\ sent = <<>>
  <2>1. Answers(<<>>, <<>>)
    BY NothingAsked
  <2>. QED  BY <1>1, <1>4, <2>1, AnswersIntact
<1>5. CASE Ended(asked, sent)
  BY <1>1, <1>5, EndedIntact
<1>6. CASE x.interest = {"OUT"} /\ Responding(asked, left, sent, x, unread)
  <2>. PICK w, code : w = ToWrite(x) /\ code = x.code
    OBVIOUS
  <2>1. code \in Code
    BY <1>1, <1>6 DEF GoodContext
  <2>2. w \in Seq(Reply)
    BY <1>1, <2>1, ToWritePieces
  <2>3. /\ asked # <<>> /\ code \in {Deserved(Last(asked)).code, 500}
        /\ AnswersWith(sent \o w, asked, code)
    BY <1>6 DEF Responding
  <2>4. Intact(sent, asked)
    BY ONLY <1>1, <2>2, <2>3, UnderWayIntact
  <2>. QED  BY <2>4
<1>7. CASE Idle(asked, left, sent, held) \/ Asking(asked, left, sent, held)
  <2>1. Ended(asked, sent)
    BY <1>7, MayEnd
  <2>. QED  BY <1>1, <2>1, EndedIntact
<1>. QED  BY <1>3, <1>4, <1>5, <1>6, <1>7

(* What a client gets is what its requests deserve, in their order, and    *)
(* only the last response may be an internal error instead                 *)
(* (handle_epollin(), send_header(), send_body(), send_error()).           *)
THEOREM ResponsesAlwaysIntact == Spec => []ResponsesIntact
<1>1. ServiceInv => ResponsesIntact
  <2>1. ServiceInv => \A c \in Client : Intact(client[c].got \o sbuf[c], client[c].asked)
    BY ServiceIntact DEF ServiceInv
  <2>. QED  BY <2>1, Zenon DEF ResponsesIntact, Intact
<1>. QED  BY <1>1, ServiceInvariant, PTL

(* What NeverCutShort says of one connection.                              *)
WholeAtEnd(pieces, asked) ==
  \E n \in 0 .. Len(asked) :
    Seen(pieces) \in {Responses(SubSeq(asked, 1, n)),
                      Responses(SubSeq(asked, 1, n)) \o Response(500, NoFile)}

(* A connection ends behind a whole response.                              *)
LEMMA EndedWhole ==
  ASSUME NEW asked \in Seq(Request), NEW sent \in Seq(Reply), Ended(asked, sent)
  PROVE  WholeAtEnd(sent, asked)
<1>. USE DEF WholeAtEnd
<1>. PICK m : m = Len(asked)
  OBVIOUS
<1>1. m \in Nat
  BY LenProperties
<1>2. CASE Answers(sent, asked)
  <2>1. SubSeq(asked, 1, m) = asked /\ m \in 0 .. m
    BY <1>1, SubSeqFull
  <2>2. Seen(sent) = Responses(SubSeq(asked, 1, m))
    BY <1>2, <2>1 DEF Answers
  <2>. QED  BY <2>1, <2>2
<1>3. CASE asked # <<>> /\ (Answers(sent, Front(asked)) \/ AnswersWith(sent, asked, 500))
  <2>. PICK n : n = m - 1
    OBVIOUS
  <2>1. SubSeq(asked, 1, n) = Front(asked)
    BY DEF Front
  <2>2. n \in 0 .. m
    <3>1. m # 0
      BY <1>3, EmptySeq
    <3>. QED  BY <1>1, <3>1
  <2>3. \/ Seen(sent) = Responses(Front(asked))
        \/ Seen(sent) = Responses(Front(asked)) \o Response(500, NoFile)
    <3>1. \A url : Response(500, url) = Response(500, NoFile)
      BY FailureAlike
    <3>. QED  BY ONLY <1>3, <3>1 DEF Answers, AnswersWith
  <2>4. n \in 0 .. Len(asked)
    BY <2>2
  <2>. PICK r : r = SubSeq(asked, 1, n)
    OBVIOUS
  <2>5. Responses(r) = Responses(Front(asked))
    BY ONLY <2>1, r = SubSeq(asked, 1, n), Zenon
  <2>6. Seen(sent) \in {Responses(r), Responses(r) \o Response(500, NoFile)}
    BY ONLY <2>3, <2>5, Zenon
  <2>. QED  BY ONLY <2>4, <2>6, r = SubSeq(asked, 1, n) DEF WholeAtEnd
<1>. QED  BY <1>2, <1>3 DEF Ended

(* No response is cut short, by a close or by the end of the server        *)
(* (close_connection(), main()).                                           *)
THEOREM NeverIsCutShort == Spec => []NeverCutShort
<1>1. ServiceInv => NeverCutShort
  <2>1. ASSUME ServiceInv, NEW c \in Client,
               conn[c] = "closed" \/ (conn[c] = "open" /\ pc = "exited"), ~ Gone(c)
        PROVE  WholeAtEnd(client[c].got \o sbuf[c], client[c].asked)
    <3>1. conn[c] = "closed" /\ EventInv /\ ServiceOK(c)
      BY <2>1, Zenon DEF ServiceInv
    <3>2. Ended(client[c].asked, client[c].got \o sbuf[c])
      BY <2>1, <3>1, ServiceOf DEF Service, Gone
    <3>3. client[c].asked \in Seq(Request) /\ client[c].got \o sbuf[c] \in Seq(Reply)
      BY <3>1, ServiceData
    <3>. QED  BY ONLY <3>2, <3>3, EndedWhole
  <2>. QED  BY <2>1 DEF NeverCutShort, WholeAtEnd
<1>. QED  BY <1>1, ServiceInvariant, PTL
=============================================================================
