------------------------------ MODULE ArpCache ------------------------------
(***************************************************************************)
(* The ARP cache of the hw4 router (sr_arpcache.c) with the two threads    *)
(* that use it: "main", which runs sr_handlepacket() for each frame that   *)
(* arrives, and "sweep", which runs sr_arpcache_timeout() once a second.   *)
(*                                                                         *)
(* The sweep holds the (recursive) lock from beginning to end.  main takes *)
(* it for each lookup, queuereq, insert and destroy, which are one step    *)
(* each, but calls handle_arpreq() on the request that queuereq returned   *)
(* without it.  handle_arpreq() calls itself for the ICMP errors it sends, *)
(* so each thread has a stack.                                             *)
(***************************************************************************)
EXTENDS Forwarding, Sequences, FiniteSets, FiniteSetsExt, SequencesExt

CONSTANTS
  Traffic,     \* the IP packets that may arrive
  CacheSize,   \* SR_ARPCACHE_SZ
  MaxSent,     \* how often a request is sent before it is given up
  MaxQueued,   \* bound: packets that wait when another one is taken in
  MaxDepth     \* bound: frames that fit the stack of a thread

Thread == {"main", "sweep"}

(* What an entry holds while its flag "valid" is not set. *)
Invalid == "invalid"

ASSUME ArpCacheAssumption ==
  /\ Traffic \subseteq Packet
  /\ CacheSize \in Nat \ {0}
  /\ MaxSent \in Nat
  /\ MaxQueued \in Nat
  /\ MaxDepth \in Nat \ {0}
  /\ Invalid \notin Address

VARIABLES
  entries,     \* entries[i]: address in slot i, or Invalid
  requests,    \* cache->requests, from its head on: names of requests
  heap,        \* heap[r]: the sr_arpreq r, while it is allocated
  stack,       \* stack[t]: calls thread t is in, innermost first
  fault        \* what the program did that C does not define

vars == <<entries, requests, heap, stack, fault>>

NULL == 0

-----------------------------------------------------------------------------
(* Calls.  "sweep": the loop of sr_arpcache_sweepreqs(), req is its next.  *)
(* "handle", "send" and "giveup": sr_arpcache_handle_arpreq() at its       *)
(* entry, before it sends, and in its loop over the packets.               *)

PC == {"sweep", "handle", "send", "giveup"}

Frame(pc, req) == [pc |-> pc, req |-> req, seen |-> 0, todo |-> <<>>, taken |-> 0]

Top(t) == Head(stack[t])

At(t, pc) == fault = "none" /\ stack[t] # <<>> /\ Top(t).pc = pc

(* The thread is in a call that reads a request that is still allocated. *)
Live(t, pc) == At(t, pc) /\ Top(t).req \in DOMAIN heap

Return(t) == stack' = [stack EXCEPT ![t] = Tail(@)]

Goto(t, frame) == stack' = [stack EXCEPT ![t] = <<frame>> \o Tail(@)]

GotoAndCall(t, frame, callee) ==
  stack' = [stack EXCEPT ![t] = <<callee, frame>> \o Tail(@)]

(* Mutant: no lock. *)
LockIgnored(t) == TRUE

(* Another thread does not hold cache->lock. *)
LockFree(t) == t = "sweep" \/ stack["sweep"] = <<>>

-----------------------------------------------------------------------------
(* The cache and the queue of requests. *)

Elements(s) == {s[i] : i \in DOMAIN s}

(* sr_arpcache_lookup() finds an entry. *)
Cached(ip) == \E i \in DOMAIN entries : entries[i] = ip

Positions(ip) == {i \in DOMAIN requests : heap[requests[i]].ip = ip}

(* Requests some thread has a pointer to. *)
Held == {f.req : f \in UNION {Elements(stack[t]) : t \in Thread}}

(* calloc(): memory nobody uses.  Not reusing memory that a thread still   *)
(* points to is what shows that it does.                                   *)
Fresh ==
  LET used == DOMAIN heap \cup Held
  IN Min((1 .. (Cardinality(used) + 1)) \ used)

(* Mutant: every packet gets a request of its own. *)
AlwaysFresh(ip) == Fresh

Target(ip) ==
  IF Positions(ip) = {} THEN Fresh ELSE requests[Min(Positions(ip))]

(* A calloc()ed request was sent at time 0, which is long ago. *)
NewRequest(ip) ==
  [ip |-> ip, due |-> TRUE, times_sent |-> 0, packets |-> <<>>]

(* sr_arpcache_queuereq(): the newest packet comes first. *)
QueueRequest(ip, packet) ==
  LET r == Target(ip)
      old == IF r \in DOMAIN heap THEN heap[r] ELSE NewRequest(ip)
  IN /\ heap' = [x \in DOMAIN heap \cup {r} |->
                   IF x = r THEN [old EXCEPT !.packets = <<packet>> \o @]
                   ELSE heap[x]]
     /\ requests' = IF r \in Elements(requests) THEN requests
                    ELSE Append(requests, r)

(* The queue without r, which is unlinked where it is found first. *)
Without(r) == RemoveFirst(requests, r)

(* sr_arpreq_destroy() *)
Destroy(r) ==
  /\ requests' = Without(r)
  /\ heap' = [x \in DOMAIN heap \ {r} |-> heap[x]]

-----------------------------------------------------------------------------
(* sr_arpcache_handle_arpreq() *)

HandleArpreq(t) ==
  /\ Live(t, "handle")
  /\ LET r == Top(t).req
         q == heap[r]
     IN IF ~ q.due
        THEN Return(t)
        ELSE IF q.times_sent >= MaxSent
        THEN Goto(t, [Frame("giveup", r) EXCEPT !.todo = q.packets,
                                                !.taken = Len(q.packets)])
        ELSE Goto(t, [Frame("send", r) EXCEPT !.seen = q.times_sent])
  /\ UNCHANGED <<entries, requests, heap, fault>>

(* Mutant: what was sent is not counted. *)
SendRequestUncounted(t) ==
  /\ Live(t, "send")
  /\ heap' = [heap EXCEPT ![Top(t).req].due = FALSE]
  /\ Return(t)
  /\ UNCHANGED <<entries, requests, fault>>

(* Sends the ARP request.  main increments times_sent without the lock, so *)
(* an increment of the other thread may be lost.                           *)
SendRequest(t) ==
  /\ Live(t, "send")
  /\ \E n \in {heap[Top(t).req].times_sent, Top(t).seen} :
       heap' = [heap EXCEPT ![Top(t).req].due = FALSE,
                            ![Top(t).req].times_sent = n + 1]
  /\ Return(t)
  /\ UNCHANGED <<entries, requests, fault>>

(* Whether the next packet needs a request of its own to be answered. *)
NeedsRequest(p) == Answerable(p) /\ ~ Cached(p.src)

Advanced(f) == [f EXCEPT !.todo = Tail(@)]

(* One turn of the loop over the packets: an ICMP host unreachable is sent *)
(* at once, or waits for a request of its own, which is handled now.       *)
AnswerPacket(t) ==
  /\ Live(t, "giveup")
  /\ Top(t).todo # <<>>
  /\ LockFree(t)
  /\ LET f == Top(t)
         p == Head(f.todo)
     IN IF ~ NeedsRequest(p)
        THEN Goto(t, Advanced(f)) /\ UNCHANGED <<requests, heap>>
        ELSE /\ Len(stack[t]) < MaxDepth
             /\ QueueRequest(p.src, Error(p))
             /\ GotoAndCall(t, Advanced(f), Frame("handle", Target(p.src)))
  /\ UNCHANGED <<entries, fault>>

GiveUpDone(t) ==
  /\ Live(t, "giveup")
  /\ Top(t).todo = <<>>
  /\ LockFree(t)
  /\ Destroy(Top(t).req)
  /\ Return(t)
  /\ UNCHANGED <<entries, fault>>

(* The recursion does not fit the stack. *)
ExhaustStack(t) ==
  /\ Live(t, "giveup")
  /\ Top(t).todo # <<>>
  /\ NeedsRequest(Head(Top(t).todo))
  /\ Len(stack[t]) >= MaxDepth
  /\ fault' = "overflow"
  /\ UNCHANGED <<entries, requests, heap, stack>>

(* The thread reads a request, or the next pointer of one, after free(). *)
UseFreed(t) ==
  /\ \E pc \in PC : At(t, pc)
  /\ Top(t).req \notin DOMAIN heap \cup {NULL}
  /\ fault' = "freed"
  /\ UNCHANGED <<entries, requests, heap, stack>>

-----------------------------------------------------------------------------
(* The sweeper. *)

Successor(r) ==
  LET i == CHOOSE j \in DOMAIN requests : requests[j] = r
  IN IF i < Len(requests) THEN requests[i + 1] ELSE NULL

(* It takes the lock and invalidates entries older than SR_ARPCACHE_TO. *)
BeginSweep ==
  /\ fault = "none"
  /\ stack["sweep"] = <<>>
  /\ \E old \in SUBSET {i \in DOMAIN entries : entries[i] # Invalid} :
       entries' = [i \in DOMAIN entries |->
                     IF i \in old THEN Invalid ELSE entries[i]]
  /\ stack' = [stack EXCEPT !["sweep"] =
       <<Frame("sweep", IF requests = <<>> THEN NULL ELSE Head(requests))>>]
  /\ UNCHANGED <<requests, heap, fault>>

(* sr_arpcache_sweepreqs(): the next pointer is saved before the call. *)
SweepNext ==
  /\ Live("sweep", "sweep")
  /\ LET r == Top("sweep").req
     IN GotoAndCall("sweep", Frame("sweep", Successor(r)), Frame("handle", r))
  /\ UNCHANGED <<entries, requests, heap, fault>>

(* It releases the lock. *)
EndSweep ==
  /\ At("sweep", "sweep")
  /\ Top("sweep").req = NULL
  /\ Return("sweep")
  /\ UNCHANGED <<entries, requests, heap, fault>>

-----------------------------------------------------------------------------
(* sr_handlepacket() *)

Idle == fault = "none" /\ stack["main"] = <<>>

(* Packets that wait for a MAC address. *)
Waiting == MapThenSumSet(LAMBDA r : Len(heap[r].packets), DOMAIN heap)

(* An IP packet whose next hop is not in the cache.  One whose next hop is *)
(* known goes out, or is dropped, and nothing changes.                     *)
ReceivePacket ==
  /\ Idle
  /\ LockFree("main")
  /\ Waiting < MaxQueued
  /\ \E p \in Traffic : \E q \in Handled(p) :
       /\ ~ Cached(q.dst)
       /\ QueueRequest(q.dst, q)
       /\ stack' = [stack EXCEPT !["main"] = <<Frame("handle", Target(q.dst))>>]
  /\ UNCHANGED <<entries, fault>>

(* Mutant: the request stays in the queue when its answer comes. *)
UnlinkNothing(ip) == UNCHANGED <<requests, heap>>

(* The request for ip leaves the queue; its packets are sent and it is     *)
(* destroyed.                                                              *)
Unlink(ip) ==
  IF Positions(ip) = {} THEN UNCHANGED <<requests, heap>>
  ELSE Destroy(requests[Min(Positions(ip))])

(* The first slot that is free takes the address; if none is, none does. *)
Insert(ip) ==
  LET free == {i \in DOMAIN entries : entries[i] = Invalid}
  IN entries' = IF free = {} THEN entries
                ELSE [entries EXCEPT ![Min(free)] = ip]

(* An ARP reply, asked for or not: sr_arpcache_insert(), the packets that  *)
(* waited, and sr_arpreq_destroy().  The request is unlinked when no sweep *)
(* is on, so nobody else points to it.                                     *)
ReceiveReply(ip) ==
  /\ Idle
  /\ LockFree("main")
  /\ Insert(ip)
  /\ Unlink(ip)
  /\ UNCHANGED <<stack, fault>>

-----------------------------------------------------------------------------
(* time(NULL) counts seconds: when it moves on, whatever was sent before   *)
(* was sent a second ago for difftime().                                   *)
Tick ==
  /\ fault = "none"
  /\ heap' = [r \in DOMAIN heap |-> [heap[r] EXCEPT !.due = TRUE]]
  /\ UNCHANGED <<entries, requests, stack, fault>>

Init ==
  /\ entries = [i \in 1 .. CacheSize |-> Invalid]
  /\ requests = <<>>
  /\ heap = [r \in {} |-> NewRequest(Invalid)]
  /\ stack = [t \in Thread |-> <<>>]
  /\ fault = "none"

Calls(t) ==
  \/ HandleArpreq(t) \/ SendRequest(t)
  \/ AnswerPacket(t) \/ GiveUpDone(t)
  \/ ExhaustStack(t) \/ UseFreed(t)

Sweep == BeginSweep \/ SweepNext \/ EndSweep \/ Calls("sweep")

Main == ReceivePacket \/ (\E ip \in Host : ReceiveReply(ip)) \/ Calls("main")

Next == Sweep \/ Main \/ Tick

Spec == Init /\ [][Next]_vars

(* The sweeper runs for ever and seconds pass; nothing obliges packets to  *)
(* come, or hosts to answer.                                               *)
FairSpec == Spec /\ WF_vars(Sweep) /\ WF_vars(Tick)

-----------------------------------------------------------------------------
Request == [ip : Address, due : BOOLEAN, times_sent : Nat,
            packets : Seq(Packet)]

Call == [pc : PC, req : Nat, seen : Nat, todo : Seq(Packet), taken : Nat]

(* Every variable has its type; a request has a name other than NULL. *)
TypeOK ==
  /\ entries \in [1 .. CacheSize -> Address \cup {Invalid}]
  /\ requests \in Seq(Nat \ {NULL})
  /\ DOMAIN heap \subseteq Nat \ {NULL}
  /\ \A r \in DOMAIN heap : heap[r] \in Request
  /\ stack \in [Thread -> Seq(Call)]
  /\ fault \in {"none", "freed", "overflow"}

(* The queue holds every allocated request once, one for each address, and *)
(* each has a packet to say which interface it is for (the assertion in    *)
(* sr_arpcache_handle_arpreq): none is lost, however the threads destroy   *)
(* and queue requests in turn.                                             *)
QueueConsistent ==
  /\ TypeOK
  /\ Elements(requests) = DOMAIN heap
  /\ \A i, j \in DOMAIN requests :
       heap[requests[i]].ip = heap[requests[j]].ip => i = j
  /\ \A r \in DOMAIN heap : heap[r].packets # <<>>

(* No packet waits for an address that is in the cache: between the lookup *)
(* of one call and the queuereq of the next nothing can have been inserted.*)
NoWaitWhenKnown == \A r \in DOMAIN heap : ~ Cached(heap[r].ip)

(* When a request is given up, every packet that came too late for the     *)
(* loop over its packets is one that gets no ICMP error: only the errors   *)
(* of nested calls come that late, as main waits for the lock.             *)
EveryWaiterAnswered ==
  [][\A t \in Thread :
       Live(t, "giveup") /\ Top(t).req \notin DOMAIN heap' =>
         LET waiting == heap[Top(t).req].packets
         IN \A i \in 1 .. (Len(waiting) - Top(t).taken) :
              ~ Answerable(waiting[i])]_vars

(* The packets that came too late for the call f, which gives their        *)
(* request up, are ICMP errors.                                            *)
LateOK(f) ==
  f.pc = "giveup" /\ f.req \in DOMAIN heap =>
    LET waiting == heap[f.req].packets
    IN /\ f.taken <= Len(waiting)
       /\ \A i \in 1 .. (Len(waiting) - f.taken) : waiting[i].proto = "error"

(* The inductive invariant behind the three: proved in ArpCache_proofs.    *)
ArpInv ==
  /\ QueueConsistent
  /\ NoWaitWhenKnown
  /\ \A t \in Thread : \A f \in Elements(stack[t]) : LateOK(f)

(* A packet does not wait for ever: its request is answered or given up,   *)
(* though main may handle it at any moment and increments may be lost.     *)
RequestEnds ==
  \A r \in 1 .. (Cardinality(Address) + 1) :
    (fault = "none" /\ r \in DOMAIN heap)
      ~> (fault # "none" \/ r \notin DOMAIN heap)

-----------------------------------------------------------------------------
(* What comments of the repository say and the code does not do.           *)

(* "no infinite loop guaranteed,, by setting icmp_type = 3"                *)
(* (sr_arpcache.c:156): the calls of sr_arpcache_handle_arpreq() for the   *)
(* ICMP errors come to an end.  Two requests that are given up, each with  *)
(* a packet from the address of the other, call each other without end:    *)
(* a request is destroyed only after its packets are answered.             *)
NoEndlessRecursion == fault # "overflow"

(* "make sure to save the next pointer before calling handle_arpreq"       *)
(* (sr_arpcache.h:62) since it may destroy the current request: the saved  *)
(* pointer is good.  A nested call may destroy the next request too.       *)
SavedNextValid ==
  \A f \in Elements(stack["sweep"]) :
    f.pc = "sweep" => f.req \in DOMAIN heap \cup {NULL}

(* "A pointer to the ARP request is returned; it should not be freed. The  *)
(* caller can remove the ARP request from the queue" (sr_arpcache.c:249):  *)
(* main can use what queuereq returned.  The sweeper may free it first.    *)
ReturnedRequestValid ==
  \A f \in Elements(stack["main"]) : f.req \in DOMAIN heap
=============================================================================
