----------------------------- MODULE VnsSession -----------------------------
(***************************************************************************)
(* The hw4 router as a client of the VNS server (sr_main.c,                *)
(* sr_vns_comm.c): it loads its routing table (sr_rt.c), authenticates,    *)
(* opens a topology, may get a routing table from the server, learns its   *)
(* interfaces (sr_if.c), and then handles the packets the server passes on *)
(* until the session ends.                                                 *)
(*                                                                         *)
(* Each packet is looked up with the loop of module RoutingTable.  What    *)
(* becomes of it apart from that is in Forwarding and ArpCache: here it is *)
(* sent as soon as its interface is known.                                 *)
(***************************************************************************)
EXTENDS RoutingTable, FiniteSets, SequencesExt

CONSTANTS
  Names,       \* names of interfaces
  Ip,          \* Ip[n]: the address the server gives interface n
  Files,       \* routing table files: sequences of lines
  Packets,     \* what may arrive on an interface
  Topologies,  \* what the server may announce: sequences of Names
  MaxPackets,  \* bound: packets in a session
  MaxUnread    \* bound: messages the router has not read

(* A line of a routing table file is a route, blank, or not convertible.   *)
Route == [dest : Address, mask : Mask, interface : Names]
BLANK == [kind |-> "blank"]
BAD == [kind |-> "bad"]

(* src and dst are those of the IP packet or, for an ARP request, of the   *)
(* question.  long: it has room for an ARP message or for what an ICMP     *)
(* error quotes, which is as much.  They pass the checks of                *)
(* sr_handlepacket(); one to the router itself is answered if it is long.  *)
Packet == [iface : Names, arp : BOOLEAN, src : Address, dst : Address,
           long : BOOLEAN, expiring : BOOLEAN]

ASSUME VnsSessionAssumption ==
  /\ Ip \in [Names -> Address]
  /\ Files \subseteq Seq(Route \cup {BLANK, BAD})
  /\ \A f \in Files : f = <<>> \/ f[1] # BLANK
  /\ Packets \subseteq Packet /\ \A p \in Packets : p.arp => p.long
  /\ Topologies \subseteq Seq(Names)
  /\ MaxPackets \in Nat /\ MaxUnread \in Nat \ {0}

VARIABLES
  args,        \* template: -T was given; server_table: -r names the file in
               \* which the routing table of the server is kept
  file,        \* what is in the file of -r
  main,        \* the program: where it is, the packet it is at, and whether
               \* its look-up is for the way back
  if_list,     \* the interfaces
  inbox,       \* messages of the server that have not been read
  server,      \* the server's side of the session
  sent         \* the frame that was sent last, or NoFrame

session == <<args, file, main, if_list, inbox, server, sent>>
svars == <<vars, session>>
lookup == <<ip_dst, entry, lpmentry, lpmmask>>

NoFrame == [iface |-> "none"]
NoPacket == [iface |-> "none"]

-----------------------------------------------------------------------------
(* sr_load_rt(): the first line that can be converted clears the table.    *)
(* sscanf() leaves a blank line with the fields of the line before it.     *)

LoadLine(load, line) ==
  LET route == IF line = BLANK THEN load.last ELSE line
  IN IF ~ load.ok \/ line = BAD THEN [load EXCEPT !.ok = FALSE]
     ELSE [ok |-> TRUE, last |-> route, cleared |-> TRUE,
           table |-> Append(IF load.cleared THEN load.table ELSE <<>>, route)]

(* Mutant: the table that is there stays.                                  *)
LoadAppends(table, lines) ==
  FoldLeft(LoadLine, [ok |-> TRUE, last |-> BLANK, cleared |-> TRUE, table |-> table], lines)

Load(table, lines) ==
  FoldLeft(LoadLine, [ok |-> TRUE, last |-> BLANK, cleared |-> FALSE, table |-> table], lines)

-----------------------------------------------------------------------------
(* sr_handle_hwinfo(): addresses are set on the last interface.            *)

Known(list, name) == \E i \in DOMAIN list : list[i].name = name

(* Mutant: the comparison stops before the number in the name.             *)
FirstInterface(list, name) == list[1]

GetInterface(list, name) ==
  list[CHOOSE i \in DOMAIN list :
         list[i].name = name /\ \A j \in 1 .. i - 1 : list[j].name # name]

HwEntries(name) == <<[key |-> "interface", value |-> name], [key |-> "speed"],
                     [key |-> "ethip", value |-> Ip[name]], [key |-> "ether", value |-> name]>>

HandleHwEntry(list, e) ==
  CASE e.key = "interface" -> Append(list, [name |-> e.value, ip |-> -1, addr |-> "unset"])
    [] e.key = "ethip"     -> [list EXCEPT ![Len(list)].ip = e.value]
    [] e.key = "ether"     -> [list EXCEPT ![Len(list)].addr = e.value]
    [] OTHER               -> list

HandleHwinfo(names) ==
  FoldLeft(HandleHwEntry, if_list, FlattenSeq([i \in DOMAIN names |-> HwEntries(names[i])]))

(* Mutant: an interface for some entry is enough.                          *)
VerifiedInPart(list) ==
  /\ list # <<>> /\ rtable # <<>>
  /\ \E i \in DOMAIN rtable : Known(list, rtable[i].interface)

(* sr_verify_routing_table()                                               *)
Verified(list) ==
  /\ list # <<>> /\ rtable # <<>>
  /\ \A i \in DOMAIN rtable : Known(list, rtable[i].interface)

-----------------------------------------------------------------------------
(* The server, over TCP.                                                   *)

Message(type) == [type |-> type]

Says(messages, pc) ==
  /\ server.tcp = "open" /\ Len(inbox) < MaxUnread
  /\ inbox' = inbox \o messages
  /\ server' = [server EXCEPT !.pc = pc]
  /\ UNCHANGED <<vars, args, file, main, if_list, sent>>

ServerAuthenticates ==
  \/ /\ server.pc = "connected"
     /\ Says(<<Message("AUTH_REQUEST")>>, "challenged")
  \/ \E ok \in BOOLEAN :
       /\ server.pc = "answered"
       /\ Says(<<[type |-> "AUTH_STATUS", ok |-> ok]>>, IF ok THEN "authenticated" ELSE "refused")

(* The routing table of a template, then the interfaces.                   *)
ServerSetsUp ==
  \/ /\ server.pc = "opened" /\ args.template
     /\ \E f \in Files :
          /\ server.tcp = "open" /\ Len(inbox) < MaxUnread
          /\ inbox' = Append(inbox, [type |-> "RTABLE", lines |-> f])
          /\ server' = [server EXCEPT !.pc = "tabled", !.table = f]
     /\ UNCHANGED <<vars, args, file, main, if_list, sent>>
  \/ /\ server.pc = IF args.template THEN "tabled" ELSE "opened"
     /\ Says(<<[type |-> "HWINFO", names |-> server.topology]>>, "running")

(* Frames of the other machines; they may come before the interfaces do.   *)
ServerPassesPacket ==
  /\ server.pc \in {"opened", "tabled", "running"} /\ server.packets < MaxPackets
  /\ server.tcp = "open" /\ Len(inbox) < MaxUnread
  /\ \E p \in Packets : p.iface \in Range(server.topology) /\ inbox' = Append(inbox, [type |-> "PACKET", packet |-> p])
  /\ server' = [server EXCEPT !.packets = @ + 1, !.early = @ \/ server.pc # "running"]
  /\ UNCHANGED <<vars, args, file, main, if_list, sent>>

ServerGreets == server.pc = "running" /\ Says(<<Message("BANNER")>>, "running")

ServerCloses ==
  /\ server.pc \notin {"none", "closed"}
  /\ Says(<<Message("CLOSE")>>, "closed")

(* The TCP connection ends, with or without an error.                      *)
ServerLeaves ==
  /\ server.pc # "none" /\ server.tcp = "open"
  /\ \E how \in {"reset", "eof"} : server' = [server EXCEPT !.tcp = how]
  /\ UNCHANGED <<vars, args, file, main, if_list, inbox, sent>>

-----------------------------------------------------------------------------
(* main() and sr_connect_to_server().                                      *)

Goto(pc) == main' = [main EXCEPT !.pc = pc]

(* Without a template the table is loaded before connecting as well.       *)
LoadFirst ==
  LET load == Load(rtable, file)
  IN /\ main.pc = "load"
     /\ IF args.template THEN Goto("connect") /\ UNCHANGED rtable
        ELSE rtable' = load.table /\ Goto(IF load.ok THEN "connect" ELSE "exited")
     /\ UNCHANGED <<lookup, args, file, if_list, inbox, server, sent>>

Connect ==
  /\ main.pc = "connect"
  /\ \/ Goto("AUTH_REQUEST") /\ server' = [server EXCEPT !.pc = "connected"]
     \/ Goto("exited") /\ UNCHANGED server
  /\ UNCHANGED <<vars, args, file, if_list, inbox, sent>>

(* sr_read_from_server_expect() has read a message of a type.              *)
Reads(pc, type) ==
  /\ main.pc = pc /\ inbox # <<>> /\ Head(inbox).type = type
  /\ inbox' = Tail(inbox)

Expecting == {"AUTH_REQUEST", "AUTH_STATUS", "RTABLE"}

(* A message that is not the expected one ends the program, a CLOSE too.   *)
ReadUnexpected ==
  /\ main.pc \in Expecting /\ inbox # <<>> /\ Head(inbox).type # main.pc
  /\ inbox' = Tail(inbox) /\ Goto("exited")
  /\ UNCHANGED <<vars, args, file, if_list, server, sent>>

(* The reply is sent, unless there is no key or no connection any more.    *)
ReadAuthRequest ==
  /\ Reads("AUTH_REQUEST", "AUTH_REQUEST")
  /\ \/ Goto("AUTH_STATUS") /\ server' = [server EXCEPT !.pc = IF @ = "challenged"
                                                             THEN "answered" ELSE @]
     \/ Goto("exited") /\ UNCHANGED server
  /\ UNCHANGED <<vars, args, file, if_list, sent>>

ReadAuthStatus ==
  /\ Reads("AUTH_STATUS", "AUTH_STATUS")
  /\ Goto(IF Head(inbox).ok THEN "open" ELSE "exited")
  /\ UNCHANGED <<vars, args, file, if_list, server, sent>>

(* VNSOPEN or VNS_OPEN_TEMPLATE.                                           *)
Open ==
  /\ main.pc = "open"
  /\ \/ /\ Goto(IF args.template THEN "RTABLE" ELSE "reload")
        /\ server' = [server EXCEPT !.pc = IF @ = "authenticated" THEN "opened" ELSE @]
     \/ server.tcp # "open" /\ Goto("exited") /\ UNCHANGED server
  /\ UNCHANGED <<vars, args, file, if_list, inbox, sent>>

(* sr_handle_rtable(): it is kept in a file, which may not be writable.    *)
ReadRtable ==
  /\ Reads("RTABLE", "RTABLE")
  /\ \/ /\ Goto("reload")
        /\ file' = IF args.server_table THEN Head(inbox).lines ELSE file
     \/ Goto("exited") /\ UNCHANGED file
  /\ UNCHANGED <<vars, args, if_list, server, sent>>

(* The table is loaded, for the second time if there is no template; then  *)
(* sr_init().                                                              *)
LoadAgain ==
  LET load == Load(rtable, file)
  IN /\ main.pc = "reload"
     /\ rtable' = load.table /\ Goto(IF load.ok THEN "read" ELSE "exited")
     /\ UNCHANGED <<lookup, args, file, if_list, inbox, server, sent>>

-----------------------------------------------------------------------------
(* The main loop.                                                          *)

ReadHwinfo ==
  LET list == HandleHwinfo(Head(inbox).names)
  IN /\ Reads("read", "HWINFO")
     /\ if_list' = list
     /\ Goto(IF Verified(list) THEN "read" ELSE "exited")
     /\ UNCHANGED <<vars, args, file, server, sent>>

ReadBanner ==
  /\ Reads("read", "BANNER")
  /\ UNCHANGED <<vars, args, file, main, if_list, server, sent>>

(* Mutant: the loop goes on.                                               *)
CloseIgnored ==
  /\ Reads("read", "CLOSE")
  /\ UNCHANGED <<vars, args, file, main, if_list, server, sent>>

ReadClose ==
  /\ Reads("read", "CLOSE") /\ Goto("exited")
  /\ UNCHANGED <<vars, args, file, if_list, server, sent>>

Own(ip) == \E i \in DOMAIN if_list : if_list[i].ip = ip

(* sr_findLPMentry() begins.                                               *)
LookUp(ip, packet, back) ==
  /\ ip_dst' = ip /\ entry' = 1 /\ lpmentry' = NULL /\ lpmmask' = 0
  /\ main' = [pc |-> "lookup", packet |-> packet, back |-> back]

(* sr_send_packet() on an interface there is.  A connection that is gone   *)
(* makes write() fail, or SIGPIPE end the program.                         *)
Send(name, dst) ==
  \/ /\ sent' = [iface |-> name, dst |-> dst,
                 ether_shost |-> GetInterface(if_list, name).addr]
     /\ main' = [pc |-> "read", packet |-> NoPacket, back |-> FALSE]
  \/ /\ server.tcp # "open" /\ UNCHANGED sent
     /\ \E pc \in {"read", "exited"} : main' = [pc |-> pc, packet |-> NoPacket, back |-> FALSE]

Drop == main' = [pc |-> "read", packet |-> NoPacket, back |-> FALSE] /\ UNCHANGED sent

(* sr_arp_req_not_for_us(), and sr_handlepacket() up to its first look-up. *)
ReadPacket ==
  LET p == Head(inbox).packet
  IN /\ Reads("read", "PACKET")
     /\ IF p.long /\ ~ Known(if_list, p.iface)
        THEN Goto("aborted") /\ UNCHANGED <<lookup, sent>>
        ELSE IF p.arp
        THEN /\ IF p.dst = GetInterface(if_list, p.iface).ip THEN Send(p.iface, p.src) ELSE Drop
             /\ UNCHANGED lookup
        ELSE IF Own(p.dst)
        THEN IF p.long THEN LookUp(p.src, p, TRUE) /\ UNCHANGED sent
             ELSE Drop /\ UNCHANGED lookup
        ELSE LookUp(p.dst, p, FALSE) /\ UNCHANGED sent
     /\ UNCHANGED <<rtable, args, file, if_list, server>>

(* One turn of the loop of sr_findLPMentry().                              *)
ScanTable == main.pc = "lookup" /\ Scan /\ UNCHANGED session

(* What sr_handlepacket() does with the entry.  No route, or a packet that *)
(* expires, is answered to the sender; an interface that does not exist is *)
(* a null pointer.                                                         *)
UseRoute ==
  LET p == main.packet
  IN /\ main.pc = "lookup" /\ Done
     /\ IF ~ main.back /\ (lpmentry = NULL \/ p.expiring)
        THEN LookUp(p.src, p, TRUE) /\ UNCHANGED sent
        ELSE /\ IF lpmentry = NULL \/ (main.back /\ ~ p.long) THEN Drop
                ELSE IF ~ Known(if_list, rtable[lpmentry].interface)
                THEN Goto("aborted") /\ UNCHANGED sent
                ELSE Send(rtable[lpmentry].interface, ip_dst)
             /\ UNCHANGED lookup
     /\ UNCHANGED <<rtable, args, file, if_list, inbox, server>>

Reading == main.pc \in Expecting \cup {"read"}

(* recv() returns -1.                                                      *)
ReadFails ==
  /\ Reading /\ server.tcp = "reset" /\ Goto("exited")
  /\ UNCHANGED <<vars, args, file, if_list, inbox, server, sent>>

(* recv() returns 0, for ever: the loop counts bytes and does not look for *)
(* the end of the connection.                                              *)
ReadSpins ==
  /\ Reading /\ server.tcp = "eof" /\ inbox = <<>> /\ Goto("spins")
  /\ UNCHANGED <<vars, args, file, if_list, inbox, server, sent>>

-----------------------------------------------------------------------------
SessionInit ==
  /\ rtable = <<>> /\ ip_dst \in {CHOOSE a \in Address : TRUE}
  /\ entry = 1 /\ lpmentry = NULL /\ lpmmask = 0
  /\ args \in [template : BOOLEAN, server_table : BOOLEAN]
  /\ file \in Files
  /\ main = [pc |-> "load", packet |-> NoPacket, back |-> FALSE]
  /\ if_list = <<>> /\ inbox = <<>> /\ sent = NoFrame
  /\ \E t \in Topologies :
       server = [pc |-> "none", tcp |-> "open", topology |-> t, table |-> <<>>,
                 packets |-> 0, early |-> FALSE]

Client ==
  \/ LoadFirst \/ Connect \/ ReadUnexpected \/ ReadAuthRequest \/ ReadAuthStatus
  \/ Open \/ ReadRtable \/ LoadAgain
  \/ ReadHwinfo \/ ReadBanner \/ ReadClose \/ ReadPacket \/ ScanTable \/ UseRoute
  \/ ReadFails \/ ReadSpins

Server ==
  \/ ServerAuthenticates \/ ServerSetsUp \/ ServerPassesPacket \/ ServerGreets
  \/ ServerCloses \/ ServerLeaves

SessionNext == Client \/ Server

(* The program runs; the server owes nothing.                              *)
SessionSpec == SessionInit /\ [][SessionNext]_svars /\ WF_svars(Client)

-----------------------------------------------------------------------------
Ended == main.pc \in {"exited", "aborted"}

TypeOK ==
  /\ main.pc \in Expecting \cup {"load", "connect", "open", "reload", "read", "lookup",
                                 "exited", "aborted", "spins"}
  /\ main.packet \in Packets \cup {NoPacket} /\ main.back \in BOOLEAN
  /\ rtable \in Seq(Route) /\ file \in Files /\ Len(inbox) <= MaxUnread
  /\ \A i \in DOMAIN if_list : if_list[i].ip \in Address /\ if_list[i].addr \in Names
  /\ server.packets \in 0 .. MaxPackets

(* In the main loop the table is the file's: not what two loads add up to, *)
(* and for a template that of the server, when -r names its file           *)
(* (sr_main.c:155).                                                        *)
TableIsTheFile ==
  /\ TypeOK
  /\ main.pc \in {"read", "lookup"} =>
       /\ Len(rtable) = Len(file)
       /\ \A i \in DOMAIN file : file[i] # BLANK => rtable[i] = file[i]
       /\ args.template /\ args.server_table => file = server.table

RoutesTo(ip) == {r \in Route : r \in Range(file) /\ Matches(r, ip) /\ r.mask # 0}

(* A frame leaves on the interface of a longest route the file has to its  *)
(* destination, or is an ARP reply; its source is the address which the    *)
(* server gave that interface, or the server would not take it             *)
(* (sr_vns_comm.c:538).                                                    *)
LeavesByItsRoute ==
  sent # NoFrame =>
    /\ sent.ether_shost = sent.iface
    /\ \/ \E r \in RoutesTo(sent.dst) :
            /\ r.interface = sent.iface
            /\ \A q \in RoutesTo(sent.dst) : q.mask <= r.mask
       \/ \E p \in Packets : p.arp /\ p.iface = sent.iface /\ p.src = sent.dst

(* The program aborts only if a packet comes before the interfaces do: the *)
(* table is verified against them (sr_main.c:283), so that a route found   *)
(* has its interface.                                                      *)
AbortsForCause == main.pc = "aborted" => server.early

(* A session that the server closes, or whose connection breaks, ends the  *)
(* program.                                                                *)
SessionEnds == (server.pc = "closed" \/ server.tcp = "reset") /\ server.tcp # "eof" ~> Ended
=============================================================================
