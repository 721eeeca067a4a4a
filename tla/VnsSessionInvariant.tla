------------------------ MODULE VnsSessionInvariant ------------------------
(***************************************************************************)
(* The inductive invariant of module VnsSession behind TableIsTheFile,     *)
(* LeavesByItsRoute and AbortsForCause: checked by TLC, proved in          *)
(* VnsSession_proofs.                                                      *)
(***************************************************************************)
EXTENDS VnsSession

Starting == Expecting \cup {"load", "connect", "open", "reload"}
Looping == {"read", "lookup"}
Over == {"exited", "aborted", "spins"}

-----------------------------------------------------------------------------
(* Types.                                                                  *)

Messages ==
  {Message(type) : type \in {"AUTH_REQUEST", "BANNER", "CLOSE"}}
  \cup [type : {"AUTH_STATUS"}, ok : BOOLEAN] \cup [type : {"RTABLE"}, lines : Files]
  \cup [type : {"HWINFO"}, names : Topologies] \cup [type : {"PACKET"}, packet : Packets]

Interface == [name : Names, ip : Address, addr : Names]

MainRecord ==
  {m \in [pc : Starting \cup Looping \cup Over, packet : Packets \cup {NoPacket}, back : BOOLEAN] :
     m.pc = "lookup" => m.packet \in Packets}

ServerRecord ==
  [pc : {"none", "connected", "challenged", "answered", "refused", "authenticated",
         "opened", "tabled", "running", "closed"},
   tcp : {"open", "reset", "eof"}, topology : Topologies, table : Files \cup {<<>>},
   packets : 0 .. MaxPackets, early : BOOLEAN]

VariablesOK ==
  /\ rtable \in Seq(Route) /\ file \in Files
  /\ args \in [template : BOOLEAN, server_table : BOOLEAN]
  /\ main \in MainRecord /\ server \in ServerRecord
  /\ if_list \in Seq(Interface)
  /\ inbox \in Seq(Messages) /\ Len(inbox) <= MaxUnread

-----------------------------------------------------------------------------
(* Table t is file f, with a route of the file in place of a blank line.   *)
TableOf(t, f) ==
  /\ Len(t) = Len(f)
  /\ \A i \in DOMAIN f : t[i] \in Range(f) /\ (f[i] # BLANK => t[i] = f[i])

(* A file without lines leaves the table as it is, so it must be empty     *)
(* before.  Nothing is looked up before the main loop.                     *)
TableOK ==
  /\ main.pc \in Starting =>
       /\ args.template \/ file = <<>> => rtable = <<>>
       /\ entry = 1 /\ lpmentry = NULL /\ lpmmask = 0
  /\ main.pc \in Looping => TableOf(rtable, file)

Tabled == server.pc \in {"tabled", "running", "closed"}

(* The server sends one routing table, and the file of -r keeps it.        *)
ServerTableOK ==
  /\ main.pc \in {"load", "connect"} => server.pc = "none" /\ inbox = <<>>
  /\ main.pc = "RTABLE" => args.template
  /\ \A k \in DOMAIN inbox : inbox[k].type = "RTABLE" =>
       Tabled /\ inbox[k].lines = server.table
  /\ args.template /\ main.pc \in {"reload"} \cup Looping =>
       Tabled /\ (args.server_table => file = server.table)

(* All interfaces are known or will be after n messages of the inbox.      *)
Coming(n) ==
  \/ \A name \in Range(server.topology) : Known(if_list, name)
  \/ \E j \in 1 .. n : inbox[j].type = "HWINFO"

(* The interfaces come before the packets that do not come early.          *)
InterfacesOK ==
  /\ \A k \in DOMAIN inbox :
       /\ inbox[k].type = "HWINFO" => inbox[k].names = server.topology
       /\ inbox[k].type = "PACKET" => inbox[k].packet.iface \in Range(server.topology)
  /\ main.pc \notin Over /\ ~ server.early =>
       /\ server.pc = "running" => Coming(Len(inbox))
       /\ \A k \in DOMAIN inbox : inbox[k].type = "PACKET" => Coming(k - 1)
       /\ main.pc = "lookup" => if_list # <<>>
  /\ main.pc = "aborted" => server.early

(* Every route has its interface, and every interface its address.         *)
AddressesOK ==
  /\ main.pc \in Starting => if_list = <<>>
  /\ if_list # <<>> /\ main.pc \notin Over =>
       \A i \in DOMAIN rtable : Known(if_list, rtable[i].interface)
  /\ \A i \in DOMAIN if_list : if_list[i].addr = if_list[i].name

SentOK ==
  /\ main.pc \in Starting => sent = NoFrame
  /\ LeavesByItsRoute

SessionInv ==
  /\ VariablesOK /\ ScanInvariant /\ TableOK /\ ServerTableOK
  /\ InterfacesOK /\ AddressesOK /\ SentOK
=============================================================================
