------------------------- MODULE ListenQueue_proofs -------------------------
(***************************************************************************)
(* Theorems about module ListenQueue, for every number of peers, backlog   *)
(* and number of descriptors, whether the listening socket is closed or    *)
(* not.                                                                    *)
(***************************************************************************)
EXTENDS ListenQueue, FiniteSetTheorems, SequenceTheorems,
        WellFoundedInduction, TLAPS

-----------------------------------------------------------------------------
(* Entries, descriptors and their numbers. *)

(* Entries and descriptors are positive, and None is neither.              *)
LEMMA Numbered ==
  /\ max_len \in Nat \ {0} /\ Slot \subseteq Nat \ {None} /\ Sd \subseteq Nat \ {None}
  /\ Peers \subseteq Nat \ {None}
BY ListenQueueAssumption DEF max_len, Slot, Sd, Peers, None

(* Min of a non-empty set of naturals is its least element.                *)
LEMMA MinProperty ==
  ASSUME NEW T, T \subseteq Nat, T # {}
  PROVE  Min(T) \in T /\ \A y \in T : Min(T) <= y
<1>1. IsWellFoundedOn({ss \in Nat \X Nat : ss[1] < ss[2]}, Nat)
  BY NatLessThanWellFounded DEF OpToRel
<1>2. PICK x \in T :
        \A y \in T : ~(<<y, x>> \in {ss \in Nat \X Nat : ss[1] < ss[2]})
  BY <1>1, WFMin
<1>3. \A y \in T : /\ <<y, x>> \in Nat \X Nat
                   /\ <<y, x>>[1] = y /\ <<y, x>>[2] = x
  OBVIOUS
<1>4. \A y \in T : ~ (y < x)
  BY <1>2, <1>3
<1>5. \A y \in T : x =< y
  BY <1>4
<1>. QED  BY <1>5 DEF Min

(* The used entries are finitely many, at most max_len.                    *)
LEMMA UsedFinite ==
  /\ UsedSlots \subseteq Slot /\ IsFiniteSet(UsedSlots)
  /\ Cardinality(UsedSlots) \in Nat /\ Cardinality(UsedSlots) <= max_len
  /\ Cardinality(UsedSlots) = max_len => UsedSlots = Slot
<1>1. IsFiniteSet(Slot) /\ Cardinality(Slot) = max_len
  BY Numbered, FS_Interval DEF Slot
<1>2. UsedSlots \in SUBSET Slot
  BY DEF UsedSlots
<1>. QED  BY <1>1, <1>2, FS_Subset, FS_CardinalityType

(* So are the threads that signal.                                         *)
LEMMA SignallingFinite ==
  IsFiniteSet(Signalling) /\ Cardinality(Signalling) \in Nat
<1>1. IsFiniteSet(Sd)
  BY ListenQueueAssumption, FS_Interval DEF Sd
<1>2. Signalling \in SUBSET Sd
  BY DEF Signalling
<1>. QED  BY <1>1, <1>2, FS_Subset, FS_CardinalityType

(* A used entry is the only one of its descriptor.                         *)
LEMMA OneEntry ==
  ASSUME VariablesOK, OwnedOK, NEW k \in Slot, slots[k] # None
  PROVE  EntryOf(slots[k]) = {k} /\ Min(EntryOf(slots[k])) = k
<1>1. EntryOf(slots[k]) = {k}
  BY DEF OwnedOK, EntryOf
<1>2. Min({k}) = k
  BY Numbered, MinProperty
<1>. QED  BY <1>1, <1>2

-----------------------------------------------------------------------------
(* What each part of the invariant depends on. *)

(* The lock, while no thread enters or leaves its critical section.      *)
LEMMA LockFrame ==
  ASSUME LockOK, lock' = lock, Signalling' = Signalling,
         recv'.pc = "fill" <=> recv.pc = "fill",
         app'.pc \in Dequeueing <=> app.pc \in Dequeueing,
         app'.pc \in {"closeslots", "joinqueued"} <=> app.pc \in {"closeslots", "joinqueued"}
  PROVE  LockOK'
BY DEF LockOK

(* The receive thread, while it and its entry are left alone.            *)
LEMMA RecvFrame ==
  ASSUME RecvOK, UNCHANGED <<recv, new_socket, slots, failed>>,
         history.dropped => history.dropped',
         app'.pc \in Joined => app.pc \in Joined
  PROVE  RecvOK'
BY DEF RecvOK

(* A step of the threads of the connections: descriptors stay in use or    *)
(* unused, with their peers, and what has been handed over stays so.       *)
SameOwners ==
  \A sd \in Sd : /\ ctx'[sd].pc = "free" <=> ctx[sd].pc = "free"
                 /\ ctx'[sd].peer = ctx[sd].peer
                 /\ ctx[sd].pc \in HandedOver => ctx'[sd].pc \in HandedOver

(* The owners of the descriptors, while the entries are left alone.      *)
LEMMA OwnedFrame ==
  ASSUME VariablesOK, OwnedOK, SameOwners, UNCHANGED slots, UNCHANGED <<app.sd, app.pc>>
  PROVE  OwnedOK'
<1>1. app.sd \in Sd \cup {None} /\ slots \in [Slot -> Sd \cup {None}]
  BY DEF VariablesOK, Application
<1>2. UsedSlots' = UsedSlots /\ \A sd : EntryOf(sd)' = EntryOf(sd)
  BY DEF UsedSlots, EntryOf
<1>3. app.pc \in Accepting => app.sd \in Sd
  BY <1>1 DEF OwnedOK
<1>. QED  BY <1>1, <1>2, <1>3 DEF OwnedOK, SameOwners

(* The completed connections, in a step that adds and takes none.        *)
LEMMA CompletedFrame ==
  ASSUME VariablesOK, CompletedOK, SameOwners, UNCHANGED <<completed, slots>>,
         UNCHANGED lock.writer,
         UNCHANGED <<history.completed, history.accepted>>,
         app'.pc # "closed" => app.pc # "closed"
  PROVE  CompletedOK'
<1>1. \A k \in Slot : slots[k] # None => slots[k] \in Sd
  BY DEF VariablesOK
<1>2. \A i \in DOMAIN completed : completed[i] \in Slot
  BY DEF VariablesOK
<1>3. \A i \in DOMAIN completed : PeerAt(completed[i])' = PeerAt(completed[i])
  BY <1>1, <1>2 DEF PeerAt, SameOwners
<1>. QED  BY <1>1, <1>2, <1>3 DEF CompletedOK, SameOwners

(* The count, in a step that changes neither cur_len nor the entries.    *)
LEMMA CountFrame ==
  ASSUME CountOK, UNCHANGED <<slots, cur_len, recv>>, UNCHANGED lock.writer,
         UNCHANGED history.raced, app'.pc = "count" <=> app.pc = "count", UNCHANGED app.len
  PROVE  CountOK'
BY DEF CountOK, UsedSlots

(* The causes, in a step that passes every assertion.                    *)
LEMMA CauseFrame ==
  ASSUME CauseOK, UNCHANGED failed,
         history.raced => history'.raced, history.dropped => history'.dropped
  PROVE  CauseOK'
BY DEF CauseOK

(* A step that changes no context.                                         *)
LEMMA ContextFrame ==
  ASSUME UNCHANGED ctx
  PROVE  Signalling' = Signalling /\ SameOwners
BY DEF Signalling, SameOwners

(* The application moves on.                                               *)
LEMMA AppMoves ==
  ASSUME VariablesOK, NEW pc \in AppPc, AppAt(pc)
  PROVE  /\ app' \in Application /\ app'.pc = pc
         /\ UNCHANGED <<app.sd, app.len, app.stop>>
<1>1. app \in Application
  BY DEF VariablesOK
<1>. QED  BY <1>1 DEF AppAt, Application

-----------------------------------------------------------------------------
(* The steps. *)

(* A peer connects, sends its SYN or goes away.                          *)
LEMMA PeerStep ==
  ASSUME ListenInv, NEW p \in Peers,
         PeerConnects(p) \/ \E what \in {"syn", "gone"} : PeerSends(p, what)
  PROVE  ListenInv'
<1>1. UNCHANGED <<new_socket, recv, slots, cur_len, completed, lock, ctx, app, failed, history>>
  BY DEF PeerConnects, PeerSends
<1>2. VariablesOK'
  <2>1. peer \in [Peers -> {"idle", "connected", "syn", "gone"}] /\ pending \in Seq(Peers)
    BY DEF ListenInv, VariablesOK
  <2>2. peer' \in [Peers -> {"idle", "connected", "syn", "gone"}]
    BY <2>1 DEF PeerConnects, PeerSends
  <2>3. pending' \in Seq(Peers)
    BY <2>1 DEF PeerConnects, PeerSends
  <2>. QED  BY <1>1, <2>2, <2>3 DEF ListenInv, VariablesOK
<1>3. LockOK' /\ RecvOK' /\ OwnedOK' /\ CompletedOK' /\ CountOK' /\ CauseOK'
  BY <1>1, LockFrame, RecvFrame, OwnedFrame, CompletedFrame, CountFrame, CauseFrame,
     ContextFrame DEF ListenInv
<1>. QED  BY <1>2, <1>3 DEF ListenInv

(* The receive thread accepts; its assertion fails only after a drop.    *)
LEMMA RecvAcceptsStep ==
  ASSUME ListenInv, Running, RecvAccepts
  PROVE  ListenInv'
<1>1. UNCHANGED <<peer, slots, cur_len, completed, lock, ctx, app, history>>
  BY DEF RecvAccepts
<1>2. pending \in Seq(Peers) /\ recv \in Receiver /\ failed \in Failures
  BY DEF ListenInv, VariablesOK
<1>3. pending' \in Seq(Peers) /\ new_socket' \in Peers
  BY <1>2 DEF RecvAccepts
<1>4. recv' \in Receiver /\ recv.pc = "poll" /\ recv'.pc = "read"
  BY <1>2 DEF RecvAccepts, Receiver, RecvPc
<1>5. /\ failed = "" /\ failed' \in Failures
      /\ failed' = IF new_socket = None THEN failed ELSE "new_socket"
  BY <1>2 DEF RecvAccepts, Check, Running, Failures
<1>6. VariablesOK'
  BY <1>1, <1>3, <1>4, <1>5 DEF ListenInv, VariablesOK
<1>7. LockOK' /\ OwnedOK' /\ CompletedOK'
  BY <1>1, <1>4, LockFrame, OwnedFrame, CompletedFrame, ContextFrame DEF ListenInv
<1>8. RecvOK'
  BY <1>1, <1>3, <1>4, Numbered DEF ListenInv, RecvOK, Joined
<1>9. CountOK'
  BY <1>1, <1>4 DEF ListenInv, CountOK, UsedSlots
<1>10. CauseOK'
  BY <1>1, <1>4, <1>5 DEF ListenInv, CauseOK, RecvOK
<1>. QED  BY <1>6, <1>7, <1>8, <1>9, <1>10 DEF ListenInv

(* The receive thread reads, or ends.                                      *)
LEMMA RecvMovesStep ==
  ASSUME ListenInv, RecvExits \/ RecvReads
  PROVE  ListenInv'
<1>1. UNCHANGED <<peer, pending, new_socket, slots, cur_len, completed, lock, ctx, app,
                  failed, history>>
  BY DEF RecvExits, RecvReads
<1>2. recv \in Receiver
  BY DEF ListenInv, VariablesOK
<1>3. /\ recv' \in Receiver /\ recv.pc \in {"poll", "read"}
      /\ recv'.pc = "ended" \/ (recv'.pc = "enqueue" /\ recv.pc = "read")
  BY <1>2 DEF RecvExits, RecvReads, Receiver, RecvPc
<1>4. VariablesOK'
  BY <1>1, <1>3 DEF ListenInv, VariablesOK
<1>5. LockOK' /\ OwnedOK' /\ CompletedOK' /\ CauseOK'
  BY <1>1, <1>3, LockFrame, OwnedFrame, CompletedFrame, ContextFrame, CauseFrame
     DEF ListenInv
<1>6. RecvOK'
  BY <1>1, <1>3 DEF ListenInv, RecvOK, Joined
<1>7. CountOK'
  BY <1>1, <1>3 DEF ListenInv, CountOK, UsedSlots
<1>. QED  BY <1>4, <1>5, <1>6, <1>7 DEF ListenInv

(* The receive thread looks for a free entry.  There is one unless cur_len *)
(* is wrong.                                                               *)
LEMMA EnqueueStep ==
  ASSUME ListenInv, Running, EnqueueConnection
  PROVE  ListenInv'
<1> DEFINE free == {k \in Slot : slots[k] = None}
           known == \E k \in Slot : slots[k] # None /\ ctx[slots[k]].peer = new_socket
           full == cur_len >= max_len
<1>1. UNCHANGED <<peer, pending, new_socket, slots, cur_len, completed, ctx, app>>
  BY DEF EnqueueConnection
<1>2. /\ recv \in Receiver /\ failed \in Failures /\ history \in History
      /\ lock \in [readers : Nat, writer : BOOLEAN] /\ cur_len \in Int /\ failed = ""
  BY DEF ListenInv, VariablesOK, Running
<1>3. recv.pc = "enqueue" /\ ~ lock.writer
  BY DEF EnqueueConnection, CanRead
<1>4. /\ history' \in History
      /\ history'.completed = history.completed /\ history'.accepted = history.accepted
      /\ history'.dropped <=> history.dropped \/ known \/ full
      /\ history'.raced <=> history.raced \/ app.pc = "count"
  BY <1>2, Zenon DEF EnqueueConnection, History
<1>5. CASE known \/ full
  <2>1. /\ recv' = [recv EXCEPT !.pc = "poll"]
        /\ UNCHANGED <<lock, failed>>
    BY <1>5 DEF EnqueueConnection
  <2>2. recv' \in Receiver /\ recv'.pc = "poll"
    BY <1>2, <2>1 DEF Receiver, RecvPc
  <2>3. VariablesOK'
    BY <1>1, <1>4, <2>1, <2>2 DEF ListenInv, VariablesOK
  <2>4. LockOK' /\ OwnedOK' /\ CompletedOK' /\ CauseOK'
    BY <1>1, <1>3, <1>4, <2>1, <2>2, LockFrame, OwnedFrame, CompletedFrame, ContextFrame,
       CauseFrame DEF ListenInv
  <2>5. RecvOK'
    BY <1>1, <1>3, <1>4, <1>5, <2>1, <2>2 DEF ListenInv, RecvOK, Joined
  <2>6. CountOK'
    BY <1>1, <1>3, <1>4, <2>1, <2>2 DEF ListenInv, CountOK, UsedSlots
  <2>. QED  BY <2>3, <2>4, <2>5, <2>6 DEF ListenInv
<1>6. CASE ~ known /\ ~ full
  <2>1. /\ recv' = [recv EXCEPT !.pc = "fill", !.len = cur_len,
                                !.slot = IF free = {} THEN None ELSE Min(free)]
        /\ lock' = [lock EXCEPT !.readers = @ + 1]
        /\ failed' = IF free # {} THEN failed ELSE "queue_entry"
    BY <1>6 DEF EnqueueConnection, Check, ReadLock
  <2>2. free # {} => Min(free) \in free
    BY Numbered, MinProperty
  <2>3. /\ recv' \in Receiver /\ recv'.pc = "fill" /\ recv'.len = cur_len
        /\ recv'.slot = IF free = {} THEN None ELSE Min(free)
    BY <1>2, <2>1, <2>2 DEF Receiver, RecvPc
  <2>4. /\ lock' \in [readers : Nat, writer : BOOLEAN]
        /\ lock'.readers = lock.readers + 1 /\ lock'.writer = lock.writer
    <3>1. lock \in [readers : Nat, writer : BOOLEAN]
      BY <1>2
    <3>2. lock' = [lock EXCEPT !.readers = lock.readers + 1]
      BY <2>1
    <3>. QED  BY <3>1, <3>2
  <2>5. failed' \in Failures
    BY <1>2, <2>1 DEF Failures
  <2>6. VariablesOK'
    BY <1>1, <1>4, <2>3, <2>4, <2>5 DEF ListenInv, VariablesOK
  <2>7. LockOK'
    BY <1>1, <1>3, <2>3, <2>4, ContextFrame, SignallingFinite DEF ListenInv, LockOK
  <2>8. OwnedOK' /\ CompletedOK'
    BY <1>1, <1>3, <1>4, <2>4, OwnedFrame, CompletedFrame, ContextFrame DEF ListenInv
  <2>9. RecvOK'
    BY <1>1, <1>3, <2>1, <2>2, <2>3, Numbered DEF ListenInv, RecvOK, Joined
  <2>10. CountOK'
    BY <1>1, <1>4, <2>3, <2>4 DEF ListenInv, CountOK, UsedSlots
  <2>11. free = {} /\ ~ history.raced => app.pc = "count"
    <3>1. free = {} => Cardinality(UsedSlots) = max_len
      <4>1. Cardinality(Slot) = max_len
        BY Numbered, FS_Interval DEF Slot
      <4>. QED  BY <4>1 DEF UsedSlots
    <3>2. ~ history.raced =>
            cur_len = Cardinality(UsedSlots) + (IF app.pc = "count" THEN 1 ELSE 0)
      BY <1>3 DEF ListenInv, CountOK
    <3>3. cur_len < max_len
      <4>1. cur_len \in Int
        BY <1>2
      <4>2. max_len \in Int
        BY Numbered
      <4>. QED  BY <1>6, <4>1, <4>2
    <3>. QED  BY <3>1, <3>2, <3>3, Numbered
  <2>12. CauseOK'
    BY <1>2, <1>4, <2>1, <2>11 DEF ListenInv, CauseOK
  <2>. QED  BY <2>6, <2>7, <2>8, <2>9, <2>10, <2>12 DEF ListenInv
<1>. QED  BY <1>5, <1>6

(* What FillSlot starts from: the entry that was found is still free, and  *)
(* the application is not in the last part of myclose().                   *)
LEMMA FillFacts ==
  ASSUME ListenInv, Running, FillSlot
  PROVE  /\ recv.pc = "fill" /\ recv.slot \in Slot /\ slots[recv.slot] = None
         /\ app.pc \notin Joined /\ ~ lock.writer
         /\ new_socket \in Peers
         /\ ~ history.raced => /\ app.pc # "count" /\ recv.len = cur_len
                               /\ cur_len = Cardinality(UsedSlots)
         /\ lock' \in [readers : Nat, writer : BOOLEAN]
         /\ lock'.readers = lock.readers - 1 /\ lock'.writer = lock.writer
         /\ recv' \in Receiver /\ recv'.pc = "poll"
<1>1. recv.pc = "fill" /\ failed = ""
  BY DEF FillSlot, Running
<1>2. recv \in Receiver /\ lock \in [readers : Nat, writer : BOOLEAN]
      /\ new_socket \in Peers \cup {None}
  BY DEF ListenInv, VariablesOK
<1>3. recv.slot \in Slot /\ slots[recv.slot] = None
  BY <1>1, <1>2 DEF ListenInv, RecvOK, Receiver
<1>4. app.pc \notin Joined /\ ~ lock.writer
  BY <1>1 DEF ListenInv, RecvOK, LockOK, Joined
<1>5. new_socket \in Peers
  BY <1>1, <1>2 DEF ListenInv, RecvOK
<1>6. ~ history.raced => /\ app.pc # "count" /\ recv.len = cur_len
                         /\ cur_len = Cardinality(UsedSlots)
  <2>1. ~ history.raced => app.pc # "count" /\ recv.len = cur_len
    BY <1>1 DEF ListenInv, CountOK
  <2>2. ~ history.raced =>
          cur_len = Cardinality(UsedSlots) + (IF app.pc = "count" THEN 1 ELSE 0)
    BY <1>4 DEF ListenInv, CountOK
  <2>. QED  BY <2>1, <2>2, UsedFinite
<1>7. lock.readers > 0
  <2>1. lock.readers = Cardinality(Signalling) + 1 + (IF app.pc \in Dequeueing THEN 1 ELSE 0)
    BY <1>1, SignallingFinite DEF ListenInv, LockOK
  <2>. QED  BY <2>1, SignallingFinite
<1>8. /\ lock' \in [readers : Nat, writer : BOOLEAN]
      /\ lock'.readers = lock.readers - 1 /\ lock'.writer = lock.writer
  <2>1. lock' = [lock EXCEPT !.readers = lock.readers - 1]
    BY DEF FillSlot, ReadUnlock
  <2>2. lock.readers \in Nat /\ lock.readers - 1 \in Nat
    BY <1>2, <1>7
  <2>. QED  BY <1>2, <2>1, <2>2
<1>9. recv' \in Receiver /\ recv'.pc = "poll"
  <2>1. recv' = [recv EXCEPT !.pc = "poll", !.len = 0, !.slot = None]
    BY DEF FillSlot
  <2>2. recv \in Receiver
    BY <1>2
  <2>3. recv' = [pc |-> "poll", len |-> 0, slot |-> None]
    BY <2>1, <2>2 DEF Receiver
  <2>4. [pc |-> "poll", len |-> 0, slot |-> None] \in Receiver
    BY DEF Receiver, RecvPc
  <2>. QED  BY <2>3, <2>4
<1>. QED  BY <1>1, <1>3, <1>4, <1>5, <1>6, <1>8, <1>9

(* No descriptor is left: the SYN is dropped.                              *)
LEMMA FillDropsStep ==
  ASSUME ListenInv, Running, FillSlot, UnusedSd = {}
  PROVE  ListenInv'
<1>1. /\ cur_len' = recv.len
      /\ history' = [history EXCEPT !.dropped = TRUE]
      /\ UNCHANGED <<slots, ctx, new_socket, peer, pending, completed, app, failed>>
  BY DEF FillSlot
<1>2. history \in History /\ recv \in Receiver
  BY DEF ListenInv, VariablesOK
<1>3. /\ history' \in History
      /\ history'.completed = history.completed /\ history'.accepted = history.accepted
      /\ history'.dropped /\ history'.raced = history.raced
  BY <1>1, <1>2 DEF History
<1>4. VariablesOK'
  BY <1>1, <1>2, <1>3, FillFacts DEF ListenInv, VariablesOK, Receiver
<1>5. LockOK'
  BY <1>1, FillFacts, ContextFrame, SignallingFinite DEF ListenInv, LockOK
<1>6. OwnedOK' /\ CompletedOK' /\ CauseOK'
  BY <1>1, <1>3, FillFacts, OwnedFrame, CompletedFrame, CauseFrame, ContextFrame
     DEF ListenInv
<1>7. RecvOK'
  BY <1>1, <1>3, FillFacts DEF RecvOK
<1>8. CountOK'
  BY <1>1, <1>3, FillFacts, UsedFinite DEF ListenInv, CountOK, UsedSlots
<1>. QED  BY <1>4, <1>5, <1>6, <1>7, <1>8 DEF ListenInv

(* The connection gets a descriptor and the entry that was found.          *)
LEMMA FillUsesStep ==
  ASSUME ListenInv, Running, FillSlot, UnusedSd # {}
  PROVE  ListenInv'
<1> DEFINE sd == Min(UnusedSd)
           k == recv.slot
           new == [Free EXCEPT !.pc = "handshake", !.peer = new_socket]
<1>1. /\ cur_len' = recv.len + 1
      /\ slots' = [slots EXCEPT ![k] = sd]
      /\ ctx' = [ctx EXCEPT ![sd] = new]
      /\ new_socket' = None
      /\ UNCHANGED <<history, peer, pending, completed, app, failed>>
  BY DEF FillSlot
<1>2. sd \in Sd /\ ctx[sd].pc = "free"
  <2>1. UnusedSd \subseteq Nat
    BY Numbered DEF UnusedSd
  <2>. QED  BY <2>1, MinProperty DEF UnusedSd
<1>3. /\ slots \in [Slot -> Sd \cup {None}] /\ ctx \in [Sd -> Context]
      /\ recv \in Receiver /\ completed \in Seq(Slot) /\ app.sd \in Sd \cup {None}
  BY DEF ListenInv, VariablesOK, Application
<1>4. new \in Context /\ new.pc = "handshake" /\ new.peer = new_socket
  BY FillFacts DEF Context, Free, CtxPc, Errno
<1>5. EntryOf(sd) = {} /\ app.sd # sd /\ sd # None
  BY <1>2, Numbered DEF ListenInv, OwnedOK
<1> HIDE DEF sd, k, new
<1>6. k \in Slot /\ slots[k] = None
  BY FillFacts DEF k
<1>7. /\ slots' \in [Slot -> Sd \cup {None}] /\ slots'[k] = sd
      /\ \A l \in Slot : l # k => slots'[l] = slots[l]
  BY <1>1, <1>2, <1>3, <1>6
<1>8. /\ ctx' \in [Sd -> Context] /\ ctx'[sd] = new
      /\ \A s \in Sd : s # sd => ctx'[s] = ctx[s]
  BY <1>1, <1>2, <1>3, <1>4
<1>9. VariablesOK'
  BY <1>1, <1>3, <1>7, <1>8, FillFacts DEF ListenInv, VariablesOK, Receiver
<1>10. LockOK'
  <2>1. Signalling' = Signalling
    BY <1>2, <1>4, <1>8 DEF Signalling
  <2>. QED  BY <1>1, <2>1, FillFacts, SignallingFinite DEF ListenInv, LockOK
<1>11. RecvOK'
  BY <1>1, FillFacts DEF RecvOK
<1>12. \A s \in Sd : EntryOf(s)' = IF s = sd THEN {k} ELSE EntryOf(s)
  <2> TAKE s \in Sd
  <2>1. CASE s = sd
    <3>1. \A l \in Slot : slots'[l] = s <=> l = k
      BY <1>5, <1>6, <1>7, <2>1 DEF EntryOf
    <3>. QED  BY <1>6, <2>1, <3>1 DEF EntryOf
  <2>2. CASE s # sd
    <3>1. \A l \in Slot : slots'[l] = s <=> slots[l] = s
      BY <1>6, <1>7, <2>2, Numbered
    <3>. QED  BY <2>2, <3>1 DEF EntryOf
  <2>. QED  BY <2>1, <2>2
<1>13. OwnedOK'
  <2>1. \A s \in Sd : ctx'[s].pc # "free" <=> EntryOf(s)' # {} \/ app'.sd = s
    BY <1>1, <1>4, <1>8, <1>12 DEF ListenInv, OwnedOK
  <2>2. \A a, b \in Slot : slots'[a] = slots'[b] /\ slots'[a] # None => a = b
    BY <1>5, <1>6, <1>7 DEF ListenInv, OwnedOK, EntryOf
  <2>3. \A s \in Sd : ctx'[s].pc # "free" => ctx'[s].peer # None
    BY <1>4, <1>8, FillFacts, Numbered DEF ListenInv, OwnedOK
  <2>4. app.pc \in Accepting => app.sd \in Sd
    BY <1>3 DEF ListenInv, OwnedOK
  <2>5. app.pc \in Accepting => EntryOf(app.sd)' = {} /\ ctx'[app.sd].pc \in HandedOver
    <3>1. app.pc \in Accepting => EntryOf(app.sd) = {} /\ ctx[app.sd].pc \in HandedOver
      BY DEF ListenInv, OwnedOK
    <3>2. \A s \in Sd : {l \in Slot : slots'[l] = s} = IF s = sd THEN {k} ELSE EntryOf(s)
      BY <1>12 DEF EntryOf
    <3>3. EntryOf(app.sd)' = {l \in Slot : slots'[l] = app.sd}
      BY <1>1 DEF EntryOf
    <3>. QED  BY <1>5, <1>8, <2>4, <3>1, <3>2, <3>3
  <2>6. app'.pc # "joinqueued" /\ app'.pc # "closed"
    BY <1>1, FillFacts DEF Joined
  <2>7. app.sd # None <=> app.pc \in Accepting \cup {"joinqueued"}
    BY DEF ListenInv, OwnedOK
  <2>8. app' = app
    BY <1>1
  <2>. QED  BY <2>1, <2>2, <2>3, <2>5, <2>6, <2>7, <2>8 DEF OwnedOK
<1>14. CompletedOK'
  <2>1. \A i \in DOMAIN completed :
          /\ completed[i] \in Slot /\ slots[completed[i]] # None
          /\ ctx[slots[completed[i]]].pc \in HandedOver
    BY <1>3, FillFacts DEF ListenInv, CompletedOK
  <2>2. \A i \in DOMAIN completed :
          /\ slots'[completed[i]] = slots[completed[i]]
          /\ ctx'[slots[completed[i]]] = ctx[slots[completed[i]]]
    BY <1>3, <1>5, <1>6, <1>7, <1>8, <2>1 DEF EntryOf
  <2>3. \A i \in DOMAIN completed : PeerAt(completed[i])' = PeerAt(completed[i])
    BY <1>1, <2>2 DEF PeerAt
  <2>. QED  BY <1>1, <2>1, <2>2, <2>3, FillFacts DEF ListenInv, CompletedOK
<1>15. CountOK'
  <2>1. UsedSlots' = UsedSlots \cup {k} /\ k \notin UsedSlots
    BY <1>5, <1>6, <1>7 DEF UsedSlots
  <2>2. Cardinality(UsedSlots') = Cardinality(UsedSlots) + 1
    BY <2>1, UsedFinite, FS_AddElement
  <2>. QED  BY <1>1, <2>2, FillFacts, UsedFinite DEF CountOK
<1>16. CauseOK'
  BY <1>1 DEF ListenInv, CauseOK
<1>. QED  BY <1>9, <1>10, <1>11, <1>13, <1>14, <1>15, <1>16 DEF ListenInv
(* A handshake ends, or an established connection does.                    *)
LEMMA ContextMovesStep ==
  ASSUME ListenInv, NEW sd \in Sd,
         (\E errno \in Errno : Unblock(sd, errno)) \/ TransportEnds(sd)
  PROVE  ListenInv'
<1>1. UNCHANGED <<peer, pending, new_socket, recv, slots, cur_len, completed, lock, app,
                  failed, history>>
  BY DEF Unblock, TransportEnds
<1>2. ctx \in [Sd -> Context]
  BY DEF ListenInv, VariablesOK
<1>3. /\ ctx' \in [Sd -> Context]
      /\ \A s \in Sd : s # sd => ctx'[s] = ctx[s]
      /\ ctx'[sd].peer = ctx[sd].peer
      /\ \/ ctx[sd].pc = "handshake" /\ ctx'[sd].pc = "complete"
         \/ ctx[sd].pc = "established" /\ ctx'[sd].pc = "ended"
  <2>1. CASE \E errno \in Errno : Unblock(sd, errno)
    <3>1. PICK errno \in Errno :
            /\ ctx[sd].pc = "handshake"
            /\ ctx' = [ctx EXCEPT ![sd].pc = "complete", ![sd].errno = errno,
                                  ![sd].blocking = FALSE]
      BY <2>1 DEF Unblock
    <3>2. ctx' = [ctx EXCEPT ![sd] = [@ EXCEPT !.pc = "complete", !.errno = errno,
                                               !.blocking = FALSE]]
      BY <1>2, <3>1
    <3>. QED  BY <1>2, <3>1, <3>2 DEF Context, CtxPc
  <2>2. CASE TransportEnds(sd)
    <3>1. /\ ctx[sd].pc = "established"
          /\ ctx' = [ctx EXCEPT ![sd] = [@ EXCEPT !.pc = "ended"]]
      BY <1>2, <2>2 DEF TransportEnds
    <3>. QED  BY <1>2, <3>1 DEF Context, CtxPc
  <2>. QED  BY <2>1, <2>2
<1>4. SameOwners
  BY <1>3 DEF SameOwners, HandedOver
<1>5. Signalling' = Signalling
  BY <1>3 DEF Signalling
<1>6. VariablesOK'
  BY <1>1, <1>3 DEF ListenInv, VariablesOK
<1>7. LockOK' /\ RecvOK' /\ OwnedOK' /\ CompletedOK' /\ CountOK' /\ CauseOK'
  BY <1>1, <1>4, <1>5, LockFrame, RecvFrame, OwnedFrame, CompletedFrame, CountFrame,
     CauseFrame DEF ListenInv
<1>. QED  BY <1>6, <1>7 DEF ListenInv

(* A thread wakes the application and gives the lock back.                 *)
LEMMA SignalStep ==
  ASSUME ListenInv, NEW sd \in Sd, SignalAndUnlock(sd)
  PROVE  ListenInv'
<1>1. UNCHANGED <<peer, pending, new_socket, recv, slots, cur_len, completed, failed, history>>
  BY DEF SignalAndUnlock
<1>2. /\ ctx \in [Sd -> Context] /\ lock \in [readers : Nat, writer : BOOLEAN]
      /\ app \in Application
  BY DEF ListenInv, VariablesOK
<1>3. /\ ctx' \in [Sd -> Context] /\ ctx[sd].pc = "signal"
      /\ \A s \in Sd : s # sd => ctx'[s] = ctx[s]
      /\ ctx'[sd].peer = ctx[sd].peer /\ ctx'[sd].pc \in {"established", "ended"}
  <2>1. ctx' = [ctx EXCEPT ![sd] = [@ EXCEPT !.pc = IF ctx[sd].errno = 0 THEN "established"
                                                                       ELSE "ended"]]
    BY <1>2 DEF SignalAndUnlock
  <2>. QED  BY <1>2, <2>1 DEF SignalAndUnlock, Context, CtxPc
<1>4. app' \in Application /\ UNCHANGED <<app.pc, app.sd, app.len>>
  <2>1. app' = [app EXCEPT !.woken = app.woken \/ app.pc = "wait"]
    BY DEF SignalAndUnlock
  <2>2. (app.woken \/ app.pc = "wait") \in BOOLEAN
    OBVIOUS
  <2> HIDE <1>3
  <2>. QED  BY <1>2, <2>1, <2>2 DEF Application
<1>5. SameOwners
  BY <1>3 DEF SameOwners, HandedOver
<1>6. /\ IsFiniteSet(Signalling') /\ Signalling' = Signalling \ {sd}
      /\ Cardinality(Signalling) \in Nat /\ Cardinality(Signalling') \in Nat
      /\ Cardinality(Signalling') = Cardinality(Signalling) - 1
  <2>1. Signalling' = Signalling \ {sd} /\ sd \in Signalling
    BY <1>3 DEF Signalling
  <2>. QED  BY <2>1, SignallingFinite, FS_RemoveElement, FS_CardinalityType
<1>7. /\ lock' \in [readers : Nat, writer : BOOLEAN]
      /\ lock'.readers = lock.readers - 1 /\ lock'.writer = lock.writer
  <2>1. lock' = [lock EXCEPT !.readers = lock.readers - 1]
    BY DEF SignalAndUnlock, ReadUnlock
  <2>2. lock.readers > 0
    <3>1. lock.readers = Cardinality(Signalling) + (IF recv.pc = "fill" THEN 1 ELSE 0)
                           + (IF app.pc \in Dequeueing THEN 1 ELSE 0)
      BY DEF ListenInv, LockOK
    <3>. QED  BY <1>6, <3>1
  <2>3. lock.readers \in Nat /\ lock.readers - 1 \in Nat
    BY <1>2, <2>2
  <2>. QED  BY <1>2, <2>1, <2>3
<1>8. VariablesOK'
  BY <1>1, <1>3, <1>4, <1>7 DEF ListenInv, VariablesOK
<1>9. LockOK'
  BY <1>1, <1>4, <1>6, <1>7 DEF ListenInv, LockOK
<1>10. RecvOK' /\ OwnedOK' /\ CompletedOK' /\ CountOK' /\ CauseOK'
  BY <1>1, <1>4, <1>5, <1>7, RecvFrame, OwnedFrame, CompletedFrame, CountFrame,
     CauseFrame DEF ListenInv
<1>. QED  BY <1>8, <1>9, <1>10 DEF ListenInv

(* A handshake that is over is put at the end of completed_queue.  The     *)
(* assertion holds: the connection is still in the queue.                  *)
LEMMA CompleteStep ==
  ASSUME ListenInv, NEW sd \in Sd, PassiveConnectionComplete(sd)
  PROVE  ListenInv'
<1>1. /\ UNCHANGED <<peer, pending, new_socket, recv, slots, cur_len, app>>
      /\ ctx[sd].pc = "complete" /\ ~ lock.writer
  BY DEF PassiveConnectionComplete, CanRead
<1>2. /\ ctx \in [Sd -> Context] /\ lock \in [readers : Nat, writer : BOOLEAN]
      /\ history \in History /\ completed \in Seq(Slot)
      /\ slots \in [Slot -> Sd \cup {None}] /\ sd # None
  BY Numbered DEF ListenInv, VariablesOK
<1>3. app.sd # sd
  <2>1. app.pc # "joinqueued"
    BY <1>1 DEF ListenInv, LockOK
  <2>2. app.sd = sd => app.pc \in Accepting
    BY <1>2, <2>1 DEF ListenInv, OwnedOK
  <2>. QED  BY <1>1, <2>2 DEF ListenInv, OwnedOK, HandedOver
<1>4. EntryOf(sd) # {}
  BY <1>1, <1>3 DEF ListenInv, OwnedOK
<1>5. PICK k \in Slot : k = Min(EntryOf(sd)) /\ slots[k] = sd
  <2>1. EntryOf(sd) \subseteq Nat
    BY Numbered DEF EntryOf
  <2>. QED  BY <1>4, <2>1, MinProperty DEF EntryOf
<1>6. /\ completed' = Append(completed, k)
      /\ history' = [history EXCEPT !.completed = Append(history.completed, ctx[sd].peer)]
      /\ lock' = [lock EXCEPT !.readers = lock.readers + 1]
      /\ failed' = failed
  BY <1>4, <1>5, SMT DEF PassiveConnectionComplete, ReadLock, Check
<1>7. ctx' = [ctx EXCEPT ![sd] = [@ EXCEPT !.pc = "signal"]]
  BY <1>2, <1>4 DEF PassiveConnectionComplete
<1>8. /\ ctx' \in [Sd -> Context]
      /\ \A s \in Sd : s # sd => ctx'[s] = ctx[s]
      /\ ctx'[sd].peer = ctx[sd].peer /\ ctx'[sd].pc = "signal"
  BY <1>2, <1>7 DEF Context, CtxPc
<1>9. /\ lock' \in [readers : Nat, writer : BOOLEAN]
      /\ lock'.readers = lock.readers + 1 /\ lock'.writer = lock.writer
  <2>1. lock' = [lock EXCEPT !.readers = lock.readers + 1]
    BY <1>6
  <2>2. lock \in [readers : Nat, writer : BOOLEAN] /\ lock.readers + 1 \in Nat
    BY <1>2
  <2>. QED  BY <2>1, <2>2
<1>10. ctx[sd].peer \in Peers
  BY <1>1, <1>2 DEF ListenInv, OwnedOK, Context
<1>11. /\ history' \in History /\ history'.accepted = history.accepted
       /\ history'.completed = Append(history.completed, ctx[sd].peer)
       /\ history'.dropped = history.dropped /\ history'.raced = history.raced
  <2>1. history.completed \in Seq(Peers)
    BY <1>2 DEF History
  <2>2. Append(history.completed, ctx[sd].peer) \in Seq(Peers)
    BY <1>10, <2>1
  <2>. QED  BY <1>2, <1>6, <2>2 DEF History
<1>12. completed' \in Seq(Slot)
  BY <1>2, <1>5, <1>6
<1>13. VariablesOK'
  BY <1>1, <1>6, <1>8, <1>9, <1>11, <1>12 DEF ListenInv, VariablesOK
<1>14. SameOwners
  BY <1>1, <1>8 DEF SameOwners, HandedOver
<1>15. RecvOK' /\ OwnedOK' /\ CountOK' /\ CauseOK'
  BY <1>1, <1>6, <1>9, <1>11, <1>14, RecvFrame, OwnedFrame, CountFrame, CauseFrame
     DEF ListenInv
<1>16. LockOK'
  <2>1. Signalling' = Signalling \cup {sd} /\ sd \notin Signalling
    BY <1>1, <1>8 DEF Signalling
  <2>2. Cardinality(Signalling') = Cardinality(Signalling) + 1
    BY <2>1, SignallingFinite, FS_AddElement
  <2>. QED  BY <1>1, <1>9, <2>2, SignallingFinite DEF ListenInv, LockOK
<1>17. CompletedOK'
  <2> DEFINE n == Len(completed)
             c == history.completed
             a == history.accepted
  <2>1. /\ n \in Nat /\ Len(completed') = n + 1 /\ completed'[n + 1] = k
        /\ DOMAIN completed = 1 .. n /\ DOMAIN completed' = 1 .. n + 1
        /\ \A i \in 1 .. n : completed'[i] = completed[i] /\ completed[i] \in Slot
    BY <1>2, <1>5, <1>6
  <2>2. /\ c \in Seq(Peers) /\ a \in Seq(Peers) /\ Len(c) \in Nat /\ Len(a) \in Nat
        /\ history'.accepted = a /\ Len(history'.completed) = Len(c) + 1
        /\ history'.completed[Len(c) + 1] = ctx[sd].peer
        /\ \A i \in 1 .. Len(c) : history'.completed[i] = c[i]
    <3>1. c \in Seq(Peers) /\ a \in Seq(Peers)
      BY <1>2 DEF History
    <3>. QED  BY <1>10, <1>11, <3>1
  <2>3. /\ \A i \in 1 .. n : /\ slots[completed[i]] # None
                             /\ ctx[slots[completed[i]]].pc \in HandedOver
        /\ \A i, j \in 1 .. n : completed[i] = completed[j] => i = j
        /\ app.pc # "closed" =>
             /\ Len(c) = Len(a) + n
             /\ \A i \in DOMAIN a : c[i] = a[i]
             /\ \A i \in 1 .. n : c[Len(a) + i] = PeerAt(completed[i])
    BY <1>1, <2>1 DEF ListenInv, CompletedOK
  <2> HIDE DEF n, c, a
  <2>4. \A i \in 1 .. n : slots[completed[i]] \in Sd \ {sd}
    BY <1>1, <1>2, <2>1, <2>3 DEF HandedOver
  <2> DEFINE NewPeer(j) == IF slots'[j] = None THEN None ELSE ctx'[slots'[j]].peer
  <2>5. \A i \in 1 .. n : NewPeer(completed'[i]) = PeerAt(completed[i])
    BY <1>1, <1>8, <2>1, <2>4 DEF PeerAt
  <2>6. NewPeer(k) = ctx[sd].peer
    BY <1>1, <1>2, <1>5, <1>8
  <2> HIDE DEF NewPeer
  <2>7. \A i \in DOMAIN completed' : /\ slots'[completed'[i]] # None
                                     /\ ctx'[slots'[completed'[i]]].pc \in HandedOver
    BY <1>1, <1>2, <1>5, <1>8, <2>1, <2>3, <2>4 DEF HandedOver
  <2>8. \A i, j \in DOMAIN completed' : completed'[i] = completed'[j] => i = j
    BY <1>5, <2>1, <2>3, <2>4
  <2>9. app.pc # "closed" =>
          /\ Len(history'.completed) = Len(a) + (n + 1)
          /\ \A i \in DOMAIN a : history'.completed[i] = a[i]
    <3>1. DOMAIN a = 1 .. Len(a)
      BY <2>2
    <3> HAVE app.pc # "closed"
    <3>2. Len(c) = Len(a) + n /\ \A i \in 1 .. Len(a) : i \in 1 .. Len(c) /\ c[i] = a[i]
      BY <2>1, <2>2, <2>3, <3>1, SMTT(30)
    <3>3. Len(history'.completed) = Len(a) + (n + 1)
      BY <2>1, <2>2, <3>2
    <3>. QED  BY <2>2, <3>1, <3>2, <3>3
  <2>10. app.pc # "closed" =>
           \A i \in 1 .. n + 1 : history'.completed[Len(a) + i] = NewPeer(completed'[i])
    <3> HAVE app.pc # "closed"
    <3> TAKE i \in 1 .. n + 1
    <3>1. CASE i = n + 1
      BY <2>1, <2>2, <2>3, <2>6, <3>1
    <3>2. CASE i \in 1 .. n
      <4>1. Len(a) + i \in 1 .. Len(c)
        BY <2>1, <2>2, <2>3, <3>2
      <4>. QED  BY <2>1, <2>2, <2>3, <2>5, <3>2, <4>1
    <3>. QED  BY <2>1, <3>1, <3>2
  <2>. QED
    BY <1>1, <2>1, <2>2, <2>7, <2>8, <2>9, <2>10 DEF CompletedOK, PeerAt, NewPeer
<1>. QED  BY <1>13, <1>15, <1>16, <1>17 DEF ListenInv

(* The application tests the queue again, begins to close the listening    *)
(* socket, or has joined the receive thread.                               *)
LEMMA AppMovesStep ==
  ASSUME ListenInv, Wakes \/ CloseListening \/ ReceiveThreadJoined
  PROVE  ListenInv'
<1>1. UNCHANGED <<peer, pending, new_socket, recv, slots, cur_len, completed, lock, ctx,
                  failed, history>>
  BY DEF Wakes, CloseListening, ReceiveThreadJoined
<1>2. app \in Application
  BY DEF ListenInv, VariablesOK
<1>3. /\ app' \in Application /\ UNCHANGED <<app.sd, app.len>>
      /\ \/ app.pc = "wait" /\ app'.pc = "test"
         \/ app.pc = "idle" /\ app'.pc = "joinrecv"
         \/ app.pc = "joinrecv" /\ app'.pc = "writelock" /\ recv.pc = "ended"
  <2>1. CASE Wakes
    BY <1>2, <2>1 DEF Wakes, Application, AppPc
  <2>2. CASE CloseListening
    BY <1>2, <2>2 DEF CloseListening, Application, AppPc
  <2>3. CASE ReceiveThreadJoined
    BY <1>2, <2>3 DEF ReceiveThreadJoined, AppAt, Application, AppPc
  <2>. QED  BY <2>1, <2>2, <2>3
<1>4. /\ app.pc \notin {"count", "closed", "closeslots", "joinqueued"} \cup Accepting
      /\ app'.pc \notin {"count", "closed", "closeslots", "joinqueued"} \cup Accepting
      /\ app'.pc \in Dequeueing <=> app.pc \in Dequeueing
      /\ app'.pc \in Joined => recv.pc = "ended"
  BY <1>3 DEF Accepting, Dequeueing, Joined
<1>5. VariablesOK'
  BY <1>1, <1>3 DEF ListenInv, VariablesOK
<1>6. LockOK' /\ CompletedOK' /\ CountOK' /\ CauseOK'
  BY <1>1, <1>3, <1>4, LockFrame, CompletedFrame, CountFrame, CauseFrame, ContextFrame
     DEF ListenInv
<1>7. RecvOK'
  BY <1>1, <1>4 DEF ListenInv, RecvOK
<1>8. OwnedOK'
  BY <1>1, <1>3, <1>4 DEF ListenInv, OwnedOK, EntryOf, UsedSlots
<1>. QED  BY <1>5, <1>6, <1>7, <1>8 DEF ListenInv

(* myaccept() takes the reader's lock.                                     *)
LEMMA DequeueStartsStep ==
  ASSUME ListenInv, DequeueStarts
  PROVE  ListenInv'
<1>1. /\ UNCHANGED <<peer, pending, new_socket, recv, slots, cur_len, completed, ctx, failed,
                     history>>
      /\ app.pc = "idle" /\ ~ lock.writer
  BY DEF DequeueStarts, CanRead
<1>2. lock \in [readers : Nat, writer : BOOLEAN]
  BY DEF ListenInv, VariablesOK
<1>3. app' \in Application /\ app'.pc = "test" /\ UNCHANGED <<app.sd, app.len>>
  BY AppMoves DEF ListenInv, DequeueStarts, AppPc
<1>4. /\ lock' \in [readers : Nat, writer : BOOLEAN]
      /\ lock'.readers = lock.readers + 1 /\ lock'.writer = lock.writer
  <2>1. lock' = [lock EXCEPT !.readers = lock.readers + 1] /\ lock.readers + 1 \in Nat
    BY <1>2 DEF DequeueStarts, ReadLock
  <2>. QED  BY <1>2, <2>1
<1>5. VariablesOK'
  BY <1>1, <1>3, <1>4 DEF ListenInv, VariablesOK
<1>6. LockOK'
  <2>1. lock.readers = Cardinality(Signalling) + (IF recv.pc = "fill" THEN 1 ELSE 0)
    BY <1>1, SignallingFinite DEF ListenInv, LockOK, Dequeueing
  <2>2. Signalling' = Signalling
    BY <1>1, ContextFrame
  <2>. QED  BY <1>1, <1>3, <1>4, <2>1, <2>2, SignallingFinite
       DEF ListenInv, LockOK, Dequeueing
<1>7. RecvOK' /\ CompletedOK' /\ CountOK' /\ CauseOK'
  BY <1>1, <1>3, <1>4, RecvFrame, CompletedFrame, CountFrame, CauseFrame, ContextFrame
     DEF ListenInv, Joined
<1>8. OwnedOK'
  BY <1>1, <1>3 DEF ListenInv, OwnedOK, EntryOf, UsedSlots, Accepting
<1>. QED  BY <1>5, <1>6, <1>7, <1>8 DEF ListenInv

(* myclose() takes the writer's lock.                                      *)
LEMMA WriteLockStep ==
  ASSUME ListenInv, WriteLock
  PROVE  ListenInv'
<1>1. /\ UNCHANGED <<peer, pending, new_socket, recv, slots, cur_len, completed, ctx, failed,
                     history>>
      /\ app.pc = "writelock"
  BY DEF WriteLock
<1>2. lock \in [readers : Nat, writer : BOOLEAN]
  BY DEF ListenInv, VariablesOK
<1>3. app' \in Application /\ app'.pc = "closeslots" /\ UNCHANGED <<app.sd, app.len>>
  BY AppMoves DEF ListenInv, WriteLock, AppPc
<1>4. /\ lock' \in [readers : Nat, writer : BOOLEAN]
      /\ lock'.readers = lock.readers /\ lock'.writer
  BY <1>2 DEF WriteLock
<1>5. VariablesOK'
  BY <1>1, <1>3, <1>4 DEF ListenInv, VariablesOK
<1>6. LockOK'
  <2>1. Signalling' = Signalling
    BY <1>1, ContextFrame
  <2>. QED  BY <1>1, <1>3, <1>4, <2>1 DEF ListenInv, LockOK, Dequeueing
<1>7. RecvOK' /\ CauseOK'
  BY <1>1, <1>3, <1>4, RecvFrame, CauseFrame DEF ListenInv, Joined
<1>8. OwnedOK'
  BY <1>1, <1>3 DEF ListenInv, OwnedOK, EntryOf, UsedSlots, Accepting
<1>9. CompletedOK' /\ CountOK'
  BY <1>1, <1>3, <1>4 DEF ListenInv, CompletedOK, CountOK
<1>. QED  BY <1>5, <1>6, <1>7, <1>8, <1>9 DEF ListenInv

(* myclose() asks a connection to end: the one that was served, or the     *)
(* first of the queue.                                                     *)
LEMMA CloseStep ==
  ASSUME ListenInv, CloseConnection \/ CloseQueued
  PROVE  ListenInv'
<1>1. UNCHANGED <<peer, pending, new_socket, recv, slots, cur_len, completed, lock, failed,
                  history>>
  BY DEF CloseConnection, CloseQueued
<1>2. /\ ctx \in [Sd -> Context] /\ app \in Application
      /\ slots \in [Slot -> Sd \cup {None}]
  BY DEF ListenInv, VariablesOK
<1>3. UsedSlots # {} => Min(UsedSlots) \in UsedSlots
  BY MinProperty, Numbered DEF UsedSlots
<1>4. \E sd \in Sd : /\ ctx' = [ctx EXCEPT ![sd] = [@ EXCEPT !.close_requested = TRUE]]
                     /\ app'.sd = sd
  <2>1. CASE CloseConnection
    <3>1. app.sd \in Sd
      BY <1>2, <2>1 DEF CloseConnection, ListenInv, OwnedOK, Application, Accepting
    <3>. QED  BY <1>2, <2>1, <3>1 DEF CloseConnection, AppAt, Application
  <2>2. CASE CloseQueued
    <3>1. slots[Min(UsedSlots)] \in Sd
      BY <1>2, <1>3, <2>2 DEF CloseQueued, UsedSlots
    <3>2. app'.sd = slots[Min(UsedSlots)]
      BY <1>2, <2>2 DEF CloseQueued, Application
    <3>. QED  BY <1>2, <2>2, <3>1, <3>2 DEF CloseQueued
  <2>. QED  BY <2>1, <2>2
<1>5. PICK sd \in Sd : /\ ctx' = [ctx EXCEPT ![sd] = [@ EXCEPT !.close_requested = TRUE]]
                       /\ app'.sd = sd
  BY <1>4
<1>6. ctx' \in [Sd -> Context] /\ SameOwners /\ Signalling' = Signalling
  <2>1. /\ ctx' \in [Sd -> Context]
        /\ \A s \in Sd : ctx'[s].pc = ctx[s].pc /\ ctx'[s].peer = ctx[s].peer
    BY <1>2, <1>5, ZenonT(30) DEF Context
  <2>. QED  BY <2>1 DEF SameOwners, Signalling
<1>7. /\ app' \in Application /\ UNCHANGED app.len
      /\ \/ app.pc = "serve" /\ app'.pc = "join" /\ app'.sd = app.sd
         \/ /\ app.pc = "closeslots" /\ app'.pc = "joinqueued"
            /\ UsedSlots # {} /\ app'.sd = slots[Min(UsedSlots)]
  <2>1. CASE CloseConnection
    BY <1>2, <2>1, AppMoves DEF CloseConnection, ListenInv, AppAt, Application, AppPc
  <2>2. CASE CloseQueued
    <3>1. app' = [app EXCEPT !.pc = "joinqueued", !.sd = slots[Min(UsedSlots)]]
      BY <2>2 DEF CloseQueued
    <3>2. slots[Min(UsedSlots)] \in Sd
      BY <1>2, <1>3, <2>2 DEF CloseQueued, UsedSlots
    <3>. QED  BY <1>2, <2>2, <3>1, <3>2 DEF CloseQueued, Application, AppPc
  <2>. QED  BY <2>1, <2>2
<1>8. VariablesOK'
  BY <1>1, <1>6, <1>7 DEF ListenInv, VariablesOK
<1>9. /\ app'.pc \in Dequeueing <=> app.pc \in Dequeueing
      /\ app'.pc \in {"closeslots", "joinqueued"} <=> app.pc \in {"closeslots", "joinqueued"}
      /\ app'.pc \in Joined => app.pc \in Joined
      /\ app'.pc # "closed" /\ app.pc # "closed"
      /\ app'.pc # "count" /\ app.pc # "count"
  BY <1>7 DEF Dequeueing, Joined
<1>10. LockOK' /\ RecvOK' /\ CompletedOK' /\ CountOK' /\ CauseOK'
  BY <1>1, <1>6, <1>7, <1>9, LockFrame, RecvFrame, CompletedFrame, CountFrame, CauseFrame
     DEF ListenInv
<1>11. OwnedOK'
  <2>1. UsedSlots' = UsedSlots /\ \A s \in Sd : EntryOf(s)' = EntryOf(s)
    BY <1>1 DEF UsedSlots, EntryOf
  <2>2. CASE app.pc = "serve" /\ app'.pc = "join" /\ app'.sd = app.sd
    <3>1. app.sd = sd /\ EntryOf(sd) = {} /\ ctx[sd].pc \in HandedOver
      BY <1>5, <2>2 DEF ListenInv, OwnedOK, Accepting
    <3>2. EntryOf(app.sd)' = {}
      BY <1>1, <1>5, <3>1 DEF EntryOf
    <3>. QED  BY <1>1, <1>5, <1>6, <2>1, <2>2, <3>1, <3>2
         DEF ListenInv, OwnedOK, SameOwners, Accepting
  <2>3. CASE /\ app.pc = "closeslots" /\ app'.pc = "joinqueued"
             /\ UsedSlots # {} /\ app'.sd = slots[Min(UsedSlots)]
    <3>1. app.sd = None
      BY <2>3 DEF ListenInv, OwnedOK, Accepting
    <3>2. EntryOf(sd) # {} /\ sd # None
      <4>1. slots[Min(UsedSlots)] = sd
        BY <1>5, <2>3
      <4>. QED  BY <1>3, <2>3, <4>1, Numbered DEF UsedSlots, EntryOf
    <3>. QED  BY <1>1, <1>5, <1>6, <2>1, <2>3, <3>1, <3>2, Numbered
         DEF ListenInv, OwnedOK, SameOwners, Accepting
  <2>. QED  BY <1>7, <2>2, <2>3
<1>. QED  BY <1>8, <1>10, <1>11 DEF ListenInv
(* myaccept() finds nothing completed and waits.                           *)
LEMMA WaitStep ==
  ASSUME ListenInv, DequeueTests, completed = <<>>
  PROVE  ListenInv'
<1>1. /\ UNCHANGED <<peer, pending, new_socket, recv, slots, cur_len, completed, lock, ctx,
                     failed, history>>
      /\ app.pc = "test"
  BY DEF DequeueTests
<1>2. app' \in Application /\ app'.pc = "wait" /\ UNCHANGED <<app.sd, app.len>>
  BY AppMoves DEF ListenInv, DequeueTests, AppPc
<1>3. VariablesOK'
  BY <1>1, <1>2 DEF ListenInv, VariablesOK
<1>4. LockOK' /\ RecvOK' /\ CompletedOK' /\ CountOK' /\ CauseOK'
  BY <1>1, <1>2, LockFrame, RecvFrame, CompletedFrame, CountFrame, CauseFrame, ContextFrame
     DEF ListenInv, Dequeueing, Joined
<1>5. OwnedOK'
  BY <1>1, <1>2 DEF ListenInv, OwnedOK, EntryOf, UsedSlots, Accepting
<1>. QED  BY <1>3, <1>4, <1>5 DEF ListenInv

(* It takes the first completed connection.  The assertion on new_ctx      *)
(* holds; the one on cur_len fails only after a lost update.               *)
LEMMA TakeStep ==
  ASSUME ListenInv, Running, DequeueTests, completed # <<>>
  PROVE  ListenInv'
<1>1. /\ UNCHANGED <<peer, pending, new_socket, recv, cur_len, lock, ctx>>
      /\ app.pc = "test" /\ ~ lock.writer /\ failed = ""
  BY DEF DequeueTests, ListenInv, LockOK, Running
<1>2. /\ ctx \in [Sd -> Context] /\ app \in Application /\ history \in History
      /\ slots \in [Slot -> Sd \cup {None}] /\ completed \in Seq(Slot) /\ cur_len \in Int
  BY DEF ListenInv, VariablesOK
<1>3. /\ Head(completed) = completed[1] /\ 1 \in DOMAIN completed
      /\ Tail(completed) \in Seq(Slot) /\ completed[1] \in Slot
      /\ Len(completed) \in Nat /\ Len(Tail(completed)) = Len(completed) - 1
      /\ \A i \in 1 .. Len(completed) - 1 :
           i + 1 \in DOMAIN completed /\ Tail(completed)[i] = completed[i + 1]
  BY <1>2
<1>4. \A i \in DOMAIN completed :
        slots[completed[i]] # None /\ ctx[slots[completed[i]]].pc \in HandedOver
  BY <1>1 DEF ListenInv, CompletedOK
<1>5. PICK k \in Slot : k = Head(completed) /\ k = completed[1]
  BY <1>3
<1>6. PICK sd \in Sd : sd = slots[k]
  BY <1>2, <1>3, <1>4, <1>5
<1>7. sd # None /\ ctx[sd].pc \in HandedOver /\ ctx[sd].peer \in Peers
  <2>1. sd # None /\ ctx[sd].pc \in HandedOver
    BY <1>3, <1>4, <1>5, <1>6
  <2>. QED  BY <1>2, <2>1 DEF ListenInv, OwnedOK, Context, HandedOver
<1>8. /\ completed' = Tail(completed)
      /\ slots' = [slots EXCEPT ![k] = None]
      /\ app' = [app EXCEPT !.pc = "count", !.sd = sd, !.len = cur_len, !.locked = TRUE]
  BY <1>5, <1>6 DEF DequeueTests
<1>9. failed' = IF cur_len = 0 THEN "cur_len" ELSE failed
  BY <1>5, <1>6, <1>7 DEF DequeueTests
<1>10. history' = [history EXCEPT !.raced = history.raced \/ recv.pc = "fill",
                                  !.accepted = Append(history.accepted, ctx[sd].peer)]
  BY <1>5, <1>6, <1>7 DEF DequeueTests
<1>11. /\ slots' \in [Slot -> Sd \cup {None}] /\ slots'[k] = None
       /\ \A l \in Slot : l # k => slots'[l] = slots[l]
  BY <1>2, <1>8
<1>12. app' \in Application /\ app'.pc = "count" /\ app'.sd = sd /\ app'.len = cur_len
  BY <1>2, <1>8 DEF Application, AppPc
<1>13. /\ history' \in History /\ history'.completed = history.completed
       /\ history'.accepted = Append(history.accepted, ctx[sd].peer)
       /\ history'.dropped = history.dropped
       /\ history'.raced <=> history.raced \/ recv.pc = "fill"
  <2>1. history.accepted \in Seq(Peers) /\ history.raced \in BOOLEAN
    BY <1>2 DEF History
  <2>2. Append(history.accepted, ctx[sd].peer) \in Seq(Peers)
    BY <1>7, <2>1
  <2>3. (history.raced \/ recv.pc = "fill") \in BOOLEAN
    OBVIOUS
  <2>. QED  BY <1>2, <1>10, <2>2, <2>3 DEF History
<1>14. VariablesOK'
  BY <1>1, <1>3, <1>8, <1>9, <1>11, <1>12, <1>13 DEF ListenInv, VariablesOK, Failures
<1>15. LockOK'
  <2>1. Signalling' = Signalling
    BY <1>1, ContextFrame
  <2>. QED  BY <1>1, <1>12, <2>1 DEF ListenInv, LockOK, Dequeueing
<1>16. RecvOK'
  <2>1. app'.pc \notin Joined
    BY <1>12 DEF Joined
  <2>2. recv.pc = "fill" => slots'[recv.slot] = None
    <3>1. recv.pc = "fill" => recv.slot \in Slot /\ slots[recv.slot] = None
      BY <1>1 DEF ListenInv, RecvOK, VariablesOK, Receiver
    <3>. QED  BY <1>11, <3>1
  <2>. QED  BY <1>1, <1>13, <2>1, <2>2 DEF ListenInv, RecvOK
<1>17. OwnedOK'
  <2>1. \A s \in Sd : {l \in Slot : slots'[l] = s} = IF s = sd THEN {} ELSE EntryOf(s)
    <3> TAKE s \in Sd
    <3>1. CASE s = sd
      <4>1. \A l \in Slot : slots'[l] # sd
        BY <1>6, <1>7, <1>11 DEF ListenInv, OwnedOK
      <4>. QED  BY <3>1, <4>1
    <3>2. CASE s # sd
      <4>1. \A l \in Slot : slots'[l] = s <=> slots[l] = s
        BY <1>6, <1>11, <3>2, Numbered
      <4>. QED  BY <3>2, <4>1 DEF EntryOf
    <3>. QED  BY <3>1, <3>2
  <2>2. app.sd = None
    BY <1>1 DEF ListenInv, OwnedOK, Accepting
  <2>3. EntryOf(sd) # {}
    BY <1>6 DEF EntryOf
  <2>4. \A s \in Sd : ctx'[s].pc # "free" <=> EntryOf(s)' # {} \/ app'.sd = s
    BY <1>1, <1>12, <2>1, <2>2, <2>3, Numbered DEF ListenInv, OwnedOK, EntryOf
  <2>5. \A a, b \in Slot : slots'[a] = slots'[b] /\ slots'[a] # None => a = b
    BY <1>11 DEF ListenInv, OwnedOK
  <2>6. EntryOf(app.sd)' = {}
    BY <1>12, <2>1 DEF EntryOf
  <2>7. \A s \in Sd : ctx'[s].pc # "free" => ctx'[s].peer # None
    BY <1>1 DEF ListenInv, OwnedOK
  <2>. QED  BY <1>1, <1>7, <1>12, <2>4, <2>5, <2>6, <2>7 DEF OwnedOK, Accepting
<1>18. CompletedOK'
  <2> DEFINE n == Len(completed)
             c == history.completed
             a == history.accepted
             NewPeer(j) == IF slots'[j] = None THEN None ELSE ctx'[slots'[j]].peer
  <2>1. /\ n \in Nat /\ n >= 1 /\ Len(completed') = n - 1
        /\ DOMAIN completed = 1 .. n /\ DOMAIN completed' = 1 .. n - 1
        /\ \A i \in 1 .. n - 1 : i + 1 \in 1 .. n /\ completed'[i] = completed[i + 1]
        /\ \A i \in 1 .. n : completed[i] \in Slot
    BY <1>2, <1>3, <1>8
  <2>2. /\ c \in Seq(Peers) /\ a \in Seq(Peers) /\ Len(c) \in Nat /\ Len(a) \in Nat
        /\ history'.completed = c /\ Len(history'.accepted) = Len(a) + 1
        /\ DOMAIN history'.accepted = 1 .. Len(a) + 1
        /\ history'.accepted[Len(a) + 1] = ctx[sd].peer
        /\ \A i \in 1 .. Len(a) : history'.accepted[i] = a[i]
    <3>1. c \in Seq(Peers) /\ a \in Seq(Peers)
      BY <1>2 DEF History
    <3>. QED  BY <1>7, <1>13, <3>1
  <2>3. /\ \A i, j \in 1 .. n : completed[i] = completed[j] => i = j
        /\ Len(c) = Len(a) + n
        /\ \A i \in DOMAIN a : c[i] = a[i]
        /\ \A i \in 1 .. n : c[Len(a) + i] = PeerAt(completed[i])
    BY <1>1, <2>1 DEF ListenInv, CompletedOK
  <2>4. \A i \in 1 .. n : slots[completed[i]] # None
                          /\ ctx[slots[completed[i]]].pc \in HandedOver
    BY <1>4, <2>1
  <2> HIDE DEF n, c, a
  <2>5. \A i \in 1 .. n - 1 : completed'[i] # k /\ completed'[i] \in Slot
                              /\ slots'[completed'[i]] = slots[completed[i + 1]]
    BY <1>5, <1>11, <2>1, <2>3
  <2>6. \A i \in 1 .. n - 1 : NewPeer(completed'[i]) = PeerAt(completed[i + 1])
    BY <1>1, <2>1, <2>5 DEF PeerAt
  <2>7. PeerAt(completed[1]) = ctx[sd].peer
    BY <1>5, <1>6, <1>7 DEF PeerAt
  <2> HIDE DEF NewPeer
  <2>8. \A i \in 1 .. n - 1 : /\ slots'[completed'[i]] # None
                              /\ ctx'[slots'[completed'[i]]].pc \in HandedOver
    BY <1>1, <2>1, <2>4, <2>5
  <2>9. \A i, j \in 1 .. n - 1 : completed'[i] = completed'[j] => i = j
    <3> TAKE i, j \in 1 .. n - 1
    <3> HAVE completed'[i] = completed'[j]
    <3>1. completed[i + 1] = completed[j + 1] /\ i + 1 \in 1 .. n /\ j + 1 \in 1 .. n
      BY <2>1
    <3>2. i + 1 = j + 1
      BY <2>3, <3>1
    <3>. QED  BY <2>1, <3>2
  <2>10. Len(c) = Len(history'.accepted) + (n - 1)
    BY <2>1, <2>2, <2>3
  <2>11. \A i \in 1 .. Len(a) + 1 : c[i] = history'.accepted[i]
    <3> TAKE i \in 1 .. Len(a) + 1
    <3>1. CASE i \in 1 .. Len(a)
      <4>1. DOMAIN a = 1 .. Len(a)
        BY <2>2
      <4>. QED  BY <2>2, <2>3, <3>1, <4>1
    <3>2. CASE i = Len(a) + 1
      BY <2>1, <2>2, <2>3, <2>7, <3>2
    <3>. QED  BY <2>2, <3>1, <3>2
  <2>12. \A i \in 1 .. n - 1 : c[Len(history'.accepted) + i] = NewPeer(completed'[i])
    <3> TAKE i \in 1 .. n - 1
    <3>1. Len(history'.accepted) + i = Len(a) + (i + 1) /\ i + 1 \in 1 .. n
      BY <2>1, <2>2
    <3>. QED  BY <2>3, <2>6, <3>1
  <2>. QED  BY <2>1, <2>2, <2>8, <2>9, <2>10, <2>11, <2>12
            DEF CompletedOK, PeerAt, NewPeer
<1>19. UsedSlots' = UsedSlots \ {k} /\ k \in UsedSlots
  BY <1>6, <1>7, <1>11 DEF UsedSlots
<1>20. /\ Cardinality(UsedSlots') \in Nat /\ Cardinality(UsedSlots) >= 1
       /\ Cardinality(UsedSlots') = Cardinality(UsedSlots) - 1
  <2>1. IsFiniteSet(UsedSlots \ {k})
        /\ Cardinality(UsedSlots \ {k}) = Cardinality(UsedSlots) - 1
    BY <1>19, UsedFinite, FS_RemoveElement
  <2>2. Cardinality(UsedSlots \ {k}) \in Nat
    BY <2>1, FS_CardinalityType
  <2>. QED  BY <1>19, <2>1, <2>2, UsedFinite
<1>21. ~ history.raced => cur_len = Cardinality(UsedSlots)
  <2>1. ~ history.raced =>
          cur_len = Cardinality(UsedSlots) + (IF app.pc = "count" THEN 1 ELSE 0)
    BY <1>1 DEF ListenInv, CountOK
  <2>2. app.pc # "count" /\ Cardinality(UsedSlots) \in Nat
    BY <1>1, UsedFinite
  <2>. QED  BY <2>1, <2>2
<1>22. CountOK'
  <2>1. ~ history'.raced => /\ ~ history.raced /\ recv'.pc # "fill"
                            /\ cur_len' = Cardinality(UsedSlots') + 1
    <3>1. ~ history.raced => cur_len = Cardinality(UsedSlots') + 1
      BY <1>20, <1>21, UsedFinite
    <3>. QED  BY <1>1, <1>13, <3>1
  <2>. QED  BY <1>1, <1>12, <2>1 DEF CountOK
<1>23. CauseOK'
  <2>1. ~ history.raced => cur_len # 0
    BY <1>20, <1>21, UsedFinite
  <2>. QED  BY <1>1, <1>9, <1>13, <2>1 DEF ListenInv, CauseOK
<1>. QED  BY <1>14, <1>15, <1>16, <1>17, <1>18, <1>22, <1>23 DEF ListenInv
(* myaccept() returns with its connection.                                 *)
LEMMA DequeueReturnsStep ==
  ASSUME ListenInv, DequeueReturns
  PROVE  ListenInv'
<1>1. /\ UNCHANGED <<peer, pending, new_socket, recv, slots, completed, ctx, failed, history>>
      /\ app.pc = "count" /\ cur_len' = app.len - 1 /\ ~ lock.writer
  BY DEF DequeueReturns, ListenInv, LockOK
<1>2. app \in Application /\ lock \in [readers : Nat, writer : BOOLEAN]
  BY DEF ListenInv, VariablesOK
<1>3. /\ app' \in Application /\ app'.pc \in {"serve", "exited"} /\ app'.sd = app.sd
  <2>1. PICK pc \in {"serve", "exited"} :
          app' = [app EXCEPT !.pc = pc, !.len = 0, !.locked = FALSE]
    BY DEF DequeueReturns
  <2>2. app' = [pc |-> pc, sd |-> app.sd, len |-> 0, woken |-> app.woken,
                locked |-> FALSE, stop |-> app.stop]
    BY <1>2, <2>1 DEF Application
  <2>3. pc \in AppPc
    BY DEF AppPc
  <2>4. /\ app.sd \in Sd \cup {None} /\ app.woken \in BOOLEAN /\ app.stop \in BOOLEAN
    BY <1>2 DEF Application
  <2>. QED  BY <2>2, <2>3, <2>4 DEF Application
<1>4. /\ lock' \in [readers : Nat, writer : BOOLEAN]
      /\ lock'.readers = lock.readers - 1 /\ lock'.writer = lock.writer
      /\ lock'.readers = Cardinality(Signalling) + (IF recv.pc = "fill" THEN 1 ELSE 0)
  <2>1. lock.readers = Cardinality(Signalling) + (IF recv.pc = "fill" THEN 1 ELSE 0) + 1
    BY <1>1, SignallingFinite DEF ListenInv, LockOK, Dequeueing
  <2>2. lock.readers > 0
    BY <2>1, SignallingFinite
  <2>3. lock' = [lock EXCEPT !.readers = lock.readers - 1]
    BY DEF DequeueReturns, ReadUnlock
  <2>4. lock.readers \in Nat /\ lock.readers - 1 \in Nat
    BY <1>2, <2>2
  <2>5. /\ lock' \in [readers : Nat, writer : BOOLEAN]
        /\ lock'.readers = lock.readers - 1 /\ lock'.writer = lock.writer
    BY <1>2, <2>3, <2>4
  <2>. QED  BY <2>1, <2>5, SignallingFinite
<1>5. VariablesOK'
  <2>1. app.len \in Int
    BY <1>2 DEF Application
  <2>. QED  BY <1>1, <1>3, <1>4, <2>1 DEF ListenInv, VariablesOK
<1>6. LockOK'
  <2>1. Signalling' = Signalling
    BY <1>1, ContextFrame
  <2>. QED  BY <1>1, <1>3, <1>4, <2>1, SignallingFinite DEF LockOK, Dequeueing
<1>7. RecvOK' /\ CompletedOK' /\ CauseOK'
  BY <1>1, <1>3, <1>4, RecvFrame, CompletedFrame, CauseFrame, ContextFrame
     DEF ListenInv, Joined
<1>8. OwnedOK'
  BY <1>1, <1>3 DEF ListenInv, OwnedOK, EntryOf, UsedSlots, Accepting
<1>9. CountOK'
  <2>1. ~ history.raced => /\ cur_len = Cardinality(UsedSlots) + 1
                           /\ app.len = cur_len /\ recv.pc # "fill"
    BY <1>1 DEF ListenInv, CountOK
  <2>2. ~ history.raced => cur_len' = Cardinality(UsedSlots) /\ recv.pc # "fill"
    BY <1>1, <2>1, UsedFinite
  <2>3. UsedSlots' = UsedSlots
    BY <1>1 DEF UsedSlots
  <2>. QED  BY <1>1, <1>3, <2>2, <2>3, UsedFinite DEF CountOK
<1>. QED  BY <1>5, <1>6, <1>7, <1>8, <1>9 DEF ListenInv

(* A descriptor is given back: its context is freed.                       *)
LEMMA FreedContext ==
  ASSUME VariablesOK, NEW sd \in Sd, ctx[sd].pc = "ended", ctx' = [ctx EXCEPT ![sd] = Free]
  PROVE  /\ ctx' \in [Sd -> Context] /\ ctx'[sd].pc = "free"
         /\ \A s \in Sd : s # sd => ctx'[s] = ctx[s]
         /\ Signalling' = Signalling
<1>1. ctx \in [Sd -> Context] /\ Free \in Context /\ Free.pc = "free"
  BY DEF VariablesOK, Free, Context, CtxPc, Errno
<1>2. /\ ctx' \in [Sd -> Context] /\ ctx'[sd].pc = "free"
      /\ \A s \in Sd : s # sd => ctx'[s] = ctx[s]
  BY <1>1
<1>. QED  BY <1>2 DEF Signalling

(* myclose() of a connection that was served has joined its thread.        *)
LEMMA ConnectionClosedStep ==
  ASSUME ListenInv, ConnectionClosed
  PROVE  ListenInv'
<1>1. /\ UNCHANGED <<peer, pending, new_socket, recv, slots, cur_len, completed, lock, failed,
                     history>>
      /\ app.pc = "join" /\ ctx[app.sd].pc = "ended" /\ ctx' = [ctx EXCEPT ![app.sd] = Free]
      /\ ~ lock.writer
  BY DEF ConnectionClosed, ListenInv, LockOK
<1>2. /\ app \in Application /\ ctx \in [Sd -> Context]
      /\ slots \in [Slot -> Sd \cup {None}] /\ completed \in Seq(Slot)
  BY DEF ListenInv, VariablesOK
<1>3. PICK sd \in Sd : sd = app.sd /\ EntryOf(sd) = {}
  BY <1>1, <1>2 DEF ListenInv, OwnedOK, Accepting, Application
<1>4. /\ ctx' \in [Sd -> Context] /\ ctx'[sd].pc = "free"
      /\ \A s \in Sd : s # sd => ctx'[s] = ctx[s]
      /\ Signalling' = Signalling
  BY <1>1, <1>3, FreedContext DEF ListenInv
<1>5. app' \in Application /\ app'.pc = "idle" /\ app'.sd = None /\ app'.len = app.len
  <2>1. app' = [app EXCEPT !.pc = "idle", !.sd = None]
    BY DEF ConnectionClosed
  <2>. QED  BY <1>2, <2>1 DEF Application, AppPc
<1>6. VariablesOK'
  BY <1>1, <1>4, <1>5 DEF ListenInv, VariablesOK
<1>7. LockOK' /\ RecvOK' /\ CountOK' /\ CauseOK'
  BY <1>1, <1>4, <1>5, LockFrame, RecvFrame, CountFrame, CauseFrame
     DEF ListenInv, Dequeueing, Joined
<1>8. \A l \in Slot : slots[l] # sd
  BY <1>3 DEF EntryOf
<1>9. OwnedOK'
  <2>1. \A s \in Sd : EntryOf(s)' = EntryOf(s)
    BY <1>1 DEF EntryOf
  <2>2. \A s \in Sd : ctx'[s].pc # "free" <=> EntryOf(s)' # {} \/ app'.sd = s
    BY <1>3, <1>4, <1>5, <2>1, Numbered DEF ListenInv, OwnedOK
  <2>3. \A s \in Sd : ctx'[s].pc # "free" => ctx'[s].peer # None
    BY <1>4 DEF ListenInv, OwnedOK
  <2>. QED  BY <1>1, <1>5, <2>2, <2>3 DEF ListenInv, OwnedOK, Accepting
<1>10. CompletedOK'
  <2>1. \A i \in DOMAIN completed :
          /\ completed[i] \in Slot /\ slots[completed[i]] \in Sd /\ slots[completed[i]] # None
          /\ ctx[slots[completed[i]]].pc \in HandedOver
          /\ ctx'[slots[completed[i]]] = ctx[slots[completed[i]]]
    BY <1>1, <1>2, <1>4, <1>8 DEF ListenInv, CompletedOK
  <2>2. \A i \in DOMAIN completed : PeerAt(completed[i])' = PeerAt(completed[i])
    BY <1>1, <2>1 DEF PeerAt
  <2>. QED  BY <1>1, <1>5, <2>1, <2>2 DEF ListenInv, CompletedOK
<1>. QED  BY <1>6, <1>7, <1>9, <1>10 DEF ListenInv

(* myclose() of a queued connection has joined its thread.                 *)
LEMMA QueuedClosedStep ==
  ASSUME ListenInv, QueuedClosed
  PROVE  ListenInv'
<1>1. /\ UNCHANGED <<peer, pending, new_socket, recv, cur_len, completed, lock, failed, history>>
      /\ app.pc = "joinqueued" /\ ctx[app.sd].pc = "ended"
      /\ ctx' = [ctx EXCEPT ![app.sd] = Free]
      /\ lock.writer
  BY DEF QueuedClosed, ListenInv, LockOK
<1>2. /\ app \in Application /\ ctx \in [Sd -> Context]
      /\ slots \in [Slot -> Sd \cup {None}]
  BY DEF ListenInv, VariablesOK
<1>3. PICK k \in Slot : k = Min(UsedSlots) /\ slots[k] = app.sd
  <2>1. UsedSlots # {} /\ app.sd = slots[Min(UsedSlots)]
    BY <1>1 DEF ListenInv, OwnedOK
  <2>. QED  BY <2>1, MinProperty, Numbered DEF UsedSlots
<1>4. PICK sd \in Sd : sd = app.sd /\ sd # None
  BY <1>1, <1>2 DEF ListenInv, OwnedOK, Application
<1>5. /\ ctx' \in [Sd -> Context] /\ ctx'[sd].pc = "free"
      /\ \A s \in Sd : s # sd => ctx'[s] = ctx[s]
      /\ Signalling' = Signalling
  BY <1>1, <1>4, FreedContext DEF ListenInv
<1>6. app' \in Application /\ app'.pc = "closeslots" /\ app'.sd = None /\ app'.len = app.len
  <2>1. app' = [app EXCEPT !.pc = "closeslots", !.sd = None]
    BY DEF QueuedClosed
  <2>. QED  BY <1>2, <2>1 DEF Application, AppPc
<1>7. /\ slots' \in [Slot -> Sd \cup {None}] /\ slots'[k] = None
      /\ \A l \in Slot : l # k => slots'[l] = slots[l]
  <2>1. slots' = [slots EXCEPT ![k] = None]
    BY <1>3 DEF QueuedClosed
  <2>. QED  BY <1>2, <2>1
<1>8. VariablesOK'
  BY <1>1, <1>5, <1>6, <1>7 DEF ListenInv, VariablesOK
<1>9. recv.pc = "ended"
  BY <1>1 DEF ListenInv, RecvOK, Joined
<1>10. LockOK' /\ CauseOK'
  BY <1>1, <1>5, <1>6, LockFrame, CauseFrame DEF ListenInv, Dequeueing
<1>11. RecvOK'
  BY <1>1, <1>9 DEF RecvOK
<1>12. CompletedOK' /\ CountOK'
  BY <1>1, <1>6, <1>9 DEF CompletedOK, CountOK
<1>13. OwnedOK'
  <2>1. \A s \in Sd : {l \in Slot : slots'[l] = s} = IF s = sd THEN {} ELSE EntryOf(s)
    <3> TAKE s \in Sd
    <3>1. CASE s = sd
      <4>1. \A l \in Slot : slots'[l] # sd
        BY <1>3, <1>4, <1>7 DEF ListenInv, OwnedOK
      <4>. QED  BY <3>1, <4>1
    <3>2. CASE s # sd
      <4>1. \A l \in Slot : slots'[l] = s <=> slots[l] = s
        BY <1>3, <1>4, <1>7, <3>2, Numbered
      <4>. QED  BY <3>2, <4>1 DEF EntryOf
    <3>. QED  BY <3>1, <3>2
  <2>2. \A s \in Sd : ctx'[s].pc # "free" <=> EntryOf(s)' # {} \/ app'.sd = s
    BY <1>4, <1>5, <1>6, <2>1, Numbered DEF ListenInv, OwnedOK, EntryOf
  <2>3. \A a, b \in Slot : slots'[a] = slots'[b] /\ slots'[a] # None => a = b
    BY <1>7 DEF ListenInv, OwnedOK
  <2>4. \A s \in Sd : ctx'[s].pc # "free" => ctx'[s].peer # None
    BY <1>5 DEF ListenInv, OwnedOK
  <2>. QED  BY <1>6, <2>2, <2>3, <2>4 DEF OwnedOK, Accepting
<1>. QED  BY <1>8, <1>10, <1>11, <1>12, <1>13 DEF ListenInv

(* myclose() has emptied the queue and frees it.                           *)
LEMMA QueueFreedStep ==
  ASSUME ListenInv, QueueFreed
  PROVE  ListenInv'
<1>1. /\ UNCHANGED <<peer, pending, new_socket, recv, slots, ctx, failed, history>>
      /\ app.pc = "closeslots" /\ UsedSlots = {} /\ completed' = <<>> /\ cur_len' = 0
  BY DEF QueueFreed
<1>2. lock \in [readers : Nat, writer : BOOLEAN]
  BY DEF ListenInv, VariablesOK
<1>3. app' \in Application /\ app'.pc = "closed" /\ UNCHANGED <<app.sd, app.len>>
  BY AppMoves DEF ListenInv, QueueFreed, AppPc
<1>4. /\ lock' \in [readers : Nat, writer : BOOLEAN]
      /\ lock'.readers = lock.readers /\ ~ lock'.writer
  BY <1>2 DEF QueueFreed
<1>5. VariablesOK'
  BY <1>1, <1>3, <1>4 DEF ListenInv, VariablesOK
<1>6. LockOK'
  <2>1. Signalling' = Signalling
    BY <1>1, ContextFrame
  <2>. QED  BY <1>1, <1>3, <1>4, <2>1 DEF ListenInv, LockOK, Dequeueing
<1>7. RecvOK' /\ CauseOK'
  BY <1>1, <1>3, <1>4, RecvFrame, CauseFrame DEF ListenInv, Joined
<1>8. OwnedOK'
  BY <1>1, <1>3 DEF ListenInv, OwnedOK, EntryOf, UsedSlots, Accepting
<1>9. CompletedOK'
  BY <1>1, <1>3 DEF CompletedOK
<1>10. CountOK'
  <2>1. recv.pc = "ended"
    BY <1>1 DEF ListenInv, RecvOK, Joined
  <2>2. UsedSlots' = {} /\ Cardinality({}) = 0
    BY <1>1, FS_EmptySet DEF UsedSlots
  <2>. QED  BY <1>1, <1>3, <2>1, <2>2 DEF CountOK
<1>. QED  BY <1>5, <1>6, <1>7, <1>8, <1>9, <1>10 DEF ListenInv

-----------------------------------------------------------------------------
(* The theorems. *)

(* The invariant holds when the listening socket has been set up.        *)
LEMMA InitialInvariant ==
  ASSUME Init
  PROVE  ListenInv
<1>1. VariablesOK
  <2>1. recv \in Receiver
    <3>1. recv = [pc |-> "poll", len |-> 0, slot |-> None]
      BY DEF Init
    <3>. QED  BY <3>1 DEF Receiver, RecvPc
  <2>2. lock \in [readers : Nat, writer : BOOLEAN]
    <3>1. lock = [readers |-> 0, writer |-> FALSE]
      BY DEF Init
    <3>. QED  BY <3>1
  <2>3. ctx \in [Sd -> Context] /\ slots \in [Slot -> Sd \cup {None}]
    <3>1. Free \in Context
      BY DEF Free, Context, CtxPc, Errno
    <3>. QED  BY <3>1 DEF Init
  <2>4. app \in Application
    <3>1. app = [pc |-> "idle", sd |-> None, len |-> 0, woken |-> FALSE,
                 locked |-> FALSE, stop |-> FALSE]
      BY DEF Init
    <3>. QED  BY <3>1 DEF Application, AppPc
  <2>5. history \in History
    <3>1. history = [completed |-> <<>>, accepted |-> <<>>, dropped |-> FALSE, raced |-> FALSE]
      BY DEF Init
    <3>. QED  BY <3>1 DEF History
  <2>6. peer \in [Peers -> {"idle", "connected", "syn", "gone"}]
    BY DEF Init
  <2>7. pending \in Seq(Peers) /\ completed \in Seq(Slot)
    <3>1. pending = <<>> /\ completed = <<>>
      BY DEF Init
    <3>. QED  BY <3>1
  <2>8. cur_len \in Int
    <3>1. cur_len = 0
      BY DEF Init
    <3>. QED  BY <3>1
  <2>9. new_socket \in Peers \cup {None} /\ failed \in Failures
    BY DEF Init, Failures
  <2>. QED  BY <2>1, <2>2, <2>3, <2>4, <2>5, <2>6, <2>7, <2>8, <2>9 DEF VariablesOK
<1>2. /\ Signalling = {} /\ UsedSlots = {} /\ \A sd \in Sd : EntryOf(sd) = {}
      /\ \A sd \in Sd : ctx[sd].pc = "free"
  BY Numbered DEF Init, Signalling, UsedSlots, EntryOf, Free
<1>3. Cardinality(Signalling) = 0 /\ Cardinality(UsedSlots) = 0
  BY <1>2, FS_EmptySet
<1>4. LockOK /\ CountOK
  <2>1. /\ lock.readers = 0 /\ ~ lock.writer /\ recv.pc = "poll" /\ app.pc = "idle"
        /\ cur_len = 0
    BY DEF Init
  <2>. QED  BY <1>3, <2>1 DEF LockOK, CountOK, Dequeueing
<1>5. RecvOK /\ CauseOK
  BY DEF Init, RecvOK, CauseOK, Joined
<1>6. OwnedOK
  <2>1. \A k \in Slot : slots[k] = None
    BY DEF Init
  <2>. QED  BY <1>2, <2>1, Numbered DEF Init, OwnedOK, Accepting
<1>7. CompletedOK
  <2>1. completed = <<>> /\ history.completed = <<>> /\ history.accepted = <<>>
    BY DEF Init
  <2>. QED  BY <2>1 DEF CompletedOK
<1>. QED  BY <1>1, <1>4, <1>5, <1>6, <1>7 DEF ListenInv

(* Every step of every thread preserves the invariant.                   *)
LEMMA NextInvariant ==
  ASSUME ListenInv, [Next]_vars
  PROVE  ListenInv'
<1>1. CASE UNCHANGED vars
  BY <1>1 DEF vars, ListenInv, VariablesOK, LockOK, RecvOK, OwnedOK, CompletedOK, CountOK,
     CauseOK, Signalling, UsedSlots, EntryOf, PeerAt
<1>2. CASE Next
  <2>1. Running
    BY <1>2 DEF Next
  <2>2. CASE \E p \in Peers :
               PeerConnects(p) \/ \E what \in {"syn", "gone"} : PeerSends(p, what)
    BY <2>2, PeerStep
  <2>3. CASE Receive
    <3>1. CASE FillSlot
      BY <2>1, <3>1, FillDropsStep, FillUsesStep
    <3>. QED  BY <2>1, <2>3, <3>1, RecvMovesStep, RecvAcceptsStep, EnqueueStep DEF Receive
  <2>4. CASE \E sd \in Sd : Transport(sd)
    BY <2>4, ContextMovesStep, CompleteStep, SignalStep DEF Transport, HandsOver
  <2>5. CASE DequeueStarts \/ CloseListening
    BY <2>5, DequeueStartsStep, AppMovesStep
  <2>6. CASE Serve
    <3>1. CASE DequeueTests
      BY <2>1, <3>1, WaitStep, TakeStep
    <3>. QED  BY <2>6, <3>1, AppMovesStep, DequeueReturnsStep, CloseStep,
                 ConnectionClosedStep, WriteLockStep, QueuedClosedStep, QueueFreedStep
              DEF Serve
  <2>. QED  BY <1>2, <2>2, <2>3, <2>4, <2>5, <2>6 DEF Next
<1>. QED  BY <1>1, <1>2

(* The threads that meet at the queue agree: in every behaviour the lock,  *)
(* the entries, the descriptors, the counts and the completed connections  *)
(* are where ListenInv puts them, whatever the order of the threads        *)
(* (connection_demux.c).                                                   *)
THEOREM ListenInvariant == Spec => []ListenInv
<1>. QED  BY InitialInvariant, NextInvariant, PTL DEF Spec

(* Every completed connection is handed to the application, once, and in   *)
(* the order of completion (_mysock_passive_connection_complete,           *)
(* _mysock_dequeue_connection).                                            *)
THEOREM AlwaysAcceptsInOrder == Spec => []AcceptsInOrder
<1>1. ListenInv => AcceptsInOrder
  <2> SUFFICES ASSUME ListenInv, app.pc # "closed", ~ lock.writer
               PROVE  history.completed =
                        history.accepted \o [i \in DOMAIN completed |-> PeerAt(completed[i])]
    BY DEF AcceptsInOrder
  <2> DEFINE c == history.completed
             a == history.accepted
             q == [i \in DOMAIN completed |-> PeerAt(completed[i])]
  <2>1. c \in Seq(Peers) /\ a \in Seq(Peers) /\ completed \in Seq(Slot)
    BY DEF ListenInv, VariablesOK, History
  <2>2. \A k \in Slot : PeerAt(k) \in Peers \cup {None}
    BY DEF ListenInv, VariablesOK, PeerAt, Context
  <2>3. q \in Seq(Peers \cup {None}) /\ Len(q) = Len(completed)
    BY <2>1, <2>2
  <2>4. /\ Len(c) = Len(a) + Len(completed)
        /\ \A i \in DOMAIN a : c[i] = a[i]
        /\ \A i \in DOMAIN completed : c[Len(a) + i] = PeerAt(completed[i])
    BY DEF ListenInv, CompletedOK
  <2>5. /\ Len(a \o q) = Len(a) + Len(q)
        /\ a \o q \in Seq(Peers \cup {None})
        /\ \A i \in 1 .. Len(a) : (a \o q)[i] = a[i]
        /\ \A i \in 1 .. Len(q) : (a \o q)[Len(a) + i] = q[i]
    BY <2>1, <2>3
  <2>6. \A i \in 1 .. Len(c) : c[i] = (a \o q)[i]
    <3> TAKE i \in 1 .. Len(c)
    <3>1. CASE i \in 1 .. Len(a)
      BY <2>1, <2>4, <2>5, <3>1
    <3>2. CASE i \notin 1 .. Len(a)
      <4>1. PICK j \in 1 .. Len(completed) : i = Len(a) + j
        <5>1. Len(a) \in Nat /\ Len(completed) \in Nat /\ Len(c) = Len(a) + Len(completed)
          BY <2>1, <2>4
        <5>2. i - Len(a) \in 1 .. Len(completed) /\ i = Len(a) + (i - Len(a))
          BY <3>2, <5>1
        <5>. QED  BY <5>2
      <4>2. c[i] = q[j]
        BY <2>1, <2>4, <4>1
      <4>. QED  BY <2>3, <2>5, <4>1, <4>2
    <3>. QED  BY <3>1, <3>2
  <2> HIDE DEF c, a, q
  <2>7. c = a \o q
    <3>1. Len(a \o q) = Len(c) /\ Len(c) \in Nat
      BY <2>1, <2>3, <2>4, <2>5
    <3>2. c \in Seq(Peers \cup {None})
      BY <2>1, SeqMonotonic
    <3>. QED  BY <2>5, <2>6, <3>1, <3>2, SeqEqual
  <2>. QED  BY <2>7 DEF c, a, q
<1>. QED  BY <1>1, ListenInvariant, PTL

(* A descriptor is in the queue, with the application, or unused, and      *)
(* nothing is left of a listening socket that was closed (myclose,         *)
(* _mysock_close_passive_connections).                                     *)
THEOREM AlwaysOwned == Spec => []DescriptorsOwned
<1>1. ListenInv => DescriptorsOwned
  <2> SUFFICES ASSUME ListenInv PROVE DescriptorsOwned
    OBVIOUS
  <2>1. TypeOK
    <3>1. history.completed \in Seq(Peers) /\ history.accepted \in Seq(Peers)
      BY DEF ListenInv, VariablesOK, History
    <3>2. Range(history.completed) \cup Range(history.accepted) \subseteq Peers
      BY <3>1 DEF Range
    <3>. QED  BY <3>2 DEF ListenInv, VariablesOK, TypeOK, Receiver, RecvPc, Context, Application
  <2>2. app.pc = "closed" =>
          recv.pc = "ended" /\ \A sd \in Sd : ctx[sd].pc = "free" /\ EntryOf(sd) = {}
    <3> HAVE app.pc = "closed"
    <3>1. recv.pc = "ended"
      BY DEF ListenInv, RecvOK, Joined
    <3>2. UsedSlots = {} /\ app.sd = None
      BY DEF ListenInv, OwnedOK, Accepting
    <3>3. \A sd \in Sd : EntryOf(sd) = {} /\ app.sd # sd
      BY <3>2, Numbered DEF UsedSlots, EntryOf
    <3>. QED  BY <3>1, <3>3 DEF ListenInv, OwnedOK
  <2>. QED  BY <2>1, <2>2 DEF DescriptorsOwned, ListenInv, OwnedOK
<1>. QED  BY <1>1, ListenInvariant, PTL

(* As long as the receive thread and myaccept() have not changed cur_len   *)
(* at the same time it is the number of connections in the queue           *)
(* (_mysock_enqueue_connection, _mysock_dequeue_connection).               *)
THEOREM AlwaysCounted == Spec => []Counted
<1>1. ListenInv => Counted
  <2> SUFFICES ASSUME ListenInv, ~ history.raced, ~ lock.writer, app.pc # "count"
               PROVE  cur_len = Cardinality(UsedSlots)
    BY DEF Counted
  <2>1. cur_len = Cardinality(UsedSlots) + (IF app.pc = "count" THEN 1 ELSE 0)
    BY DEF ListenInv, CountOK
  <2>2. Cardinality(UsedSlots) \in Nat
    BY UsedFinite
  <2>. QED  BY <2>1, <2>2
<1>. QED  BY <1>1, ListenInvariant, PTL

(* No assertion of the queue fails but for a lost update of cur_len or a   *)
(* dropped SYN; those on queue_entry, new_ctx and connection_req hold      *)
(* otherwise (connection_demux.c, network_io_tcp.c).                       *)
THEOREM AlwaysFailsForCause == Spec => []FailsForCause
<1>1. ListenInv => FailsForCause
  BY DEF ListenInv, VariablesOK, Failures, CauseOK, FailsForCause
<1>. QED  BY <1>1, ListenInvariant, PTL
=============================================================================
