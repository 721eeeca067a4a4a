---------------------------- MODULE RoutingTable ----------------------------
(***************************************************************************)
(* sr_findLPMentry() of the hw4 router (sr_router.c): one pass over the    *)
(* routing table that keeps the matching entry with the greatest mask.     *)
(* Masks are compared as numbers, which for contiguous masks is by length. *)
(***************************************************************************)
EXTENDS Naturals, Sequences

CONSTANTS
  Address,     \* IP addresses, as numbers
  Mask,        \* netmasks, as numbers
  And(_, _),   \* the & of C
  MaxEntries   \* bound: how many entries a table has

ASSUME RoutingTableAssumption == Mask \subseteq Nat /\ MaxEntries \in Nat

Entry == [dest : Address, mask : Mask]

VARIABLES
  rtable,      \* the list of entries
  ip_dst,      \* the address to look up
  entry,       \* position of the entry the loop is at
  lpmentry,    \* position of the best entry so far, or NULL
  lpmmask      \* its mask, or 0

vars == <<rtable, ip_dst, entry, lpmentry, lpmmask>>

NULL == 0

Matches(e, ip) == And(ip, e.mask) = And(e.dest, e.mask)

-----------------------------------------------------------------------------
Init ==
  /\ rtable \in UNION {[1 .. n -> Entry] : n \in 0 .. MaxEntries}
  /\ ip_dst \in Address
  /\ entry = 1
  /\ lpmentry = NULL
  /\ lpmmask = 0

(* Mutant: an entry with the same mask as the best one takes its place. *)
BetterOrEqual(e) == Matches(e, ip_dst) /\ e.mask >= lpmmask

Better(e) == Matches(e, ip_dst) /\ e.mask > lpmmask

(* One turn of the loop. *)
Scan ==
  /\ entry <= Len(rtable)
  /\ IF Better(rtable[entry])
     THEN lpmentry' = entry /\ lpmmask' = rtable[entry].mask
     ELSE UNCHANGED <<lpmentry, lpmmask>>
  /\ entry' = entry + 1
  /\ UNCHANGED <<rtable, ip_dst>>

Spec == Init /\ [][Scan]_vars

Done == entry > Len(rtable)

-----------------------------------------------------------------------------
(* The best of the first n entries: none with a mask other than 0 matches, *)
(* or it matches, no other one is longer, and an equally long one is after *)
(* it.                                                                     *)
BestOf(n) ==
  IF lpmentry = NULL
  THEN \A i \in 1 .. n : Matches(rtable[i], ip_dst) => rtable[i].mask = 0
  ELSE /\ lpmentry \in 1 .. n
       /\ Matches(rtable[lpmentry], ip_dst)
       /\ \A i \in 1 .. n :
            Matches(rtable[i], ip_dst) =>
              /\ rtable[i].mask <= rtable[lpmentry].mask
              /\ i < lpmentry => rtable[i].mask < rtable[lpmentry].mask

(* What the loop keeps true at every turn.                                 *)
ScanInvariant ==
  /\ entry \in 1 .. Len(rtable) + 1
  /\ lpmmask = IF lpmentry = NULL THEN 0 ELSE rtable[lpmentry].mask
  /\ lpmentry # NULL => lpmmask > 0
  /\ BestOf(entry - 1)

(* What sr_findLPMentry() returns is the longest match, the first of them  *)
(* when there are several, for the entries that are not default routes.    *)
LongestMatch == Done => BestOf(Len(rtable))

(* "longest match so far" (sr_router.c:695): an address that some entry    *)
(* matches is found.  A default route, with mask 0, is never longer than   *)
(* the initial lpmmask.                                                    *)
SomeMatchFound ==
  Done /\ (\E i \in 1 .. Len(rtable) : Matches(rtable[i], ip_dst))
    => lpmentry # NULL
=============================================================================
