CONSTANTS
  Window = 6
  Total = 8
  First = 2
SPECIFICATION Spec
INVARIANTS SortedDisjoint ReadsExactly
PROPERTIES ImplementsReassembly
CHECK_DEADLOCK FALSE
