SPECIFICATION Spec
CONSTANTS
  Pointers = {p1, p2, p3, p4, p5}
  Hashes = {0, 1, 6, 7}
  InitialCapacity = 4
  MaxCapacity = 8
  Null = Null
INVARIANTS
  TypeOK
  ContainsExactly
  EraseEnds
PROPERTIES
  DroppedOnlyWhenFull
SYMMETRY PointerSymmetry
