SPECIFICATION Spec
CONSTANTS
  Pushers = {p1, p2}
  Poppers = {c1, c2, c3}
  Data = {d1, d2}
  NULL = NULL
  Capacity = 2
  Wrap = 4
  MaxPush = 7
INVARIANTS
  IInv
PROPERTY
  IsBoundedFifo
SYMMETRY Symmetry
