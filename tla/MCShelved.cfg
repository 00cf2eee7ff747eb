SPECIFICATION Spec
CONSTANTS
  w1 = w1
  Comment = Comment
  Missing = Missing
  NULL = NULL
INVARIANTS
  TrackedOnce
  OneServer
  PolicyKept
  Balanced
  DataFollow
PROPERTY
  WeightedServed
