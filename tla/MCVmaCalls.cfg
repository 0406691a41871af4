CONSTANTS
  AreaStart = 1
  AreaEnd = 5
  Top = 6
  Lengths = {1, 2, 3}
SPECIFICATION Spec
VIEW ListOnly
INVARIANTS TypeOK SortedAndDisjoint Merged
PROPERTY CallsKeepPromise
