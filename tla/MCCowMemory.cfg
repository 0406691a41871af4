CONSTANTS
  AreaStart = 1
  AreaEnd = 3
  Top = 3
  Lengths = {1, 2}
  SegPages = {5}
  Procs = {p1, p2}
  Frames = {f1, f2}
  NoFrame = NoFrame
  Values = {a, b}
  TlbMayBeStale = FALSE
SPECIFICATION Spec
SYMMETRY Symmetry
INVARIANTS TypeOK RefCountsExact WritableIsExclusive TlbFollowsTable
PROPERTIES ChildSeesParentsMemory ProcessesArePrivate
