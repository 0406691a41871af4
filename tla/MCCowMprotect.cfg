CONSTANTS
  AreaStart = 1
  AreaEnd = 3
  Top = 3
  Lengths = {1, 2}
  SegPages = {}
  Procs = {p1, p2}
  Frames = {f1, f2, f3}
  NoFrame = NoFrame
  Values = {a, b}
  TlbMayBeStale = FALSE
SPECIFICATION Spec
SYMMETRY Symmetry
PROPERTY MprotectTakesWriteAway
