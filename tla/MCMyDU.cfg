CONSTANTS
  root = root
  a = a
  b = b
  inner = inner
  f = f
  g = g
  Nodes = {root, a, b, inner, f, g}
  Root = root
  Dirs = {root, a, b, inner}
  Kids <- Tree
  Bytes <- Weights
  Limits = {3, 6, 7, 8}
SPECIFICATION Spec
INVARIANTS TypeOK TotalIsRight ChildIsCollected
PROPERTY Terminates
CHECK_DEADLOCK FALSE
