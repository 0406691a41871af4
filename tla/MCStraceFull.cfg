CONSTANTS
  Size = 6
  StraceMax = 2
  NoHead = NoHead
  Garbage = 0
  Numbers = {2, 7, 39}
  Calls <- SomeCalls
  Counts = {0, 1, 2}
  Held = 6
SPECIFICATION Spec
PROPERTY TracedReadFindsItself
