CONSTANTS
  f = 8
  g = 9
  idle = 11
  Size = 7
  FtraceMax = 2
  Functs <- SomeFuncts
  Main = 7
  Arities <- SomeArities
  Registers <- SomeRegisters
  Counts = {0, 1, 2}
  Depth = 2
  Prologue = Prologue
  Invalid = Invalid
  Garbage = 10
SPECIFICATION Spec
CONSTRAINT IdleStaysIdle
VIEW Relevant
INVARIANTS TypeOK FunctionListIsSet CodeIsIntact
PROPERTY CallsAreLogged
