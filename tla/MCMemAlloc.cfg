CONSTANTS
  ChunkWords = 10
  Slots = 2
  Requests = {0, 16, 17, 72}
  Data = {77}
SPECIFICATION Spec
VIEW Relevant
INVARIANTS TypeOK ListIsLinked BlocksAreDisjoint
PROPERTIES BlocksAreKept OnlyMergesLose
