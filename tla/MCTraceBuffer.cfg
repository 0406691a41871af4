CONSTANTS
  Size = 4
  Bytes = {a, b}
  Inputs <- Strings
  Counts = {0, 1, 2, 3, 4, 5}
  MaxOpenFiles = 3
  Standard = 1
SPECIFICATION FilesSpec
VIEW Relevant
INVARIANTS TypeOK DescriptorsAreCounted NothingLeaks
PROPERTY IsFifo
