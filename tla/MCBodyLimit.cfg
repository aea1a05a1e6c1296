SPECIFICATION Spec
CONSTANTS
  NoLength = NoLength
  Limit = 3
  MaxChunks = 3
  MaxChunk = 4
  MaxReceives = 5
  Bodies <- AllBodies
  Lengths <- AllLengths
INVARIANTS AppSeesTheRequest RejectsOnlyTooLarge
CHECK_DEADLOCK FALSE
