SPECIFICATION MCSpec
CONSTANTS
  Binaries = {b1, b2}
  NoBinary = NoBinary
  Commands = {"load", "no pack", "admit", "status", "invalid"}
  Mutating = {"admit"}
  Rejected = {"no pack", "invalid"}
  Loads = {"load", "no pack"}
  NoCommand = NoCommand
  Pieces = 2
  MaxRequests = 4
  MaxInstalls = 1
  Limit = 4
  MaxLength = 8
INVARIANTS
  NoChildOutlivesClient
  ChunksDoNotMatter
PROPERTIES
  AnswersInOrder
  RequestsReturn
CHECK_DEADLOCK FALSE
