SPECIFICATION Spec
CONSTANTS
  MaxPreStartBufferSize = 3
  BufferSize <- Rooms
  Bounds <- Scenarios
INVARIANTS NoSilentLoss InOrder LeaderHearsItsTerm
PROPERTIES LeaderIsSeeded
CHECK_DEADLOCK FALSE
