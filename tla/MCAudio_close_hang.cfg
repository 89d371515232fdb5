CONSTANTS
  Capacity = 3
  Chunk = 2
  BufferSizes = {1, 4}
  MaxFrames = 7
  ClipFrames = 3
  PlaySizes = {1, 2}
  SubbufferSize = 3
  Wants = {1, 2, 4}
  MaxSent = 9
  MaxStarts = 3
  Users = {1, 2}
  Hardware = {1, 2}
  MaxCalls = 3
SPECIFICATION DeviceScene
PROPERTY CloseEndsWorker
CHECK_DEADLOCK FALSE
