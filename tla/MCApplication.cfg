CONSTANTS
  Capacity = 3
  Chunk = 2
  BufferSizes = {1, 4}
  MaxFrames = 7
  ClipFrames = 3
  PlaySizes = {1, 2}
  SubbufferSize = 3
  Wants = {1, 2, 4}
  MaxSent = 9
  MaxStarts = 3
  Users = {1, 2}
  Hardware = {1, 2}
  MaxCalls = 3
  Settings = {s1, s2}
  MaxLoads = 2
  MaxRecordings = 2
  Tasks = {tts, asr}
  LongTasks = {tts}
  LiveTask = asr
  MaxPieces = 2
  MaxBegun = 4
  MaxText = 5
  Budgets = {1, 2, 3, 4}
  MaxFound = 3
  ClipEnd = 8
  MinSpan = 2
  MaxSpan = 3
SPECIFICATION AppSpec
INVARIANTS
  AudioTypes
  FramesAccountedFor
  NothingUsedAfterFree
  ReadsInsideClip
  RegionsAreDisjoint
  CallerKnowsWorker
  ListIsSound
  DesktopTypes
  RecordingHasOneOwner
  BusyIsOneJobs
  OfferedModelIsThere
  OwnResultsUnlessTangled
  PublishedWordsStay
  CuttingLosesNothing
PROPERTIES
  RingIsAQueue
  BegunEnds
CHECK_DEADLOCK FALSE
