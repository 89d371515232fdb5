CONSTANTS
  Settings = {s1, s2}
  MaxLoads = 2
  MaxRecordings = 2
  Tasks = {tts, asr}
  LongTasks = {tts}
  LiveTask = asr
  MaxPieces = 2
  MaxBegun = 4
  MaxText = 6
  Budgets = {1, 2, 3, 4}
  MaxFound = 3
  ClipEnd = 8
  MinSpan = 2
  MaxSpan = 3
SPECIFICATION StudioScene
INVARIANT KeptSessionIsOpen
CHECK_DEADLOCK FALSE
