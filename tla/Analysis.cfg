CONSTANTS
  Clients = {c1, c2}
  Viewers = {v1}
  Files = {f1, f2}
  Rates = {r1, r2}
  MaxRows = 2
  MaxPoll = 2
  Cap = 2
  MaxRuns = 2
  MaxSeq = 4
  None = None
SPECIFICATION MCSpec
INVARIANTS OneRunPerRecording RowsInOrder
PROPERTIES RecordingIsFinished
CHECK_DEADLOCK FALSE
