\* A recording over three installations; two deliveries of the booth over two.
SPECIFICATION ErasSpec
CONSTANTS
  r1 = r1
  q1 = q1
  q2 = q2
  p1 = p1
  Recordings <- OneRecording
  Requests <- TwoRequests
  Purgers <- OnePurge
  MaxEras = 3
  MaxMessages = 2
  MaxFiles = 2
  Deliveries <- TwoRequests
  MaxCalls = 1
  MaxBoothEras = 2
  MaxBatch = 2
  MaxReports = 3
INVARIANTS
  EndedIsSettled
  EventsFollowTheirCall
  OnlyFinishedCallsAreAborted
  ReportsAreCounted
PROPERTIES
  UploadsSurvive
  SettledCallsStay
SYMMETRY RequestSymmetry
CHECK_DEADLOCK FALSE
