\* A purge of one installation changes the recordings of another that ended.
SPECIFICATION Spec
CONSTANTS
  r1 = r1
  q1 = q1
  q2 = q2
  p1 = p1
  Recordings <- OneRecording
  Requests <- OneRequest
  Purgers <- OnePurge
  MaxEras = 3
  MaxMessages = 2
  MaxFiles = 2
INVARIANT CountersAgree
CHECK_DEADLOCK FALSE
