\* A purge deletes the audio of a recording that was uploaded again.
SPECIFICATION Spec
CONSTANTS
  r1 = r1
  q1 = q1
  q2 = q2
  p1 = p1
  Recordings <- OneRecording
  Requests <- OneRequest
  Purgers <- OnePurge
  MaxEras = 3
  MaxMessages = 2
  MaxFiles = 2
INVARIANT AudioKept
CHECK_DEADLOCK FALSE
