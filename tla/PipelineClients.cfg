\* No in-process provider: a legacy message, the app and an operator.
SPECIFICATION Spec
CONSTANTS
  j1 = j1
  j2 = j2
  Jobs <- MCJobs
  Empty = "empty"
  Texts = {"empty", "salut"}
  Foreign = {"salut"}
  Translations = {"hello", "hi"}
  Configs <- OutOfProcess
  Clients = {"worker", "operator"}
  InitStatuses = {"received"}
  MaxTranscriptions = 2
  MaxModerations = 2
  MaxCrashes = 0
  MaxSlow = 0
SYMMETRY JobSymmetry
INVARIANTS
  VerdictOnReviewedText
PROPERTIES
  ReviewSpec
  DecidedStays
CHECK_DEADLOCK FALSE
