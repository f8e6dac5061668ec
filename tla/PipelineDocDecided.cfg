\* A decision while the provider's error is handled.
SPECIFICATION Spec
CONSTANTS
  j1 = j1
  j2 = j2
  Jobs <- MCJobs
  Empty = "empty"
  Texts = {"empty", "hello", "salut"}
  Foreign = {"salut"}
  Translations = {"empty", "hello"}
  Configs <- InProcess
  Clients = {"operator"}
  InitStatuses = {"received"}
  MaxTranscriptions = 1
  MaxModerations = 1
  MaxCrashes = 0
  MaxSlow = 0
PROPERTIES
  DecidedStays
CHECK_DEADLOCK FALSE
