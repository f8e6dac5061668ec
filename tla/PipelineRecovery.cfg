\* Restarts and a slow provider, with nobody to help.
SPECIFICATION FairSpec
CONSTANTS
  j1 = j1
  j2 = j2
  Jobs <- MCJobs
  Empty = "empty"
  Texts = {"empty", "salut"}
  Foreign = {"salut"}
  Translations = {"hello"}
  Configs <- InProcess
  Clients = {}
  InitStatuses = {"received"}
  MaxTranscriptions = 6
  MaxModerations = 6
  MaxCrashes = 1
  MaxSlow = 1
PROPERTIES
  TranscriptionSettles
CHECK_DEADLOCK FALSE
