\* The documented recovery of in-flight work.
SPECIFICATION FairSpec
CONSTANTS
  j1 = j1
  j2 = j2
  Jobs <- MCJobs
  Empty = "empty"
  Texts = {"empty", "hello", "salut"}
  Foreign = {"salut"}
  Translations = {"empty", "hello"}
  Configs <- InProcess
  Clients = {}
  InitStatuses = {"pending"}
  MaxTranscriptions = 2
  MaxModerations = 2
  MaxCrashes = 1
  MaxSlow = 0
PROPERTIES
  DownstreamSettles
CHECK_DEADLOCK FALSE
