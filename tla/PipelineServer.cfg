\* Everything in-process: a slow provider, the sweeper and an operator.
SPECIFICATION Spec
CONSTANTS
  j1 = j1
  j2 = j2
  Jobs <- MCJobs
  Empty = "empty"
  Texts = {"empty", "hello", "salut"}
  Foreign = {"salut"}
  Translations = {"empty", "hello"}
  Configs <- InProcess
  Clients = {"operator"}
  InitStatuses = {"pending"}
  MaxTranscriptions = 2
  MaxModerations = 2
  MaxCrashes = 0
  MaxSlow = 1
SYMMETRY JobSymmetry
INVARIANTS
  TypeOK
  PendingIsNewest
  VerdictOnReviewedText
PROPERTIES
  HistoryStands
  TranslationStands
CHECK_DEADLOCK FALSE
