\* One recording, two devices of one operator, every kind of request.
SPECIFICATION Spec
CONSTANTS
  d1 = d1
  d2 = d2
  op1 = op1
  op2 = op2
  NoUser = NoUser
  Messages = {1}
  Devices <- MCDevices
  Users <- MCUsers
  UserOf <- SameUser
  CapOf <- OneLimited
  LeaseLengths = {1}
  RenewLengths = {2}
  InitAttempts = {0, 1}
  InitStatuses = {"uploading"}
  NeedsOf <- TwoContents
  PageSize = 2
  MaxAttempts = 2
  MaxClock = 1
  MaxClaims = 2
  MaxInFlight = 2
INVARIANTS
  TypeOK
  OneHolder
  CompletionIsCurrent
  TerminalIsFinal
PROPERTIES
  NoTakeover
  FailCountIsCurrent
  LedgerSpec
CHECK_DEADLOCK FALSE
