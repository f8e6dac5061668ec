\* The documented meaning of a null claim, queue pages of one message.
SPECIFICATION DocSpec
CONSTANTS
  d1 = d1
  d2 = d2
  op1 = op1
  op2 = op2
  NoUser = NoUser
  Messages = {1, 2}
  Devices <- OneDevice
  Users <- MCUsers
  UserOf <- SameUser
  CapOf <- AllSteps
  LeaseLengths = {1}
  RenewLengths = {2}
  InitAttempts = {0}
  InitStatuses = {"pending"}
  NeedsOf <- ThreeContents
  PageSize = 1
  MaxAttempts = 3
  MaxClock = 1
  MaxClaims = 3
  MaxInFlight = 1
PROPERTY NullMeansNoWork
CHECK_DEADLOCK FALSE
