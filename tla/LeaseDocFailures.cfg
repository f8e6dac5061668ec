\* The documented third failure, with leases that may be released instead.
SPECIFICATION DocSpec
CONSTANTS
  d1 = d1
  d2 = d2
  op1 = op1
  op2 = op2
  NoUser = NoUser
  Messages = {1}
  Devices <- OneDevice
  Users <- MCUsers
  UserOf <- SameUser
  CapOf <- AllSteps
  LeaseLengths = {1}
  RenewLengths = {1}
  InitStatuses = {"pending"}
  InitAttempts = {0}
  NeedsOf <- OneContent
  PageSize = 1
  MaxAttempts = 3
  MaxClock = 0
  MaxClaims = 3
  MaxInFlight = 1
INVARIANT ThirdFailureIsTerminal
CHECK_DEADLOCK FALSE
