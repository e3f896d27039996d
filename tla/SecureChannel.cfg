SPECIFICATION ChannelSpec
CONSTANTS
  hObs = hObs
  hOp = hOp
  arm = arm
  flash = flash
  Hosts = {hObs, hOp}
  Role <- HostRoles
  MaxRole = 2
  SessionIds = {1}
  Commands = {arm}
  RequiredRole <- CommandRoles
  CounterMod = 4
  SessionTimeout = 2
  PendingTimeout = 1
  MaxTime = 2
  MaxClientNonce = 2
  MaxDeviceNonce = 2
  Bad = Bad
  None = None
  Pieces = {3, 23, 32, 55}
  MaxLength = 130
  Keys = {0, 32, 64, 65}
INVARIANT AtMostOnce
INVARIANT OnlyAuthorized
INVARIANT ReportedIsExecuted
INVARIANT DigestsAreStandard
PROPERTY SessionLifetime
