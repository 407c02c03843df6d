SPECIFICATION Spec
CONSTANTS
  Reqs = {r1, r2}
  IPs = {a1, a2}
  NoIP = NoIP
  FreeFailures = 1
  MaxLock = 2
  Clean = 2
  Window = 2
  GlobalMax = 3
  MaxTrackedIPs = 1
  MaxFails = 4
  MaxSessions = 2
  SessionAbsolute = 2
  SessionIdle = 1
  StepUpMaxAge = 0
  MaxTokens = 3
  RecoveryCodes = {1}
  PendingLife = 1
  MaxStep = 3
  MaxIssues = 4
  MaxRequests <- MCMaxRequests
  MaxLogins <- MCMaxLogins
INVARIANTS
  FactorSound
  SessionsFollowFactor
  GuessBudget
PROPERTIES
  EnrolmentSurvivesBoot
  LockNotForgotten
  LockEnds
CHECK_DEADLOCK FALSE
