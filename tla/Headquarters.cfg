\* Headquarters, one part after the other.
SPECIFICATION HeadquartersSpec
SYMMETRY People
CONSTANTS
  Parts = {"commands", "login", "reset", "payout", "recovery", "recoveries", "console", "oneSession"}
  a = a
  b = b
  Requests = {a, b}
  Keys = {"k1", "k2"}
  Tokens = {"t1", "t2"}
  Facts = {"f1", "f2"}
  MaxTries = 2
  MaxPrevious = 0
  MaxRotations = 1
  MaxVersion = 2
  \* AdminSessions; each part bounds them further
  Failures = 2
  Changes = 3
  LastStep = 3
  PrintedCodes = 3
  FactorCount = 2
  ChallengeCount = 4
  SessionCount = 4
  GrantCount = 1
  \* OfflineRecovery
  Operators = {a, b, "c", "d"}
  OwnChanges = 2
  RecoveryCount = 2
  Disabled = 1
  \* AdminRefundConsole
  Staff = {"p", "q"}
  PageSessions = 2
  PageTokens = 2
  PagePreviews = 2
  PageCommands = 2
  PageCalls = 3
INVARIANTS
  CommandsAgree
  SignInsAreSound
  ConsoleKeepsTrack
PROPERTIES
  ExecutesWhatWasShown
  ActsWithAuthority
\* Requests, rows and previews are bounded: at the bounds nothing may be left to do.
CHECK_DEADLOCK FALSE
