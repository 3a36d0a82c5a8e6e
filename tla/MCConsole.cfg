SPECIFICATION ConsoleSpec
CONSTANTS
  Requests = {}
  Digits = {0, 1}
  NonDigit = NonDigit
  Orders <- OneOrder
  EngagementOrder <- OneTarget
  MaxOrder = 1
  CorrectionBound = 0
  SpuriousBound = 0
  MaxClicks = 5
  MaxRequests = 2
  MaxReports = 2
INVARIANTS
  ConsoleTypeOK
  WindowIsTruthful

  
CHECK_DEADLOCK FALSE
