SPECIFICATION Spec
CONSTANTS
  Requests <- AllRequests
  Digits = {0, 1}
  NonDigit = NonDigit
  Orders <- AllOrders
  MaxOrder = 2
  CorrectionBound = 1
  SpuriousBound = 0
INVARIANTS
  NoArmingWithoutCode
  FirePinOnlyWhenArmed
  LaserPinIsItsFlag
  EngagementServesItsRun
  OrderIndexInBounds
  NoCountSurvives
  CalibrationRemembered
PROPERTIES
  ShotsFollowTheOrder
  ArmingRefined
