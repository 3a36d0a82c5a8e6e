CHECK_DEADLOCK FALSE
SPECIFICATION LiveSpec
CONSTANTS
  ControlC = TRUE
  Pins = {"pump"}
INVARIANTS
  OffAfterCleanUp
  OwnersAreAtWork
PROPERTIES
  LossIsNoticed
  EndsUnlessTrapped
