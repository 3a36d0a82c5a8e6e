CHECK_DEADLOCK FALSE
SPECIFICATION LiveSpec
CONSTANTS
  ControlC = TRUE
  Pins = {"pump"}
PROPERTIES
  CleanUpEnds
