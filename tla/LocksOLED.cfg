CHECK_DEADLOCK FALSE
SPECIFICATION LiveSpec
CONSTANTS
  HaveOLED = TRUE
PROPERTIES
  HeartbeatsKeepComing
