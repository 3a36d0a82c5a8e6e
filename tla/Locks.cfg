SPECIFICATION LiveSpec
CONSTANTS
  HaveOLED = FALSE
INVARIANTS
  TypeOK
  NobodyIsStuck
PROPERTIES
  MessagesAreWhole
  HeartbeatsKeepComing
