SPECIFICATION LiveSpec
CONSTANTS
  Messages = {"SAFE", "PREARM_CODE", "PREARMED", "ENGAGE_AUTO", "ARMED_MANUAL", "FIRE_START", "FIRE_STOP"}
INVARIANTS
  FlagIsThePin
  SomebodyStopsThePump
PROPERTIES
  PumpComesToRest
