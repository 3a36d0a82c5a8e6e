SPECIFICATION LiveSpec
CONSTANTS
  Limit = 2
  MaxAngle = 3
  Places <- SomePlaces
  Commands <- SomeCommands
INVARIANTS
  AgreeAtRest
  PulseFollowsTheAngle
PROPERTIES
  AimedWhenEngaged
  SkipsAreDeserved
  AimSettles
