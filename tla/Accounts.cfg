SPECIFICATION Spec
CONSTANTS
  Names = {"ann", "bob"}
  Passwords = {"one", "two"}
  MaxRows = 3
  MaxOpen = 3
INVARIANTS
  EndsOnlyNamelessOrDisturbed
  ConnectionsReturned
PROPERTIES
  ChangeIsAllOrNothing
  ExpiredStaysOut
