SPECIFICATION Spec
CONSTANTS
  Requests <- Plain
  Digits = {0, 1}
  NonDigit = NonDigit
  Orders <- OneOrder
  MaxOrder = 2
  CorrectionBound = 0
  SpuriousBound = 0
INVARIANTS
  FiringNotPermittedUnarmed
