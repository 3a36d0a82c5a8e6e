SPECIFICATION LiveSpec
CONSTANTS
  Requests <- Plain
  Digits = {0, 1}
  NonDigit = NonDigit
  Orders <- LiveOrders
  MaxOrder = 2
  CorrectionBound = 0
  SpuriousBound = 2
PROPERTIES
  SafeSettles
  RunEnds
