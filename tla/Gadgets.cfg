SPECIFICATION Spec
CONSTANTS
  KaratsubaAbove = 4
  PER_CHUNK = 2
  N_BITS = 5
  MODULUS = 23
  FQ = 23
  FR = 19
  Len0 = 5
  R_INVERSE = 18
  WideLens = {9, 10, 11}
  WideNumbers = {1, 438, 511, 877, 1023, 2047}
  InverseOfZero = 3
INVARIANTS
  BigIntExact
  FieldExact
CHECK_DEADLOCK FALSE
