\* The range that is documented.
CONSTANTS
  WordSize = 64
  Modulus = 16
  Fraction = 4
  Reals <- MCReals
SPECIFICATION Spec
INVARIANTS RangeIsExact
