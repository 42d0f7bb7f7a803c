\* Every pair of inputs.
CONSTANTS
  WordSize = 64
  Modulus = 16
  Fraction = 4
  Reals <- MCReals
SPECIFICATION Spec
INVARIANTS RoundTrip RefusedIfWrapped Homomorphic
