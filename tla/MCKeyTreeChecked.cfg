\* The same keys in a build that checks arithmetic.
CONSTANTS
  Modulus = 4
  SeedBits = {1, 2}
  Prgs <- MCPrgs
  Depth = 2
  Kinds = {"dpf", "dcf", "idpf"}
  Values = {1, 2}
  Checked = TRUE
SPECIFICATION Spec
INVARIANTS KeysReturn
