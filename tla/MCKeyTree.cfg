\* All three kinds over a ring of two bits, in a build without checks.
CONSTANTS
  Modulus = 4
  SeedBits = {1, 2}
  Prgs <- MCPrgs
  Depth = 3
  Kinds = {"dpf", "dcf", "idpf"}
  Values = {1, 2}
  Checked = FALSE
SPECIFICATION Spec
INVARIANTS TypeOK PathsDiverge SumsFollow OutputsRecombine
