\* The same in a build that does not check for overflow, as a release build is.
CONSTANTS
  NumberOf <- MCNumberOf
  RealOf <- MCRealOf
  SizeRange = 256
  Checked = FALSE
  EnvFiles <- MCEnvFiles
  Environments <- MCEnvironments
  CircuitFiles <- MCCircuitFiles
  InputFiles <- MCInputFiles
  NoCircuit = "malformed"
  Triples <- MCTriples
  InputOwners <- MCInputOwners
  Retries = 2
  MaxDeals = 2
  MaxEdits = 1
SPECIFICATION Spec
INVARIANTS WidthsAddUp
