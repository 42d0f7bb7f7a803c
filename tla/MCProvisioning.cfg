\* Two runs of the dealer, one edit, in a build that checks for overflow.
CONSTANTS
  NumberOf <- MCNumberOf
  RealOf <- MCRealOf
  SizeRange = 256
  Checked = TRUE
  EnvFiles <- MCEnvFiles
  Environments <- MCEnvironments
  CircuitFiles <- MCCircuitFiles
  InputFiles <- MCInputFiles
  NoCircuit = "malformed"
  Triples <- MCTriples
  InputOwners <- MCInputOwners
  Retries = 2
  MaxDeals = 2
  MaxEdits = 1
SPECIFICATION FairSpec
INVARIANTS TypeOK OneDealIsSafe HalvesFit WidthsAreUsable
PROPERTIES LinkEnds
