\* Bad inputs, constants and gates; either party may be killed.
CONSTANTS
  WordSize = 16
  NotFinite = NotFinite
  Formats <- MCFormats
  Literals <- MCLiterals
  Encoding <- MCEncoding
  Message <- MCMessage
  Launches <- FaultLaunches
  Masks = {5}
  Killable = {0, 1}
  Unset = Unset
  Missing = Missing
  Unencodable = Unencodable
SPECIFICATION FairSpec
INVARIANTS NoHalfAnswer FailuresHaveACause ReadsFollowWrites UnsupportedStopsBoth
PROPERTIES BothEnd BothSucceed
