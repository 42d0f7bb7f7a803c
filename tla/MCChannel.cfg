\* Three rounds over buffers smaller than the longest frame, with kills.
CONSTANTS
  Payloads <- MCPayloads
  HeaderMod = 4
  Capacity = 2
  MaxCalls = 3
  Killable = {0, 1}
SPECIFICATION FairSpec
INVARIANTS TypeOK Aligned
PROPERTIES Implements CallsEnd
