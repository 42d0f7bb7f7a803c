\* A payload whose length wraps around in the header.
CONSTANTS
  Payloads <- LongPayloads
  HeaderMod = 4
  Capacity = 2
  MaxCalls = 1
  Killable = {}
SPECIFICATION FairSpec
PROPERTIES CallsEnd
CHECK_DEADLOCK FALSE
