\* Each gadget by itself, over a ring of three bits; and the key stream.
CONSTANTS
  WordSize = 8
  Modulus = 8
  Draws <- MCDraws
  Factors <- MCFactors
  Products = 2
  Dim = 3
  Pads <- MCPads
  ByteBits = 2
  Checked = TRUE
  Widths = {1, 2, 3}
  Masks <- MCMasks
  Orders = {2, 8}
  Halves = {0, 1, 3}
  Shares = {0, 5}
  Block = 4
  Wide = 4
  Long = 2
  WordLen = 2
  Pieces = {1, 2, 4, 7, 9}
  Lengths = {0, 1, 5}
  MaxKeys = 2
  MaxCalls = 4
  Debugged = TRUE
SPECIFICATION Spec
INVARIANTS TypeOK ProductsRecombine ConjunctionsRecombine RowsSelect AnswerIsContainment ConditionalAnswer Delivered
