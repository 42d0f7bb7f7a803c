\* The parties may have loaded the same netlist and halves of the same dealer
\* run, or not, in formats of their own; all inputs encode.
CONSTANTS
  WordSize = 16
  NotFinite = NotFinite
  Formats <- MCFormats
  Literals <- MCLiterals
  Encoding <- MCEncoding
  Message <- MCMessage
  Launches <- AnswerLaunches
  Masks = {1, 6}
  Killable = {}
  Unset = Unset
  Missing = Missing
  Unencodable = Unencodable
SPECIFICATION Spec
INVARIANTS TypeOK SharesRecombine OutputsCorrect RunCost OutputsAgree Fifo Lockstep
PROPERTIES WrittenOnce
