\* The input ends while the server is silent.
SPECIFICATION LiveSpec
CONSTANTS
  None = None
  ana = ana
  beto = beto
  MAX_HISTORY = 3
  HelpLines = 2
  Me = ana
  Other = {beto}
  Typed <- Commands
  Sendable <- Silence
  MaxInput = 1
  MaxMessages = 1
PROPERTIES EndOfInputEnds
