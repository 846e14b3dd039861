\* Two lines typed, two messages received, a history of three lines.
SPECIFICATION LiveSpec
CONSTANTS
  None = None
  ana = ana
  beto = beto
  MAX_HISTORY = 3
  HelpLines = 2
  Me = ana
  Other = {beto}
  Typed <- Commands
  Sendable <- Messages
  MaxInput = 2
  MaxMessages = 2
INVARIANTS StateOK NobodyWaitsForTheDead SentInOrder EstadoWasTold
PROPERTIES ExitEnds
