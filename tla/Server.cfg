CONSTANTS
  Clients = {c1, c2}
  Requests <- MCRequests
  Scripts <- MCScripts
  Options <- MCOptions
  Signals = {SIGINT, SIGTERM}
  MaxSignals = 2
  MaximumContext = 3
  DefaultTokens = 2
  HeaderChunk = 2
  MaximumHeader = 3
  BodyChunk = 1
  MaximumBody = 2
  Backlog = 1
  None = None
SPECIFICATION FairSpec
INVARIANTS TypeOK AnswerIsOfRequest GoodRequestNotReset
PROPERTIES SignalEnds ConnectionServed
