SPECIFICATION FairSpec
CONSTANTS
  Token <- MCToken
  Target <- MCTarget
  maximum_context = 6
  MaximumBlock = 4
  Requests <- MCRequests
  Drafts = {0, 1, 3}
  Terminal <- MCTerminal
  Piece <- MCPiece
  NoToken = NoToken
INVARIANTS
  NoCallRefused
  CallerKeepsPromise
  AnswerIsSerial
  StreamedText
  ReplyWellFormed
PROPERTY
  RequestEnds
