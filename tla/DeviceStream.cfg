CONSTANTS
  Token = {s, t}
  NoToken = NoToken
  maximum_context = 5
  MaximumBlock = 3
  UntiledRows = 2
  QueueBound = 5
  FailureBound = 1
  Configs <- MCConfigs
SPECIFICATION Spec
INVARIANTS GraphReadsItsRound JudgesItsRound
