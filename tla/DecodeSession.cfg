SPECIFICATION Spec
CONSTANTS
  Token <- MCToken
  Target <- MCTarget
  Corrupt = Corrupt
  Draft = Draft
  NoToken = NoToken
  maximum_context = 6
  MaximumBlock = 3
  graph_verifier_batch = 2
INVARIANTS
  TypeOK
  CommittedState
  RoundIsolated
  GraphMatchesBuffers
  MtpFollowsTarget
  HiddenIsCurrent
  RoundEvaluated
PROPERTY
  ImplementsSerialDecode
  ImplementsSessionCalls
