SPECIFICATION Spec
CONSTANTS
  Token <- MCToken
  Target <- MCTarget
  Corrupt = Corrupt
  Draft = Draft
  NoToken = NoToken
  maximum_context = 4
  MaximumBlock = 3
  graph_verifier_batch = 2
INVARIANT
  ErrorsRollBack
