CONSTANTS
  KTiles = 2
  TileRows = 2
  Word = 65536
  MaxHeader = 1000
  Shape <- MCShape
  Vision = {"visual"}
  UnsafeShards = {"../a"}
  Disks <- MCDisks
  Replacements <- MCReplacements
  Options <- MCOptions
  LayerCount = 2
  MlpLayer <- MCMlpLayer
  ModelNames <- MCModelNames
  DraftRows = 4
  Tokens = 6
  Specials <- MCSpecials
  Resources <- MCResources
  MaxChunk = 4
  NoRanking = NoRanking
SPECIFICATION Spec
INVARIANTS InstalledReadable DraftRowsBest InstalledFinite ValidSourceConverts
CHECK_DEADLOCK FALSE
