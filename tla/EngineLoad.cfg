CONSTANTS
  Word = 64
  FileAlignment = 4
  EntryBytes = 2
  Alignments = {1, 2, 4, 8, 32}
  BadNames = {"../x"}
  Files <- MCFiles
  Plans <- MCPlans
  Configs <- MCConfigs
  Totals = {40, 70}
  Reserve = 10
  Resources = {"resources/r"}
SPECIFICATION Spec
INVARIANTS TypeOK PayloadsSeparate EngineReady NoCopyAfterRelease
PROPERTIES WrittenOpens
