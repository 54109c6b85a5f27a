CONSTANTS
  Bytes = 6
  Direct = {1, 2, 5}
  Class <- MCClass
  Compose <- MCCompose
  VocabularySize = 16
  Jsons <- MCJsons
  Texts <- MCTexts
SPECIFICATION Spec
INVARIANTS EncodesAsReference DecodeInverts
PROPERTIES EncodeAdvances
CHECK_DEADLOCK FALSE
