SPECIFICATION ScriptSpec
CONSTANTS
  Texts <- KnownTexts
  Problems <- TwoFiles
  Secrets <- Sought
  f = f
  g = g
  Proto = Proto
  LAST = 2
  ChunkLength = 2
  MaxPrefix = 2
  Browsers = {b1, b2}
  None = None
INVARIANTS
  Types
  Padded
  DigestIsKnown
  GroupsAreOfTheTexts
  IndexIsExact
  NoWordLeftOut
PROPERTIES
  SharesTheWords
  SecretIsFound
CHECK_DEADLOCK FALSE
