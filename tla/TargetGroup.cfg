SPECIFICATION Spec
CONSTANTS
  End = 9
  ByteBits = 4
  MaxSymbols = 12
  BankSize = 20
  MappedBank = 0
  Addressable = 3
  MaxRecords = 20
  PageSelect = 5
  OperandBase = 2
  OperandRange = 2
  FontPages = 3
  GlyphSymbols = {2, 3, 4}
  Tile <- MCTile
  Hangul <- MCHangul
  Others <- MCOthers
  Canonical <- MCCanonical
  MaxDistance = 2
  MinMargin = 2
  NoSecond = 64
  Trees <- MCTrees
  Images <- MCImages
  MaxCaptures = 2
  DrawContexts = {9}
  MaxKills = 1
INVARIANTS AlignedRecordsAreDisjoint FilesOfAStageAgree DecodeIsCurrent
