SPECIFICATION Spec
CONSTANTS
  BankSize = 20
  MappedBank = 0
  Addressable = 7
  MaxRecords = 20
  Image <- MCImage
  AnchorSelector = 1
  AnchorOrdinal = 1
  AnchorText = "anchor"
  Narration = "none"
  MinEntries = 3
  MaxRejected = 3
  MaxPresses = 3
  EntryGoal = 3
  FuzzyKnown <- MCFuzzyKnown
  ExactStatus <- MCExactStatus
  Ink <- MCInk
  ReviewedCards <- MCReviewedCards
  ReviewedShapes <- MCReviewedShapes
  MaxIpsOffset = 100
  IpsEofOffset = 99
  MaxIpsRecord = 10
  Encoded <- MCEncoded
  TileOf <- MCTileOf
  Decodable <- MCDecodable
  FontAt = 22
  Corpora <- MCCorpora
  Sources <- MCSources
  Plays <- MCPlays
  Visibles <- MCVisibles
  TestRoms = {1, 2}
  MaxKills = 1
  MaxChanges = 1
INVARIANTS EncodedForTheBatchRead
