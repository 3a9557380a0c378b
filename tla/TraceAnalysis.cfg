SPECIFICATION Spec
CONSTANTS
    Program <- MCProgram
    Operands <- MCOperands
    Worlds <- MCWorlds
    BackWindow = 3
    ResetWindow = 4
    GlyphBytes = 3
    TileBytes = 6
    MaxBlocks = 5
    MaxTrace = 40
INVARIANTS
    NoToolRefusesItself
    PopulationIsTheSlot
    LiteralResetPredictsReads
    PictureIsNoText
CHECK_DEADLOCK FALSE
