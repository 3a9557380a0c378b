SPECIFICATION Spec
CONSTANTS
    End = 9
    ByteBits = 4
    MaxSymbols = 16
    Glyphs = {2, 3, 4}
    Select = 8
    Pages = {0, 1, 16, 17, 33}
    MaxControls = 2
    Hangul = {11, 12}
    Space = 10
    Comma = 14
    Bang = 13
    MaxTokens = 8
    ExtraSymbols = 0
    ProvenPage = 16
    Limits = {12, 20}
    Vectors <- MCVectors
    Scenes <- MCScenes
    Captures <- MCCaptures
CHECK_DEADLOCK FALSE
INVARIANTS RenderedAsReviewed OldTextIsNotRead BoundedSearchIsComplete EntriesReadBack
