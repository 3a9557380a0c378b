CONSTANTS
    MaxRom = 2
    MaxKills = 1
SPECIFICATION Spec
INVARIANTS
    LaterStagesArePrepared
    RoleRestsOnThisBuild
PROPERTIES
    NeverAskedAgain
    BoundaryNeverMovesBack
    PreparedStageMovesOn
