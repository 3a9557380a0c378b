\* The real table; any two faults.
CONSTANTS
    Rules <- AllRules
    Base <- BaseArtifacts
    Pairs <- IdentityPairs
    Receipt <- Receipts
    MaxFaults = 2
SPECIFICATION BundleSpec
INVARIANTS PassIsEnough OnTwoGroundsOnly
CHECK_DEADLOCK FALSE
