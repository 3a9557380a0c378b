\* Kills, stages that outlive the autopilot, a failing network and time limits; a
\* person edits, commits, pulls and pushes while the script sleeps or is down.
CONSTANTS
    MaxSource = 2
    MaxBundle = 2
    MaxEdit = 1
    PersonAt = {"sleep", "down"}
    Liberties = {"kill", "orphan", "abortFails", "stale", "offline", "timeout", "force"}
    Clashing <- MCClashing
    NoHead = NoHead
SPECIFICATION Spec
INVARIANTS ProcessedWasRun OffMainIsInert
PROPERTIES KeepsLedger NoFeedback NothingLost OnlyBundlesPushed UnsafeTreeUntouched
