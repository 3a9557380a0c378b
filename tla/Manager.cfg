\* A person's commands and a boot launcher beside the autopilots they start.
CONSTANTS
    Proc = {a1, a2}
    Pid = {p1, p2, p3}
    NoPid = NoPid
    Overlap = TRUE
    PidReuse = FALSE
    Kills = TRUE
    MaxCommands = 2
SPECIFICATION ManagerSpec
INVARIANTS OneAutopilot StageEndsWithAutopilot WakeLockHeld NoLockLeft
PROPERTIES StopEndsAutopilot
CHECK_DEADLOCK FALSE
