\* Starts and exits one at a time, kills everywhere, pids never reused.
CONSTANTS
    Proc = {a1, a2, a3}
    Pid = {p1, p2, p3, p4}
    NoPid = NoPid
    Overlap = FALSE
    PidReuse = FALSE
    Kills = TRUE
SPECIFICATION Spec
SYMMETRY Symmetry
PROPERTIES RefusedOnlyByOwner
