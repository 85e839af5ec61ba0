\* docs/common-manifest.md: a failed stage leaves a log in .incomplete.
SPECIFICATION Spec
CONSTANTS
    Procs = {p1}
    Sessions = {s1}
    Seeded = {s1}
    Commands = {"diagnose"}
    Leftovers = FALSE
    MaxTries = 1
    MaxEdits = 0
    None = None
INVARIANTS FailureLeavesLog
CHECK_DEADLOCK FALSE
