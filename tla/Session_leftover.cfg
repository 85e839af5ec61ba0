\* docs/cli-command.md: an .incomplete session is not treated as finished.
SPECIFICATION Spec
CONSTANTS
    Procs = {p1, p2}
    Sessions = {s1}
    Seeded = {}
    Commands = {"collect", "diagnose"}
    Leftovers = TRUE
    MaxTries = 1
    MaxEdits = 0
    None = None
INVARIANTS LeftoverIsNoInput
CHECK_DEADLOCK FALSE
