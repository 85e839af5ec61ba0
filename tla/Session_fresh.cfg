\* Two runs, each of any command, and nothing collected yet; each comes to an end.
SPECIFICATION FairSpec
CONSTANTS
    Procs = {p1, p2}
    Sessions = {s1}
    Seeded = {}
    Commands = {"collect", "diagnose", "report", "pipeline"}
    Leftovers = FALSE
    MaxTries = 2
    MaxEdits = 0
    None = None
INVARIANTS TypeOK PublishedComplete HolderOwnsDirectory
    ExitTellsTheTruth NoLaterStage InterruptLeavesLog
PROPERTIES Terminates
CHECK_DEADLOCK FALSE
