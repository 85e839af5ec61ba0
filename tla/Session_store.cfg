\* The processes implement the store: one session collected, one being
\* collected, the user damaging, removing and copying artifacts.
SPECIFICATION Spec
CONSTANTS
    Procs = {p1, p2}
    Sessions = {s1, s2}
    Seeded = {s1}
    Commands = {"pipeline", "report"}
    Leftovers = FALSE
    MaxTries = 1
    MaxEdits = 1
    None = None
SYMMETRY ProcSymmetry
INVARIANTS PublishedComplete ReportLineage PipelineReportsItsCollection
PROPERTIES ImplementsStore PublishedImmutable
CHECK_DEADLOCK FALSE
