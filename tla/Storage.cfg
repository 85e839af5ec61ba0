SPECIFICATION Spec
CONSTANTS
    Numbers = {0, 1}
    Devices = {a, b}
    Traits = {{"mbr", "quota"}, {"nvme", "failing"}, {"nvme", "spent", "hidden"}, {"locked"},
              {"large", "full", "failing"}, {"bridge", "empty"}}
    MaxFaults = 1
    MaxChanges = 2
    Null = Null
SYMMETRY Symmetry
INVARIANTS
    TypeOK
    ExplainedRefusal
    SuccessIsComplete
    DiagnosisAccepted
    FaultReported
    PassIsEarned
CHECK_DEADLOCK FALSE
