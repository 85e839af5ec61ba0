SPECIFICATION Spec
CONSTANTS
    Numbers = {0, 1}
    Devices = {a, b}
    Traits = {{}, {"nvme"}}
    MaxFaults = 2
    MaxChanges = 0
    Null = Null
INVARIANT AbsentMeansAbsent
CHECK_DEADLOCK FALSE
