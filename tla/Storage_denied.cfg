SPECIFICATION Spec
CONSTANTS
    Numbers = {0, 1}
    Devices = {a, b}
    Traits = {{}, {"locked"}}
    MaxFaults = 0
    MaxChanges = 0
    Null = Null
INVARIANT DeniedDiskIsKept
CHECK_DEADLOCK FALSE
