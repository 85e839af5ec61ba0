\* Every section but storage, one at a time, in what the PC may be like.
SPECIFICATION FairSpec
CONSTANTS
    Null = Null
    Word = 20
    Providers = {"antivirus", "firewall"}
    Details = {"antivirus_enabled", "realtime_protection", "secure_boot"}
    MaxEvents = 4
    Batch = 2
    Limit = 2
    Categories = {"services", "installed_applications"}
    Collecting = {"windows", "clock", "firmware", "memory", "windows_security", "cpu", "gpus",
                  "devices", "event_logs", "windows_updates", "runtime_environment"}
    Biases <- MCBiases
    Dates <- MCDates
    Memories <- MCMemories
    Services = {{}, {2}, {0, 2}}
    Topologies <- MCTopologies
    Features1 = {{"sse2"}, {"sse2", "avx"}}
    Cards <- MCCards
    DeviceKinds <- MCDeviceKinds
    Clocks <- MCClocks
    Timelines <- MCTimelines
    Extras <- MCExtras
    Items <- MCItems
    MaxCards = 2
    MaxDevices = 2
    MaxEntries = 5
    Mosts = {Null, 1, 3}
    Cutoffs = {1, 3}
    MaxChanges = 2
INVARIANTS
    TypeOK
    ExplainedRefusal
    SuccessIsComplete
    DiagnosisAccepted
    FaultReported
    PassIsEarned
    ShutdownsCounted
    HistoryWhole
PROPERTIES
    Ends
CHECK_DEADLOCK FALSE
