\* Two equal adapters, one of them unplugged while they are listed.
SPECIFICATION Spec
CONSTANTS
    Null = Null
    Word = 20
    Providers = {"antivirus", "firewall"}
    Details = {"antivirus_enabled", "realtime_protection", "secure_boot"}
    MaxEvents = 4
    Batch = 2
    Limit = 2
    Categories = {"services", "installed_applications"}
    Collecting = {"gpus"}
    Biases <- MCBiases
    Dates <- MCDates
    Memories <- MCMemories
    Services = {{}, {2}, {0, 2}}
    Topologies <- MCTopologies
    Features1 = {{"sse2"}, {"sse2", "avx"}}
    Cards <- MCCards
    DeviceKinds <- MCDeviceKinds
    Clocks <- MCClocks
    Timelines <- MCTimelines
    Extras <- MCExtras
    Items <- MCItems
    MaxCards = 2
    MaxDevices = 2
    MaxEntries = 5
    Mosts = {Null, 1, 3}
    Cutoffs = {1, 3}
    MaxChanges = 2
INVARIANTS
    TwinsReachTheRule
CHECK_DEADLOCK FALSE
