CONSTANTS
    SpokesPerRevolution = 4
    StepsPerSpoke = 2
    MaxUsize = 1000
    GuardIds = {}
    ExclusionIds = {x1}
    Clients = {c1}
    ZoneValues <- FewZones
    Ranges = {0, 10, 20}
    SpokeLens = {8}
    ChannelCapacity = 3
    MaxSets = 2
    NoZone = NoZone
    NoMask = NoMask
SPECIFICATION Spec
INVARIANT NeverDies
CHECK_DEADLOCK FALSE
