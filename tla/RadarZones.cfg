CONSTANTS
    SpokesPerRevolution = 4
    StepsPerSpoke = 2
    MaxUsize = 1000
    GuardIds = {g1}
    ExclusionIds = {x1, x2}
    Clients = {c1, c2}
    ZoneValues <- FewZones
    Ranges = {0, 10, 20}
    SpokeLens = {8, 9}
    ChannelCapacity = 1
    MaxSets = 2
    NoZone = NoZone
    NoMask = NoMask
SPECIFICATION Spec
INVARIANT ZonesAreCurrent
PROPERTY EverySpokeIsBlankedExactly
CHECK_DEADLOCK FALSE
