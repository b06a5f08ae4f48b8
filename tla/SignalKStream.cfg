CONSTANTS
    ChannelCapacity = 2
    Commands = {gain}
    Internals = {units}
    RangeUnits = units
    Values = {v0, v1}
    MaxCommands = 1
    Unset = Unset
    Mmsis = {m1}
    Positions = {p0, p1}
    Nothing = Nothing
    Lost = Lost
    Key = "r"
    Requests <- FewRequests
    Unseen = Unseen
SPECIFICATION FairSpec
INVARIANTS ViewIsFresh UpdatesAreAnnounced
PROPERTIES  CommandIsEchoed
