CONSTANTS
    Addresses = {a1, a2}
    MaxChanges = 2
    MaxAsked = 2
    Others = {v1}
    MaxFixes = 2
    None = None
    Keys = {k1}
    GuardIds = {guard}
    ExclusionIds = {exclusion}
    ListIds = {arpa}
    DopplerIds = {doppler}
    MaxUpdates = 2
    MaxRequests = 3
    MaxFaults = 2
    Absent = Absent
    Torn = Torn
    Names = {n1, n2}
    MaxFiles = 2
    MaxFrames = 1
    Uploaders = {u1, u2}
    MayCrash = TRUE
SPECIFICATION FairSpec
INVARIANTS  PositionIsOurs SettingsSurvive 
PROPERTIES NavReconnects SessionEnds 
CHECK_DEADLOCK FALSE
