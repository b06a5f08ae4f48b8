CONSTANTS
    Positions = {0, 1, 2}
    MergeDistance = 1
    MaxIdOffset = 9
    LostRevs = 3
    StationaryLostRevs = 10
    DeleteRevs = 4
    StationaryDeleteRevs = 10
    AgeCap = 20
    UpdateCap = 5
    TargetIds = {1, 2, 3, 4}
    Updates = {1, 2, 4}
    SpokesPerRevolution = 10
    StepsPerSpoke = 3
    MaxUsize = 1000
    IndexInterval = 2
    MaxFrames = 6
    MaxTime = 4
    SweepLen = 2
    SpokeLen = 3
    RepeatDefault = 2
    Formats = {"imo0", "imo1", "imo2", "imo3", "tile", "quantum", "rd", "navico", "hd"}
    MaxSweeps = 2
    MaxDatagrams = 3
    HeadingRadars = {"navico", "emulator", "furuno", "garmin", "hd", "quantum"}
    Courses = {170, 463}
    Grain = 500
    ControlKinds = {"power"}
    SpokeCells = 3
    MaxSpokeLen = 4
    Margin = 3
    HistoryColors = 3
    RelativeSize = 16
    TrueSize = 10
    Revolutions = {0, 3, 4}
    Scales = {1, 2}
    Places = {4, 9}
    MaxSpokes = 3
    Dials = {"hd"}
SPECIFICATION Spec
INVARIANT LabelIsItsNumber
CHECK_DEADLOCK FALSE
