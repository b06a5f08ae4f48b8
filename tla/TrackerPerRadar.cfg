CONSTANTS
  Positions = {0}
  MergeDistance = 0
  MaxIdOffset = 2
  LostRevs = 1
  StationaryLostRevs = 2
  DeleteRevs = 1
  StationaryDeleteRevs = 2
  AgeCap = 4
  UpdateCap = 5
  Radars = {"r1"}
  MergeMode = FALSE
  SpokesOf <- FourSpokes
  DefaultSpokes = 4
  BlobAngles <- EitherSideOfNorth
SPECIFICATION Spec
INVARIANTS StatusMatchesHistory ClientsFollow
PROPERTY ConfirmedOutlivesMerges
