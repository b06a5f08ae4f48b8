\* One radar in merged mode that keeps turning: what is not seen is dropped.
CONSTANTS
  Positions = {0}
  MergeDistance = 0
  MaxIdOffset = 1
  LostRevs = 1
  StationaryLostRevs = 2
  DeleteRevs = 1
  StationaryDeleteRevs = 2
  AgeCap = 4
  UpdateCap = 5
  SpokesOf <- FourSpokes
  Radars = {r1}
  MergeMode = TRUE
  DefaultSpokes = 4
  BlobAngles <- EitherSideOfNorth
SPECIFICATION FairSpec
PROPERTY UnseenIsDropped
