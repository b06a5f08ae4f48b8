CONSTANTS
    SpokesPerRevolution = 5
    SpokeLen = 3
    MinPixels = 2
    MaxBlobs = 2
    MaxCount = 3
SPECIFICATION Spec
INVARIANTS IndexIsExact BlobsAreApart BlobsAreConnected 
CHECK_DEADLOCK FALSE
