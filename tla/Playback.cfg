CONSTANTS
    IndexInterval = 2
    dense = dense
    sparse = sparse
    Recordings = {dense, sparse}
    Takes <- DenseAndSparse
    Speeds = {100, 200}
    Positions = {0, 2}
    MaxLoads = 1
    MaxElapsed = 2
SPECIFICATION FairSpec
INVARIANTS DenseIsComplete 
PROPERTIES PlaysForward PlaybackEnds
