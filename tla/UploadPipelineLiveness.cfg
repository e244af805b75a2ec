SPECIFICATION FairSpec
CONSTANTS
    Workers = {w1, w2}
    Uploads = {1, 2}
    Untyped = {2}
    MaxGlobal = 2
    MaxCrashes = 1
    MaxAges = 1
    MaxUi = 1
PROPERTIES
    QueuedIsClaimed
    StartedParseEnds
