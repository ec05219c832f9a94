SPECIFICATION Spec
CONSTANTS
    ServiceNameKey <- ServiceNameText
    TwoTo63 = 4
    Requests <- SmallRequests
    AttributeLists <- FlatLists
INVARIANTS
    PointsFollowRequest
    FingerprintIdentifiesSeries
    SeriesListedOnce
    DuplicatesAreInterchangeable
CHECK_DEADLOCK FALSE
