SPECIFICATION Spec
CONSTANTS
    c1 = c1  c2 = c2  c3 = c3  c4 = c4
    p1 = p1  p2 = p2  p3 = p3  p4 = p4
    f1 = f1  f2 = f2  f3 = f3
    Points = {p3, p4}
    Fingerprints = {f1, f3}
    PointsOf <- CallsPointsOf
    MetadataOf <- CallsMetadataOf
    SeriesOf <- PointsSeriesOf
    Config <- MCConfig
    Calls = {c2, c3}
    Flushers = {w1}
    Closers = {k1}
    MaxBatchPoints = 2
    QueueCapacity = 1
    DedupCacheSize = 1
    CallersJoined = TRUE
    MaxCrashes = 0
CHECK_DEADLOCK FALSE
INVARIANT
    FlushCoversAcked
