SPECIFICATION StoreSpec
CONSTANTS
    c1 = c1  c2 = c2  c3 = c3  c4 = c4
    p1 = p1  p2 = p2  p3 = p3  p4 = p4
    f1 = f1  f2 = f2  f3 = f3
    m1 = m1  m2 = m2
    Points = {p1, p2, p3}
    Fingerprints = {f1, f2}
    PointsOf <- CallsPointsOf
    MetadataOf <- CallsMetadataOf
    SeriesOf <- PointsSeriesOf
    Config <- MCConfig
    Calls = {c1, c2}
    Flushers = {}
    Closers = {}
    MaxBatchPoints = 2
    QueueCapacity = 1
    DedupCacheSize = 1
    CallersJoined = TRUE
    MaxCrashes = 1
    Readers = {r1, r2}
    Metrics = {m1, m2}
    MetricOf <- SeriesMetricOf
    TimeOf <- PointsTimeOf
    QueryOf <- ReadersQueryOf
CHECK_DEADLOCK FALSE
INVARIANTS
    ReadIsComplete
    ReadAgreesWithView
PROPERTIES
    ViewKeepsPoints
