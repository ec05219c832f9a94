SPECIFICATION Spec
CONSTANTS
    Handlers = {h1, h2}
INVARIANTS
    StoreOutlivesIngester
    NothingLeaks
    ErrorsAreReported
    TelemetryIsExported
CHECK_DEADLOCK FALSE
