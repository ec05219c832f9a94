SPECIFICATION Spec
CONSTANTS
    Fingerprints = {f1, f2, f3, f4}
    Capacity = 2
    MaxAdds = 6
INVARIANTS
    MapMatchesList
    IsLRU
    NewIffNotRecent
CHECK_DEADLOCK FALSE
