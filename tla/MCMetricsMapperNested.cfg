SPECIFICATION Spec
CONSTANTS
    ServiceNameKey <- ServiceNameText
    TwoTo63 = 4
    Requests <- SmallRequests
    AttributeLists <- NestedLists
INVARIANTS
    OrderIndependent
CHECK_DEADLOCK FALSE
