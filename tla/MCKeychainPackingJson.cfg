CONSTANTS
    k1 = k1
    k2 = k2
    k3 = k3
    k4 = k4
    k5 = k5
    Item <- MCItem
    Sizes = {1, 2, 3, 4, 6, 7}
    Escape = 1
    Frame = 1
    Capacity = 6
SPECIFICATION FairPackSpec
INVARIANT NoBatchExceedsMaxBatchSize
CHECK_DEADLOCK FALSE
