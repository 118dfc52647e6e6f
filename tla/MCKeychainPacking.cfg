CONSTANTS
    k1 = k1
    k2 = k2
    k3 = k3
    k4 = k4
    k5 = k5
    Item <- MCItem
    Sizes = {1, 2, 3, 4, 6, 7}
    Escape = 0
    Frame = 0
    Capacity = 6
SPECIFICATION FairPackSpec
INVARIANTS
    Partition
    WithinCapacity
    FirstFit
PROPERTY Ends
CHECK_DEADLOCK FALSE
