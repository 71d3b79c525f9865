CONSTANTS
    ItemCounts = {0, 1, 2, 4}
    MaxLefts = 4
SPECIFICATION FairSpec
CHECK_DEADLOCK FALSE
INVARIANT TypeOK
INVARIANT ItemOnDisplay
INVARIANT AllSeenBeforeAccept
INVARIANT WithinItems
PROPERTY ReachesEnd
