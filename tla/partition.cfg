CONSTANTS
    NumBuckets = 3
    MaxFiles = 5
    MaxSize = 4
    Files <- SmallLists
SPECIFICATION Spec
INVARIANTS TypeOK Balanced ComputesBucketOf GrahamBound
