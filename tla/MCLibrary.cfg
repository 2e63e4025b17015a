CONSTANTS
    Parts = {"pool", "event", "timer", "interpolation", "disk", "bits", "video"}
    Lowest = 2
    TypeSizes = {1, 3}
    BlockSize = 4
    ObjectSizes = {1, 3, 4}
    MaxObjects = 3
    HeapSize = 13
    Handlers = {1, 2}
    MaxDescriptors = 4
    Coroutines = {1, 2}
    MaxTime = 1
    MaxTimers = 3
    MaxSchedules = 2
    Lengths = {1, 2}
    MaxInterpolators = 3
    FnameChars = {"a", "b", "c"}
    MaxName = 1
    Files <- MCFiles
    DiskValues = {0, 2}
    FirstId = 100
    LastId = 102
    InterruptCycles = 1
    Sizes = {5, 8}
    BitValues <- MCBitValues
    Videos = {1, 2}
    nrows = 2
    ncols = 2
    Chars = {"a"}
    MaxLines = 4
SPECIFICATION MCSpec
INVARIANTS
    TypesOK
    ObjectsIntact
    FreeListsWhole
    PublishReachesAll
    SubscriptionsHold
    OneWakeup
    PlacesHold
    UploadsFollowFiles
    ImplementsBits
    ScreenShowsTail
PROPERTIES
    PassesAdvance
CHECK_DEADLOCK FALSE
