SPECIFICATION Spec
CONSTANTS
    SortedSizes = {1, 4, 5}
    ShuffledSizes = {1, 5, 7}
    Times = {1, 2}
    Models = {linear, forest}
    NoSpace = {linear}
    Scores = {0, 1}
    MaxPasses = 1
    None = None
    NaN = NaN
INVARIANTS
    TypeOK
    NothingFromTheFuture
    HoldoutIsKept
    TunedIsNoWorse
CHECK_DEADLOCK FALSE
