SPECIFICATION MemoriesSpec
CONSTANTS
    People = {ann, bea, cal}
    Loading = Loading
    NoUser = NoUser
    MaxPosts = 1
    MaxArrivals = 2
INVARIANT OnlyYouTwo
CHECK_DEADLOCK FALSE
