SPECIFICATION Spec
CONSTANTS
    \* Memories
    People = {ann, bea, cal}
    Loading = Loading
    NoUser = NoUser
    MaxPosts = 2
    MaxArrivals = 3
    \* DinnerPicker
    Places = {manpuku, me, diner}
    Manpuku = manpuku
    Me = me
    Undecided = Undecided
    MaxChoices = 4
    MaxRemovals = 3
    \* MergedIterator
    IterKeys = {1, 2, 3}
    NumChildren = 2
    LastWritten = 3
    MaxLive = 1
    Nowhere = Nowhere
    \* SkipList
    MaxKey = 3
    MaxHeight = 3
    SkipReaders = {r1}
    MaxReads = 1
    \* LRUCache
    Handles = {h1, h2, h3, h4}
    CacheKeys = {k1, k2}
    Capacities = {3}
    Charges = {1, 2}
    NoHandle = NoHandle
    NoEntry = NoEntry
    MaxPins = 2
    \* LogFormat
    BlockSize = 7
    HeaderSize = 3
    MaxRecords = 3
    MaxLength = 10
    \* TableFormat
    UserKeys <- BytesOfKeys
    MaxByte = 4
    TableSeqs = {1, 2}
    MaxTag = 3
    ValueSizes = {0, 60}
    RestartInterval = 2
    BlockLimit = 20
    FilterBase = 32
    MaxAdded = 4
    NoIter = NoIter
INVARIANTS
    PostsKept
    OnlyRemovalsConfuse
    FollowsSnapshot
    ReadersMissNothing
    LevelsNest
    HandlesPinned
    UsageAddsUp
    TornTailIgnored
    TableWalked
    TableFinds
CHECK_DEADLOCK FALSE
