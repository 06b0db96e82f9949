CONSTANTS
    WordBits = 3
    MaxSegments = 2
    PageSize = 2
    HugePageSize = 4
    heap = heap
    a = a
    f_rw = f_rw
    Names <- MCNames
    Files <- MCFiles
    Basename <- MCBasename
    FileKind <- MCFileKind
    FileAccess <- MCFileAccess
    MapsLines <- MCMapsLines
    MapsName <- MCMapsName
    lib_text = lib_text
    Shares = {"MAP_SHARED"}
    ShareWords <- MCShareWords
    AnonLengths <- MCAnonLengths
    AnonAddrs <- MCAnonAddrs
    ShmLengths <- MCShmLengths
    FileRanges <- MCFileRanges
    FileSizes <- MCFileSizes
    LongSize = 1
    TouchRanges <- MCTouchRanges
    NoSlot = NoSlot
    NoName = NoName
    NoRange = NoRange
    NoGeom = NoGeom
    PolicyNames <- MCUnknownPolicyNames
    NodeArgs <- MCNoNodeArgs
    NoCall = NoCall
    NumaMaxNode = 1
    NodeLists <- MCNodeLists

SPECIFICATION OpsSpec

VIEW OpsView

CHECK_DEADLOCK FALSE

PROPERTIES
    BindPolicyValidated
