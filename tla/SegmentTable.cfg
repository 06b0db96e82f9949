CONSTANTS
    WordBits = 3
    MaxSegments = 3
    PageSize = 2
    HugePageSize = 4
    heap = heap
    a = a
    b = b
    f_rw = f_rw
    f_wo = f_wo
    f_missing = f_missing
    f_dir = f_dir
    Names <- MCNames
    Files <- MCFiles
    Basename <- MCBasename
    FileKind <- MCFileKind
    FileAccess <- MCFileAccess
    MapsLines <- MCMapsLines
    MapsName <- MCMapsName
    lib_text = lib_text
    Shares = {"MAP_SHARED"}
    ShareWords <- MCShareWords
    AnonLengths <- MCAnonLengths
    AnonAddrs <- MCAnonAddrs
    ShmLengths <- MCShmLengths
    FileRanges <- MCFileRanges
    FileSizes <- MCFileSizes
    NoSlot = NoSlot
    NoName = NoName
    NoRange = NoRange
    NoGeom = NoGeom

SPECIFICATION Spec

VIEW TableView

INVARIANTS
    TypeOK
    NamesUnique
    AvailIsFree
    HandlesAccounted
    MapsTableMirrorsFile

PROPERTIES
    FailedRegisterKeepsTable
    RemapKeepsGeometry
    TableRefinesRegistry
