\* A file whose chain of clusters is shorter than its size.
SPECIFICATION Spec
CONSTANTS
    None = None
    Cores = {bsp, ap}
    Bsp = bsp
    Images <- MCShort
    Unmapped <- MCUnmapped
    NonCanonical <- MCNonCanonical
    SECTOR_SIZE = 4
    DIRENT_SIZE = 2
    PageSize = 4
    MAX_SECTORS_PER_REQUEST = 2
    U64_MAX = 23
    IdxMod = 3
    Digit = 2
    FAT12_MAX_CLUSTERS = 5
    FAT12_EOC_MIN = 7
    FAT12_BAD_CLUSTER = 6
    BASE_LEN = 2
    EXT_LEN = 1
    Upper <- MCUpper
    NonAscii = {}
INVARIANTS
    CopiesFileSize
CHECK_DEADLOCK FALSE
