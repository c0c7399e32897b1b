SPECIFICATION DiskSpec
CONSTANTS
    BLOCK_NUM = 11
    BLOCK_SIZE = 4
    INODE_NUM = 3
    NDIRECT = 1
    Sizes <- MCSizes
    Values <- MCValues
    Junk = Junk
    UINT_LIMIT = 7
    ID_LIMIT = 16
    Ids = {}
    NewTypes = {"T_FILE", "T_DIR"}
    Names = {a, b, c}
    Bytes = {x}
    Zero = Zero
    FileData = FileData
    FileSizes = {8}
    StaleInums = {2}
    Parents = {1}
    MaxEntries = 3
SYMMETRY Symmetry
CHECK_DEADLOCK FALSE
INVARIANT PickedInoIsAFile
