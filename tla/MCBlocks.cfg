SPECIFICATION Spec
CONSTANTS
    BLOCK_NUM = 12
    BLOCK_SIZE = 8
    INODE_NUM = 3
    NDIRECT = 2
    Sizes = {0, 20, 33}
    Values = {v1, v2}
    Junk = Junk
    UINT_LIMIT = 8
    ID_LIMIT = 8
    Ids = {2, 3}
    NewTypes = {"T_FILE"}
SYMMETRY Symmetry
CHECK_DEADLOCK FALSE
INVARIANTS TypeOK PointersInUse NoSharing ReadInBounds
PROPERTIES LeakOnlyByRemove LossOnlyWhenFull StoreSpec
