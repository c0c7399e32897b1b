SPECIFICATION Spec
CONSTANTS
    BLOCK_NUM = 10
    BLOCK_SIZE = 4
    INODE_NUM = 3
    NDIRECT = 1
    Sizes = {4, 8}
    Values = {v1}
    Junk = Junk
    UINT_LIMIT = 8
    ID_LIMIT = 8
    Ids = {2, 3}
    NewTypes = {"T_FILE"}
CHECK_DEADLOCK FALSE
INVARIANT AssertionHolds
