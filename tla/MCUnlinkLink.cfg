SPECIFICATION Spec
CONSTANTS
    INODE_NUM = 3
    Names = {a, b}
    Bytes = {x}
    Zero = Zero
    MaxLen = 1
INVARIANT UnlinkRemovesLinks
