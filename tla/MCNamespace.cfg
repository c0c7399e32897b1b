SPECIFICATION Spec
CONSTANTS
    INODE_NUM = 3
    Names = {a, b}
    Bytes = {x}
    Zero = Zero
    MaxLen = 3
SYMMETRY Symmetry
INVARIANTS TypeOK LinkedOnce NamesUnique Connected WriteIsOverlay
PROPERTIES EntriesPersist WritesReachFiles
