----------------------------- MODULE MCChfsDisk -----------------------------
EXTENDS ChfsDisk, TLC

MCValues == DirContents \cup {FileData}
MCSizes == {BLOCK_SIZE * n : n \in 0 .. MaxEntries} \cup FileSizes

Symmetry == Permutations(Names)
=============================================================================
