--------------------------- MODULE MCExtentServer ---------------------------
EXTENDS ExtentServer, TLC

Symmetry == Permutations(Values)
=============================================================================
