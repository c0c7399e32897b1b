---------------------------- MODULE MCFuseServer ----------------------------
EXTENDS FuseServer, TLC

Symmetry == Permutations(Names)
=============================================================================
