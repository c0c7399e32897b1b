------------------------------ MODULE MCThrPool ------------------------------
EXTENDS ThrPool
=============================================================================
