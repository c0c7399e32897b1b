------------------------------- MODULE MCFifo -------------------------------
EXTENDS Fifo
=============================================================================
