------------------------------- MODULE MCLoops -------------------------------
EXTENDS Loops, TLC
=============================================================================
