----------------------------- MODULE MCTurnLease -----------------------------
EXTENDS TurnLease, TLC
=============================================================================
