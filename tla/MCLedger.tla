------------------------------ MODULE MCLedger -------------------------------
EXTENDS Ledger, TLC
Symm == Permutations(Files) \cup Permutations(Turns) \cup Permutations(Reviewers)
=============================================================================
