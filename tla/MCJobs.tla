------------------------------- MODULE MCJobs -------------------------------
EXTENDS Jobs, TLC
Symm == Permutations(Jobs) \cup Permutations(Requests)
=============================================================================
