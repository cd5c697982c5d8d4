----------------------------- MODULE MCAgentRun -----------------------------
EXTENDS AgentRun, TLC
Symm == Permutations(Runs)
=============================================================================
