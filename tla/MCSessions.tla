----------------------------- MODULE MCSessions -----------------------------
EXTENDS Sessions, TLC

CONSTANTS s1, s2

\* The name of the file of s2 begins with the id s1.
OneExtends == {<<s1, s2>>}
Symm == Permutations(Chats)
=============================================================================
