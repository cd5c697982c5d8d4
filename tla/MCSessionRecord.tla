--------------------------- MODULE MCSessionRecord ---------------------------
EXTENDS SessionRecord, TLC
Symm ==
  UNION {Permutations(S) : S \in {Interactive \cap LongTurns, Interactive \ LongTurns,
                                  LoopTurns \cap LongTurns, LoopTurns \ LongTurns}}
=============================================================================
