SPECIFICATION FairCacheSpec
CONSTANTS
  Writer = {w1, w2}
  Reader = {q1, q2}
INVARIANTS CurrentIsFresh ReadsAreFresh
PROPERTIES StalenessEnds
