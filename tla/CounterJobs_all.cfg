SPECIFICATION JobsFairSpec
CONSTANTS
  Workers = {w1, w2}
  Counter = 1
  Rounds = 4
  Lines <- MCLines
INVARIANTS FileHoldsTheLines CountIsFresh 
PROPERTIES EveryJobEnds
