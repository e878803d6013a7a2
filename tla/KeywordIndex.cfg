SPECIFICATION MCFairSpec
CONSTANTS
  i1 = i1
  i2 = i2
  w1 = w1
  w2 = w2
  s1 = s1
  NoId = NoId
  Ids = {i1, i2}
  Writers = {w1, w2}
  Searchers = {s1}
  Scenarios = {"oneId", "oneWriter"}
INVARIANT IndInv
PROPERTIES PostingSpec EventuallyDrained
