SPECIFICATION MCSpec
CONSTANTS
  i1 = i1
  i2 = i2
  w1 = w1
  w2 = w2
  s1 = s1
  NoId = NoId
  Ids = {i1}
  Writers = {w1}
  Searchers = {s1}
  Scenarios = {"any"}
INVARIANT SearchComplete
