SPECIFICATION Spec
CONSTANTS
  s1 = s1
  s2 = s2
  s3 = s3
  w1 = w1
  w2 = w2
  Worker = {w1, w2}
  Mortal = {w2}
  Slot = {s1, s2, s3}
  Host <- TwoAndOne
  Async = TRUE
  Priced = FALSE
  MaxAttempts = 2
  MaxTrouble = 1
SYMMETRY Alike
INVARIANTS
  OneHolder
  DistinctAttempts
PROPERTIES
  TaskIsNotResubmitted
  LifeSpec
