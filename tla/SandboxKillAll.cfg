CONSTANTS
  Ids = {"s1", "s2", "s3"}
  Matching = {"s1", "s2", "s3"}
  Limit = 2
  Changes = 1
SPECIFICATION Spec
CHECK_DEADLOCK FALSE
INVARIANT AllMeansAll
