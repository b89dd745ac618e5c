SPECIFICATION FairSpec
CONSTANTS
  Accepters = {a1, a2}
  Reviewers = {r1}
  Sizes = {1, 6}
  MaxBytes = 4
  Nobody = nobody
INVARIANTS PublishedIsWhole OneWriter ResultIsTrue NothingLeftBehind
PROPERTIES NeverReplaced LocksAreReleased
CHECK_DEADLOCK FALSE
