CONSTANTS
  Runs = {r1, r2}
SPECIFICATION FairSpec
INVARIANTS TypeOK OnlyWholeIndexes RecordsComeInOrder ContextIsRecorded
PROPERTY RunsAnswer
CHECK_DEADLOCK FALSE
