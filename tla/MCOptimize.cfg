SPECIFICATION Spec
CONSTANTS
  a = a  aTest = aTest  b = b  doc = doc  gen = gen
  Order <- MCOrder
  Kind <- MCKind
  Directory <- MCDirectory
  Stem <- MCStem
  Package <- MCPackage
  PathWords <- MCPathWords
  Content <- MCContent
  Idf <- MCIdf
  Initially <- MCInitially
  Versions <- MCVersions
  Requests <- MCRequests
  Tasks <- MCTasks
  Secrets = {"AKIAKEY"}
  ContentBudget = 2500
  MaxSessions = 3
  MaxEdits = 2
  None = None
INVARIANTS TypeOK AssessmentIsCold PackIsCurrent SummaryOfItsHash NamedFilesAreServed PackIsWhole SkipIsRight
CHECK_DEADLOCK FALSE
