SPECIFICATION Spec
CONSTANTS
  a = a  b = b  link = link
  old = old  new = new  binary = binary
  Directories <- MCDirectories
  Links = {link}
  Contents = {old, new, binary}
  Initially = {new}
  SizeOf <- MCSizeOf
  Binaries = {binary}
  Options <- MCOptions
  Concurrency = 2
  MaxEdits = 1
  MaxSessions = 2
  None = None
INVARIANTS TypeOK WithinLimits WarmIsCold AnalysisOfHash
PROPERTIES SessionsEnd
CHECK_DEADLOCK FALSE
