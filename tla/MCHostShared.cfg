CONSTANTS
  c1 = c1  c2 = c2  u1 = u1  hook1 = hook1  hook2 = hook2
  Commands = {c1, c2}
  Kind <- InstallAndUninstall
  HookOf <- Checkouts
  HostCount = 1
  UserHooks = {u1}
  UserTexts <- SharedTexts
  Failures = {}
  None = None
  Absent = Absent
  Blank = Blank
  Invalid = Invalid
  Nothing = Nothing
SPECIFICATION SerialSpec
PROPERTY KeepsEveryHook
CHECK_DEADLOCK FALSE
