SPECIFICATION Spec
CONSTANTS
  r1 = r1  t1 = t1  t2 = t2  o1 = o1
  MaxCalls = 3
  MaxFaults = 1
  Runs = {r1}
  Tasks = {t1, t2}
  Operations = {o1}
  Reports <- MCReports
  MaxEntries = 3
  None = None
INVARIANTS TypeOK EveryEntryHasItsMetric OneTaskPerRun AcknowledgedIsRecorded LedgerIsReplay
PROPERTIES CallsEnd
CHECK_DEADLOCK FALSE
