CONSTANTS
  Builds = {b1, b2}
  Count = 3
  Sizes = {1, 2}
  ContentBudgets = {2}
  FallbackLimits = {0, 1}
  PageLimits = {1, 2}
  MaxRankings = 1
  None = None
SPECIFICATION Spec
INVARIANTS TypeOK EachCandidateOnce EvidenceBeforePack
SYMMETRY Symmetry
CHECK_DEADLOCK FALSE
