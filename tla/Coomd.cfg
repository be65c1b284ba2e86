SPECIFICATION Spec
CONSTANTS
  None = None
  Self = 2
  Users = {3, 4}
  Names = {"app", "sshd"}
  Rss <- MCRss
  BootRss = {1}
  R2_TMP_MAX = 3
  MAX_CANDIDATES = 2
  FDLIMIT = 6
  Answers <- MCAnswers
INVARIANTS PassedIsUnprotected LargestAreCandidates LoopLeavesNothing
PROPERTY CycleEnds
