SPECIFICATION FairSpec
CONSTANTS
  c1 = c1
  c2 = c2
  d1 = d1
  d2 = d2
  Conns = {c1, c2}
  Devices = {d1, d2}
  NoFile = NoFile
  Nobody = Nobody
  MaxSaves = 2
  MaxPlugs = 1
INVARIANTS AnswersFollowPolicy
PROPERTY TrackerFollowsHost
CHECK_DEADLOCK FALSE
