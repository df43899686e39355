SPECIFICATION FairSpec
CONSTANTS
  p1 = p1
  p2 = p2
  Procs = {p1, p2}
  Local = {p1, p2}
  Free = Free
  Stock = Stock
  NoFile = NoFile
  MaxStarts = 2
PROPERTY RaceLeavesHub
CHECK_DEADLOCK FALSE
