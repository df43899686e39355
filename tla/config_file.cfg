SPECIFICATION ReloadFairSpec
CONSTANTS
  n1 = n1
  n2 = n2
  a1 = a1
  d1 = d1
  p1 = p1
  p2 = p2
  Names = {n1, n2}
  Addrs = {a1}
  Devices = {d1}
  NoBackend = NoBackend
  Absent = Absent
  Torn = Torn
  Procs = {p1, p2}
  Commands <- MCCommands
  Edits <- MCEdits
  NoFile = NoFile
  NoStamp = NoStamp
  MaxRuns = 2
  MaxEdits = 1
INVARIANTS ReloadTypeOK CachedIsCurrent
PROPERTIES AtomicSave OwnerOnlyKept PolicyFollowsFile
CHECK_DEADLOCK FALSE
