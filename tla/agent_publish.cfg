SPECIFICATION FairAgent
CONSTANTS
  n1 = n1
  n2 = n2
  a1 = a1
  a2 = a2
  d1 = d1
  Names = {n1, n2}
  Addrs = {a1, a2}
  Devices = {d1}
  Old = {a2}
  NoBackend = NoBackend
  Absent = Absent
  Torn = Torn
  NoConfig = NoConfig
  Commands <- MCCommands
  Edits <- MCEdits
  MaxChanges = 3
  MaxFlaps = 2
INVARIANTS OldProxySkipped
PROPERTY AgentFollowsConfig
CHECK_DEADLOCK FALSE
