SPECIFICATION FairSpec
CONSTANTS
  Names = {n1, n2}
  NoName = noname
  Agents = {a1}
  Browsers = {b1}
  MaxFaults = 2
INVARIANTS HostInv OfflineIsRecorded
PROPERTIES HandedOutStands ComesUp HeldOnlyByAgents AgentReturns
CHECK_DEADLOCK FALSE
