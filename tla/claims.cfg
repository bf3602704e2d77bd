\* Two agents, one resource, three rows; a call may stall for one tick, less than a TTL.
SPECIFICATION Spec
CONSTANTS
  a1 = a1
  a2 = a2
  r1 = r1
  Agents <- MCAgents
  Resources <- MCResources
  NoAgent = NoAgent
  NoResource = NoResource
  EnvTtl <- MCEnvTtl
  DefaultTtl = 2
  MaxStall = 1
  MaxClock = 3
  MaxRows = 3
INVARIANTS SecondHolderOnlyByLateRenewal
PROPERTIES TakeoverIsAudible ImplementsLease
CHECK_DEADLOCK FALSE
