CONSTANTS
  s1 = s1
  s2 = s2
  node = node
  Session = {s1, s2}
  Agent = {node}
  Type = {"SET_TENANT_QUOTA", "OBSERVE", "RELEASE", "RELEASE_ALLOCATION", "ADVANCE_EPOCH"}
  MaxConnections = 2
  MaxCalls = 2
  MaxFaults = 0
SPECIFICATION Spec
PROPERTIES MutatesOnlyInForce
CHECK_DEADLOCK FALSE
