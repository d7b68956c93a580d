CONSTANTS
  s1 = s1
  s2 = s2
  node = node
  Session = {s1, s2}
  Agent = {node}
  Type = {"HELLO", "SET_TENANT_QUOTA", "RESERVE", "OBSERVE", "ADVANCE_EPOCH", "MALFORMED"}
  MaxConnections = 3
  MaxCalls = 3
  MaxFaults = 1
SPECIFICATION Spec
INVARIANTS TypeOK InForceSinceArrival AnswerUpToDate
PROPERTIES RequestAnswered
CHECK_DEADLOCK FALSE
