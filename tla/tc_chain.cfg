SPECIFICATION Scenario
CONSTANTS
  Key = {"a", "b", "c"}
  Policies <- MCPolicies
  Namespace = {"alpha", "beta"}
  Order <- MCOrder
  Lists <- MCLists
  Life = 1
  Skew = 1
  MaxTime = 3
  MaxStates = 2
  MaxLog = 2
  Modes = {"package", "registry"}
  Absent = Absent
INVARIANTS
  AcceptedIsOneState
  
  
