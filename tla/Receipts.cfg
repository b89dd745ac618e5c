SPECIFICATION Spec
CONSTANTS
  Datasets <- MCDatasets
  Contracts <- MCContracts
  Policies <- MCPolicies
  Samples = {0, 1}
  OurKey = ours
  OtherKey = other
  Null = null
  Absent = absent
  Odd = odd
  MaxIssued = 2
  MaxEdits = 1
INVARIANTS EvidenceIsAccepted IssuedVerifies ValidMeansIssued OneScan AcceptedMeansPolicyMet
CHECK_DEADLOCK FALSE
