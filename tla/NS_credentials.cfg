SPECIFICATION Spec
CONSTANTS
  Name = {"a"}
  Image = {"i1"}
  Specs <- OneSpec
  Foreign = {}
  FirstId = 1
  Faults = {"k8s"}
  MaxFaults = 1
  MaxGen = 1
INVARIANTS CredentialsUsable
CHECK_DEADLOCK FALSE
