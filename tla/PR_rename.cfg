SPECIFICATION Spec
CONSTANTS
  CR = {"x"}
  Name = {"app", "web"}
  FullDomain <- FullDomains
  Char = {"a", "b", "c", "."}
  Site = {"s1"}
  Item = {"a", "b"}
  Specs <- RenamedSpecs
  Foreign = {}
  FirstId = 1
  Matches <- ExactNames
  Domains <- OrgDomains
  Faults = {"rename"}
  MaxFaults = 0
  MaxGen = 2
INVARIANTS Linked
CHECK_DEADLOCK FALSE
