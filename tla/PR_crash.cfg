SPECIFICATION Spec
CONSTANTS
  CR = {"x"}
  Name = {"app"}
  FullDomain <- FullDomains
  Char = {"a", "b", "c", "."}
  Site = {"s1"}
  Item = {"a", "b"}
  Specs <- TwoSpecs
  Foreign = {}
  FirstId = 1
  Matches <- ExactNames
  Domains <- OrgDomains
  Faults = {"crash"}
  MaxFaults = 1
  MaxGen = 2
INVARIANTS NoLeak
CHECK_DEADLOCK FALSE
