SPECIFICATION FairSpec
CONSTANTS
  CR = {"x"}
  Name = {"app"}
  FullDomain <- FullDomains
  Char = {"a", "b", "c", "."}
  Site = {"s1"}
  Item = {"a", "b"}
  Specs <- TwoSpecs
  Foreign = {}
  FirstId = 1
  Matches <- ExactNames
  Domains <- OrgDomains
  Faults = {"drift", "api"}
  MaxFaults = 2
  MaxGen = 1
PROPERTIES EventuallyApplied
CHECK_DEADLOCK FALSE
