SPECIFICATION FairSpec
CONSTANTS
  CR = {"x"}
  Name = {"app"}
  FullDomain <- FullDomains
  Char = {"a", "b", "c", "."}
  Site = {"s1"}
  Item = {"a", "b"}
  Specs <- TwoSpecs
  Foreign = {}
  FirstId = 1
  Matches <- ExactNames
  Domains <- OrgDomains
  Faults = {"race"}
  MaxFaults = 0
  MaxGen = 2
PROPERTIES EventuallyApplied
CHECK_DEADLOCK FALSE
