SPECIFICATION FairSpec
CONSTANTS
  CR = {"x"}
  Name = {"app"}
  FullDomain <- FullDomains
  Char = {"a", "b", "c", "."}
  Site = {"s1"}
  Item = {"a", "b"}
  Specs <- UnsetSpecs
  Foreign = {}
  FirstId = 1
  Matches <- ExactNames
  Domains <- OrgDomains
  Faults = {"unsent"}
  MaxFaults = 0
  MaxGen = 2
PROPERTIES EventuallyApplied
CHECK_DEADLOCK FALSE
