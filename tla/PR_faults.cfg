SPECIFICATION Spec
CONSTANTS
  CR = {"x"}
  Name = {"app"}
  FullDomain <- FullDomains
  Char = {"a", "b", "c", "."}
  Site = {"s1"}
  Item = {"a", "b"}
  Specs <- TwoTcpSpecs
  Foreign = {}
  FirstId = 1
  Matches <- ExactNames
  Domains <- OrgDomains
  Faults = {"api", "apiLost", "del", "k8s", "k8sLost", "crash", "drift", "lag", "race"}
  MaxFaults = 2
  MaxGen = 2
INVARIANTS TypeOK NoDuplicate NoOrphan ChildrenAccounted 
PROPERTIES FinalizerHeld ImplementsLink NoTrafficGap
CHECK_DEADLOCK FALSE
