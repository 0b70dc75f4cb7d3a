SPECIFICATION FairSpec
CONSTANTS
  CR = {"x"}
  Name = {"n"}
  Dest = {"x", "y"}
  FullDomain <- OurDomains
  Char = {"a", "b", "c", "."}
  Site = {"s"}
  SiteId <- OneSiteId
  Specs <- AllSpecs
  Foreign <- ToAdopt
  FirstId = 2
  Matches <- ExactNames
  Domains <- OrgDomains
  Faults = {"api", "apiLost", "bad", "del", "k8s", "k8sLost", "crash", "drift", "site", "late", "resite", "race", "move", "lag", "trim"}
  MaxFaults <- OneFailureAndRefusal
  MaxGen <- TwoGenerations
INVARIANTS TypeOK NoDuplicate NoOrphan ResolveDomainExact
PROPERTIES ImplementsLink Converges DeletionCompletes BecomesReady
CHECK_DEADLOCK FALSE
