SPECIFICATION FairSpec
CONSTANTS
  CR = {"x"}
  Name = {"app", "web"}
  FullDomain <- FullDomains
  Char = {"a", "b", "c", "."}
  Site = {"s1"}
  Item = {"a", "b"}
  Specs <- LiveSpecs
  Foreign <- OnOurDomain
  FirstId = 3
  Matches <- ExactNames
  Domains <- OrgDomains
  Faults = {"api", "apiLost", "bad", "del", "k8s", "k8sLost", "crash", "drift", "site", "race", "trim"}
  MaxFaults = 1
  MaxGen = 2
PROPERTIES Converges DeletionCompletes BecomesReady
CHECK_DEADLOCK FALSE
