SPECIFICATION FairSpec
CONSTANTS
  Name = {"a", "b"}
  Image = {"i1", "i2"}
  Specs <- SiteSpecs
  Foreign <- ForeignSites
  FirstId = 2
  Faults = {"api", "apiLost", "bad", "del", "k8s", "k8sLost", "crash", "drift", "pods", "race", "rename", "gc", "retype", "lag"}
  MaxFaults = 1
  MaxGen = 2
INVARIANTS TypeOK NoDuplicateSite CredentialsKept
PROPERTIES ImplementsLink SiteConverges SiteDeletionCompletes SiteBecomesReady
CHECK_DEADLOCK FALSE
