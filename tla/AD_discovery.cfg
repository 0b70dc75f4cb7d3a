SPECIFICATION FairSpec
CONSTANTS
  Source <- AllSources
  Site = {"s"}
  Host = {"h.x", "h-x"}
  Slug <- Dashed
  Port = {"http", "53"}
  Gateway = {"g"}
  Contents <- Small
  Configs <- SomeConfigs
  ByHand <- TCPRouteName
  Faults = {"k8s", "crash", "race", "hidden", "config"}
  MaxFaults = 1
  MaxEdits = 1
  Together <- Subgroups
INVARIANTS TypeOK
PROPERTIES OnlyWanted Steady Discovered Withdrawn
CHECK_DEADLOCK FALSE
