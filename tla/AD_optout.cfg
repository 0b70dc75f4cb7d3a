SPECIFICATION FairSpec
CONSTANTS
  Source <- OneRoute
  Site = {"s"}
  Host = {"h.x"}
  Slug <- Dashed
  Port = {"http"}
  Gateway = {"g"}
  Contents <- Example
  Configs <- RouteConfig
  ByHand = {}
  Faults = {"hidden"}
  MaxFaults = 0
  MaxEdits = 2
  Together <- AnySources
PROPERTIES OptOutHonoured
CHECK_DEADLOCK FALSE
