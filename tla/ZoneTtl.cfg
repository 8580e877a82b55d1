SPECIFICATION Spec
CONSTANTS
  Configurations <- MCConfigurations
  MaxOptions = 1
  ZoneLists <- MCZoneLists
  TokenNames <- MCTokenNames
  Aliases = {"live", "beta"}
  Gradual = {"live"}
  Retains = {2, 3}
  MaxVersion = 5
  MailStacks = {"a", "b"}
  Unset = Unset
  Walk <- MCWalk
  TopicsOf <- MCTopicsOf
INVARIANT
  TtlIgnoresOrder
CHECK_DEADLOCK FALSE
