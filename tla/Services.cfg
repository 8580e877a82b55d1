SPECIFICATION Spec
CONSTANTS
  Configurations <- MCConfigurations
  MaxOptions = 6
  ZoneLists <- MCZoneLists
  TokenNames <- MCTokenNames
  Aliases = {"live", "beta"}
  Gradual = {"live"}
  Retains = {2, 3}
  MaxVersion = 5
  MailStacks = {"a", "b"}
  Unset = Unset
  Walk <- MCWalk
  TopicsOf <- MCTopicsOf
INVARIANTS
  ServicesTypeOK
  ThrownBuildCanBeRepeated
  
  OthersUntouchedByFailure
  TagsStayHome
  OneSetPerTypeAndName
  ContradictionsRefused
  OrderKeepsContents
  RetryAfterEarlyRefusalOnly
  PrunerNeverRefused
  RetentionBound
  LostOnlyPastLimit
  ConflictsReported
PROPERTY
  ClearsOnlyItsOwn
CHECK_DEADLOCK FALSE
