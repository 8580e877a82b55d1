SPECIFICATION FairSpec
CONSTANTS
  Nodes <- MCNodes
  Root = "R"
  Systems <- MCSystems
  Parent <- MCParent
  Keys <- MCKeys
  KeyOf <- MCKeyOf
  Scopes <- MCScopes
  Inherit = Inherit
  Segments <- MCSegments
  Suffixes <- MCSuffixes
  Itself = ""
  Names <- MCNames
  Glue <- MCGlue
  Makes <- MCMakes
  NoPin = NoPin
  Outside = Outside
  DepChoices <- SomeDeps
  PinChoices <- SomePins
  RouteChoices <- SomeRoutes
  Calls <- TwoCalls
  OuterContexts <- NoOuter
  Wants <- NoWants
  MaxHooks = 1
  MaxBuilds = 2
INVARIANTS
  PinShieldsSubtree
  EachLeafOnce
  RetryNeedsFreshScope
  HooksSeeEverything
PROPERTIES
  UnpinnedCollisionsAreSpelled
  HandedOutCollisionsAreTyped
  BuildEnds
CHECK_DEADLOCK FALSE
