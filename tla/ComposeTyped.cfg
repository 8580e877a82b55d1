SPECIFICATION Spec
CONSTANTS
  Nodes <- MCNodes
  Root = "R"
  Systems <- MCSystems
  Parent <- MCParent
  Keys <- MCKeys
  KeyOf <- MCKeyOf
  Scopes <- MCScopes
  Inherit = Inherit
  Segments <- MCSegments
  Suffixes <- MCSuffixes
  Itself = ""
  Names <- MCNames
  Glue <- MCGlue
  Makes <- OnlyItself
  NoPin = NoPin
  Outside = Outside
  DepChoices <- ChainOnly
  PinChoices <- OnePin
  RouteChoices <- NoRoutes
  Calls <- OneCall
  OuterContexts <- NoOuter
  Wants <- NoWants
  MaxHooks = 0
  MaxBuilds = 1
INVARIANT CollisionsAreTyped
CHECK_DEADLOCK FALSE
