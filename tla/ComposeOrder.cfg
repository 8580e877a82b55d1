SPECIFICATION Spec
CONSTANTS
  Nodes <- MCNodes
  Root = "R"
  Systems <- MCSystems
  Parent <- MCParent
  Keys <- MCKeys
  KeyOf <- MCKeyOf
  Scopes <- MCScopes
  Inherit = Inherit
  Segments <- MCSegments
  Suffixes <- MCSuffixes
  Itself = ""
  Names <- MCNames
  Glue <- MCGlue
  Makes <- OnlyItself
  NoPin = NoPin
  Outside = Outside
  DepChoices <- AllDeps
  PinChoices <- NoPins
  RouteChoices <- NoRoutes
  Calls <- OneCall
  OuterContexts <- MCOuter
  Wants <- MCWants
  MaxHooks = 1
  MaxBuilds = 1
INVARIANTS
  TypeOK
  ContextIsLexical
  ContextIsFinished
  NeverStuck
PROPERTY
  RefinesSystemBuild
CHECK_DEADLOCK FALSE
