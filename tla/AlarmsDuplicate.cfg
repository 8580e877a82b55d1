SPECIFICATION AlarmSpec
CONSTANTS
  AlarmCalls <- DuplicateCalls
  Derived <- MCDerived
  Slug <- MCSlug
  NoId = NoId
  NoName = NoName
  MaxName = 7
  Policies <- MCPolicies
  Kind <- MCKind
  At <- MCAt
  Defaults <- MCDefaults
  Rules <- MCRules
  Skip <- MCSkip
  TextMode <- MCTextModes
  UserAlarms <- MCUserAlarms
  UserActions <- MCUserActions
  Composite <- MCComposite
  Bare <- MCBare
  TextOf <- MCTextOf
  TreeOrders <- MCOrders
  Programs <- MCPrograms
  MaxPasses = 1
INVARIANT DuplicateKeyCreatesNothing
CHECK_DEADLOCK FALSE
