SPECIFICATION AlarmSpec
CONSTANTS
  AlarmCalls <- MCAlarmCalls
  Derived <- MCDerived
  Slug <- MCSlug
  NoId = NoId
  NoName = NoName
  MaxName = 7
  Policies <- MCPolicies
  Kind <- MCKind
  At <- MCAt
  Defaults <- MCDefaults
  Rules <- GlobalRules
  Skip <- MCSkip
  TextMode <- MCTextModes
  UserAlarms <- MCUserAlarms
  UserActions <- MCUserActions
  Composite <- MCComposite
  Bare <- MCBare
  TextOf <- MCTextOf
  TreeOrders <- MCOrders
  Programs <- MCPrograms
  MaxPasses = 1
INVARIANT RegExpTestedAgainstPath
CHECK_DEADLOCK FALSE
