SPECIFICATION Spec
CONSTANTS
  Strategies <- MCStrategies
  StrategyKind <- MCStrategyKind
  Keys <- MCKeys
  Classify <- MCClassify
  Apps = {"app1", "app2"}
  SystemIds <- MCSystemIds
  MaxVersion = 1
  MaxBuilds = 2
  Builders = {1, 2, 3}
  First = 1
  Props = {"p"}
  Values = {"x", "y"}
  TagKeys = {"j", "k", "aws:k"}
  TagValues = {"u", "v"}
  BadKeys = {"aws:k"}
  Grants = {"bucket", "queue"}
  Contexts <- MCContexts
  Unset = Unset
  MaxOps = 4
  Whole = "system"
  Members <- MCMembers
  Top = "app"
  Stacks = {"stack1", "stack2"}
  HookLists <- MCHookLists
  BadTexts = {"bad"}
  NoText = "none"
  AlarmCalls <- MCAlarmCalls
  Derived <- MCDerived
  Slug <- MCSlug
  NoId = NoId
  NoName = NoName
  MaxName = 7
  Policies <- MCPolicies
  Kind <- MCKind
  At <- MCAt
  Defaults <- MCDefaults
  Rules <- MCRules
  Skip <- MCSkip
  TextMode <- MCTextModes
  UserAlarms <- MCUserAlarms
  UserActions <- MCUserActions
  Composite <- MCComposite
  Bare <- MCBare
  TextOf <- MCTextOf
  TreeOrders <- MCOrders
  Programs <- MCPrograms
  MaxPasses = 2
INVARIANT
  HooksApplyValidTags
CHECK_DEADLOCK FALSE
