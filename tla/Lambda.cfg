SPECIFICATION Spec
CONSTANTS
  Configs <- MCConfigs
  Contexts <- MCContexts
  Queues = {"queue"}
  Visibilities <- MCVisibilities
  Capital <- MCCapital
  Unset = Unset
  Token = Token
  Imported = Imported
  Provider = 900
  Margin = 30
  Fallback = 120
  MaxEdits = 2
  MaxPasses = 2
INVARIANTS
  RoleKeepsLogsWriter
  WaitOutlivesHandler
PROPERTIES
  TriggerComesLast
  WarnsOfFinalValue
CHECK_DEADLOCK FALSE
