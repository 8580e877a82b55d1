SPECIFICATION Spec
CONSTANTS
  Configs <- ChainedConfigs
  Contexts <- MCContexts
  Queues = {"queue"}
  Visibilities <- MCVisibilities
  Capital <- MCCapital
  Unset = Unset
  Token = Token
  Imported = Imported
  Provider = 900
  Margin = 30
  Fallback = 120
  MaxEdits = 0
  MaxPasses = 1
INVARIANT
  SecondLogsWriterThrows
CHECK_DEADLOCK FALSE
