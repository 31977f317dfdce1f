SPECIFICATION Spec
CONSTANTS
  Plugins = {"a", "b"}
  Toolless = {"b"}
  ToolCalls = {"t"}
  Commands = {"k"}
  Events = {"e1", "e2"}
  MaxTurns = 1
  MaxReloads = 1
  Configs <- MCConfigs
INVARIANT HostSound
PROPERTY CallsAnswered
CHECK_DEADLOCK FALSE
