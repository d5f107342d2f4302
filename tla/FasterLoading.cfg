\* The limiter and the hotkey together.
SPECIFICATION PluginSpec
CONSTANTS
  Int32Max = 1023
  Absent = Absent
  Malformed = Malformed
  Configs <- MCConfigs
  IniFiles <- MCIniFiles
  NullEvent = NullEvent
  NoWorld = NoWorld
  NoAddr = NoAddr
  ObjAddr = ObjAddr
  LeaveReasons = {1}
  Live = TRUE
  FoundSets <- SomeFound
  Zones = {0, 1}
  Limits = {60}
PROPERTIES LimiterRefined LastCompleteFileCounts
CHECK_DEADLOCK FALSE
