\* The hotkey with every combination of client functions found; a null call or
\* an exception ends the process.
SPECIFICATION Spec
CONSTANTS
  Int32Max = 1023
  Absent = Absent
  Malformed = Malformed
  IniFiles <- MCIniFiles
  SomeWorlds = {w}
  NoWorld = NoWorld
  NullEvent = NullEvent
  FoundSets <- AnyFound
INVARIANTS TypeOK OneReloadPerPress ReleaseRearms CompleteFileTakesEffect
CHECK_DEADLOCK FALSE
