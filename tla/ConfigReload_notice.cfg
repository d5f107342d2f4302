\* Refuted: the notice in the chat is shown only when the settings were reloaded.
SPECIFICATION Spec
CONSTANTS
  Int32Max = 1023
  Absent = Absent
  Malformed = Malformed
  IniFiles <- MCIniFiles
  SomeWorlds = {w}
  NoWorld = NoWorld
  NullEvent = NullEvent
  FoundSets <- AllFound
INVARIANTS NoticeIsTrue
CHECK_DEADLOCK FALSE
