\* Refuted: the notification is checked before it is called (BSFunctions.cpp:10).
SPECIFICATION Spec
CONSTANTS
  Int32Max = 1023
  Absent = Absent
  Malformed = Malformed
  IniFiles <- MCIniFiles
  SomeWorlds = {w}
  NoWorld = NoWorld
  NullEvent = NullEvent
  FoundSets <- AnyFound
INVARIANTS NotificationChecked
CHECK_DEADLOCK FALSE
