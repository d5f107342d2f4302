\* Refuted: every loading screen runs unlimited (README.md:9).
SPECIFICATION FairSpec
CONSTANTS
  Int32Max = 1023
  Absent = Absent
  Malformed = Malformed
  Configs <- MCConfigs
  NoWorld = NoWorld
  NoAddr = NoAddr
  ObjAddr = ObjAddr
  LeaveReasons = {0, 1, 2}
  Live = TRUE
  FoundSets <- AllFound
  Zones = {0, 1}
  Limits = {60}
PROPERTIES EveryLoadingScreenUnlimited
