\* The limiter's hooks step by step, on one thread and on two.
SPECIFICATION BoundedSpec
CONSTANTS
  Int32Max = 1023
  Absent = Absent
  Malformed = Malformed
  Configs <- MCConfigs
  NoWorld = NoWorld
  NoAddr = NoAddr
  ObjAddr = ObjAddr
  LeaveReasons = {0, 1}
  Live = TRUE
  FoundSets <- AllFound
  Zones = {0, 1}
  Limits = {60}
  Threads = {"game", "window"}
  Schedules <- MCSchedules
INVARIANTS StaleLimitNeedsRace LostFocusNeedsRace
PROPERTIES HooksAreAtomic ScreensFollowPolicy
