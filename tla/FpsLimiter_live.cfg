\* The LIVE build with every combination of hooks the pattern scan may leave;
\* with some of them the client dies, and then nothing happens any more.
SPECIFICATION FairSpec
CONSTANTS
  Int32Max = 1023
  Absent = Absent
  Malformed = Malformed
  Configs <- MCConfigs
  NoWorld = NoWorld
  NoAddr = NoAddr
  ObjAddr = ObjAddr
  LeaveReasons = {0, 1, 2}
  Live = TRUE
  FoundSets <- AnyFound
  Zones = {0, 1, 2}
  Limits = {60, 144}
INVARIANTS TypeOK CapFollowsFocus AltTabKeepsLimit FocusRestored NullCallNeedsSplitHooks
PROPERTIES SameWorldChangesNothing FollowsPolicy WritesOnlyWhileLoading LoadingScreenNoticed LowLimitIsLifted
CHECK_DEADLOCK FALSE
