\* A thread of the client that calls the functions while they are patched, with
\* every set of patterns found.
SPECIFICATION FairCallsSpec
CONSTANTS
  Functions = {"ProcessEvent", "FocusUnfocus", "SetForegroundFpsLimit", "GetWorld"}
  NoThread = NoThread
  Pages = {"p1"}
  FirstPage <- StartsOn
  LastPage <- StartsOn
  Threads = {t1}
  StackSize = 4
INVARIANTS HooksHaveOriginals
PROPERTIES NestsOnlyHalfPatched CallsReachOriginal
CHECK_DEADLOCK FALSE
