\* Refuted: the commit restores all of the page permissions (detours.cpp:1690).
SPECIFICATION Spec
CONSTANTS
  Functions = {"ProcessEvent", "FocusUnfocus", "SetForegroundFpsLimit", "GetWorld"}
  NoThread = NoThread
  Pages = {"p1", "p2", "p3"}
  FirstPage <- StartsOn
  LastPage <- SecondOverTheEdge
  Threads = {t1, t2}
INVARIANTS PagesRestored
CHECK_DEADLOCK FALSE
