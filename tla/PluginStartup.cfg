\* Start-up with two callers of LeanPlugin_Main and every set of patterns found,
\* a function's first bytes going over the end of a page.
SPECIFICATION FairSpec
CONSTANTS
  Functions = {"ProcessEvent", "FocusUnfocus", "SetForegroundFpsLimit", "GetWorld"}
  NoThread = NoThread
  Pages = {"p1", "p2", "p3"}
  FirstPage <- StartsOn
  LastPage <- FirstOverTheEdge
  Threads = {t1, t2}
INVARIANTS TypeOK OneInitializer ReturnsWhenDone AttachedOnce FindsWhatOccurs AllOrNothing PagesRestored
PROPERTIES PatchesWritablePages CallersReturn
CHECK_DEADLOCK FALSE
