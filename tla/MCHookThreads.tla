---------------------------- MODULE MCHookThreads ----------------------------
(* Small instances of HookThreads for TLC. *)
EXTENDS HookThreads

MCConfigs ==
  {[DefaultConfig EXCEPT !.Loaded = TRUE],
   [ForegroundLimit |-> 30, LoadingLimit |-> 500, CharselectLimit |-> 20, Loaded |-> TRUE]}
AllFound == {ClientFunctions}

\* All on one thread, or the focus events on a thread of their own.  Bounds of the
\* second: the client saves no background limit, and the settings stay the same.
OnGameThread == [duties |-> [t \in Threads |-> IF t = "game" THEN AllDuties ELSE {}],
                 maxDepth |-> 3]
FocusElsewhere ==
  [duties |-> [t \in Threads |-> IF t = "window" THEN {"FocusUnfocus"}
                                 ELSE {"GetWorld", "SetForegroundFpsLimit", "WorldChanges"}],
   maxDepth |-> 2]
MCSchedules == {OnGameThread, FocusElsewhere}

BoundedInit == ThreadsInit /\ (schedule = FocusElsewhere => cfg.ForegroundLimit > -1)
BoundedSpec == BoundedInit /\ [][ThreadsNext]_hookVars
=============================================================================
