---------------------------- MODULE MCFpsLimiter ----------------------------
(* Small instances of FpsLimiter for TLC. *)
EXTENDS FpsLimiter

\* The settings as they are by default, and a file that overrides all of them
\* with a loading limit that is negative (a very large uint32_t).
MCConfigs ==
  {[DefaultConfig EXCEPT !.Loaded = TRUE],
   [ForegroundLimit |-> 30, LoadingLimit |-> -1, CharselectLimit |-> 20, Loaded |-> TRUE]}

Hooks == ClientFunctions \ {"AddInstantNotification"}
AllFound  == {ClientFunctions}
AnyFound  == {ClientFunctions} \union SUBSET {"FocusUnfocus", "SetForegroundFpsLimit", "GetWorld"}
=============================================================================
