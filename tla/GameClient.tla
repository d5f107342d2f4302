----------------------------- MODULE GameClient -----------------------------
(***************************************************************************)
(* The part of the Blade & Soul client the plugin works against, which is  *)
(* not in the repository: the object that holds the two frame limits       *)
(* (fields +0x144 and +0x148) and the client functions the plugin hooks.   *)
(* It is modelled from how Hooks.cpp uses it:                              *)
(*   - after storing both fields the plugin calls FocusUnfocus with the    *)
(*     opposite focus and then the real one, so a stored limit is not in   *)
(*     force until the focus CHANGES;                                      *)
(*   - a limit that goes through SetForegroundFpsLimit is in force at once *)
(*     when the client is focused.                                         *)
(***************************************************************************)
EXTENDS Integers

Focus == {0, 1}      \* 1: the client is focused, 0: it is not

\* The limits object: the stored limits, the client's idea of its focus and
\* the limit the renderer is running under.
Engines(Limits) == [fg : Limits, bg : Limits, focused : Focus, cap : Limits]

\* The stored limit that goes with the client's focus.
StoredLimit(e) == IF e.focused = 1 THEN e.fg ELSE e.bg

FocusUnfocus(e, focus) ==
  IF focus = e.focused
  THEN e
  ELSE [e EXCEPT !.focused = focus, !.cap = IF focus = 1 THEN e.fg ELSE e.bg]

SetForegroundFpsLimit(e, limit) ==
  [e EXCEPT !.fg = limit, !.cap = IF e.focused = 1 THEN limit ELSE e.cap]

SetBackgroundFpsLimit(e, limit) ==
  [e EXCEPT !.bg = limit, !.cap = IF e.focused = 0 THEN limit ELSE e.cap]

\* The functions the plugin looks for in the client's code section.
ClientFunctions ==
  {"ProcessEvent", "FocusUnfocus", "SetForegroundFpsLimit", "GetWorld",
   "AddInstantNotification"}
=============================================================================
