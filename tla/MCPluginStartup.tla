--------------------------- MODULE MCPluginStartup ---------------------------
(* Small instances of PluginStartup for TLC. *)
EXTENDS PluginStartup

StartsOn == [ProcessEvent |-> "p1", FocusUnfocus |-> "p1",
             SetForegroundFpsLimit |-> "p2", GetWorld |-> "p3"]

\* The bytes of ProcessEvent, which is attached first, go over the end of its page;
\* each of its two pages has another function.
FirstOverTheEdge == [StartsOn EXCEPT !["ProcessEvent"] = "p2"]

\* So do those of FocusUnfocus, whose page the function attached before it opened.
SecondOverTheEdge == [StartsOn EXCEPT !["FocusUnfocus"] = "p2"]
=============================================================================
