--------------------------- MODULE MCFasterLoading ---------------------------
(* Small instances of FasterLoading for TLC. *)
EXTENDS FasterLoading

File(f, c, l) == [readable |-> TRUE, Foreground |-> f, Charselect |-> c, Loading |-> l]

\* Two complete files, one that throws in the middle, and no file.
MCIniFiles == {File(-1, 20, 500), File(30, 15, -1), File(90, Malformed, 300),
               [File(Absent, Absent, Absent) EXCEPT !.readable = FALSE]}

\* What any number of reloads can leave of the default.
RECURSIVE Reloads(_)
Reloads(cs) ==
  LET next == cs \union {ReloadFromConfig(c, f) : c \in cs, f \in MCIniFiles}
  IN  IF next = cs THEN cs ELSE Reloads(next)
MCConfigs == Reloads({ReloadFromConfig(DefaultConfig, f) : f \in {g \in MCIniFiles : ~Throws(g)}})

\* Everything is found, or not all that a limit and a notice need.
SomeFound == {ClientFunctions, ClientFunctions \ {"FocusUnfocus", "AddInstantNotification"}}
=============================================================================
