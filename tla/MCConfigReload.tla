--------------------------- MODULE MCConfigReload ---------------------------
(* Small instances of ConfigReload for TLC. *)
EXTENDS ConfigReload

File(f, c, l) == [readable |-> TRUE, Foreground |-> f, Charselect |-> c, Loading |-> l]

\* The file the repository ships (one key), complete files, a missing key, a
\* malformed value first, in the middle and last, an empty file, and no file.
MCIniFiles ==
  {File(144, Absent, Absent), File(60, 20, 500), File(30, 15, -1), File(Absent, 15, 400),
   File(Malformed, 5, 300), File(90, Malformed, 300), File(90, 5, Malformed),
   File(Absent, Absent, Absent),
   [File(Absent, Absent, Absent) EXCEPT !.readable = FALSE]}

AllFound == {ClientFunctions}
AnyFound == {f \in SUBSET ClientFunctions : "ProcessEvent" \in f}
=============================================================================
