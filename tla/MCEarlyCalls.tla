---------------------------- MODULE MCEarlyCalls ----------------------------
(* Small instances of EarlyCalls for TLC. *)
EXTENDS EarlyCalls

StartsOn == [ProcessEvent |-> "p1", FocusUnfocus |-> "p1",
             SetForegroundFpsLimit |-> "p1", GetWorld |-> "p1"]
=============================================================================
