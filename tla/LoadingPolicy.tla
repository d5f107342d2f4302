--------------------------- MODULE LoadingPolicy ----------------------------
(***************************************************************************)
(* What the limiter promises about loading screens, without saying how it  *)
(* recognises them: the screen that leads to character select gets the low *)
(* limit, the loading screen after it (the login) gets the character       *)
(* select limit, every other one gets the loading limit; and between two   *)
(* loading screens only the game itself changes the limits.                *)
(***************************************************************************)
VARIABLES
  by,        \* whose limit is in force: "nobody", "game" or a kind of screen
  pending    \* the last loading screen led to character select

policyVars == <<by, pending>>

PolicyInit == by = "nobody" /\ pending = FALSE

Allowed == {"low"} \union (IF pending THEN {"charselect"} ELSE {"loading"})

\* A loading screen of kind k; until the limits object is known it changes no limit.
LoadingScreen(k) ==
  /\ k \in Allowed
  /\ pending' = (k = "low")
  /\ by' \in {k, by}

GameSavesLimits ==
  /\ by' = "game"
  /\ UNCHANGED pending

PolicyNext ==
  \/ \E k \in {"low", "charselect", "loading"} : LoadingScreen(k)
  \/ GameSavesLimits

PolicySpec == PolicyInit /\ [][PolicyNext]_policyVars
=============================================================================
