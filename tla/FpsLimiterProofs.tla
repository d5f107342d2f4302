-------------------------- MODULE FpsLimiterProofs --------------------------
(***************************************************************************)
(* Proofs about FpsLimiter, for every build, set of hooks, zone, limit and *)
(* setting.  IInv is the inductive invariant; the invariants TLC checks    *)
(* are its conjuncts, the action properties and the refinement follow      *)
(* from it.                                                                *)
(***************************************************************************)
EXTENDS FpsLimiter, TLAPS

\* A limits object and a focus state are only touched by a plugin that found the
\* functions for it.
HooksExplainState ==
  /\ "FocusUnfocus" \notin found => focusState = 1 /\ regime.by \notin Screens
  /\ focusUnfocusAddr # NoAddr =>
       "FocusUnfocus" \in found \/ "SetForegroundFpsLimit" \in found

\* The statics hold what the last GetWorld call saw.
StaticsFollowWorld ==
  seen # NoWorld =>
    /\ inTransitState = seen.isTransit
    /\ prevGeoZoneId = seen.geozoneId

\* Only the LIVE build has the flag.
FlagNeedsLive == applyLowFpsToNextLoadingScreen => Live

IInv ==
  /\ TypeOK
  /\ CapFollowsFocus /\ AltTabKeepsLimit /\ FocusRestored
  /\ NullCallNeedsSplitHooks
  /\ HooksExplainState /\ StaticsFollowWorld /\ FlagNeedsLive

-----------------------------------------------------------------------------
(* The operators the limiter is built from. *)

\* The conversion of a limit to uint32_t stays in the type.
LEMMA AsUint32Type == ASSUME NEW n \in Int32 PROVE AsUint32(n) \in Uint32
  BY Int32MaxAssumption DEF Int32, Uint32, AsUint32

\* A focus call sets the focus, keeps the stored limits, and keeps the limit in
\* force the stored one if it was.
LEMMA FocusUnfocusFacts ==
  ASSUME NEW S, NEW e \in Engines(S), NEW f \in Focus
  PROVE  LET r == FocusUnfocus(e, f) IN
           /\ r \in Engines(S)
           /\ r.focused = f /\ r.fg = e.fg /\ r.bg = e.bg
           /\ e.focused # f \/ e.cap = StoredLimit(e) => r.cap = StoredLimit(r)
  BY DEF Engines, Focus, FocusUnfocus, StoredLimit

\* Whatever focus the client has when it starts, Applied puts the limit in force
\* and leaves the focus at the plugin's idea of it, or at "unfocused".
LEMMA AppliedFacts ==
  ASSUME TypeOK, NEW limit \in Uint32, NEW unfocus \in BOOLEAN
  PROVE  LET r == Applied(engine, limit, unfocus) IN
           /\ r \in Engines(Uint32)
           /\ r.fg = limit /\ r.bg = limit /\ r.cap = limit
           /\ r.focused = IF unfocus THEN 0 ELSE focusState
<1> DEFINE stored == [engine EXCEPT !.fg = limit, !.bg = limit]
           away   == FocusUnfocus(stored, 1 - focusState)
           back   == FocusUnfocus(away, focusState)
           left   == FocusUnfocus(back, 0)
<1>1. /\ stored \in Engines(Uint32)
      /\ stored.fg = limit /\ stored.bg = limit
  BY DEF TypeOK, Engines
<1>2. focusState \in Focus /\ 1 - focusState \in Focus /\ 1 - focusState # focusState
  <2>1. focusState \in Focus
    BY DEF TypeOK
  <2> QED BY <2>1 DEF Focus
<1>3. /\ away \in Engines(Uint32) /\ away.focused = 1 - focusState
      /\ away.fg = limit /\ away.bg = limit
  <2> HIDE DEF stored
  <2> QED BY <1>1, <1>2, FocusUnfocusFacts
<1>4. /\ back \in Engines(Uint32) /\ back.focused = focusState
      /\ back.fg = limit /\ back.bg = limit /\ back.cap = StoredLimit(back)
  <2> HIDE DEF away
  <2> QED BY <1>2, <1>3, FocusUnfocusFacts
<1>5. /\ left \in Engines(Uint32) /\ left.focused = 0
      /\ left.fg = limit /\ left.bg = limit /\ left.cap = StoredLimit(left)
  <2> 0 \in Focus BY DEF Focus
  <2> HIDE DEF back
  <2> QED BY <1>4, FocusUnfocusFacts
<1>6. Applied(engine, limit, unfocus) = IF unfocus THEN left ELSE back
  BY DEF Applied
<1> HIDE DEF left, back
<1> QED BY <1>4, <1>5, <1>6 DEF StoredLimit

\* The limits a loading screen may ask for.
LEMMA ScreenLimits ==
  ASSUME TypeOK
  PROVE  cfg.LoadingLimit \in Int32 /\ cfg.CharselectLimit \in Int32 /\ 5 \in Int32
<1>1. cfg \in Config
  BY DEF TypeOK
<1> QED BY <1>1, Int32MaxAssumption DEF Config, Int32

-----------------------------------------------------------------------------
(* A GetWorld step, whatever it sees, does one of four things to the limits. *)

\* No change, the loading limit with the focus restored, a limit that leaves the
\* client unfocused, or the null call.
LimitsOutcome ==
  \/ UNCHANGED <<engine, regime, status>>
  \/ \E screen \in Screens, limit \in Uint32, unfocus \in BOOLEAN :
       /\ "FocusUnfocus" \in found
       /\ screen = "loading" => ~unfocus
       /\ engine' = Applied(engine, limit, unfocus)
       /\ regime' = [by |-> screen, limit |-> limit]
       /\ UNCHANGED status
  \/ /\ focusUnfocusAddr # NoAddr /\ "FocusUnfocus" \notin found
     /\ status' = "null FocusUnfocus"
     /\ UNCHANGED <<engine, regime>>

LEMMA SetAndApplyOutcome ==
  ASSUME NEW screen \in Screens, NEW limit \in Int32, NEW unfocus \in BOOLEAN,
         screen = "loading" => ~unfocus,
         SetAndApplyFpsLimits(screen, limit, unfocus)
  PROVE  LimitsOutcome
<1>1. AsUint32(limit) \in Uint32
  BY AsUint32Type
<1> QED BY <1>1 DEF SetAndApplyFpsLimits, LimitsOutcome

LEMMA LowOutcome ==
  ASSUME TypeOK, SetAndApplyLowFps
  PROVE  LimitsOutcome /\ applyLowFpsToNextLoadingScreen' = TRUE
  BY ScreenLimits, SetAndApplyOutcome DEF SetAndApplyLowFps, Screens

LEMMA UnlimitedOutcome ==
  ASSUME TypeOK, SetAndApplyUnlimitedFps
  PROVE  LimitsOutcome /\ applyLowFpsToNextLoadingScreen' = FALSE
<1>1. CASE Live /\ applyLowFpsToNextLoadingScreen
  BY <1>1, ScreenLimits, SetAndApplyOutcome DEF SetAndApplyUnlimitedFps, Screens
<1>2. CASE ~(Live /\ applyLowFpsToNextLoadingScreen)
  BY <1>2, ScreenLimits, SetAndApplyOutcome DEF SetAndApplyUnlimitedFps, Screens
<1> QED BY <1>1, <1>2

\* The branch of SetInTransitFps that sets the low limit (Hooks.cpp:114) is dead:
\* whenever it would be reached, the condition at Hooks.cpp:142 held already.
THEOREM LowBranchIsDead ==
  ToggleTransit => ~(Live /\ world.leaveReason = 1 /\ world.geozoneId = 0)
  BY DEF ToggleTransit, ToCharSelect, TransitEdge

LEMMA GetWorldOutcome ==
  ASSUME TypeOK, FlagNeedsLive, hkBNSClient_GetWorld
  PROVE  /\ LimitsOutcome
         /\ applyLowFpsToNextLoadingScreen' \in BOOLEAN
         /\ applyLowFpsToNextLoadingScreen' => Live
         /\ inTransitState' = world.isTransit
<1>1. CASE EnterCharSelect
  BY <1>1, LowOutcome DEF EnterCharSelect, ToCharSelect
<1>2. CASE ToggleTransit /\ world.isTransit
  BY <1>2, LowBranchIsDead, UnlimitedOutcome DEF ToggleTransit, SetInTransitFps
<1>3. CASE (ToggleTransit /\ ~world.isTransit) \/ NothingNew
  <2>1. inTransitState' = world.isTransit
    BY <1>3 DEF ToggleTransit, NothingNew, TransitEdge, TransitChanged, hkBNSClient_GetWorld
  <2>2. UNCHANGED <<engine, regime, status, applyLowFpsToNextLoadingScreen>>
    BY <1>3 DEF ToggleTransit, NothingNew
  <2> QED BY <2>1, <2>2 DEF LimitsOutcome, TypeOK, FlagNeedsLive
<1> QED BY <1>1, <1>2, <1>3 DEF hkBNSClient_GetWorld

-----------------------------------------------------------------------------
(* The inductive invariant. *)

\* The conjuncts of IInv that a change of limits can disturb.
LimitsInv ==
  /\ engine \in Engines(Uint32)
  /\ regime \in [by : Screens \union {"nobody", "game"}, limit : Uint32]
  /\ status \in {"running", "null FocusUnfocus"}
  /\ CapFollowsFocus /\ AltTabKeepsLimit /\ FocusRestored
  /\ NullCallNeedsSplitHooks /\ HooksExplainState

LEMMA LimitsOutcomeKeepsInv ==
  ASSUME IInv, "GetWorld" \in found, status = "running", LimitsOutcome,
         UNCHANGED <<found, focusState, focusUnfocusAddr>>
  PROVE  LimitsInv'
<1>1. CASE UNCHANGED <<engine, regime, status>>
  BY <1>1 DEF IInv, LimitsInv, TypeOK, CapFollowsFocus, StoredLimit, AltTabKeepsLimit,
              FocusRestored, NullCallNeedsSplitHooks, HooksExplainState
<1>2. ASSUME NEW screen \in Screens, NEW limit \in Uint32, NEW unfocus \in BOOLEAN,
             "FocusUnfocus" \in found,
             screen = "loading" => ~unfocus,
             engine' = Applied(engine, limit, unfocus),
             regime' = [by |-> screen, limit |-> limit],
             UNCHANGED status
      PROVE  LimitsInv'
  <2>1. /\ engine' \in Engines(Uint32)
        /\ engine'.fg = limit /\ engine'.bg = limit /\ engine'.cap = limit
        /\ engine'.focused = IF unfocus THEN 0 ELSE focusState
    BY <1>2, AppliedFacts DEF IInv
  <2>2. regime' \in [by : Screens \union {"nobody", "game"}, limit : Uint32]
    BY <1>2
  <2>3. CapFollowsFocus' /\ AltTabKeepsLimit'
    BY <1>2, <2>1 DEF CapFollowsFocus, StoredLimit, AltTabKeepsLimit
  <2>4. FocusRestored'
    BY <1>2, <2>1 DEF FocusRestored
  <2>5. status' = "running" /\ HooksExplainState'
    BY <1>2 DEF IInv, HooksExplainState
  <2> QED BY <2>1, <2>2, <2>3, <2>4, <2>5 DEF LimitsInv, NullCallNeedsSplitHooks
<1>3. CASE /\ focusUnfocusAddr # NoAddr /\ "FocusUnfocus" \notin found
           /\ status' = "null FocusUnfocus"
           /\ UNCHANGED <<engine, regime>>
  <2>1. "SetForegroundFpsLimit" \in found
    BY <1>3 DEF IInv, HooksExplainState
  <2>2. NullCallNeedsSplitHooks'
    BY <1>3, <2>1 DEF NullCallNeedsSplitHooks
  <2> QED BY <1>3, <2>2 DEF IInv, LimitsInv, TypeOK, CapFollowsFocus, StoredLimit,
                            AltTabKeepsLimit, FocusRestored, HooksExplainState
<1> QED BY <1>1, <1>2, <1>3 DEF LimitsOutcome

\* The limit that reaches the client is a uint32_t.
LEMMA OverrideType ==
  ASSUME TypeOK, NEW l \in Limits
  PROVE  ForegroundOverride(l) \in Uint32
<1>1. cfg.ForegroundLimit \in Int32 /\ l \in 0 .. Int32Max
  BY LimitsAssumption DEF TypeOK, Config
<1> QED BY <1>1, Int32MaxAssumption DEF ForegroundOverride, Int32, Uint32

\* Saving a limit changes the regime to the game's, so the screen's claims on
\* the limits end, and the limit in force stays the stored one.
LEMMA SavedFacts ==
  ASSUME IInv, NEW limit \in Uint32,
         \/ engine' = SetForegroundFpsLimit(engine, limit)
         \/ engine' = SetBackgroundFpsLimit(engine, limit),
         regime' = [by |-> "game", limit |-> 0],
         UNCHANGED <<found, focusState, status>>,
         focusUnfocusAddr' = focusUnfocusAddr
           \/ "SetForegroundFpsLimit" \in found
  PROVE  LimitsInv'
<1>1. engine \in Engines(Uint32) /\ CapFollowsFocus /\ FocusRestored
  BY DEF IInv, TypeOK
<1>2. /\ engine' \in Engines(Uint32) /\ CapFollowsFocus'
      /\ engine'.focused = engine.focused
  <2>1. CASE engine' = SetForegroundFpsLimit(engine, limit)
    <3>1. engine' = [engine EXCEPT !.fg = limit,
                                   !.cap = IF engine.focused = 1 THEN limit ELSE engine.cap]
      BY <2>1 DEF SetForegroundFpsLimit
    <3> QED BY <1>1, <3>1 DEF Engines, CapFollowsFocus, StoredLimit
  <2>2. CASE engine' = SetBackgroundFpsLimit(engine, limit)
    <3>1. engine' = [engine EXCEPT !.bg = limit,
                                   !.cap = IF engine.focused = 0 THEN limit ELSE engine.cap]
      BY <2>2 DEF SetBackgroundFpsLimit
    <3>2. /\ engine' \in Engines(Uint32)
          /\ engine'.focused = engine.focused /\ engine'.fg = engine.fg
          /\ engine'.bg = limit
          /\ engine'.cap = IF engine.focused = 0 THEN limit ELSE engine.cap
      BY <1>1, <3>1 DEF Engines
    <3>3. engine.focused = 0 \/ engine.focused = 1
      BY <1>1 DEF Engines, Focus
    <3> QED BY <1>1, <3>2, <3>3 DEF CapFollowsFocus, StoredLimit
  <2> QED BY <2>1, <2>2
<1>3. 0 \in Uint32 /\ "game" \notin Screens /\ regime'.by = "game"
  BY Int32MaxAssumption DEF Uint32, Screens
<1>4. regime' \in [by : Screens \union {"nobody", "game"}, limit : Uint32]
  BY <1>3
<1>5. AltTabKeepsLimit' /\ FocusRestored'
  BY <1>1, <1>2, <1>3 DEF AltTabKeepsLimit, FocusRestored
<1>6. status' \in {"running", "null FocusUnfocus"} /\ NullCallNeedsSplitHooks'
  BY DEF IInv, TypeOK, NullCallNeedsSplitHooks
<1>7. HooksExplainState'
  BY <1>3 DEF IInv, HooksExplainState
<1> QED BY <1>2, <1>4, <1>5, <1>6, <1>7 DEF LimitsInv

\* A focus event takes up a stored limit and nothing else.
LEMMA FocusEventFacts ==
  ASSUME IInv, NEW f \in Focus,
         engine' = FocusUnfocus(engine, f),
         UNCHANGED <<found, regime, status>>,
         \/ "FocusUnfocus" \in found /\ focusState' = f
         \/ /\ "FocusUnfocus" \notin found
            /\ UNCHANGED <<focusState, focusUnfocusAddr>>
  PROVE  LimitsInv'
<1>1. /\ engine \in Engines(Uint32) /\ CapFollowsFocus /\ AltTabKeepsLimit
      /\ HooksExplainState
  BY DEF IInv, TypeOK
<1>2. /\ engine' \in Engines(Uint32) /\ engine'.focused = f
      /\ engine'.fg = engine.fg /\ engine'.bg = engine.bg /\ CapFollowsFocus'
  BY <1>1, FocusUnfocusFacts DEF CapFollowsFocus
<1>3. AltTabKeepsLimit'
  BY <1>1, <1>2 DEF AltTabKeepsLimit, CapFollowsFocus, StoredLimit
<1>4. FocusRestored' /\ HooksExplainState'
  BY <1>1, <1>2 DEF FocusRestored, HooksExplainState, Focus, Screens
<1>5. /\ regime' \in [by : Screens \union {"nobody", "game"}, limit : Uint32]
      /\ status' \in {"running", "null FocusUnfocus"} /\ NullCallNeedsSplitHooks'
  BY DEF IInv, TypeOK, NullCallNeedsSplitHooks
<1> QED BY <1>2, <1>3, <1>4, <1>5 DEF LimitsInv

\* Nothing the limiter cares about changes.
LEMMA LimitsUnchanged ==
  ASSUME IInv, UNCHANGED <<found, engine, focusState, focusUnfocusAddr, status, regime>>
  PROVE  LimitsInv'
  BY DEF IInv, LimitsInv, TypeOK, CapFollowsFocus, StoredLimit, AltTabKeepsLimit,
         FocusRestored, NullCallNeedsSplitHooks, HooksExplainState

LEMMA InitInv == Init => IInv
<1> SUFFICES ASSUME Init PROVE IInv
  OBVIOUS
<1>1. Limits \subseteq Uint32 /\ 0 \in Uint32
  BY LimitsAssumption, Int32MaxAssumption DEF Uint32
<1>2. engine \in Engines(Limits) /\ engine \in Engines(Uint32) /\ CapFollowsFocus
  BY <1>1 DEF Init, Engines, CapFollowsFocus
<1>3. regime \in [by : Screens \union {"nobody", "game"}, limit : Uint32]
  BY <1>1 DEF Init
<1>4. TypeOK
  <2>1. found \in SUBSET ClientFunctions /\ cfg \in Config
    BY ConfigsAssumption, FoundAssumption DEF Init
  <2>2. focusState \in Focus /\ prevGeoZoneId \in Int
    BY DEF Init, Focus
  <2> QED BY <1>2, <1>3, <2>1, <2>2 DEF Init, TypeOK
<1>5. "nobody" \notin Screens
  BY DEF Screens
<1> QED BY <1>2, <1>4, <1>5
        DEF Init, IInv, AltTabKeepsLimit, FocusRestored, NullCallNeedsSplitHooks,
            HooksExplainState, StaticsFollowWorld, FlagNeedsLive

LEMMA StepInv == IInv /\ [Next]_vars => IInv'
<1> SUFFICES ASSUME IInv, [Next]_vars PROVE IInv'
  OBVIOUS
<1> DEFINE Rest == /\ found \in SUBSET ClientFunctions
                   /\ cfg \in Config
                   /\ world \in Worlds \union {NoWorld}
                   /\ focusState \in Focus
                   /\ focusUnfocusAddr \in {NoAddr, ObjAddr}
                   /\ applyLowFpsToNextLoadingScreen \in BOOLEAN
                   /\ prevGeoZoneId \in Int
                   /\ inTransitState \in BOOLEAN
                   /\ seen = NoWorld \/ seen \in [isTransit : BOOLEAN, geozoneId : Zones]
                   /\ StaticsFollowWorld /\ FlagNeedsLive
<1>1. Rest /\ TypeOK
  BY DEF IInv, TypeOK
<1>2. ASSUME hkBNSClient_GetWorld PROVE IInv'
  <2>1. LimitsInv'
    BY <1>1, <1>2, GetWorldOutcome, LimitsOutcomeKeepsInv
       DEF hkBNSClient_GetWorld, Hooked, IInv
  <2>2. /\ world \in Worlds /\ world.isTransit \in BOOLEAN
        /\ world.geozoneId \in Zones /\ world.geozoneId \in Int
    <3>1. world \in Worlds
      BY <1>1, <1>2 DEF hkBNSClient_GetWorld
    <3>2. world \in [isTransit : BOOLEAN, leaveReason : LeaveReasons, geozoneId : Zones]
      BY <3>1 DEF Worlds
    <3>3. world.isTransit \in BOOLEAN
      BY <3>2
    <3>4. world.geozoneId \in Zones
      BY <3>2
    <3>5. Zones \subseteq Int
      BY ZonesAssumption DEF Int32
    <3> QED BY <3>1, <3>3, <3>4, <3>5
  <2>3. Rest'
    <3>1. /\ inTransitState' = world.isTransit /\ prevGeoZoneId' = world.geozoneId
          /\ seen' = [isTransit |-> world.isTransit, geozoneId |-> world.geozoneId]
          /\ applyLowFpsToNextLoadingScreen' \in BOOLEAN /\ FlagNeedsLive'
          /\ UNCHANGED <<found, cfg, world, focusState, focusUnfocusAddr>>
      BY <1>1, <1>2, GetWorldOutcome DEF hkBNSClient_GetWorld, FlagNeedsLive, View
    <3>2. StaticsFollowWorld'
      BY <3>1 DEF StaticsFollowWorld
    <3> QED BY <1>1, <2>2, <3>1, <3>2
  <2> QED BY <2>1, <2>3 DEF LimitsInv, IInv, TypeOK
<1>3. ASSUME NEW l \in Limits, hkSetForegroundFpsLimit(l) PROVE IInv'
  <2>1. LimitsInv'
    BY <1>1, <1>3, OverrideType, SavedFacts
       DEF hkSetForegroundFpsLimit, SaveForeground, Hooked
  <2>2. Rest'
    BY <1>1, <1>3 DEF hkSetForegroundFpsLimit, StaticsFollowWorld, FlagNeedsLive
  <2> QED BY <2>1, <2>2 DEF LimitsInv, IInv, TypeOK
<1>4. ASSUME NEW l \in Limits, SaveBackground(l) PROVE IInv'
  <2>1. l \in Uint32
    BY LimitsAssumption, Int32MaxAssumption DEF Uint32
  <2>2. LimitsInv'
    BY <1>4, <2>1, SavedFacts DEF SaveBackground, plugin
  <2>3. Rest'
    BY <1>1, <1>4 DEF SaveBackground, plugin, StaticsFollowWorld, FlagNeedsLive
  <2> QED BY <2>2, <2>3 DEF LimitsInv, IInv, TypeOK
<1>5. ASSUME NEW f \in Focus, hkFocusUnfocus(f) PROVE IInv'
  <2>1. LimitsInv'
    BY <1>5, FocusEventFacts DEF hkFocusUnfocus, Hooked
  <2>2. Rest'
    BY <1>1, <1>5 DEF hkFocusUnfocus, StaticsFollowWorld, FlagNeedsLive
  <2> QED BY <2>1, <2>2 DEF LimitsInv, IInv, TypeOK
<1>6. ASSUME Unhooked PROVE IInv'
  <2>1. LimitsInv'
    <3>1. CASE \E l \in Limits : SaveForeground(l)
      <4>1. Limits \subseteq Uint32
        BY LimitsAssumption, Int32MaxAssumption DEF Uint32
      <4> QED BY <1>6, <3>1, <4>1, SavedFacts DEF Unhooked, SaveForeground, plugin
    <3>2. CASE /\ "FocusUnfocus" \notin found
               /\ \E f \in Focus : engine' = FocusUnfocus(engine, f)
               /\ UNCHANGED regime
      BY <1>6, <3>2, FocusEventFacts DEF Unhooked, plugin
    <3> QED BY <1>6, <3>1, <3>2 DEF Unhooked
  <2>2. Rest'
    BY <1>1, <1>6 DEF Unhooked, plugin, StaticsFollowWorld, FlagNeedsLive
  <2> QED BY <2>1, <2>2 DEF LimitsInv, IInv, TypeOK
<1>7. CASE WorldChanges \/ ConfigReloaded \/ UNCHANGED vars
  <2>1. LimitsInv'
    BY <1>7, LimitsUnchanged DEF WorldChanges, ConfigReloaded, plugin, vars
  <2>2. Rest'
    BY <1>1, <1>7, ConfigsAssumption
       DEF WorldChanges, ConfigReloaded, plugin, vars, StaticsFollowWorld, FlagNeedsLive
  <2> QED BY <2>1, <2>2 DEF LimitsInv, IInv, TypeOK
<1> QED BY <1>2, <1>3, <1>4, <1>5, <1>6, <1>7 DEF Next

\* IInv is an invariant of the limiter.
THEOREM Invariance == Spec => []IInv
<1>1. Init => IInv
  BY InitInv
<1>2. IInv /\ [Next]_vars => IInv'
  BY StepInv
<1> QED BY <1>1, <1>2, PTL DEF Spec

-----------------------------------------------------------------------------
(* The invariants TLC checks. *)

\* Every variable keeps the type Hooks.cpp gives it.
THEOREM TypeCorrect == Spec => []TypeOK
<1>1. IInv => TypeOK
  BY DEF IInv
<1> QED BY <1>1, Invariance, PTL

\* The limit in force is always the stored one for the client's focus.
THEOREM CapInvariant == Spec => []CapFollowsFocus
<1>1. IInv => CapFollowsFocus
  BY DEF IInv
<1> QED BY <1>1, Invariance, PTL

\* Alt-tabbing during a loading screen does not bring an old limit back.
THEOREM AltTabInvariant == Spec => []AltTabKeepsLimit
<1>1. IInv => AltTabKeepsLimit
  BY DEF IInv
<1> QED BY <1>1, Invariance, PTL

\* The focus the plugin plays to the client is undone.
THEOREM FocusInvariant == Spec => []FocusRestored
<1>1. IInv => FocusRestored
  BY DEF IInv
<1> QED BY <1>1, Invariance, PTL

\* The limiter ends the process only with the one unlucky set of hooks.
THEOREM NullCallInvariant == Spec => []NullCallNeedsSplitHooks
<1>1. IInv => NullCallNeedsSplitHooks
  BY DEF IInv
<1> QED BY <1>1, Invariance, PTL

-----------------------------------------------------------------------------
(* The action properties. *)

\* Looking at the World writes limits only while a loading screen is up.
THEOREM WritesInTransit == Spec => WritesOnlyWhileLoading
<1>1. IInv /\ [Next]_vars => [hkBNSClient_GetWorld /\ ~world.isTransit => UNCHANGED engine]_vars
  <2> SUFFICES ASSUME IInv, hkBNSClient_GetWorld, ~world.isTransit
               PROVE  UNCHANGED engine
    OBVIOUS
  <2>1. world \in Worlds
    BY DEF IInv, TypeOK, hkBNSClient_GetWorld
  <2>2. world.geozoneId # 0
    BY <2>1 DEF Worlds
  <2> QED BY <2>2 DEF hkBNSClient_GetWorld, EnterCharSelect, ToCharSelect, ToggleTransit,
                      NothingNew
<1> QED BY <1>1, Invariance, PTL DEF Spec, WritesOnlyWhileLoading

\* Looking again at a World that has not changed changes nothing.
THEOREM SameWorld == Spec => SameWorldChangesNothing
<1>1. IInv /\ [Next]_vars =>
        [hkBNSClient_GetWorld /\ seen = View(world)
           => UNCHANGED <<engine, plugin, status>>]_vars
  <2> SUFFICES ASSUME IInv, hkBNSClient_GetWorld, seen = View(world)
               PROVE  UNCHANGED <<engine, plugin, status>>
    OBVIOUS
  <2>1. world \in Worlds
    BY DEF IInv, TypeOK, hkBNSClient_GetWorld
  <2>2. seen # NoWorld
    BY <2>1, WorldAssumption
  <2>3. inTransitState = world.isTransit /\ prevGeoZoneId = world.geozoneId
    BY <2>2 DEF IInv, StaticsFollowWorld, View
  <2>4. ~TransitChanged /\ ~ZoneChanged
    BY <2>3 DEF TransitChanged, ZoneChanged
  <2>5. NothingNew
    BY <2>4 DEF hkBNSClient_GetWorld, EnterCharSelect, ToCharSelect, ToggleTransit, TransitEdge
  <2> QED BY <2>3, <2>5 DEF NothingNew, hkBNSClient_GetWorld, plugin
<1> QED BY <1>1, Invariance, PTL DEF Spec, SameWorldChangesNothing

-----------------------------------------------------------------------------
(* The limiter implements LoadingPolicy. *)

\* A screen's step of the limiter is a loading screen of the policy.
LEMMA ScreenStep ==
  ASSUME NEW screen \in Screens, NEW limit, NEW unfocus,
         screen \in Policy!Allowed,
         SetAndApplyFpsLimits(screen, limit, unfocus),
         applyLowFpsToNextLoadingScreen' = (screen = "low")
  PROVE  Policy!LoadingScreen(screen)
<1>1. regime'.by \in {screen, regime.by}
  <2>1. UNCHANGED regime \/ regime' = [by |-> screen, limit |-> AsUint32(limit)]
    BY DEF SetAndApplyFpsLimits
  <2> QED BY <2>1
<1> QED BY <1>1 DEF Policy!LoadingScreen

\* Every behaviour of the limiter is one of the policy.
THEOREM ImplementsPolicy == Spec => FollowsPolicy
<1>1. Init => Policy!PolicyInit
  BY DEF Init, Policy!PolicyInit
<1>2. IInv /\ [Next]_vars => [Policy!PolicyNext]_Policy!policyVars
  <2> SUFFICES ASSUME IInv, [Next]_vars
               PROVE  Policy!PolicyNext \/ UNCHANGED Policy!policyVars
    OBVIOUS
  <2>1. CASE hkBNSClient_GetWorld /\ EnterCharSelect
    <3>1. Policy!LoadingScreen("low")
      BY <2>1, ScreenStep DEF EnterCharSelect, SetAndApplyLowFps, Policy!Allowed, Screens
    <3> QED BY <3>1 DEF Policy!PolicyNext
  <2>2. CASE hkBNSClient_GetWorld /\ ToggleTransit /\ world.isTransit
    <3>1. SetAndApplyUnlimitedFps
      BY <2>2, LowBranchIsDead DEF ToggleTransit, SetInTransitFps
    <3>2. CASE Live /\ applyLowFpsToNextLoadingScreen
      <4>1. Policy!LoadingScreen("charselect")
        BY <3>1, <3>2, ScreenStep DEF SetAndApplyUnlimitedFps, Policy!Allowed, Screens
      <4> QED BY <4>1 DEF Policy!PolicyNext
    <3>3. CASE ~applyLowFpsToNextLoadingScreen
      <4>1. Policy!LoadingScreen("loading")
        BY <3>1, <3>3, ScreenStep DEF SetAndApplyUnlimitedFps, Policy!Allowed, Screens
      <4> QED BY <4>1 DEF Policy!PolicyNext
    <3> QED BY <3>2, <3>3 DEF IInv, FlagNeedsLive
  <2>3. CASE hkBNSClient_GetWorld /\ ((ToggleTransit /\ ~world.isTransit) \/ NothingNew)
    BY <2>3 DEF ToggleTransit, NothingNew, Policy!policyVars
  <2>4. CASE \E l \in Limits : hkSetForegroundFpsLimit(l) \/ SaveBackground(l)
    BY <2>4 DEF hkSetForegroundFpsLimit, SaveForeground, SaveBackground, plugin,
                Policy!PolicyNext, Policy!GameSavesLimits
  <2>5. CASE \E f \in Focus : hkFocusUnfocus(f)
    BY <2>5 DEF hkFocusUnfocus, Policy!policyVars
  <2>6. CASE Unhooked
    BY <2>6 DEF Unhooked, SaveForeground, plugin, Policy!PolicyNext,
                Policy!GameSavesLimits, Policy!policyVars
  <2>7. CASE WorldChanges \/ ConfigReloaded \/ UNCHANGED vars
    BY <2>7 DEF WorldChanges, ConfigReloaded, vars, plugin, Policy!policyVars
  <2> QED BY <2>1, <2>2, <2>3, <2>4, <2>5, <2>6, <2>7 DEF Next, hkBNSClient_GetWorld
<1> QED BY <1>1, <1>2, Invariance, PTL DEF Spec, FollowsPolicy, Policy!PolicySpec
=============================================================================
