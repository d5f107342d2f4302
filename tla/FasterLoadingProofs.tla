------------------------- MODULE FasterLoadingProofs -------------------------
(***************************************************************************)
(* Proofs about the limiter and the hotkey on the same settings, for every *)
(* value of the constants: to the limiter a reload is its environment, and *)
(* screens and saved limits go by the last complete file.                  *)
(***************************************************************************)
EXTENDS FasterLoading, TLAPS

CfgInConfigs == cfg \in Configs

-----------------------------------------------------------------------------
(* What a step of the hotkey does to the process and to the settings. *)

\* A step of the hotkey starts in a running process, and ends it as ConfigReload says.
LEMMA HotkeyStatus ==
  ASSUME HotkeyStep
  PROVE  status = "running" /\ status' # "null FocusUnfocus"
<1> PICK e \in Hotkey!Events : Hotkey!hkBUIWorld_ProcessEvent(e)
  BY DEF HotkeyStep
<1>1. status = "running" /\ (Hotkey!Pressed(e) \/ Hotkey!Released(e))
  BY DEF Hotkey!hkBUIWorld_ProcessEvent, Hotkey!handleKeyEventWithModifiers
<1>2. CASE Hotkey!Pressed(e)
  <2>1. Hotkey!Unwind \/ Hotkey!Notify
    BY <1>2 DEF Hotkey!Pressed, Hotkey!onPress
  <2> QED BY <1>1, <2>1 DEF Hotkey!Unwind, Hotkey!Notify
<1>3. CASE Hotkey!Released(e)
  BY <1>1, <1>3 DEF Hotkey!Released
<1> QED BY <1>1, <1>2, <1>3

\* The hotkey's module has the settings' operators as its own.
LEMMA SameReload ==
  ASSUME NEW c, NEW f
  PROVE  Hotkey!ReloadFromConfig(c, f) = ReloadFromConfig(c, f)
<1>1. Hotkey!Throws(f) = Throws(f)
  BY DEF Hotkey!Throws, Throws, Hotkey!Keys, Keys
<1>2. ASSUME NEW k, NEW old PROVE Hotkey!Assigned(f, k, old) = Assigned(f, k, old)
  BY DEF Hotkey!Assigned, Assigned, Hotkey!ReadBefore, ReadBefore
<1> QED BY <1>1, <1>2 DEF Hotkey!ReloadFromConfig, ReloadFromConfig

\* A reload leaves settings the limiter's environment may leave: the default, for
\* which the assumption makes an exception, is not loaded, and then the hotkey is off.
LEMMA HotkeyConfigs ==
  ASSUME CfgInConfigs, ini \in IniFiles, HotkeyStep
  PROVE  CfgInConfigs'
<1> PICK e \in Hotkey!Events : Hotkey!hkBUIWorld_ProcessEvent(e)
  BY DEF HotkeyStep
<1>1. cfg.Loaded /\ (Hotkey!Pressed(e) \/ Hotkey!Released(e))
  BY DEF Hotkey!hkBUIWorld_ProcessEvent, Hotkey!handleKeyEventWithModifiers
<1>2. CASE Hotkey!Pressed(e)
  <2>1. cfg' = ReloadFromConfig(cfg, ini)
    BY <1>2, SameReload DEF Hotkey!Pressed, Hotkey!onPress
  <2>2. cfg # DefaultConfig
    BY <1>1 DEF DefaultConfig
  <2> QED BY <2>1, <2>2, ConfigsClosed DEF CfgInConfigs
<1>3. CASE Hotkey!Released(e)
  BY <1>3 DEF Hotkey!Released, CfgInConfigs
<1> QED BY <1>1, <1>2, <1>3

IInv == CfgInConfigs /\ ini \in IniFiles

LEMMA InitInv == PluginInit => IInv
  BY DEF PluginInit, Init, Hotkey!Init, IInv, CfgInConfigs

LEMMA StepInv == IInv /\ [PluginNext]_allVars => IInv'
<1> SUFFICES ASSUME IInv, [PluginNext]_allVars PROVE IInv'
  OBVIOUS
<1>1. CASE LimiterStep
  <2>1. UNCHANGED <<cfg, ini>>
    BY <1>1 DEF LimiterStep, hkBNSClient_GetWorld, hkSetForegroundFpsLimit, SaveBackground,
                hkFocusUnfocus, Unhooked
  <2> QED BY <2>1 DEF IInv, CfgInConfigs
<1>2. CASE HotkeyStep
  <2>1. ini' = ini
    BY <1>2 DEF HotkeyStep, Hotkey!hkBUIWorld_ProcessEvent
  <2> QED BY <1>2, <2>1, HotkeyConfigs DEF IInv
<1>3. CASE Outside
  BY <1>3 DEF Outside, WorldChanges, Hotkey!PlayerEditsIni, IInv, CfgInConfigs
<1>4. CASE UNCHANGED allVars
  BY <1>4 DEF allVars, vars, IInv, CfgInConfigs
<1> QED BY <1>1, <1>2, <1>3, <1>4 DEF PluginNext

THEOREM Invariance == PluginSpec => []IInv
  BY InitInv, StepInv, PTL DEF PluginSpec

-----------------------------------------------------------------------------
(* The limiter does not notice the hotkey. *)

LEMMA LimiterInit == PluginInit => Limiter!Init
  BY DEF PluginInit, Init, Limiter!Init, Limiter!Engines, Engines, Limiter!StoredLimit,
         StoredLimit, Limiter!Focus, Focus

\* Setting a limit is the same step when the process is seen by the limiter alone.
LEMMA SameSetAndApply ==
  ASSUME NEW screen, NEW limit, NEW unfocus, status = "running",
         SetAndApplyFpsLimits(screen, limit, unfocus)
  PROVE  Limiter!SetAndApplyFpsLimits(screen, limit, unfocus)
<1>1. Limiter!Applied(engine, Limiter!AsUint32(limit), unfocus) = Applied(engine, AsUint32(limit), unfocus)
  BY DEF Limiter!Applied, Applied, Limiter!AsUint32, AsUint32, Limiter!FocusUnfocus, FocusUnfocus
<1>2. Limiter!AsUint32(limit) = AsUint32(limit)
  BY DEF Limiter!AsUint32, AsUint32
<1> QED BY <1>1, <1>2 DEF SetAndApplyFpsLimits, Limiter!SetAndApplyFpsLimits

LEMMA SameGetWorld == hkBNSClient_GetWorld => Limiter!hkBNSClient_GetWorld
<1> SUFFICES ASSUME hkBNSClient_GetWorld PROVE Limiter!hkBNSClient_GetWorld
  OBVIOUS
<1>1. status = "running"
  BY DEF hkBNSClient_GetWorld, Hooked
<1>2. /\ Limiter!ToCharSelect <=> ToCharSelect
      /\ Limiter!TransitEdge <=> TransitEdge
  BY DEF Limiter!ToCharSelect, ToCharSelect, Limiter!TransitEdge, TransitEdge,
         Limiter!TransitChanged, TransitChanged, Limiter!ZoneChanged, ZoneChanged
<1>3. SetAndApplyLowFps => Limiter!SetAndApplyLowFps
  BY <1>1, SameSetAndApply DEF SetAndApplyLowFps, Limiter!SetAndApplyLowFps
<1>4. SetAndApplyUnlimitedFps => Limiter!SetAndApplyUnlimitedFps
  BY <1>1, SameSetAndApply DEF SetAndApplyUnlimitedFps, Limiter!SetAndApplyUnlimitedFps
<1>5. SetInTransitFps => Limiter!SetInTransitFps
  BY <1>3, <1>4 DEF SetInTransitFps, Limiter!SetInTransitFps
<1>6. EnterCharSelect => Limiter!EnterCharSelect
  BY <1>2, <1>3 DEF EnterCharSelect, Limiter!EnterCharSelect
<1>7. ToggleTransit => Limiter!ToggleTransit
  BY <1>2, <1>5 DEF ToggleTransit, Limiter!ToggleTransit
<1>8. NothingNew => Limiter!NothingNew
  BY <1>2 DEF NothingNew, Limiter!NothingNew
<1> QED BY <1>1, <1>6, <1>7, <1>8
     DEF hkBNSClient_GetWorld, Limiter!hkBNSClient_GetWorld, Hooked, Limiter!Hooked,
         View, Limiter!View

\* The other steps of the limiter do not end the process.
LEMMA SameLimiterStep == LimiterStep => Limiter!Next
<1>1. hkBNSClient_GetWorld => Limiter!Next
  BY SameGetWorld DEF Limiter!Next
<1>2. ASSUME NEW l \in Limits, hkSetForegroundFpsLimit(l) PROVE Limiter!Next
  <2>1. Limiter!hkSetForegroundFpsLimit(l)
    BY <1>2 DEF hkSetForegroundFpsLimit, Limiter!hkSetForegroundFpsLimit, Hooked, Limiter!Hooked,
                ForegroundOverride, Limiter!ForegroundOverride, SaveForeground,
                Limiter!SaveForeground, SetForegroundFpsLimit, Limiter!SetForegroundFpsLimit
  <2> QED BY <2>1 DEF Limiter!Next
<1>3. ASSUME NEW l \in Limits, SaveBackground(l) PROVE Limiter!Next
  <2>1. Limiter!SaveBackground(l)
    BY <1>3 DEF SaveBackground, Limiter!SaveBackground, plugin, Limiter!plugin,
                SetBackgroundFpsLimit, Limiter!SetBackgroundFpsLimit
  <2> QED BY <2>1 DEF Limiter!Next
<1>4. ASSUME NEW f \in Focus, hkFocusUnfocus(f) PROVE Limiter!Next
  <2>1. Limiter!hkFocusUnfocus(f)
    BY <1>4 DEF hkFocusUnfocus, Limiter!hkFocusUnfocus, Hooked, Limiter!Hooked,
                FocusUnfocus, Limiter!FocusUnfocus
  <2> QED BY <2>1 DEF Limiter!Next, Focus, Limiter!Focus
<1>5. Unhooked => Limiter!Unhooked
  BY DEF Unhooked, Limiter!Unhooked, plugin, Limiter!plugin, SaveForeground,
         Limiter!SaveForeground, SetForegroundFpsLimit, Limiter!SetForegroundFpsLimit,
         FocusUnfocus, Limiter!FocusUnfocus, Focus, Limiter!Focus
<1> QED BY <1>1, <1>2, <1>3, <1>4, <1>5 DEF LimiterStep, Limiter!Next

\* To the limiter the hotkey changes the settings, or nothing.
LEMMA HotkeyIsReload ==
  ASSUME IInv, HotkeyStep
  PROVE  Limiter!ConfigReloaded
<1>1. status = "running" /\ status' # "null FocusUnfocus" /\ cfg' \in Configs
  BY HotkeyStatus, HotkeyConfigs DEF IInv, CfgInConfigs
<1>2. UNCHANGED <<found, world, engine, plugin, regime, seen>>
  BY DEF HotkeyStep, Hotkey!hkBUIWorld_ProcessEvent
<1> QED BY <1>1, <1>2 DEF Limiter!ConfigReloaded, plugin, Limiter!plugin

LEMMA LimiterRefinedStep == IInv /\ [PluginNext]_allVars => [Limiter!Next]_(Limiter!vars)
<1> SUFFICES ASSUME IInv, [PluginNext]_allVars PROVE [Limiter!Next]_(Limiter!vars)
  OBVIOUS
<1>1. CASE LimiterStep
  BY <1>1, SameLimiterStep
<1>2. CASE HotkeyStep
  BY <1>2, HotkeyIsReload DEF Limiter!Next
<1>3. CASE WorldChanges
  <2>1. Limiter!WorldChanges
    BY <1>3 DEF WorldChanges, Limiter!WorldChanges, plugin, Limiter!plugin, Worlds, Limiter!Worlds
  <2> QED BY <2>1 DEF Limiter!Next
<1>4. CASE Hotkey!PlayerEditsIni /\ UNCHANGED <<engine, plugin, regime, seen>>
  BY <1>4 DEF Hotkey!PlayerEditsIni, Limiter!vars, plugin, Limiter!plugin
<1>5. CASE UNCHANGED allVars
  BY <1>5 DEF allVars, vars, Limiter!vars, plugin, Limiter!plugin
<1> QED BY <1>1, <1>2, <1>3, <1>4, <1>5 DEF PluginNext, Outside

\* The limiter with the hotkey beside it is the limiter with an environment that
\* changes the settings: everything proved of FpsLimiter holds of the plugin.
THEOREM PluginImplementsLimiter == PluginSpec => LimiterRefined
<1>1. PluginInit => Limiter!Init
  BY LimiterInit
<1>2. IInv /\ [PluginNext]_allVars => [Limiter!Next]_(Limiter!vars)
  BY LimiterRefinedStep
<1> QED BY <1>1, <1>2, Invariance, PTL DEF PluginSpec, LimiterRefined, Limiter!Spec

-----------------------------------------------------------------------------
(* The file that was read last. *)

\* A complete file that was read last is in force.
CompleteInForce ==
  Complete(lastRead) =>
    /\ cfg.ForegroundLimit = lastRead.Foreground
    /\ cfg.CharselectLimit = lastRead.Charselect
    /\ cfg.LoadingLimit = lastRead.Loading

\* The limits object keeps its field.
EngineHasLimit == "fg" \in DOMAIN engine

LEMMA ReloadComplete ==
  ASSUME NEW c, NEW f, Complete(f)
  PROVE  LET r == ReloadFromConfig(c, f) IN
           r.ForegroundLimit = f.Foreground /\ r.CharselectLimit = f.Charselect
             /\ r.LoadingLimit = f.Loading
<1>1. \A k \in Keys : f[k] # Absent /\ f[k] # Malformed
  BY SentinelAssumption DEF Complete, Int32
<1>2. \A k \in Keys : ReadBefore(k) \union {k} \subseteq Keys
  BY DEF ReadBefore, Keys
<1>3. ASSUME NEW k \in Keys, NEW old PROVE Assigned(f, k, old) = f[k]
  BY <1>1, <1>2 DEF Assigned
<1>4. /\ Assigned(f, "Foreground", c.ForegroundLimit) = f.Foreground
      /\ Assigned(f, "Charselect", c.CharselectLimit) = f.Charselect
      /\ Assigned(f, "Loading", c.LoadingLimit) = f.Loading
  BY <1>3 DEF Keys
<1> QED BY <1>4 DEF ReloadFromConfig, Complete

LEMMA FileInit == PluginInit => CompleteInForce /\ EngineHasLimit
<1> SUFFICES ASSUME PluginInit PROVE CompleteInForce /\ EngineHasLimit
  OBVIOUS
<1>1. cfg = ReloadFromConfig(Hotkey!DefaultConfig, ini) /\ lastRead = ini
  BY SameReload DEF PluginInit, Hotkey!Init
<1>2. CompleteInForce
  BY <1>1, ReloadComplete DEF CompleteInForce
<1>3. EngineHasLimit
  BY DEF PluginInit, Init, Engines, EngineHasLimit
<1> QED BY <1>2, <1>3

\* Only the hotkey changes the settings, and it remembers what it read.
LEMMA HotkeyKeepsFile ==
  ASSUME CompleteInForce, HotkeyStep
  PROVE  CompleteInForce'
<1> PICK e \in Hotkey!Events : Hotkey!hkBUIWorld_ProcessEvent(e)
  BY DEF HotkeyStep
<1>1. CASE Hotkey!Pressed(e)
  <2>1. cfg' = ReloadFromConfig(cfg, ini) /\ lastRead' = ini
    BY <1>1, SameReload DEF Hotkey!Pressed, Hotkey!onPress
  <2> QED BY <2>1, ReloadComplete DEF CompleteInForce
<1>2. CASE Hotkey!Released(e)
  BY <1>2 DEF Hotkey!Released, CompleteInForce
<1> QED BY <1>1, <1>2 DEF Hotkey!hkBUIWorld_ProcessEvent, Hotkey!handleKeyEventWithModifiers

\* Every operation on the limits object changes fields of it.
LEMMA EngineOperations ==
  ASSUME EngineHasLimit
  PROVE  /\ \A f : "fg" \in DOMAIN FocusUnfocus(engine, f)
         /\ \A l : "fg" \in DOMAIN SetForegroundFpsLimit(engine, l)
         /\ \A l : "fg" \in DOMAIN SetBackgroundFpsLimit(engine, l)
         /\ \A l, u : "fg" \in DOMAIN Applied(engine, l, u)
  BY DEF EngineHasLimit, FocusUnfocus, SetForegroundFpsLimit, SetBackgroundFpsLimit, Applied

\* A GetWorld call that writes limits takes the one of its kind of screen.
ScreenLimit ==
  \/ UNCHANGED <<engine, regime>>
  \/ /\ \E l, u : engine' = Applied(engine, l, u)
     /\ \/ regime' = [by |-> "loading", limit |-> AsUint32(cfg.LoadingLimit)]
        \/ regime' = [by |-> "charselect", limit |-> AsUint32(cfg.CharselectLimit)]
        \/ regime' = [by |-> "low", limit |-> AsUint32(5)]

LEMMA GetWorldLimit == hkBNSClient_GetWorld => ScreenLimit
<1> SUFFICES ASSUME hkBNSClient_GetWorld PROVE ScreenLimit
  OBVIOUS
<1>1. ASSUME NEW screen, NEW limit, NEW u, SetAndApplyFpsLimits(screen, limit, u)
      PROVE  \/ UNCHANGED <<engine, regime>>
             \/ /\ engine' = Applied(engine, AsUint32(limit), u)
                /\ regime' = [by |-> screen, limit |-> AsUint32(limit)]
  BY <1>1 DEF SetAndApplyFpsLimits
<1>2. SetAndApplyLowFps => ScreenLimit
  BY <1>1 DEF SetAndApplyLowFps, ScreenLimit
<1>3. SetAndApplyUnlimitedFps => ScreenLimit
  <2> SUFFICES ASSUME SetAndApplyUnlimitedFps PROVE ScreenLimit
    OBVIOUS
  <2>1. CASE Live /\ applyLowFpsToNextLoadingScreen
    BY <1>1, <2>1 DEF SetAndApplyUnlimitedFps, ScreenLimit
  <2>2. CASE ~(Live /\ applyLowFpsToNextLoadingScreen)
    BY <1>1, <2>2 DEF SetAndApplyUnlimitedFps, ScreenLimit
  <2> QED BY <2>1, <2>2
<1>4. EnterCharSelect => ScreenLimit
  BY <1>2 DEF EnterCharSelect
<1>5. ToggleTransit => ScreenLimit
  BY <1>2, <1>3 DEF ToggleTransit, SetInTransitFps, ScreenLimit
<1>6. NothingNew => ScreenLimit
  BY DEF NothingNew, ScreenLimit
<1> QED BY <1>4, <1>5, <1>6 DEF hkBNSClient_GetWorld

LEMMA FileStep ==
  CompleteInForce /\ EngineHasLimit /\ [PluginNext]_allVars => (CompleteInForce /\ EngineHasLimit)'
<1> SUFFICES ASSUME CompleteInForce, EngineHasLimit, [PluginNext]_allVars
             PROVE  CompleteInForce' /\ EngineHasLimit'
  OBVIOUS
<1>1. CASE LimiterStep
  <2>1. UNCHANGED <<cfg, lastRead>>
    BY <1>1 DEF LimiterStep, hkBNSClient_GetWorld, hkSetForegroundFpsLimit, SaveBackground,
                hkFocusUnfocus, Unhooked
  <2>2. CompleteInForce'
    BY <2>1 DEF CompleteInForce
  <2>3. hkBNSClient_GetWorld => EngineHasLimit'
    BY GetWorldLimit, EngineOperations DEF ScreenLimit, EngineHasLimit
  <2>4. ASSUME NEW l \in Limits, hkSetForegroundFpsLimit(l) \/ SaveBackground(l)
        PROVE  EngineHasLimit'
    BY <2>4, EngineOperations DEF hkSetForegroundFpsLimit, SaveForeground, SaveBackground,
                                  EngineHasLimit
  <2>5. ASSUME NEW f \in Focus, hkFocusUnfocus(f) PROVE EngineHasLimit'
    BY <2>5, EngineOperations DEF hkFocusUnfocus, EngineHasLimit
  <2>6. Unhooked => EngineHasLimit'
    BY EngineOperations DEF Unhooked, SaveForeground, EngineHasLimit
  <2> QED BY <1>1, <2>2, <2>3, <2>4, <2>5, <2>6 DEF LimiterStep
<1>2. CASE HotkeyStep
  BY <1>2, HotkeyKeepsFile DEF HotkeyStep, EngineHasLimit
<1>3. CASE Outside
  BY <1>3 DEF Outside, WorldChanges, Hotkey!PlayerEditsIni, CompleteInForce, EngineHasLimit
<1>4. CASE UNCHANGED allVars
  BY <1>4 DEF allVars, vars, CompleteInForce, EngineHasLimit
<1> QED BY <1>1, <1>2, <1>3, <1>4 DEF PluginNext

\* The limit of a screen that starts and of a limit the game saves is the one in
\* the file read last, when it is complete.
LEMMA FileCounts ==
  ASSUME CompleteInForce, EngineHasLimit, [PluginNext]_allVars, Complete(lastRead)
  PROVE  /\ regime' # regime /\ regime'.by = "loading" => regime'.limit = AsUint32(lastRead.Loading)
         /\ regime' # regime /\ regime'.by = "charselect" => regime'.limit = AsUint32(lastRead.Charselect)
         /\ (\E l \in Limits : hkSetForegroundFpsLimit(l)) /\ lastRead.Foreground > -1
              => engine'.fg = lastRead.Foreground
<1>1. /\ cfg.ForegroundLimit = lastRead.Foreground
      /\ cfg.CharselectLimit = lastRead.Charselect
      /\ cfg.LoadingLimit = lastRead.Loading
  BY DEF CompleteInForce
<1>2. \/ ScreenLimit
      \/ regime'.by = "game"
      \/ regime' = regime
  <2>1. hkBNSClient_GetWorld => ScreenLimit
    BY GetWorldLimit
  <2>2. ASSUME NEW l \in Limits, hkSetForegroundFpsLimit(l) \/ SaveBackground(l)
        PROVE  regime'.by = "game"
    BY <2>2 DEF hkSetForegroundFpsLimit, SaveForeground, SaveBackground
  <2>3. ASSUME NEW f \in Focus, hkFocusUnfocus(f) PROVE regime' = regime
    BY <2>3 DEF hkFocusUnfocus
  <2>4. Unhooked => regime'.by = "game" \/ regime' = regime
    BY DEF Unhooked, SaveForeground
  <2>5. HotkeyStep \/ Outside \/ UNCHANGED allVars => regime' = regime
    BY DEF HotkeyStep, Outside, WorldChanges, allVars, vars
  <2> QED BY <2>1, <2>2, <2>3, <2>4, <2>5 DEF PluginNext, LimiterStep
<1>3. regime' # regime /\ regime'.by = "loading" => regime'.limit = AsUint32(lastRead.Loading)
  BY <1>1, <1>2 DEF ScreenLimit
<1>4. regime' # regime /\ regime'.by = "charselect" => regime'.limit = AsUint32(lastRead.Charselect)
  BY <1>1, <1>2 DEF ScreenLimit
<1>5. ASSUME NEW l \in Limits, hkSetForegroundFpsLimit(l), lastRead.Foreground > -1
      PROVE  engine'.fg = lastRead.Foreground
  <2>1. engine' = SetForegroundFpsLimit(engine, lastRead.Foreground)
    BY <1>1, <1>5 DEF hkSetForegroundFpsLimit, SaveForeground, ForegroundOverride
  <2> QED BY <2>1 DEF SetForegroundFpsLimit, EngineHasLimit
<1> QED BY <1>3, <1>4, <1>5

\* However many reloads ended half done before it, a complete file that was read
\* last is the one that screens and saved limits go by.
THEOREM LastFile == PluginSpec => LastCompleteFileCounts
<1>1. PluginInit => CompleteInForce /\ EngineHasLimit
  BY FileInit
<1>2. CompleteInForce /\ EngineHasLimit /\ [PluginNext]_allVars => (CompleteInForce /\ EngineHasLimit)'
  BY FileStep
<1>3. CompleteInForce /\ EngineHasLimit /\ [PluginNext]_allVars =>
        [Complete(lastRead) =>
           /\ (regime' # regime /\ regime'.by = "loading" => regime'.limit = AsUint32(lastRead.Loading))
           /\ (regime' # regime /\ regime'.by = "charselect" => regime'.limit = AsUint32(lastRead.Charselect))
           /\ (\E l \in Limits : hkSetForegroundFpsLimit(l)) /\ lastRead.Foreground > -1
                => engine'.fg = lastRead.Foreground]_allVars
  BY FileCounts
<1> QED BY <1>1, <1>2, <1>3, PTL DEF PluginSpec, LastCompleteFileCounts
=============================================================================
