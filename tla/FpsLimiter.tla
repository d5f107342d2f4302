----------------------------- MODULE FpsLimiter -----------------------------
(***************************************************************************)
(* The limiter of Hooks.cpp: the three hooks that watch the client         *)
(* (hkBNSClient_GetWorld, hkSetForegroundFpsLimit, hkFocusUnfocus) and the *)
(* functions they call to put a loading limit in force.  A hook runs on    *)
(* the thread that calls the hooked client function and is one step here.  *)
(***************************************************************************)
EXTENDS GameClient, PluginConfig

CONSTANTS
  Live,         \* built with _BNSLIVE defined
  Zones,        \* geozone ids; 0 is character select
  LeaveReasons, \* values of World::_leaveReason
  Limits,       \* limits the player chooses in the client's settings
  Configs,      \* settings a reload of fps.ini may leave (ConfigReload says which)
  FoundSets,    \* which client functions the pattern scan may have found
  NoWorld,      \* BNSClient_GetWorld() returned nullptr
  NoAddr,       \* focusUnfocusAddr == 0
  ObjAddr       \* address of the client's limits object

ASSUME LiveAssumption   == Live \in BOOLEAN
ASSUME ZonesAssumption  == Zones \subseteq Int32
ASSUME LeaveAssumption  == LeaveReasons \subseteq -128 .. 127
ASSUME LimitsAssumption == Limits \subseteq 0 .. Int32Max
ASSUME ConfigsAssumption == Configs \subseteq Config
ASSUME FoundAssumption  == FoundSets \subseteq SUBSET ClientFunctions
ASSUME AddrAssumption   == NoAddr # ObjAddr

\* What the plugin reads of the client's World object.  The client keeps zone 0
\* in transit all the time (comment at Hooks.cpp:140).
Worlds == {w \in [isTransit : BOOLEAN, leaveReason : LeaveReasons, geozoneId : Zones] :
             w.geozoneId = 0 => w.isTransit}

\* What a GetWorld call compares with the one before it.
View(w) == [isTransit |-> w.isTransit, geozoneId |-> w.geozoneId]

ASSUME WorldAssumption == NoWorld \notin Worlds /\ \A w \in Worlds : NoWorld # View(w)

VARIABLES
  found,            \* the client functions whose hook or pointer InitDetours set
  cfg,              \* g_PluginConfig
  world,            \* the client's World object
  engine,           \* the client's limits object
  focusState, focusUnfocusAddr, applyLowFpsToNextLoadingScreen,
  prevGeoZoneId, inTransitState,     \* the statics of Hooks.cpp
  status,           \* "running", or how the process ended
  regime,           \* history: who wrote the limits last, and the limit
  seen              \* history: what the last GetWorld call saw of the World

plugin == <<focusState, focusUnfocusAddr, applyLowFpsToNextLoadingScreen,
            prevGeoZoneId, inTransitState>>
vars == <<found, cfg, world, engine, plugin, status, regime, seen>>

Screens == {"loading", "charselect", "low"}

Init ==
  /\ found \in FoundSets
  /\ cfg \in Configs
  /\ world = NoWorld
  /\ engine \in {e \in Engines(Limits) : e.cap = StoredLimit(e)}
  /\ focusState = 1
  /\ focusUnfocusAddr = NoAddr
  /\ applyLowFpsToNextLoadingScreen = FALSE
  /\ prevGeoZoneId = -1
  /\ inTransitState = FALSE
  /\ status = "running"
  /\ regime = [by |-> "nobody", limit |-> 0]
  /\ seen = NoWorld

Hooked(f) == status = "running" /\ f \in found

-----------------------------------------------------------------------------
(* Putting a limit in force. *)

\* Mutants of Applied: the toggle forgotten, the second store forgotten, and the
\* focus left at focused.
AppliedNoToggle(e, limit, unfocus) == [e EXCEPT !.fg = limit, !.bg = limit]

AppliedForegroundOnly(e, limit, unfocus) ==
  LET toggled == FocusUnfocus(FocusUnfocus([e EXCEPT !.fg = limit], 1 - focusState), focusState)
  IN  IF unfocus THEN FocusUnfocus(toggled, 0) ELSE toggled

AppliedLeavesFocus(e, limit, unfocus) ==
  LET stored == [e EXCEPT !.fg = limit, !.bg = limit]
  IN  FocusUnfocus(FocusUnfocus(stored, 0), 1)

\* The two stores, then the calls that make the client take them up.
Applied(e, limit, unfocus) ==
  LET stored  == [e EXCEPT !.fg = limit, !.bg = limit]
      toggled == FocusUnfocus(FocusUnfocus(stored, 1 - focusState), focusState)
  IN  IF unfocus THEN FocusUnfocus(toggled, 0) ELSE toggled

\* Mutant: the address is not checked before it is used.
UncheckedFpsLimits(screen, limit, unfocus) ==
  \/ /\ "FocusUnfocus" \in found
     /\ engine' = Applied(engine, AsUint32(limit), unfocus)
     /\ regime' = [by |-> screen, limit |-> AsUint32(limit)]
     /\ UNCHANGED status
  \/ /\ "FocusUnfocus" \notin found
     /\ status' = "null FocusUnfocus"
     /\ UNCHANGED <<engine, regime>>

\* oFocusUnfocus is a null pointer when its pattern was not found: the call
\* ends the process.  (The statics of a process that is gone are never read.)
SetAndApplyFpsLimits(screen, limit, unfocus) ==
  \/ /\ focusUnfocusAddr = NoAddr
     /\ UNCHANGED <<engine, regime, status>>
  \/ /\ focusUnfocusAddr # NoAddr
     /\ "FocusUnfocus" \in found
     /\ engine' = Applied(engine, AsUint32(limit), unfocus)
     /\ regime' = [by |-> screen, limit |-> AsUint32(limit)]
     /\ UNCHANGED status
  \/ /\ focusUnfocusAddr # NoAddr
     /\ "FocusUnfocus" \notin found
     /\ status' = "null FocusUnfocus"
     /\ UNCHANGED <<engine, regime>>

\* Mutant: the flag is never reset.
UnlimitedKeepsFlag ==
  /\ IF Live /\ applyLowFpsToNextLoadingScreen
     THEN SetAndApplyFpsLimits("charselect", cfg.CharselectLimit, TRUE)
     ELSE SetAndApplyFpsLimits("loading", cfg.LoadingLimit, FALSE)
  /\ UNCHANGED applyLowFpsToNextLoadingScreen

SetAndApplyUnlimitedFps ==
  /\ IF Live /\ applyLowFpsToNextLoadingScreen
     THEN SetAndApplyFpsLimits("charselect", cfg.CharselectLimit, TRUE)
     ELSE SetAndApplyFpsLimits("loading", cfg.LoadingLimit, FALSE)
  /\ applyLowFpsToNextLoadingScreen' = FALSE

SetAndApplyLowFps ==
  /\ SetAndApplyFpsLimits("low", 5, TRUE)
  /\ applyLowFpsToNextLoadingScreen' = TRUE

SetInTransitFps ==
  IF Live /\ world.leaveReason = 1 /\ world.geozoneId = 0
  THEN SetAndApplyLowFps
  ELSE SetAndApplyUnlimitedFps

-----------------------------------------------------------------------------
(* BNSClient_GetWorld is called: the plugin looks at the World it returns. *)

TransitChanged == world.isTransit # inTransitState
ZoneChanged    == world.geozoneId # prevGeoZoneId

ToCharSelect == /\ Live
                /\ TransitChanged \/ ZoneChanged
                /\ world.geozoneId = 0
                /\ world.leaveReason \in {1, 2}

\* Mutants: only leaving zone 0 counts as an edge, or only the transit flag.
LeavingCharSelect == prevGeoZoneId = 0 /\ ZoneChanged
FlagOnly == TransitChanged

TransitEdge  == TransitChanged \/ (prevGeoZoneId = 0 /\ ZoneChanged)

\* Mutant: the transit state is not remembered.
EnterCharSelectForgets ==
  /\ ToCharSelect
  /\ SetAndApplyLowFps
  /\ UNCHANGED inTransitState

EnterCharSelect ==
  /\ ToCharSelect
  /\ SetAndApplyLowFps
  /\ inTransitState' = world.isTransit

\* Mutant: the end of a loading screen is taken for the start of one.
ToggleTransitBothWays ==
  /\ ~ToCharSelect /\ TransitEdge
  /\ SetInTransitFps
  /\ inTransitState' = world.isTransit

ToggleTransit ==
  /\ ~ToCharSelect /\ TransitEdge
  /\ IF world.isTransit
     THEN SetInTransitFps
     ELSE UNCHANGED <<engine, regime, status, applyLowFpsToNextLoadingScreen>>
  /\ inTransitState' = world.isTransit

NothingNew ==
  /\ ~ToCharSelect /\ ~TransitEdge
  /\ UNCHANGED <<engine, regime, status, applyLowFpsToNextLoadingScreen, inTransitState>>

hkBNSClient_GetWorld ==
  /\ Hooked("GetWorld")
  /\ world # NoWorld
  /\ EnterCharSelect \/ ToggleTransit \/ NothingNew
  /\ prevGeoZoneId' = world.geozoneId
  /\ seen' = View(world)
  /\ UNCHANGED <<found, cfg, world, focusState, focusUnfocusAddr>>

-----------------------------------------------------------------------------
(* The client's own calls of the other two hooked functions. *)

\* The limit that reaches the client when it saves limit.
ForegroundOverride(limit) ==
  IF cfg.ForegroundLimit > -1 THEN cfg.ForegroundLimit ELSE limit

SaveForeground(limit) ==
  /\ engine' = SetForegroundFpsLimit(engine, limit)
  /\ regime' = [by |-> "game", limit |-> 0]

hkSetForegroundFpsLimit(limit) ==
  /\ Hooked("SetForegroundFpsLimit")
  /\ focusUnfocusAddr' = ObjAddr
  /\ SaveForeground(ForegroundOverride(limit))
  /\ UNCHANGED <<found, cfg, world, focusState, applyLowFpsToNextLoadingScreen,
                 prevGeoZoneId, inTransitState, status, seen>>

hkFocusUnfocus(focus) ==
  /\ Hooked("FocusUnfocus")
  /\ focusState' = focus
  /\ focusUnfocusAddr' = ObjAddr
  /\ engine' = FocusUnfocus(engine, focus)
  /\ UNCHANGED <<found, cfg, world, applyLowFpsToNextLoadingScreen,
                 prevGeoZoneId, inTransitState, status, regime, seen>>

-----------------------------------------------------------------------------
(* The environment: the client on its own, and the reload of the settings. *)

\* A function whose pattern was not found runs without the plugin.
Unhooked ==
  /\ status = "running"
  /\ \/ "SetForegroundFpsLimit" \notin found /\ \E l \in Limits : SaveForeground(l)
     \/ /\ "FocusUnfocus" \notin found
        /\ \E f \in Focus : engine' = FocusUnfocus(engine, f)
        /\ UNCHANGED regime
  /\ UNCHANGED <<found, cfg, world, plugin, status, seen>>

WorldChanges ==
  /\ status = "running"
  /\ world' \in Worlds \union {NoWorld}
  /\ UNCHANGED <<found, cfg, engine, plugin, status, regime, seen>>

\* The background limit is saved in the client's settings; no hook watches it.
SaveBackground(limit) ==
  /\ status = "running"
  /\ engine' = SetBackgroundFpsLimit(engine, limit)
  /\ regime' = [by |-> "game", limit |-> 0]
  /\ UNCHANGED <<found, cfg, world, plugin, status, seen>>

ConfigReloaded ==
  /\ status = "running"
  /\ cfg' \in Configs
  /\ UNCHANGED <<found, world, engine, plugin, status, regime, seen>>

Next ==
  \/ hkBNSClient_GetWorld
  \/ \E l \in Limits : hkSetForegroundFpsLimit(l) \/ SaveBackground(l)
  \/ \E f \in Focus : hkFocusUnfocus(f)
  \/ Unhooked \/ WorldChanges \/ ConfigReloaded

Spec == Init /\ [][Next]_vars

\* The client asks for its World every frame, so GetWorld calls never stop.
FairSpec == Spec /\ WF_vars(hkBNSClient_GetWorld)
-----------------------------------------------------------------------------
(* Properties. *)

\* The variables keep the types Hooks.cpp gives them: in particular the limits
\* object only ever holds uint32_t values, whatever sign fps.ini has.
TypeOK ==
  /\ found \in SUBSET ClientFunctions
  /\ cfg \in Config
  /\ world \in Worlds \union {NoWorld}
  /\ engine \in Engines(Uint32)
  /\ focusState \in Focus
  /\ focusUnfocusAddr \in {NoAddr, ObjAddr}
  /\ applyLowFpsToNextLoadingScreen \in BOOLEAN
  /\ prevGeoZoneId \in Int
  /\ inTransitState \in BOOLEAN
  /\ status \in {"running", "null FocusUnfocus"}
  /\ regime \in [by : Screens \union {"nobody", "game"}, limit : Uint32]
  /\ seen = NoWorld \/ seen \in [isTransit : BOOLEAN, geozoneId : Zones]

\* Storing into the limits object never leaves the renderer under a stale
\* limit: the limit in force is always the stored one for the client's focus.
CapFollowsFocus == engine.cap = StoredLimit(engine)

\* Once a loading screen's limit is set it stays in force, however often the
\* player alt-tabs, until the game saves a limit or the next screen starts.
AltTabKeepsLimit ==
  regime.by \in Screens =>
    /\ engine.cap = regime.limit
    /\ engine.fg = regime.limit /\ engine.bg = regime.limit

\* The focus the plugin plays to the client is undone: the client never takes
\* itself for focused when the last focus event said it is not, and under the
\* plain loading limit its focus is exactly the last event's.
FocusRestored ==
  /\ engine.focused = 1 => focusState = 1
  /\ regime.by = "loading" => engine.focused = focusState

\* The only way the limiter calls a null pointer: the client lets it see
\* loading screens and the limits object but not FocusUnfocus.
NullCallNeedsSplitHooks ==
  status # "running" =>
    found \intersect {"GetWorld", "SetForegroundFpsLimit", "FocusUnfocus"}
      = {"GetWorld", "SetForegroundFpsLimit"}

\* Looking at the World writes limits only while a loading screen is up, so a
\* limit the game reinstates after the screen is never taken back in play.
WritesOnlyWhileLoading ==
  [][hkBNSClient_GetWorld /\ ~world.isTransit => UNCHANGED engine]_vars

\* Looking again at a World whose transit flag and zone are the ones last seen
\* changes nothing: a limit saved in the middle of a screen survives.
SameWorldChangesNothing ==
  [][hkBNSClient_GetWorld /\ seen = View(world) => UNCHANGED <<engine, plugin, status>>]_vars

\* The kinds of loading screen follow each other as LoadingPolicy says.
Policy == INSTANCE LoadingPolicy
            WITH by <- regime.by, pending <- applyLowFpsToNextLoadingScreen
FollowsPolicy == Policy!PolicySpec

LoadingScreenUp == world # NoWorld /\ world.isTransit

\* A loading screen that starts once the limits object is known is noticed, and
\* its limit set, unless the screen is over before the client asks for its World.
LoadingScreenNoticed ==
  (/\ LoadingScreenUp /\ ~inTransitState /\ status = "running"
   /\ focusUnfocusAddr # NoAddr /\ {"GetWorld", "FocusUnfocus"} \subseteq found)
    ~> (regime.by \in Screens \/ ~LoadingScreenUp)

\* The low limit of the way to character select does not outlive it: the loading
\* screen after it is recognised although the client was in transit all along,
\* unless it is over, or back at character select, before the client asks.
LowLimitIsLifted ==
  (regime.by = "low" /\ LoadingScreenUp /\ world.geozoneId # 0)
    ~> (regime.by # "low" \/ ~LoadingScreenUp \/ world.geozoneId = 0)

\* README.md:9, "removing FPS limits during loading": with every hook in place
\* and the limits object known, the limits the client started with do not stay
\* in force for the whole of a loading screen into a zone of the game.
EveryLoadingScreenUnlimited ==
  (/\ LoadingScreenUp /\ world.geozoneId # 0 /\ regime.by = "nobody"
   /\ focusUnfocusAddr # NoAddr /\ ClientFunctions \subseteq found)
    ~> (regime.by # "nobody" \/ ~LoadingScreenUp \/ world.geozoneId = 0)
=============================================================================
