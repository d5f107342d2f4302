----------------------------- MODULE HookThreads -----------------------------
(***************************************************************************)
(* The limiter's hooks with one step for every access of a static, of      *)
(* g_PluginConfig, of the World and of the limits object, and for every    *)
(* call into the client.  A hook runs on the thread that calls the client  *)
(* function, nothing locks, and FocusUnfocus of the client may itself ask  *)
(* for the World, so a hook may run inside another on the same thread.     *)
(* Which thread of the client does what is not in the repository: a        *)
(* schedule is one answer, and the behaviours follow any of Schedules.     *)
(***************************************************************************)
EXTENDS FpsLimiter, Sequences

CONSTANTS
  Threads,    \* threads of the client
  Schedules   \* what each of them does, and (a bound) how many hooks run inside
              \* each other on one thread

AllDuties == {"GetWorld", "SetForegroundFpsLimit", "FocusUnfocus", "WorldChanges",
              "SaveBackground", "ConfigReloaded"}

ASSUME SchedulesAssumption ==
  Schedules \subseteq [duties : [Threads -> SUBSET AllDuties], maxDepth : Nat \ {0}]

VARIABLES
  schedule,  \* the one this client follows
  stack,     \* the hooks running on each thread, the innermost first
  before,    \* history: the state when no hook had taken effect in part
  race       \* history: how focus events got in the way of the last limits' focus

statics == <<focusState, focusUnfocusAddr, applyLowFpsToNextLoadingScreen,
             prevGeoZoneId, inTransitState>>
hookVars == <<vars, schedule, stack, before, race>>

\* A hook that runs: its next step, the argument or limit it holds, the kind of
\* screen it has decided on, and where it goes on after its call into the client.
Frame(at, arg) == [at |-> at, arg |-> arg, screen |-> "none", next |-> "return"]
Look == Frame("look", 0)

Now == [engine |-> engine, focusState |-> focusState, focusUnfocusAddr |-> focusUnfocusAddr,
        applyLow |-> applyLowFpsToNextLoadingScreen, prevGeoZoneId |-> prevGeoZoneId,
        inTransitState |-> inTransitState, regime |-> regime, seen |-> seen]

ThreadsInit ==
  /\ Init
  /\ found = ClientFunctions
  /\ schedule \in Schedules
  /\ stack = [t \in Threads |-> <<>>]
  /\ before = Now
  /\ race = [toggle |-> FALSE, restore |-> FALSE]

-----------------------------------------------------------------------------
(* Frames. *)

Duties(t)    == schedule.duties[t]
Idle(t)      == stack[t] = <<>>
Top(t)       == stack[t][1]
At(t, where) == ~Idle(t) /\ Top(t).at = where

\* The innermost hook of t goes on as fs: gone, itself, or itself under a call.
Continue(t, fs) == stack' = [stack EXCEPT ![t] = fs \o Tail(@)]
Return(t)       == stack' = [stack EXCEPT ![t] = Tail(@)]
Goto(t, where)  == Continue(t, <<[Top(t) EXCEPT !.at = where]>>)
Decide(t, where, screen) == Continue(t, <<[Top(t) EXCEPT !.at = where, !.screen = screen]>>)
Call(t, focus, next) ==
  Continue(t, <<[Top(t) EXCEPT !.at = "call", !.arg = focus, !.next = next]>>)

-----------------------------------------------------------------------------
(* The client calls a hooked function. *)

Enters(t, duty, frame) ==
  /\ duty \in Duties(t) /\ Idle(t)
  /\ stack' = [stack EXCEPT ![t] = <<frame>>]
  /\ UNCHANGED vars

ClientCalls(t) ==
  \/ Enters(t, "GetWorld", Look)
  \/ \E l \in Limits : Enters(t, "SetForegroundFpsLimit", Frame("addr", l))
  \/ \E f \in Focus : Enters(t, "FocusUnfocus", Frame("focus", f))

\* The client's own FocusUnfocus, which may ask for the World on its way, once its
\* focus has changed.
CallClient(t) ==
  LET caller == IF Top(t).next = "return" THEN <<>>
                ELSE <<[Top(t) EXCEPT !.at = Top(t).next]>>
  IN  /\ At(t, "call")
      /\ engine' = FocusUnfocus(engine, Top(t).arg)
      /\ \/ Continue(t, caller)
         \/ /\ "GetWorld" \in Duties(t) /\ Len(stack[t]) < schedule.maxDepth
            /\ Continue(t, <<Look>> \o caller)
      /\ UNCHANGED <<found, cfg, world, statics, status, regime, seen>>

-----------------------------------------------------------------------------
(* hkBNSClient_GetWorld. *)

\* Lines 137 to 147: which branch is taken.
LookAtWorld(t) ==
  /\ At(t, "look")
  /\ \/ world = NoWorld /\ Return(t) /\ UNCHANGED seen
     \/ /\ world # NoWorld
        /\ \/ ToCharSelect /\ Decide(t, "limit", "low")
           \/ ~ToCharSelect /\ TransitEdge /\ world.isTransit /\ Goto(t, "kind")
           \/ ~ToCharSelect /\ TransitEdge /\ ~world.isTransit /\ Goto(t, "record")
           \/ ~ToCharSelect /\ ~TransitEdge /\ Goto(t, "zone")
        /\ seen' = View(world)
  /\ UNCHANGED <<found, cfg, world, engine, statics, status, regime>>

\* SetInTransitFps looks at the World again ...
ChooseFunction(t) ==
  /\ At(t, "kind")
  /\ IF Live /\ world.leaveReason = 1 /\ world.geozoneId = 0
     THEN Decide(t, "limit", "low")
     ELSE Goto(t, "flag")
  /\ UNCHANGED vars

\* Mutant: the flag is reset when it is read.
ChooseScreenResets(t) ==
  /\ At(t, "flag")
  /\ Decide(t, "limit", IF Live /\ applyLowFpsToNextLoadingScreen THEN "charselect" ELSE "loading")
  /\ applyLowFpsToNextLoadingScreen' = FALSE
  /\ UNCHANGED <<found, cfg, world, engine, focusState, focusUnfocusAddr, prevGeoZoneId,
                 inTransitState, status, regime, seen>>

\* ... SetAndApplyUnlimitedFps at the flag ...
ChooseScreen(t) ==
  /\ At(t, "flag")
  /\ Decide(t, "limit", IF Live /\ applyLowFpsToNextLoadingScreen THEN "charselect" ELSE "loading")
  /\ UNCHANGED vars

\* ... and then at the settings.
LimitOf(screen) == CASE screen = "low" -> 5
                     [] screen = "charselect" -> AsUint32(cfg.CharselectLimit)
                     [] screen = "loading" -> AsUint32(cfg.LoadingLimit)

ChooseLimit(t) ==
  /\ At(t, "limit")
  /\ Continue(t, <<[Top(t) EXCEPT !.at = "fg", !.arg = LimitOf(Top(t).screen)]>>)
  /\ UNCHANGED vars

StoreForeground(t) ==
  /\ At(t, "fg")
  /\ IF focusUnfocusAddr = NoAddr
     THEN Goto(t, "applied") /\ UNCHANGED engine
     ELSE Goto(t, "bg") /\ engine' = [engine EXCEPT !.fg = Top(t).arg]
  /\ UNCHANGED <<found, cfg, world, statics, status, regime, seen>>

StoreBackground(t) ==
  /\ At(t, "bg")
  /\ Goto(t, "away")
  /\ engine' = [engine EXCEPT !.bg = Top(t).arg]
  /\ regime' = [by |-> Top(t).screen, limit |-> Top(t).arg]
  /\ UNCHANGED <<found, cfg, world, statics, status, seen>>

AfterBack(t) == IF Top(t).screen = "loading" THEN "applied" ELSE "unfocus"

\* Mutants: the focus stays as it is, and it ends the wrong way round.
AwayIsBack == focusState

BackIsAway == 1 - focusState

Away == 1 - focusState

Back == focusState

\* focusState is read for each of the first two calls anew.
PlayFocus(t) ==
  /\ \/ At(t, "away") /\ Call(t, Away, "back")
     \/ At(t, "back") /\ Call(t, Back, AfterBack(t))
     \/ At(t, "unfocus") /\ Call(t, 0, "applied")
  /\ UNCHANGED vars

\* Mutant: the flag is never reset.
StickyFlag(screen) == applyLowFpsToNextLoadingScreen \/ screen = "low"

NewFlag(screen) == screen = "low"

SetFlag(t) ==
  /\ At(t, "applied")
  /\ Goto(t, "record")
  /\ applyLowFpsToNextLoadingScreen' = NewFlag(Top(t).screen)
  /\ UNCHANGED <<found, cfg, world, engine, focusState, focusUnfocusAddr, prevGeoZoneId,
                 inTransitState, status, regime, seen>>

\* Lines 144 and 156 read the World again, and so does line 162.
RecordTransit(t) ==
  /\ At(t, "record")
  /\ Goto(t, "zone")
  /\ inTransitState' = world.isTransit
  /\ UNCHANGED <<found, cfg, world, engine, focusState, focusUnfocusAddr, prevGeoZoneId,
                 applyLowFpsToNextLoadingScreen, status, regime, seen>>

RecordZone(t) ==
  /\ At(t, "zone")
  /\ Return(t)
  /\ prevGeoZoneId' = world.geozoneId
  /\ UNCHANGED <<found, cfg, world, engine, focusState, focusUnfocusAddr, inTransitState,
                 applyLowFpsToNextLoadingScreen, status, regime, seen>>

-----------------------------------------------------------------------------
(* hkSetForegroundFpsLimit and hkFocusUnfocus. *)

\* The address is the same in every call, so what else is stored with it is one step.
StoreAddress(t) ==
  /\ \/ At(t, "addr") /\ Goto(t, "override") /\ UNCHANGED focusState
     \/ At(t, "focus") /\ Call(t, Top(t).arg, "return") /\ focusState' = Top(t).arg
  /\ focusUnfocusAddr' = ObjAddr
  /\ UNCHANGED <<found, cfg, world, engine, applyLowFpsToNextLoadingScreen, prevGeoZoneId,
                 inTransitState, status, regime, seen>>

\* The setting is tested and then read again.
Override(t) ==
  /\ \/ At(t, "override") /\ Goto(t, IF cfg.ForegroundLimit > -1 THEN "use" ELSE "save")
     \/ At(t, "use") /\ Continue(t, <<[Top(t) EXCEPT !.at = "save", !.arg = cfg.ForegroundLimit]>>)
  /\ UNCHANGED vars

Save(t) ==
  /\ At(t, "save")
  /\ Return(t)
  /\ SaveForeground(Top(t).arg)
  /\ UNCHANGED <<found, cfg, world, statics, status, seen>>

-----------------------------------------------------------------------------
(* The environment, on the threads that have it as a duty. *)

\* t is past line 137 of hkBNSClient_GetWorld, with the pointer to the World.
WorldSteps == {"kind", "flag", "limit", "fg", "bg", "away", "back", "unfocus",
               "applied", "record", "zone"}
UsesWorld(t) == \E i \in DOMAIN stack[t] :
                  {stack[t][i].at, stack[t][i].next} \intersect WorldSteps # {}

\* The client deletes no World that a hook has a pointer to.
Environment(t) ==
  /\ Idle(t)
  /\ \/ /\ "WorldChanges" \in Duties(t)
        /\ WorldChanges
        /\ world' = NoWorld => \A u \in Threads : ~UsesWorld(u)
     \/ "ConfigReloaded" \in Duties(t) /\ ConfigReloaded
     \/ "SaveBackground" \in Duties(t) /\ \E l \in Limits : SaveBackground(l)
  /\ UNCHANGED stack

Step(t) ==
  \/ ClientCalls(t) \/ CallClient(t)
  \/ LookAtWorld(t) \/ ChooseFunction(t) \/ ChooseScreen(t) \/ ChooseLimit(t)
  \/ StoreForeground(t) \/ StoreBackground(t) \/ PlayFocus(t) \/ SetFlag(t)
  \/ RecordTransit(t) \/ RecordZone(t)
  \/ StoreAddress(t) \/ Override(t) \/ Save(t)

\* No hook that may change the limits or the flag has taken effect in part.
Fresh(frames) == frames \in {<<>>, <<Look>>}
Limiting(t)   == Duties(t) \intersect {"GetWorld", "SetForegroundFpsLimit"} # {}
Settled == \A t \in Threads : Limiting(t) => Fresh(stack[t])
Quiet   == \A t \in Threads : Fresh(stack[t])

\* toggle: since limits were stored last, a hook, perhaps one inside another, has read
\* focusState for its second call and it was not what the first call was made with.
\* restore: focusState is not what the second call that reached the client last was
\* made with.
Observe(t) ==
  race' = [toggle  |-> \/ At(t, "back") /\ Top(t).arg # Away
                       \/ race.toggle /\ ~At(t, "bg"),
           restore |-> IF At(t, "call") /\ Top(t).next = AfterBack(t)
                       THEN Top(t).arg # Back ELSE race.restore]

ThreadsNext ==
  /\ UNCHANGED schedule
  /\ \E t \in Threads : \/ Step(t) /\ Observe(t)
                        \/ Environment(t) /\ UNCHANGED race
  /\ before' = IF Settled' THEN Now' ELSE before

ThreadsSpec == ThreadsInit /\ [][ThreadsNext]_hookVars
-----------------------------------------------------------------------------
(* Properties. *)

Atomic == INSTANCE FpsLimiter
            WITH engine <- before.engine, focusState <- before.focusState,
                 focusUnfocusAddr <- before.focusUnfocusAddr,
                 applyLowFpsToNextLoadingScreen <- before.applyLow,
                 prevGeoZoneId <- before.prevGeoZoneId,
                 inTransitState <- before.inTransitState,
                 regime <- before.regime, seen <- before.seen

\* All the client does, it does on the thread whose hooks change limits.
OneThread ==
  \E t \in Threads : Limiting(t) /\ \A u \in Threads \ {t} : Duties(u) = {}

\* With one thread, hooks running inside each other have the effect of hooks one
\* after the other: FpsLimiter, where a hook is one step, leaves nothing out
\* although the statics are written after the calls into the client (line 156).
HooksAreAtomic ==
  Atomic!Init /\ [][OneThread => [Atomic!Next]_(Atomic!vars)]_hookVars

\* Focus events on a thread of their own do not change which screens get which
\* limit: what LoadingPolicy promises needs no lock around focusState.
ScreensFollowPolicy == Atomic!FollowsPolicy

\* A screen's limit that does not reach the renderer needs one precise race: a
\* focus event between the two readings of focusState (lines 77 and 78).  A focus
\* event anywhere else in the hook, and half of one, is harmless.
StaleLimitNeedsRace ==
  Quiet /\ ~race.toggle => CapFollowsFocus /\ AltTabKeepsLimit

\* The client is left with another focus than the last event's only when that
\* event came between the second reading and its call (line 78).
LostFocusNeedsRace == Quiet /\ ~race.restore => FocusRestored
=============================================================================
