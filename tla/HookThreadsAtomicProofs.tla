---------------------- MODULE HookThreadsAtomicProofs ----------------------
(***************************************************************************)
(* Proofs about HookThreads, continued: hooks that run in steps and inside *)
(* each other against hooks that are one step.                             *)
(***************************************************************************)
EXTENDS HookThreadsProofs

Untouched ==
  /\ applyLowFpsToNextLoadingScreen = before.applyLow
  /\ inTransitState = before.inTransitState
  /\ prevGeoZoneId = before.prevGeoZoneId

NewBefore == ~Atomic!ToCharSelect /\ Atomic!TransitEdge /\ world.isTransit

\* The screen a hook that is one step decides on.
VerdictBefore(screen) ==
  \/ screen = "low" /\ Atomic!ToCharSelect
  \/ screen = "charselect" /\ NewBefore /\ Live /\ before.applyLow
  \/ screen = "loading" /\ NewBefore /\ ~(Live /\ before.applyLow)

LEMMA VerdictsBefore ==
  /\ \A j, k : VerdictBefore(j) /\ VerdictBefore(k) => j = k
  /\ Untouched =>
       /\ \A k : VerdictBefore(k) <=> Verdict(k)
       /\ NewBefore <=> NewScreen
       /\ (Atomic!ToCharSelect <=> ToCharSelect) /\ (Atomic!TransitEdge <=> TransitEdge)
<1>1. Untouched => (Atomic!ToCharSelect <=> ToCharSelect) /\ (Atomic!TransitEdge <=> TransitEdge)
  BY DEF Untouched, Atomic!ToCharSelect, Atomic!TransitEdge, Atomic!TransitChanged,
         Atomic!ZoneChanged, ToCharSelect, TransitEdge, TransitChanged, ZoneChanged
<1>2. Untouched => (NewBefore <=> NewScreen)
  BY <1>1 DEF NewBefore, NewScreen
<1>3. Untouched => \A k : VerdictBefore(k) <=> Verdict(k)
  BY <1>1, <1>2 DEF VerdictBefore, Verdict, Untouched
<1>4. \A j, k : VerdictBefore(j) /\ VerdictBefore(k) => j = k
  BY DEF VerdictBefore, NewBefore
<1> QED
  BY <1>1, <1>2, <1>3, <1>4


-----------------------------------------------------------------------------
(* What the hooks of t have done to the flag and to whose limits are in force,
   since the state in which none had taken effect in part. *)

\* t does all that the kinds of screen depend on: no other thread has more than
\* focus events and reloads of the settings.
Decides(s, t) ==
  /\ s.duties[t] \intersect {"GetWorld", "SetForegroundFpsLimit"} # {}
  /\ \A u \in Threads \ {t} : s.duties[u] \subseteq {"FocusUnfocus", "ConfigReloaded"}

OneDecides(s) == \E t \in Threads : Decides(s, t)

OtherHook(t) ==
  \/ Top(t).at \in {"addr", "override", "use", "save", "focus"}
  \/ Top(t).at = "call" /\ Top(t).next = "return"

\* A hook of another function than GetWorld.
DoneOther(t) ==
  /\ OtherHook(t) /\ Below(t) = {}
  /\ Untouched /\ regime = before.regime

\* A hook that has decided on no screen.
DoneNothing(t) ==
  /\ Top(t).at \in {"kind", "flag", "record", "zone"} /\ Top(t).screen = "none" /\ Below(t) = {}
  /\ regime = before.regime
  /\ Top(t).at # "zone" => Untouched
  /\ Top(t).at \in {"kind", "flag"} => NewBefore
  /\ Top(t).at \in {"record", "zone"} =>
       ~Atomic!ToCharSelect /\ (Atomic!TransitEdge => ~world.isTransit)
  /\ Top(t).at = "zone" =>
       /\ applyLowFpsToNextLoadingScreen = before.applyLow
       /\ inTransitState = world.isTransit

\* Hooks inside each other that have decided on a screen.
DoneScreen(t, screen) ==
  /\ ~OtherHook(t)
  /\ Top(t).screen \in {screen, "none"}
  /\ Top(t).screen = "none" => Below(t) # {}
  /\ \A f \in Below(t) : f.screen = screen
  /\ VerdictBefore(screen)
  /\ regime.by \in {screen, before.regime.by}
  /\ Top(t).at \in {"kind", "flag"} => NewBefore /\ Untouched
  /\ \/ Untouched /\ Top(t).at \notin {"record", "zone"}
     \/ /\ applyLowFpsToNextLoadingScreen = NewFlag(screen)
        /\ \/ Top(t).at = "record"
           \/ Top(t).at = "zone" /\ inTransitState = world.isTransit
           \/ Recorded

DoneInv(t) ==
  /\ FlagNeedsLive /\ (before.applyLow => Live)
  /\ Fresh(stack[t]) => before = Now
  /\ ~Fresh(stack[t]) => DoneOther(t) \/ DoneNothing(t) \/ \E k \in Screens : DoneScreen(t, k)

\* The history of a step when t decides.
Remembers(t) == before' = IF Fresh(stack[t])' THEN Now' ELSE before

\* What a step does to the state in which no hook has taken effect in part.
PolicyStep ==
  \/ before'.regime.by = before.regime.by /\ before'.applyLow = before.applyLow
  \/ before'.regime.by = "game" /\ before'.applyLow = before.applyLow
  \/ \E k \in Screens : /\ k \in {"low"} \union IF before.applyLow THEN {"charselect"} ELSE {"loading"}
                        /\ before'.applyLow = (k = "low")
                        /\ before'.regime.by \in {k, before.regime.by}

LEMMA FreshStack ==
  ASSUME NEW s \in Seq(Frames)
  PROVE  Fresh(s) <=> s = <<>> \/ (s[1] = Look /\ {s[i] : i \in 2 .. Len(s)} = {})
<1>1. ASSUME s = <<Look>> PROVE s[1] = Look /\ {s[i] : i \in 2 .. Len(s)} = {}
  <2>1. Len(s) = 1 /\ s[1] = Look
    BY <1>1
  <2>2. 2 .. 1 = {}
    OBVIOUS
  <2> QED
    BY <2>1, <2>2
<1>2. ASSUME s # <<>>, s[1] = Look, {s[i] : i \in 2 .. Len(s)} = {} PROVE s = <<Look>>
  <2>1. Len(s) \in Nat /\ Len(s) # 0
    BY <1>2, LenProperties, EmptySeq
  <2>2. ~(2 \in 2 .. Len(s))
    BY <1>2
  <2>3. \A n \in Nat : n # 0 /\ ~(2 \in 2 .. n) => n = 1
    OBVIOUS
  <2>4. Len(s) = 1
    BY <2>1, <2>2, <2>3
  <2> DEFINE r == <<Look>>
  <2>5. r \in Seq(Frames) /\ Len(r) = 1 /\ r[1] = Look
    BY LookIsFrame
  <2> HIDE DEF r
  <2>6. s = r
    BY <1>2, <2>4, <2>5, SeqEqual
  <2> QED
    BY <2>6 DEF r
<1> QED
  BY <1>1, <1>2 DEF Fresh

LEMMA FreshFacts ==
  ASSUME FramesInv, NEW t \in Threads
  PROVE  /\ Fresh(stack[t]) <=> Idle(t) \/ (Top(t) = Look /\ Below(t) = {})
         /\ Below(t) # {} => world # NoWorld
<1>1. stack[t] \in Seq(Frames) /\ Len(stack[t]) \in Nat /\ DOMAIN stack[t] = 1 .. Len(stack[t])
  BY LenProperties DEF FramesInv, ThreadsTypeOK
<1>2. ASSUME Below(t) # {} PROVE world # NoWorld
  <2>1. PICK i \in 2 .. Len(stack[t]) : TRUE
    BY <1>2 DEF Below
  <2>2. i \in 1 .. Len(stack[t]) /\ i >= 2 /\ i \in DOMAIN stack[t]
    BY <1>1, <2>1
  <2>3. stack[t][i].at \in WorldSteps
    BY <2>2 DEF FramesInv, StackOK, WorldSteps
  <2> QED
    BY <2>2, <2>3 DEF FramesInv, WorldThere, UsesWorld
<1> QED
  BY <1>1, <1>2, FreshStack DEF Idle, Top, Below

LEMMA FreshNext ==
  ASSUME FramesInv', NEW t \in Threads
  PROVE  Fresh(stack[t])' <=> Idle(t)' \/ (Top(t)' = Look /\ Below(t)' = {})
<1>1. stack'[t] \in Seq(Frames)
  BY DEF FramesInv, ThreadsTypeOK
<1>2. Below(t)' = {stack'[t][i] : i \in 2 .. Len(stack'[t])}
  BY DEF Below
<1> QED
  BY <1>1, <1>2, FreshStack DEF Idle, Top

\* The innermost hook of t goes on and has taken effect in part.
LEMMA GoesOn ==
  ASSUME FramesInv, FramesInv', NEW t \in Threads, ~Idle(t), Remembers(t),
         NEW f, Continue(t, <<f>>), f.at # "look" \/ Below(t) # {}
  PROVE  /\ ~Idle(t)' /\ Top(t)' = f /\ Below(t)' = Below(t)
         /\ ~Fresh(stack[t])' /\ before' = before
<1>1. ~Idle(t)' /\ Top(t)' = f /\ Below(t)' = Below(t)
  BY ReplacedBelow
<1>2. Look.at = "look"
  BY DEF Look, Frame
<1>3. ~Fresh(stack[t])'
  BY <1>1, <1>2, FreshNext
<1> QED
  BY <1>1, <1>3 DEF Remembers

LEMMA SameBefore ==
  ASSUME UNCHANGED <<before, world>>
  PROVE  /\ NewBefore' <=> NewBefore
         /\ \A k : VerdictBefore(k)' <=> VerdictBefore(k)
         /\ Atomic!ToCharSelect' <=> Atomic!ToCharSelect
         /\ Atomic!TransitEdge' <=> Atomic!TransitEdge
  BY DEF VerdictBefore, NewBefore, Atomic!ToCharSelect, Atomic!TransitEdge,
         Atomic!TransitChanged, Atomic!ZoneChanged

LEMMA SameUntouched ==
  ASSUME UNCHANGED <<before, applyLowFpsToNextLoadingScreen, inTransitState, prevGeoZoneId>>
  PROVE  Untouched' <=> Untouched
  BY DEF Untouched

\* The innermost hook of t goes on with the screen there is.
LEMMA MoveScreen ==
  ASSUME FramesInv, FramesInv', NEW t \in Threads, ~Idle(t), DoneInv(t), Remembers(t),
         NEW k \in Screens, DoneScreen(t, k), NEW f, Continue(t, <<f>>), UNCHANGED world,
         f.at \notin {"look", "kind", "flag", "addr", "override", "use", "save", "focus"},
         f.at = "call" => f.next # "return",
         f.screen = k, regime'.by \in {k, regime.by},
         \/ /\ UNCHANGED <<applyLowFpsToNextLoadingScreen, inTransitState, prevGeoZoneId>>
            /\ {f.at, Top(t).at} \intersect {"record", "zone"} = {}
         \/ /\ applyLowFpsToNextLoadingScreen' = NewFlag(k)
            /\ f.at = "record" \/ (f.at = "zone" /\ inTransitState' = world.isTransit)
  PROVE  DoneInv(t)' /\ PolicyStep
<1>1. /\ ~Idle(t)' /\ Top(t)' = f /\ Below(t)' = Below(t)
      /\ ~Fresh(stack[t])' /\ before' = before
  BY GoesOn
<1>2. /\ NewBefore' <=> NewBefore
      /\ \A j : VerdictBefore(j)' <=> VerdictBefore(j)
  BY <1>1, SameBefore
<1>3. FlagNeedsLive'
  BY DEF FlagNeedsLive, DoneInv, DoneScreen, VerdictBefore, NewFlag, Atomic!ToCharSelect
<1>4. regime'.by \in {k, before'.regime.by}
  BY <1>1 DEF DoneScreen
<1>5. \/ Untouched' /\ f.at \notin {"record", "zone"}
      \/ /\ applyLowFpsToNextLoadingScreen' = NewFlag(k)
         /\ \/ f.at = "record"
            \/ f.at = "zone" /\ inTransitState' = world'.isTransit
            \/ Recorded'
  BY <1>1, SameUntouched DEF DoneScreen, Recorded
<1>6. ~OtherHook(t)'
  BY <1>1 DEF OtherHook
<1>7. DoneScreen(t, k)'
  BY <1>1, <1>2, <1>4, <1>5, <1>6 DEF DoneScreen
<1> QED
  BY <1>1, <1>3, <1>7 DEF DoneInv, PolicyStep

\* The first hook of t decides on a screen, or the next on the one there is.
LEMMA DecideScreen ==
  ASSUME FramesInv, FramesInv', NEW t \in Threads, ~Idle(t), DoneInv(t), Remembers(t),
         UNCHANGED <<world, regime, applyLowFpsToNextLoadingScreen, inTransitState, prevGeoZoneId>>,
         NEW k \in Screens, Verdict(k), NEW f, Continue(t, <<f>>), f.at = "limit", f.screen = k,
         \/ Fresh(stack[t])
         \/ DoneNothing(t) /\ Top(t).at = "flag"
         \/ \E j \in Screens : DoneScreen(t, j) /\ Top(t).at \in {"look", "flag"}
  PROVE  DoneInv(t)' /\ PolicyStep
<1>1. /\ ~Idle(t)' /\ Top(t)' = f /\ Below(t)' = Below(t)
      /\ ~Fresh(stack[t])' /\ before' = before
  BY GoesOn
<1>2. /\ NewBefore' <=> NewBefore
      /\ \A j : VerdictBefore(j)' <=> VerdictBefore(j)
  BY <1>1, SameBefore
<1>3. Untouched /\ regime.by \in {k, before.regime.by} /\ \A g \in Below(t) : g.screen = k
  <2>1. CASE Fresh(stack[t])
    BY <2>1, FreshFacts DEF DoneInv, Now, Untouched
  <2>2. CASE DoneNothing(t) /\ Top(t).at = "flag"
    BY <2>2 DEF DoneNothing
  <2>3. ASSUME NEW j \in Screens, DoneScreen(t, j), Top(t).at \in {"look", "flag"}
        PROVE  Untouched /\ regime.by \in {k, before.regime.by} /\ \A g \in Below(t) : g.screen = k
    <3>1. Untouched
      BY <2>3, Verdicts DEF DoneScreen
    <3>2. j = k
      BY <2>3, <3>1, VerdictsBefore DEF DoneScreen
    <3> QED
      BY <2>3, <3>1, <3>2 DEF DoneScreen
  <2> QED
    BY <2>1, <2>2, <2>3
<1>4. VerdictBefore(k)' /\ Untouched'
  BY <1>1, <1>2, <1>3, VerdictsBefore, SameUntouched
<1>5. DoneScreen(t, k)'
  <2>1. ~OtherHook(t)' /\ Top(t)'.at \notin {"kind", "flag", "record", "zone"}
        /\ Top(t)'.screen = k /\ k # "none"
    BY <1>1 DEF OtherHook, Screens
  <2>2. (\A g \in Below(t)' : g.screen = k) /\ regime'.by \in {k, before'.regime.by}
    BY <1>1, <1>3
  <2> QED
    BY <1>4, <2>1, <2>2 DEF DoneScreen
<1> QED
  BY <1>1, <1>5 DEF DoneInv, PolicyStep, FlagNeedsLive

\* The last hook of t is over and has put nothing but what there was in force, or a
\* screen's limits.
LEMMA SettlesDone ==
  ASSUME FramesInv', NEW t \in Threads, DoneInv(t), Remembers(t), Fresh(stack[t])', FlagNeedsLive'
  PROVE  DoneInv(t)' /\ before' = Now'
  BY DEF DoneInv, Remembers, Now, FlagNeedsLive

\* A hook that looks is the first of t, or runs inside others with a screen.
LEMMA LookFrom ==
  ASSUME FramesInv, NEW t \in Threads, DoneInv(t), At(t, "look")
  PROVE  \/ Fresh(stack[t]) /\ Below(t) = {} /\ Untouched /\ regime = before.regime
         \/ \E k \in Screens : DoneScreen(t, k) /\ Below(t) # {} /\ world # NoWorld
<1>1. ~Idle(t) /\ Top(t).at = "look" /\ Top(t).screen = "none"
  BY TopFacts DEF FrameOK, At
<1>2. CASE Fresh(stack[t])
  BY <1>1, <1>2, FreshFacts DEF DoneInv, Now, Untouched
<1>3. ASSUME NEW k \in Screens, DoneScreen(t, k)
      PROVE  DoneScreen(t, k) /\ Below(t) # {} /\ world # NoWorld
  BY <1>1, <1>3, FreshFacts DEF DoneScreen
<1> QED
  BY <1>1, <1>2, <1>3 DEF DoneInv, DoneOther, OtherHook, DoneNothing

LEMMA LookDone ==
  ASSUME FramesInv, FramesInv', NEW t \in Threads, DoneInv(t), Remembers(t), LookAtWorld(t)
  PROVE  DoneInv(t)' /\ PolicyStep
<1>1. /\ ~Idle(t) /\ Top(t).at = "look" /\ At(t, "look")
      /\ UNCHANGED <<world, regime, applyLowFpsToNextLoadingScreen, inTransitState, prevGeoZoneId>>
  BY DEF LookAtWorld, At, statics
<1>2. Top(t) \in Frames /\ Top(t).screen = "none"
  BY <1>1, TopFacts DEF FrameOK
<1>3. \/ Fresh(stack[t]) /\ Below(t) = {} /\ Untouched /\ regime = before.regime
      \/ \E k \in Screens : DoneScreen(t, k) /\ Below(t) # {} /\ world # NoWorld
  BY <1>1, LookFrom
<1>4. CASE world = NoWorld /\ Return(t)
  <2>1. Fresh(stack[t]) /\ Below(t) = {}
    BY <1>3, <1>4
  <2>2. Idle(t)'
    BY <1>1, <1>4, <2>1, PoppedBelow
  <2>3. DoneInv(t)' /\ before' = Now'
    BY <1>1, <2>2, FreshNext, SettlesDone DEF DoneInv, FlagNeedsLive
  <2> QED
    BY <1>1, <2>1, <2>3 DEF DoneInv, PolicyStep, Now
<1>5. CASE ToCharSelect /\ Decide(t, "limit", "low")
  <2> DEFINE f == [Top(t) EXCEPT !.at = "limit", !.screen = "low"]
  <2>1. f.at = "limit" /\ f.screen = "low" /\ Continue(t, <<f>>)
    BY <1>2, <1>5 DEF Decide, Frames
  <2> HIDE DEF f
  <2>2. Verdict("low") /\ "low" \in Screens
    BY <1>5 DEF Verdict, Screens
  <2> QED
    BY <1>1, <1>3, <2>1, <2>2, DecideScreen
<1>6. ASSUME NEW where \in {"kind", "record", "zone"}, Goto(t, where), ~ToCharSelect,
             \/ where = "kind" /\ NewScreen
             \/ where = "record" /\ TransitEdge /\ ~world.isTransit
             \/ where = "zone" /\ ~TransitEdge
      PROVE  DoneInv(t)' /\ PolicyStep
  <2> DEFINE f == [Top(t) EXCEPT !.at = where]
  <2>1. f.at = where /\ f.screen = "none" /\ Continue(t, <<f>>)
    BY <1>2, <1>6 DEF Goto, Frames
  <2> HIDE DEF f
  <2>2. /\ ~Idle(t)' /\ Top(t)' = f /\ Below(t)' = Below(t)
        /\ ~Fresh(stack[t])' /\ before' = before
    BY <1>1, <2>1, GoesOn
  <2>3. /\ NewBefore' <=> NewBefore
        /\ \A j : VerdictBefore(j)' <=> VerdictBefore(j)
        /\ Atomic!ToCharSelect' <=> Atomic!ToCharSelect
        /\ Atomic!TransitEdge' <=> Atomic!TransitEdge
    BY <1>1, <2>2, SameBefore
  <2>4. Untouched' <=> Untouched
    BY <1>1, <2>2, SameUntouched
  <2>5. CASE Fresh(stack[t]) /\ Below(t) = {} /\ Untouched /\ regime = before.regime
    <3>1. where = "zone" => inTransitState = world.isTransit
      BY <1>6 DEF TransitEdge, TransitChanged
    <3>2. DoneNothing(t)'
      BY <1>1, <1>6, <2>1, <2>2, <2>3, <2>4, <2>5, <3>1, VerdictsBefore DEF DoneNothing, Untouched
    <3> QED
      BY <1>1, <2>2, <3>2 DEF DoneInv, PolicyStep, FlagNeedsLive
  <2>6. ASSUME NEW k \in Screens, DoneScreen(t, k), Below(t) # {}
        PROVE  DoneInv(t)' /\ PolicyStep
    <3>1. CASE where = "kind"
      <4>1. NewScreen
        BY <1>6, <3>1
      <4>2. Untouched /\ NewBefore
        BY <1>1, <2>6, <4>1, Verdicts, VerdictsBefore DEF DoneScreen
      <4>3. ~OtherHook(t)' /\ Top(t)'.at = "kind" /\ Top(t)'.screen = "none"
        BY <2>1, <2>2, <3>1 DEF OtherHook
      <4>4. DoneScreen(t, k)'
        BY <1>1, <2>2, <2>3, <2>4, <2>6, <4>2, <4>3 DEF DoneScreen
      <4> QED
        BY <1>1, <2>2, <4>4 DEF DoneInv, PolicyStep, FlagNeedsLive
    <3>2. CASE where # "kind"
      <4>1. ~Verdict(k)
        BY <1>6, <3>2 DEF Verdict, NewScreen
      <4>2. ~Untouched /\ Recorded /\ applyLowFpsToNextLoadingScreen = NewFlag(k)
        BY <1>1, <2>6, <4>1, VerdictsBefore DEF DoneScreen
      <4>3. where = "zone"
        BY <1>6, <3>2, <4>2 DEF Recorded, TransitEdge, TransitChanged, ZoneChanged
      <4>4. ~OtherHook(t)' /\ Top(t)'.at = "zone" /\ Top(t)'.screen = "none"
        BY <2>1, <2>2, <4>3 DEF OtherHook
      <4>5. applyLowFpsToNextLoadingScreen' = NewFlag(k) /\ inTransitState' = world'.isTransit
        BY <1>1, <4>2 DEF Recorded, NewFlag
      <4>6. DoneScreen(t, k)'
        BY <1>1, <2>2, <2>3, <2>6, <4>4, <4>5 DEF DoneScreen
      <4> QED
        BY <1>1, <2>2, <4>6 DEF DoneInv, PolicyStep, FlagNeedsLive
    <3> QED
      BY <3>1, <3>2
  <2> QED
    BY <1>3, <2>5, <2>6
<1> QED
  BY <1>4, <1>5, <1>6 DEF LookAtWorld, NewScreen

LEMMA CallDone ==
  ASSUME FramesInv, FramesInv', NEW t \in Threads, DoneInv(t), Remembers(t), CallClient(t)
  PROVE  DoneInv(t)' /\ PolicyStep
<1> DEFINE f == [Top(t) EXCEPT !.at = Top(t).next]
<1>1. /\ ~Idle(t) /\ Top(t).at = "call"
      /\ UNCHANGED <<world, regime, applyLowFpsToNextLoadingScreen, inTransitState, prevGeoZoneId>>
  BY DEF CallClient, At, statics
<1>2. Top(t) \in Frames /\ FrameOK(Duties(t), Top(t)) /\ stack \in [Threads -> Seq(Frames)]
  BY <1>1, TopFacts DEF FramesInv, ThreadsTypeOK
<1>3. \/ Return(t) /\ Top(t).next = "return"
      \/ Continue(t, <<Look>>) /\ Top(t).next = "return"
      \/ Continue(t, <<f>>) /\ Top(t).next # "return"
      \/ Continue(t, <<Look>> \o <<f>>) /\ Top(t).next # "return"
  BY <1>1, <1>2, NothingOnTop, LookAlone DEF CallClient
<1>4. f.screen = Top(t).screen
      /\ (Top(t).next # "return" => f.at \in {"back", "unfocus", "applied"})
  BY <1>2 DEF Frames, Nexts
<1> HIDE DEF f
<1>5. ~Fresh(stack[t])
  BY <1>1, FreshFacts DEF Look, Frame
<1>6. CASE Top(t).next = "return"
  <2>1. DoneOther(t)
    BY <1>1, <1>5, <1>6 DEF DoneInv, DoneNothing, DoneScreen, OtherHook
  <2>2. Fresh(stack[t])'
    <3>1. CASE Return(t)
      BY <1>1, <2>1, <3>1, PoppedBelow, FreshNext DEF DoneOther
    <3>2. CASE Continue(t, <<Look>>)
      BY <1>1, <2>1, <3>2, ReplacedBelow, FreshNext DEF DoneOther
    <3> QED
      BY <1>3, <1>6, <3>1, <3>2
  <2>3. DoneInv(t)' /\ before' = Now'
    BY <1>1, <2>2, SettlesDone DEF DoneInv, FlagNeedsLive
  <2> QED
    BY <1>1, <2>1, <2>3 DEF PolicyStep, Now, DoneOther, Untouched
<1>7. CASE Top(t).next # "return"
  <2>1. PICK k \in Screens : DoneScreen(t, k)
    BY <1>1, <1>5, <1>7 DEF DoneInv, DoneNothing, DoneOther, OtherHook
  <2>2. Top(t).screen = k
    BY <1>1, <1>2, <1>7, <2>1 DEF DoneScreen, FrameOK, Screens
  <2>3. CASE Continue(t, <<f>>)
    BY <1>1, <1>4, <1>7, <2>1, <2>2, <2>3, MoveScreen
  <2>4. CASE Continue(t, <<Look>> \o <<f>>)
    <3>1. ~Idle(t)' /\ Top(t)' = Look /\ Below(t)' = {f} \union Below(t)
      BY <1>1, <2>4, PushedBelow
    <3>2. ~Fresh(stack[t])' /\ before' = before
      BY <3>1, FreshNext DEF Remembers
    <3>3. /\ NewBefore' <=> NewBefore
          /\ \A j : VerdictBefore(j)' <=> VerdictBefore(j)
          /\ Untouched' <=> Untouched
      BY <1>1, <3>2, SameBefore, SameUntouched
    <3>4. Look.at = "look" /\ Look.screen = "none" /\ Look.next = "return"
      BY DEF Look, Frame
    <3>5. ~OtherHook(t)' /\ \A g \in Below(t)' : g.screen = k
      BY <1>4, <2>1, <2>2, <3>1, <3>4 DEF OtherHook, DoneScreen
    <3>6. \/ Untouched'
          \/ applyLowFpsToNextLoadingScreen' = NewFlag(k) /\ Recorded'
      BY <1>1, <2>1, <3>3 DEF DoneScreen, Recorded, NewFlag
    <3>7. DoneScreen(t, k)'
      BY <1>1, <2>1, <3>1, <3>2, <3>3, <3>4, <3>5, <3>6 DEF DoneScreen
    <3> QED
      BY <1>1, <3>2, <3>7 DEF DoneInv, PolicyStep, FlagNeedsLive
  <2> QED
    BY <1>3, <1>7, <2>3, <2>4
<1> QED
  BY <1>6, <1>7

\* A hook of t that is over: nothing of it was new, or its screen is remembered.
LEMMA ZoneDone ==
  ASSUME FramesInv, FramesInv', NEW t \in Threads, DoneInv(t), Remembers(t), RecordZone(t)
  PROVE  DoneInv(t)' /\ PolicyStep
<1>1. /\ ~Idle(t) /\ Top(t).at = "zone" /\ Return(t)
      /\ UNCHANGED <<world, regime, applyLowFpsToNextLoadingScreen, inTransitState>>
      /\ prevGeoZoneId' = world.geozoneId
  BY DEF RecordZone, At
<1>2. ~Fresh(stack[t])
  BY <1>1, FreshFacts DEF Look, Frame
<1>3. /\ ~Idle(t)' => Below(t) = {Top(t)'} \union Below(t)'
      /\ Idle(t)' => Below(t) = {} /\ Below(t)' = {}
      /\ ~Idle(t)' => Top(t)'.at \in {"back", "unfocus", "applied"}
  BY <1>1, PoppedBelow, ReturnsBelow
<1>4. Idle(t)' <=> Fresh(stack[t])'
  BY <1>3, FreshNext DEF Look, Frame
<1>5. CASE DoneNothing(t)
  <2>1. Fresh(stack[t])'
    BY <1>3, <1>4, <1>5 DEF DoneNothing
  <2>2. DoneInv(t)' /\ before' = Now'
    BY <1>1, <2>1, SettlesDone DEF DoneInv, FlagNeedsLive
  <2> QED
    BY <1>1, <1>5, <2>2 DEF PolicyStep, Now, DoneNothing
<1>6. ASSUME NEW k \in Screens, DoneScreen(t, k) PROVE DoneInv(t)' /\ PolicyStep
  <2>1. applyLowFpsToNextLoadingScreen = NewFlag(k) /\ Recorded'
    BY <1>1, <1>6 DEF DoneScreen, Recorded
  <2>2. CASE Idle(t)'
    <3>1. DoneInv(t)' /\ before' = Now'
      BY <1>1, <1>4, <2>2, SettlesDone DEF DoneInv, FlagNeedsLive
    <3>2. before'.applyLow = (k = "low") /\ before'.regime.by \in {k, before.regime.by}
      BY <1>1, <1>6, <2>1, <3>1 DEF Now, NewFlag, DoneScreen
    <3>3. k \in {"low"} \union IF before.applyLow THEN {"charselect"} ELSE {"loading"}
      BY <1>6 DEF DoneScreen, VerdictBefore, DoneInv
    <3> QED
      BY <3>1, <3>2, <3>3 DEF PolicyStep
  <2>3. CASE ~Idle(t)'
    <3>1. ~Fresh(stack[t])' /\ before' = before
      BY <1>4, <2>3 DEF Remembers
    <3>2. \A j : VerdictBefore(j)' <=> VerdictBefore(j)
      BY <1>1, <3>1, SameBefore
    <3>3. Top(t)' \in Below(t) /\ Below(t)' \subseteq Below(t)
      BY <1>3, <2>3
    <3>4. ~OtherHook(t)' /\ Top(t)'.at \notin {"kind", "flag"} /\ Top(t)'.screen = k
          /\ \A f \in Below(t)' : f.screen = k
      BY <1>3, <1>6, <2>3, <3>3 DEF OtherHook, DoneScreen
    <3>5. applyLowFpsToNextLoadingScreen' = NewFlag(k)
      BY <1>1, <2>1 DEF NewFlag
    <3>6. k # "none"
      BY DEF Screens
    <3>7. DoneScreen(t, k)'
      BY <1>1, <1>6, <2>1, <3>1, <3>2, <3>4, <3>5, <3>6 DEF DoneScreen
    <3> QED
      BY <1>1, <3>1, <3>7 DEF DoneInv, PolicyStep, FlagNeedsLive
  <2> QED
    BY <2>2, <2>3
<1> QED
  BY <1>1, <1>2, <1>5, <1>6 DEF DoneInv, DoneOther, OtherHook

\* A step of a hook of another function that leaves the limits alone.
LEMMA OtherDone ==
  ASSUME FramesInv, FramesInv', NEW t \in Threads, ~Idle(t), DoneInv(t), Remembers(t),
         Top(t).at \in {"addr", "override", "use", "focus"}, NEW f, Continue(t, <<f>>),
         \/ f.at \in {"override", "use", "save"}
         \/ f.at = "call" /\ f.next = "return",
         UNCHANGED <<world, regime, applyLowFpsToNextLoadingScreen, inTransitState, prevGeoZoneId>>
  PROVE  DoneInv(t)' /\ PolicyStep
<1>1. /\ ~Idle(t)' /\ Top(t)' = f /\ Below(t)' = Below(t)
      /\ ~Fresh(stack[t])' /\ before' = before
  BY GoesOn
<1>2. ~Fresh(stack[t])
  BY FreshFacts DEF Look, Frame
<1>3. DoneOther(t)
  BY <1>2 DEF DoneInv, DoneNothing, DoneScreen, OtherHook
<1>4. Untouched' <=> Untouched
  BY <1>1, SameUntouched
<1>5. OtherHook(t)'
  BY <1>1 DEF OtherHook
<1>6. DoneOther(t)'
  BY <1>1, <1>3, <1>4, <1>5 DEF DoneOther
<1> QED
  BY <1>1, <1>6 DEF DoneInv, PolicyStep, FlagNeedsLive

LEMMA StepDone ==
  ASSUME FramesInv, FramesInv', NEW t \in Threads, DoneInv(t), Remembers(t), Step(t)
  PROVE  DoneInv(t)' /\ PolicyStep
<1>1. ~Idle(t) => Top(t) \in Frames /\ FrameOK(Duties(t), Top(t))
  BY TopFacts
<1>2. ~Idle(t) /\ Top(t).at # "look" => ~Fresh(stack[t])
  BY FreshFacts DEF Look, Frame
<1>3. CASE ClientCalls(t)
  <2>1. PICK f : /\ f.at \in {"look", "addr", "focus"} /\ Idle(t) /\ UNCHANGED vars
                 /\ stack' = [stack EXCEPT ![t] = <<f>>]
                 /\ f.at = "look" => f = Look
    <3>1. CASE Enters(t, "GetWorld", Look)
      BY <3>1 DEF Enters, Look, Frame
    <3>2. ASSUME NEW l, Enters(t, "SetForegroundFpsLimit", Frame("addr", l))
          PROVE  \E f : /\ f.at \in {"look", "addr", "focus"} /\ Idle(t) /\ UNCHANGED vars
                        /\ stack' = [stack EXCEPT ![t] = <<f>>]
                        /\ f.at = "look" => f = Look
      <4> DEFINE g == Frame("addr", l)
      <4>1. /\ g.at = "addr" /\ Idle(t) /\ UNCHANGED vars
            /\ stack' = [stack EXCEPT ![t] = <<g>>]
        BY <3>2 DEF Enters, Frame
      <4> HIDE DEF g
      <4> QED
        BY <4>1
    <3>3. ASSUME NEW l, Enters(t, "FocusUnfocus", Frame("focus", l))
          PROVE  \E f : /\ f.at \in {"look", "addr", "focus"} /\ Idle(t) /\ UNCHANGED vars
                        /\ stack' = [stack EXCEPT ![t] = <<f>>]
                        /\ f.at = "look" => f = Look
      <4> DEFINE g == Frame("focus", l)
      <4>1. /\ g.at = "focus" /\ Idle(t) /\ UNCHANGED vars
            /\ stack' = [stack EXCEPT ![t] = <<g>>]
        BY <3>3 DEF Enters, Frame
      <4> HIDE DEF g
      <4> QED
        BY <4>1
    <3> QED
      BY <1>3, <3>1, <3>2, <3>3 DEF ClientCalls
  <2>2. ~Idle(t)' /\ Top(t)' = f /\ Below(t)' = {}
    BY <2>1, EnteredBelow
  <2>3. before = Now /\ Now' = Now /\ UNCHANGED <<regime, applyLowFpsToNextLoadingScreen,
                                                 inTransitState, prevGeoZoneId>>
    BY <2>1, FreshFacts DEF DoneInv, vars, plugin, Now
  <2>4. before' = before
    BY <2>3 DEF Remembers
  <2>5. CASE f.at = "look"
    <3>1. Fresh(stack[t])'
      BY <2>1, <2>2, <2>5, FreshNext
    <3> QED
      BY <2>3, <2>4, <3>1 DEF DoneInv, PolicyStep, FlagNeedsLive
  <2>6. CASE f.at # "look"
    <3>1. OtherHook(t)'
      BY <2>1, <2>2, <2>6 DEF OtherHook
    <3>2. Untouched' /\ regime' = before'.regime
      BY <2>3, <2>4 DEF Untouched, Now
    <3>3. ~Fresh(stack[t])'
      BY <2>2, <2>6, FreshNext DEF Look, Frame
    <3> QED
      BY <2>2, <2>3, <2>4, <3>1, <3>2, <3>3 DEF DoneInv, DoneOther, PolicyStep, FlagNeedsLive
  <2> QED
    BY <2>5, <2>6
<1>4. CASE CallClient(t)
  BY <1>4, CallDone
<1>5. CASE LookAtWorld(t)
  BY <1>5, LookDone
<1>6. CASE ChooseFunction(t)
  <2>1. ~Idle(t) /\ Top(t).at = "kind" /\ UNCHANGED vars /\ ~Fresh(stack[t])
    BY <1>2, <1>6 DEF ChooseFunction, At
  <2>2. Untouched /\ NewBefore
    BY <2>1 DEF DoneInv, DoneNothing, DoneScreen, DoneOther, OtherHook
  <2>3. Goto(t, "flag")
    BY <1>6, <2>2, Verdicts, VerdictsBefore DEF ChooseFunction
  <2> DEFINE f == [Top(t) EXCEPT !.at = "flag"]
  <2>4. f.at = "flag" /\ f.screen = Top(t).screen /\ Continue(t, <<f>>)
    BY <1>1, <2>1, <2>3 DEF Goto, Frames
  <2> HIDE DEF f
  <2>5. /\ ~Idle(t)' /\ Top(t)' = f /\ Below(t)' = Below(t)
        /\ ~Fresh(stack[t])' /\ before' = before
    BY <2>1, <2>4, GoesOn
  <2>6. UNCHANGED <<world, regime, applyLowFpsToNextLoadingScreen, inTransitState, prevGeoZoneId>>
    BY <2>1 DEF vars, plugin
  <2>7. /\ NewBefore' <=> NewBefore
        /\ \A j : VerdictBefore(j)' <=> VerdictBefore(j)
        /\ Untouched' <=> Untouched
    BY <2>5, <2>6, SameBefore, SameUntouched
  <2>8. CASE DoneNothing(t)
    <3>1. DoneNothing(t)'
      BY <2>2, <2>4, <2>5, <2>6, <2>7, <2>8 DEF DoneNothing
    <3> QED
      BY <2>5, <2>6, <3>1 DEF DoneInv, PolicyStep, FlagNeedsLive
  <2>9. ASSUME NEW k \in Screens, DoneScreen(t, k) PROVE DoneInv(t)' /\ PolicyStep
    <3>1. ~OtherHook(t)'
      BY <2>4, <2>5 DEF OtherHook
    <3>2. DoneScreen(t, k)'
      BY <2>2, <2>4, <2>5, <2>6, <2>7, <2>9, <3>1 DEF DoneScreen
    <3> QED
      BY <2>5, <2>6, <3>2 DEF DoneInv, PolicyStep, FlagNeedsLive
  <2> QED
    BY <2>1, <2>8, <2>9 DEF DoneInv, DoneOther, OtherHook
<1>7. CASE ChooseScreen(t)
  <2> DEFINE k == IF Live /\ applyLowFpsToNextLoadingScreen THEN "charselect" ELSE "loading"
             f == [Top(t) EXCEPT !.at = "limit", !.screen = k]
  <2>1. ~Idle(t) /\ Top(t).at = "flag" /\ UNCHANGED vars /\ ~Fresh(stack[t])
    BY <1>2, <1>7 DEF ChooseScreen, At
  <2>2. Untouched /\ NewBefore
    BY <2>1 DEF DoneInv, DoneNothing, DoneScreen, DoneOther, OtherHook
  <2>3. NewScreen
    BY <2>2, VerdictsBefore
  <2>4. Verdict(k) /\ k \in Screens
    BY <2>3 DEF Verdict, Screens
  <2> HIDE DEF k
  <2>5. f.at = "limit" /\ f.screen = k
    BY <1>1, <2>1 DEF Frames
  <2>6. Continue(t, <<f>>)
    BY <1>7 DEF ChooseScreen, Decide, k
  <2> HIDE DEF f
  <2>7. DoneNothing(t) \/ \E j \in Screens : DoneScreen(t, j)
    BY <2>1 DEF DoneInv, DoneOther, OtherHook
  <2>8. UNCHANGED <<world, regime, applyLowFpsToNextLoadingScreen, inTransitState, prevGeoZoneId>>
    BY <2>1 DEF vars, plugin
  <2> QED
    BY <2>1, <2>4, <2>5, <2>6, <2>7, <2>8, DecideScreen
<1>8. ASSUME ~Idle(t),
             Top(t).at \in {"limit", "fg", "bg", "away", "back", "unfocus", "applied"},
             NEW f, Continue(t, <<f>>), UNCHANGED world,
             f.at \in {"fg", "bg", "away", "call", "applied", "record"},
             f.at = "call" => f.next # "return",
             f.screen = Top(t).screen, regime'.by \in {Top(t).screen, regime.by},
             IF f.at = "record"
             THEN applyLowFpsToNextLoadingScreen' = NewFlag(Top(t).screen)
             ELSE UNCHANGED <<applyLowFpsToNextLoadingScreen, inTransitState, prevGeoZoneId>>
      PROVE  DoneInv(t)' /\ PolicyStep
  <2>1. ~Fresh(stack[t])
    BY <1>2, <1>8
  <2>2. PICK k \in Screens : DoneScreen(t, k)
    BY <1>8, <2>1 DEF DoneInv, DoneNothing, DoneOther, OtherHook
  <2>3. Top(t).screen = k
    BY <1>1, <1>8, <2>2 DEF DoneScreen, FrameOK, Screens
  <2> QED
    BY <1>8, <2>2, <2>3, MoveScreen
<1>9. CASE ChooseLimit(t)
  <2> DEFINE f == [Top(t) EXCEPT !.at = "fg", !.arg = LimitOf(Top(t).screen)]
  <2>1. ~Idle(t) /\ Top(t).at = "limit" /\ UNCHANGED vars /\ Continue(t, <<f>>)
    BY <1>9 DEF ChooseLimit, At
  <2>2. f.at = "fg" /\ f.screen = Top(t).screen
    BY <1>1, <2>1 DEF Frames
  <2> HIDE DEF f
  <2> QED
    BY <1>8, <2>1, <2>2 DEF vars, plugin
<1>10. CASE StoreForeground(t)
  <2>1. PICK where \in {"applied", "bg"} : Goto(t, where)
    BY <1>10 DEF StoreForeground
  <2> DEFINE f == [Top(t) EXCEPT !.at = where]
  <2>2. ~Idle(t) /\ Top(t).at = "fg" /\ f.at = where /\ f.screen = Top(t).screen /\ Continue(t, <<f>>)
    BY <1>1, <1>10, <2>1 DEF StoreForeground, At, Goto, Frames
  <2> HIDE DEF f
  <2> QED
    BY <1>8, <1>10, <2>2 DEF StoreForeground, statics
<1>11. CASE StoreBackground(t)
  <2> DEFINE f == [Top(t) EXCEPT !.at = "away"]
  <2>1. ~Idle(t) /\ Top(t).at = "bg" /\ f.at = "away" /\ f.screen = Top(t).screen /\ Continue(t, <<f>>)
    BY <1>1, <1>11 DEF StoreBackground, At, Goto, Frames
  <2>2. regime'.by = Top(t).screen
    BY <1>11 DEF StoreBackground
  <2> HIDE DEF f
  <2> QED
    BY <1>8, <1>11, <2>1, <2>2 DEF StoreBackground, statics
<1>12. CASE PlayFocus(t)
  <2>1. ~Idle(t) /\ Top(t).at \in {"away", "back", "unfocus"} /\ UNCHANGED vars
    BY <1>12 DEF PlayFocus, At
  <2>2. PICK focus, next : Call(t, focus, next) /\ next # "return"
    BY <1>12 DEF PlayFocus, AfterBack
  <2> DEFINE f == [Top(t) EXCEPT !.at = "call", !.arg = focus, !.next = next]
  <2>3. f.at = "call" /\ f.next = next /\ f.screen = Top(t).screen /\ Continue(t, <<f>>)
    BY <1>1, <2>1, <2>2 DEF Frames, Call
  <2> HIDE DEF f
  <2> QED
    BY <1>8, <2>1, <2>2, <2>3 DEF vars, plugin
<1>13. CASE SetFlag(t)
  <2> DEFINE f == [Top(t) EXCEPT !.at = "record"]
  <2>1. /\ ~Idle(t) /\ Top(t).at = "applied" /\ f.at = "record"
        /\ f.screen = Top(t).screen /\ Continue(t, <<f>>)
    BY <1>1, <1>13 DEF SetFlag, At, Goto, Frames
  <2>2. applyLowFpsToNextLoadingScreen' = NewFlag(Top(t).screen)
    BY <1>13 DEF SetFlag
  <2> HIDE DEF f
  <2> QED
    BY <1>8, <1>13, <2>1, <2>2 DEF SetFlag
<1>14. CASE RecordTransit(t)
  <2> DEFINE f == [Top(t) EXCEPT !.at = "zone"]
  <2>1. /\ ~Idle(t) /\ Top(t).at = "record" /\ f.at = "zone"
        /\ f.screen = Top(t).screen /\ Continue(t, <<f>>)
    BY <1>1, <1>14 DEF RecordTransit, At, Goto, Frames
  <2> HIDE DEF f
  <2>2. UNCHANGED <<world, regime, applyLowFpsToNextLoadingScreen>> /\ inTransitState' = world.isTransit
    BY <1>14 DEF RecordTransit
  <2>3. ~Fresh(stack[t])
    BY <1>2, <2>1
  <2>4. CASE DoneNothing(t)
    <3>1. /\ ~Idle(t)' /\ Top(t)' = f /\ Below(t)' = Below(t)
          /\ ~Fresh(stack[t])' /\ before' = before
      BY <2>1, GoesOn
    <3>2. /\ Atomic!ToCharSelect' <=> Atomic!ToCharSelect
          /\ Atomic!TransitEdge' <=> Atomic!TransitEdge
      BY <2>2, <3>1, SameBefore
    <3>3. DoneNothing(t)'
      BY <2>1, <2>2, <2>4, <3>1, <3>2 DEF DoneNothing, Untouched
    <3> QED
      BY <2>2, <3>1, <3>3 DEF DoneInv, PolicyStep, FlagNeedsLive
  <2>5. ASSUME NEW k \in Screens, DoneScreen(t, k) PROVE DoneInv(t)' /\ PolicyStep
    <3>1. CASE Top(t).screen = k
      <4>1. applyLowFpsToNextLoadingScreen' = NewFlag(k)
        BY <2>1, <2>2, <2>5 DEF DoneScreen, NewFlag
      <4> QED
        BY <2>1, <2>2, <2>5, <3>1, <4>1, MoveScreen
    <3>2. CASE Top(t).screen = "none"
      <4>1. /\ ~Idle(t)' /\ Top(t)' = f /\ Below(t)' = Below(t)
            /\ ~Fresh(stack[t])' /\ before' = before
        BY <2>1, GoesOn
      <4>2. /\ \A j : VerdictBefore(j)' <=> VerdictBefore(j)
        BY <2>2, <4>1, SameBefore
      <4>3. applyLowFpsToNextLoadingScreen' = NewFlag(k)
        BY <2>1, <2>2, <2>5 DEF DoneScreen, NewFlag
      <4>4. ~OtherHook(t)'
        BY <2>1, <4>1 DEF OtherHook
      <4>5. DoneScreen(t, k)'
        BY <2>1, <2>2, <2>5, <3>2, <4>1, <4>2, <4>3, <4>4 DEF DoneScreen
      <4> QED
        BY <2>2, <4>1, <4>5 DEF DoneInv, PolicyStep, FlagNeedsLive
    <3> QED
      BY <2>5, <3>1, <3>2 DEF DoneScreen
  <2> QED
    BY <2>1, <2>3, <2>4, <2>5 DEF DoneInv, DoneOther, OtherHook
<1>15. CASE RecordZone(t)
  BY <1>15, ZoneDone
<1>16. CASE StoreAddress(t)
  <2>1. /\ ~Idle(t) /\ Top(t).at \in {"addr", "focus"}
        /\ UNCHANGED <<world, regime, applyLowFpsToNextLoadingScreen, inTransitState, prevGeoZoneId>>
    BY <1>16 DEF StoreAddress, At
  <2>2. CASE Goto(t, "override")
    <3> DEFINE f == [Top(t) EXCEPT !.at = "override"]
    <3>1. f.at = "override" /\ Continue(t, <<f>>)
      BY <1>1, <2>1, <2>2 DEF Goto, Frames
    <3> HIDE DEF f
    <3> QED
      BY <2>1, <3>1, OtherDone
  <2>3. CASE Call(t, Top(t).arg, "return")
    <3> DEFINE f == [Top(t) EXCEPT !.at = "call", !.arg = Top(t).arg, !.next = "return"]
    <3>1. f.at = "call" /\ f.next = "return" /\ Continue(t, <<f>>)
      BY <1>1, <2>1, <2>3 DEF Call, Frames
    <3> HIDE DEF f
    <3> QED
      BY <2>1, <3>1, OtherDone
  <2> QED
    BY <1>16, <2>2, <2>3 DEF StoreAddress
<1>17. CASE Override(t)
  <2>1. /\ ~Idle(t) /\ Top(t).at \in {"override", "use"}
        /\ UNCHANGED <<world, regime, applyLowFpsToNextLoadingScreen, inTransitState, prevGeoZoneId>>
    BY <1>17 DEF Override, At, vars, plugin
  <2>2. ASSUME NEW where \in {"use", "save"}, Goto(t, where) PROVE DoneInv(t)' /\ PolicyStep
    <3> DEFINE f == [Top(t) EXCEPT !.at = where]
    <3>1. f.at = where /\ Continue(t, <<f>>)
      BY <1>1, <2>1, <2>2 DEF Goto, Frames
    <3> HIDE DEF f
    <3> QED
      BY <2>1, <3>1, OtherDone
  <2>3. CASE Continue(t, <<[Top(t) EXCEPT !.at = "save", !.arg = cfg.ForegroundLimit]>>)
    <3> DEFINE f == [Top(t) EXCEPT !.at = "save", !.arg = cfg.ForegroundLimit]
    <3>1. f.at = "save" /\ Continue(t, <<f>>)
      BY <1>1, <2>1, <2>3 DEF Frames
    <3> HIDE DEF f
    <3> QED
      BY <2>1, <3>1, OtherDone
  <2> QED
    BY <1>17, <2>2, <2>3 DEF Override
<1>18. CASE Save(t)
  <2>1. /\ ~Idle(t) /\ Top(t).at = "save" /\ Return(t) /\ regime'.by = "game"
        /\ UNCHANGED <<applyLowFpsToNextLoadingScreen>>
    BY <1>18 DEF Save, At, SaveForeground, statics
  <2>2. DoneOther(t)
    BY <1>2, <2>1 DEF DoneInv, DoneNothing, DoneScreen, OtherHook
  <2>3. Fresh(stack[t])'
    BY <2>1, <2>2, PoppedBelow, FreshNext DEF DoneOther
  <2>4. DoneInv(t)' /\ before' = Now'
    BY <2>1, <2>3, SettlesDone DEF DoneInv, FlagNeedsLive
  <2> QED
    BY <2>1, <2>2, <2>4 DEF PolicyStep, Now, DoneOther, Untouched
<1> QED
  BY <1>3, <1>4, <1>5, <1>6, <1>7, <1>9, <1>10, <1>11, <1>12, <1>13, <1>14, <1>15,
     <1>16, <1>17, <1>18 DEF Step

\* What the other threads do, when t decides, leaves alone what the hooks of t go by.
LEMMA OthersLeaveDone ==
  ASSUME FramesInv, NEW t \in Threads, Decides(schedule, t),
         NEW u \in Threads, u # t, Step(u) \/ Environment(u)
  PROVE  /\ UNCHANGED <<world, regime, applyLowFpsToNextLoadingScreen, inTransitState, prevGeoZoneId>>
         /\ stack'[t] = stack[t]
<1>1. Duties(u) \subseteq {"FocusUnfocus", "ConfigReloaded"}
  BY DEF Decides, Duties
<1>2. ~Idle(u) => Top(u).at \notin WorldSteps \union {"look", "addr", "override", "use", "save"}
  BY <1>1, TopFacts DEF FrameOK
<1>3. stack'[t] = stack[t]
  BY StepAlone
<1>4. CASE ClientCalls(u) \/ CallClient(u) \/ StoreAddress(u)
  BY <1>3, <1>4 DEF ClientCalls, Enters, CallClient, StoreAddress, vars, plugin, statics
<1>5. CASE Environment(u)
  BY <1>1, <1>3, <1>5 DEF Environment, ConfigReloaded, plugin
<1>6. /\ ~LookAtWorld(u) /\ ~ChooseFunction(u) /\ ~ChooseScreen(u) /\ ~ChooseLimit(u)
      /\ ~StoreForeground(u) /\ ~StoreBackground(u) /\ ~PlayFocus(u) /\ ~SetFlag(u)
      /\ ~RecordTransit(u) /\ ~RecordZone(u) /\ ~Override(u) /\ ~Save(u)
  BY <1>2 DEF LookAtWorld, ChooseFunction, ChooseScreen, ChooseLimit, StoreForeground,
     StoreBackground, PlayFocus, SetFlag, RecordTransit, RecordZone, Override, Save, At, WorldSteps
<1> QED
  BY <1>3, <1>4, <1>5, <1>6 DEF Step

LEMMA SameDone ==
  ASSUME NEW t \in Threads, DoneInv(t), Remembers(t), stack'[t] = stack[t],
         UNCHANGED <<world, regime, applyLowFpsToNextLoadingScreen, inTransitState, prevGeoZoneId>>
  PROVE  DoneInv(t)' /\ PolicyStep
<1>1. /\ Fresh(stack[t])' <=> Fresh(stack[t])
      /\ Idle(t)' <=> Idle(t)
      /\ Top(t)' = Top(t) /\ Below(t)' = Below(t) /\ (OtherHook(t)' <=> OtherHook(t))
  BY DEF Fresh, Idle, Top, Below, OtherHook
<1>2. CASE Fresh(stack[t])
  <2>1. before = Now /\ before' = Now' /\ Fresh(stack[t])'
    BY <1>1, <1>2 DEF DoneInv, Remembers
  <2>2. FlagNeedsLive' /\ (before'.applyLow => Live)
    BY <2>1 DEF DoneInv, FlagNeedsLive, Now
  <2>3. before'.regime.by = before.regime.by /\ before'.applyLow = before.applyLow
    BY <2>1 DEF Now
  <2> QED
    BY <2>1, <2>2, <2>3 DEF DoneInv, PolicyStep
<1>3. CASE ~Fresh(stack[t])
  <2>1. before' = before /\ ~Fresh(stack[t])'
    BY <1>1, <1>3 DEF Remembers
  <2>2. /\ NewBefore' <=> NewBefore
        /\ \A k : VerdictBefore(k)' <=> VerdictBefore(k)
        /\ Atomic!ToCharSelect' <=> Atomic!ToCharSelect
        /\ Atomic!TransitEdge' <=> Atomic!TransitEdge
        /\ Untouched' <=> Untouched
    BY <2>1, SameBefore, SameUntouched
  <2>3. Recorded' <=> Recorded
    BY DEF Recorded
  <2>4. DoneOther(t) => DoneOther(t)'
    BY <1>1, <2>1, <2>2 DEF DoneOther
  <2>5. DoneNothing(t) => DoneNothing(t)'
    BY <1>1, <2>1, <2>2 DEF DoneNothing
  <2>6. \A k \in Screens : DoneScreen(t, k) => DoneScreen(t, k)'
    BY <1>1, <2>1, <2>2, <2>3 DEF DoneScreen
  <2> QED
    BY <1>3, <2>1, <2>4, <2>5, <2>6 DEF DoneInv, PolicyStep, FlagNeedsLive
<1> QED
  BY <1>2, <1>3

\* The environment on the thread that decides: no hook runs there.
LEMMA EnvironmentDone ==
  ASSUME FramesInv, FramesInv', NEW t \in Threads, DoneInv(t), Remembers(t), Environment(t)
  PROVE  DoneInv(t)' /\ PolicyStep
<1>1. /\ Idle(t) /\ Fresh(stack[t]) /\ Fresh(stack[t])'
      /\ UNCHANGED applyLowFpsToNextLoadingScreen
      /\ UNCHANGED regime \/ regime'.by = "game"
  BY DEF Environment, Idle, Fresh, WorldChanges, ConfigReloaded, SaveBackground, plugin
<1>2. FlagNeedsLive'
  BY <1>1 DEF DoneInv, FlagNeedsLive
<1>3. before = Now /\ DoneInv(t)' /\ before' = Now'
  BY <1>1, <1>2, SettlesDone DEF DoneInv
<1> QED
  BY <1>1, <1>3 DEF PolicyStep, Now

\* One decides, and its hooks have done what DoneInv says.
Decided == \E t \in Threads : Decides(schedule, t) /\ DoneInv(t)

LEMMA DecidesRemembers ==
  ASSUME NEW t \in Threads, Decides(schedule, t), ThreadsNext
  PROVE  Remembers(t)
<1>1. \A u \in Threads : Duties(u)' = Duties(u)
  BY DEF ThreadsNext, Duties
<1>2. \A u \in Threads : Limiting(u)' <=> u = t
  BY <1>1 DEF Limiting, Decides, Duties
<1>3. Settled' <=> Fresh(stack[t])'
  BY <1>2 DEF Settled
<1> QED
  BY <1>3 DEF ThreadsNext, Remembers

LEMMA DecidedStep ==
  FramesInv /\ Decided /\ [ThreadsNext]_hookVars => Decided' /\ (PolicyStep \/ UNCHANGED before)
<1> SUFFICES ASSUME FramesInv, [ThreadsNext]_hookVars,
                    NEW t \in Threads, Decides(schedule, t), DoneInv(t)
             PROVE  Decided' /\ (PolicyStep \/ UNCHANGED before)
  BY DEF Decided
<1>1. FramesInv'
  BY FramesStep
<1>2. Decides(schedule, t)'
  BY SameSchedule DEF Decides
<1>3. CASE UNCHANGED hookVars
  <2>1. DoneInv(t)' <=> DoneInv(t)
    BY <1>3 DEF hookVars, vars, plugin, DoneInv, FlagNeedsLive, Fresh, Now, DoneOther, DoneNothing,
       DoneScreen, OtherHook, Untouched, Top, Below, NewBefore, VerdictBefore, Recorded,
       Atomic!ToCharSelect, Atomic!TransitEdge, Atomic!TransitChanged, Atomic!ZoneChanged
  <2> QED
    BY <1>2, <1>3, <2>1 DEF hookVars, Decided
<1>4. CASE ThreadsNext
  <2>1. Remembers(t)
    BY <1>4, DecidesRemembers
  <2>2. ASSUME Step(t) PROVE DoneInv(t)' /\ PolicyStep
    BY <1>1, <2>1, <2>2, StepDone
  <2>3. ASSUME Environment(t) PROVE DoneInv(t)' /\ PolicyStep
    BY <1>1, <2>1, <2>3, EnvironmentDone
  <2>4. ASSUME NEW u \in Threads, u # t, Step(u) \/ Environment(u) PROVE DoneInv(t)' /\ PolicyStep
    BY <2>1, <2>4, OthersLeaveDone, SameDone
  <2> QED
    BY <1>2, <1>4, <2>2, <2>3, <2>4 DEF ThreadsNext, Decided
<1> QED
  BY <1>3, <1>4

\* Hooks that run in steps, inside each other, with focus events and reloads of the
\* settings between any two of them, put the limits of the same screens in force as
\* hooks that are one step: the kinds of screen follow each other as LoadingPolicy
\* says, for any number of threads of which one calls the other two functions and
\* sees the World change, and any depth of hooks.
THEOREM ScreensPolicy == ThreadsSpec /\ OneDecides(schedule) => ScreensFollowPolicy
<1> DEFINE Inv == FramesInv /\ Decided
<1>1. ThreadsInit /\ OneDecides(schedule) => Inv /\ Atomic!Policy!PolicyInit
  <2> SUFFICES ASSUME ThreadsInit, NEW t \in Threads, Decides(schedule, t)
               PROVE  Decided /\ Atomic!Policy!PolicyInit
    BY FramesInit DEF OneDecides
  <2>1. Fresh(stack[t]) /\ before = Now /\ ~applyLowFpsToNextLoadingScreen /\ regime.by = "nobody"
    BY DEF ThreadsInit, Init, Fresh
  <2>2. DoneInv(t)
    BY <2>1 DEF DoneInv, FlagNeedsLive, Now
  <2>3. Atomic!Policy!PolicyInit
    BY <2>1 DEF Atomic!Policy!PolicyInit, Now, ThreadsInit, Init
  <2> QED
    BY <2>2, <2>3 DEF Decided
<1>2. Inv /\ [ThreadsNext]_hookVars => Inv' /\ [Atomic!Policy!PolicyNext]_(Atomic!Policy!policyVars)
  <2> SUFFICES ASSUME PolicyStep PROVE [Atomic!Policy!PolicyNext]_(Atomic!Policy!policyVars)
    BY FramesStep, DecidedStep DEF Atomic!Policy!policyVars
  <2>1. CASE before'.regime.by = before.regime.by /\ before'.applyLow = before.applyLow
    BY <2>1 DEF Atomic!Policy!policyVars
  <2>2. CASE before'.regime.by = "game" /\ before'.applyLow = before.applyLow
    BY <2>2 DEF Atomic!Policy!PolicyNext, Atomic!Policy!GameSavesLimits
  <2>3. ASSUME NEW k \in Screens,
               k \in {"low"} \union IF before.applyLow THEN {"charselect"} ELSE {"loading"},
               before'.applyLow = (k = "low"), before'.regime.by \in {k, before.regime.by}
        PROVE  Atomic!Policy!PolicyNext
    <3>1. Atomic!Policy!LoadingScreen(k)
      BY <2>3 DEF Atomic!Policy!LoadingScreen, Atomic!Policy!Allowed
    <3> QED
      BY <3>1 DEF Atomic!Policy!PolicyNext, Screens
  <2> QED
    BY <2>1, <2>2, <2>3 DEF PolicyStep
<1> QED
  BY <1>1, <1>2, PTL DEF ThreadsSpec, ScreensFollowPolicy, Atomic!FollowsPolicy, Atomic!Policy!PolicySpec

-----------------------------------------------------------------------------
(* With one thread, the hooks inside each other are hooks one after the other. *)

\* Nothing happens but on t.
Sole(s, t) ==
  /\ s.duties[t] \intersect {"GetWorld", "SetForegroundFpsLimit"} # {}
  /\ \A u \in Threads \ {t} : s.duties[u] = {}

\* The hook below the innermost one.
Second(t) == stack[t][2]

\* Where a hook with this screen is after the second call, and the focus it leaves
\* the client with.
After(screen)  == IF screen = "loading" THEN "applied" ELSE "unfocus"
LeftBy(screen) == IF screen = "loading" THEN focusState ELSE 0

\* The client's focus changes to this one at the second call at the latest, and the
\* renderer takes up the limit with it.
Ready(f, screen) ==
  /\ f.at = "back" \/ (f.at = "call" /\ f.next = After(screen)) =>
       engine.focused = Away \/ engine.cap = LimitOf(screen)
  /\ f.at = "call" => f.arg = CASE f.next = "back" -> Away
                                [] f.next = After(screen) -> Back
                                [] OTHER -> 0
  /\ f.at = "unfocus" \/ (f.at = "call" /\ f.next = "applied" /\ screen # "loading") =>
       engine.cap = LimitOf(screen)
  /\ f.at \in {"applied", "record", "zone"} =>
       engine.focused = LeftBy(screen) /\ engine.cap = LimitOf(screen)

\* The stores of the outermost hook that has decided on a screen; the ones inside it
\* store the same.
Written(t, screen) ==
  \/ Below(t) = {} /\ Top(t).at \in {"limit", "fg"}
  \/ Below(t) = {} /\ Top(t).at = "bg" /\ engine.fg = LimitOf(screen)
  \/ /\ engine.fg = LimitOf(screen) /\ engine.bg = LimitOf(screen)
     /\ regime = [by |-> screen, limit |-> LimitOf(screen)]

AtomScreen(t, screen) ==
  IF focusUnfocusAddr = NoAddr
  THEN /\ Below(t) = {} /\ Top(t).at \in {"limit", "fg", "applied", "record", "zone"}
       /\ engine = before.engine /\ regime = before.regime
  ELSE /\ Top(t).at \in {"fg", "bg"} => Top(t).arg = LimitOf(screen)
       /\ Written(t, screen)
       /\ Top(t).screen = screen => Ready(Top(t), screen)
       /\ Top(t).screen = "none" => Ready(Second(t), screen)

\* A hook of another function than GetWorld.
AtomOther(t) ==
  /\ engine = before.engine /\ seen = before.seen
  /\ Top(t).at \in {"addr", "focus"} =>
       focusState = before.focusState /\ focusUnfocusAddr = before.focusUnfocusAddr
  /\ Top(t).at = "call" => focusState = Top(t).arg /\ focusUnfocusAddr = ObjAddr
  /\ Top(t).at \in {"override", "use", "save"} =>
       focusState = before.focusState /\ focusUnfocusAddr = ObjAddr
  /\ Top(t).at \in {"addr", "override", "use"} => Top(t).arg \in Limits
  /\ Top(t).at = "use" => cfg.ForegroundLimit > -1
  /\ Top(t).at = "save" => \E l \in Limits : Top(t).arg = ForegroundOverride(l)

\* A hook of GetWorld that has looked, or is inside one that has.
AtomWorld(t) ==
  /\ focusState = before.focusState /\ focusUnfocusAddr = before.focusUnfocusAddr
  /\ world # NoWorld /\ seen = View(world)
  /\ DoneNothing(t) => engine = before.engine
  /\ \A k \in Screens : DoneScreen(t, k) => AtomScreen(t, k)

AtomInv(t) ==
  /\ before.engine \in Engines(Int) /\ before.focusState \in Focus
  /\ ~Fresh(stack[t]) => IF OtherHook(t) THEN AtomOther(t) ELSE AtomWorld(t)

\* No other thread than t takes a step.
LEMMA SoleAlone ==
  ASSUME FramesInv, NEW t \in Threads, Sole(schedule, t),
         NEW u \in Threads, u # t, Step(u) \/ Environment(u)
  PROVE  FALSE
<1>1. Duties(u) = {}
  BY DEF Sole, Duties
<1>2. Idle(u)
  <2> SUFFICES ASSUME ~Idle(u) PROVE FALSE
    OBVIOUS
  <2>1. Top(u).at \in Steps /\ FrameOK(Duties(u), Top(u))
    BY TopFacts DEF Frames
  <2> QED
    BY <1>1, <2>1 DEF FrameOK, Steps
<1>3. ~ClientCalls(u) /\ ~Environment(u)
  BY <1>1 DEF ClientCalls, Enters, Environment
<1> QED
  BY <1>2, <1>3 DEF Step, CallClient, LookAtWorld, ChooseFunction, ChooseScreen, ChooseLimit,
     StoreForeground, StoreBackground, PlayFocus, SetFlag, RecordTransit, RecordZone, StoreAddress,
     Override, Save, At

LEMMA SoleDecides == ASSUME NEW t \in Threads, Sole(schedule, t) PROVE Decides(schedule, t)
  BY DEF Sole, Decides

\* The toggle changes the client's focus once at least, so that the renderer takes up
\* the limit.
LEMMA AppliedBefore ==
  ASSUME before.engine \in Engines(Int), before.focusState \in Focus,
         NEW limit \in Int, NEW unfocus \in BOOLEAN
  PROVE  Atomic!Applied(before.engine, limit, unfocus) =
           [fg |-> limit, bg |-> limit, cap |-> limit,
            focused |-> IF unfocus THEN 0 ELSE before.focusState]
<1> DEFINE e == before.engine
           s == [e EXCEPT !.fg = limit, !.bg = limit]
           a == FocusUnfocus(s, 1 - before.focusState)
           b == FocusUnfocus(a, before.focusState)
           c == IF unfocus THEN FocusUnfocus(b, 0) ELSE b
<1>0. before.focusState \in Focus /\ 1 - before.focusState \in Focus /\ 0 \in Focus
      /\ 1 - before.focusState # before.focusState
  BY DEF Focus
<1>1. s \in Engines(Int) /\ s.fg = limit /\ s.bg = limit
  BY DEF Engines
<1>2. /\ a \in Engines(Int) /\ a.fg = limit /\ a.bg = limit
      /\ a.focused = 1 - before.focusState
  <2> HIDE DEF s
  <2> QED
    BY <1>0, <1>1, FocusUnfocusFacts
<1>3. /\ b \in Engines(Int) /\ b.fg = limit /\ b.bg = limit
      /\ b.focused = before.focusState /\ b.cap = StoredLimit(b)
  <2> HIDE DEF a
  <2> QED
    BY <1>0, <1>2, FocusUnfocusFacts
<1>4. FocusUnfocus(b, 0) \in Engines(Int) /\ FocusUnfocus(b, 0).fg = limit
      /\ FocusUnfocus(b, 0).bg = limit /\ FocusUnfocus(b, 0).focused = 0
      /\ FocusUnfocus(b, 0).cap = StoredLimit(FocusUnfocus(b, 0))
  <2> HIDE DEF b
  <2> QED
    BY <1>0, <1>3, FocusUnfocusFacts
<1>5. Atomic!Applied(before.engine, limit, unfocus) = c
  BY DEF Atomic!Applied, Atomic!FocusUnfocus, FocusUnfocus
<1> HIDE DEF b
<1>6. /\ c \in Engines(Int) /\ c.fg = limit /\ c.bg = limit /\ c.cap = limit
      /\ c.focused = IF unfocus THEN 0 ELSE before.focusState
  BY <1>3, <1>4 DEF StoredLimit
<1> HIDE DEF c
<1> QED
  BY <1>5, <1>6 DEF Engines

LEMMA LimitsOf ==
  ASSUME cfg \in Config
  PROVE  /\ LimitOf("low") = AsUint32(5)
         /\ LimitOf("charselect") = AsUint32(cfg.CharselectLimit)
         /\ LimitOf("loading") = AsUint32(cfg.LoadingLimit)
         /\ \A k \in Screens : LimitOf(k) \in Int
<1>1. ASSUME NEW k \in Screens PROVE LimitOf(k) \in Int
  <2>1. Uint32 \subseteq Int
    BY Int32MaxAssumption DEF Uint32
  <2> QED
    BY <2>1, LimitOfType
<1>2. LimitOf("low") = 5 /\ AsUint32(5) = 5
  BY DEF LimitOf, AsUint32
<1>3. LimitOf("charselect") = AsUint32(cfg.CharselectLimit)
  BY DEF LimitOf
<1>4. LimitOf("loading") = AsUint32(cfg.LoadingLimit)
  BY DEF LimitOf
<1> QED
  BY <1>1, <1>2, <1>3, <1>4

LEMMA SecondFacts ==
  ASSUME FramesInv, NEW t \in Threads
  PROVE  /\ Below(t) # {} => Second(t) \in Below(t)
         /\ \A f : ~Idle(t) /\ Continue(t, <<f>>) /\ Below(t) # {} => Second(t)' = Second(t)
         /\ \A f : ~Idle(t) /\ Continue(t, <<Look>> \o <<f>>) => Second(t)' = f
         /\ ~Idle(t) /\ Return(t) /\ Below(t) # {} => ~Idle(t)' /\ Top(t)' = Second(t)
         /\ ~Idle(t) /\ Return(t) /\ Below(t) = {} => Idle(t)'
<1>1. stack \in [Threads -> Seq(Frames)] /\ Len(stack[t]) \in Nat
  BY LenProperties DEF FramesInv, ThreadsTypeOK
<1>2. ASSUME Below(t) # {} PROVE 2 \in 2 .. Len(stack[t])
  <2>1. PICK i : i \in 2 .. Len(stack[t])
    BY <1>2 DEF Below
  <2> QED
    BY <1>1, <2>1
<1>3. Below(t) # {} => Second(t) \in Below(t)
  BY <1>2 DEF Below, Second
<1>4. ASSUME NEW f, ~Idle(t), Continue(t, <<f>>), Below(t) # {} PROVE Second(t)' = Second(t)
  <2>1. \A i \in 2 .. Len(stack[t]) : stack'[t][i] = stack[t][i]
    BY <1>1, <1>4, Replaced
  <2> QED
    BY <1>2, <1>4, <2>1 DEF Second
<1>5. ASSUME NEW f, ~Idle(t), Continue(t, <<Look>> \o <<f>>) PROVE Second(t)' = f
  <2>1. stack'[t][2] = f
    BY <1>1, <1>5, Pushed
  <2> QED
    BY <2>1 DEF Second
<1>6. ASSUME ~Idle(t), Return(t), Below(t) # {} PROVE ~Idle(t)' /\ Top(t)' = Second(t)
  <2>1. Len(stack[t]) >= 2
    BY <1>1, <1>2, <1>6
  <2> QED
    BY <1>6, <2>1, ReturnsBelow DEF Second
<1>7. ASSUME ~Idle(t), Return(t), Below(t) = {} PROVE Idle(t)'
  BY <1>7, PoppedBelow
<1> QED
  BY <1>3, <1>4, <1>5, <1>6, <1>7

LEMMA NoStep ==
  ASSUME UNCHANGED <<before, found, cfg, world, status>>
  PROVE  UNCHANGED Atomic!vars
  BY DEF Atomic!vars, Atomic!plugin

LEMMA SameLimit == ASSUME UNCHANGED cfg PROVE \A k : LimitOf(k)' = LimitOf(k)
  BY DEF LimitOf

\* The innermost hook of t has decided on the screen and goes on as f.
LEMMA ScreenGoesOn ==
  ASSUME NEW t \in Threads, NEW k \in Screens, NEW f, Top(t)' = f, Below(t)' = Below(t),
         f.screen = k, UNCHANGED <<before, cfg, focusState, focusUnfocusAddr>>,
         focusUnfocusAddr = NoAddr =>
           /\ Below(t) = {} /\ f.at \in {"limit", "fg", "applied", "record", "zone"}
           /\ engine' = before.engine /\ regime' = before.regime,
         focusUnfocusAddr # NoAddr =>
           /\ f.at \in {"fg", "bg"} => f.arg = LimitOf(k)
           /\ \/ Below(t) = {} /\ f.at \in {"limit", "fg"}
              \/ Below(t) = {} /\ f.at = "bg" /\ engine'.fg = LimitOf(k)
              \/ /\ engine'.fg = LimitOf(k) /\ engine'.bg = LimitOf(k)
                 /\ regime' = [by |-> k, limit |-> LimitOf(k)]
           /\ Ready(f, k)'
  PROVE  AtomScreen(t, k)'
<1>1. LimitOf(k)' = LimitOf(k)
  BY SameLimit
<1>2. k # "none"
  BY DEF Screens
<1> QED
  BY <1>1, <1>2 DEF AtomScreen, Written

\* What holds of the new stack follows from what the step does to each kind of hook.
LEMMA AtomGoesOn ==
  ASSUME FramesInv, FramesInv', NEW t \in Threads, ~Idle(t), DoneInv(t), DoneInv(t)', Remembers(t),
         AtomInv(t), ~Fresh(stack[t]), ~OtherHook(t), ~Fresh(stack[t])', ~OtherHook(t)',
         UNCHANGED <<world, focusState, focusUnfocusAddr, seen>>,
         DoneNothing(t)' => DoneNothing(t) /\ UNCHANGED engine,
         \A k \in Screens :
           /\ DoneScreen(t, k) /\ DoneScreen(t, k)' /\ AtomScreen(t, k) => AtomScreen(t, k)'
           /\ DoneNothing(t) /\ DoneScreen(t, k)' => AtomScreen(t, k)'
  PROVE  AtomInv(t)'
<1>1. before' = before
  BY DEF Remembers
<1>2. AtomWorld(t)
  BY DEF AtomInv
<1>3. View(world)' = View(world)
  BY DEF View
<1>4. ASSUME NEW k \in Screens, DoneScreen(t, k)' PROVE AtomScreen(t, k)'
  <2>1. VerdictBefore(k)
    BY <1>1, <1>4, SameBefore DEF DoneScreen
  <2>2. DoneNothing(t) \/ \E j \in Screens : DoneScreen(t, j)
    BY DEF DoneInv, DoneOther
  <2>3. ASSUME NEW j \in Screens, DoneScreen(t, j) PROVE j = k
    BY <2>1, <2>3, VerdictsBefore DEF DoneScreen
  <2>4. DoneNothing(t) \/ DoneScreen(t, k)
    BY <2>2, <2>3
  <2> QED
    BY <1>2, <1>4, <2>4 DEF AtomWorld
<1>5. DoneNothing(t)' => engine' = before'.engine
  BY <1>1, <1>2 DEF AtomWorld
<1>6. AtomWorld(t)'
  BY <1>1, <1>2, <1>3, <1>4, <1>5 DEF AtomWorld
<1> QED
  BY <1>1, <1>6 DEF AtomInv

\* FocusUnfocus of the client is called by a hook that has stored the limits.
LEMMA CallReadies ==
  ASSUME engine \in Engines(Int), focusState \in Focus, NEW k \in Screens, NEW f, NEW g,
         f.at = "call", f.next \in {"back", "unfocus", "applied"}, f.next = "unfocus" => k # "loading",
         g.at = f.next, Ready(f, k), engine.fg = LimitOf(k), engine.bg = LimitOf(k),
         engine' = FocusUnfocus(engine, f.arg), UNCHANGED <<cfg, focusState>>
  PROVE  Ready(g, k)' /\ engine'.fg = LimitOf(k) /\ engine'.bg = LimitOf(k)
<1>1. LimitOf(k)' = LimitOf(k) /\ Away' = Away /\ Back' = Back
  BY SameLimit DEF Away, Back
<1>2. f.arg = CASE f.next = "back" -> Away [] f.next = After(k) -> Back [] OTHER -> 0
  BY DEF Ready
<1>3. Away \in Focus /\ Back \in Focus /\ 0 \in Focus /\ Away # Back /\ Back = focusState
  BY DEF Away, Back, Focus
<1>4. f.arg \in Focus
  BY <1>2, <1>3 DEF After
<1>5. /\ engine' \in Engines(Int) /\ engine'.focused = f.arg
      /\ engine'.fg = LimitOf(k) /\ engine'.bg = LimitOf(k)
      /\ engine.focused # f.arg => engine'.cap = LimitOf(k)
      /\ engine.focused = f.arg => engine' = engine
  <2>1. LET r == FocusUnfocus(engine, f.arg) IN
          /\ r \in Engines(Int)
          /\ r.focused = f.arg /\ r.fg = engine.fg /\ r.bg = engine.bg
          /\ engine.focused # f.arg \/ engine.cap = StoredLimit(engine) => r.cap = StoredLimit(r)
    BY <1>4, FocusUnfocusFacts
  <2>2. engine.focused = f.arg => engine' = engine
    BY DEF FocusUnfocus
  <2> QED
    BY <2>1, <2>2 DEF StoredLimit
<1>6. CASE f.next = "back"
  BY <1>1, <1>2, <1>5, <1>6 DEF Ready
<1>7. CASE f.next = "unfocus"
  <2>1. f.next = After(k) /\ k # "loading"
    BY <1>7 DEF After
  <2>2. engine'.cap = LimitOf(k)
    BY <1>2, <1>3, <1>5, <1>7, <2>1 DEF Ready
  <2> QED
    BY <1>1, <1>5, <1>7, <2>2 DEF Ready
<1>8. CASE f.next = "applied" /\ k = "loading"
  <2>1. f.next = After(k)
    BY <1>8 DEF After
  <2>2. engine'.cap = LimitOf(k) /\ engine'.focused = focusState
    BY <1>2, <1>3, <1>5, <1>8, <2>1 DEF Ready
  <2> QED
    BY <1>1, <1>5, <1>8, <2>2 DEF Ready, LeftBy
<1>9. CASE f.next = "applied" /\ k # "loading"
  <2>1. f.next # After(k)
    BY <1>9 DEF After
  <2>2. engine'.cap = LimitOf(k) /\ engine'.focused = 0
    BY <1>2, <1>5, <1>9, <2>1 DEF Ready
  <2> QED
    BY <1>1, <1>5, <1>9, <2>2 DEF Ready, LeftBy
<1> QED
  BY <1>6, <1>7, <1>8, <1>9

\* A hook of t that has decided on no screen goes on inside others that have.
LEMMA NoScreenGoesOn ==
  ASSUME FramesInv, NEW t \in Threads, ~Idle(t), NEW k \in Screens, DoneScreen(t, k),
         AtomScreen(t, k), Top(t).screen = "none", NEW f, Continue(t, <<f>>), f.screen = "none",
         f.at \notin {"limit", "fg", "bg"},
         UNCHANGED <<cfg, engine, regime, focusState, focusUnfocusAddr>>
  PROVE  AtomScreen(t, k)'
<1>1. Below(t) # {} /\ Top(t)' = f /\ Below(t)' = Below(t) /\ Second(t)' = Second(t)
  BY ReplacedBelow, SecondFacts DEF DoneScreen
<1>2. LimitOf(k)' = LimitOf(k) /\ k # "none"
  BY SameLimit DEF Screens
<1>3. Ready(Second(t), k)' <=> Ready(Second(t), k)
  BY <1>1, <1>2 DEF Ready, LeftBy, Away, Back
<1>4. focusUnfocusAddr # NoAddr /\ Ready(Second(t), k)
      /\ engine.fg = LimitOf(k) /\ engine.bg = LimitOf(k)
      /\ regime = [by |-> k, limit |-> LimitOf(k)]
  BY <1>1 DEF AtomScreen, Written
<1> QED
  BY <1>1, <1>2, <1>3, <1>4 DEF AtomScreen, Written

LEMMA LookAtom ==
  ASSUME FramesInv, FramesInv', NEW t \in Threads, DoneInv(t), DoneInv(t)', Remembers(t),
         AtomInv(t), LookAtWorld(t)
  PROVE  AtomInv(t)' /\ UNCHANGED Atomic!vars
<1>1. /\ ~Idle(t) /\ Top(t).at = "look" /\ At(t, "look") /\ ~OtherHook(t)
      /\ UNCHANGED <<found, cfg, world, engine, focusState, focusUnfocusAddr, status, regime,
                     applyLowFpsToNextLoadingScreen, inTransitState, prevGeoZoneId>>
  BY DEF LookAtWorld, At, statics, OtherHook
<1>2. Top(t) \in Frames /\ Top(t).screen = "none"
  BY <1>1, TopFacts DEF FrameOK
<1>3. \/ Fresh(stack[t]) /\ Below(t) = {} /\ before = Now
      \/ \E k \in Screens : DoneScreen(t, k) /\ Below(t) # {} /\ world # NoWorld
  BY <1>1, LookFrom DEF DoneInv
<1>4. CASE world = NoWorld /\ Return(t) /\ UNCHANGED seen
  <2>1. Fresh(stack[t]) /\ Below(t) = {} /\ before = Now
    BY <1>3, <1>4
  <2>2. Idle(t)' /\ Fresh(stack[t])'
    BY <1>1, <1>4, <2>1, PoppedBelow, FreshNext
  <2>3. before' = Now' /\ Now' = Now
    BY <1>1, <1>4, <2>2 DEF Remembers, Now
  <2>4. before' = before
    BY <2>1, <2>3
  <2> QED
    BY <1>1, <2>2, <2>4, NoStep DEF AtomInv
<1>5. ASSUME world # NoWorld, seen' = View(world), NEW f, Continue(t, <<f>>),
             \/ f.at = "limit" /\ f.screen # "none"
             \/ f.at \in {"kind", "record", "zone"} /\ f.screen = "none"
      PROVE  AtomInv(t)' /\ UNCHANGED Atomic!vars
  <2>1. /\ ~Idle(t)' /\ Top(t)' = f /\ Below(t)' = Below(t)
        /\ ~Fresh(stack[t])' /\ before' = before
    BY <1>1, <1>5, GoesOn
  <2>2. ~OtherHook(t)' /\ UNCHANGED Atomic!vars
    BY <1>1, <1>5, <2>1, NoStep DEF OtherHook
  <2>3. CASE Fresh(stack[t]) /\ Below(t) = {} /\ before = Now
    <3>1. /\ engine = before.engine /\ regime = before.regime /\ focusState = before.focusState
          /\ focusUnfocusAddr = before.focusUnfocusAddr
      BY <2>3 DEF Now
    <3>2. ASSUME NEW k \in Screens, DoneScreen(t, k)' PROVE AtomScreen(t, k)'
      <4>1. f.screen = k /\ f.at = "limit"
        BY <1>5, <2>1, <2>3, <3>2 DEF DoneScreen
      <4>2. Ready(f, k)'
        BY <4>1 DEF Ready
      <4> QED
        BY <1>1, <2>1, <2>3, <3>1, <4>1, <4>2, ScreenGoesOn
    <3>3. AtomWorld(t)'
      BY <1>1, <1>5, <2>1, <3>1, <3>2 DEF AtomWorld, View
    <3> QED
      BY <2>1, <2>2, <3>3 DEF AtomInv
  <2>4. ASSUME NEW j \in Screens, DoneScreen(t, j), Below(t) # {}
        PROVE  AtomInv(t)'
    <3>1. ~Fresh(stack[t])
      BY <1>1, <2>4, FreshFacts
    <3>2. UNCHANGED seen
      BY <1>1, <1>5, <3>1 DEF AtomInv, AtomWorld
    <3>3. ~DoneNothing(t) /\ ~DoneNothing(t)'
      BY <2>1, <2>4 DEF DoneNothing
    <3>4. ASSUME NEW k \in Screens, DoneScreen(t, k), DoneScreen(t, k)', AtomScreen(t, k)
          PROVE  AtomScreen(t, k)'
      <4>1. CASE f.screen = "none"
        BY <1>1, <1>2, <1>5, <3>4, <4>1, NoScreenGoesOn
      <4>2. CASE f.screen # "none"
        <5>1. f.screen = k /\ f.at = "limit"
          BY <1>5, <2>1, <3>4, <4>2 DEF DoneScreen
        <5>2. Ready(f, k)'
          BY <5>1 DEF Ready
        <5>3. /\ focusUnfocusAddr # NoAddr
              /\ engine.fg = LimitOf(k) /\ engine.bg = LimitOf(k)
              /\ regime = [by |-> k, limit |-> LimitOf(k)]
          BY <2>4, <3>4 DEF AtomScreen, Written
        <5> QED
          BY <1>1, <2>1, <5>1, <5>2, <5>3, ScreenGoesOn
      <4> QED
        BY <4>1, <4>2
    <3> QED
      BY <1>1, <2>1, <2>2, <3>1, <3>2, <3>3, <3>4, AtomGoesOn
  <2> QED
    BY <1>3, <2>2, <2>3, <2>4
<1>6. CASE world # NoWorld /\ seen' = View(world) /\ Decide(t, "limit", "low")
  <2> DEFINE f == [Top(t) EXCEPT !.at = "limit", !.screen = "low"]
  <2>1. f.at = "limit" /\ f.screen = "low" /\ Continue(t, <<f>>)
    BY <1>2, <1>6 DEF Decide, Frames
  <2> HIDE DEF f
  <2> QED
    BY <1>5, <1>6, <2>1
<1>7. ASSUME world # NoWorld, seen' = View(world),
             NEW where \in {"kind", "record", "zone"}, Goto(t, where)
      PROVE  AtomInv(t)' /\ UNCHANGED Atomic!vars
  <2> DEFINE f == [Top(t) EXCEPT !.at = where]
  <2>1. f.at = where /\ f.screen = "none" /\ Continue(t, <<f>>)
    BY <1>2, <1>7 DEF Goto, Frames
  <2> HIDE DEF f
  <2> QED
    BY <1>5, <1>7, <2>1
<1> QED
  BY <1>4, <1>6, <1>7 DEF LookAtWorld

\* A step of a hook that has decided on its screen, or decides on it.
LEMMA ScreenAtom ==
  ASSUME FramesInv, FramesInv', NEW t \in Threads, ~Idle(t), DoneInv(t), DoneInv(t)', Remembers(t),
         AtomInv(t), Top(t).at \in WorldSteps \union {"call"}, ~OtherHook(t),
         NEW f, Continue(t, <<f>>), f.at \in WorldSteps \union {"call"},
         f.at = "call" => f.next # "return",
         UNCHANGED <<found, cfg, world, focusState, focusUnfocusAddr, status, seen>>,
         \/ Top(t).screen = "none" /\ f.screen = "none" /\ f.at \notin {"limit", "fg", "bg"}
            /\ UNCHANGED <<engine, regime>>
         \/ Top(t).screen = "none" /\ f.screen # "none" /\ f.at = "limit" /\ UNCHANGED <<engine, regime>>
         \/ /\ Top(t).screen # "none" /\ f.screen = Top(t).screen
            /\ \A k \in Screens :
                 /\ Top(t).screen = k /\ DoneScreen(t, k) /\ focusUnfocusAddr = NoAddr
                      /\ Top(t).at \in {"limit", "fg", "applied", "record", "zone"} =>
                      /\ f.at \in {"limit", "fg", "applied", "record", "zone"}
                      /\ UNCHANGED <<engine, regime>>
                 /\ Top(t).screen = k /\ DoneScreen(t, k) /\ focusUnfocusAddr # NoAddr
                      /\ Ready(Top(t), k) /\ Written(t, k)
                      /\ (Top(t).at \in {"fg", "bg"} => Top(t).arg = LimitOf(k)) =>
                      /\ f.at \in {"fg", "bg"} => f.arg = LimitOf(k)
                      /\ \/ Below(t) = {} /\ f.at \in {"limit", "fg"}
                         \/ Below(t) = {} /\ f.at = "bg" /\ engine'.fg = LimitOf(k)
                         \/ /\ engine'.fg = LimitOf(k) /\ engine'.bg = LimitOf(k)
                            /\ regime' = [by |-> k, limit |-> LimitOf(k)]
                      /\ Ready(f, k)'
  PROVE  AtomInv(t)' /\ UNCHANGED Atomic!vars
<1>1. /\ ~Idle(t)' /\ Top(t)' = f /\ Below(t)' = Below(t)
      /\ ~Fresh(stack[t])' /\ before' = before
  BY GoesOn DEF WorldSteps
<1>2. ~OtherHook(t)' /\ UNCHANGED Atomic!vars
  BY <1>1, NoStep DEF OtherHook, WorldSteps
<1>3. ~Fresh(stack[t])
  BY FreshFacts DEF Look, Frame, WorldSteps
<1>4. ASSUME DoneNothing(t)' PROVE DoneNothing(t) /\ UNCHANGED engine
  <2>1. f.screen = "none" /\ Below(t) = {}
    BY <1>1, <1>4 DEF DoneNothing
  <2>2. Top(t).screen = "none"
    BY <2>1
  <2>3. DoneNothing(t)
    BY <1>3, <2>1, <2>2 DEF DoneInv, DoneOther, DoneScreen, Screens
  <2> QED
    BY <2>1, <2>2, <2>3
<1>5. ASSUME NEW k \in Screens, DoneNothing(t), DoneScreen(t, k)' PROVE AtomScreen(t, k)'
  <2>1. Top(t).screen = "none" /\ Below(t) = {} /\ engine = before.engine /\ regime = before.regime
    BY <1>3, <1>5 DEF DoneNothing, AtomInv, AtomWorld
  <2>2. f.screen = k /\ f.at = "limit" /\ UNCHANGED <<engine, regime>>
    BY <1>1, <1>5, <2>1 DEF DoneScreen
  <2>3. Ready(f, k)'
    BY <2>2 DEF Ready
  <2> QED
    BY <1>1, <2>1, <2>2, <2>3, ScreenGoesOn
<1>6. ASSUME NEW k \in Screens, DoneScreen(t, k), DoneScreen(t, k)', AtomScreen(t, k)
      PROVE  AtomScreen(t, k)'
  <2>0. k # "none"
    BY DEF Screens
  <2>1. CASE Top(t).screen = "none" /\ f.screen = "none"
    BY <1>6, <2>1, NoScreenGoesOn
  <2>2. CASE Top(t).screen = "none" /\ f.screen # "none"
    <3>1. f.screen = k /\ f.at = "limit" /\ UNCHANGED <<engine, regime>> /\ Below(t) # {}
      BY <1>1, <1>6, <2>2 DEF DoneScreen
    <3>2. Ready(f, k)'
      BY <3>1 DEF Ready
    <3>3. /\ focusUnfocusAddr # NoAddr
          /\ engine.fg = LimitOf(k) /\ engine.bg = LimitOf(k)
          /\ regime = [by |-> k, limit |-> LimitOf(k)]
      BY <1>6, <3>1 DEF AtomScreen, Written
    <3> QED
      BY <1>1, <3>1, <3>2, <3>3, ScreenGoesOn
  <2>3. CASE Top(t).screen # "none"
    <3>1. Top(t).screen = k /\ f.screen = k
      BY <1>6, <2>3 DEF DoneScreen
    <3>2. CASE focusUnfocusAddr = NoAddr
      <4>1. /\ Below(t) = {} /\ f.at \in {"limit", "fg", "applied", "record", "zone"}
            /\ engine' = before.engine /\ regime' = before.regime
        BY <1>6, <2>0, <3>1, <3>2 DEF AtomScreen
      <4> QED
        BY <1>1, <3>1, <3>2, <4>1, ScreenGoesOn
    <3>3. CASE focusUnfocusAddr # NoAddr
      <4>1. /\ Ready(Top(t), k) /\ Written(t, k)
            /\ Top(t).at \in {"fg", "bg"} => Top(t).arg = LimitOf(k)
        BY <1>6, <3>1, <3>3 DEF AtomScreen
      <4>2. /\ f.at \in {"fg", "bg"} => f.arg = LimitOf(k)
            /\ \/ Below(t) = {} /\ f.at \in {"limit", "fg"}
               \/ Below(t) = {} /\ f.at = "bg" /\ engine'.fg = LimitOf(k)
               \/ /\ engine'.fg = LimitOf(k) /\ engine'.bg = LimitOf(k)
                  /\ regime' = [by |-> k, limit |-> LimitOf(k)]
            /\ Ready(f, k)'
        BY <1>6, <2>0, <3>1, <3>3, <4>1
      <4> QED
        BY <1>1, <3>1, <3>3, <4>2, ScreenGoesOn
    <3> QED
      BY <3>2, <3>3
  <2> QED
    BY <2>1, <2>2, <2>3
<1> QED
  BY <1>1, <1>2, <1>3, <1>4, <1>5, <1>6, AtomGoesOn

\* The last of the hooks of a screen is over: what they did is the one call of
\* SetAndApplyFpsLimits that FpsLimiter makes.
LEMMA AppliedOnce ==
  ASSUME FramesInv, NEW t \in Threads, AtomInv(t), AtomWorld(t), NEW k \in Screens, AtomScreen(t, k),
         Top(t).at = "zone", Top(t).screen = k, Below(t) = {}, before' = Now',
         UNCHANGED <<cfg, engine, regime, status>>,
         NEW limit, AsUint32(limit) = LimitOf(k)
  PROVE  Atomic!SetAndApplyFpsLimits(k, limit, k # "loading")
<1>1. before'.engine = engine /\ before'.regime = regime
  BY DEF Now
<1>2. Atomic!AsUint32(limit) = LimitOf(k)
  BY DEF Atomic!AsUint32, AsUint32
<1>3. focusState = before.focusState /\ focusUnfocusAddr = before.focusUnfocusAddr
  BY DEF AtomWorld
<1>4. "FocusUnfocus" \in found
  BY DEF FramesInv, ThreadsTypeOK, ClientFunctions
<1>5. CASE focusUnfocusAddr = NoAddr
  <2>1. engine = before.engine /\ regime = before.regime
    BY <1>5 DEF AtomScreen
  <2> QED
    BY <1>1, <1>3, <1>5, <2>1 DEF Atomic!SetAndApplyFpsLimits
<1>6. CASE focusUnfocusAddr # NoAddr
  <2>1. /\ engine.fg = LimitOf(k) /\ engine.bg = LimitOf(k)
        /\ regime = [by |-> k, limit |-> LimitOf(k)]
        /\ engine.focused = LeftBy(k) /\ engine.cap = LimitOf(k)
    BY <1>6 DEF AtomScreen, Written, Ready
  <2>2. LimitOf(k) \in Int
    BY LimitsOf DEF FramesInv, ThreadsTypeOK
  <2>3. Atomic!Applied(before.engine, LimitOf(k), k # "loading") =
          [fg |-> LimitOf(k), bg |-> LimitOf(k), cap |-> LimitOf(k),
           focused |-> IF k # "loading" THEN 0 ELSE before.focusState]
    BY <2>2, AppliedBefore DEF AtomInv
  <2>4. engine \in Engines(Int)
    BY DEF FramesInv, ThreadsTypeOK
  <2>5. engine = Atomic!Applied(before.engine, LimitOf(k), k # "loading")
    BY <1>3, <2>1, <2>3, <2>4 DEF LeftBy, Engines
  <2> QED
    BY <1>1, <1>2, <1>3, <1>4, <1>6, <2>1, <2>5 DEF Atomic!SetAndApplyFpsLimits
<1> QED
  BY <1>5, <1>6

\* The hooks of GetWorld that end with this one are one GetWorld of FpsLimiter.
LEMMA GetWorldOnce ==
  ASSUME FramesInv, NEW t \in Threads, DoneInv(t), AtomInv(t), RecordZone(t), ~Fresh(stack[t]),
         Below(t) = {}, before' = Now'
  PROVE  Atomic!hkBNSClient_GetWorld
<1>1. /\ ~Idle(t) /\ Top(t).at = "zone" /\ ~OtherHook(t)
      /\ UNCHANGED <<found, cfg, world, engine, focusState, focusUnfocusAddr, status, regime, seen,
                     applyLowFpsToNextLoadingScreen, inTransitState>>
      /\ prevGeoZoneId' = world.geozoneId
  BY DEF RecordZone, At, OtherHook
<1>2. AtomWorld(t)
  BY <1>1 DEF AtomInv
<1>3. /\ before'.engine = engine /\ before'.regime = regime
      /\ before'.focusState = before.focusState /\ before'.focusUnfocusAddr = before.focusUnfocusAddr
      /\ before'.applyLow = applyLowFpsToNextLoadingScreen
      /\ before'.inTransitState = inTransitState
      /\ before'.prevGeoZoneId = world.geozoneId /\ before'.seen = View(world)
  BY <1>1, <1>2 DEF Now, AtomWorld
<1>4. Atomic!Hooked("GetWorld") /\ world # NoWorld /\ Atomic!View(world) = View(world)
  BY <1>2 DEF FramesInv, ThreadsTypeOK, ClientFunctions, Atomic!Hooked, AtomWorld, Atomic!View, View
<1>5. ASSUME Atomic!EnterCharSelect \/ Atomic!ToggleTransit \/ Atomic!NothingNew
      PROVE  Atomic!hkBNSClient_GetWorld
  BY <1>1, <1>3, <1>4, <1>5 DEF Atomic!hkBNSClient_GetWorld
<1>6. CASE DoneNothing(t)
  <2>1. /\ ~Atomic!ToCharSelect /\ (Atomic!TransitEdge => ~world.isTransit)
        /\ regime = before.regime /\ engine = before.engine
        /\ applyLowFpsToNextLoadingScreen = before.applyLow /\ inTransitState = world.isTransit
    BY <1>1, <1>2, <1>6 DEF DoneNothing, AtomWorld
  <2>2. CASE Atomic!TransitEdge
    BY <1>1, <1>3, <1>5, <2>1, <2>2 DEF Atomic!ToggleTransit
  <2>3. CASE ~Atomic!TransitEdge
    <3>1. world.isTransit = before.inTransitState
      BY <2>3 DEF Atomic!TransitEdge, Atomic!TransitChanged
    <3> QED
      BY <1>1, <1>3, <1>5, <2>1, <2>3, <3>1 DEF Atomic!NothingNew
  <2> QED
    BY <2>2, <2>3
<1>7. ASSUME NEW k \in Screens, DoneScreen(t, k) PROVE Atomic!hkBNSClient_GetWorld
  <2>1. /\ Top(t).screen = k /\ VerdictBefore(k) /\ AtomScreen(t, k)
        /\ applyLowFpsToNextLoadingScreen = NewFlag(k) /\ inTransitState = world.isTransit
    BY <1>1, <1>2, <1>7 DEF DoneScreen, AtomWorld, Recorded
  <2>2. ASSUME NEW limit, AsUint32(limit) = LimitOf(k)
        PROVE  Atomic!SetAndApplyFpsLimits(k, limit, k # "loading")
    BY <1>1, <1>2, <2>1, <2>2, AppliedOnce
  <2>3. cfg \in Config
    BY DEF FramesInv, ThreadsTypeOK
  <2>4. CASE k = "low"
    <3>1. Atomic!ToCharSelect
      BY <2>1, <2>4 DEF VerdictBefore
    <3>2. Atomic!SetAndApplyFpsLimits("low", 5, TRUE)
      BY <2>2, <2>3, <2>4, LimitsOf
    <3>3. Atomic!SetAndApplyLowFps
      BY <1>3, <2>1, <2>4, <3>2 DEF Atomic!SetAndApplyLowFps, NewFlag
    <3> QED
      BY <1>3, <1>5, <2>1, <3>1, <3>3 DEF Atomic!EnterCharSelect
  <2>5. CASE k # "low"
    <3>1. NewBefore
      BY <2>1, <2>5 DEF VerdictBefore
    <3>2. ~(Live /\ world.leaveReason = 1 /\ world.geozoneId = 0)
      BY <3>1 DEF NewBefore, Atomic!ToCharSelect, Atomic!TransitEdge, Atomic!TransitChanged,
                  Atomic!ZoneChanged
    <3>3. IF Live /\ before.applyLow
          THEN Atomic!SetAndApplyFpsLimits("charselect", cfg.CharselectLimit, TRUE)
          ELSE Atomic!SetAndApplyFpsLimits("loading", cfg.LoadingLimit, FALSE)
      <4>1. CASE k = "charselect"
        <5>1. Live /\ before.applyLow
          BY <2>1, <4>1 DEF VerdictBefore
        <5> QED
          BY <2>2, <2>3, <4>1, <5>1, LimitsOf
      <4>2. CASE k = "loading"
        <5>1. ~(Live /\ before.applyLow)
          BY <2>1, <4>2 DEF VerdictBefore
        <5> QED
          BY <2>2, <2>3, <4>2, <5>1, LimitsOf
      <4> QED
        BY <2>5, <4>1, <4>2 DEF Screens
    <3>4. Atomic!SetInTransitFps
      BY <1>3, <2>1, <2>5, <3>2, <3>3 DEF Atomic!SetInTransitFps, Atomic!SetAndApplyUnlimitedFps, NewFlag
    <3> QED
      BY <1>3, <1>5, <2>1, <3>1, <3>4 DEF Atomic!ToggleTransit, NewBefore
  <2> QED
    BY <2>4, <2>5
<1> QED
  BY <1>1, <1>6, <1>7 DEF DoneInv, DoneOther

LEMMA ZoneAtom ==
  ASSUME FramesInv, FramesInv', NEW t \in Threads, DoneInv(t), DoneInv(t)', Remembers(t),
         AtomInv(t), RecordZone(t)
  PROVE  AtomInv(t)' /\ (Atomic!hkBNSClient_GetWorld \/ UNCHANGED Atomic!vars)
<1>1. /\ ~Idle(t) /\ Top(t).at = "zone" /\ Return(t) /\ ~OtherHook(t)
      /\ UNCHANGED <<found, cfg, world, engine, focusState, focusUnfocusAddr, status, regime, seen>>
  BY DEF RecordZone, At, OtherHook
<1>2. ~Fresh(stack[t])
  BY <1>1, FreshFacts DEF Look, Frame
<1>3. AtomWorld(t)
  BY <1>1, <1>2 DEF AtomInv
<1>4. CASE Below(t) = {}
  <2>1. Idle(t)' /\ Fresh(stack[t])'
    BY <1>1, <1>4, SecondFacts, FreshNext
  <2>2. before' = Now'
    BY <2>1 DEF Remembers
  <2>3. Atomic!hkBNSClient_GetWorld
    BY <1>2, <1>4, <2>2, GetWorldOnce
  <2>4. engine' \in Engines(Int) /\ focusState' \in Focus
    BY DEF FramesInv, ThreadsTypeOK
  <2> QED
    BY <2>1, <2>2, <2>3, <2>4 DEF AtomInv, Now
<1>5. CASE Below(t) # {}
  <2>1. /\ ~Idle(t)' /\ Top(t)' = Second(t) /\ Second(t) \in Below(t)
        /\ Top(t)'.at \in {"back", "unfocus", "applied"}
    BY <1>1, <1>5, SecondFacts, ReturnsBelow
  <2>2. ~OtherHook(t)' /\ ~DoneNothing(t)' /\ ~DoneNothing(t)
    BY <1>5, <2>1 DEF OtherHook, DoneNothing
  <2>3. ~Fresh(stack[t])' /\ before' = before
    <3>1. ~Fresh(stack[t])'
      BY <2>1, FreshNext DEF Look, Frame
    <3> QED
      BY <3>1 DEF Remembers
  <2>4. ASSUME NEW k \in Screens, DoneScreen(t, k), AtomScreen(t, k) PROVE AtomScreen(t, k)'
    <3>1. /\ focusUnfocusAddr # NoAddr
          /\ engine.fg = LimitOf(k) /\ engine.bg = LimitOf(k)
          /\ regime = [by |-> k, limit |-> LimitOf(k)]
          /\ Top(t).screen = k => Ready(Top(t), k)
          /\ Top(t).screen = "none" => Ready(Second(t), k)
      BY <1>5, <2>4 DEF AtomScreen, Written
    <3>2. Ready(Second(t), k)
      <4>1. CASE Top(t).screen = k
        BY <1>1, <2>1, <3>1, <4>1 DEF Ready
      <4> QED
        BY <2>4, <3>1, <4>1 DEF DoneScreen
    <3>3. LimitOf(k)' = LimitOf(k) /\ k # "none"
      BY <1>1, SameLimit DEF Screens
    <3>4. Ready(Top(t), k)'
      BY <1>1, <2>1, <3>2, <3>3 DEF Ready, LeftBy, Away, Back
    <3>5. Top(t)'.screen = k
      BY <2>1, <2>4 DEF DoneScreen
    <3> QED
      BY <1>1, <2>1, <3>1, <3>3, <3>4, <3>5 DEF AtomScreen, Written
  <2>5. AtomInv(t)'
    BY <1>1, <1>2, <2>2, <2>3, <2>4, AtomGoesOn
  <2> QED
    BY <1>1, <2>3, <2>5, NoStep
<1> QED
  BY <1>4, <1>5

LEMMA CallAtom ==
  ASSUME FramesInv, FramesInv', NEW t \in Threads, DoneInv(t), DoneInv(t)', Remembers(t),
         AtomInv(t), CallClient(t)
  PROVE  AtomInv(t)' /\ (Atomic!Next \/ UNCHANGED Atomic!vars)
<1>0. PICK f : f = [Top(t) EXCEPT !.at = Top(t).next]
  OBVIOUS
<1>1. /\ ~Idle(t) /\ Top(t).at = "call"
      /\ UNCHANGED <<found, cfg, world, focusState, focusUnfocusAddr, status, regime, seen,
                     applyLowFpsToNextLoadingScreen, inTransitState, prevGeoZoneId>>
      /\ engine' = FocusUnfocus(engine, Top(t).arg)
  BY DEF CallClient, At, statics
<1>2. Top(t) \in Frames /\ FrameOK(Duties(t), Top(t)) /\ stack \in [Threads -> Seq(Frames)]
      /\ engine \in Engines(Int) /\ focusState \in Focus
  BY <1>1, TopFacts DEF FramesInv, ThreadsTypeOK
<1>3. \/ Return(t) /\ Top(t).next = "return"
      \/ Continue(t, <<Look>>) /\ Top(t).next = "return"
      \/ Continue(t, <<f>>) /\ Top(t).next # "return"
      \/ Continue(t, <<Look>> \o <<f>>) /\ Top(t).next # "return"
  BY <1>0, <1>1, <1>2, NothingOnTop, LookAlone DEF CallClient
<1>4. f.screen = Top(t).screen /\ f.at = Top(t).next
      /\ (Top(t).next # "return" => f.at \in {"back", "unfocus", "applied"})
  BY <1>0, <1>2 DEF Frames, Nexts
<1>5. ~Fresh(stack[t])
  BY <1>1, FreshFacts DEF Look, Frame
<1>6. CASE Top(t).next = "return"
  <2>1. DoneOther(t) /\ OtherHook(t) /\ AtomOther(t)
    BY <1>1, <1>5, <1>6 DEF DoneInv, DoneNothing, DoneScreen, OtherHook, AtomInv
  <2>2. Fresh(stack[t])'
    <3>1. CASE Return(t)
      BY <1>1, <2>1, <3>1, PoppedBelow, FreshNext DEF DoneOther
    <3>2. CASE Continue(t, <<Look>>)
      BY <1>1, <2>1, <3>2, ReplacedBelow, FreshNext DEF DoneOther
    <3> QED
      BY <1>3, <1>6, <3>1, <3>2
  <2>3. before' = Now'
    BY <2>2 DEF Remembers
  <2>4. Top(t).arg \in Focus
    BY <1>1, <1>2 DEF FrameOK
  <2>5. Atomic!hkFocusUnfocus(Top(t).arg)
    <3>1. Atomic!Hooked("FocusUnfocus")
      BY DEF FramesInv, ThreadsTypeOK, ClientFunctions, Atomic!Hooked
    <3>2. Atomic!FocusUnfocus(before.engine, Top(t).arg) = FocusUnfocus(before.engine, Top(t).arg)
      BY DEF Atomic!FocusUnfocus, FocusUnfocus
    <3> QED
      BY <1>1, <2>1, <2>3, <3>1, <3>2
         DEF Atomic!hkFocusUnfocus, AtomOther, DoneOther, Untouched, Now
  <2>6. Atomic!Next
    BY <2>4, <2>5 DEF Atomic!Next, Atomic!Focus, Focus
  <2>7. engine' \in Engines(Int) /\ focusState' \in Focus
    BY DEF FramesInv, ThreadsTypeOK
  <2> QED
    BY <2>2, <2>3, <2>6, <2>7 DEF AtomInv, Now
<1>7. ASSUME Top(t).next # "return", NEW k \in Screens, Top(t).screen = k,
             Ready(Top(t), k), Written(t, k)
      PROVE  /\ Ready(f, k)' /\ engine'.fg = LimitOf(k) /\ engine'.bg = LimitOf(k)
             /\ regime' = [by |-> k, limit |-> LimitOf(k)]
  <2>1. /\ engine.fg = LimitOf(k) /\ engine.bg = LimitOf(k)
        /\ regime = [by |-> k, limit |-> LimitOf(k)]
    BY <1>1, <1>7 DEF Written
  <2>2. Top(t).next \in {"back", "unfocus", "applied"} /\ (Top(t).next = "unfocus" => k # "loading")
    BY <1>1, <1>2, <1>4, <1>7 DEF FrameOK
  <2> QED
    BY <1>1, <1>2, <1>4, <1>7, <2>1, <2>2, CallReadies
<1>8. CASE Top(t).next # "return"
  <2>1. ~OtherHook(t) /\ Top(t).screen \in Screens /\ Top(t).screen # "none"
    BY <1>1, <1>2, <1>8 DEF OtherHook, FrameOK, Screens
  <2>2. AtomWorld(t)
    BY <1>5, <2>1 DEF AtomInv
  <2>3. \A k \in Screens : DoneScreen(t, k) => focusUnfocusAddr # NoAddr
    BY <1>1, <2>2 DEF AtomWorld, AtomScreen
  <2>4. CASE Continue(t, <<f>>)
    BY <1>1, <1>4, <1>7, <1>8, <2>1, <2>3, <2>4, ScreenAtom DEF WorldSteps
  <2>5. CASE Continue(t, <<Look>> \o <<f>>)
    <3>1. ~Idle(t)' /\ Top(t)' = Look /\ Below(t)' = {f} \union Below(t) /\ Second(t)' = f
      BY <1>1, <2>5, PushedBelow, SecondFacts
    <3>2. ~Fresh(stack[t])' /\ before' = before
      BY <3>1, FreshNext DEF Remembers
    <3>3. Look.at = "look" /\ Look.screen = "none" /\ Look.next = "return"
      BY DEF Look, Frame
    <3>4. ~OtherHook(t)' /\ ~DoneNothing(t)'
      BY <3>1, <3>3 DEF OtherHook, DoneNothing
    <3>5. ~DoneNothing(t)
      BY <1>1 DEF DoneNothing
    <3>6. ASSUME NEW k \in Screens, DoneScreen(t, k), AtomScreen(t, k) PROVE AtomScreen(t, k)'
      <4>1. Top(t).screen = k /\ focusUnfocusAddr # NoAddr
        BY <2>1, <2>3, <3>6 DEF DoneScreen
      <4>2. Ready(Top(t), k) /\ Written(t, k)
        BY <3>6, <4>1 DEF AtomScreen
      <4>3. /\ Ready(f, k)' /\ engine'.fg = LimitOf(k) /\ engine'.bg = LimitOf(k)
            /\ regime' = [by |-> k, limit |-> LimitOf(k)]
        BY <1>7, <1>8, <4>1, <4>2
      <4>4. LimitOf(k)' = LimitOf(k) /\ k # "none"
        BY <1>1, SameLimit DEF Screens
      <4> QED
        BY <1>1, <3>1, <3>3, <4>1, <4>3, <4>4 DEF AtomScreen, Written
    <3>7. AtomInv(t)'
      BY <1>1, <1>5, <2>1, <3>2, <3>4, <3>5, <3>6, AtomGoesOn
    <3> QED
      BY <1>1, <3>2, <3>7, NoStep
  <2> QED
    BY <1>3, <1>8, <2>4, <2>5
<1> QED
  BY <1>6, <1>8

\* The hooks of the other functions, up to the step they end with.
LEMMA OtherAtom ==
  ASSUME FramesInv, FramesInv', NEW t \in Threads, DoneInv(t), Remembers(t), AtomInv(t),
         StoreAddress(t) \/ Override(t)
  PROVE  AtomInv(t)' /\ UNCHANGED Atomic!vars
<1>1. /\ ~Idle(t) /\ OtherHook(t) /\ ~Fresh(stack[t])
      /\ Top(t).at \in {"addr", "focus", "override", "use"}
      /\ UNCHANGED <<found, cfg, world, engine, status, seen>>
  <2>1. /\ ~Idle(t) /\ Top(t).at \in {"addr", "focus", "override", "use"}
        /\ UNCHANGED <<found, cfg, world, engine, status, seen>>
    BY DEF StoreAddress, Override, At, vars, plugin
  <2> QED
    BY <2>1, FreshFacts DEF OtherHook, Look, Frame
<1>2. AtomOther(t) /\ Top(t) \in Frames
  BY <1>1, TopFacts DEF AtomInv
<1>3. ASSUME NEW f, Continue(t, <<f>>),
             f.at \in {"override", "use", "save"} \/ (f.at = "call" /\ f.next = "return"),
             f.at = "call" => focusState' = f.arg /\ focusUnfocusAddr' = ObjAddr,
             f.at \in {"override", "use", "save"} =>
               UNCHANGED focusState /\ focusUnfocusAddr' = ObjAddr /\ Top(t).at # "focus",
             f.at \in {"override", "use"} => f.arg \in Limits,
             f.at = "use" => cfg.ForegroundLimit > -1,
             f.at = "save" => \E l \in Limits : f.arg = ForegroundOverride(l)
      PROVE  AtomInv(t)' /\ UNCHANGED Atomic!vars
  <2>1. /\ ~Idle(t)' /\ Top(t)' = f /\ ~Fresh(stack[t])' /\ before' = before
    BY <1>1, <1>3, GoesOn
  <2>2. OtherHook(t)'
    BY <1>3, <2>1 DEF OtherHook
  <2>3. \A l : ForegroundOverride(l)' = ForegroundOverride(l)
    BY <1>1 DEF ForegroundOverride
  <2>4. f.at \in {"override", "use", "save"} => focusState' = before.focusState
    BY <1>1, <1>2, <1>3 DEF AtomOther
  <2>5. AtomOther(t)'
    BY <1>1, <1>2, <1>3, <2>1, <2>3, <2>4 DEF AtomOther
  <2> QED
    BY <1>1, <2>1, <2>2, <2>5, NoStep DEF AtomInv
<1>4. CASE At(t, "addr") /\ Goto(t, "override") /\ UNCHANGED focusState /\ focusUnfocusAddr' = ObjAddr
  <2> DEFINE f == [Top(t) EXCEPT !.at = "override"]
  <2>1. f.at = "override" /\ f.arg = Top(t).arg /\ Continue(t, <<f>>)
    BY <1>2, <1>4 DEF Goto, Frames
  <2> HIDE DEF f
  <2> QED
    BY <1>2, <1>3, <1>4, <2>1 DEF At, AtomOther
<1>5. CASE /\ At(t, "focus") /\ Call(t, Top(t).arg, "return")
           /\ focusState' = Top(t).arg /\ focusUnfocusAddr' = ObjAddr
  <2> DEFINE f == [Top(t) EXCEPT !.at = "call", !.arg = Top(t).arg, !.next = "return"]
  <2>1. f.at = "call" /\ f.next = "return" /\ f.arg = Top(t).arg /\ Continue(t, <<f>>)
    BY <1>2, <1>5 DEF Call, Frames
  <2> HIDE DEF f
  <2> QED
    BY <1>3, <1>5, <2>1
<1>6. ASSUME At(t, "override"), UNCHANGED vars,
             NEW where, where = IF cfg.ForegroundLimit > -1 THEN "use" ELSE "save", Goto(t, where)
      PROVE  AtomInv(t)' /\ UNCHANGED Atomic!vars
  <2> DEFINE f == [Top(t) EXCEPT !.at = where]
  <2>1. f.at = where /\ f.arg = Top(t).arg /\ Continue(t, <<f>>)
    BY <1>2, <1>6 DEF Goto, Frames
  <2>2. Top(t).arg \in Limits /\ focusUnfocusAddr = ObjAddr
    BY <1>2, <1>6 DEF At, AtomOther
  <2>3. where = "save" => Top(t).arg = ForegroundOverride(Top(t).arg)
    BY <1>6 DEF ForegroundOverride
  <2>4. UNCHANGED <<focusState, focusUnfocusAddr>> /\ Top(t).at # "focus"
    BY <1>6 DEF vars, plugin, At
  <2> HIDE DEF f
  <2> QED
    BY <1>3, <1>6, <2>1, <2>2, <2>3, <2>4
<1>7. CASE /\ At(t, "use") /\ UNCHANGED vars
           /\ Continue(t, <<[Top(t) EXCEPT !.at = "save", !.arg = cfg.ForegroundLimit]>>)
  <2> DEFINE f == [Top(t) EXCEPT !.at = "save", !.arg = cfg.ForegroundLimit]
  <2>1. f.at = "save" /\ f.arg = cfg.ForegroundLimit /\ Continue(t, <<f>>)
    BY <1>2, <1>7 DEF Frames
  <2>2. Top(t).arg \in Limits /\ focusUnfocusAddr = ObjAddr
    BY <1>2, <1>7 DEF At, AtomOther
  <2>3. cfg.ForegroundLimit = ForegroundOverride(Top(t).arg)
    BY <1>2, <1>7 DEF ForegroundOverride, AtomOther, At
  <2>4. UNCHANGED <<focusState, focusUnfocusAddr>> /\ Top(t).at # "focus"
    BY <1>7 DEF vars, plugin, At
  <2> HIDE DEF f
  <2> QED
    BY <1>3, <2>1, <2>2, <2>3, <2>4
<1> QED
  BY <1>4, <1>5, <1>6, <1>7 DEF StoreAddress, Override

LEMMA SaveAtom ==
  ASSUME FramesInv, FramesInv', NEW t \in Threads, DoneInv(t), Remembers(t), AtomInv(t), Save(t)
  PROVE  AtomInv(t)' /\ Atomic!Next
<1>1. /\ ~Idle(t) /\ Top(t).at = "save" /\ Return(t) /\ OtherHook(t)
      /\ engine' = SetForegroundFpsLimit(engine, Top(t).arg)
      /\ regime' = [by |-> "game", limit |-> 0]
      /\ UNCHANGED <<found, cfg, world, focusState, focusUnfocusAddr, status, seen,
                     applyLowFpsToNextLoadingScreen, inTransitState, prevGeoZoneId>>
  BY DEF Save, At, SaveForeground, statics, OtherHook
<1>2. ~Fresh(stack[t])
  BY <1>1, FreshFacts DEF Look, Frame
<1>3. DoneOther(t) /\ AtomOther(t)
  BY <1>1, <1>2 DEF DoneInv, DoneNothing, DoneScreen, OtherHook, AtomInv
<1>4. Fresh(stack[t])'
  BY <1>1, <1>3, PoppedBelow, FreshNext DEF DoneOther
<1>5. before' = Now'
  BY <1>4 DEF Remembers
<1>6. PICK l \in Limits : Top(t).arg = ForegroundOverride(l)
  BY <1>1, <1>3 DEF AtomOther
<1>7. Atomic!Hooked("SetForegroundFpsLimit")
  BY DEF FramesInv, ThreadsTypeOK, ClientFunctions, Atomic!Hooked
<1>8. Atomic!SaveForeground(Atomic!ForegroundOverride(l))
  BY <1>1, <1>3, <1>5, <1>6 DEF Atomic!SaveForeground, Atomic!ForegroundOverride,
     ForegroundOverride, Atomic!SetForegroundFpsLimit, SetForegroundFpsLimit, AtomOther, Now
<1>9. Atomic!hkSetForegroundFpsLimit(l)
  BY <1>1, <1>3, <1>5, <1>7, <1>8
     DEF Atomic!hkSetForegroundFpsLimit, AtomOther, DoneOther, Untouched, Now
<1>10. engine' \in Engines(Int) /\ focusState' \in Focus
  BY DEF FramesInv, ThreadsTypeOK
<1> QED
  BY <1>4, <1>5, <1>9, <1>10 DEF Atomic!Next, AtomInv, Now

LEMMA EnterAtom ==
  ASSUME FramesInv, FramesInv', NEW t \in Threads, DoneInv(t), Remembers(t), AtomInv(t), ClientCalls(t)
  PROVE  AtomInv(t)' /\ UNCHANGED Atomic!vars
<1>1. ASSUME NEW f, Idle(t), UNCHANGED vars, stack' = [stack EXCEPT ![t] = <<f>>],
             \/ f.at = "look" /\ f = Look
             \/ f.at = "addr" /\ f.arg \in Limits
             \/ f.at = "focus"
      PROVE  AtomInv(t)' /\ UNCHANGED Atomic!vars
  <2>1. ~Idle(t)' /\ Top(t)' = f /\ Below(t)' = {}
    BY <1>1, EnteredBelow
  <2>2. before = Now /\ Now' = Now
    BY <1>1, FreshFacts DEF DoneInv, vars, plugin, Now
  <2>3. /\ before' = before
        /\ UNCHANGED <<found, cfg, world, status, engine, focusState, focusUnfocusAddr, seen>>
    BY <1>1, <2>2 DEF Remembers, vars, plugin
  <2>4. CASE f = Look
    <3>1. Fresh(stack[t])'
      BY <2>1, <2>4, FreshNext
    <3> QED
      BY <2>3, <3>1, NoStep DEF AtomInv
  <2>5. CASE f.at # "look"
    <3>1. OtherHook(t)'
      BY <1>1, <2>1, <2>5 DEF OtherHook
    <3>2. AtomOther(t)'
      BY <1>1, <2>1, <2>2, <2>3, <2>5 DEF AtomOther, Now
    <3> QED
      BY <2>3, <3>1, <3>2, NoStep DEF AtomInv
  <2> QED
    BY <1>1, <2>4, <2>5
<1>2. CASE Enters(t, "GetWorld", Look)
  <2>1. Look.at = "look"
    BY DEF Look, Frame
  <2> QED
    BY <1>1, <1>2, <2>1 DEF Enters
<1>3. ASSUME NEW l \in Limits, Enters(t, "SetForegroundFpsLimit", Frame("addr", l))
      PROVE  AtomInv(t)' /\ UNCHANGED Atomic!vars
  <2> DEFINE f == Frame("addr", l)
  <2>1. f.at = "addr" /\ f.arg = l /\ Idle(t) /\ UNCHANGED vars /\ stack' = [stack EXCEPT ![t] = <<f>>]
    BY <1>3 DEF Enters, Frame
  <2> HIDE DEF f
  <2> QED
    BY <1>1, <2>1
<1>4. ASSUME NEW l \in Focus, Enters(t, "FocusUnfocus", Frame("focus", l))
      PROVE  AtomInv(t)' /\ UNCHANGED Atomic!vars
  <2> DEFINE f == Frame("focus", l)
  <2>1. f.at = "focus" /\ Idle(t) /\ UNCHANGED vars /\ stack' = [stack EXCEPT ![t] = <<f>>]
    BY <1>4 DEF Enters, Frame
  <2> HIDE DEF f
  <2> QED
    BY <1>1, <2>1
<1> QED
  BY <1>2, <1>3, <1>4 DEF ClientCalls

LEMMA StepAtom ==
  ASSUME FramesInv, FramesInv', NEW t \in Threads, DoneInv(t), DoneInv(t)', Remembers(t),
         AtomInv(t), Step(t)
  PROVE  AtomInv(t)' /\ (Atomic!Next \/ UNCHANGED Atomic!vars)
<1>1. ~Idle(t) => Top(t) \in Frames /\ FrameOK(Duties(t), Top(t))
  BY TopFacts
<1>2. CASE ClientCalls(t)
  BY <1>2, EnterAtom
<1>3. CASE CallClient(t)
  BY <1>3, CallAtom
<1>4. CASE LookAtWorld(t)
  BY <1>4, LookAtom
<1>5. ASSUME At(t, "kind") \/ At(t, "flag"), UNCHANGED vars, NEW f, Continue(t, <<f>>),
             \/ f.at = "flag" /\ f.screen = Top(t).screen
             \/ f.at = "limit" /\ f.screen # "none"
      PROVE  AtomInv(t)' /\ UNCHANGED Atomic!vars
  <2>1. ~Idle(t) /\ Top(t).screen = "none" /\ ~OtherHook(t) /\ Top(t).at \in WorldSteps
    BY <1>1, <1>5 DEF At, FrameOK, OtherHook, WorldSteps
  <2>2. f.at \in WorldSteps /\ f.at # "call"
    BY <1>5 DEF WorldSteps
  <2> QED
    BY <1>5, <2>1, <2>2, ScreenAtom DEF vars, plugin
<1>6. CASE ChooseFunction(t)
  <2>1. PICK f : Continue(t, <<f>>) /\ \/ f.at = "flag" /\ f.screen = Top(t).screen
                                       \/ f.at = "limit" /\ f.screen # "none"
    <3>1. Top(t) \in Frames
      BY <1>1, <1>6 DEF ChooseFunction, At
    <3>2. CASE Goto(t, "flag")
      <4>1. PICK f : f = [Top(t) EXCEPT !.at = "flag"]
        OBVIOUS
      <4> QED
        BY <3>1, <3>2, <4>1 DEF Goto, Frames
    <3>3. CASE Decide(t, "limit", "low")
      <4>1. PICK f : f = [Top(t) EXCEPT !.at = "limit", !.screen = "low"]
        OBVIOUS
      <4>2. f.at = "limit" /\ f.screen = "low" /\ Continue(t, <<f>>)
        BY <3>1, <3>3, <4>1 DEF Decide, Frames
      <4> QED
        BY <4>2
    <3> QED
      BY <1>6, <3>2, <3>3 DEF ChooseFunction
  <2> QED
    BY <1>5, <1>6, <2>1 DEF ChooseFunction
<1>7. CASE ChooseScreen(t)
  <2>1. PICK k \in Screens : Decide(t, "limit", k)
    BY <1>7 DEF ChooseScreen, Screens
  <2>2. PICK f : f = [Top(t) EXCEPT !.at = "limit", !.screen = k]
    OBVIOUS
  <2>3. f.at = "limit" /\ f.screen # "none" /\ Continue(t, <<f>>)
    BY <1>1, <1>7, <2>1, <2>2 DEF ChooseScreen, At, Decide, Frames, Screens
  <2> QED
    BY <1>5, <1>7, <2>3 DEF ChooseScreen
<1>8. ASSUME ~Idle(t), Top(t).at \in {"limit", "fg", "bg", "away", "back", "unfocus", "applied", "record"}
      PROVE  /\ ~OtherHook(t) /\ Top(t).at \in WorldSteps /\ Top(t) \in Frames
             /\ Top(t).at # "record" => Top(t).screen \in Screens /\ Top(t).screen # "none"
             /\ Top(t).at = "unfocus" => Top(t).screen # "loading"
  BY <1>1, <1>8 DEF OtherHook, WorldSteps, FrameOK, Screens
<1>9. CASE ChooseLimit(t)
  <2>1. ~Idle(t) /\ Top(t).at = "limit" /\ UNCHANGED vars
    BY <1>9 DEF ChooseLimit, At
  <2>2. PICK f : f = [Top(t) EXCEPT !.at = "fg", !.arg = LimitOf(Top(t).screen)]
    OBVIOUS
  <2>3. f.at = "fg" /\ f.arg = LimitOf(Top(t).screen) /\ f.screen = Top(t).screen /\ Continue(t, <<f>>)
    BY <1>8, <1>9, <2>1, <2>2 DEF ChooseLimit, Frames
  <2>4. \A k : Ready(f, k)'
    BY <2>3 DEF Ready
  <2>5. f.at \in WorldSteps /\ f.at # "call"
    BY <2>3 DEF WorldSteps
  <2>6. \A k : Written(t, k) => \/ Below(t) = {}
                               \/ /\ engine.fg = LimitOf(k) /\ engine.bg = LimitOf(k)
                                  /\ regime = [by |-> k, limit |-> LimitOf(k)]
    BY DEF Written
  <2> QED
    BY <1>8, <2>1, <2>3, <2>4, <2>5, <2>6, ScreenAtom DEF vars, plugin
<1>10. CASE StoreForeground(t)
  <2>1. /\ ~Idle(t) /\ Top(t).at = "fg"
        /\ UNCHANGED <<found, cfg, world, focusState, focusUnfocusAddr, status, regime, seen>>
    BY <1>10 DEF StoreForeground, At, statics
  <2>2. PICK where : /\ where = IF focusUnfocusAddr = NoAddr THEN "applied" ELSE "bg"
                     /\ Goto(t, where)
    BY <1>10 DEF StoreForeground
  <2>3. PICK f : f = [Top(t) EXCEPT !.at = where]
    OBVIOUS
  <2>4. f.at = where /\ f.arg = Top(t).arg /\ f.screen = Top(t).screen /\ Continue(t, <<f>>)
    BY <1>8, <2>1, <2>2, <2>3 DEF Goto, Frames
  <2>5. f.at \in WorldSteps /\ f.at # "call"
    BY <2>2, <2>4 DEF WorldSteps
  <2>6. focusUnfocusAddr = NoAddr => UNCHANGED engine
    BY <1>10 DEF StoreForeground
  <2>7. focusUnfocusAddr # NoAddr => engine'.fg = Top(t).arg /\ engine'.bg = engine.bg
    <3>1. engine \in Engines(Int)
      BY DEF FramesInv, ThreadsTypeOK
    <3> QED
      BY <1>10, <3>1 DEF StoreForeground, Engines
  <2>8. focusUnfocusAddr # NoAddr => \A k : Ready(f, k)'
    BY <2>2, <2>4 DEF Ready
  <2>9. \A k : Written(t, k) => \/ Below(t) = {}
                               \/ /\ engine.fg = LimitOf(k) /\ engine.bg = LimitOf(k)
                                  /\ regime = [by |-> k, limit |-> LimitOf(k)]
    BY DEF Written
  <2> QED
    BY <1>8, <2>1, <2>2, <2>4, <2>5, <2>6, <2>7, <2>8, <2>9, ScreenAtom
<1>11. CASE StoreBackground(t)
  <2>1. /\ ~Idle(t) /\ Top(t).at = "bg"
        /\ UNCHANGED <<found, cfg, world, focusState, focusUnfocusAddr, status, seen>>
        /\ regime' = [by |-> Top(t).screen, limit |-> Top(t).arg]
    BY <1>11 DEF StoreBackground, At, statics
  <2>2. PICK f : f = [Top(t) EXCEPT !.at = "away"]
    OBVIOUS
  <2>3. f.at = "away" /\ f.screen = Top(t).screen /\ Continue(t, <<f>>)
    BY <1>8, <1>11, <2>1, <2>2 DEF StoreBackground, Goto, Frames
  <2>4. f.at \in WorldSteps /\ f.at # "call"
    BY <2>3 DEF WorldSteps
  <2>5. engine'.bg = Top(t).arg /\ engine'.fg = engine.fg
    <3>1. engine \in Engines(Int)
      BY DEF FramesInv, ThreadsTypeOK
    <3> QED
      BY <1>11, <3>1 DEF StoreBackground, Engines
  <2>6. \A k : Ready(f, k)'
    BY <2>3 DEF Ready
  <2>7. \A k : Written(t, k) => engine.fg = LimitOf(k)
    BY <2>1 DEF Written
  <2> QED
    BY <1>8, <2>1, <2>3, <2>4, <2>5, <2>6, <2>7, ScreenAtom
<1>12. CASE PlayFocus(t)
  <2>1. ~Idle(t) /\ Top(t).at \in {"away", "back", "unfocus"} /\ UNCHANGED vars
    BY <1>12 DEF PlayFocus, At
  <2>2. PICK focus, next : /\ Call(t, focus, next)
                           /\ \/ Top(t).at = "away" /\ focus = Away /\ next = "back"
                              \/ Top(t).at = "back" /\ focus = Back /\ next = After(Top(t).screen)
                              \/ Top(t).at = "unfocus" /\ focus = 0 /\ next = "applied"
    BY <1>12 DEF PlayFocus, AfterBack, After, At
  <2>3. PICK f : f = [Top(t) EXCEPT !.at = "call", !.arg = focus, !.next = next]
    OBVIOUS
  <2>4. /\ f.at = "call" /\ f.arg = focus /\ f.next = next /\ f.screen = Top(t).screen
        /\ Continue(t, <<f>>) /\ f.next # "return"
    BY <1>8, <2>1, <2>2, <2>3 DEF Call, Frames, After
  <2>5. ASSUME NEW k \in Screens, Top(t).screen = k, Ready(Top(t), k) PROVE Ready(f, k)'
    <3>1. engine' = engine /\ LimitOf(k)' = LimitOf(k) /\ Away' = Away /\ Back' = Back
      BY <2>1, SameLimit DEF vars, plugin, Away, Back
    <3>2. CASE Top(t).at = "away"
      BY <2>2, <2>4, <3>1, <3>2 DEF Ready, After
    <3>3. CASE Top(t).at = "back"
      BY <2>2, <2>4, <2>5, <3>1, <3>3 DEF Ready, After
    <3>4. CASE Top(t).at = "unfocus"
      BY <1>8, <2>1, <2>2, <2>4, <2>5, <3>1, <3>4 DEF Ready, After
    <3> QED
      BY <2>1, <3>2, <3>3, <3>4
  <2>6. \A k : Written(t, k) => engine.fg = LimitOf(k) /\ engine.bg = LimitOf(k)
                                  /\ regime = [by |-> k, limit |-> LimitOf(k)]
    BY <2>1 DEF Written
  <2> QED
    BY <1>8, <2>1, <2>4, <2>5, <2>6, ScreenAtom DEF vars, plugin
<1>13. ASSUME ~Idle(t), Top(t).at \in {"applied", "record"},
              NEW where \in {"record", "zone"}, Goto(t, where),
              UNCHANGED <<found, cfg, world, engine, focusState, focusUnfocusAddr, status, regime, seen>>
       PROVE  AtomInv(t)' /\ UNCHANGED Atomic!vars
  <2>1. PICK f : f = [Top(t) EXCEPT !.at = where]
    OBVIOUS
  <2>2. f.at = where /\ f.screen = Top(t).screen /\ Continue(t, <<f>>)
    BY <1>8, <1>13, <2>1 DEF Goto, Frames
  <2>3. f.at \in WorldSteps /\ f.at # "call"
    BY <2>2 DEF WorldSteps
  <2>4. ASSUME NEW k, Ready(Top(t), k) PROVE Ready(f, k)'
    <3>1. engine' = engine /\ LimitOf(k)' = LimitOf(k) /\ LeftBy(k)' = LeftBy(k)
      BY <1>13, SameLimit DEF LeftBy
    <3> QED
      BY <1>13, <2>2, <2>4, <3>1 DEF Ready
  <2>5. \A k : Written(t, k) => engine.fg = LimitOf(k) /\ engine.bg = LimitOf(k)
                                  /\ regime = [by |-> k, limit |-> LimitOf(k)]
    BY <1>13 DEF Written
  <2> QED
    BY <1>8, <1>13, <2>2, <2>3, <2>4, <2>5, ScreenAtom
<1>14. CASE SetFlag(t)
  BY <1>13, <1>14 DEF SetFlag, At
<1>15. CASE RecordTransit(t)
  BY <1>13, <1>15 DEF RecordTransit, At
<1>16. CASE RecordZone(t)
  BY <1>16, ZoneAtom DEF Atomic!Next
<1>17. CASE StoreAddress(t) \/ Override(t)
  BY <1>17, OtherAtom
<1>18. CASE Save(t)
  BY <1>18, SaveAtom
<1> QED
  BY <1>2, <1>3, <1>4, <1>6, <1>7, <1>9, <1>10, <1>11, <1>12, <1>14, <1>15, <1>16, <1>17, <1>18 DEF Step

LEMMA EnvironmentAtom ==
  ASSUME FramesInv, FramesInv', NEW t \in Threads, DoneInv(t), Remembers(t), AtomInv(t), Environment(t)
  PROVE  AtomInv(t)' /\ (Atomic!Next \/ UNCHANGED Atomic!vars)
<1>1. Idle(t) /\ Fresh(stack[t]) /\ Fresh(stack[t])'
  BY DEF Environment, Idle, Fresh
<1>2. before = Now /\ before' = Now'
  BY <1>1 DEF DoneInv, Remembers
<1>3. AtomInv(t)'
  BY <1>1, <1>2 DEF AtomInv, FramesInv, ThreadsTypeOK, Now
<1>4. CASE WorldChanges
  <2>1. Atomic!WorldChanges
    BY <1>2, <1>4 DEF WorldChanges, Atomic!WorldChanges, Atomic!Worlds, Worlds, Atomic!plugin, plugin, Now
  <2> QED
    BY <1>3, <2>1 DEF Atomic!Next
<1>5. CASE ConfigReloaded
  <2>1. Atomic!ConfigReloaded
    BY <1>2, <1>5 DEF ConfigReloaded, Atomic!ConfigReloaded, Atomic!plugin, plugin, Now
  <2> QED
    BY <1>3, <2>1 DEF Atomic!Next
<1>6. ASSUME NEW l \in Limits, SaveBackground(l) PROVE AtomInv(t)' /\ Atomic!Next
  <2>1. Atomic!SaveBackground(l)
    BY <1>2, <1>6 DEF SaveBackground, Atomic!SaveBackground, SetBackgroundFpsLimit,
                      Atomic!SetBackgroundFpsLimit, Atomic!plugin, plugin, Now
  <2> QED
    BY <1>3, <2>1 DEF Atomic!Next
<1> QED
  BY <1>4, <1>5, <1>6 DEF Environment

\* The invariant of the refinement, when nothing happens but on one thread.
SoleInv == \A t \in Threads : Sole(schedule, t) => DoneInv(t) /\ AtomInv(t)

LEMMA SoleStep ==
  FramesInv /\ SoleInv /\ [ThreadsNext]_hookVars =>
    SoleInv' /\ (OneThread => Atomic!Next \/ UNCHANGED Atomic!vars)
<1> SUFFICES ASSUME FramesInv, SoleInv, [ThreadsNext]_hookVars
             PROVE  SoleInv' /\ (OneThread => Atomic!Next \/ UNCHANGED Atomic!vars)
  OBVIOUS
<1>1. FramesInv' /\ UNCHANGED schedule
  BY FramesStep, SameSchedule
<1>2. ASSUME NEW t \in Threads, Sole(schedule, t)
      PROVE  DoneInv(t)' /\ AtomInv(t)' /\ (Atomic!Next \/ UNCHANGED Atomic!vars)
  <2>1. DoneInv(t) /\ AtomInv(t)
    BY <1>2 DEF SoleInv
  <2>2. CASE UNCHANGED hookVars
    <3>1. UNCHANGED <<vars, stack, before>> /\ UNCHANGED Atomic!vars
      BY <2>2 DEF hookVars, vars, plugin, Atomic!vars, Atomic!plugin
    <3>2. /\ OtherHook(t)' <=> OtherHook(t)
          /\ Fresh(stack[t])' <=> Fresh(stack[t])
          /\ DoneNothing(t)' <=> DoneNothing(t)
          /\ \A k \in Screens : DoneScreen(t, k)' <=> DoneScreen(t, k)
      BY <3>1 DEF OtherHook, Fresh, Top, Below, DoneNothing, DoneScreen, Untouched, NewBefore,
         VerdictBefore, Recorded, NewFlag, vars, plugin, Atomic!ToCharSelect, Atomic!TransitEdge,
         Atomic!TransitChanged, Atomic!ZoneChanged
    <3>3. DoneInv(t)'
      BY <2>1, <3>1, <3>2 DEF DoneInv, DoneOther, OtherHook, Top, Below, Untouched, FlagNeedsLive,
         Now, vars, plugin
    <3>4. \A k \in Screens : AtomScreen(t, k)' <=> AtomScreen(t, k)
      BY <3>1 DEF AtomScreen, Written, Ready, Top, Below, Second, LeftBy, Away, Back, LimitOf, vars, plugin
    <3>5. AtomOther(t)' <=> AtomOther(t)
      BY <3>1 DEF AtomOther, Top, ForegroundOverride, vars, plugin
    <3>6. AtomWorld(t) => AtomWorld(t)'
      BY <3>1, <3>2, <3>4 DEF AtomWorld, View, vars, plugin
    <3> QED
      BY <2>1, <3>1, <3>2, <3>3, <3>5, <3>6 DEF AtomInv
  <2>3. CASE ThreadsNext
    <3>1. Remembers(t)
      BY <1>2, <2>3, SoleDecides, DecidesRemembers
    <3>2. ASSUME Step(t) PROVE DoneInv(t)' /\ AtomInv(t)' /\ (Atomic!Next \/ UNCHANGED Atomic!vars)
      BY <1>1, <2>1, <3>1, <3>2, StepDone, StepAtom
    <3>3. ASSUME Environment(t) PROVE DoneInv(t)' /\ AtomInv(t)' /\ (Atomic!Next \/ UNCHANGED Atomic!vars)
      BY <1>1, <2>1, <3>1, <3>3, EnvironmentDone, EnvironmentAtom
    <3>4. \A u \in Threads \ {t} : ~(Step(u) \/ Environment(u))
      BY <1>2, SoleAlone
    <3> QED
      BY <2>3, <3>2, <3>3, <3>4 DEF ThreadsNext
  <2> QED
    BY <2>2, <2>3
<1>3. OneThread => \E t \in Threads : Sole(schedule, t)
  BY DEF OneThread, Limiting, Duties, Sole
<1>4. \A t \in Threads : Sole(schedule, t)' <=> Sole(schedule, t)
  BY <1>1 DEF Sole
<1> QED
  BY <1>2, <1>3, <1>4 DEF SoleInv

\* Hooks that run in steps, and inside each other to any depth, do on one thread what
\* hooks that are one step do one after the other: FpsLimiter, in which a hook is one
\* step, is what the code does as long as all of it runs on the thread of the client.
THEOREM AtomicHooks == ThreadsSpec => HooksAreAtomic
<1> DEFINE Inv == FramesInv /\ SoleInv
<1>1. ThreadsInit => Inv /\ Atomic!Init
  <2> SUFFICES ASSUME ThreadsInit PROVE SoleInv /\ Atomic!Init
    BY FramesInit
  <2>1. before = Now /\ Init
    BY DEF ThreadsInit
  <2>2. \A t \in Threads : Fresh(stack[t])
    BY DEF ThreadsInit, Fresh
  <2>3. engine \in Engines(Int) /\ focusState \in Focus
    BY FramesInit DEF FramesInv, ThreadsTypeOK
  <2>4. SoleInv
    BY <2>1, <2>2, <2>3 DEF SoleInv, DoneInv, AtomInv, FlagNeedsLive, Init, Now
  <2>5. Atomic!Init
    BY <2>1 DEF Init, Now, Atomic!Init, Atomic!Engines, Engines, Atomic!StoredLimit, StoredLimit,
                Atomic!Focus, Focus
  <2> QED
    BY <2>4, <2>5
<1>2. Inv /\ [ThreadsNext]_hookVars => Inv'
  BY FramesStep, SoleStep
<1>3. Inv /\ [ThreadsNext]_hookVars => [OneThread => [Atomic!Next]_(Atomic!vars)]_hookVars
  BY SoleStep
<1> QED
  BY <1>1, <1>2, <1>3, PTL DEF ThreadsSpec, HooksAreAtomic
=============================================================================
