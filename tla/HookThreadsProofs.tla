-------------------------- MODULE HookThreadsProofs --------------------------
(***************************************************************************)
(* Proofs about HookThreads, for any number of threads, any depth of hooks *)
(* inside hooks and every build, zone, limit and setting: what a loading   *)
(* screen and the client's focus are left with needs a race that is named. *)
(***************************************************************************)
EXTENDS HookThreads, FpsLimiterProofs, SequenceTheorems

Steps  == WorldSteps \union {"look", "addr", "override", "use", "save", "focus", "call"}
Nexts  == {"return", "back", "unfocus", "applied"}
Frames == [at : Steps, arg : Int, screen : Screens \union {"none"}, next : Nexts]

ThreadsTypeOK ==
  /\ schedule \in Schedules
  /\ stack \in [Threads -> Seq(Frames)]
  /\ race \in [toggle : BOOLEAN, restore : BOOLEAN]
  /\ found = ClientFunctions /\ status = "running"
  /\ cfg \in Config
  /\ world \in Worlds \union {NoWorld}
  /\ engine \in Engines(Int)
  /\ focusState \in Focus
  /\ focusUnfocusAddr \in {NoAddr, ObjAddr}
  /\ applyLowFpsToNextLoadingScreen \in BOOLEAN
  /\ prevGeoZoneId \in Int /\ inTransitState \in BOOLEAN
  /\ regime \in [by : Screens \union {"nobody", "game"}, limit : Int]
  /\ seen = NoWorld \/ seen \in [isTransit : BOOLEAN, geozoneId : Zones]

\* What a frame at a step holds, and whose duty the hook is.
FrameOK(duties, f) ==
  /\ f.at \in WorldSteps \union {"look"} => "GetWorld" \in duties
  /\ f.at \in {"addr", "override", "use", "save"} => "SetForegroundFpsLimit" \in duties
  /\ f.at = "focus" => "FocusUnfocus" \in duties
  /\ f.at = "call" => (IF f.next = "return" THEN "FocusUnfocus" ELSE "GetWorld") \in duties
  /\ f.at \in {"look", "kind", "flag", "addr", "override", "use", "save", "focus"} => f.screen = "none"
  /\ f.at = "call" /\ f.next = "return" => f.screen = "none"
  /\ f.at \in {"limit", "fg", "bg", "away", "back", "unfocus", "applied"} => f.screen \in Screens
  /\ f.at = "unfocus" => f.screen # "loading"
  /\ f.at \in {"focus", "back", "call"} => f.arg \in Focus
  /\ f.at = "call" /\ f.next # "return" => f.screen \in Screens
  /\ f.at = "call" /\ f.next = "unfocus" => f.screen # "loading"
  /\ f.at = "call" /\ f.next = "applied" /\ f.screen # "loading" => f.arg = 0

\* A hook with another inside it has called FocusUnfocus of the client.
StackOK(t) ==
  \A i \in 1 .. Len(stack[t]) :
    /\ FrameOK(Duties(t), stack[t][i])
    /\ i >= 2 => stack[t][i].at \in {"back", "unfocus", "applied"}

\* A hook that has a pointer to the World has one to a World.
WorldThere == \A t \in Threads : UsesWorld(t) => world # NoWorld

FramesInv == ThreadsTypeOK /\ (\A t \in Threads : StackOK(t)) /\ WorldThere

-----------------------------------------------------------------------------
(* Stacks. *)

\* Some frames in the place of the innermost one: they are on top, and the others
\* below them are what they were.
LEMMA Splice ==
  ASSUME NEW S, NEW s \in Seq(S), s # <<>>, NEW fs \in Seq(S)
  PROVE  LET r == fs \o Tail(s) IN
           /\ r \in Seq(S)
           /\ Len(r) = Len(fs) + Len(s) - 1
           /\ \A i \in 1 .. Len(fs) : r[i] = fs[i]
           /\ \A i \in 2 .. Len(s) : r[Len(fs) + i - 1] = s[i]
<1> DEFINE rest == Tail(s)
           r == fs \o rest
<1>1. /\ rest \in Seq(S) /\ Len(rest) = Len(s) - 1
      /\ \A i \in 1 .. Len(rest) : rest[i] = s[i + 1]
  BY HeadTailProperties
<1>2. /\ r \in Seq(S) /\ Len(r) = Len(fs) + Len(rest)
      /\ \A i \in 1 .. Len(fs) + Len(rest) :
           r[i] = IF i <= Len(fs) THEN fs[i] ELSE rest[i - Len(fs)]
  BY <1>1, ConcatProperties
<1>3. Len(fs) \in Nat /\ Len(s) \in Nat
  BY LenProperties
<1> HIDE DEF rest, r
<1>4. ASSUME NEW i \in 2 .. Len(s) PROVE r[Len(fs) + i - 1] = s[i]
  <2>1. /\ Len(fs) + i - 1 \in 1 .. Len(fs) + Len(rest)
        /\ ~(Len(fs) + i - 1 <= Len(fs))
        /\ Len(fs) + i - 1 - Len(fs) = i - 1
        /\ i - 1 \in 1 .. Len(rest) /\ (i - 1) + 1 = i
    BY <1>1, <1>3
  <2>2. r[Len(fs) + i - 1] = rest[i - 1]
    BY <1>2, <2>1
  <2>3. rest[i - 1] = s[i]
    BY <1>1, <2>1
  <2> QED
    BY <2>2, <2>3
<1> QED
  BY <1>1, <1>2, <1>3, <1>4 DEF r, rest

LEMMA PairFacts ==
  ASSUME NEW S, NEW x \in S, NEW y \in S
  PROVE  /\ <<x, y>> \in Seq(S) /\ Len(<<x, y>>) = 2
         /\ <<x, y>>[1] = x /\ <<x, y>>[2] = y
         /\ <<x>> \o <<y>> = <<x, y>>
<1>1. /\ <<x>> \in Seq(S) /\ <<y>> \in Seq(S) /\ Len(<<x>>) = 1 /\ Len(<<y>>) = 1
      /\ <<x>>[1] = x /\ <<y>>[1] = y
  OBVIOUS
<1>2. /\ <<x, y>> \in Seq(S) /\ Len(<<x, y>>) = 2
      /\ <<x, y>>[1] = x /\ <<x, y>>[2] = y
  OBVIOUS
<1> DEFINE r == <<x>> \o <<y>>
<1>3. /\ r \in Seq(S) /\ Len(r) = 1 + 1
      /\ \A i \in 1 .. 1 + 1 : r[i] = IF i <= 1 THEN <<x>>[i] ELSE <<y>>[i - 1]
  BY <1>1, ConcatProperties
<1> HIDE DEF r
<1>4. r[1] = x /\ r[2] = y
  BY <1>1, <1>3
<1>5. r = <<x, y>>
  BY <1>2, <1>3, <1>4, SeqEqual
<1> QED
  BY <1>2, <1>5 DEF r

LEMMA LookIsFrame == Look \in Frames
  BY DEF Look, Frame, Frames, Steps, Nexts, Screens

\* The frame is replaced by another.
LEMMA Replaced ==
  ASSUME stack \in [Threads -> Seq(Frames)], NEW t \in Threads, ~Idle(t), NEW f,
         Continue(t, <<f>>)
  PROVE  /\ f \in Frames => stack' \in [Threads -> Seq(Frames)]
         /\ Len(stack'[t]) = Len(stack[t]) /\ stack'[t] # <<>>
         /\ stack'[t][1] = f
         /\ \A i \in 2 .. Len(stack[t]) : stack'[t][i] = stack[t][i]
         /\ \A u \in Threads \ {t} : stack'[u] = stack[u]
<1> DEFINE S == Frames \union {f}
           s == stack[t]
           r == <<f>> \o Tail(s)
<1>1. s \in Seq(Frames) /\ s # <<>>
  BY DEF Idle
<1>2. s \in Seq(S) /\ (f \in Frames => S = Frames)
  BY <1>1, SeqMonotonic
<1>3. Len(s) \in Nat /\ Len(s) # 0
  BY <1>1, LenProperties, EmptySeq
<1>4. stack' = [stack EXCEPT ![t] = r]
  BY DEF Continue
<1>5. <<f>> \in Seq(S) /\ Len(<<f>>) = 1 /\ <<f>>[1] = f
  OBVIOUS
<1> HIDE DEF S, s
<1>6. /\ r \in Seq(S) /\ Len(r) = 1 + Len(s) - 1
      /\ \A i \in 1 .. 1 : r[i] = <<f>>[i]
      /\ \A i \in 2 .. Len(s) : r[1 + i - 1] = s[i]
  BY <1>1, <1>2, <1>5, Splice
<1> HIDE DEF r
<1>7. Len(r) = Len(s) /\ r # <<>> /\ r[1] = f
  BY <1>3, <1>5, <1>6
<1>8. \A i \in 2 .. Len(s) : r[i] = s[i]
  BY <1>3, <1>6
<1> QED
  BY <1>2, <1>4, <1>6, <1>7, <1>8 DEF s

LEMMA NothingOnTop ==
  ASSUME stack \in [Threads -> Seq(Frames)], NEW t \in Threads, ~Idle(t), Continue(t, <<>>)
  PROVE  Return(t)
<1> DEFINE rest == Tail(stack[t])
<1>1. rest \in Seq(Frames)
  BY HeadTailProperties DEF Idle
<1>2. <<>> \o rest = rest
  BY <1>1, ConcatEmptySeq
<1> QED
  BY <1>2 DEF Continue, Return

LEMMA LookAlone == <<Look>> \o <<>> = <<Look>>
<1>1. <<Look>> \in Seq(Frames)
  BY LookIsFrame
<1> QED
  BY <1>1, ConcatEmptySeq

\* The hook is over.
LEMMA Popped ==
  ASSUME stack \in [Threads -> Seq(Frames)], NEW t \in Threads, ~Idle(t), Return(t)
  PROVE  /\ stack' \in [Threads -> Seq(Frames)]
         /\ Len(stack'[t]) = Len(stack[t]) - 1
         /\ \A i \in 2 .. Len(stack[t]) : stack'[t][i - 1] = stack[t][i]
         /\ \A i \in 1 .. Len(stack'[t]) : stack'[t][i] = stack[t][i + 1]
         /\ \A u \in Threads \ {t} : stack'[u] = stack[u]
<1> DEFINE s == stack[t]
           r == Tail(s)
<1>1. s \in Seq(Frames) /\ s # <<>>
  BY DEF Idle
<1>2. /\ r \in Seq(Frames) /\ Len(r) = Len(s) - 1
      /\ \A i \in 1 .. Len(r) : r[i] = s[i + 1]
  BY <1>1, HeadTailProperties
<1>3. Len(s) \in Nat /\ Len(s) # 0
  BY <1>1, LenProperties, EmptySeq
<1>4. stack' = [stack EXCEPT ![t] = r]
  BY DEF Return
<1> HIDE DEF r
<1>5. \A i \in 2 .. Len(s) : r[i - 1] = s[i]
  <2> SUFFICES ASSUME NEW i \in 2 .. Len(s) PROVE r[i - 1] = s[i]
    OBVIOUS
  <2>1. i - 1 \in 1 .. Len(r) /\ (i - 1) + 1 = i
    BY <1>2, <1>3
  <2> QED
    BY <1>2, <2>1
<1> QED
  BY <1>2, <1>4, <1>5

\* A hook starts inside it.
LEMMA Pushed ==
  ASSUME stack \in [Threads -> Seq(Frames)], NEW t \in Threads, ~Idle(t), NEW f,
         Continue(t, <<Look>> \o <<f>>)
  PROVE  /\ f \in Frames => stack' \in [Threads -> Seq(Frames)]
         /\ Len(stack'[t]) = Len(stack[t]) + 1 /\ stack'[t] # <<>>
         /\ stack'[t][1] = Look /\ stack'[t][2] = f
         /\ \A i \in 2 .. Len(stack[t]) : stack'[t][i + 1] = stack[t][i]
         /\ \A u \in Threads \ {t} : stack'[u] = stack[u]
<1> DEFINE S  == Frames \union {f}
           s  == stack[t]
           fs == <<Look, f>>
           r  == fs \o Tail(s)
<1>1. s \in Seq(Frames) /\ s # <<>>
  BY DEF Idle
<1>2. s \in Seq(S) /\ (f \in Frames => S = Frames)
  BY <1>1, SeqMonotonic
<1>3. Len(s) \in Nat /\ Len(s) # 0
  BY <1>1, LenProperties, EmptySeq
<1>4. Look \in S /\ f \in S
  BY LookIsFrame
<1> HIDE DEF S
<1>5. fs \in Seq(S) /\ Len(fs) = 2 /\ fs[1] = Look /\ fs[2] = f /\ <<Look>> \o <<f>> = fs
  BY <1>4, PairFacts
<1>6. stack' = [stack EXCEPT ![t] = r]
  BY <1>5 DEF Continue
<1> HIDE DEF s, fs
<1>7. /\ r \in Seq(S) /\ Len(r) = Len(fs) + Len(s) - 1
      /\ \A i \in 1 .. Len(fs) : r[i] = fs[i]
      /\ \A i \in 2 .. Len(s) : r[Len(fs) + i - 1] = s[i]
  <2>1. fs \in Seq(S) /\ s \in Seq(S) /\ s # <<>>
    BY <1>1, <1>2, <1>5
  <2> QED
    BY <2>1, Splice
<1> HIDE DEF r
<1>8. Len(r) = Len(s) + 1 /\ r # <<>> /\ r[1] = Look /\ r[2] = f
  BY <1>3, <1>5, <1>7
<1>9. \A i \in 2 .. Len(s) : r[i + 1] = s[i]
  <2> SUFFICES ASSUME NEW i \in 2 .. Len(s) PROVE r[i + 1] = s[i]
    OBVIOUS
  <2>1. Len(fs) + i - 1 = i + 1
    BY <1>3, <1>5
  <2> QED
    BY <1>7, <2>1
<1> QED
  BY <1>2, <1>6, <1>7, <1>8, <1>9 DEF s

\* The innermost hook of a thread that is not idle is a frame.
LEMMA TopFacts ==
  ASSUME FramesInv, NEW t \in Threads, ~Idle(t)
  PROVE  /\ Top(t) \in Frames /\ FrameOK(Duties(t), Top(t))
         /\ Len(stack[t]) \in Nat /\ 1 \in 1 .. Len(stack[t])
         /\ stack[t] \in Seq(Frames) /\ DOMAIN stack[t] = 1 .. Len(stack[t])
         /\ {Top(t).at, Top(t).next} \intersect WorldSteps # {} => world # NoWorld
<1>1. stack[t] \in Seq(Frames) /\ stack[t] # <<>>
  BY DEF FramesInv, ThreadsTypeOK, Idle
<1>2. /\ Len(stack[t]) \in Nat /\ Len(stack[t]) # 0
      /\ DOMAIN stack[t] = 1 .. Len(stack[t])
  BY <1>1, LenProperties, EmptySeq
<1>3. 1 \in 1 .. Len(stack[t]) /\ 1 \in DOMAIN stack[t]
  BY <1>2
<1>4. Top(t) \in Frames
  BY <1>1, <1>3, ElementOfSeq DEF Top
<1>5. FrameOK(Duties(t), Top(t))
  BY <1>3 DEF FramesInv, StackOK, Top
<1>6. {Top(t).at, Top(t).next} \intersect WorldSteps # {} => UsesWorld(t)
  BY <1>3 DEF UsesWorld, Top
<1> QED
  BY <1>1, <1>2, <1>3, <1>4, <1>5, <1>6 DEF FramesInv, WorldThere

\* Below a hook are only hooks that have called FocusUnfocus of the client.
LEMMA ReturnsBelow ==
  ASSUME FramesInv, NEW t \in Threads, ~Idle(t), Return(t)
  PROVE  /\ Len(stack[t]) >= 2 => ~Idle(t)' /\ Top(t)' = stack[t][2]
         /\ ~(Len(stack[t]) >= 2) => Idle(t)'
         /\ ~Idle(t)' => Top(t)'.at \in {"back", "unfocus", "applied"}
         /\ \A u \in Threads \ {t} : stack'[u] = stack[u]
<1>1. /\ Len(stack'[t]) = Len(stack[t]) - 1
      /\ \A i \in 1 .. Len(stack'[t]) : stack'[t][i] = stack[t][i + 1]
      /\ \A u \in Threads \ {t} : stack'[u] = stack[u]
      /\ stack'[t] \in Seq(Frames)
  BY Popped DEF FramesInv, ThreadsTypeOK
<1>2. Len(stack[t]) \in Nat /\ Len(stack[t]) >= 1 /\ Len(stack'[t]) \in Nat
  BY <1>1, TopFacts, LenProperties
<1>3. CASE Len(stack[t]) >= 2
  <2>1. 1 \in 1 .. Len(stack'[t]) /\ Len(stack'[t]) # 0
    BY <1>1, <1>2, <1>3
  <2>2. ~Idle(t)' /\ Top(t)' = stack[t][2]
    BY <1>1, <2>1, EmptySeq DEF Idle, Top
  <2>3. stack[t][2].at \in {"back", "unfocus", "applied"}
    BY <1>2, <1>3 DEF FramesInv, StackOK
  <2> QED
    BY <1>1, <1>3, <2>2, <2>3
<1>4. CASE Len(stack[t]) = 1
  <2>1. Len(stack'[t]) = 0
    BY <1>1, <1>4
  <2>2. stack'[t] = <<>>
    BY <1>1, <2>1, EmptySeq
  <2> QED
    BY <1>1, <1>4, <2>2 DEF Idle
<1>5. \A n \in Nat : n >= 1 => n >= 2 \/ n = 1
  OBVIOUS
<1> QED
  BY <1>2, <1>3, <1>4, <1>5

\* What a step must show of a frame it leaves on a stack.
Fits(t, f) ==
  /\ f \in Frames /\ FrameOK(Duties(t), f)
  /\ {f.at, f.next} \intersect WorldSteps # {} => world # NoWorld

ShapesInv ==
  /\ stack \in [Threads -> Seq(Frames)]
  /\ \A t \in Threads : StackOK(t)
  /\ WorldThere

LEMMA ReplacedFits ==
  ASSUME FramesInv, UNCHANGED <<schedule, world>>, NEW t \in Threads, ~Idle(t), NEW f,
         Fits(t, f), Continue(t, <<f>>)
  PROVE  ShapesInv'
<1>1. stack \in [Threads -> Seq(Frames)] /\ f \in Frames
  BY DEF FramesInv, ThreadsTypeOK, Fits
<1>2. /\ stack' \in [Threads -> Seq(Frames)]
      /\ Len(stack'[t]) = Len(stack[t]) /\ stack'[t] # <<>>
      /\ stack'[t][1] = f
      /\ \A i \in 2 .. Len(stack[t]) : stack'[t][i] = stack[t][i]
      /\ \A u \in Threads \ {t} : stack'[u] = stack[u]
  BY <1>1, Replaced
<1>3. /\ Len(stack[t]) \in Nat /\ DOMAIN stack[t] = 1 .. Len(stack[t])
      /\ DOMAIN stack'[t] = 1 .. Len(stack'[t])
  BY <1>1, <1>2, LenProperties
<1>4. \A u \in Threads : Duties(u)' = Duties(u)
  BY DEF Duties
<1>5. ASSUME NEW u \in Threads PROVE StackOK(u)'
  <2>1. CASE u # t
    BY <1>2, <1>4, <2>1 DEF FramesInv, StackOK, Duties
  <2>2. CASE u = t
    <3> SUFFICES ASSUME NEW i \in 1 .. Len(stack'[t])
                 PROVE  /\ FrameOK(Duties(t), stack'[t][i])
                        /\ i >= 2 => stack'[t][i].at \in {"back", "unfocus", "applied"}
      BY <2>2 DEF StackOK, Duties
    <3>1. CASE i = 1
      BY <1>2, <3>1 DEF Fits
    <3>2. CASE i # 1
      <4>1. i \in 2 .. Len(stack[t]) /\ i \in 1 .. Len(stack[t])
        BY <1>2, <1>3, <3>2
      <4>2. stack'[t][i] = stack[t][i]
        BY <1>2, <4>1
      <4>3. StackOK(t)
        BY DEF FramesInv
      <4>4. /\ FrameOK(Duties(t), stack[t][i])
            /\ stack[t][i].at \in {"back", "unfocus", "applied"}
        BY <4>1, <4>3 DEF StackOK
      <4> QED
        BY <4>2, <4>4
    <3> QED
      BY <3>1, <3>2
  <2> QED
    BY <2>1, <2>2
<1>6. ASSUME NEW u \in Threads, UsesWorld(u)' PROVE world' # NoWorld
  <2>1. CASE u # t
    BY <1>2, <1>6, <2>1 DEF FramesInv, WorldThere, UsesWorld
  <2>2. CASE u = t
    <3>1. PICK i \in 1 .. Len(stack'[t]) :
            {stack'[t][i].at, stack'[t][i].next} \intersect WorldSteps # {}
      BY <1>3, <1>6, <2>2 DEF UsesWorld
    <3>2. CASE i = 1
      BY <1>2, <3>1, <3>2 DEF Fits
    <3>3. CASE i # 1
      <4>1. i \in 2 .. Len(stack[t]) /\ i \in DOMAIN stack[t]
        BY <1>2, <1>3, <3>3
      <4>2. UsesWorld(t)
        BY <1>2, <3>1, <4>1 DEF UsesWorld
      <4> QED
        BY <4>2 DEF FramesInv, WorldThere
    <3> QED
      BY <3>2, <3>3
  <2> QED
    BY <2>1, <2>2
<1> QED
  BY <1>2, <1>5, <1>6 DEF ShapesInv, WorldThere

LEMMA PoppedFits ==
  ASSUME FramesInv, UNCHANGED <<schedule, world>>, NEW t \in Threads, ~Idle(t), Return(t)
  PROVE  ShapesInv'
<1>1. stack \in [Threads -> Seq(Frames)]
  BY DEF FramesInv, ThreadsTypeOK
<1>2. /\ stack' \in [Threads -> Seq(Frames)]
      /\ Len(stack'[t]) = Len(stack[t]) - 1
      /\ \A i \in 1 .. Len(stack'[t]) : stack'[t][i] = stack[t][i + 1]
      /\ \A u \in Threads \ {t} : stack'[u] = stack[u]
  BY <1>1, Popped
<1>3. /\ Len(stack[t]) \in Nat /\ DOMAIN stack[t] = 1 .. Len(stack[t])
      /\ DOMAIN stack'[t] = 1 .. Len(stack'[t])
  BY <1>1, <1>2, LenProperties
<1>4. ASSUME NEW i \in 1 .. Len(stack'[t])
      PROVE  i + 1 \in 1 .. Len(stack[t]) /\ i + 1 >= 2 /\ stack'[t][i] = stack[t][i + 1]
  BY <1>2, <1>3
<1>5. ASSUME NEW u \in Threads PROVE StackOK(u)'
  <2>1. CASE u # t
    BY <1>2, <2>1 DEF FramesInv, StackOK, Duties
  <2>2. CASE u = t
    <3> SUFFICES ASSUME NEW i \in 1 .. Len(stack'[t])
                 PROVE  /\ FrameOK(Duties(t), stack'[t][i])
                        /\ i >= 2 => stack'[t][i].at \in {"back", "unfocus", "applied"}
      BY <2>2 DEF StackOK, Duties
    <3>1. /\ FrameOK(Duties(t), stack[t][i + 1])
          /\ stack[t][i + 1].at \in {"back", "unfocus", "applied"}
      BY <1>4 DEF FramesInv, StackOK
    <3> QED
      BY <1>4, <3>1 
  <2> QED
    BY <2>1, <2>2
<1>6. ASSUME NEW u \in Threads, UsesWorld(u)' PROVE world' # NoWorld
  <2>1. CASE u # t
    BY <1>2, <1>6, <2>1 DEF FramesInv, WorldThere, UsesWorld
  <2>2. CASE u = t
    BY <1>3, <1>4, <1>6, <2>2 DEF FramesInv, WorldThere, UsesWorld
  <2> QED
    BY <2>1, <2>2
<1> QED
  BY <1>2, <1>5, <1>6 DEF ShapesInv, WorldThere

LEMMA PushedFits ==
  ASSUME FramesInv, UNCHANGED <<schedule, world>>, NEW t \in Threads, ~Idle(t), NEW f,
         Fits(t, f), f.at \in {"back", "unfocus", "applied"}, Continue(t, <<Look>> \o <<f>>)
  PROVE  ShapesInv'
<1>1. stack \in [Threads -> Seq(Frames)] /\ f \in Frames
  BY DEF FramesInv, ThreadsTypeOK, Fits
<1>2. /\ stack' \in [Threads -> Seq(Frames)]
      /\ Len(stack'[t]) = Len(stack[t]) + 1 /\ stack'[t] # <<>>
      /\ stack'[t][1] = Look /\ stack'[t][2] = f
      /\ \A i \in 2 .. Len(stack[t]) : stack'[t][i + 1] = stack[t][i]
      /\ \A u \in Threads \ {t} : stack'[u] = stack[u]
  BY <1>1, Pushed
<1>3. /\ Len(stack[t]) \in Nat /\ DOMAIN stack[t] = 1 .. Len(stack[t])
      /\ DOMAIN stack'[t] = 1 .. Len(stack'[t])
  BY <1>1, <1>2, LenProperties
<1>4. ASSUME NEW i \in 1 .. Len(stack'[t]), i # 1, i # 2
      PROVE  /\ i - 1 \in 1 .. Len(stack[t]) /\ i - 1 >= 2
             /\ stack'[t][i] = stack[t][i - 1]
  <2>1. i - 1 \in 2 .. Len(stack[t]) /\ (i - 1) + 1 = i
    BY <1>2, <1>3, <1>4
  <2>2. stack'[t][(i - 1) + 1] = stack[t][i - 1]
    BY <1>2, <2>1
  <2> QED
    BY <2>1, <2>2
<1>5. FrameOK(Duties(t), Look) /\ FrameOK(Duties(t), f)
  BY DEF Fits, FrameOK, Look, Frame, WorldSteps
<1>6. ASSUME NEW u \in Threads PROVE StackOK(u)'
  <2>1. CASE u # t
    BY <1>2, <2>1 DEF FramesInv, StackOK, Duties
  <2>2. CASE u = t
    <3> SUFFICES ASSUME NEW i \in 1 .. Len(stack'[t])
                 PROVE  /\ FrameOK(Duties(t), stack'[t][i])
                        /\ i >= 2 => stack'[t][i].at \in {"back", "unfocus", "applied"}
      BY <2>2 DEF StackOK, Duties
    <3>1. CASE i = 1
      BY <1>2, <1>5, <3>1 
    <3>2. CASE i = 2
      BY <1>2, <1>5, <3>2 
    <3>3. CASE i # 1 /\ i # 2
      <4>1. /\ FrameOK(Duties(t), stack[t][i - 1])
            /\ stack[t][i - 1].at \in {"back", "unfocus", "applied"}
        BY <1>4, <3>3 DEF FramesInv, StackOK
      <4> QED
        BY <1>4, <3>3, <4>1 
    <3> QED
      BY <3>1, <3>2, <3>3
  <2> QED
    BY <2>1, <2>2
<1>7. ASSUME NEW u \in Threads, UsesWorld(u)' PROVE world' # NoWorld
  <2>1. CASE u # t
    BY <1>2, <1>7, <2>1 DEF FramesInv, WorldThere, UsesWorld
  <2>2. CASE u = t
    BY DEF Fits, WorldSteps
  <2> QED
    BY <2>1, <2>2
<1> QED
  BY <1>2, <1>6, <1>7 DEF ShapesInv, WorldThere

LEMMA EnteredFits ==
  ASSUME FramesInv, UNCHANGED <<schedule, world>>, NEW t \in Threads, Idle(t), NEW f,
         Fits(t, f), stack' = [stack EXCEPT ![t] = <<f>>]
  PROVE  ShapesInv'
<1>1. stack \in [Threads -> Seq(Frames)] /\ f \in Frames
  BY DEF FramesInv, ThreadsTypeOK, Fits
<1>2. <<f>> \in Seq(Frames) /\ Len(<<f>>) = 1 /\ <<f>>[1] = f /\ DOMAIN <<f>> = {1}
  BY <1>1
<1>3. /\ stack' \in [Threads -> Seq(Frames)]
      /\ Len(stack'[t]) = 1 /\ stack'[t][1] = f /\ DOMAIN stack'[t] = {1}
      /\ \A u \in Threads \ {t} : stack'[u] = stack[u]
  BY <1>1, <1>2
<1>4. ASSUME NEW u \in Threads PROVE StackOK(u)'
  <2>1. CASE u # t
    BY <1>3, <2>1 DEF FramesInv, StackOK, Duties
  <2>2. CASE u = t
    BY <1>3, <2>2 DEF Fits, StackOK, Duties
  <2> QED
    BY <2>1, <2>2
<1>5. ASSUME NEW u \in Threads, UsesWorld(u)' PROVE world' # NoWorld
  <2>1. CASE u # t
    BY <1>3, <1>5, <2>1 DEF FramesInv, WorldThere, UsesWorld
  <2>2. CASE u = t
    BY <1>3, <1>5, <2>2 DEF Fits, UsesWorld
  <2> QED
    BY <2>1, <2>2
<1> QED
  BY <1>3, <1>4, <1>5 DEF ShapesInv, WorldThere

-----------------------------------------------------------------------------
(* Every step leaves frames of the right shape. *)

LEMMA LimitOfType ==
  ASSUME cfg \in Config, NEW screen \in Screens
  PROVE  LimitOf(screen) \in Uint32
BY AsUint32Type, Int32MaxAssumption DEF LimitOf, Screens, Config, Uint32

LEMMA StepShapes ==
  ASSUME FramesInv, UNCHANGED schedule, NEW t \in Threads, Step(t)
  PROVE  ShapesInv'
<1> USE DEF Frames, Steps, Nexts, WorldSteps, Screens, FrameOK, Fits
<1>0. cfg \in Config /\ focusState \in Focus
  BY DEF FramesInv, ThreadsTypeOK
<1>1. CASE ClientCalls(t)
  <2>1. CASE Enters(t, "GetWorld", Look)
    <3>1. Fits(t, Look) /\ Idle(t) /\ UNCHANGED world
      BY <2>1 DEF Enters, Look, Frame, vars
    <3> QED
      BY <2>1, <3>1, EnteredFits DEF Enters
  <2>2. ASSUME NEW l \in Limits, Enters(t, "SetForegroundFpsLimit", Frame("addr", l))
        PROVE  ShapesInv'
    <3>1. Fits(t, Frame("addr", l)) /\ Idle(t) /\ UNCHANGED world
      BY <2>2, LimitsAssumption, Int32MaxAssumption DEF Enters, Frame, vars
    <3> QED
      BY <2>2, <3>1, EnteredFits DEF Enters
  <2>3. ASSUME NEW f \in Focus, Enters(t, "FocusUnfocus", Frame("focus", f))
        PROVE  ShapesInv'
    <3>1. Fits(t, Frame("focus", f)) /\ Idle(t) /\ UNCHANGED world
      BY <2>3 DEF Enters, Frame, vars, Focus
    <3> QED
      BY <2>3, <3>1, EnteredFits DEF Enters
  <2> QED
    BY <1>1, <2>1, <2>2, <2>3 DEF ClientCalls
<1>2. CASE CallClient(t)
  <2> DEFINE f == [Top(t) EXCEPT !.at = Top(t).next]
  <2>1. ~Idle(t) /\ Top(t).at = "call" /\ UNCHANGED world
    BY <1>2 DEF CallClient, At
  <2>2. Top(t) \in Frames /\ FrameOK(Duties(t), Top(t))
        /\ ({Top(t).at, Top(t).next} \intersect WorldSteps # {} => world # NoWorld)
    BY <2>1, TopFacts
  <2>3. CASE Top(t).next = "return"
    <3>1. \/ Continue(t, <<>>)
          \/ "GetWorld" \in Duties(t) /\ Continue(t, <<Look>> \o <<>>)
      BY <1>2, <2>3 DEF CallClient
    <3>2. CASE Continue(t, <<>>)
      <4>1. stack \in [Threads -> Seq(Frames)]
        BY DEF FramesInv, ThreadsTypeOK
      <4>2. Return(t)
        BY <2>1, <3>2, <4>1, NothingOnTop
      <4> QED
        BY <2>1, <4>2, PoppedFits
    <3>3. CASE "GetWorld" \in Duties(t) /\ Continue(t, <<Look>> \o <<>>)
      <4>1. Fits(t, Look)
        BY <3>3 DEF Look, Frame
      <4>2. Continue(t, <<Look>>)
        BY <3>3, LookAlone
      <4> QED
        BY <2>1, <4>1, <4>2, ReplacedFits
    <3> QED
      BY <3>1, <3>2, <3>3
  <2>4. CASE Top(t).next # "return"
    <3>1. \/ Continue(t, <<f>>)
          \/ Continue(t, <<Look>> \o <<f>>)
      BY <1>2, <2>4 DEF CallClient
    <3>2. Fits(t, f) /\ f.at \in {"back", "unfocus", "applied"}
      BY <2>1, <2>2, <2>4
    <3>3. CASE Continue(t, <<f>>)
      BY <2>1, <3>2, <3>3, ReplacedFits
    <3>4. CASE Continue(t, <<Look>> \o <<f>>)
      BY <2>1, <3>2, <3>4, PushedFits
    <3> QED
      BY <3>1, <3>3, <3>4
  <2> QED
    BY <2>3, <2>4
<1>3. CASE LookAtWorld(t)
  <2>1. ~Idle(t) /\ Top(t).at = "look" /\ UNCHANGED world
    BY <1>3 DEF LookAtWorld, At
  <2>2. Top(t) \in Frames /\ FrameOK(Duties(t), Top(t))
    BY <2>1, TopFacts
  <2>3. CASE Return(t)
    BY <2>1, <2>3, PoppedFits
  <2>4. CASE world # NoWorld /\ Decide(t, "limit", "low")
    <3> DEFINE f == [Top(t) EXCEPT !.at = "limit", !.screen = "low"]
    <3>1. Fits(t, f)
      BY <2>1, <2>2, <2>4
    <3> QED
      BY <2>1, <2>4, <3>1, ReplacedFits DEF Decide
  <2>5. ASSUME NEW where \in {"kind", "record", "zone"}, world # NoWorld, Goto(t, where)
        PROVE  ShapesInv'
    <3> DEFINE f == [Top(t) EXCEPT !.at = where]
    <3>1. Fits(t, f)
      BY <2>1, <2>2, <2>5
    <3> QED
      BY <2>1, <2>5, <3>1, ReplacedFits DEF Goto
  <2> QED
    BY <1>3, <2>3, <2>4, <2>5 DEF LookAtWorld
<1>4. ASSUME ~Idle(t), UNCHANGED world, NEW where \in {"fg", "save"}, NEW arg \in Int,
             Top(t).at = (IF where = "fg" THEN "limit" ELSE "use"),
             Continue(t, <<[Top(t) EXCEPT !.at = where, !.arg = arg]>>)
      PROVE  ShapesInv'
  <2>1. Top(t) \in Frames /\ FrameOK(Duties(t), Top(t))
        /\ ({Top(t).at, Top(t).next} \intersect WorldSteps # {} => world # NoWorld)
    BY <1>4, TopFacts
  <2>2. Fits(t, [Top(t) EXCEPT !.at = where, !.arg = arg])
    BY <1>4, <2>1
  <2> QED
    BY <1>4, <2>2, ReplacedFits
<1>5. ASSUME ~Idle(t), UNCHANGED world,
             NEW where \in {"flag", "bg", "applied", "away", "record", "zone", "save", "use",
                           "override"},
             \/ where = "flag" /\ Top(t).at = "kind"
             \/ where \in {"applied", "bg"} /\ Top(t).at = "fg"
             \/ where = "away" /\ Top(t).at = "bg"
             \/ where = "record" /\ Top(t).at = "applied"
             \/ where = "zone" /\ Top(t).at = "record"
             \/ where = "override" /\ Top(t).at = "addr"
             \/ where \in {"use", "save"} /\ Top(t).at = "override",
             Goto(t, where)
      PROVE  ShapesInv'
  <2>1. Top(t) \in Frames /\ FrameOK(Duties(t), Top(t))
        /\ ({Top(t).at, Top(t).next} \intersect WorldSteps # {} => world # NoWorld)
    BY <1>5, TopFacts
  <2>2. Fits(t, [Top(t) EXCEPT !.at = where])
    BY <1>5, <2>1
  <2> QED
    BY <1>5, <2>2, ReplacedFits DEF Goto
<1>6. ASSUME ~Idle(t), UNCHANGED world,
             NEW screen \in Screens, Top(t).at \in {"kind", "flag"}, Decide(t, "limit", screen)
      PROVE  ShapesInv'
  <2>1. Top(t) \in Frames /\ FrameOK(Duties(t), Top(t))
        /\ ({Top(t).at, Top(t).next} \intersect WorldSteps # {} => world # NoWorld)
    BY <1>6, TopFacts
  <2>2. Fits(t, [Top(t) EXCEPT !.at = "limit", !.screen = screen])
    BY <1>6, <2>1
  <2> QED
    BY <1>6, <2>2, ReplacedFits DEF Decide
<1>7. ASSUME ~Idle(t), UNCHANGED world, NEW focus \in Focus, NEW next \in Nexts,
             \/ Top(t).at = "away" /\ next = "back"
             \/ Top(t).at = "back" /\ next = AfterBack(t)
             \/ Top(t).at = "unfocus" /\ next = "applied" /\ focus = 0
             \/ Top(t).at = "focus" /\ next = "return",
             Call(t, focus, next)
      PROVE  ShapesInv'
  <2>1. Top(t) \in Frames /\ FrameOK(Duties(t), Top(t))
        /\ ({Top(t).at, Top(t).next} \intersect WorldSteps # {} => world # NoWorld)
    BY <1>7, TopFacts
  <2> DEFINE f == [Top(t) EXCEPT !.at = "call", !.arg = focus, !.next = next]
  <2>5. focus \in Int
    BY DEF Focus
  <2>3. /\ f.at = "call" /\ f.arg = focus /\ f.next = next /\ f.screen = Top(t).screen
        /\ f \in Frames
    BY <2>1, <2>5
  <2>4. /\ next = "return" => "FocusUnfocus" \in Duties(t)
        /\ next # "return" => "GetWorld" \in Duties(t) /\ Top(t).screen \in Screens
        /\ next = "return" => Top(t).screen = "none"
        /\ next = "unfocus" => Top(t).screen # "loading"
        /\ next = "applied" /\ Top(t).screen # "loading" => focus = 0
        /\ next # "return" => world # NoWorld
    BY <1>7, <2>1 DEF AfterBack
  <2> HIDE DEF f
  <2>2. Fits(t, f)
    BY <2>3, <2>4
  <2> QED
    BY <1>7, <2>2, ReplacedFits DEF Call, f
<1>8. CASE ChooseFunction(t)
  BY <1>5, <1>6, <1>8 DEF ChooseFunction, At, vars
<1>9. CASE ChooseScreen(t)
  BY <1>6, <1>9 DEF ChooseScreen, At, vars
<1>10. CASE ChooseLimit(t)
  <2>1. ~Idle(t) /\ Top(t).at = "limit" /\ UNCHANGED world
    BY <1>10 DEF ChooseLimit, At, vars
  <2>2. Top(t).screen \in Screens
    BY <2>1, TopFacts
  <2>3. LimitOf(Top(t).screen) \in Int
    BY <1>0, <2>2, LimitOfType DEF Uint32
  <2> QED
    BY <1>4, <1>10, <2>1, <2>3 DEF ChooseLimit
<1>11. CASE StoreForeground(t)
  BY <1>5, <1>11 DEF StoreForeground, At
<1>12. CASE StoreBackground(t)
  BY <1>5, <1>12 DEF StoreBackground, At
<1>13. CASE PlayFocus(t)
  <2>1. Away \in Focus /\ Back \in Focus /\ 0 \in Focus /\ AfterBack(t) \in Nexts
    BY <1>0 DEF Focus, Away, Back, AfterBack
  <2> QED
    BY <1>7, <1>13, <2>1 DEF PlayFocus, At, vars
<1>14. CASE SetFlag(t)
  BY <1>5, <1>14 DEF SetFlag, At
<1>15. CASE RecordTransit(t)
  BY <1>5, <1>15 DEF RecordTransit, At
<1>16. CASE RecordZone(t)
  BY <1>16, PoppedFits DEF RecordZone, At
<1>17. CASE StoreAddress(t)
  <2>1. CASE At(t, "addr") /\ Goto(t, "override")
    BY <1>5, <1>17, <2>1 DEF StoreAddress, At
  <2>2. CASE At(t, "focus") /\ Call(t, Top(t).arg, "return")
    <3>1. Top(t).arg \in Focus
      BY <2>2, TopFacts DEF At
    <3> QED
      BY <1>7, <1>17, <2>2, <3>1 DEF StoreAddress, At
  <2> QED
    BY <1>17, <2>1, <2>2 DEF StoreAddress
<1>18. CASE Override(t)
  <2>1. cfg.ForegroundLimit \in Int
    BY <1>0 DEF Config, Int32
  <2> QED
    BY <1>4, <1>5, <1>18, <2>1 DEF Override, At, vars
<1>19. CASE Save(t)
  BY <1>19, PoppedFits DEF Save, At
<1> QED
  BY <1>1, <1>2, <1>3, <1>8, <1>9, <1>10, <1>11, <1>12, <1>13, <1>14, <1>15, <1>16,
     <1>17, <1>18, <1>19 DEF Step

ValuesInv ==
  /\ race \in [toggle : BOOLEAN, restore : BOOLEAN]
  /\ found = ClientFunctions /\ status = "running"
  /\ cfg \in Config
  /\ world \in Worlds \union {NoWorld}
  /\ engine \in Engines(Int)
  /\ focusState \in Focus
  /\ focusUnfocusAddr \in {NoAddr, ObjAddr}
  /\ applyLowFpsToNextLoadingScreen \in BOOLEAN
  /\ prevGeoZoneId \in Int /\ inTransitState \in BOOLEAN
  /\ regime \in [by : Screens \union {"nobody", "game"}, limit : Int]
  /\ seen = NoWorld \/ seen \in [isTransit : BOOLEAN, geozoneId : Zones]

LEMMA LimitsAreInts == Limits \subseteq Int
<1>1. 0 .. Int32Max \subseteq Int
  BY Int32MaxAssumption
<1> QED
  BY <1>1, LimitsAssumption

LEMMA WorldFacts ==
  ASSUME world \in Worlds
  PROVE  /\ world.isTransit \in BOOLEAN /\ world.geozoneId \in Int
         /\ View(world) \in [isTransit : BOOLEAN, geozoneId : Zones]
<1>1. Zones \subseteq Int
  BY ZonesAssumption, Int32MaxAssumption DEF Int32
<1>2. world.isTransit \in BOOLEAN /\ world.geozoneId \in Zones
  BY DEF Worlds
<1> QED
  BY <1>1, <1>2 DEF View

LEMMA EngineStores ==
  ASSUME NEW e \in Engines(Int), NEW l \in Int
  PROVE  /\ [e EXCEPT !.fg = l] \in Engines(Int)
         /\ [e EXCEPT !.bg = l] \in Engines(Int)
         /\ SetForegroundFpsLimit(e, l) \in Engines(Int)
         /\ SetBackgroundFpsLimit(e, l) \in Engines(Int)
  BY DEF Engines, SetForegroundFpsLimit, SetBackgroundFpsLimit

LEMMA StepValues ==
  ASSUME FramesInv, UNCHANGED schedule, NEW t \in Threads, Step(t), Observe(t)
  PROVE  ValuesInv'
<1>0. race' \in [toggle : BOOLEAN, restore : BOOLEAN]
  BY DEF Observe, FramesInv, ThreadsTypeOK
<1>1. ValuesInv
  BY DEF FramesInv, ThreadsTypeOK, ValuesInv
<1> USE DEF ValuesInv
<1>2. ASSUME UNCHANGED vars PROVE ValuesInv'
  BY <1>0, <1>1, <1>2 DEF vars, plugin
<1>3. CASE ClientCalls(t)
  BY <1>2, <1>3 DEF ClientCalls, Enters
<1>4. CASE CallClient(t)
  <2>1. Top(t).arg \in Focus
    BY <1>4, TopFacts DEF CallClient, At, FrameOK
  <2>2. FocusUnfocus(engine, Top(t).arg) \in Engines(Int)
    BY <1>1, <2>1, FocusUnfocusFacts
  <2> QED
    BY <1>0, <1>1, <1>4, <2>2 DEF CallClient, statics
<1>5. CASE LookAtWorld(t)
  BY <1>0, <1>1, <1>5, WorldFacts DEF LookAtWorld, statics
<1>6. CASE ChooseFunction(t) \/ ChooseScreen(t) \/ ChooseLimit(t) \/ PlayFocus(t) \/ Override(t)
  BY <1>2, <1>6 DEF ChooseFunction, ChooseScreen, ChooseLimit, PlayFocus, Override
<1>7. CASE StoreForeground(t)
  <2>1. Top(t).arg \in Int
    BY <1>7, TopFacts DEF StoreForeground, At, Frames
  <2> QED
    BY <1>0, <1>1, <1>7, <2>1, EngineStores DEF StoreForeground, statics
<1>8. CASE StoreBackground(t)
  <2>1. Top(t).arg \in Int /\ Top(t).screen \in Screens
    BY <1>8, TopFacts DEF StoreBackground, At, Frames, FrameOK
  <2> QED
    BY <1>0, <1>1, <1>8, <2>1, EngineStores DEF StoreBackground, statics
<1>9. CASE SetFlag(t)
  BY <1>0, <1>1, <1>9 DEF SetFlag, NewFlag
<1>10. CASE RecordTransit(t) \/ RecordZone(t)
  <2>1. ~Idle(t) /\ Top(t).at \in WorldSteps
    BY <1>10 DEF RecordTransit, RecordZone, At, WorldSteps
  <2>2. world \in Worlds
    BY <1>1, <2>1, TopFacts
  <2> QED
    BY <1>0, <1>1, <1>10, <2>2, WorldFacts DEF RecordTransit, RecordZone
<1>11. CASE StoreAddress(t)
  <2>1. At(t, "focus") => Top(t).arg \in Focus
    BY TopFacts DEF At, FrameOK
  <2> QED
    BY <1>0, <1>1, <1>11, <2>1 DEF StoreAddress
<1>12. CASE Save(t)
  <2>1. Top(t).arg \in Int
    BY <1>12, TopFacts DEF Save, At, Frames
  <2>2. engine' \in Engines(Int)
    BY <1>1, <1>12, <2>1, EngineStores DEF Save, SaveForeground
  <2>3. regime' \in [by : Screens \union {"nobody", "game"}, limit : Int]
    BY <1>12 DEF Save, SaveForeground
  <2> QED
    BY <1>0, <1>1, <1>12, <2>2, <2>3 DEF Save, statics
<1> QED
  BY <1>3, <1>4, <1>5, <1>6, <1>7, <1>8, <1>9, <1>10, <1>11, <1>12 DEF Step

LEMMA EnvironmentKeepsFrames ==
  ASSUME FramesInv, UNCHANGED <<schedule, race>>, NEW t \in Threads, Environment(t)
  PROVE  ShapesInv' /\ ValuesInv'
<1> USE DEF FramesInv, ThreadsTypeOK, ValuesInv, ShapesInv
<1>1. UNCHANGED stack /\ (\A u \in Threads : StackOK(u)' <=> StackOK(u))
      /\ \A u \in Threads : UsesWorld(u)' <=> UsesWorld(u)
  BY DEF Environment, StackOK, UsesWorld, Duties
<1>2. CASE WorldChanges /\ (world' = NoWorld => \A u \in Threads : ~UsesWorld(u))
  BY <1>1, <1>2 DEF WorldChanges, WorldThere, plugin
<1>3. CASE ConfigReloaded
  BY <1>1, <1>3, ConfigsAssumption DEF ConfigReloaded, WorldThere, plugin
<1>4. ASSUME NEW l \in Limits, SaveBackground(l) PROVE ShapesInv' /\ ValuesInv'
  <2>1. SetBackgroundFpsLimit(engine, l) \in Engines(Int)
    BY LimitsAreInts, EngineStores
  <2> QED
    BY <1>1, <1>4, <2>1 DEF SaveBackground, WorldThere, plugin
<1> QED
  BY <1>2, <1>3, <1>4 DEF Environment

LEMMA SameSchedule == [ThreadsNext]_hookVars => UNCHANGED schedule
  BY DEF ThreadsNext, hookVars

LEMMA FramesStep == FramesInv /\ [ThreadsNext]_hookVars => FramesInv'
<1> SUFFICES ASSUME FramesInv, [ThreadsNext]_hookVars PROVE FramesInv'
  OBVIOUS
<1>1. ASSUME ShapesInv', ValuesInv', UNCHANGED schedule PROVE FramesInv'
  BY <1>1 DEF FramesInv, ThreadsTypeOK, ShapesInv, ValuesInv
<1>2. ASSUME NEW t \in Threads, UNCHANGED schedule, Step(t), Observe(t) PROVE FramesInv'
  BY <1>1, <1>2, StepShapes, StepValues
<1>3. ASSUME NEW t \in Threads, UNCHANGED schedule, Environment(t), UNCHANGED race PROVE FramesInv'
  BY <1>1, <1>3, EnvironmentKeepsFrames
<1>4. CASE UNCHANGED hookVars
  BY <1>4 DEF hookVars, vars, plugin, FramesInv, ThreadsTypeOK, StackOK, WorldThere, UsesWorld, Duties
<1> QED
  BY <1>2, <1>3, <1>4 DEF ThreadsNext

LEMMA FramesInit == ThreadsInit => FramesInv
<1> SUFFICES ASSUME ThreadsInit PROVE FramesInv
  OBVIOUS
<1>1. \A t \in Threads : stack[t] = <<>>
  BY DEF ThreadsInit
<1>2. \A t \in Threads : StackOK(t) /\ ~UsesWorld(t)
  BY <1>1 DEF StackOK, UsesWorld
<1>3. stack \in [Threads -> Seq(Frames)]
  BY DEF ThreadsInit
<1>4. engine \in Engines(Int)
  BY LimitsAreInts DEF ThreadsInit, Init, Engines
<1>5. /\ cfg \in Config /\ focusState \in Focus /\ prevGeoZoneId \in Int
      /\ regime \in [by : Screens \union {"nobody", "game"}, limit : Int]
  BY ConfigsAssumption DEF ThreadsInit, Init, Focus
<1>6. race \in [toggle : BOOLEAN, restore : BOOLEAN]
  BY DEF ThreadsInit
<1> QED
  BY <1>2, <1>3, <1>4, <1>5, <1>6 DEF ThreadsInit, Init, FramesInv, ThreadsTypeOK, WorldThere

\* The statics, the limits object and every frame of every thread keep their types,
\* whatever hooks interrupt each other; and no hook goes on with a World that is gone.
THEOREM ThreadsTypeCorrect == ThreadsSpec => []FramesInv
  BY FramesInit, FramesStep, PTL DEF ThreadsSpec
-----------------------------------------------------------------------------
(* Stale limits. *)

\* One thread asks for the World and saves foreground limits.
OneLimiter(s) ==
  \A t, u \in Threads :
    /\ s.duties[t] \intersect {"GetWorld", "SetForegroundFpsLimit"} # {}
    /\ s.duties[u] \intersect {"GetWorld", "SetForegroundFpsLimit"} # {}
    => t = u

\* The second focus a hook of f's kind plays: that of line 78.
CalledBack(f) == f.at = "call" /\ f.next = IF f.screen = "loading" THEN "applied" ELSE "unfocus"

\* The hooks of t are going to change the focus the client has now, unless focusState
\* changes between their two readings of it: the focus is played away and back anew,
\* or it has been played away and is still there.
WillToggle(t) ==
  /\ ~Idle(t)
  /\ \/ Top(t).at \in {"bg", "away"}
     \/ Top(t).at = "call" /\ Top(t).next = "back"
     \/ Top(t).at = "back" /\ engine.focused = Top(t).arg
     \/ CalledBack(Top(t)) /\ engine.focused = 1 - Top(t).arg
     \/ /\ Top(t).at \in {"look", "kind", "flag", "limit", "fg", "applied", "record", "zone"}
        /\ Len(stack[t]) >= 2
        /\ stack[t][2].at = "back" /\ engine.focused = stack[t][2].arg

StaleWillToggle == ~CapFollowsFocus => race.toggle \/ \E t \in Threads : WillToggle(t)

\* The limits of a screen are stored, or the second store is still to come.
StoresBoth ==
  /\ \A t \in Threads : At(t, "bg") => engine.fg = Top(t).arg
  /\ regime.by \in Screens =>
       \/ \E t \in Threads : At(t, "bg")
       \/ engine.fg = regime.limit /\ engine.bg = regime.limit

StaleInv == FramesInv /\ StaleWillToggle /\ StoresBoth

\* A hook that plays the focus or stores limits is one of the thread that may.
LEMMA TogglerLimits ==
  ASSUME FramesInv, NEW t \in Threads, WillToggle(t) \/ At(t, "bg")
  PROVE  Limiting(t)
<1>1. ~Idle(t)
  BY DEF WillToggle, At
<1>2. FrameOK(Duties(t), Top(t))
  BY <1>1, TopFacts
<1>3. \/ Top(t).at \in WorldSteps \union {"look"}
      \/ Top(t).at = "call" /\ Top(t).next # "return"
  BY DEF WillToggle, At, WorldSteps, CalledBack
<1>4. "GetWorld" \in Duties(t)
  BY <1>2, <1>3 DEF FrameOK
<1> QED
  BY <1>4 DEF Limiting

LEMMA OneLimits ==
  ASSUME FramesInv, OneLimiter(schedule),
         NEW t \in Threads, NEW u \in Threads, Limiting(t), Limiting(u)
  PROVE  t = u
  BY DEF FramesInv, ThreadsTypeOK, OneLimiter, Limiting, Duties

\* A step of t that leaves the limits and the client's focus alone keeps what there
\* is to toggle, when its own hooks do.
LEMMA TogglersStay ==
  ASSUME StaleWillToggle, UNCHANGED engine, NEW t \in Threads,
         race.toggle => race'.toggle, WillToggle(t) => race'.toggle \/ WillToggle(t)',
         \A u \in Threads \ {t} : stack'[u] = stack[u]
  PROVE  StaleWillToggle'
<1>1. ASSUME NEW u \in Threads, u # t, WillToggle(u) PROVE WillToggle(u)'
  BY <1>1 DEF WillToggle, Idle, Top
<1>2. CapFollowsFocus' <=> CapFollowsFocus
  BY DEF CapFollowsFocus
<1> QED
  BY <1>1, <1>2 DEF StaleWillToggle

LEMMA StoresStay ==
  ASSUME StoresBoth, UNCHANGED <<engine, regime>>, NEW t \in Threads, ~At(t, "bg"), ~At(t, "bg")',
         \A u \in Threads \ {t} : stack'[u] = stack[u]
  PROVE  StoresBoth'
<1>1. \A u \in Threads : At(u, "bg")' <=> At(u, "bg")
  BY DEF At, Idle, Top
<1>2. \A u \in Threads : At(u, "bg") => Top(u)' = Top(u)
  BY DEF Top
<1> QED
  BY <1>1, <1>2 DEF StoresBoth

\* The innermost hook of t goes on without storing anything.
LEMMA MoveKeepsStale ==
  ASSUME StaleInv, NEW t \in Threads, ~Idle(t), NEW f, Continue(t, <<f>>), UNCHANGED <<engine, regime>>,
         race.toggle => race'.toggle,
         Top(t).at # "bg" /\ f.at # "bg",
         WillToggle(t) =>
           \/ race'.toggle
           \/ f.at \in {"bg", "away"}
           \/ f.at = "call" /\ f.next = "back"
           \/ CalledBack(f) /\ engine.focused = 1 - f.arg
           \/ /\ Top(t).at \in {"look", "kind", "flag", "limit", "fg", "applied", "record", "zone"}
              /\ f.at \in {"look", "kind", "flag", "limit", "fg", "applied", "record", "zone"}
  PROVE  StaleWillToggle' /\ StoresBoth'
<1>1. /\ Len(stack'[t]) = Len(stack[t]) /\ stack'[t] # <<>>
      /\ stack'[t][1] = f
      /\ \A i \in 2 .. Len(stack[t]) : stack'[t][i] = stack[t][i]
      /\ \A u \in Threads \ {t} : stack'[u] = stack[u]
  BY Replaced DEF StaleInv, FramesInv, ThreadsTypeOK
<1>2. Len(stack[t]) \in Nat /\ (Len(stack[t]) >= 2 => stack'[t][2] = stack[t][2])
  BY <1>1, TopFacts DEF StaleInv
<1>3. ~At(t, "bg") /\ ~At(t, "bg")'
  BY <1>1 DEF At, Top
<1>4. Top(t)' = f /\ ~Idle(t)'
  BY <1>1 DEF Top, Idle
<1>5. WillToggle(t) => race'.toggle \/ WillToggle(t)'
  BY <1>1, <1>2, <1>4 DEF WillToggle, CalledBack
<1> QED
  BY <1>1, <1>3, <1>5, TogglersStay, StoresStay DEF StaleInv

\* A hook of t is over.
LEMMA ReturnKeepsStale ==
  ASSUME StaleInv, NEW t \in Threads, ~Idle(t), Return(t), UNCHANGED <<engine, regime>>,
         race.toggle => race'.toggle, Top(t).at \in {"look", "zone"}
  PROVE  StaleWillToggle' /\ StoresBoth'
<1>1. /\ Len(stack[t]) >= 2 => ~Idle(t)' /\ Top(t)' = stack[t][2]
      /\ ~Idle(t)' => Top(t)'.at \in {"back", "unfocus", "applied"}
      /\ \A u \in Threads \ {t} : stack'[u] = stack[u]
  BY ReturnsBelow DEF StaleInv
<1>2. ~At(t, "bg") /\ ~At(t, "bg")'
  BY <1>1 DEF At
<1>3. WillToggle(t) => WillToggle(t)'
  BY <1>1 DEF WillToggle, CalledBack
<1> QED
  BY <1>1, <1>2, <1>3, TogglersStay, StoresStay DEF StaleInv

\* FocusUnfocus of the client is called.
LEMMA CallKeepsStale ==
  ASSUME StaleInv, OneLimiter(schedule), NEW t \in Threads, CallClient(t),
         race'.toggle = race.toggle
  PROVE  StaleWillToggle' /\ StoresBoth'
<1> DEFINE f == [Top(t) EXCEPT !.at = Top(t).next]
<1>1. ~Idle(t) /\ Top(t).at = "call" /\ engine' = FocusUnfocus(engine, Top(t).arg)
      /\ UNCHANGED regime
  BY DEF CallClient, At
<1>2. Top(t) \in Frames /\ FrameOK(Duties(t), Top(t)) /\ Top(t).arg \in Focus
      /\ stack \in [Threads -> Seq(Frames)]
  BY <1>1, TopFacts DEF StaleInv, FramesInv, ThreadsTypeOK, FrameOK
<1>3. /\ engine \in Engines(Int)
      /\ engine'.focused = Top(t).arg /\ engine'.fg = engine.fg /\ engine'.bg = engine.bg
      /\ engine.focused # Top(t).arg => CapFollowsFocus'
      /\ engine.focused = Top(t).arg => engine' = engine
  <2>1. engine \in Engines(Int)
    BY DEF StaleInv, FramesInv, ThreadsTypeOK
  <2> DEFINE r == FocusUnfocus(engine, Top(t).arg)
  <2>2. /\ r.focused = Top(t).arg /\ r.fg = engine.fg /\ r.bg = engine.bg
        /\ engine.focused # Top(t).arg => r.cap = StoredLimit(r)
    BY <1>2, <2>1, FocusUnfocusFacts
  <2>3. engine.focused = Top(t).arg => r = engine
    BY DEF FocusUnfocus
  <2> HIDE DEF r
  <2>4. engine' = r
    BY <1>1 DEF r
  <2>5. CapFollowsFocus' <=> engine'.cap = StoredLimit(engine')
    BY DEF CapFollowsFocus, StoredLimit
  <2> QED
    BY <2>1, <2>2, <2>3, <2>4, <2>5
<1>4. \/ Return(t) /\ Top(t).next = "return"
      \/ Continue(t, <<Look>>) /\ Top(t).next = "return"
      \/ Continue(t, <<f>>) /\ Top(t).next # "return"
      \/ Continue(t, <<Look>> \o <<f>>) /\ Top(t).next # "return"
  BY <1>1, <1>2, NothingOnTop, LookAlone DEF CallClient
<1>5. \A u \in Threads \ {t} : stack'[u] = stack[u]
  BY <1>1, <1>2, <1>4, Popped, Replaced, Pushed
<1>6. /\ Top(t).next # "return" => f.at \in {"back", "unfocus", "applied"} /\ f.arg = Top(t).arg
      /\ Top(t).next = "back" => f.at = "back"
  BY <1>1, <1>2 DEF FrameOK, Frames, Nexts
<1>7. ~At(t, "bg") /\ ~At(t, "bg")'
  <2>1. CASE Return(t)
    BY <1>1, <1>2, <2>1, ReturnsBelow DEF StaleInv, At
  <2>2. CASE Continue(t, <<Look>>)
    BY <1>1, <1>2, <2>2, Replaced DEF At, Top, Look, Frame
  <2>3. CASE Continue(t, <<f>>) /\ Top(t).next # "return"
    BY <1>1, <1>2, <1>6, <2>3, Replaced DEF At, Top
  <2>4. CASE Continue(t, <<Look>> \o <<f>>)
    BY <1>1, <1>2, <2>4, Pushed DEF At, Top, Look, Frame
  <2> QED
    BY <1>4, <2>1, <2>2, <2>3, <2>4
<1>8. StoresBoth'
  <2>1. \A u \in Threads : At(u, "bg")' <=> At(u, "bg")
    BY <1>5, <1>7 DEF At, Idle, Top
  <2>2. \A u \in Threads : At(u, "bg") => Top(u)' = Top(u)
    BY <1>5, <1>7 DEF Top
  <2> QED
    BY <1>1, <1>3, <2>1, <2>2 DEF StaleInv, StoresBoth
<1>9. StaleWillToggle'
  <2>1. CASE Top(t).next = "back"
    <3>1. WillToggle(t)'
      <4>1. CASE Continue(t, <<f>>)
        <5>1. stack'[t][1] = f /\ stack'[t] # <<>>
          BY <1>1, <1>2, <4>1, Replaced
        <5> QED
          BY <1>3, <1>6, <2>1, <5>1 DEF WillToggle, Top, Idle
      <4>2. CASE Continue(t, <<Look>> \o <<f>>)
        <5>1. /\ stack'[t][1] = Look /\ stack'[t][2] = f /\ stack'[t] # <<>>
              /\ Len(stack'[t]) = Len(stack[t]) + 1
          BY <1>1, <1>2, <4>2, Pushed
        <5>2. Len(stack'[t]) >= 2
          BY <1>1, <5>1, TopFacts DEF StaleInv
        <5>3. Look.at = "look"
          BY DEF Look, Frame
        <5> QED
          BY <1>3, <1>6, <2>1, <5>1, <5>2, <5>3 DEF WillToggle, Top, Idle
      <4> QED
        BY <1>4, <2>1, <4>1, <4>2
    <3> QED
      BY <3>1 DEF StaleWillToggle
  <2>2. CASE Top(t).next # "back" /\ engine.focused # Top(t).arg
    BY <1>3, <2>2 DEF StaleWillToggle
  <2>3. CASE Top(t).next # "back" /\ engine.focused = Top(t).arg
    <3>1. ~WillToggle(t)
      BY <1>1, <1>2, <2>3 DEF WillToggle, CalledBack, Focus
    <3> QED
      BY <1>3, <1>5, <2>3, <3>1, TogglersStay DEF StaleInv
  <2> QED
    BY <2>1, <2>2, <2>3
<1> QED
  BY <1>8, <1>9

LEMMA StoreKeepsStale ==
  ASSUME StaleInv, OneLimiter(schedule), NEW t \in Threads,
         StoreForeground(t) \/ StoreBackground(t), race.toggle /\ ~At(t, "bg") => race'.toggle
  PROVE  StaleWillToggle' /\ StoresBoth'
<1>1. stack \in [Threads -> Seq(Frames)] /\ engine \in Engines(Int)
  BY DEF StaleInv, FramesInv, ThreadsTypeOK
<1>2. ASSUME NEW u \in Threads, u # t, At(u, "bg") PROVE FALSE
  <2>1. Limiting(u)
    BY <1>2, TogglerLimits DEF StaleInv
  <2>2. ~Idle(t) /\ Top(t).at \in {"fg", "bg"}
    BY DEF StoreForeground, StoreBackground, At
  <2>3. Limiting(t)
    BY <2>2, TopFacts DEF StaleInv, FrameOK, WorldSteps, Limiting
  <2> QED
    BY <1>2, <2>1, <2>3, OneLimits DEF StaleInv
<1>3. CASE StoreForeground(t) /\ focusUnfocusAddr = NoAddr
  <2> DEFINE f == [Top(t) EXCEPT !.at = "applied"]
  <2>1. ~Idle(t) /\ Top(t).at = "fg" /\ Continue(t, <<f>>) /\ UNCHANGED <<engine, regime>>
    BY <1>3 DEF StoreForeground, At, Goto
  <2>2. f.at = "applied"
    BY <2>1, TopFacts DEF StaleInv, Frames
  <2> QED
    BY <2>1, <2>2, MoveKeepsStale DEF At
<1>4. CASE StoreForeground(t) /\ focusUnfocusAddr # NoAddr
  <2> DEFINE f == [Top(t) EXCEPT !.at = "bg"]
  <2>1. ~Idle(t) /\ Continue(t, <<f>>) /\ engine' = [engine EXCEPT !.fg = Top(t).arg]
        /\ UNCHANGED regime
    BY <1>4 DEF StoreForeground, At, Goto
  <2>2. f.at = "bg" /\ f.arg = Top(t).arg
    BY <2>1, TopFacts DEF StaleInv, Frames
  <2>3. stack'[t][1] = f /\ stack'[t] # <<>> /\ \A u \in Threads \ {t} : stack'[u] = stack[u]
    BY <1>1, <2>1, Replaced
  <2>4. Top(t)' = f /\ At(t, "bg")' /\ WillToggle(t)'
    BY <2>2, <2>3 DEF At, Idle, Top, WillToggle
  <2>5. \A u \in Threads \ {t} : ~At(u, "bg")'
    BY <1>2, <2>3 DEF At, Idle, Top
  <2>6. engine'.fg = Top(t).arg
    BY <1>1, <2>1 DEF Engines
  <2> QED
    BY <2>2, <2>4, <2>5, <2>6 DEF StaleWillToggle, StoresBoth
<1>5. CASE StoreBackground(t)
  <2> DEFINE f == [Top(t) EXCEPT !.at = "away"]
  <2>1. ~Idle(t) /\ At(t, "bg") /\ Continue(t, <<f>>) /\ engine' = [engine EXCEPT !.bg = Top(t).arg]
        /\ regime' = [by |-> Top(t).screen, limit |-> Top(t).arg]
    BY <1>5 DEF StoreBackground, At, Goto
  <2>2. f.at = "away"
    BY <2>1, TopFacts DEF StaleInv, Frames
  <2>3. stack'[t][1] = f /\ stack'[t] # <<>> /\ \A u \in Threads \ {t} : stack'[u] = stack[u]
    BY <1>1, <2>1, Replaced
  <2>4. Top(t)' = f /\ ~At(t, "bg")' /\ WillToggle(t)'
    BY <2>2, <2>3 DEF At, Idle, Top, WillToggle
  <2>5. \A u \in Threads \ {t} : ~At(u, "bg")'
    BY <1>2, <2>3 DEF At, Idle, Top
  <2>6. engine'.fg = Top(t).arg /\ engine'.bg = Top(t).arg /\ regime'.limit = Top(t).arg
    BY <1>1, <2>1 DEF Engines, StaleInv, StoresBoth
  <2> QED
    BY <2>4, <2>5, <2>6 DEF StaleWillToggle, StoresBoth
<1> QED
  BY <1>3, <1>4, <1>5

\* The client saves a limit: whatever is stale, is stale because of the unfocused limit.
LEMMA SaveKeepsStale ==
  ASSUME StaleInv, OneLimiter(schedule), NEW t \in Threads, Save(t),
         race'.toggle = race.toggle
  PROVE  StaleWillToggle' /\ StoresBoth'
<1>1. ~Idle(t) /\ Top(t).at = "save" /\ Return(t)
      /\ engine' = SetForegroundFpsLimit(engine, Top(t).arg) /\ regime'.by \notin Screens
  BY DEF Save, SaveForeground, At, Screens
<1>2. engine \in Engines(Int)
  BY DEF StaleInv, FramesInv, ThreadsTypeOK
<1>3. /\ ~Idle(t)' => Top(t)'.at \in {"back", "unfocus", "applied"}
      /\ \A u \in Threads \ {t} : stack'[u] = stack[u]
  BY <1>1, ReturnsBelow DEF StaleInv
<1>4. Limiting(t)
  BY <1>1, TopFacts DEF StaleInv, FrameOK, Limiting
<1>5. ASSUME NEW u \in Threads, WillToggle(u) \/ At(u, "bg") PROVE FALSE
  <2>1. u = t
    BY <1>4, <1>5, TogglerLimits, OneLimits DEF StaleInv
  <2> QED
    BY <1>1, <1>5, <2>1 DEF WillToggle, At, CalledBack
<1>6. \A u \in Threads : ~At(u, "bg")'
  <2>1. \A u \in Threads \ {t} : ~At(u, "bg")'
    BY <1>3, <1>5 DEF At, Idle, Top
  <2>2. ~At(t, "bg")'
    BY <1>3 DEF At
  <2> QED
    BY <2>1, <2>2
<1>7. CapFollowsFocus => CapFollowsFocus'
  BY <1>1, <1>2 DEF CapFollowsFocus, StoredLimit, SetForegroundFpsLimit, Engines, Focus
<1>8. StaleWillToggle'
  BY <1>5, <1>7 DEF StaleWillToggle, StaleInv
<1> QED
  BY <1>1, <1>6, <1>8 DEF StoresBoth

LEMMA SaveBackgroundKeepsStale ==
  ASSUME StaleInv, NEW l \in Limits, SaveBackground(l), UNCHANGED <<stack, race>>
  PROVE  StaleWillToggle' /\ StoresBoth'
<1>1. engine' = SetBackgroundFpsLimit(engine, l) /\ regime'.by \notin Screens
  BY DEF SaveBackground, Screens
<1>2. engine \in Engines(Int)
  BY DEF StaleInv, FramesInv, ThreadsTypeOK
<1>3. /\ engine'.focused = engine.focused /\ engine'.fg = engine.fg
      /\ CapFollowsFocus => CapFollowsFocus'
  BY <1>1, <1>2 DEF CapFollowsFocus, StoredLimit, SetBackgroundFpsLimit, Engines, Focus
<1>4. \A u \in Threads : WillToggle(u) => WillToggle(u)'
  BY <1>3 DEF WillToggle, Idle, Top, CalledBack
<1>5. \A u \in Threads : (At(u, "bg")' <=> At(u, "bg")) /\ Top(u)' = Top(u)
  BY DEF At, Idle, Top
<1> QED
  BY <1>1, <1>3, <1>4, <1>5 DEF StaleInv, StaleWillToggle, StoresBoth

LEMMA StepKeepsStale ==
  ASSUME StaleInv, OneLimiter(schedule), NEW t \in Threads, Step(t), Observe(t)
  PROVE  StaleWillToggle' /\ StoresBoth'
<1>1. /\ race.toggle /\ ~At(t, "bg") => race'.toggle
      /\ ~At(t, "bg") /\ ~At(t, "back") => race'.toggle = race.toggle
      /\ At(t, "back") /\ Top(t).arg # Away => race'.toggle
  BY DEF Observe, StaleInv, FramesInv, ThreadsTypeOK
<1>2. ~Idle(t) => Top(t) \in Frames /\ FrameOK(Duties(t), Top(t))
  BY TopFacts DEF StaleInv
<1>3. focusState \in Focus
  BY DEF StaleInv, FramesInv, ThreadsTypeOK
<1>4. ASSUME ~Idle(t), UNCHANGED <<engine, regime>>, NEW f, Continue(t, <<f>>),
             \/ /\ Top(t).at \in {"look", "kind", "flag", "limit", "applied", "record"}
                /\ f.at \in {"kind", "flag", "limit", "fg", "record", "zone"}
             \/ Top(t).at = "away" /\ f.at = "call" /\ f.next = "back"
             \/ Top(t).at \in {"unfocus", "focus", "addr", "override", "use"} /\ f.at # "bg"
      PROVE  StaleWillToggle' /\ StoresBoth'
  <2>1. Top(t).at # "bg" /\ f.at # "bg" /\ Top(t).at # "back"
    BY <1>4
  <2>2. race'.toggle = race.toggle
    BY <1>1, <2>1 DEF At
  <2> QED
    BY <1>4, <2>1, <2>2, MoveKeepsStale DEF WillToggle, CalledBack
<1>5. CASE ClientCalls(t)
  <2>1. PICK f : f.at \in {"look", "addr", "focus"} /\ Idle(t) /\ UNCHANGED vars
                 /\ stack' = [stack EXCEPT ![t] = <<f>>]
    BY <1>5 DEF ClientCalls, Enters, Look, Frame
  <2>2. stack'[t] = <<f>> /\ \A u \in Threads \ {t} : stack'[u] = stack[u]
    BY <2>1 DEF StaleInv, FramesInv, ThreadsTypeOK
  <2>3. ~At(t, "bg") /\ ~At(t, "bg")' /\ ~WillToggle(t) /\ UNCHANGED <<engine, regime>>
    BY <2>1, <2>2 DEF At, Idle, Top, WillToggle, vars
  <2> QED
    BY <1>1, <2>2, <2>3, TogglersStay, StoresStay DEF StaleInv
<1>6. CASE CallClient(t)
  BY <1>1, <1>6, CallKeepsStale DEF CallClient, At
<1>7. CASE LookAtWorld(t)
  <2>1. ~Idle(t) /\ Top(t).at = "look" /\ UNCHANGED <<engine, regime>>
    BY <1>7 DEF LookAtWorld, At
  <2>2. CASE Return(t)
    BY <1>1, <2>1, <2>2, ReturnKeepsStale DEF At
  <2>3. ASSUME NEW f, f.at \in {"kind", "limit", "record", "zone"}, Continue(t, <<f>>)
        PROVE  StaleWillToggle' /\ StoresBoth'
    BY <1>4, <2>1, <2>3
  <2>4. CASE Decide(t, "limit", "low")
    <3> DEFINE f == [Top(t) EXCEPT !.at = "limit", !.screen = "low"]
    <3>1. f.at = "limit" /\ Continue(t, <<f>>)
      BY <1>2, <2>1, <2>4 DEF Decide, Frames
    <3> HIDE DEF f
    <3> QED
      BY <2>3, <3>1
  <2>5. ASSUME NEW where \in {"kind", "record", "zone"}, Goto(t, where)
        PROVE  StaleWillToggle' /\ StoresBoth'
    BY <1>2, <2>1, <2>3, <2>5 DEF Goto, Frames
  <2> QED
    BY <1>7, <2>2, <2>4, <2>5 DEF LookAtWorld
<1>8. ASSUME ~Idle(t), UNCHANGED <<engine, regime>>, NEW where, Goto(t, where),
             \/ Top(t).at = "kind" /\ where = "flag"
             \/ Top(t).at = "applied" /\ where = "record"
             \/ Top(t).at = "record" /\ where = "zone"
             \/ Top(t).at \in {"addr", "override"} /\ where \in {"override", "use", "save"}
      PROVE  StaleWillToggle' /\ StoresBoth'
  BY <1>2, <1>4, <1>8 DEF Goto, Frames
<1>9. ASSUME ~Idle(t), UNCHANGED <<engine, regime>>, NEW screen, Decide(t, "limit", screen),
             Top(t).at \in {"kind", "flag"}
      PROVE  StaleWillToggle' /\ StoresBoth'
  BY <1>2, <1>4, <1>9 DEF Decide, Frames
<1>10. CASE ChooseFunction(t) \/ ChooseScreen(t)
  BY <1>8, <1>9, <1>10 DEF ChooseFunction, ChooseScreen, At, vars
<1>11. CASE ChooseLimit(t)
  BY <1>2, <1>4, <1>11 DEF ChooseLimit, At, vars, Frames
<1>12. CASE StoreForeground(t) \/ StoreBackground(t)
  BY <1>1, <1>12, StoreKeepsStale
<1>13. CASE PlayFocus(t)
  <2>1. ~Idle(t) /\ UNCHANGED <<engine, regime>>
    BY <1>13 DEF PlayFocus, At, vars
  <2>2. CASE At(t, "back") /\ Call(t, Back, AfterBack(t))
    <3> DEFINE f == [Top(t) EXCEPT !.at = "call", !.arg = Back, !.next = AfterBack(t)]
    <3>1. Top(t).at = "back" /\ Continue(t, <<f>>)
      BY <2>2 DEF At, Call
    <3>2. f.at = "call" /\ f.arg = focusState /\ CalledBack(f)
      BY <1>2, <2>1 DEF Frames, Back, CalledBack, AfterBack
    <3>3. Top(t).arg # Away => race'.toggle
      BY <1>1, <2>2
    <3>4. Top(t).arg = Away => Top(t).arg = 1 - f.arg
      BY <3>2 DEF Away
    <3>5. WillToggle(t) => engine.focused = Top(t).arg
      BY <3>1 DEF WillToggle, CalledBack
    <3>6. race.toggle => race'.toggle
      BY <1>1, <3>1 DEF At
    <3> HIDE DEF f
    <3> QED
      BY <2>1, <3>1, <3>2, <3>3, <3>4, <3>5, <3>6, MoveKeepsStale
  <2>3. CASE At(t, "away") /\ Call(t, Away, "back")
    BY <1>2, <1>4, <2>1, <2>3 DEF At, Call, Frames
  <2>4. CASE At(t, "unfocus") /\ Call(t, 0, "applied")
    BY <1>2, <1>4, <2>1, <2>4 DEF At, Call, Frames
  <2> QED
    BY <1>13, <2>2, <2>3, <2>4 DEF PlayFocus
<1>14. CASE SetFlag(t) \/ RecordTransit(t)
  BY <1>8, <1>14 DEF SetFlag, RecordTransit, At
<1>15. CASE RecordZone(t)
  BY <1>1, <1>15, ReturnKeepsStale DEF RecordZone, At
<1>16. CASE StoreAddress(t)
  <2>1. CASE At(t, "addr") /\ Goto(t, "override")
    BY <1>8, <1>16, <2>1 DEF StoreAddress, At
  <2>2. CASE At(t, "focus") /\ Call(t, Top(t).arg, "return")
    <3>1. ~Idle(t) /\ Top(t).at = "focus" /\ UNCHANGED <<engine, regime>>
      BY <1>16, <2>2 DEF StoreAddress, At
    <3> DEFINE f == [Top(t) EXCEPT !.at = "call", !.arg = Top(t).arg, !.next = "return"]
    <3>2. f.at = "call" /\ Continue(t, <<f>>)
      BY <1>2, <2>2, <3>1 DEF Call, Frames
    <3> HIDE DEF f
    <3> QED
      BY <1>4, <3>1, <3>2
  <2> QED
    BY <1>16, <2>1, <2>2 DEF StoreAddress
<1>17. CASE Override(t)
  <2>1. CASE At(t, "override") /\ Goto(t, IF cfg.ForegroundLimit > -1 THEN "use" ELSE "save")
    BY <1>8, <1>17, <2>1 DEF Override, At, vars
  <2>2. CASE At(t, "use") /\ Continue(t, <<[Top(t) EXCEPT !.at = "save", !.arg = cfg.ForegroundLimit]>>)
    BY <1>2, <1>4, <1>17, <2>2 DEF Override, At, vars, Frames
  <2> QED
    BY <1>17, <2>1, <2>2 DEF Override
<1>18. CASE Save(t)
  BY <1>1, <1>18, SaveKeepsStale DEF Save, At
<1> QED
  BY <1>5, <1>6, <1>7, <1>10, <1>11, <1>12, <1>13, <1>14, <1>15, <1>16, <1>17, <1>18 DEF Step

LEMMA StaleStep ==
  OneLimiter(schedule) /\ StaleInv /\ [ThreadsNext]_hookVars => StaleInv'
<1> SUFFICES ASSUME OneLimiter(schedule), StaleInv, [ThreadsNext]_hookVars PROVE StaleInv'
  OBVIOUS
<1>1. FramesInv'
  BY FramesStep DEF StaleInv
<1>2. ASSUME UNCHANGED <<engine, regime, stack, race>> PROVE StaleWillToggle' /\ StoresBoth'
  BY <1>2 DEF StaleInv, StaleWillToggle, StoresBoth, CapFollowsFocus, WillToggle, CalledBack, At, Idle, Top
<1>3. ASSUME NEW t \in Threads, Environment(t), UNCHANGED race
      PROVE  StaleWillToggle' /\ StoresBoth'
  BY <1>2, <1>3, SaveBackgroundKeepsStale DEF Environment, WorldChanges, ConfigReloaded
<1>4. ASSUME UNCHANGED hookVars PROVE StaleWillToggle' /\ StoresBoth'
  BY <1>2, <1>4 DEF hookVars, vars
<1>5. ASSUME NEW t \in Threads, Step(t), Observe(t)
      PROVE  StaleWillToggle' /\ StoresBoth'
  BY <1>5, StepKeepsStale
<1>6. StaleWillToggle' /\ StoresBoth'
  BY <1>3, <1>4, <1>5 DEF ThreadsNext
<1> QED
  BY <1>1, <1>6 DEF StaleInv

LEMMA StaleInit == ThreadsInit => StaleInv
<1> SUFFICES ASSUME ThreadsInit PROVE StaleInv
  OBVIOUS
<1>1. FramesInv
  BY FramesInit
<1>2. CapFollowsFocus /\ regime.by \notin Screens /\ \A t \in Threads : ~At(t, "bg")
  BY DEF ThreadsInit, Init, CapFollowsFocus, StoredLimit, Screens, At, Idle
<1> QED
  BY <1>1, <1>2 DEF StaleInv, StaleWillToggle, StoresBoth

\* A screen's limit reaches the renderer, whatever the other threads of the client do
\* between the accesses of a hook, unless a focus event comes between the two
\* readings of focusState of a hook (lines 77 and 78): for any number of threads of
\* which one asks for the World and saves foreground limits, and any depth of hooks.
THEOREM StaleLimit == ThreadsSpec => [](OneLimiter(schedule) => StaleLimitNeedsRace)
<1>1. StaleInv => StaleLimitNeedsRace
  <2> SUFFICES ASSUME StaleInv, Quiet, ~race.toggle PROVE CapFollowsFocus /\ AltTabKeepsLimit
    BY DEF StaleLimitNeedsRace
  <2>1. ASSUME NEW t \in Threads PROVE ~WillToggle(t) /\ ~At(t, "bg")
    <3>1. CASE stack[t] = <<>>
      BY <3>1 DEF WillToggle, At, Idle
    <3>2. CASE stack[t] = <<Look>>
      <4>1. Len(stack[t]) = 1 /\ Top(t) = Look
        BY <3>2 DEF Top
      <4> QED
        BY <4>1 DEF WillToggle, At, CalledBack, Look, Frame
    <3> QED
      BY <3>1, <3>2 DEF Quiet, Fresh
  <2>2. CapFollowsFocus
    BY <2>1 DEF StaleInv, StaleWillToggle
  <2>3. AltTabKeepsLimit
    BY <2>1, <2>2 DEF StaleInv, StoresBoth, AltTabKeepsLimit, CapFollowsFocus, StoredLimit
  <2> QED
    BY <2>2, <2>3
<1>2. ThreadsInit => (OneLimiter(schedule) => StaleInv)
  BY StaleInit
<1>3. (OneLimiter(schedule) => StaleInv) /\ [ThreadsNext]_hookVars => (OneLimiter(schedule) => StaleInv)'
  BY StaleStep, SameSchedule DEF OneLimiter
<1> QED
  BY <1>1, <1>2, <1>3, PTL DEF ThreadsSpec

-----------------------------------------------------------------------------
(* Which screen the hooks inside each other decide on, and the focus the client is
   left with. *)

\* The hooks of t that have another one inside them.
Below(t) == {stack[t][i] : i \in 2 .. Len(stack[t])}

-----------------------------------------------------------------------------
(* Stacks, as a frame and the set of frames below it. *)

LEMMA BelowFacts ==
  ASSUME FramesInv, NEW t \in Threads
  PROVE  /\ Idle(t) => Below(t) = {}
         /\ \A f \in Below(t) : /\ f \in Frames /\ FrameOK(Duties(t), f)
                                /\ f.at \in {"back", "unfocus", "applied"}
<1>1. stack[t] \in Seq(Frames)
  BY DEF FramesInv, ThreadsTypeOK
<1>2. Len(stack[t]) \in Nat /\ (stack[t] = <<>> => Len(stack[t]) = 0)
  BY <1>1, LenProperties, EmptySeq
<1>3. Idle(t) => Below(t) = {}
  BY <1>2 DEF Idle, Below
<1>4. ASSUME NEW i \in 2 .. Len(stack[t])
      PROVE  /\ stack[t][i] \in Frames /\ FrameOK(Duties(t), stack[t][i])
             /\ stack[t][i].at \in {"back", "unfocus", "applied"}
  <2>1. i \in 1 .. Len(stack[t]) /\ i >= 2
    BY <1>2
  <2> QED
    BY <1>1, <2>1, ElementOfSeq DEF FramesInv, StackOK
<1> QED
  BY <1>3, <1>4 DEF Below

LEMMA ReplacedBelow ==
  ASSUME FramesInv, NEW t \in Threads, ~Idle(t), NEW f, Continue(t, <<f>>)
  PROVE  /\ ~Idle(t)' /\ Top(t)' = f /\ Below(t)' = Below(t)
         /\ \A u \in Threads \ {t} : stack'[u] = stack[u]
<1>1. stack \in [Threads -> Seq(Frames)]
  BY DEF FramesInv, ThreadsTypeOK
<1>2. /\ Len(stack'[t]) = Len(stack[t]) /\ stack'[t] # <<>> /\ stack'[t][1] = f
      /\ \A i \in 2 .. Len(stack[t]) : stack'[t][i] = stack[t][i]
      /\ \A u \in Threads \ {t} : stack'[u] = stack[u]
  BY <1>1, Replaced
<1>3. Below(t)' = {stack'[t][i] : i \in 2 .. Len(stack'[t])}
  BY DEF Below
<1>4. Below(t)' = Below(t)
  BY <1>2, <1>3 DEF Below
<1> QED
  BY <1>2, <1>4 DEF Idle, Top

LEMMA PoppedBelow ==
  ASSUME FramesInv, NEW t \in Threads, ~Idle(t), Return(t)
  PROVE  /\ ~Idle(t)' => Below(t) = {Top(t)'} \union Below(t)'
         /\ Idle(t)' => Below(t) = {} /\ Below(t)' = {}
         /\ \A u \in Threads \ {t} : stack'[u] = stack[u]
<1>1. stack \in [Threads -> Seq(Frames)]
  BY DEF FramesInv, ThreadsTypeOK
<1>2. /\ stack'[t] \in Seq(Frames)
      /\ Len(stack'[t]) = Len(stack[t]) - 1
      /\ \A i \in 2 .. Len(stack[t]) : stack'[t][i - 1] = stack[t][i]
      /\ \A i \in 1 .. Len(stack'[t]) : stack'[t][i] = stack[t][i + 1]
      /\ \A u \in Threads \ {t} : stack'[u] = stack[u]
  BY <1>1, Popped
<1>3. /\ Len(stack[t]) \in Nat /\ Len(stack'[t]) \in Nat
      /\ stack'[t] = <<>> => Len(stack'[t]) = 0
      /\ stack'[t] # <<>> => Len(stack'[t]) # 0
  BY <1>1, <1>2, LenProperties, EmptySeq
<1>4. Below(t)' = {stack'[t][i] : i \in 2 .. Len(stack'[t])}
  BY DEF Below
<1>5. Below(t) = {stack'[t][i] : i \in 1 .. Len(stack'[t])}
  <2>1. ASSUME NEW i \in 2 .. Len(stack[t])
        PROVE  stack[t][i] \in {stack'[t][j] : j \in 1 .. Len(stack'[t])}
    <3>1. i - 1 \in 1 .. Len(stack'[t]) /\ stack'[t][i - 1] = stack[t][i]
      BY <1>2, <1>3
    <3> QED
      BY <3>1
  <2>2. ASSUME NEW i \in 1 .. Len(stack'[t]) PROVE stack'[t][i] \in Below(t)
    <3>1. i + 1 \in 2 .. Len(stack[t]) /\ stack'[t][i] = stack[t][i + 1]
      BY <1>2, <1>3
    <3> QED
      BY <3>1 DEF Below
  <2> QED
    BY <2>1, <2>2 DEF Below
<1>6. ASSUME stack'[t] # <<>> PROVE Below(t) = {stack'[t][1]} \union Below(t)'
  <2>1. 1 .. Len(stack'[t]) = {1} \union 2 .. Len(stack'[t])
    BY <1>3, <1>6
  <2> QED
    BY <1>4, <1>5, <2>1
<1>7. ASSUME stack'[t] = <<>> PROVE Below(t) = {} /\ Below(t)' = {}
  <2>1. 1 .. Len(stack'[t]) = {} /\ 2 .. Len(stack'[t]) = {}
    BY <1>3, <1>7
  <2> QED
    BY <1>4, <1>5, <2>1
<1> QED
  BY <1>2, <1>6, <1>7 DEF Idle, Top

LEMMA PushedBelow ==
  ASSUME FramesInv, NEW t \in Threads, ~Idle(t), NEW f, Continue(t, <<Look>> \o <<f>>)
  PROVE  /\ ~Idle(t)' /\ Top(t)' = Look /\ Below(t)' = {f} \union Below(t)
         /\ \A u \in Threads \ {t} : stack'[u] = stack[u]
<1>1. stack \in [Threads -> Seq(Frames)]
  BY DEF FramesInv, ThreadsTypeOK
<1>2. /\ Len(stack'[t]) = Len(stack[t]) + 1 /\ stack'[t] # <<>>
      /\ stack'[t][1] = Look /\ stack'[t][2] = f
      /\ \A i \in 2 .. Len(stack[t]) : stack'[t][i + 1] = stack[t][i]
      /\ \A u \in Threads \ {t} : stack'[u] = stack[u]
  BY <1>1, Pushed
<1>3. Len(stack[t]) \in Nat /\ Len(stack[t]) >= 1
  BY TopFacts
<1>4. Below(t)' = {stack'[t][i] : i \in 2 .. Len(stack'[t])}
  BY DEF Below
<1>5. ASSUME NEW i \in 2 .. Len(stack'[t]) PROVE stack'[t][i] \in {f} \union Below(t)
  <2>1. CASE i = 2
    BY <1>2, <2>1
  <2>2. CASE i # 2
    <3>1. i - 1 \in 2 .. Len(stack[t]) /\ (i - 1) + 1 = i
      BY <1>2, <1>3, <2>2
    <3>2. stack'[t][(i - 1) + 1] = stack[t][i - 1]
      BY <1>2, <3>1
    <3> QED
      BY <3>1, <3>2 DEF Below
  <2> QED
    BY <2>1, <2>2
<1>6. ASSUME NEW i \in 2 .. Len(stack[t]) PROVE stack[t][i] \in Below(t)'
  <2>1. i + 1 \in 2 .. Len(stack'[t]) /\ stack'[t][i + 1] = stack[t][i]
    BY <1>2, <1>3
  <2> QED
    BY <1>4, <2>1
<1>7. f \in Below(t)'
  <2>1. 2 \in 2 .. Len(stack'[t])
    BY <1>2, <1>3
  <2> QED
    BY <1>2, <1>4, <2>1
<1>8. Below(t)' = {f} \union Below(t)
  BY <1>4, <1>5, <1>6, <1>7 DEF Below
<1> QED
  BY <1>2, <1>8 DEF Idle, Top

LEMMA EnteredBelow ==
  ASSUME FramesInv, NEW t \in Threads, NEW f, stack' = [stack EXCEPT ![t] = <<f>>]
  PROVE  /\ ~Idle(t)' /\ Top(t)' = f /\ Below(t)' = {}
         /\ \A u \in Threads \ {t} : stack'[u] = stack[u]
<1>1. stack'[t] = <<f>> /\ \A u \in Threads \ {t} : stack'[u] = stack[u]
  BY DEF FramesInv, ThreadsTypeOK
<1>2. Below(t)' = {stack'[t][i] : i \in 2 .. Len(stack'[t])}
  BY DEF Below
<1>3. Len(<<f>>) = 1 /\ <<f>>[1] = f /\ <<f>> # <<>>
  OBVIOUS
<1>4. 2 .. Len(stack'[t]) = {}
  <2>1. Len(stack'[t]) = 1
    BY <1>1, <1>3
  <2>2. 2 .. 1 = {}
    OBVIOUS
  <2> QED
    BY <2>1, <2>2
<1> QED
  BY <1>1, <1>2, <1>3, <1>4 DEF Idle, Top

\* All hooks of t that run.
Hooks(t) == IF Idle(t) THEN {} ELSE {Top(t)} \union Below(t)

\* A hook starts on an idle thread.
LEMMA HookEnters ==
  ASSUME NEW t \in Threads, ClientCalls(t)
  PROVE  \E f : /\ f.at \in {"look", "addr", "focus"} /\ f.screen = "none"
                /\ Idle(t) /\ UNCHANGED vars /\ stack' = [stack EXCEPT ![t] = <<f>>]
  BY DEF ClientCalls, Enters, Look, Frame

\* A step is one thread's.
LEMMA StepAlone ==
  ASSUME FramesInv, NEW t \in Threads, Step(t) \/ Environment(t)
  PROVE  \A u \in Threads \ {t} : stack'[u] = stack[u]
<1> SUFFICES ASSUME NEW u \in Threads, u # t PROVE stack'[u] = stack[u]
  OBVIOUS
<1>1. ASSUME NEW s, stack' = [stack EXCEPT ![t] = s] PROVE stack'[u] = stack[u]
  BY <1>1 DEF FramesInv, ThreadsTypeOK
<1>2. ASSUME NEW fs, Continue(t, fs) PROVE stack'[u] = stack[u]
  BY <1>1, <1>2 DEF Continue
<1>3. CASE Return(t)
  BY <1>1, <1>3 DEF Return
<1>4. ASSUME NEW where, Goto(t, where) PROVE stack'[u] = stack[u]
  BY <1>2, <1>4 DEF Goto
<1>5. ASSUME NEW where, NEW screen, Decide(t, where, screen) PROVE stack'[u] = stack[u]
  BY <1>2, <1>5 DEF Decide
<1>6. ASSUME NEW focus, NEW next, Call(t, focus, next) PROVE stack'[u] = stack[u]
  BY <1>2, <1>6 DEF Call
<1>7. CASE ClientCalls(t)
  BY <1>1, <1>7 DEF ClientCalls, Enters
<1>8. CASE CallClient(t)
  BY <1>2, <1>8 DEF CallClient
<1>9. CASE LookAtWorld(t) \/ ChooseFunction(t) \/ ChooseScreen(t) \/ ChooseLimit(t)
  BY <1>2, <1>3, <1>4, <1>5, <1>9 DEF LookAtWorld, ChooseFunction, ChooseScreen, ChooseLimit
<1>10. CASE StoreForeground(t) \/ StoreBackground(t) \/ SetFlag(t) \/ RecordTransit(t) \/ RecordZone(t)
  BY <1>3, <1>4, <1>10 DEF StoreForeground, StoreBackground, SetFlag, RecordTransit, RecordZone
<1>11. CASE PlayFocus(t) \/ StoreAddress(t) \/ Override(t) \/ Save(t)
  BY <1>2, <1>3, <1>4, <1>6, <1>11 DEF PlayFocus, StoreAddress, Override, Save
<1>12. CASE Environment(t)
  BY <1>12 DEF Environment
<1> QED
  BY <1>7, <1>8, <1>9, <1>10, <1>11, <1>12 DEF Step

-----------------------------------------------------------------------------
(* The screen the hooks inside each other decide on. *)

\* One thread asks for the World, and the World changes on no other.
OneWorld(s) ==
  \A t, u \in Threads :
    /\ "GetWorld" \in s.duties[t]
    /\ s.duties[u] \intersect {"GetWorld", "WorldChanges"} # {}
    => t = u

\* The World is the one remembered.
Recorded == inTransitState = world.isTransit /\ prevGeoZoneId = world.geozoneId

NewScreen == ~ToCharSelect /\ TransitEdge /\ world.isTransit

\* The screen a hook decides on that looks at the World now.
Verdict(screen) ==
  \/ screen = "low" /\ ToCharSelect
  \/ screen = "charselect" /\ NewScreen /\ Live /\ applyLowFpsToNextLoadingScreen
  \/ screen = "loading" /\ NewScreen /\ ~(Live /\ applyLowFpsToNextLoadingScreen)

\* The screens the hooks of t have decided on.
Screened(t) == {f.screen : f \in Hooks(t)} \ {"none"}

Played == {"away", "call", "back", "unfocus"}

\* Hooks inside each other decide on one screen: what each of them saw is still new
\* to the next, until the innermost one remembers it.  The limits they have stored
\* are that screen's while they play the focus.
SameScreen(t) ==
  /\ At(t, "kind") \/ At(t, "flag") => NewScreen
  /\ At(t, "zone") => inTransitState = world.isTransit
  /\ \A k \in Screened(t) :
       /\ \A j \in Screened(t) : j = k
       /\ Recorded \/ At(t, "record") \/ At(t, "zone") \/ Verdict(k)
  /\ regime.by = "loading" =>
       \A f \in Hooks(t) : f.at \in Played => f.screen \in {"none", "loading"}

ScreenInv == \A t \in Threads : "GetWorld" \in Duties(t) => SameScreen(t)

\* A World gives one screen, and none once it is remembered; the low screen of
\* line 114 is never the new one.
LEMMA Verdicts ==
  /\ \A j, k : Verdict(j) /\ Verdict(k) => j = k
  /\ \A k : Verdict(k) => ~Recorded
  /\ NewScreen => ~Recorded /\ ~(Live /\ world.leaveReason = 1 /\ world.geozoneId = 0)
  BY DEF Verdict, Recorded, NewScreen, ToCharSelect, TransitEdge, TransitChanged, ZoneChanged

\* A step of t after which its hooks have decided what they had decided before.
LEMMA ScreensStay ==
  ASSUME NEW t \in Threads, SameScreen(t), regime'.by = "loading" => regime.by = "loading",
         \A f \in Hooks(t)' :
           f.screen = "none" \/ \E g \in Hooks(t) : /\ g.screen = f.screen
                                                    /\ f.at \in Played => g.at \in Played,
         \/ Recorded' \/ At(t, "record")' \/ At(t, "zone")'
         \/ /\ UNCHANGED <<world, inTransitState, prevGeoZoneId, applyLowFpsToNextLoadingScreen>>
            /\ ~At(t, "record") /\ ~At(t, "zone"),
         At(t, "kind")' \/ At(t, "flag")' => NewScreen',
         At(t, "zone")' => (inTransitState = world.isTransit)'
  PROVE  SameScreen(t)'
<1>1. Screened(t)' \subseteq Screened(t)
  BY DEF Screened
<1>2. ASSUME NEW k \in Screened(t)
      PROVE  (Recorded \/ At(t, "record") \/ At(t, "zone") \/ Verdict(k))'
  <2>1. UNCHANGED <<world, inTransitState, prevGeoZoneId, applyLowFpsToNextLoadingScreen>>
        => (Recorded' <=> Recorded) /\ (Verdict(k)' <=> Verdict(k))
    BY DEF Recorded, Verdict, NewScreen, ToCharSelect, TransitEdge, TransitChanged, ZoneChanged
  <2> QED
    BY <2>1 DEF SameScreen
<1>3. \A k, j \in Screened(t) : j = k
  BY DEF SameScreen
<1>4. regime'.by = "loading" =>
        \A f \in Hooks(t)' : f.at \in Played => f.screen \in {"none", "loading"}
  BY DEF SameScreen
<1> QED
  BY <1>1, <1>2, <1>3, <1>4 DEF SameScreen

\* A hook of t decides on a screen.
LEMMA ScreensDecided ==
  ASSUME NEW t \in Threads, SameScreen(t), At(t, "look") \/ At(t, "flag"),
         UNCHANGED <<world, inTransitState, prevGeoZoneId, applyLowFpsToNextLoadingScreen, regime>>,
         NEW f, f.at = "limit", Verdict(f.screen), ~Idle(t)', Top(t)' = f, Below(t)' = Below(t)
  PROVE  SameScreen(t)'
<1>1. Hooks(t) = {Top(t)} \union Below(t) /\ Hooks(t)' = {f} \union Below(t)
  BY DEF Hooks, At
<1>2. ~Recorded /\ ~At(t, "record") /\ ~At(t, "zone")
  BY Verdicts DEF At
<1>3. ASSUME NEW g \in Below(t) PROVE g.screen \in {"none", f.screen}
  <2>1. g.screen # "none" => g.screen \in Screened(t)
    BY <1>1 DEF Screened
  <2> QED
    BY <1>2, <2>1, Verdicts DEF SameScreen
<1>4. Screened(t)' \subseteq {f.screen}
  BY <1>1, <1>3 DEF Screened
<1>5. Verdict(f.screen)'
  BY DEF Verdict, NewScreen, ToCharSelect, TransitEdge, TransitChanged, ZoneChanged
<1>6. ~At(t, "kind")' /\ ~At(t, "flag")' /\ ~At(t, "zone")'
  BY DEF At
<1>7. regime'.by = "loading" =>
        \A g \in Hooks(t)' : g.at \in Played => g.screen \in {"none", "loading"}
  BY <1>1 DEF SameScreen, Played
<1> QED
  BY <1>4, <1>5, <1>6, <1>7 DEF SameScreen

\* The limits of the screen are stored.
LEMMA ScreensStored ==
  ASSUME NEW t \in Threads, SameScreen(t), At(t, "bg"),
         UNCHANGED <<world, inTransitState, prevGeoZoneId, applyLowFpsToNextLoadingScreen>>,
         regime'.by = Top(t).screen, Top(t).screen # "none",
         NEW f, f.at = "away", f.screen = Top(t).screen,
         ~Idle(t)', Top(t)' = f, Below(t)' = Below(t)
  PROVE  SameScreen(t)'
<1>1. Hooks(t) = {Top(t)} \union Below(t) /\ Hooks(t)' = {f} \union Below(t)
  BY DEF Hooks, At
<1>2. Screened(t)' = Screened(t) /\ Top(t).screen \in Screened(t)
  BY <1>1 DEF Screened
<1>3. \A g \in Hooks(t)' : g.screen \in {"none", Top(t).screen}
  BY <1>2 DEF SameScreen, Screened
<1>4. \A k : (Recorded' <=> Recorded) /\ (Verdict(k)' <=> Verdict(k))
  BY DEF Recorded, Verdict, NewScreen, ToCharSelect, TransitEdge, TransitChanged, ZoneChanged
<1>5. ~At(t, "kind")' /\ ~At(t, "flag")' /\ ~At(t, "zone")' /\ ~At(t, "record") /\ ~At(t, "zone")
  BY DEF At
<1> QED
  BY <1>2, <1>3, <1>4, <1>5 DEF SameScreen

\* The innermost hook of t goes on with the screen it has.
LEMMA MoveKeepsScreen ==
  ASSUME FramesInv, NEW t \in Threads, ~Idle(t), SameScreen(t),
         regime'.by = "loading" => regime.by = "loading",
         NEW f, Continue(t, <<f>>),
         f.screen \in {"none", Top(t).screen},
         f.at \in Played => Top(t).at \in Played \/ f.screen = "none",
         \/ Recorded' \/ f.at \in {"record", "zone"}
         \/ /\ UNCHANGED <<world, inTransitState, prevGeoZoneId, applyLowFpsToNextLoadingScreen>>
            /\ Top(t).at \notin {"record", "zone"},
         f.at \in {"kind", "flag"} => NewScreen',
         f.at = "zone" => (inTransitState = world.isTransit)'
  PROVE  SameScreen(t)'
<1>1. ~Idle(t)' /\ Top(t)' = f /\ Below(t)' = Below(t)
  BY ReplacedBelow
<1>2. Hooks(t) = {Top(t)} \union Below(t) /\ Hooks(t)' = {f} \union Below(t)
  BY <1>1 DEF Hooks
<1>3. \A g \in Hooks(t)' :
        g.screen = "none" \/ \E h \in Hooks(t) : /\ h.screen = g.screen
                                                 /\ g.at \in Played => h.at \in Played
  BY <1>2
<1>4. /\ (At(t, "record")' \/ At(t, "zone")') <=> f.at \in {"record", "zone"}
      /\ (At(t, "kind")' \/ At(t, "flag")') <=> f.at \in {"kind", "flag"}
      /\ At(t, "zone")' <=> f.at = "zone"
      /\ (At(t, "record") \/ At(t, "zone")) <=> Top(t).at \in {"record", "zone"}
  BY <1>1 DEF At
<1> QED
  BY <1>3, <1>4, ScreensStay

\* A hook of t is over.
LEMMA ReturnKeepsScreen ==
  ASSUME FramesInv, NEW t \in Threads, ~Idle(t), SameScreen(t), Return(t),
         regime'.by = "loading" => regime.by = "loading",
         \/ Recorded'
         \/ /\ UNCHANGED <<world, inTransitState, prevGeoZoneId, applyLowFpsToNextLoadingScreen>>
            /\ Top(t).at \notin {"record", "zone"}
  PROVE  SameScreen(t)'
<1>1. /\ ~Idle(t)' => Below(t) = {Top(t)'} \union Below(t)'
      /\ Idle(t)' => Below(t) = {} /\ Below(t)' = {}
  BY PoppedBelow
<1>2. Hooks(t) = {Top(t)} \union Below(t) /\ Hooks(t)' = Below(t)
  BY <1>1 DEF Hooks
<1>3. ~Idle(t)' => Top(t)'.at \in {"back", "unfocus", "applied"}
  BY ReturnsBelow
<1>4. ~At(t, "kind")' /\ ~At(t, "flag")' /\ ~At(t, "zone")'
  BY <1>3 DEF At
<1> QED
  BY <1>2, <1>4, ScreensStay DEF At

LEMMA CallKeepsScreen ==
  ASSUME FramesInv, NEW t \in Threads, SameScreen(t), CallClient(t)
  PROVE  SameScreen(t)'
<1> DEFINE f == [Top(t) EXCEPT !.at = Top(t).next]
<1>1. /\ ~Idle(t) /\ Top(t).at = "call"
      /\ UNCHANGED <<world, inTransitState, prevGeoZoneId, applyLowFpsToNextLoadingScreen, regime>>
  BY DEF CallClient, At, statics
<1>2. Top(t) \in Frames /\ FrameOK(Duties(t), Top(t)) /\ stack \in [Threads -> Seq(Frames)]
  BY <1>1, TopFacts DEF FramesInv, ThreadsTypeOK
<1>3. \/ Return(t)
      \/ Continue(t, <<Look>>)
      \/ Continue(t, <<f>>) /\ Top(t).next # "return"
      \/ Continue(t, <<Look>> \o <<f>>) /\ Top(t).next # "return"
  BY <1>1, <1>2, NothingOnTop, LookAlone DEF CallClient
<1>4. Top(t).next # "return" => f.at \in {"back", "unfocus", "applied"} /\ f.screen = Top(t).screen
  BY <1>2 DEF Frames, Nexts
<1>5. Top(t).at \in Played
  BY <1>1 DEF Played
<1> HIDE DEF f
<1>6. CASE Return(t)
  BY <1>1, <1>6, ReturnKeepsScreen
<1>7. CASE Continue(t, <<Look>>)
  <2>1. Look.at = "look" /\ Look.screen = "none"
    BY DEF Look, Frame
  <2> QED
    BY <1>1, <1>7, <2>1, MoveKeepsScreen
<1>8. CASE Continue(t, <<f>>) /\ Top(t).next # "return"
  BY <1>1, <1>4, <1>5, <1>8, MoveKeepsScreen
<1>9. CASE Continue(t, <<Look>> \o <<f>>) /\ Top(t).next # "return"
  <2>1. ~Idle(t)' /\ Top(t)' = Look /\ Below(t)' = {f} \union Below(t)
    BY <1>1, <1>9, PushedBelow
  <2>2. Hooks(t) = {Top(t)} \union Below(t) /\ Hooks(t)' = {Look, f} \union Below(t)
    BY <1>1, <2>1 DEF Hooks
  <2>3. Look.at = "look" /\ Look.screen = "none"
    BY DEF Look, Frame
  <2>4. \A g \in Hooks(t)' :
          g.screen = "none" \/ \E h \in Hooks(t) : /\ h.screen = g.screen
                                                   /\ g.at \in Played => h.at \in Played
    BY <1>4, <1>5, <1>9, <2>2, <2>3
  <2>5. ~At(t, "kind")' /\ ~At(t, "flag")' /\ ~At(t, "zone")' /\ ~At(t, "record") /\ ~At(t, "zone")
    BY <1>1, <2>1, <2>3 DEF At
  <2> QED
    BY <1>1, <2>4, <2>5, ScreensStay
<1> QED
  BY <1>3, <1>6, <1>7, <1>8, <1>9

LEMMA LookKeepsScreen ==
  ASSUME FramesInv, NEW t \in Threads, SameScreen(t), LookAtWorld(t)
  PROVE  SameScreen(t)'
<1>1. /\ ~Idle(t) /\ Top(t).at = "look"
      /\ UNCHANGED <<world, inTransitState, prevGeoZoneId, applyLowFpsToNextLoadingScreen, regime>>
  BY DEF LookAtWorld, At, statics
<1>2. Top(t) \in Frames /\ Top(t).screen = "none"
  BY <1>1, TopFacts DEF FrameOK
<1>3. CASE world = NoWorld /\ Return(t)
  BY <1>1, <1>3, ReturnKeepsScreen
<1>4. CASE ToCharSelect /\ Decide(t, "limit", "low")
  <2> DEFINE f == [Top(t) EXCEPT !.at = "limit", !.screen = "low"]
  <2>1. f.at = "limit" /\ f.screen = "low" /\ Continue(t, <<f>>)
    BY <1>2, <1>4 DEF Decide, Frames
  <2> HIDE DEF f
  <2>2. Verdict(f.screen)
    BY <1>4, <2>1 DEF Verdict
  <2>3. ~Idle(t)' /\ Top(t)' = f /\ Below(t)' = Below(t)
    BY <1>1, <2>1, ReplacedBelow
  <2>4. At(t, "look")
    BY <1>1 DEF At
  <2> QED
    BY <1>1, <2>1, <2>2, <2>3, <2>4, ScreensDecided
<1>5. ASSUME NEW where \in {"kind", "record", "zone"}, Goto(t, where),
             where = "kind" => NewScreen,
             where = "zone" => inTransitState = world.isTransit
      PROVE  SameScreen(t)'
  <2> DEFINE f == [Top(t) EXCEPT !.at = where]
  <2>1. f.at = where /\ f.screen = "none" /\ Continue(t, <<f>>)
    BY <1>2, <1>5 DEF Goto, Frames
  <2> HIDE DEF f
  <2>2. f.at \notin Played /\ f.at # "flag"
    BY <2>1 DEF Played
  <2>3. NewScreen' <=> NewScreen
    BY <1>1 DEF NewScreen, ToCharSelect, TransitEdge, TransitChanged, ZoneChanged
  <2> QED
    BY <1>1, <1>5, <2>1, <2>2, <2>3, MoveKeepsScreen
<1> QED
  BY <1>3, <1>4, <1>5 DEF LookAtWorld, NewScreen, TransitEdge, TransitChanged

LEMMA StepKeepsScreen ==
  ASSUME FramesInv, NEW t \in Threads, SameScreen(t), Step(t)
  PROVE  SameScreen(t)'
<1>1. ~Idle(t) => Top(t) \in Frames /\ FrameOK(Duties(t), Top(t))
  BY TopFacts
<1>2. ASSUME ~Idle(t), NEW f, Continue(t, <<f>>),
             UNCHANGED <<world, inTransitState, prevGeoZoneId, applyLowFpsToNextLoadingScreen, regime>>,
             f.screen = Top(t).screen,
             f.at \in Played => Top(t).at \in Played \/ f.screen = "none",
             Top(t).at \notin {"record", "zone"},
             f.at # "kind", f.at # "zone",
             f.at = "flag" => Top(t).at = "kind"
      PROVE  SameScreen(t)'
  <2>1. NewScreen' <=> NewScreen
    BY <1>2 DEF NewScreen, ToCharSelect, TransitEdge, TransitChanged, ZoneChanged
  <2>2. f.at = "flag" => NewScreen
    BY <1>2 DEF SameScreen, At
  <2> QED
    BY <1>2, <2>1, <2>2, MoveKeepsScreen
<1>3. CASE ClientCalls(t)
  <2>1. PICK f : /\ f.at \in {"look", "addr", "focus"} /\ f.screen = "none"
                 /\ Idle(t) /\ UNCHANGED vars /\ stack' = [stack EXCEPT ![t] = <<f>>]
    BY <1>3, HookEnters
  <2>2. ~Idle(t)' /\ Top(t)' = f /\ Below(t)' = {}
    BY <2>1, EnteredBelow
  <2>3. Hooks(t)' = {f}
    BY <2>2 DEF Hooks
  <2>4. Screened(t)' = {}
    BY <2>1, <2>3 DEF Screened
  <2>5. ~At(t, "kind")' /\ ~At(t, "flag")' /\ ~At(t, "zone")'
    BY <2>1, <2>2 DEF At
  <2> QED
    BY <2>1, <2>3, <2>4, <2>5 DEF SameScreen
<1>4. CASE CallClient(t)
  BY <1>4, CallKeepsScreen
<1>5. CASE LookAtWorld(t)
  BY <1>5, LookKeepsScreen
<1>6. CASE ChooseFunction(t)
  <2>1. ~Idle(t) /\ Top(t).at = "kind" /\ NewScreen /\ UNCHANGED vars
    BY <1>6 DEF ChooseFunction, At, SameScreen
  <2>2. Goto(t, "flag")
    BY <1>6, <2>1, Verdicts DEF ChooseFunction
  <2>3. [Top(t) EXCEPT !.at = "flag"].at = "flag" /\ [Top(t) EXCEPT !.at = "flag"].screen = Top(t).screen
    BY <1>1, <2>1 DEF Frames
  <2> QED
    BY <1>2, <2>1, <2>2, <2>3 DEF Goto, Played, vars, plugin
<1>7. CASE ChooseScreen(t)
  <2> DEFINE k == IF Live /\ applyLowFpsToNextLoadingScreen THEN "charselect" ELSE "loading"
             f == [Top(t) EXCEPT !.at = "limit", !.screen = k]
  <2>1. ~Idle(t) /\ At(t, "flag") /\ NewScreen /\ UNCHANGED vars
    BY <1>7 DEF ChooseScreen, At, SameScreen
  <2>2. Verdict(k)
    BY <2>1 DEF Verdict
  <2> HIDE DEF k
  <2>3. f.at = "limit" /\ f.screen = k
    BY <1>1, <2>1 DEF Frames
  <2>4. Continue(t, <<f>>)
    BY <1>7 DEF ChooseScreen, Decide, k
  <2> HIDE DEF f
  <2>5. ~Idle(t)' /\ Top(t)' = f /\ Below(t)' = Below(t)
    BY <2>1, <2>4, ReplacedBelow
  <2> QED
    BY <2>1, <2>2, <2>3, <2>5, ScreensDecided DEF vars, plugin
<1>8. CASE ChooseLimit(t)
  <2> DEFINE f == [Top(t) EXCEPT !.at = "fg", !.arg = LimitOf(Top(t).screen)]
  <2>1. ~Idle(t) /\ Top(t).at = "limit" /\ UNCHANGED vars /\ Continue(t, <<f>>)
    BY <1>8 DEF ChooseLimit, At
  <2>2. f.at = "fg" /\ f.screen = Top(t).screen
    BY <1>1, <2>1 DEF Frames
  <2> HIDE DEF f
  <2> QED
    BY <1>2, <2>1, <2>2 DEF Played, vars, plugin
<1>9. CASE StoreForeground(t)
  <2>1. PICK where \in {"applied", "bg"} : Goto(t, where)
    BY <1>9 DEF StoreForeground
  <2>2. [Top(t) EXCEPT !.at = where].at = where /\ [Top(t) EXCEPT !.at = where].screen = Top(t).screen
    BY <1>1, <1>9 DEF Frames, StoreForeground, At
  <2> QED
    BY <1>2, <1>9, <2>1, <2>2 DEF Goto, Played, StoreForeground, At, statics
<1>10. CASE StoreBackground(t)
  <2> DEFINE f == [Top(t) EXCEPT !.at = "away"]
  <2>1. ~Idle(t) /\ At(t, "bg") /\ regime'.by = Top(t).screen /\ Continue(t, <<f>>)
        /\ UNCHANGED <<world, inTransitState, prevGeoZoneId, applyLowFpsToNextLoadingScreen>>
    BY <1>10 DEF StoreBackground, At, Goto, statics
  <2>2. f.at = "away" /\ f.screen = Top(t).screen
    BY <1>1, <2>1 DEF Frames
  <2>3. Top(t).screen # "none"
    BY <1>1, <2>1 DEF At, FrameOK, Screens
  <2> HIDE DEF f
  <2>4. ~Idle(t)' /\ Top(t)' = f /\ Below(t)' = Below(t)
    BY <2>1, ReplacedBelow
  <2> QED
    BY <2>1, <2>2, <2>3, <2>4, ScreensStored
<1>11. CASE PlayFocus(t)
  <2>1. ~Idle(t) /\ Top(t).at \in Played /\ UNCHANGED vars
        /\ \E focus, next : Call(t, focus, next)
    BY <1>11 DEF PlayFocus, At, Played
  <2>2. PICK focus, next : Call(t, focus, next)
    BY <2>1
  <2> DEFINE f == [Top(t) EXCEPT !.at = "call", !.arg = focus, !.next = next]
  <2>3. f.at = "call" /\ f.screen = Top(t).screen /\ Continue(t, <<f>>)
    BY <1>1, <2>1, <2>2 DEF Frames, Call
  <2> HIDE DEF f
  <2> QED
    BY <1>2, <2>1, <2>3 DEF Played, vars, plugin
<1>12. ASSUME NEW where \in {"record", "zone"}, ~Idle(t), Goto(t, where), UNCHANGED regime,
              where = "zone" => (inTransitState = world.isTransit)'
       PROVE  SameScreen(t)'
  <2> DEFINE f == [Top(t) EXCEPT !.at = where]
  <2>1. f.at = where /\ f.screen = Top(t).screen /\ Continue(t, <<f>>)
    BY <1>1, <1>12 DEF Frames, Goto
  <2> HIDE DEF f
  <2>2. f.at \notin Played /\ f.at \notin {"kind", "flag"}
    BY <2>1 DEF Played
  <2> QED
    BY <1>12, <2>1, <2>2, MoveKeepsScreen
<1>13. CASE SetFlag(t) \/ RecordTransit(t)
  BY <1>12, <1>13 DEF SetFlag, RecordTransit, At
<1>14. CASE RecordZone(t)
  <2>1. ~Idle(t) /\ Return(t) /\ UNCHANGED regime /\ At(t, "zone")
    BY <1>14 DEF RecordZone, At
  <2>2. Recorded'
    BY <1>14, <2>1 DEF RecordZone, Recorded, SameScreen
  <2> QED
    BY <2>1, <2>2, ReturnKeepsScreen
<1>15. CASE StoreAddress(t)
  <2>1. /\ ~Idle(t) /\ Top(t).at \in {"addr", "focus"}
        /\ UNCHANGED <<world, inTransitState, prevGeoZoneId, applyLowFpsToNextLoadingScreen, regime>>
    BY <1>15 DEF StoreAddress, At
  <2>2. Top(t) \in Frames /\ Top(t).screen = "none"
    BY <1>1, <2>1 DEF FrameOK
  <2>3. PICK f : Continue(t, <<f>>) /\ f.screen = "none" /\ f.at \in {"override", "call"}
    <3>1. CASE Goto(t, "override")
      BY <2>2, <3>1 DEF Goto, Frames
    <3>2. CASE Call(t, Top(t).arg, "return")
      <4> DEFINE f == [Top(t) EXCEPT !.at = "call", !.arg = Top(t).arg, !.next = "return"]
      <4>1. f.at = "call" /\ f.screen = "none" /\ Continue(t, <<f>>)
        BY <2>2, <3>2 DEF Call, Frames
      <4> HIDE DEF f
      <4> QED
        BY <4>1
    <3> QED
      BY <1>15, <3>1, <3>2 DEF StoreAddress
  <2> QED
    BY <1>2, <2>1, <2>2, <2>3
<1>16. CASE Override(t)
  <2>1. ~Idle(t) /\ Top(t).at \in {"override", "use"} /\ UNCHANGED vars
    BY <1>16 DEF Override, At
  <2>2. Top(t) \in Frames /\ Top(t).screen = "none"
    BY <1>1, <2>1 DEF FrameOK
  <2>3. PICK f : Continue(t, <<f>>) /\ f.screen = "none" /\ f.at \in {"use", "save"}
    <3>1. ASSUME NEW where \in {"use", "save"}, Goto(t, where)
          PROVE  \E f : Continue(t, <<f>>) /\ f.screen = "none" /\ f.at \in {"use", "save"}
      BY <2>2, <3>1 DEF Goto, Frames
    <3>2. CASE Continue(t, <<[Top(t) EXCEPT !.at = "save", !.arg = cfg.ForegroundLimit]>>)
      <4> DEFINE f == [Top(t) EXCEPT !.at = "save", !.arg = cfg.ForegroundLimit]
      <4>1. f.at = "save" /\ f.screen = "none" /\ Continue(t, <<f>>)
        BY <2>2, <3>2 DEF Frames
      <4> HIDE DEF f
      <4> QED
        BY <4>1
    <3> QED
      BY <1>16, <3>1, <3>2 DEF Override
  <2> QED
    BY <1>2, <2>1, <2>2, <2>3 DEF vars, plugin
<1>17. CASE Save(t)
  <2>1. /\ ~Idle(t) /\ Top(t).at = "save" /\ Return(t) /\ regime'.by # "loading"
        /\ UNCHANGED <<world, inTransitState, prevGeoZoneId, applyLowFpsToNextLoadingScreen>>
    BY <1>17 DEF Save, At, SaveForeground, statics
  <2> QED
    BY <2>1, ReturnKeepsScreen
<1> QED
  BY <1>3, <1>4, <1>5, <1>6, <1>7, <1>8, <1>9, <1>10, <1>11, <1>13, <1>14, <1>15,
     <1>16, <1>17 DEF Step

\* A step of another thread than the one that asks for the World leaves alone what
\* that one decides from, and writes no screen's limits.
LEMMA OthersLeaveWorld ==
  ASSUME FramesInv, OneWorld(schedule), NEW t \in Threads, "GetWorld" \in Duties(t),
         NEW u \in Threads, u # t, Step(u) \/ Environment(u)
  PROVE  /\ UNCHANGED <<world, inTransitState, prevGeoZoneId, applyLowFpsToNextLoadingScreen>>
         /\ UNCHANGED regime \/ regime'.by = "game"
<1>1. "GetWorld" \notin Duties(u) /\ "WorldChanges" \notin Duties(u)
  BY DEF OneWorld, Duties
<1>2. ~Idle(u) => Top(u).at \notin WorldSteps \union {"look"}
  BY <1>1, TopFacts DEF FrameOK
<1>3. CASE ClientCalls(u) \/ CallClient(u) \/ StoreAddress(u) \/ Override(u) \/ Save(u)
  BY <1>3 DEF ClientCalls, Enters, CallClient, StoreAddress, Override, Save, SaveForeground,
              vars, plugin, statics
<1>4. CASE Environment(u)
  BY <1>1, <1>4 DEF Environment, ConfigReloaded, SaveBackground, plugin
<1> QED
  BY <1>2, <1>3, <1>4 DEF Step, LookAtWorld, ChooseFunction, ChooseScreen, ChooseLimit,
     StoreForeground, StoreBackground, PlayFocus, SetFlag, RecordTransit, RecordZone, At, WorldSteps

LEMMA SameScreenStep ==
  FramesInv /\ OneWorld(schedule) /\ ScreenInv /\ [ThreadsNext]_hookVars => ScreenInv'
<1> SUFFICES ASSUME FramesInv, OneWorld(schedule), ScreenInv, [ThreadsNext]_hookVars
             PROVE  ScreenInv'
  OBVIOUS
<1>0. \A t \in Threads : Duties(t)' = Duties(t)
  BY SameSchedule DEF Duties
<1> SUFFICES ASSUME NEW t \in Threads, "GetWorld" \in Duties(t) PROVE SameScreen(t)'
  BY <1>0 DEF ScreenInv
<1>1. SameScreen(t)
  BY DEF ScreenInv
<1>2. ASSUME stack'[t] = stack[t],
             UNCHANGED <<world, inTransitState, prevGeoZoneId, applyLowFpsToNextLoadingScreen>>,
             UNCHANGED regime \/ regime'.by = "game"
      PROVE  SameScreen(t)'
  <2>1. Hooks(t)' = Hooks(t)
    BY <1>2 DEF Hooks, Idle, Top, Below
  <2>2. \A where : At(t, where)' <=> At(t, where)
    BY <1>2 DEF At, Idle, Top
  <2>3. Screened(t)' = Screened(t)
    BY <2>1 DEF Screened
  <2>4. (Recorded' <=> Recorded) /\ (NewScreen' <=> NewScreen) /\ \A k : Verdict(k)' <=> Verdict(k)
    BY <1>2 DEF Recorded, Verdict, NewScreen, ToCharSelect, TransitEdge, TransitChanged, ZoneChanged
  <2> QED
    BY <1>1, <1>2, <2>1, <2>2, <2>3, <2>4 DEF SameScreen
<1>3. ASSUME NEW u \in Threads, u # t, Step(u) \/ Environment(u) PROVE SameScreen(t)'
  BY <1>2, <1>3, StepAlone, OthersLeaveWorld
<1>4. CASE Step(t)
  BY <1>1, <1>4, StepKeepsScreen
<1>5. CASE Environment(t)
  <2>1. Idle(t) /\ Idle(t)'
    BY <1>5 DEF Environment, Idle
  <2>2. Hooks(t)' = {} /\ \A where : ~At(t, where)'
    BY <2>1 DEF Hooks, At
  <2>3. Screened(t)' = {}
    BY <2>2 DEF Screened
  <2> QED
    BY <2>2, <2>3 DEF SameScreen
<1>6. CASE UNCHANGED hookVars
  BY <1>2, <1>6 DEF hookVars, vars, plugin
<1> QED
  BY <1>3, <1>4, <1>5, <1>6 DEF ThreadsNext

LEMMA SameScreenInit == ThreadsInit => ScreenInv
<1> SUFFICES ASSUME ThreadsInit, NEW t \in Threads PROVE SameScreen(t)
  BY DEF ScreenInv
<1>1. Idle(t)
  BY DEF ThreadsInit, Idle
<1>2. Hooks(t) = {} /\ \A where : ~At(t, where)
  BY <1>1 DEF Hooks, At
<1>3. Screened(t) = {}
  BY <1>2 DEF Screened
<1> QED
  BY <1>2, <1>3 DEF SameScreen

-----------------------------------------------------------------------------
(* The focus the client is left with. *)

\* Focus events come on one thread.
OneFocus(s) ==
  \A t, u \in Threads : "FocusUnfocus" \in s.duties[t] /\ "FocusUnfocus" \in s.duties[u] => t = u

\* The hooks of t are going to play the focus of the last event to the client, unless
\* there is another event before the call: the event itself is on its way, or the
\* focus is played away and back, or only back.
WillRestore(t) ==
  /\ ~Idle(t)
  /\ \/ Top(t).at = "call" /\ Top(t).next \in {"return", "back"}
     \/ Top(t).at = "away"
     \/ CalledBack(Top(t))
     \/ \E f \in Hooks(t) : f.at = "back"

LostWillRestore == ~FocusRestored => race.restore \/ \E t \in Threads : WillRestore(t)

\* The focus of an event on its way is the one stored.
EventsReach ==
  \A t \in Threads : At(t, "call") /\ Top(t).next = "return" => Top(t).arg = focusState

LostInv == LostWillRestore /\ EventsReach

\* A step of t that leaves focus and screen alone keeps what there is to restore,
\* when its own hooks do.
LEMMA RestorersStay ==
  ASSUME LostInv, UNCHANGED focusState, NEW t \in Threads,
         \A u \in Threads \ {t} : stack'[u] = stack[u],
         FocusRestored => FocusRestored', race.restore => race'.restore,
         WillRestore(t) => WillRestore(t)',
         ~(At(t, "call") /\ Top(t).next = "return")'
  PROVE  LostInv'
<1>1. ASSUME NEW u \in Threads, u # t
      PROVE  /\ Idle(u)' <=> Idle(u)
             /\ Top(u)' = Top(u) /\ Hooks(u)' = Hooks(u)
  BY <1>1 DEF Idle, Top, Hooks, Below
<1>2. ASSUME NEW u \in Threads, WillRestore(u) PROVE WillRestore(u)'
  BY <1>1, <1>2 DEF WillRestore
<1>3. LostWillRestore'
  BY <1>2 DEF LostInv, LostWillRestore
<1>4. EventsReach'
  BY <1>1 DEF LostInv, EventsReach, At
<1> QED
  BY <1>3, <1>4 DEF LostInv

\* The innermost hook of t goes on; its focus is played, or no screen's limits stored.
LEMMA MoveKeepsLost ==
  ASSUME FramesInv, LostInv, UNCHANGED focusState, engine'.focused = engine.focused,
         race.restore => race'.restore,
         NEW t \in Threads, ~Idle(t), NEW f, Continue(t, <<f>>),
         f.at = "call" => f.next # "return",
         \/ f.at = "away"
         \/ /\ regime'.by = "loading" => regime.by = "loading"
            /\ \/ f.at = "call" /\ f.next = "back"
               \/ CalledBack(f)
               \/ Top(t).at \notin {"away", "back", "call"}
  PROVE  LostInv'
<1>1. /\ ~Idle(t)' /\ Top(t)' = f /\ Below(t)' = Below(t)
      /\ \A u \in Threads \ {t} : stack'[u] = stack[u]
  BY ReplacedBelow
<1>2. Hooks(t) = {Top(t)} \union Below(t) /\ Hooks(t)' = {f} \union Below(t)
  BY <1>1 DEF Hooks
<1>3. CASE f.at = "away"
  <2>1. WillRestore(t)'
    BY <1>1, <1>3 DEF WillRestore
  <2>2. ~(At(t, "call") /\ Top(t).next = "return")'
    BY <1>1 DEF At
  <2>3. EventsReach'
    BY <1>1, <2>2 DEF LostInv, EventsReach, At, Idle, Top
  <2> QED
    BY <2>1, <2>3 DEF LostInv, LostWillRestore
<1>4. CASE /\ regime'.by = "loading" => regime.by = "loading"
           /\ \/ f.at = "call" /\ f.next = "back"
              \/ CalledBack(f)
              \/ Top(t).at \notin {"away", "back", "call"}
  <2>1. WillRestore(t) => WillRestore(t)'
    BY <1>1, <1>2, <1>4 DEF WillRestore, CalledBack
  <2>2. FocusRestored => FocusRestored'
    BY <1>4 DEF FocusRestored
  <2>3. ~(At(t, "call") /\ Top(t).next = "return")'
    BY <1>1 DEF At
  <2> QED
    BY <1>1, <2>1, <2>2, <2>3, RestorersStay
<1> QED
  BY <1>3, <1>4

\* A hook of t is over.
LEMMA ReturnKeepsLost ==
  ASSUME FramesInv, LostInv, UNCHANGED focusState, engine'.focused = engine.focused,
         race.restore => race'.restore,
         NEW t \in Threads, ~Idle(t), Return(t), Top(t).at \in {"look", "zone", "save"},
         regime'.by = "loading" => regime.by = "loading"
  PROVE  LostInv'
<1>1. /\ ~Idle(t)' => Below(t) = {Top(t)'} \union Below(t)'
      /\ Idle(t)' => Below(t) = {} /\ Below(t)' = {}
      /\ \A u \in Threads \ {t} : stack'[u] = stack[u]
  BY PoppedBelow
<1>2. Hooks(t) = {Top(t)} \union Below(t) /\ Hooks(t)' = Below(t)
  BY <1>1 DEF Hooks
<1>3. ~Idle(t)' => Top(t)'.at \in {"back", "unfocus", "applied"}
  BY ReturnsBelow
<1>4. WillRestore(t) => WillRestore(t)'
  BY <1>1, <1>2 DEF WillRestore, CalledBack
<1>5. FocusRestored => FocusRestored'
  BY DEF FocusRestored
<1>6. ~(At(t, "call") /\ Top(t).next = "return")'
  BY <1>3 DEF At
<1> QED
  BY <1>1, <1>4, <1>5, <1>6, RestorersStay

\* FocusUnfocus of the client is called: with the last event's focus, to play it
\* away, to play it back, or to leave the client unfocused.
LEMMA CallKeepsLost ==
  ASSUME FramesInv, ScreenInv, LostInv, NEW t \in Threads, CallClient(t), Observe(t)
  PROVE  LostInv'
<1> DEFINE f == [Top(t) EXCEPT !.at = Top(t).next]
<1>1. /\ ~Idle(t) /\ Top(t).at = "call" /\ UNCHANGED <<focusState, regime>>
      /\ engine' = FocusUnfocus(engine, Top(t).arg)
  BY DEF CallClient, At, statics
<1>2. /\ Top(t) \in Frames /\ FrameOK(Duties(t), Top(t)) /\ Top(t).arg \in Focus
      /\ stack \in [Threads -> Seq(Frames)] /\ engine \in Engines(Int) /\ focusState \in Focus
  BY <1>1, TopFacts DEF FramesInv, ThreadsTypeOK, FrameOK
<1>3. engine'.focused = Top(t).arg
  BY <1>1, <1>2, FocusUnfocusFacts
<1>4. \/ Return(t) /\ Top(t).next = "return"
      \/ Continue(t, <<Look>>) /\ Top(t).next = "return"
      \/ Continue(t, <<f>>) /\ Top(t).next # "return"
      \/ Continue(t, <<Look>> \o <<f>>) /\ Top(t).next # "return"
  BY <1>1, <1>2, NothingOnTop, LookAlone DEF CallClient
<1>5. f.at = Top(t).next /\ (Top(t).next # "return" => f.at \in {"back", "unfocus", "applied"})
  BY <1>2 DEF Frames, Nexts
<1> HIDE DEF f
<1>6. \A u \in Threads \ {t} : stack'[u] = stack[u]
  BY <1>1, StepAlone DEF Step
<1>7. ~(At(t, "call") /\ Top(t).next = "return")'
  <2>1. CASE Return(t)
    <3>1. ~Idle(t)' => Top(t)'.at \in {"back", "unfocus", "applied"}
      BY <1>1, <2>1, ReturnsBelow
    <3> QED
      BY <3>1 DEF At
  <2>2. CASE Continue(t, <<Look>>) \/ Continue(t, <<Look>> \o <<f>>)
    <3>1. Top(t)' = Look
      BY <1>1, <2>2, ReplacedBelow, PushedBelow
    <3> QED
      BY <3>1 DEF At, Look, Frame
  <2>3. CASE Continue(t, <<f>>) /\ Top(t).next # "return"
    <3>1. Top(t)' = f
      BY <1>1, <2>3, ReplacedBelow
    <3> QED
      BY <1>5, <2>3, <3>1 DEF At
  <2> QED
    BY <1>4, <2>1, <2>2, <2>3
<1>8. EventsReach'
  BY <1>1, <1>6, <1>7 DEF LostInv, EventsReach, At, Idle, Top
<1>9. Top(t).next \in {"return", "back"} \/ CalledBack(Top(t))
      \/ (Top(t).next = "applied" /\ Top(t).screen # "loading")
  BY <1>1, <1>2 DEF FrameOK, Frames, Nexts, CalledBack
<1>10. CASE Top(t).next = "return"
  <2>1. engine'.focused = focusState'
    BY <1>1, <1>3, <1>10 DEF LostInv, EventsReach, At
  <2> QED
    BY <1>8, <2>1 DEF LostInv, LostWillRestore, FocusRestored
<1>11. CASE Top(t).next = "back"
  <2>1. f \in Hooks(t)' /\ ~Idle(t)'
    BY <1>1, <1>4, <1>11, ReplacedBelow, PushedBelow DEF Hooks
  <2>2. WillRestore(t)'
    BY <1>5, <1>11, <2>1 DEF WillRestore
  <2> QED
    BY <1>8, <2>2 DEF LostInv, LostWillRestore
<1>12. CASE CalledBack(Top(t))
  <2>1. race'.restore = (Top(t).arg # focusState)
    BY <1>1, <1>2, <1>12 DEF Observe, At, AfterBack, CalledBack, Back, FramesInv, ThreadsTypeOK
  <2>2. Top(t).arg = focusState => FocusRestored'
    BY <1>1, <1>3 DEF FocusRestored
  <2> QED
    BY <1>8, <2>1, <2>2 DEF LostInv, LostWillRestore
<1>13. CASE Top(t).next = "applied" /\ Top(t).screen # "loading"
  <2>1. Top(t).arg = 0 /\ Top(t).screen \in Screens /\ "GetWorld" \in Duties(t)
    BY <1>1, <1>2, <1>13 DEF FrameOK
  <2>2. Top(t) \in Hooks(t) /\ Top(t).at \in Played
    BY <1>1 DEF Hooks, Played
  <2>3. regime.by # "loading"
    BY <1>13, <2>1, <2>2 DEF ScreenInv, SameScreen, Screens
  <2>4. FocusRestored'
    BY <1>1, <1>3, <2>1, <2>3 DEF FocusRestored
  <2> QED
    BY <1>8, <2>4 DEF LostInv, LostWillRestore
<1> QED
  BY <1>9, <1>10, <1>11, <1>12, <1>13

LEMMA StepKeepsLost ==
  ASSUME FramesInv, OneFocus(schedule), ScreenInv, LostInv, NEW t \in Threads, Step(t), Observe(t)
  PROVE  LostInv'
<1>1. ~At(t, "call") => race'.restore = race.restore
  BY DEF Observe, FramesInv, ThreadsTypeOK
<1>2. ~Idle(t) => Top(t) \in Frames /\ FrameOK(Duties(t), Top(t))
  BY TopFacts
<1>3. ASSUME ~Idle(t), UNCHANGED focusState, engine'.focused = engine.focused,
             regime'.by = "loading" => regime.by = "loading", NEW f, Continue(t, <<f>>),
             \/ /\ Top(t).at \in {"look", "kind", "flag", "limit", "fg", "applied", "record",
                                  "unfocus", "addr", "override", "use"}
                /\ f.at = "call" => f.next # "return"
             \/ Top(t).at = "away" /\ f.at = "call" /\ f.next = "back"
             \/ Top(t).at = "back" /\ f.at = "call" /\ CalledBack(f) /\ f.next # "return"
      PROVE  LostInv'
  <2>1. race'.restore = race.restore
    BY <1>1, <1>3 DEF At
  <2> QED
    BY <1>3, <2>1, MoveKeepsLost
<1>4. ASSUME ~Idle(t), UNCHANGED focusState, engine'.focused = engine.focused,
             regime'.by = "loading" => regime.by = "loading", NEW where, Goto(t, where),
             where # "call",
             Top(t).at \in {"look", "kind", "flag", "limit", "fg", "applied", "record",
                            "unfocus", "addr", "override", "use"}
      PROVE  LostInv'
  BY <1>2, <1>3, <1>4 DEF Goto, Frames
<1>5. ASSUME ~Idle(t), UNCHANGED <<focusState, engine, regime>>, NEW screen,
             Decide(t, "limit", screen), Top(t).at \in {"look", "kind", "flag"}
      PROVE  LostInv'
  <2> DEFINE f == [Top(t) EXCEPT !.at = "limit", !.screen = screen]
  <2>1. f.at = "limit" /\ Continue(t, <<f>>)
    BY <1>2, <1>5 DEF Decide, Frames
  <2> HIDE DEF f
  <2> QED
    BY <1>3, <1>5, <2>1
<1>6. CASE ClientCalls(t)
  <2>1. PICK f : /\ f.at \in {"look", "addr", "focus"} /\ f.screen = "none"
                 /\ Idle(t) /\ UNCHANGED vars /\ stack' = [stack EXCEPT ![t] = <<f>>]
    BY <1>6, HookEnters
  <2>2. ~Idle(t)' /\ Top(t)' = f /\ \A u \in Threads \ {t} : stack'[u] = stack[u]
    BY <2>1, EnteredBelow
  <2>3. ~(At(t, "call") /\ Top(t).next = "return")' /\ ~WillRestore(t)
    BY <2>1, <2>2 DEF At, WillRestore
  <2>4. FocusRestored' <=> FocusRestored
    BY <2>1 DEF FocusRestored, vars, plugin
  <2>5. race'.restore = race.restore
    BY <1>1, <2>1 DEF At
  <2> QED
    BY <2>1, <2>2, <2>3, <2>4, <2>5, RestorersStay DEF vars, plugin
<1>7. CASE CallClient(t)
  BY <1>7, CallKeepsLost
<1>8. ASSUME ~Idle(t), UNCHANGED focusState, engine'.focused = engine.focused,
             Return(t), Top(t).at \in {"look", "zone", "save"},
             regime'.by = "loading" => regime.by = "loading"
      PROVE  LostInv'
  BY <1>1, <1>8, ReturnKeepsLost DEF At
<1>9. CASE LookAtWorld(t)
  BY <1>4, <1>5, <1>8, <1>9 DEF LookAtWorld, At, statics
<1>10. CASE ChooseFunction(t) \/ ChooseScreen(t)
  BY <1>4, <1>5, <1>10 DEF ChooseFunction, ChooseScreen, At, vars, plugin
<1>11. CASE ChooseLimit(t)
  <2> DEFINE f == [Top(t) EXCEPT !.at = "fg", !.arg = LimitOf(Top(t).screen)]
  <2>1. ~Idle(t) /\ Top(t).at = "limit" /\ UNCHANGED vars /\ Continue(t, <<f>>)
    BY <1>11 DEF ChooseLimit, At
  <2>2. f.at = "fg"
    BY <1>2, <2>1 DEF Frames
  <2> HIDE DEF f
  <2> QED
    BY <1>3, <2>1, <2>2 DEF vars, plugin
<1>12. CASE StoreForeground(t)
  <2>1. engine'.focused = engine.focused
    BY <1>12 DEF StoreForeground, FramesInv, ThreadsTypeOK, Engines
  <2> QED
    BY <1>4, <1>12, <2>1 DEF StoreForeground, At, statics
<1>13. CASE StoreBackground(t)
  <2> DEFINE f == [Top(t) EXCEPT !.at = "away"]
  <2>1. ~Idle(t) /\ Top(t).at = "bg" /\ UNCHANGED focusState /\ Continue(t, <<f>>)
        /\ engine'.focused = engine.focused
    BY <1>13 DEF StoreBackground, At, Goto, statics, FramesInv, ThreadsTypeOK, Engines
  <2>2. f.at = "away"
    BY <1>2, <2>1 DEF Frames
  <2>3. race'.restore = race.restore
    BY <1>1, <2>1 DEF At
  <2> HIDE DEF f
  <2> QED
    BY <2>1, <2>2, <2>3, MoveKeepsLost
<1>14. CASE PlayFocus(t)
  <2>1. ~Idle(t) /\ UNCHANGED vars
    BY <1>14 DEF PlayFocus, At
  <2>2. ASSUME NEW focus, NEW next, Call(t, focus, next),
               \/ Top(t).at = "away" /\ next = "back"
               \/ Top(t).at = "back" /\ next = AfterBack(t)
               \/ Top(t).at = "unfocus" /\ next = "applied"
        PROVE  LostInv'
    <3> DEFINE f == [Top(t) EXCEPT !.at = "call", !.arg = focus, !.next = next]
    <3>1. f.at = "call" /\ f.next = next /\ f.screen = Top(t).screen /\ Continue(t, <<f>>)
      BY <1>2, <2>1, <2>2 DEF Frames, Call
    <3> HIDE DEF f
    <3>2. Top(t).at = "back" => CalledBack(f) /\ f.next # "return"
      BY <2>2, <3>1 DEF CalledBack, AfterBack
    <3> QED
      BY <1>3, <2>1, <2>2, <3>1, <3>2 DEF vars, plugin
  <2> QED
    BY <1>14, <2>2 DEF PlayFocus, At
<1>15. CASE SetFlag(t) \/ RecordTransit(t)
  BY <1>4, <1>15 DEF SetFlag, RecordTransit, At
<1>16. CASE RecordZone(t)
  BY <1>8, <1>16 DEF RecordZone, At
<1>17. CASE StoreAddress(t)
  <2>1. CASE At(t, "addr") /\ Goto(t, "override")
    BY <1>4, <1>17, <2>1 DEF StoreAddress, At
  <2>2. CASE At(t, "focus") /\ Call(t, Top(t).arg, "return") /\ focusState' = Top(t).arg
    <3> DEFINE f == [Top(t) EXCEPT !.at = "call", !.arg = Top(t).arg, !.next = "return"]
    <3>1. ~Idle(t) /\ Top(t).at = "focus" /\ "FocusUnfocus" \in Duties(t)
      BY <1>2, <2>2 DEF At, FrameOK
    <3>2. f.at = "call" /\ f.next = "return" /\ f.arg = focusState' /\ Continue(t, <<f>>)
      BY <1>2, <2>2, <3>1 DEF Call, Frames
    <3> HIDE DEF f
    <3>3. ~Idle(t)' /\ Top(t)' = f /\ \A u \in Threads \ {t} : stack'[u] = stack[u]
      BY <3>1, <3>2, ReplacedBelow
    <3>4. ASSUME NEW u \in Threads, u # t PROVE ~(At(u, "call") /\ Top(u).next = "return")
      <4>1. At(u, "call") /\ Top(u).next = "return" => "FocusUnfocus" \in Duties(u)
        BY TopFacts DEF At, FrameOK
      <4> QED
        BY <3>1, <3>4, <4>1 DEF OneFocus, Duties
    <3>5. EventsReach'
      BY <3>2, <3>3, <3>4 DEF EventsReach, At, Idle, Top
    <3>6. WillRestore(t)'
      BY <3>2, <3>3 DEF WillRestore
    <3> QED
      BY <3>5, <3>6 DEF LostInv, LostWillRestore
  <2> QED
    BY <1>17, <2>1, <2>2 DEF StoreAddress
<1>18. CASE Override(t)
  <2>1. CASE At(t, "override") /\ Goto(t, IF cfg.ForegroundLimit > -1 THEN "use" ELSE "save")
    BY <1>4, <1>18, <2>1 DEF Override, At, vars, plugin
  <2>2. CASE At(t, "use") /\ Continue(t, <<[Top(t) EXCEPT !.at = "save", !.arg = cfg.ForegroundLimit]>>)
    <3> DEFINE f == [Top(t) EXCEPT !.at = "save", !.arg = cfg.ForegroundLimit]
    <3>1. f.at = "save" /\ Continue(t, <<f>>)
      BY <1>2, <2>2 DEF Frames, At
    <3> HIDE DEF f
    <3> QED
      BY <1>3, <1>18, <2>2, <3>1 DEF Override, At, vars, plugin
  <2> QED
    BY <1>18, <2>1, <2>2 DEF Override
<1>19. CASE Save(t)
  <2>1. engine'.focused = engine.focused
    BY <1>19 DEF Save, SaveForeground, SetForegroundFpsLimit, FramesInv, ThreadsTypeOK, Engines
  <2> QED
    BY <1>8, <1>19, <2>1 DEF Save, SaveForeground, At, statics
<1> QED
  BY <1>6, <1>7, <1>9, <1>10, <1>11, <1>12, <1>13, <1>14, <1>15, <1>16, <1>17, <1>18, <1>19 DEF Step

LEMMA LostStep ==
  FramesInv /\ OneFocus(schedule) /\ ScreenInv /\ LostInv /\ [ThreadsNext]_hookVars => LostInv'
<1> SUFFICES ASSUME FramesInv, OneFocus(schedule), ScreenInv, LostInv, [ThreadsNext]_hookVars
             PROVE  LostInv'
  OBVIOUS
<1>1. ASSUME UNCHANGED <<stack, race, focusState>>, FocusRestored => FocusRestored' PROVE LostInv'
  BY <1>1 DEF LostInv, LostWillRestore, EventsReach, WillRestore, CalledBack, Hooks, Below, At, Idle, Top
<1>2. ASSUME NEW t \in Threads, Environment(t), UNCHANGED race PROVE LostInv'
  <2>1. engine'.focused = engine.focused /\ (regime'.by = "loading" => regime.by = "loading")
    <3>1. CASE UNCHANGED <<engine, regime>>
      BY <3>1
    <3>2. ASSUME NEW l \in Limits, SaveBackground(l)
          PROVE  engine'.focused = engine.focused /\ (regime'.by = "loading" => regime.by = "loading")
      BY <3>2 DEF SaveBackground, SetBackgroundFpsLimit, FramesInv, ThreadsTypeOK, Engines
    <3> QED
      BY <1>2, <3>1, <3>2 DEF Environment, WorldChanges, ConfigReloaded
  <2>2. UNCHANGED <<stack, race, focusState>>
    BY <1>2 DEF Environment, WorldChanges, ConfigReloaded, SaveBackground, plugin
  <2> QED
    BY <1>1, <2>1, <2>2 DEF FocusRestored
<1>3. ASSUME NEW t \in Threads, Step(t), Observe(t) PROVE LostInv'
  BY <1>3, StepKeepsLost
<1>4. ASSUME UNCHANGED hookVars PROVE LostInv'
  BY <1>1, <1>4 DEF hookVars, vars, plugin, FocusRestored
<1> QED
  BY <1>2, <1>3, <1>4 DEF ThreadsNext

\* The client is left with the focus of the last event, or unfocused by a screen that
\* leaves it so, whatever the other threads do between the accesses of a hook, unless
\* a focus event comes between the second reading of focusState and the call made
\* with it (line 78): for any number of threads of which one receives focus events
\* and one asks for the World that only changes there, and any depth of hooks.
THEOREM LostFocus ==
  ThreadsSpec => [](OneFocus(schedule) /\ OneWorld(schedule) => LostFocusNeedsRace)
<1> DEFINE Given == OneFocus(schedule) /\ OneWorld(schedule)
           Inv   == FramesInv /\ (Given => ScreenInv /\ LostInv)
<1>1. ThreadsInit => Inv
  <2>1. ThreadsInit => LostInv
    BY DEF ThreadsInit, Init, LostInv, LostWillRestore, EventsReach, FocusRestored, At, Idle
  <2> QED
    BY <2>1, FramesInit, SameScreenInit
<1>2. Inv /\ [ThreadsNext]_hookVars => Inv'
  <2>1. [ThreadsNext]_hookVars => (Given' <=> Given)
    BY SameSchedule DEF OneFocus, OneWorld
  <2> QED
    BY <2>1, FramesStep, SameScreenStep, LostStep
<1>3. Inv => (Given => LostFocusNeedsRace)
  <2> SUFFICES ASSUME LostInv, Quiet, ~race.restore PROVE FocusRestored
    BY DEF LostFocusNeedsRace
  <2>1. ASSUME NEW t \in Threads PROVE ~WillRestore(t)
    <3>1. CASE stack[t] = <<>>
      BY <3>1 DEF WillRestore, Idle
    <3>2. CASE stack[t] = <<Look>>
      <4>1. Len(stack[t]) = 1 /\ Top(t) = Look
        BY <3>2 DEF Top
      <4>2. 2 .. 1 = {}
        OBVIOUS
      <4>3. Below(t) = {}
        BY <4>1, <4>2 DEF Below
      <4> QED
        BY <4>1, <4>3 DEF WillRestore, CalledBack, Hooks, Look, Frame
    <3> QED
      BY <3>1, <3>2 DEF Quiet, Fresh
  <2> QED
    BY <2>1 DEF LostInv, LostWillRestore
<1> QED
  BY <1>1, <1>2, <1>3, PTL DEF ThreadsSpec
=============================================================================
