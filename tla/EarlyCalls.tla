----------------------------- MODULE EarlyCalls -----------------------------
(***************************************************************************)
(* The threads of the client run before the plugin is loaded: what becomes *)
(* of a call they make while LeanPlugin_Init is at work.  One such thread  *)
(* is followed with its stack.  A patched function leads to its hook, and  *)
(* the hooks call the client through the plugin's pointers, which the      *)
(* commit changes one by one.  The client's functions are taken to return, *)
(* and to call no hooked function themselves.                              *)
(***************************************************************************)
EXTENDS PluginStartup

CONSTANT StackSize   \* how many calls fit on the stack of the thread

ASSUME StackSizeAssumption == StackSize \in Nat \ {0}

VARIABLES
  stack,    \* the calls going on, the innermost first
  process   \* "running", or how it ended

callVars == <<stack, process>>
allVars == <<vars, callVars>>

\* A call of fn: at its first instruction, in its hook, in the part of
\* hkBNSClient_GetWorld that sets a limit, or in the client's own code; a hook has
\* the functions in "calls" left to call.
Frames == [fn : Functions \union {"AddInstantNotification"},
           at : {"entry", "hook", "limits", "client"},
           calls : Seq(Functions \union {"AddInstantNotification"})]

Called(f) == [fn |-> f, at |-> "entry", calls |-> <<>>]

Inner == stack[1]
InHook == stack # <<>> /\ Inner.at \in {"hook", "limits"}

CallsInit == Init /\ stack = <<>> /\ process = "running"

-----------------------------------------------------------------------------
(* The hooks: which client functions they call, in which order. *)

\* Mutant: hkSetForegroundFpsLimit calls on only when it has a limit of its own.
WaysSwallow(f) ==
  IF f \in {"ProcessEvent", "SetForegroundFpsLimit"} THEN {<<>>, <<f>>} ELSE {<<f>>}

\* ProcessEvent's hook returns at once when there is no event; the hotkey asks for
\* the World, and with one shows the notification before the event is passed on.
\* Which way a hook takes is left open: the events, settings and Worlds that decide
\* it are in FpsLimiter and ConfigReload.
Ways(f) ==
  IF f = "ProcessEvent"
  THEN {<<>>, <<f>>, <<"GetWorld", f>>, <<"GetWorld", "AddInstantNotification", f>>}
  ELSE {<<f>>}

\* What SetAndApplyFpsLimits calls, without and with the last toggle.
LimitCalls == {<<"FocusUnfocus", "FocusUnfocus">>,
               <<"FocusUnfocus", "FocusUnfocus", "FocusUnfocus">>}

\* A thread in one of these hooks, this one or another, sets focusUnfocusAddr.
AddressMayBeKnown ==
  \E f \in {"FocusUnfocus", "SetForegroundFpsLimit"} : code[f] = "patched"

\* What the plugin's pointer to a client function holds.
Held(g) ==
  IF g = "AddInstantNotification"
  THEN IF notification THEN "target" ELSE "null"
  ELSE pointer[g]

-----------------------------------------------------------------------------
(* The steps of the thread. *)

Patched(g) == g \in Functions /\ code[g] = "patched"

ClientCalls(f) ==
  /\ stack = <<>>
  /\ stack' = <<Called(f)>>
  /\ UNCHANGED process

EnterHook ==
  /\ stack # <<>> /\ Inner.at = "entry" /\ Patched(Inner.fn)
  /\ \E w \in Ways(Inner.fn) : stack' = [stack EXCEPT ![1].at = "hook", ![1].calls = w]
  /\ UNCHANGED process

EnterClient ==
  /\ stack # <<>> /\ Inner.at = "entry" /\ ~Patched(Inner.fn)
  /\ stack' = [stack EXCEPT ![1].at = "client"]
  /\ UNCHANGED process

\* The hook calls the function through the plugin's pointer: the target's first
\* instruction or the trampoline, which leads past it.
CallsThrough ==
  /\ InHook /\ Inner.calls # <<>> /\ Len(stack) < StackSize
  /\ LET g == Head(Inner.calls) IN
       /\ Held(g) # "null"
       /\ stack' = <<[Called(g) EXCEPT !.at = IF Held(g) = "target" THEN "entry" ELSE "client"]>>
                   \o [stack EXCEPT ![1].calls = Tail(@)]
  /\ UNCHANGED process

CallsNull ==
  /\ InHook /\ Inner.calls # <<>> /\ Held(Head(Inner.calls)) = "null"
  /\ process' = "null call"
  /\ UNCHANGED stack

Overflows ==
  /\ InHook /\ Inner.calls # <<>> /\ Len(stack) = StackSize
  /\ Held(Head(Inner.calls)) # "null"
  /\ process' = "stack overflow"
  /\ UNCHANGED stack

\* hkBNSClient_GetWorld has its World; a screen that starts or ends sets a limit.
SetsLimit ==
  /\ stack # <<>> /\ Inner.fn = "GetWorld" /\ Inner.at = "hook" /\ Inner.calls = <<>>
  /\ AddressMayBeKnown
  /\ \E w \in LimitCalls : stack' = [stack EXCEPT ![1].at = "limits", ![1].calls = w]
  /\ UNCHANGED process

Returns ==
  /\ stack # <<>> /\ Inner.at # "entry" /\ Inner.calls = <<>>
  /\ stack' = Tail(stack)
  /\ UNCHANGED process

\* The hotkey's reload throws: the exception leaves the hook before it has called
\* anything, and a client that does not catch it ends.
HookThrows ==
  /\ InHook /\ Inner.fn = "ProcessEvent"
  /\ Inner.calls # <<>> /\ Head(Inner.calls) = "GetWorld"
  /\ stack' = <<>>
  /\ process' \in {"running", "exception"}

CallStep ==
  /\ process = "running"
  /\ EnterHook \/ EnterClient \/ CallsThrough \/ CallsNull \/ Overflows \/ SetsLimit
       \/ Returns \/ HookThrows
  /\ UNCHANGED vars

ClientStarts ==
  /\ process = "running"
  /\ \E f \in Functions : ClientCalls(f)
  /\ UNCHANGED vars

StartupStep ==
  /\ process = "running"
  /\ Next
  /\ UNCHANGED callVars

CallsNext == StartupStep \/ ClientStarts \/ CallStep

CallsSpec == CallsInit /\ [][CallsNext]_allVars

\* The operating system runs every thread that can run.
FairCallsSpec ==
  /\ CallsSpec
  /\ \A t \in Threads : WF_allVars(process = "running" /\ InitStep(t) /\ UNCHANGED callVars)
  /\ WF_allVars(CallStep)
-----------------------------------------------------------------------------
(* Properties. *)

\* The function occurs in the client.
Occurs(g) ==
  IF g = "AddInstantNotification"
  THEN matches \intersect NotificationPatterns # {}
  ELSE \E p \in matches : FunctionOf(p) = g

\* A hook that a thread of the client gets into, at whatever point of the commit,
\* meets a null pointer only where the client does not have the function at all.
HooksHaveOriginals == process = "null call" => ~Occurs(Head(Inner.calls))

\* A hook gets back into itself through its own pointer only in the time between
\* the commit's two writes for that function: not before the commit, not during
\* that of another function and never after an abort.
NestsOnlyHalfPatched ==
  [][stack # <<>> /\ Len(stack') > Len(stack) /\ stack'[1] = Called(Inner.fn) =>
       phase = "pointer" /\ Operation.fn = Inner.fn]_allVars

\* Every call of the client reaches the client's own code, although it may have to
\* go through its hook several times while the function is half patched: unless that
\* exhausts the stack, or it is an event, which the hook may drop or lose to the
\* hotkey's exception or null call.
CallsReachOriginal ==
  \A f \in Functions :
    stack = <<Called(f)>> ~>
      \/ stack # <<>> /\ Inner.fn = f /\ Inner.at = "client"
      \/ process = "stack overflow"
      \/ f = "ProcessEvent" /\ (stack = <<>> \/ process # "running")
=============================================================================
