---------------------------- MODULE PluginStartup ----------------------------
(***************************************************************************)
(* The start of the plugin: the loader calls oep_notify, LeanPlugin_Main   *)
(* runs LeanPlugin_Init under std::call_once, and the hooks are installed  *)
(* in one Detours transaction.  EarlyCalls has the threads of the client   *)
(* that already call the functions that are being patched.                 *)
(***************************************************************************)
EXTENDS DetourTransaction, FiniteSets

\* The functions InitDetours hooks, and the pattern it finds each with; the
\* second pattern of SetForegroundFpsLimit is for other versions of the client.
HookedFunctions == {"ProcessEvent", "FocusUnfocus", "SetForegroundFpsLimit", "GetWorld"}
Patterns == <<"ProcessEvent", "FocusUnfocus", "SetForegroundFpsLimit",
              "SetForegroundFpsLimit2", "GetWorld">>
FunctionOf(pattern) ==
  IF pattern = "SetForegroundFpsLimit2" THEN "SetForegroundFpsLimit" ELSE pattern

ASSUME FunctionsAssumption == Functions = HookedFunctions

VARIABLES
  matches,       \* the patterns that occur in the client's code section
  data,          \* what the plugin searches: nothing yet, or the code section
  notification,  \* oAddInstantNotification is set
  once,          \* the once_flag
  main,          \* what each thread that calls LeanPlugin_Main is doing
  step,          \* the thread running LeanPlugin_Init: its next step
  todo           \* patterns InitDetours has yet to look for

startVars == <<matches, data, notification, once, main, step, todo>>
vars == <<detourVars, startVars>>

NotificationPatterns == {"AddInstantNotification", "AddInstantNotification2"}
HookPatterns == {Patterns[i] : i \in 1 .. Len(Patterns)}
AllPatterns == NotificationPatterns \union HookPatterns

Init ==
  /\ DetourInit
  /\ matches \in SUBSET AllPatterns
  /\ data = "nothing"
  /\ notification = FALSE
  /\ once = "unset"
  /\ main = [t \in Threads |-> "outside"]
  /\ step = "none"
  /\ todo = <<>>

-----------------------------------------------------------------------------
(* LeanPlugin_Main. *)

CallMain(t) ==
  /\ main[t] = "outside"
  /\ main' = [main EXCEPT ![t] = "waiting"]
  /\ UNCHANGED <<detourVars, matches, data, notification, once, step, todo>>

\* Mutants: a plain flag that the initialisation sets at its end, and a second
\* caller that does not wait for the first.
NotDoneYet == once # "done"
Started    == once # "unset"

MayInitialize == once = "unset"

MayReturn == once = "done"

\* std::call_once: one caller runs the function, the others wait for it.
CallOnce(t) ==
  /\ main[t] = "waiting"
  /\ \/ /\ MayInitialize
        /\ once' = "running" /\ step' = "InitConfigValues"
        /\ main' = [main EXCEPT ![t] = "initializing"]
     \/ /\ MayReturn
        /\ main' = [main EXCEPT ![t] = "returned"]
        /\ UNCHANGED <<once, step>>
  /\ UNCHANGED <<detourVars, matches, data, notification, todo>>

-----------------------------------------------------------------------------
(* LeanPlugin_Init: what it calls, one after the other. *)

At(t, s) == main[t] = "initializing" /\ step = s

\* Mutant: the exception leaves the flag as it is.
StillRunning == once

OnceAfterThrow == "unset"

\* Mutant: the code section is not looked up.
SearchAtOnce == "InitMessaging"

AfterConfigValues == "ScannerSetup"

\* fps.ini may hold a value that makes std::stoi throw; the exception leaves
\* call_once, which lets another caller try.
InitConfigValues(t) ==
  /\ At(t, "InitConfigValues")
  /\ \/ step' = AfterConfigValues /\ UNCHANGED <<once, main>>
     \/ /\ once' = OnceAfterThrow /\ step' = "none"
        /\ main' = [main EXCEPT ![t] = "threw"]
  /\ UNCHANGED <<detourVars, matches, data, notification, todo>>

\* The client's image has a code section.
ScannerSetup(t) ==
  /\ At(t, "ScannerSetup")
  /\ data' = "code section"
  /\ step' = "InitMessaging"
  /\ UNCHANGED <<detourVars, matches, notification, once, main, todo>>

IsFound(p) == data = "code section" /\ p \in matches

InitMessaging(t) ==
  /\ At(t, "InitMessaging")
  /\ notification' = (\E p \in NotificationPatterns : IsFound(p))
  /\ step' = "DetourTransactionBegin"
  /\ UNCHANGED <<detourVars, matches, data, once, main, todo>>

\* DetourUpdateThread(NtCurrentThread()) is dropped by the library: it is the
\* calling thread.
InitDetours(t) ==
  /\ At(t, "DetourTransactionBegin")
  /\ DetourTransactionBegin(t)
  /\ step' = "HookFunction" /\ todo' = Patterns
  /\ UNCHANGED <<matches, data, notification, once, main>>

\* Mutant: the second pattern is tried although the first was found.
SkippedNever(pattern) == FALSE

\* The second pattern of a function is only tried when the first was not found.
Skipped(pattern) ==
  pattern = "SetForegroundFpsLimit2" /\ IsFound("SetForegroundFpsLimit")

HookFunction(t) ==
  /\ At(t, "HookFunction") /\ todo # <<>>
  /\ LET f == FunctionOf(Head(todo)) IN
       IF IsFound(Head(todo)) /\ ~Skipped(Head(todo))
       THEN /\ pointer' = [pointer EXCEPT ![f] = "target"]
            /\ DetourAttach(t, f)
       ELSE UNCHANGED detourVars
  /\ todo' = Tail(todo)
  /\ UNCHANGED <<matches, data, notification, once, main, step>>

\* Mutant: the hooks are committed before the last pattern was looked for.
AllButTheLast == Len(todo) <= 1

AllSearched == todo = <<>>

CommitHooks(t) ==
  /\ At(t, "HookFunction") /\ AllSearched
  /\ DetourTransactionCommit(t)
  /\ step' = "committing"
  /\ UNCHANGED <<matches, data, notification, once, main, todo>>

Committing(t) ==
  /\ At(t, "committing")
  /\ CommitStep(t)
  /\ UNCHANGED startVars

\* InitDetours ignores what the commit returns.
InitDone(t) ==
  /\ At(t, "committing") /\ phase = "idle"
  /\ once' = "done" /\ step' = "none"
  /\ main' = [main EXCEPT ![t] = "returned"]
  /\ UNCHANGED <<detourVars, matches, data, notification, todo>>

InitStep(t) ==
  \/ CallOnce(t) \/ InitConfigValues(t) \/ ScannerSetup(t) \/ InitMessaging(t) \/ InitDetours(t)
  \/ HookFunction(t) \/ CommitHooks(t) \/ Committing(t) \/ InitDone(t)

Next == \E t \in Threads : CallMain(t) \/ InitStep(t)

Spec == Init /\ [][Next]_vars

\* The operating system runs every thread that can run.
FairSpec == Spec /\ \A t \in Threads : WF_vars(InitStep(t))
-----------------------------------------------------------------------------
(* Properties. *)

TypeOK ==
  /\ DetourTypeOK
  /\ matches \in SUBSET AllPatterns
  /\ data \in {"nothing", "code section"}
  /\ notification \in BOOLEAN
  /\ once \in {"unset", "running", "done"}
  /\ main \in [Threads -> {"outside", "waiting", "initializing", "threw", "returned"}]
  /\ step \in {"none", "InitConfigValues", "ScannerSetup", "InitMessaging",
               "DetourTransactionBegin", "HookFunction", "committing"}
  /\ todo \in Seq(HookPatterns)

\* The initialisation has one thread at a time, and it owns the transaction.
OneInitializer ==
  /\ \A t, u \in Threads : main[t] = "initializing" /\ main[u] = "initializing" => t = u
  /\ \A t \in Threads : pendingThread = t => main[t] = "initializing"

\* LeanPlugin_Main returns to its caller only when the hooks are in or given up,
\* whichever thread ran the initialisation.
ReturnsWhenDone ==
  \A t \in Threads : main[t] = "returned" => once = "done" /\ NoTransaction

\* A function is attached once, although two patterns lead to one of them.
AttachedOnce ==
  \A i, j \in 1 .. Len(pendingOps) : pendingOps[i].fn = pendingOps[j].fn => i = j

\* What occurs in the client is found, by the first pattern or the second, and what
\* does not is left alone: each pointer is set exactly then.
FindsWhatOccurs ==
  once = "done" =>
    /\ notification <=> matches \intersect NotificationPatterns # {}
    /\ \A f \in Functions : pointer[f] # "null" <=> \E p \in matches : FunctionOf(p) = f

\* Every call of LeanPlugin_Main comes to an end, also when another caller's
\* initialisation was left by an exception.
CallersReturn ==
  \A t \in Threads : main[t] = "waiting" ~> main[t] \in {"threw", "returned"}
=============================================================================
