------------------------- MODULE PluginStartupProofs -------------------------
(***************************************************************************)
(* Proofs about the start of the plugin and the client's calls during it,  *)
(* for any number of callers, any set of patterns that occur, any layout   *)
(* of the functions on the pages, any stack, and any attach that fails.    *)
(***************************************************************************)
EXTENDS EarlyCalls, TLAPS

Initializing(t) == main[t] = "initializing"

\* The once-flag is running exactly while one caller is in LeanPlugin_Init.
OnceRuns ==
  /\ \A t, u \in Threads : Initializing(t) /\ Initializing(u) => t = u
  /\ \A t \in Threads : Initializing(t) => once = "running"
  /\ \A t \in Threads : main[t] = "returned" => once = "done"
  /\ once # "running" <=> step = "none"

\* The transaction is the initialising thread's, and open exactly from its begin
\* to the end of its commit.
OwnsTransaction ==
  /\ \A t \in Threads : pendingThread = t => Initializing(t)
  /\ step = "HookFunction" => pendingThread # NoThread /\ phase = "idle"
  /\ step = "committing" => (pendingThread # NoThread <=> phase # "idle")
  /\ step \notin {"HookFunction", "committing"} => pendingThread = NoThread /\ phase = "idle"

Control == TypeOK /\ OnceRuns /\ OwnsTransaction

LEMMA ControlInit == Init => Control
<1> SUFFICES ASSUME Init PROVE Control
  OBVIOUS
<1>1. DetourTypeOK
  BY NoThreadAssumption DEF Init, DetourInit, DetourTypeOK, transaction
<1>2. todo \in Seq(HookPatterns)
  BY DEF Init
<1>3. TypeOK
  BY <1>1, <1>2 DEF Init, TypeOK
<1>4. OnceRuns
  BY DEF Init, OnceRuns, Initializing
<1>5. OwnsTransaction
  BY NoThreadAssumption DEF Init, DetourInit, OwnsTransaction
<1> QED BY <1>3, <1>4, <1>5 DEF Control

-----------------------------------------------------------------------------
(* The library's calls keep its types. *)

LEMMA ProtectType ==
  ASSUME DetourTypeOK, NEW o, NEW protection \in {"RX", "RWX"}
  PROVE  Protect(o, protection) \in [Pages -> {"RX", "RWX"}]
  BY DEF DetourTypeOK, Protect

LEMMA BeginTypes ==
  ASSUME DetourTypeOK, NEW t \in Threads, DetourTransactionBegin(t)
  PROVE  DetourTypeOK'
<1>1. CASE UNCHANGED detourVars
  BY <1>1 DEF DetourTypeOK, detourVars, transaction
<1>2. CASE pendingThread = NoThread
  <2>1. pendingOps' \in Seq(Operations)
    BY <1>2 DEF DetourTransactionBegin
  <2>2. pendingError' \in {"NO_ERROR", "error"} /\ region' \in {"none", "RX", "RWX"}
    BY <1>2 DEF DetourTransactionBegin, RegionsOpened, DetourTypeOK
  <2> QED BY <1>2, <2>1, <2>2 DEF DetourTypeOK, DetourTransactionBegin
<1> QED BY <1>1, <1>2 DEF DetourTransactionBegin

\* A null pointer is one more way for an attach to fail.
LEMMA AttachWays ==
  ASSUME NEW t, NEW f, DetourAttach(t, f)
  PROVE  \/ AttachFails(f) \/ AttachSucceeds(f)
         \/ UNCHANGED <<pendingError, pendingOps, perm, region, trampolines>>
  BY DEF DetourAttach, NullPointer, AttachFails

LEMMA AttachTypes ==
  ASSUME DetourTypeOK, NEW t \in Threads, NEW f \in Functions, DetourAttach(t, f),
         pointer' \in [Functions -> {"null", "target", "trampoline"}]
  PROVE  DetourTypeOK'
<1>1. UNCHANGED <<pendingThread, code, phase, cursor>>
  BY DEF DetourAttach
<1>2. CASE AttachFails(f)
  BY <1>1, <1>2 DEF DetourTypeOK, AttachFails
<1>3. CASE AttachSucceeds(f)
  <2> DEFINE o == [fn |-> f, perm |-> perm[FirstPage[f]]]
  <2>1. o \in Operations
    BY FirstPageAssumption DEF DetourTypeOK, Operations
  <2>2. pendingOps' = <<o>> \o pendingOps /\ perm' = Protect(o, "RWX")
    BY <1>3 DEF AttachSucceeds, PushOperation, OldProtection
  <2>3. pendingOps' \in Seq(Operations)
    BY <2>1, <2>2 DEF DetourTypeOK
  <2>4. perm' \in [Pages -> {"RX", "RWX"}]
    BY <2>2, ProtectType
  <2>5. /\ trampolines' = trampolines \union {f} /\ region' = "RWX"
        /\ UNCHANGED pendingError
    BY <1>3 DEF AttachSucceeds
  <2> QED BY <1>1, <2>3, <2>4, <2>5 DEF DetourTypeOK
<1>4. CASE UNCHANGED <<pendingError, pendingOps, perm, region, trampolines>>
  BY <1>1, <1>4 DEF DetourTypeOK
<1> QED BY <1>2, <1>3, <1>4, AttachWays

LEMMA CommitTypes ==
  ASSUME DetourTypeOK, NEW t \in Threads, DetourTransactionCommit(t)
  PROVE  DetourTypeOK'
  BY DEF DetourTypeOK, DetourTransactionCommit, transaction

\* The operation a loop of the commit is at.
LEMMA OperationType ==
  ASSUME DetourTypeOK, MoreOperations
  PROVE  /\ cursor \in 1 .. Len(pendingOps) /\ Operation = pendingOps[cursor]
         /\ Operation \in Operations /\ Operation.fn \in Functions
         /\ Operation.perm \in {"RX", "RWX"}
<1>1. pendingOps \in Seq(Operations) /\ cursor \in Nat \ {0}
  BY DEF DetourTypeOK
<1>2. cursor \in 1 .. Len(pendingOps)
  BY <1>1 DEF MoreOperations
<1>3. Operation \in Operations
  BY <1>1, <1>2 DEF Operation
<1> QED BY <1>2, <1>3 DEF Operation, Operations

LEMMA CommitStepTypes ==
  ASSUME DetourTypeOK, NEW t \in Threads, CommitStep(t)
  PROVE  DetourTypeOK'
<1>1. CASE PatchTarget(t)
  <2>1. code' = [code EXCEPT ![Operation.fn] = "patched"] /\ phase' = "pointer"
    BY <1>1 DEF PatchTarget
  <2>2. code' \in [Functions -> {"original", "patched"}]
    BY <2>1 DEF DetourTypeOK
  <2> QED BY <1>1, <2>1, <2>2 DEF PatchTarget, DetourTypeOK, transaction
<1>2. CASE MovePointer(t)
  <2>1. pointer' \in [Functions -> {"null", "target", "trampoline"}]
    BY <1>2 DEF MovePointer, Moved, DetourTypeOK
  <2>2. cursor' \in Nat \ {0} /\ phase' = "patch"
    BY <1>2 DEF MovePointer, DetourTypeOK
  <2> QED BY <1>2, <2>1, <2>2 DEF MovePointer, DetourTypeOK, transaction
<1>3. CASE AllPatched(t)
  BY <1>3 DEF AllPatched, DetourTypeOK, transaction
<1>4. CASE RestorePermission(t)
  <2>1. perm' \in [Pages -> {"RX", "RWX"}]
    BY <1>4, OperationType, ProtectType DEF RestorePermission
  <2>2. trampolines' \in SUBSET Functions
    BY <1>4 DEF RestorePermission, RemainingTrampolines, DetourTypeOK
  <2> QED BY <1>4, <2>1, <2>2 DEF RestorePermission, DetourTypeOK, transaction
<1>5. CASE EndTransaction(t)
  BY <1>5 DEF EndTransaction, DetourTypeOK
<1> QED BY <1>1, <1>2, <1>3, <1>4, <1>5 DEF CommitStep

-----------------------------------------------------------------------------
(* Who runs what. *)

LEMMA SameDetourTypes == ASSUME DetourTypeOK, UNCHANGED detourVars PROVE DetourTypeOK'
  BY DEF DetourTypeOK, detourVars, transaction

LEMMA PatternsType ==
  /\ HookPatterns = {"ProcessEvent", "FocusUnfocus", "SetForegroundFpsLimit",
                     "SetForegroundFpsLimit2", "GetWorld"}
  /\ Patterns \in Seq(HookPatterns)
  /\ \A p \in HookPatterns : FunctionOf(p) \in Functions
<1>1. HookPatterns = {"ProcessEvent", "FocusUnfocus", "SetForegroundFpsLimit",
                     "SetForegroundFpsLimit2", "GetWorld"}
  <2>1. Len(Patterns) = 5
    BY DEF Patterns
  <2>2. 1 .. 5 = {1, 2, 3, 4, 5}
    OBVIOUS
  <2> QED BY <2>1, <2>2 DEF HookPatterns, Patterns
<1> QED BY <1>1, FunctionsAssumption DEF Patterns, FunctionOf, HookedFunctions

\* While a thread is at a step of LeanPlugin_Init, the others are not.
LEMMA OneAtAStep ==
  ASSUME Control, NEW t \in Threads, Initializing(t), NEW u \in Threads, u # t
  PROVE  ~Initializing(u) /\ pendingThread # u /\ once = "running"
  BY DEF Control, OnceRuns, OwnsTransaction

\* The thread that leaves LeanPlugin_Init leaves no transaction behind.
LEMMA LeavesInit ==
  ASSUME Control, NEW t \in Threads, Initializing(t),
         pendingThread = NoThread, phase = "idle",
         NEW outcome \in {"threw", "returned"},
         main' = [main EXCEPT ![t] = outcome],
         step' = "none", once' \in {"unset", "done"},
         outcome = "returned" => once' = "done",
         UNCHANGED <<pendingThread, phase>>
  PROVE  OnceRuns' /\ OwnsTransaction'
<1>1. main \in [Threads -> {"outside", "waiting", "initializing", "threw", "returned"}]
  BY DEF Control, TypeOK
<1>2. \A u \in Threads : ~Initializing(u)'
  BY <1>1, OneAtAStep DEF Initializing
<1>3. \A u \in Threads : main'[u] = "returned" => once' = "done"
  <2> TAKE u \in Threads
  <2>1. once = "running"
    BY DEF Control, OnceRuns
  <2>2. main[u] # "returned"
    BY <2>1 DEF Control, OnceRuns
  <2> QED BY <1>1, <2>2
<1>4. OnceRuns'
  BY <1>2, <1>3 DEF OnceRuns
<1>5. OwnsTransaction'
  BY NoThreadAssumption DEF OwnsTransaction
<1> QED BY <1>4, <1>5

\* A step inside LeanPlugin_Init that keeps the transaction's owner in order.
LEMMA GoesOn ==
  ASSUME Control, UNCHANGED <<main, once>>, step # "none", step' # "none",
         OwnsTransaction'
  PROVE  OnceRuns'
  BY DEF Control, OnceRuns, Initializing

LEMMA CallOnceControl ==
  ASSUME Control, NEW t \in Threads, CallOnce(t)
  PROVE  Control'
<1>1. DetourTypeOK'
  BY SameDetourTypes DEF Control, TypeOK, CallOnce
<1>2. main \in [Threads -> {"outside", "waiting", "initializing", "threw", "returned"}]
  BY DEF Control, TypeOK
<1>3. UNCHANGED <<pendingThread, phase, matches, data, notification, todo>>
  BY DEF CallOnce, detourVars, transaction
<1>4. CASE /\ once = "unset" /\ once' = "running" /\ step' = "InitConfigValues"
           /\ main' = [main EXCEPT ![t] = "initializing"]
  <2>1. TypeOK'
    BY <1>1, <1>2, <1>3, <1>4 DEF Control, TypeOK
  <2>2. \A u \in Threads : ~Initializing(u) /\ main[u] # "returned"
    BY <1>4 DEF Control, OnceRuns
  <2>3. \A u \in Threads : (Initializing(u)' <=> u = t) /\ main'[u] # "returned"
    BY <1>2, <1>4, <2>2 DEF Initializing
  <2>4. OnceRuns'
    BY <1>4, <2>3 DEF OnceRuns
  <2>5. pendingThread = NoThread /\ phase = "idle"
    BY <1>4 DEF Control, OnceRuns, OwnsTransaction
  <2>6. OwnsTransaction'
    BY <1>3, <1>4, <2>5, NoThreadAssumption DEF OwnsTransaction
  <2> QED BY <2>1, <2>4, <2>6 DEF Control
<1>5. CASE /\ once = "done" /\ main' = [main EXCEPT ![t] = "returned"]
           /\ UNCHANGED <<once, step>>
  <2>1. TypeOK'
    BY <1>1, <1>2, <1>3, <1>5 DEF Control, TypeOK
  <2>2. \A u \in Threads : ~Initializing(u)
    BY <1>5 DEF Control, OnceRuns
  <2>3. \A u \in Threads : ~Initializing(u)'
    BY <1>2, <1>5, <2>2 DEF Initializing
  <2>4. OnceRuns'
    BY <1>5, <2>3 DEF Control, OnceRuns
  <2>5. step = "none" /\ pendingThread = NoThread /\ phase = "idle"
    BY <1>5 DEF Control, OnceRuns, OwnsTransaction
  <2>6. OwnsTransaction'
    BY <1>3, <1>5, <2>5, NoThreadAssumption DEF OwnsTransaction
  <2> QED BY <2>1, <2>4, <2>6 DEF Control
<1> QED BY <1>4, <1>5 DEF CallOnce, MayInitialize, MayReturn

LEMMA InitStepControl ==
  ASSUME Control, NEW t \in Threads, InitStep(t)
  PROVE  Control'
<1> USE DEF At
<1>0. /\ DetourTypeOK /\ todo \in Seq(HookPatterns)
      /\ main \in [Threads -> {"outside", "waiting", "initializing", "threw", "returned"}]
  BY DEF Control, TypeOK
<1>1. CASE CallOnce(t)
  BY <1>1, CallOnceControl
<1>2. CASE InitConfigValues(t)
  <2>1. DetourTypeOK' /\ Initializing(t) /\ step = "InitConfigValues"
    BY <1>2, <1>0, SameDetourTypes DEF InitConfigValues, Initializing
  <2>2. /\ pendingThread = NoThread /\ phase = "idle"
        /\ UNCHANGED <<pendingThread, phase, matches, data, notification, todo>>
    BY <1>2, <2>1 DEF InitConfigValues, detourVars, transaction, Control, OwnsTransaction
  <2>3. CASE step' = "ScannerSetup" /\ UNCHANGED <<once, main>>
    <3>1. OwnsTransaction'
      BY <2>2, <2>3, NoThreadAssumption DEF OwnsTransaction
    <3>2. TypeOK'
      BY <2>1, <2>2, <2>3 DEF Control, TypeOK
    <3> QED BY <2>1, <2>3, <3>1, <3>2, GoesOn DEF Control
  <2>4. CASE /\ once' = "unset" /\ step' = "none"
             /\ main' = [main EXCEPT ![t] = "threw"]
    <3>1. OnceRuns' /\ OwnsTransaction'
      BY <2>1, <2>2, <2>4, LeavesInit
    <3>2. TypeOK'
      BY <1>0, <2>1, <2>2, <2>4 DEF Control, TypeOK
    <3> QED BY <3>1, <3>2 DEF Control
  <2> QED BY <1>2, <2>3, <2>4 DEF InitConfigValues, AfterConfigValues, OnceAfterThrow
<1>3. CASE ScannerSetup(t) \/ InitMessaging(t)
  <2>1. DetourTypeOK' /\ step \in {"ScannerSetup", "InitMessaging"}
    BY <1>3, <1>0, SameDetourTypes DEF ScannerSetup, InitMessaging
  <2>2. /\ pendingThread = NoThread /\ phase = "idle"
        /\ UNCHANGED <<pendingThread, phase, matches, todo, once, main>>
    BY <1>3, <2>1 DEF ScannerSetup, InitMessaging, detourVars, transaction, Control, OwnsTransaction
  <2>3. /\ step' \in {"InitMessaging", "DetourTransactionBegin"}
        /\ data' \in {"nothing", "code section"} /\ notification' \in BOOLEAN
    BY <1>3 DEF ScannerSetup, InitMessaging, Control, TypeOK
  <2>4. TypeOK'
    BY <2>1, <2>2, <2>3 DEF Control, TypeOK
  <2>5. OwnsTransaction'
    BY <2>2, <2>3, NoThreadAssumption DEF OwnsTransaction
  <2> QED BY <2>1, <2>2, <2>3, <2>4, <2>5, GoesOn DEF Control
<1>4. CASE InitDetours(t)
  <2>1. DetourTypeOK' /\ step = "DetourTransactionBegin"
    BY <1>4, <1>0, BeginTypes DEF InitDetours
  <2>2. pendingThread = NoThread /\ phase = "idle" /\ Initializing(t)
    BY <1>4, <2>1 DEF InitDetours, Control, OwnsTransaction, Initializing
  <2>3. /\ pendingThread' = t /\ phase' = "idle"
        /\ step' = "HookFunction" /\ todo' = Patterns
        /\ UNCHANGED <<matches, data, notification, once, main>>
    BY <1>4, <2>2 DEF InitDetours, DetourTransactionBegin
  <2>4. TypeOK'
    BY <2>1, <2>3, PatternsType DEF Control, TypeOK
  <2>5. OwnsTransaction'
    BY <2>2, <2>3, NoThreadAssumption DEF OwnsTransaction, Initializing
  <2> QED BY <2>1, <2>3, <2>4, <2>5, GoesOn DEF Control
<1>5. CASE HookFunction(t)
  <2>1. /\ step = "HookFunction" /\ todo # <<>> /\ todo' = Tail(todo)
        /\ UNCHANGED <<matches, data, notification, once, main, step>>
    BY <1>5 DEF HookFunction
  <2>2. Head(todo) \in HookPatterns /\ todo' \in Seq(HookPatterns)
    BY <1>0, <2>1
  <2>3. DetourTypeOK' /\ UNCHANGED <<pendingThread, phase>>
    <3>1. CASE UNCHANGED detourVars
      BY <1>0, <3>1, SameDetourTypes DEF detourVars, transaction
    <3>2. ASSUME NEW p, p = Head(todo), IsFound(p), ~Skipped(p),
                 pointer' = [pointer EXCEPT ![FunctionOf(p)] = "target"], DetourAttach(t, FunctionOf(p))
          PROVE  DetourTypeOK' /\ UNCHANGED <<pendingThread, phase>>
      <4>1. pointer' \in [Functions -> {"null", "target", "trampoline"}]
        BY <1>0, <3>2 DEF DetourTypeOK
      <4>2. FunctionOf(p) \in Functions
        BY <2>2, <3>2, PatternsType
      <4> QED BY <1>0, <3>2, <4>1, <4>2, AttachTypes DEF DetourAttach
    <3> QED BY <1>5, <3>1, <3>2 DEF HookFunction
  <2>4. TypeOK'
    BY <2>1, <2>2, <2>3 DEF Control, TypeOK
  <2>5. OwnsTransaction'
    BY <2>1, <2>3 DEF Control, OwnsTransaction, Initializing
  <2> QED BY <2>1, <2>4, <2>5, GoesOn DEF Control
<1>6. CASE CommitHooks(t)
  <2>1. /\ step = "HookFunction" /\ step' = "committing" /\ Initializing(t)
        /\ UNCHANGED <<matches, data, notification, once, main, todo>>
    BY <1>6 DEF CommitHooks, Initializing
  <2>2. DetourTypeOK' /\ UNCHANGED pendingThread
    BY <1>0, <1>6, CommitTypes DEF CommitHooks, DetourTransactionCommit, transaction
  <2>3. pendingThread = t
    <3>1. pendingThread \in Threads
      BY <1>0, <2>1 DEF Control, OwnsTransaction, DetourTypeOK
    <3> QED BY <2>1, <3>1, OneAtAStep
  <2>4. phase' \in {"patch", "abort"}
    BY <1>6, <2>3 DEF CommitHooks, DetourTransactionCommit
  <2>5. TypeOK'
    BY <2>1, <2>2 DEF Control, TypeOK
  <2>6. OwnsTransaction'
    BY <2>1, <2>2, <2>3, <2>4, NoThreadAssumption DEF Control, OwnsTransaction, Initializing
  <2> QED BY <2>1, <2>5, <2>6, GoesOn DEF Control
<1>7. CASE Committing(t)
  <2>1. /\ step = "committing" /\ CommitStep(t)
        /\ UNCHANGED <<matches, data, notification, once, main, step, todo>>
    BY <1>7 DEF Committing, startVars
  <2>2. DetourTypeOK'
    BY <1>0, <2>1, CommitStepTypes
  <2>3. \/ UNCHANGED pendingThread /\ phase # "idle" /\ phase' # "idle"
        \/ pendingThread' = NoThread /\ phase' = "idle"
    BY <2>1 DEF CommitStep, PatchTarget, MovePointer, AllPatched, RestorePermission, EndTransaction,
                transaction
  <2>4. TypeOK'
    BY <2>1, <2>2 DEF Control, TypeOK
  <2>5. OwnsTransaction'
    BY <2>1, <2>3, NoThreadAssumption DEF Control, OwnsTransaction, Initializing
  <2> QED BY <2>1, <2>4, <2>5, GoesOn DEF Control
<1>8. CASE InitDone(t)
  <2>1. /\ step = "committing" /\ phase = "idle" /\ Initializing(t)
        /\ once' = "done" /\ step' = "none"
        /\ main' = [main EXCEPT ![t] = "returned"]
        /\ UNCHANGED <<matches, data, notification, todo>>
    BY <1>8 DEF InitDone, Initializing
  <2>2. DetourTypeOK' /\ UNCHANGED <<pendingThread, phase>>
    BY <1>0, <1>8, SameDetourTypes DEF InitDone, detourVars, transaction
  <2>3. pendingThread = NoThread
    BY <2>1 DEF Control, OwnsTransaction
  <2>4. OnceRuns' /\ OwnsTransaction'
    BY <2>1, <2>2, <2>3, LeavesInit
  <2>5. TypeOK'
    BY <1>0, <2>1, <2>2 DEF Control, TypeOK
  <2> QED BY <2>4, <2>5 DEF Control
<1> QED BY <1>1, <1>2, <1>3, <1>4, <1>5, <1>6, <1>7, <1>8 DEF InitStep

LEMMA CallMainControl ==
  ASSUME Control, NEW t \in Threads, CallMain(t)
  PROVE  Control'
<1>1. /\ main \in [Threads -> {"outside", "waiting", "initializing", "threw", "returned"}]
      /\ main[t] = "outside" /\ main' = [main EXCEPT ![t] = "waiting"]
      /\ UNCHANGED <<pendingThread, phase, matches, data, notification, once, step, todo>>
  BY DEF CallMain, detourVars, transaction, Control, TypeOK
<1>2. DetourTypeOK'
  BY SameDetourTypes DEF CallMain, Control, TypeOK
<1>3. TypeOK'
  BY <1>1, <1>2 DEF Control, TypeOK
<1>4. \A u \in Threads : /\ Initializing(u)' <=> Initializing(u)
                         /\ main'[u] = "returned" => main[u] = "returned"
  BY <1>1 DEF Initializing
<1>5. OnceRuns'
  BY <1>1, <1>4 DEF Control, OnceRuns
<1>6. OwnsTransaction'
  BY <1>1, <1>4 DEF Control, OwnsTransaction
<1> QED BY <1>3, <1>5, <1>6 DEF Control

LEMMA OutsideControl ==
  ASSUME Control, UNCHANGED vars
  PROVE  Control'
<1>1. DetourTypeOK'
  BY SameDetourTypes DEF Control, TypeOK, vars
<1>2. UNCHANGED <<pendingThread, phase, matches, data, notification, once, main, step, todo>>
  BY DEF vars, detourVars, transaction, startVars
<1>3. TypeOK'
  BY <1>1, <1>2 DEF Control, TypeOK
<1>4. OnceRuns' /\ OwnsTransaction'
  BY <1>2 DEF Control, OnceRuns, OwnsTransaction, Initializing
<1> QED BY <1>3, <1>4 DEF Control

LEMMA ControlStep == Control /\ [Next]_vars => Control'
<1> SUFFICES ASSUME Control, [Next]_vars PROVE Control'
  OBVIOUS
<1>1. ASSUME NEW t \in Threads, CallMain(t) \/ InitStep(t) PROVE Control'
  BY <1>1, CallMainControl, InitStepControl
<1>2. CASE UNCHANGED vars
  BY <1>2, OutsideControl
<1> QED BY <1>1, <1>2 DEF Next

THEOREM ControlInvariance == Spec => []Control
  BY ControlInit, ControlStep, PTL DEF Spec

\* The state of the start-up keeps its types, whatever occurs and whatever fails.
THEOREM TypeCorrect == Spec => []TypeOK
<1>1. Control => TypeOK
  BY DEF Control
<1> QED BY <1>1, ControlInvariance, PTL

\* However many callers LeanPlugin_Main has, and however often the initialisation
\* throws, one at a time initialises, and the transaction is its own.
THEOREM OneAtATime == Spec => []OneInitializer
<1>1. Control => OneInitializer
  BY DEF Control, OnceRuns, OwnsTransaction, OneInitializer, Initializing
<1> QED BY <1>1, ControlInvariance, PTL

\* No caller returns before the hooks are in or given up.
THEOREM ReturnsLast == Spec => []ReturnsWhenDone
<1>1. Control => ReturnsWhenDone
  BY DEF Control, OnceRuns, OwnsTransaction, ReturnsWhenDone, NoTransaction
<1> QED BY <1>1, ControlInvariance, PTL

-----------------------------------------------------------------------------
(* What the transaction does to functions, pointers and trampolines. *)

\* f has an operation; it has one before the n-th.
Pending(f)  == \E i \in 1 .. Len(pendingOps) : pendingOps[i].fn = f
Below(f, n) == \E i \in 1 .. Len(pendingOps) : i < n /\ pendingOps[i].fn = f

Untouched == \A f \in Functions : code[f] = "original" /\ pointer[f] # "trampoline"

\* Nothing was searched for or attached yet.
Fresh ==
  /\ Untouched /\ trampolines = {} /\ pendingOps = <<>> /\ pendingError = "NO_ERROR"
  /\ \A f \in Functions : pointer[f] = "null"

\* How far each loop of the library has got, told by its cursor: a function is
\* patched, and its pointer moved, when the loop is past its operation.
Progress ==
  /\ once # "done" /\ step \notin {"HookFunction", "committing"} => Fresh
  /\ step = "HookFunction" => Untouched /\ \A f \in trampolines : Pending(f)
  /\ phase = "patch" => \A f \in Functions : /\ code[f] = "patched" <=> Below(f, cursor)
                                             /\ pointer[f] = "trampoline" <=> Below(f, cursor)
  /\ phase = "pointer" =>
       /\ MoreOperations
       /\ \A f \in Functions : /\ code[f] = "patched" <=> Below(f, cursor) \/ f = Operation.fn
                               /\ pointer[f] = "trampoline" <=> Below(f, cursor)
  /\ phase = "restore" => \A f \in Functions : /\ code[f] = "patched" <=> Pending(f)
                                               /\ pointer[f] = "trampoline" <=> Pending(f)
  /\ phase \in {"patch", "pointer", "restore"} =>
       /\ pendingError = "NO_ERROR"
       /\ \A f \in Functions : f \in trampolines <=> Pending(f)
  /\ phase = "abort" =>
       /\ Untouched /\ pendingError = "error"
       /\ \A f \in trampolines : \E i \in cursor .. Len(pendingOps) : pendingOps[i].fn = f
  /\ pendingError = "NO_ERROR" => \A f \in Functions : Pending(f) => f \in trampolines
  /\ AllOrNothing

\* A pointer is set before anything leads to it.
Pointers == \A f \in Functions : Pending(f) \/ code[f] = "patched" => pointer[f] # "null"

Installed == Progress /\ Pointers

LEMMA InstalledInit == Init => Installed
<1> SUFFICES ASSUME Init PROVE Installed
  OBVIOUS
<1>1. /\ pendingOps = <<>> /\ pendingError = "NO_ERROR" /\ trampolines = {} /\ phase = "idle"
      /\ \A f \in Functions : pointer[f] = "null" /\ code[f] = "original"
      /\ step = "none"
  BY DEF Init, DetourInit
<1>2. \A f : ~Pending(f)
  <2>1. 1 .. Len(pendingOps) = {}
    BY <1>1
  <2> QED BY <2>1 DEF Pending
<1>3. AllOrNothing
  BY <1>1 DEF AllOrNothing
<1>4. Progress
  BY <1>1, <1>2, <1>3 DEF Progress, Fresh, Untouched
<1>5. Pointers
  BY <1>1, <1>2 DEF Pointers
<1> QED BY <1>4, <1>5 DEF Installed

\* The operations after an attach are those before and the new one in front.
LEMMA PushedOperations ==
  ASSUME DetourTypeOK, NEW o \in Operations, pendingOps' = <<o>> \o pendingOps
  PROVE  /\ Len(pendingOps) \in Nat /\ Len(pendingOps') = Len(pendingOps) + 1
         /\ pendingOps'[1] = o
         /\ \A i \in 1 .. Len(pendingOps) : pendingOps'[i + 1] = pendingOps[i]
         /\ \A i \in 1 .. Len(pendingOps') : i # 1 => /\ i - 1 \in 1 .. Len(pendingOps)
                                                       /\ pendingOps'[i] = pendingOps[i - 1]
<1>1. pendingOps \in Seq(Operations)
  BY DEF DetourTypeOK
<1>2. /\ Len(pendingOps) \in Nat /\ Len(pendingOps') = Len(pendingOps) + 1
      /\ pendingOps'[1] = o
      /\ \A i \in 1 .. Len(pendingOps) : pendingOps'[i + 1] = pendingOps[i]
  BY <1>1
<1>3. ASSUME NEW i \in 1 .. Len(pendingOps'), i # 1
      PROVE  i - 1 \in 1 .. Len(pendingOps) /\ pendingOps'[i] = pendingOps[i - 1]
  <2>1. i - 1 \in 1 .. Len(pendingOps)
    BY <1>2, <1>3
  <2>2. pendingOps'[(i - 1) + 1] = pendingOps[i - 1]
    BY <1>2, <2>1
  <2> QED BY <2>1, <2>2
<1> QED BY <1>2, <1>3

LEMMA OperationFunctions ==
  ASSUME DetourTypeOK, NEW i \in 1 .. Len(pendingOps)
  PROVE  pendingOps[i] \in Operations /\ pendingOps[i].fn \in Functions
<1>1. pendingOps \in Seq(Operations)
  BY DEF DetourTypeOK
<1>2. pendingOps[i] \in Operations
  BY <1>1
<1> QED BY <1>2 DEF Operations

\* What a successful attach writes.
LEMMA AttachedOperation ==
  ASSUME DetourTypeOK, NEW f \in Functions, AttachSucceeds(f)
  PROVE  \E o \in Operations : /\ o.fn = f /\ o.perm = perm[FirstPage[f]]
                               /\ pendingOps' = <<o>> \o pendingOps
                               /\ perm' = Protect(o, "RWX")
<1> DEFINE o == [fn |-> f, perm |-> perm[FirstPage[f]]]
<1>1. o \in Operations /\ o.fn = f /\ o.perm = perm[FirstPage[f]]
  BY FirstPageAssumption DEF DetourTypeOK, Operations
<1>2. pendingOps' = <<o>> \o pendingOps /\ perm' = Protect(o, "RWX")
  BY DEF AttachSucceeds, PushOperation, OldProtection
<1> HIDE DEF o
<1> QED BY <1>1, <1>2

LEMMA PendingPush ==
  ASSUME pendingOps \in Seq(Operations), NEW o \in Operations,
         pendingOps' = <<o>> \o pendingOps
  PROVE  \A g : Pending(g)' <=> g = o.fn \/ Pending(g)
<1>1. /\ Len(pendingOps') = Len(pendingOps) + 1 /\ Len(pendingOps) \in Nat
      /\ pendingOps'[1] = o
      /\ \A i \in 1 .. Len(pendingOps) : pendingOps'[i + 1] = pendingOps[i]
  OBVIOUS
<1> TAKE g
<1>2. ASSUME Pending(g)' PROVE g = o.fn \/ Pending(g)
  <2>1. PICK i \in 1 .. Len(pendingOps') : pendingOps'[i].fn = g
    BY <1>2 DEF Pending
  <2>2. CASE i = 1
    BY <1>1, <2>1, <2>2
  <2>3. CASE i # 1
    <3>1. i - 1 \in 1 .. Len(pendingOps) /\ pendingOps[i - 1].fn = g
      BY <1>1, <2>1, <2>3
    <3> QED BY <3>1 DEF Pending
  <2> QED BY <2>2, <2>3
<1>3. g = o.fn => Pending(g)'
  <2>1. 1 \in 1 .. Len(pendingOps')
    BY <1>1
  <2> QED BY <1>1, <2>1 DEF Pending
<1>4. ASSUME Pending(g) PROVE Pending(g)'
  <2>1. PICK i \in 1 .. Len(pendingOps) : pendingOps[i].fn = g
    BY <1>4 DEF Pending
  <2>2. i + 1 \in 1 .. Len(pendingOps') /\ pendingOps'[i + 1].fn = g
    BY <1>1, <2>1
  <2> QED BY <2>2 DEF Pending
<1> QED BY <1>2, <1>3, <1>4

\* What the loop is past, at its start, after one more operation, and at its end.
LEMMA BelowFacts ==
  ASSUME DetourTypeOK, NEW f
  PROVE  /\ ~Below(f, 1)
         /\ MoreOperations => (Below(f, cursor + 1) <=> Below(f, cursor) \/ f = Operation.fn)
         /\ ~MoreOperations => (Below(f, cursor) <=> Pending(f))
<1>1. cursor \in Nat /\ cursor >= 1 /\ Len(pendingOps) \in Nat
  BY DEF DetourTypeOK
<1>2. ~Below(f, 1)
  BY DEF Below
<1>3. ASSUME MoreOperations
      PROVE  Below(f, cursor + 1) <=> Below(f, cursor) \/ f = Operation.fn
  <2>1. cursor \in 1 .. Len(pendingOps) /\ Operation = pendingOps[cursor]
    BY <1>3, OperationType
  <2>2. \A i \in 1 .. Len(pendingOps) : i < cursor + 1 <=> i < cursor \/ i = cursor
    BY <1>1
  <2> QED BY <2>1, <2>2 DEF Below
<1>4. ASSUME ~MoreOperations PROVE Below(f, cursor) <=> Pending(f)
  <2>1. \A i \in 1 .. Len(pendingOps) : i < cursor
    BY <1>1, <1>4 DEF MoreOperations
  <2> QED BY <2>1 DEF Below, Pending
<1> QED BY <1>2, <1>3, <1>4

\* A step of LeanPlugin_Init outside of the transaction leaves the library alone.
LEMMA SameInstalled ==
  ASSUME Installed, UNCHANGED detourVars,
         once' # "done" /\ step' \notin {"HookFunction", "committing"} => Fresh,
         step' = "HookFunction" => step = "HookFunction"
  PROVE  Installed'
<1>1. UNCHANGED <<pendingThread, pendingError, pendingOps, pointer, code, trampolines, phase, cursor>>
  BY DEF detourVars, transaction
<1>2. (Fresh => Fresh') /\ (Untouched => Untouched')
  BY <1>1 DEF Fresh, Untouched
<1>3. /\ \A f : Pending(f)' <=> Pending(f)
      /\ \A f : Below(f, cursor)' <=> Below(f, cursor)
      /\ Operation' = Operation /\ (MoreOperations' <=> MoreOperations)
  BY <1>1 DEF Pending, Below, Operation, MoreOperations
<1>4. AllOrNothing'
  BY <1>1 DEF Installed, Progress, AllOrNothing, NoTransaction
<1>5. Progress'
  BY <1>1, <1>2, <1>3, <1>4 DEF Installed, Progress
<1>6. Pointers'
  BY <1>1, <1>3 DEF Installed, Pointers
<1> QED BY <1>5, <1>6 DEF Installed

LEMMA HookFunctionInstalled ==
  ASSUME Control, Installed, NEW t \in Threads, HookFunction(t)
  PROVE  Installed'
<1>1. /\ step = "HookFunction" /\ UNCHANGED <<once, step>>
      /\ pendingThread # NoThread /\ phase = "idle" /\ Untouched
      /\ \A f \in trampolines : Pending(f)
      /\ DetourTypeOK /\ todo \in Seq(HookPatterns) /\ todo # <<>>
  BY DEF HookFunction, At, Control, TypeOK, OwnsTransaction, Installed, Progress
<1>2. CASE UNCHANGED detourVars
  BY <1>1, <1>2, SameInstalled
<1>3. ASSUME NEW f \in Functions, pointer' = [pointer EXCEPT ![f] = "target"], DetourAttach(t, f)
      PROVE  Installed'
  <2>1. /\ UNCHANGED <<pendingThread, code, phase, cursor>>
        /\ \A g \in Functions : pointer'[g] = IF g = f THEN "target" ELSE pointer[g]
    BY <1>1, <1>3 DEF DetourAttach, DetourTypeOK
  <2>2. Untouched'
    BY <1>1, <2>1 DEF Untouched
  <2>3. CASE UNCHANGED <<pendingOps, trampolines>> /\ pendingError' \in {pendingError, "error"}
    <3>1. \A g : Pending(g)' <=> Pending(g)
      BY <2>3 DEF Pending
    <3>2. Progress'
      BY <1>1, <2>1, <2>2, <2>3, <3>1 DEF Progress, Installed, AllOrNothing, NoTransaction
    <3>3. Pointers'
      BY <1>1, <2>1, <3>1 DEF Pointers, Installed
    <3> QED BY <3>2, <3>3 DEF Installed
  <2>4. CASE AttachSucceeds(f)
    <3> DEFINE o == [fn |-> f, perm |-> perm[FirstPage[f]]]
    <3>1. o \in Operations /\ o.fn = f
      BY <1>1, FirstPageAssumption DEF DetourTypeOK, Operations
    <3>2. /\ pendingOps' = <<o>> \o pendingOps
          /\ trampolines' = trampolines \union {f} /\ UNCHANGED pendingError
      BY <2>4 DEF AttachSucceeds, PushOperation, OldProtection
    <3>3. \A g : Pending(g)' <=> g = f \/ Pending(g)
      <4> HIDE DEF o
      <4> QED BY <1>1, <3>1, <3>2, PendingPush DEF DetourTypeOK
    <3>4. Progress'
      BY <1>1, <2>1, <2>2, <3>2, <3>3 DEF Progress, Installed, AllOrNothing, NoTransaction
    <3>5. Pointers'
      BY <1>1, <2>1, <3>3 DEF Pointers, Installed, Untouched
    <3> QED BY <3>4, <3>5 DEF Installed
  <2>5. CASE AttachFails(f)
    BY <2>3, <2>5 DEF AttachFails
  <2> QED BY <1>3, <2>3, <2>4, <2>5, AttachWays
<1>4. Head(todo) \in HookPatterns
  BY <1>1
<1>5. FunctionOf(Head(todo)) \in Functions
  BY <1>4, PatternsType
<1> QED BY <1>2, <1>3, <1>5 DEF HookFunction

LEMMA CommitHooksInstalled ==
  ASSUME Control, Installed, NEW t \in Threads, CommitHooks(t)
  PROVE  Installed'
<1>1. /\ step = "HookFunction" /\ step' = "committing" /\ UNCHANGED once
      /\ pendingThread # NoThread /\ Untouched /\ \A f \in trampolines : Pending(f)
      /\ pendingError \in {"NO_ERROR", "error"} /\ trampolines \in SUBSET Functions
  BY DEF CommitHooks, At, Control, TypeOK, DetourTypeOK, OwnsTransaction, Installed, Progress
<1>2. pendingThread = t
  <2>1. pendingThread \in Threads /\ Initializing(t)
    BY <1>1 DEF CommitHooks, At, Initializing, Control, TypeOK, DetourTypeOK
  <2> QED BY <2>1, OneAtAStep
<1>3. /\ cursor' = 1 /\ UNCHANGED <<pendingThread, pendingError, pendingOps, pointer, code, trampolines>>
      /\ phase' = IF pendingError = "NO_ERROR" THEN "patch" ELSE "abort"
  BY <1>2 DEF CommitHooks, DetourTransactionCommit, transaction
<1>4. Untouched' /\ (\A f : Pending(f)' <=> Pending(f)) /\ \A f : ~Below(f, 1)'
  BY <1>1, <1>3 DEF Untouched, Pending, Below
<1>5. phase' = "patch" => \A f \in Functions : f \in trampolines' <=> Pending(f)'
  BY <1>1, <1>3, <1>4 DEF Installed, Progress
<1>6. \A f \in trampolines' : \E i \in cursor' .. Len(pendingOps') : pendingOps'[i].fn = f
  BY <1>1, <1>3 DEF Pending
<1>7. \A f : ~Below(f, cursor)'
  BY <1>3, <1>4
<1>8. Progress'
  BY <1>1, <1>3, <1>4, <1>5, <1>6, <1>7 DEF Progress, Installed, Untouched, AllOrNothing, NoTransaction
<1>9. Pointers'
  BY <1>1, <1>3, <1>4 DEF Pointers, Installed
<1> QED BY <1>8, <1>9 DEF Installed

-----------------------------------------------------------------------------
(* The commit. *)

\* What a step of the commit leaves as it is.
LEMMA DuringCommit ==
  ASSUME Control, Installed, NEW t \in Threads, Committing(t)
  PROVE  /\ step = "committing" /\ CommitStep(t) /\ UNCHANGED <<once, step>>
         /\ DetourTypeOK /\ pendingThread = t /\ t # NoThread
  BY NoThreadAssumption DEF Committing, At, startVars, CommitStep, PatchTarget, MovePointer, AllPatched,
     RestorePermission, EndTransaction, Control, TypeOK

LEMMA PatchTargetInstalled ==
  ASSUME Control, Installed, NEW t \in Threads, Committing(t), PatchTarget(t)
  PROVE  Installed'
<1>1. step = "committing" /\ DetourTypeOK /\ pendingThread # NoThread /\ UNCHANGED <<once, step>>
  BY DuringCommit
<1>2. /\ phase = "patch" /\ phase' = "pointer" /\ MoreOperations
      /\ code' = [code EXCEPT ![Operation.fn] = "patched"]
      /\ UNCHANGED <<pendingThread, pendingError, pendingOps, pointer, trampolines, cursor>>
  BY DEF PatchTarget, transaction
<1>3. Operation.fn \in Functions /\ Pending(Operation.fn)
  BY <1>1, <1>2, OperationType DEF Pending
<1>4. /\ Operation' = Operation /\ MoreOperations'
      /\ \A f : (Pending(f)' <=> Pending(f)) /\ (Below(f, cursor)' <=> Below(f, cursor))
  BY <1>2 DEF Operation, MoreOperations, Pending, Below
<1>5. \A f \in Functions : code'[f] = IF f = Operation.fn THEN "patched" ELSE code[f]
  BY <1>1, <1>2 DEF DetourTypeOK
<1>6. Progress'
  BY <1>1, <1>2, <1>3, <1>4, <1>5 DEF Progress, Installed, AllOrNothing, NoTransaction
<1>7. Pointers'
  BY <1>1, <1>2, <1>3, <1>4, <1>5 DEF Pointers, Installed
<1> QED BY <1>6, <1>7 DEF Installed

LEMMA MovePointerInstalled ==
  ASSUME Control, Installed, NEW t \in Threads, Committing(t), MovePointer(t)
  PROVE  Installed'
<1>1. step = "committing" /\ DetourTypeOK /\ pendingThread # NoThread /\ UNCHANGED <<once, step>>
  BY DuringCommit
<1>2. /\ phase = "pointer" /\ phase' = "patch" /\ cursor' = cursor + 1
      /\ pointer' = [pointer EXCEPT ![Operation.fn] = "trampoline"]
      /\ UNCHANGED <<pendingThread, pendingError, pendingOps, code, trampolines>>
  BY DEF MovePointer, Moved, transaction
<1>3. MoreOperations /\ Operation.fn \in Functions
  BY <1>1, <1>2, OperationType DEF Installed, Progress
<1>4. \A f : (Pending(f)' <=> Pending(f))
  BY <1>2 DEF Pending
<1>5. \A f : Below(f, cursor)' <=> Below(f, cursor) \/ f = Operation.fn
  <2> TAKE f
  <2>1. Below(f, cursor)' <=> Below(f, cursor + 1)
    BY <1>2 DEF Below
  <2> QED BY <1>1, <1>3, <2>1, BelowFacts
<1>6. \A f \in Functions : pointer'[f] = IF f = Operation.fn THEN "trampoline" ELSE pointer[f]
  BY <1>1, <1>2 DEF DetourTypeOK
<1>7. Progress'
  BY <1>1, <1>2, <1>3, <1>4, <1>5, <1>6 DEF Progress, Installed, AllOrNothing, NoTransaction
<1>8. Pointers'
  BY <1>1, <1>2, <1>3, <1>4, <1>6 DEF Pointers, Installed
<1> QED BY <1>7, <1>8 DEF Installed

LEMMA AllPatchedInstalled ==
  ASSUME Control, Installed, NEW t \in Threads, Committing(t), AllPatched(t)
  PROVE  Installed'
<1>1. step = "committing" /\ DetourTypeOK /\ pendingThread # NoThread /\ UNCHANGED <<once, step>>
  BY DuringCommit
<1>2. /\ phase = "patch" /\ phase' = "restore" /\ ~MoreOperations
      /\ UNCHANGED <<pendingThread, pendingError, pendingOps, pointer, code, trampolines>>
  BY DEF AllPatched, transaction
<1>3. \A f : (Pending(f)' <=> Pending(f)) /\ (Below(f, cursor) <=> Pending(f))
  BY <1>1, <1>2, BelowFacts DEF Pending
<1>4. Progress'
  BY <1>1, <1>2, <1>3 DEF Progress, Installed, AllOrNothing, NoTransaction
<1>5. Pointers'
  BY <1>1, <1>2, <1>3 DEF Pointers, Installed
<1> QED BY <1>4, <1>5 DEF Installed

LEMMA RestorePermissionInstalled ==
  ASSUME Control, Installed, NEW t \in Threads, Committing(t), RestorePermission(t)
  PROVE  Installed'
<1>1. step = "committing" /\ DetourTypeOK /\ pendingThread # NoThread /\ UNCHANGED <<once, step>>
  BY DuringCommit
<1>2. /\ phase \in {"restore", "abort"} /\ cursor' = cursor + 1 /\ MoreOperations
      /\ trampolines' = IF phase = "abort" THEN trampolines \ {Operation.fn} ELSE trampolines
      /\ UNCHANGED <<pendingThread, pendingError, pendingOps, pointer, code, phase>>
  BY DEF RestorePermission, RemainingTrampolines, transaction
<1>3. (\A f : Pending(f)' <=> Pending(f)) /\ (Untouched => Untouched')
  BY <1>2 DEF Pending, Untouched
<1>4. phase = "abort" =>
        \A f \in trampolines' : \E i \in cursor' .. Len(pendingOps') : pendingOps'[i].fn = f
  <2> SUFFICES ASSUME phase = "abort", NEW f \in trampolines'
               PROVE  \E i \in cursor' .. Len(pendingOps') : pendingOps'[i].fn = f
    OBVIOUS
  <2>1. f \in trampolines /\ f # pendingOps[cursor].fn
    BY <1>2 DEF Operation
  <2>2. PICK i \in cursor .. Len(pendingOps) : pendingOps[i].fn = f
    BY <2>1 DEF Installed, Progress
  <2>3. cursor \in Nat /\ Len(pendingOps) \in Nat
    BY <1>1 DEF DetourTypeOK
  <2>4. i \in cursor' .. Len(pendingOps')
    BY <1>2, <2>1, <2>2, <2>3
  <2> QED BY <1>2, <2>2, <2>4
<1>5. Progress'
  BY <1>1, <1>2, <1>3, <1>4 DEF Progress, Installed, AllOrNothing, NoTransaction
<1>6. Pointers'
  BY <1>1, <1>2, <1>3 DEF Pointers, Installed
<1> QED BY <1>5, <1>6 DEF Installed

LEMMA EndTransactionInstalled ==
  ASSUME Control, Installed, NEW t \in Threads, Committing(t), EndTransaction(t)
  PROVE  Installed'
<1>1. step = "committing" /\ DetourTypeOK /\ pendingThread # NoThread /\ UNCHANGED <<once, step>>
  BY DuringCommit
<1>2. /\ phase \in {"restore", "abort"} /\ phase' = "idle" /\ ~MoreOperations
      /\ pendingOps' = <<>> /\ pendingThread' = NoThread
      /\ UNCHANGED <<pendingError, pointer, code, trampolines>>
  BY DEF EndTransaction
<1>3. \A f : ~Pending(f)'
  <2>1. 1 .. Len(pendingOps') = {}
    BY <1>2
  <2> QED BY <2>1 DEF Pending
<1>4. phase = "abort" => trampolines = {}
  <2>1. cursor .. Len(pendingOps) = {}
    BY <1>1, <1>2 DEF MoreOperations, DetourTypeOK
  <2> QED BY <2>1 DEF Installed, Progress
<1>5. trampolines \in SUBSET Functions
  BY <1>1 DEF DetourTypeOK
<1>6. AllOrNothing'
  <2>1. CASE phase = "restore"
    <3>1. \A f \in Functions : /\ f \in trampolines <=> code[f] = "patched"
                               /\ code[f] = "patched" <=> pointer[f] = "trampoline"
      BY <2>1 DEF Installed, Progress
    <3>2. pendingError = "NO_ERROR"
      BY <2>1 DEF Installed, Progress
    <3> QED BY <1>2, <1>5, <3>1, <3>2 DEF AllOrNothing
  <2>2. CASE phase = "abort"
    BY <1>2, <1>4, <2>2 DEF AllOrNothing, Installed, Progress, Untouched
  <2> QED BY <1>2, <2>1, <2>2
<1>7. Progress'
  BY <1>1, <1>2, <1>3, <1>6 DEF Progress
<1>8. Pointers'
  BY <1>1, <1>2, <1>3 DEF Pointers, Installed
<1> QED BY <1>7, <1>8 DEF Installed

-----------------------------------------------------------------------------
(* All steps. *)

LEMMA InitStepInstalled ==
  ASSUME Control, Installed, NEW t \in Threads, InitStep(t)
  PROVE  Installed'
<1>1. CASE CallOnce(t) \/ InitConfigValues(t)
  <2>1. /\ UNCHANGED detourVars
        /\ step' \in {step, "none", "InitConfigValues", "ScannerSetup"}
        /\ \/ once # "done" /\ step \notin {"HookFunction", "committing"}
           \/ UNCHANGED <<once, step>>
    BY <1>1 DEF CallOnce, InitConfigValues, At, MayInitialize, Control, OnceRuns, AfterConfigValues
  <2> QED BY <2>1, SameInstalled DEF Installed, Progress
<1>2. CASE ScannerSetup(t) \/ InitMessaging(t) \/ InitDone(t)
  <2>1. /\ UNCHANGED detourVars
        /\ step' \in {"none", "InitMessaging", "DetourTransactionBegin"}
        /\ \/ UNCHANGED once /\ step \notin {"HookFunction", "committing"}
           \/ once' = "done"
    BY <1>2 DEF ScannerSetup, InitMessaging, InitDone, At
  <2> QED BY <2>1, SameInstalled DEF Installed, Progress
<1>3. CASE InitDetours(t)
  <2>1. /\ step = "DetourTransactionBegin" /\ step' = "HookFunction" /\ Initializing(t)
        /\ pendingThread = NoThread /\ phase = "idle" /\ UNCHANGED once
    BY <1>3 DEF InitDetours, At, Initializing, Control, OwnsTransaction
  <2>2. once # "done"
    BY <2>1, OneAtAStep DEF Control, OnceRuns
  <2>3. Fresh
    BY <2>1, <2>2 DEF Installed, Progress
  <2>4. /\ pendingThread' = t /\ pendingOps' = <<>> /\ pendingError' \in {"NO_ERROR", "error"}
        /\ UNCHANGED <<pointer, code, trampolines, phase, cursor>>
    BY <1>3, <2>1 DEF InitDetours, DetourTransactionBegin, RegionsOpened
  <2>5. \A f : ~Pending(f)'
    <3>1. 1 .. Len(pendingOps') = {}
      BY <2>4
    <3> QED BY <3>1 DEF Pending
  <2>6. Progress'
    BY <2>1, <2>3, <2>4, <2>5, NoThreadAssumption
       DEF Progress, Fresh, Untouched, AllOrNothing, NoTransaction
  <2>7. Pointers'
    BY <2>1, <2>4, <2>5 DEF Pointers, Installed
  <2> QED BY <2>6, <2>7 DEF Installed
<1>4. CASE HookFunction(t) \/ CommitHooks(t)
  BY <1>4, HookFunctionInstalled, CommitHooksInstalled
<1>5. CASE Committing(t)
  BY <1>5, DuringCommit, PatchTargetInstalled, MovePointerInstalled, AllPatchedInstalled,
     RestorePermissionInstalled, EndTransactionInstalled DEF CommitStep
<1> QED BY <1>1, <1>2, <1>3, <1>4, <1>5 DEF InitStep

LEMMA InstalledStep == Control /\ Installed /\ [Next]_vars => Installed'
<1> SUFFICES ASSUME Control, Installed, [Next]_vars PROVE Installed'
  OBVIOUS
<1>1. ASSUME NEW t \in Threads, CallMain(t) PROVE Installed'
  BY <1>1, SameInstalled DEF CallMain, Installed, Progress
<1>2. ASSUME NEW t \in Threads, InitStep(t) PROVE Installed'
  BY <1>2, InitStepInstalled
<1>3. CASE UNCHANGED vars
  BY <1>3, SameInstalled DEF vars, startVars, Installed, Progress
<1> QED BY <1>1, <1>2, <1>3 DEF Next

THEOREM InstalledInvariance == Spec => []Installed
  BY InstalledInit, ControlInvariance, InstalledStep, PTL DEF Spec

\* Whichever patterns occur and whichever attach fails, the hooks are in with their
\* trampolines, or none is and no trampoline is left.
THEOREM WholeOrNothing == Spec => []AllOrNothing
<1>1. Installed => AllOrNothing
  BY DEF Installed, Progress
<1> QED BY <1>1, InstalledInvariance, PTL

-----------------------------------------------------------------------------
(* InitDetours goes through its patterns one by one, and two of them are for one
   function. *)

Searched(p) == \A i \in 1 .. Len(todo) : todo[i] # p

\* Of the patterns still to come, only SetForegroundFpsLimit's two lead to one
\* function, the first of them first.
Ordered ==
  \A i, j \in 1 .. Len(todo) :
    i < j /\ FunctionOf(todo[i]) = FunctionOf(todo[j]) =>
      todo[i] = "SetForegroundFpsLimit" /\ todo[j] = "SetForegroundFpsLimit2"

\* What is still to come of a function that is attached is the pattern to skip.
Superfluous ==
  \A i \in 1 .. Len(pendingOps), j \in 1 .. Len(todo) :
    pendingOps[i].fn = FunctionOf(todo[j]) =>
      todo[j] = "SetForegroundFpsLimit2" /\ IsFound("SetForegroundFpsLimit")

FoundSoFar ==
  \A f \in Functions :
    pointer[f] # "null" <=> \E p \in matches : FunctionOf(p) = f /\ Searched(p)

FoundAll == \A f \in Functions : pointer[f] # "null" <=> \E p \in matches : FunctionOf(p) = f

Notifies == notification <=> matches \intersect NotificationPatterns # {}

Search ==
  /\ step \in {"InitMessaging", "DetourTransactionBegin", "HookFunction", "committing"} =>
       data = "code section"
  /\ step \in {"DetourTransactionBegin", "HookFunction", "committing"} \/ once = "done" => Notifies
  /\ step = "HookFunction" => Ordered /\ Superfluous /\ FoundSoFar
  /\ step = "committing" \/ once = "done" => FoundAll
  /\ AttachedOnce

LEMMA SearchInit == Init => Search
<1> SUFFICES ASSUME Init PROVE Search
  OBVIOUS
<1>1. pendingOps = <<>> /\ step = "none" /\ once = "unset"
  BY DEF Init, DetourInit
<1>2. AttachedOnce
  <2>1. 1 .. Len(pendingOps) = {}
    BY <1>1
  <2> QED BY <2>1 DEF AttachedOnce
<1> QED BY <1>1, <1>2 DEF Search

\* The five patterns, before any of them was tried.
LEMMA AllPatternsToCome ==
  ASSUME todo' = Patterns
  PROVE  /\ Ordered'
         /\ \A p \in AllPatterns : FunctionOf(p) \in Functions => ~Searched(p)'
<1>1. /\ Len(todo') = 5 /\ todo'[1] = "ProcessEvent" /\ todo'[2] = "FocusUnfocus"
      /\ todo'[3] = "SetForegroundFpsLimit" /\ todo'[4] = "SetForegroundFpsLimit2"
      /\ todo'[5] = "GetWorld"
  BY DEF Patterns
<1>2. Ordered'
  <2> SUFFICES ASSUME NEW i \in 1 .. 5, NEW j \in 1 .. 5, i < j,
                      FunctionOf(todo'[i]) = FunctionOf(todo'[j])
               PROVE  todo'[i] = "SetForegroundFpsLimit" /\ todo'[j] = "SetForegroundFpsLimit2"
    BY <1>1 DEF Ordered, FunctionOf
  <2>1. i \in {1, 2, 3, 4, 5} /\ j \in {1, 2, 3, 4, 5}
    OBVIOUS
  <2> QED BY <1>1, <2>1 DEF FunctionOf
<1>3. ASSUME NEW p \in AllPatterns, FunctionOf(p) \in Functions PROVE ~Searched(p)'
  <2>1. p \in HookPatterns
    BY <1>3, FunctionsAssumption DEF AllPatterns, NotificationPatterns, FunctionOf, HookedFunctions
  <2>2. \E i \in {1, 2, 3, 4, 5} : todo'[i] = p
    BY <1>1, <2>1, PatternsType
  <2>3. {1, 2, 3, 4, 5} = 1 .. Len(todo')
    BY <1>1
  <2> QED BY <2>2, <2>3 DEF Searched
<1> QED BY <1>2, <1>3

\* The patterns to come after the first of them was tried.
LEMMA TailOfPatterns ==
  ASSUME todo \in Seq(HookPatterns), todo # <<>>, todo' = Tail(todo)
  PROVE  /\ Head(todo) = todo[1] /\ Head(todo) \in HookPatterns /\ 1 \in 1 .. Len(todo)
         /\ Len(todo') = Len(todo) - 1 /\ Len(todo) \in Nat
         /\ \A i \in 1 .. Len(todo') : i + 1 \in 1 .. Len(todo) /\ todo'[i] = todo[i + 1]
         /\ \A i \in 1 .. Len(todo) : i # 1 => i - 1 \in 1 .. Len(todo') /\ todo'[i - 1] = todo[i]
<1>1. Len(todo) \in Nat \ {0} /\ Len(todo') = Len(todo) - 1
  OBVIOUS
<1>2. \A i \in 1 .. Len(todo') : i + 1 \in 1 .. Len(todo) /\ todo'[i] = todo[i + 1]
  BY <1>1
<1>3. ASSUME NEW i \in 1 .. Len(todo), i # 1
      PROVE  i - 1 \in 1 .. Len(todo') /\ todo'[i - 1] = todo[i]
  <2>1. i - 1 \in 1 .. Len(todo')
    BY <1>1, <1>3
  <2>2. todo'[i - 1] = todo[(i - 1) + 1]
    BY <1>2, <2>1
  <2> QED BY <2>1, <2>2
<1>4. Head(todo) = todo[1] /\ todo[1] \in HookPatterns
  BY <1>1
<1> QED BY <1>1, <1>2, <1>3, <1>4

\* One more pattern is searched for: the first of those to come.
LEMMA SearchedOneMore ==
  ASSUME todo \in Seq(HookPatterns), todo # <<>>, todo' = Tail(todo), Ordered
  PROVE  /\ Ordered'
         /\ \A p : Searched(p)' <=> Searched(p) \/ p = Head(todo)
         /\ Head(todo) = "SetForegroundFpsLimit2" => Searched("SetForegroundFpsLimit")
<1>1. /\ Head(todo) = todo[1] /\ 1 \in 1 .. Len(todo) /\ Len(todo) \in Nat
      /\ Len(todo') = Len(todo) - 1
      /\ \A i \in 1 .. Len(todo') : i + 1 \in 1 .. Len(todo) /\ todo'[i] = todo[i + 1]
      /\ \A i \in 1 .. Len(todo) : i # 1 => i - 1 \in 1 .. Len(todo') /\ todo'[i - 1] = todo[i]
  BY TailOfPatterns
<1>2. Ordered'
  <2> SUFFICES ASSUME NEW i \in 1 .. Len(todo'), NEW j \in 1 .. Len(todo'), i < j,
                      FunctionOf(todo'[i]) = FunctionOf(todo'[j])
               PROVE  todo'[i] = "SetForegroundFpsLimit" /\ todo'[j] = "SetForegroundFpsLimit2"
    BY DEF Ordered, FunctionOf
  <2>1. /\ i + 1 \in 1 .. Len(todo) /\ j + 1 \in 1 .. Len(todo) /\ i + 1 < j + 1
        /\ todo'[i] = todo[i + 1] /\ todo'[j] = todo[j + 1]
    BY <1>1
  <2> QED BY <2>1 DEF Ordered
<1>3. \A i \in 1 .. Len(todo) : i # 1 /\ FunctionOf(todo[i]) = FunctionOf(todo[1]) =>
        todo[1] = "SetForegroundFpsLimit" /\ todo[i] = "SetForegroundFpsLimit2"
  BY <1>1 DEF Ordered
<1>4. ASSUME NEW p PROVE Searched(p)' <=> Searched(p) \/ p = Head(todo)
  <2>1. ASSUME Searched(p)', p # Head(todo) PROVE Searched(p)
    BY <1>1, <2>1 DEF Searched
  <2>2. ASSUME Searched(p) PROVE Searched(p)'
    BY <1>1, <2>2 DEF Searched
  <2>3. ASSUME p = Head(todo) PROVE Searched(p)'
    <3>1. \A i \in 1 .. Len(todo) : i # 1 => todo[i] # p
      BY <1>1, <1>3, <2>3
    <3> QED BY <1>1, <3>1 DEF Searched
  <2> QED BY <2>1, <2>2, <2>3
<1>5. ASSUME Head(todo) = "SetForegroundFpsLimit2" PROVE Searched("SetForegroundFpsLimit")
  <2>1. FunctionOf("SetForegroundFpsLimit") = FunctionOf("SetForegroundFpsLimit2")
    BY DEF FunctionOf
  <2> QED BY <1>1, <1>3, <1>5, <2>1 DEF Searched
<1> QED BY <1>2, <1>4, <1>5

LEMMA HookFunctionSearch ==
  ASSUME Control, Installed, Search, NEW t \in Threads, HookFunction(t)
  PROVE  Search'
<1> DEFINE h == Head(todo)
<1>1. /\ step = "HookFunction" /\ UNCHANGED <<step, once, matches, data, notification>>
      /\ todo \in Seq(HookPatterns) /\ todo # <<>> /\ todo' = Tail(todo)
      /\ data = "code section" /\ Notifies /\ Ordered /\ Superfluous /\ FoundSoFar /\ AttachedOnce
      /\ once # "done" /\ DetourTypeOK
  BY DEF HookFunction, At, Control, TypeOK, OnceRuns, Search
<1>2. h \in HookPatterns /\ FunctionOf(h) \in Functions /\ 1 \in 1 .. Len(todo) /\ h = todo[1]
  BY <1>1, TailOfPatterns, PatternsType
<1>3. /\ Ordered' /\ \A p : Searched(p)' <=> Searched(p) \/ p = h
      /\ h = "SetForegroundFpsLimit2" => Searched("SetForegroundFpsLimit")
  BY <1>1, SearchedOneMore
<1>4. Notifies' /\ \A p : IsFound(p) <=> p \in matches
  BY <1>1 DEF Notifies, IsFound
<1>5. ASSUME UNCHANGED pendingOps PROVE AttachedOnce' /\ Superfluous'
  <2>1. AttachedOnce'
    BY <1>1, <1>5 DEF AttachedOnce
  <2>2. ASSUME NEW i \in 1 .. Len(pendingOps'), NEW j \in 1 .. Len(todo'),
               pendingOps'[i].fn = FunctionOf(todo'[j])
        PROVE  todo'[j] = "SetForegroundFpsLimit2" /\ IsFound("SetForegroundFpsLimit")'
    <3>1. j + 1 \in 1 .. Len(todo) /\ todo'[j] = todo[j + 1]
      BY <1>1, TailOfPatterns
    <3> QED BY <1>1, <1>5, <2>2, <3>1 DEF Superfluous, IsFound
  <2> QED BY <2>1, <2>2 DEF Superfluous, FunctionOf
<1>6. CASE UNCHANGED detourVars /\ (~IsFound(h) \/ Skipped(h))
  <2>1. UNCHANGED <<pendingOps, pointer>>
    BY <1>6 DEF detourVars, transaction
  <2>2. ASSUME NEW f \in Functions
        PROVE  (\E p \in matches : FunctionOf(p) = f /\ Searched(p)')
                 <=> \E p \in matches : FunctionOf(p) = f /\ Searched(p)
    <3>1. CASE h \notin matches
      BY <1>3, <3>1
    <3>2. CASE Skipped(h)
      <4>1. /\ h = "SetForegroundFpsLimit2" /\ "SetForegroundFpsLimit" \in matches
            /\ Searched("SetForegroundFpsLimit") /\ Searched("SetForegroundFpsLimit")'
        BY <1>3, <1>4, <3>2 DEF Skipped
      <4>2. FunctionOf(h) = FunctionOf("SetForegroundFpsLimit")
        BY <4>1 DEF FunctionOf
      <4> QED BY <1>3, <4>1, <4>2
    <3> QED BY <1>4, <1>6, <3>1, <3>2
  <2>3. FoundSoFar'
    BY <1>1, <2>1, <2>2 DEF FoundSoFar, FunctionOf
  <2> QED BY <1>1, <1>3, <1>4, <1>5, <2>1, <2>3 DEF Search
<1>7. CASE /\ IsFound(h) /\ ~Skipped(h)
           /\ pointer' = [pointer EXCEPT ![FunctionOf(h)] = "target"] /\ DetourAttach(t, FunctionOf(h))
  <2> DEFINE f == FunctionOf(h)
  <2>1. \A g \in Functions : pointer'[g] = IF g = f THEN "target" ELSE pointer[g]
    BY <1>1, <1>7 DEF DetourTypeOK
  <2>2. h \in matches /\ FunctionOf(h) = f
    BY <1>4, <1>7
  <2>3. FoundSoFar'
    <3> SUFFICES ASSUME NEW g \in Functions
                 PROVE  pointer'[g] # "null" <=>
                          \E p \in matches : FunctionOf(p) = g /\ Searched(p)'
      BY <1>1 DEF FoundSoFar, FunctionOf
    <3>1. CASE g = f
      BY <1>3, <2>1, <2>2, <3>1
    <3>2. CASE g # f
      <4>1. \A p \in matches : FunctionOf(p) = g => p # h
        BY <3>2
      <4> QED BY <1>1, <1>3, <2>1, <3>2, <4>1 DEF FoundSoFar
    <3> QED BY <3>1, <3>2
  <2>4. \A i \in 1 .. Len(pendingOps) : pendingOps[i].fn # f
    BY <1>1, <1>2, <1>7 DEF Superfluous, Skipped
  <2>5. CASE UNCHANGED pendingOps
    BY <1>1, <1>3, <1>4, <1>5, <2>3, <2>5 DEF Search
  <2>6. CASE AttachSucceeds(f)
    <3>1. PICK o \in Operations : o.fn = f /\ pendingOps' = <<o>> \o pendingOps
      <4> HIDE DEF f
      <4>1. f \in Functions
        BY <1>2 DEF f
      <4> QED BY <1>1, <2>6, <4>1, AttachedOperation
    <3>2. /\ Len(pendingOps) \in Nat /\ Len(pendingOps') = Len(pendingOps) + 1
          /\ pendingOps'[1] = o
          /\ \A i \in 1 .. Len(pendingOps') : i # 1 => /\ i - 1 \in 1 .. Len(pendingOps)
                                                       /\ pendingOps'[i] = pendingOps[i - 1]
      BY <1>1, <3>1, PushedOperations
    <3>3. AttachedOnce'
      <4> SUFFICES ASSUME NEW i \in 1 .. Len(pendingOps'), NEW j \in 1 .. Len(pendingOps'),
                          pendingOps'[i].fn = pendingOps'[j].fn
                   PROVE  i = j
        BY DEF AttachedOnce
      <4>1. CASE i = 1 /\ j # 1
        BY <2>4, <3>1, <3>2, <4>1
      <4>2. CASE i # 1 /\ j = 1
        BY <2>4, <3>1, <3>2, <4>2
      <4>3. CASE i # 1 /\ j # 1
        <5>1. i - 1 = j - 1
          BY <1>1, <3>2, <4>3 DEF AttachedOnce
        <5> QED BY <3>2, <5>1
      <4> QED BY <4>1, <4>2, <4>3
    <3>4. Superfluous'
      <4> SUFFICES ASSUME NEW i \in 1 .. Len(pendingOps'), NEW j \in 1 .. Len(todo'),
                          pendingOps'[i].fn = FunctionOf(todo'[j])
                   PROVE  todo'[j] = "SetForegroundFpsLimit2" /\ IsFound("SetForegroundFpsLimit")'
        BY DEF Superfluous, FunctionOf
      <4>0. j + 1 > 1
        OBVIOUS
      <4>1. j + 1 \in 1 .. Len(todo) /\ todo'[j] = todo[j + 1]
        BY <1>1, TailOfPatterns
      <4>2. CASE i = 1
        <5>1. FunctionOf(todo[1]) = FunctionOf(todo[j + 1])
          BY <1>2, <3>1, <3>2, <4>1, <4>2
        <5>2. h = "SetForegroundFpsLimit" /\ todo[j + 1] = "SetForegroundFpsLimit2"
          BY <1>1, <1>2, <4>0, <4>1, <5>1 DEF Ordered
        <5> QED BY <1>1, <1>7, <4>1, <5>2 DEF IsFound
      <4>3. CASE i # 1
        <5>1. i - 1 \in 1 .. Len(pendingOps) /\ pendingOps[i - 1].fn = FunctionOf(todo[j + 1])
          BY <3>2, <4>1, <4>3
        <5>2. todo[j + 1] = "SetForegroundFpsLimit2" /\ IsFound("SetForegroundFpsLimit")
          BY <1>1, <4>1, <5>1 DEF Superfluous
        <5> QED BY <1>1, <4>1, <5>2 DEF IsFound
      <4> QED BY <4>2, <4>3
    <3> QED BY <1>1, <1>3, <1>4, <2>3, <3>3, <3>4 DEF Search
  <2> QED BY <1>7, <2>5, <2>6, AttachWays DEF AttachFails
<1> QED BY <1>6, <1>7 DEF HookFunction

LEMMA CommitSearch ==
  ASSUME Control, Installed, Search, NEW t \in Threads, CommitHooks(t) \/ Committing(t)
  PROVE  Search'
<1>1. /\ step \in {"HookFunction", "committing"} /\ step' = "committing"
      /\ UNCHANGED <<once, matches, data, notification>> /\ once # "done" /\ DetourTypeOK
  BY DEF CommitHooks, Committing, At, startVars, Control, TypeOK, OnceRuns
<1>2. UNCHANGED pendingOps \/ pendingOps' = <<>>
  BY DEF CommitHooks, DetourTransactionCommit, Committing, CommitStep, PatchTarget, MovePointer,
         AllPatched, RestorePermission, EndTransaction, transaction
<1>3. AttachedOnce'
  <2>1. CASE UNCHANGED pendingOps
    BY <2>1 DEF Search, AttachedOnce
  <2>2. CASE pendingOps' = <<>>
    <3>1. 1 .. Len(pendingOps') = {}
      BY <2>2
    <3> QED BY <3>1 DEF AttachedOnce
  <2> QED BY <1>2, <2>1, <2>2
<1>4. FoundAll
  <2>1. CASE CommitHooks(t)
    <3>1. todo = <<>> /\ step = "HookFunction"
      BY <2>1 DEF CommitHooks, At, AllSearched
    <3>2. 1 .. Len(todo) = {}
      BY <3>1
    <3> QED BY <3>1, <3>2 DEF Search, FoundSoFar, FoundAll, Searched
  <2>2. CASE Committing(t)
    BY <2>2 DEF Committing, At, Search
  <2> QED BY <2>1, <2>2
<1>5. \A f \in Functions : pointer'[f] # "null" <=> pointer[f] # "null"
  <2>1. CASE UNCHANGED pointer
    BY <2>1
  <2>2. CASE MovePointer(t)
    <3>1. /\ MoreOperations /\ pointer' = [pointer EXCEPT ![Operation.fn] = "trampoline"]
      BY <2>2 DEF MovePointer, Moved, Installed, Progress
    <3>2. Pending(Operation.fn) /\ Operation.fn \in Functions
      BY <1>1, <3>1, OperationType DEF Pending
    <3> QED BY <1>1, <3>1, <3>2 DEF Installed, Pointers, DetourTypeOK
  <2> QED BY <2>1, <2>2 DEF CommitHooks, DetourTransactionCommit, Committing, CommitStep, PatchTarget,
                            AllPatched, RestorePermission, EndTransaction
<1>6. FoundAll'
  BY <1>1, <1>4, <1>5 DEF FoundAll, FunctionOf
<1>7. Notifies'
  BY <1>1 DEF Search, Notifies
<1> QED BY <1>1, <1>3, <1>6, <1>7 DEF Search

\* Steps that neither attach nor look for anything.
LEMMA SameSearch ==
  ASSUME Search, UNCHANGED <<detourVars, matches, todo, data, notification>>,
         step' \in {step, "none", "InitConfigValues", "ScannerSetup"}
           /\ (once' = "done" => once = "done" \/ step = "committing")
  PROVE  Search'
<1>1. UNCHANGED <<pendingOps, pointer>>
  BY DEF detourVars, transaction
<1>2. /\ (Ordered => Ordered') /\ (Notifies => Notifies') /\ (AttachedOnce => AttachedOnce')
      /\ (Superfluous => Superfluous') /\ (FoundAll => FoundAll')
  BY <1>1 DEF Ordered, Notifies, AttachedOnce, Superfluous, FoundAll, FunctionOf, IsFound
<1>3. FoundSoFar => FoundSoFar'
  BY <1>1 DEF FoundSoFar, FunctionOf, Searched
<1> QED BY <1>2, <1>3 DEF Search

LEMMA SearchStep == Control /\ Installed /\ Search /\ [Next]_vars => Search'
<1> SUFFICES ASSUME Control, Installed, Search, [Next]_vars PROVE Search'
  OBVIOUS
<1>1. ASSUME NEW t \in Threads, CallMain(t) \/ CallOnce(t) \/ InitConfigValues(t) PROVE Search'
  BY <1>1, SameSearch DEF CallMain, CallOnce, InitConfigValues, AfterConfigValues, OnceAfterThrow, Search
<1>2. ASSUME NEW t \in Threads, InitDone(t) PROVE Search'
  BY <1>2, SameSearch DEF InitDone, At
<1>3. ASSUME NEW t \in Threads, ScannerSetup(t) \/ InitMessaging(t) PROVE Search'
  <2>1. /\ UNCHANGED <<detourVars, once, matches>> /\ data' = "code section"
        /\ step \in {"ScannerSetup", "InitMessaging"}
        /\ step' \in {"InitMessaging", "DetourTransactionBegin"}
        /\ step' = "DetourTransactionBegin" => notification' <=> \E p \in NotificationPatterns : IsFound(p)
        /\ step' = "DetourTransactionBegin" => data = "code section"
    BY <1>3 DEF ScannerSetup, InitMessaging, At, Search
  <2>2. once # "done"
    BY <2>1 DEF Control, OnceRuns
  <2>3. AttachedOnce'
    BY <2>1 DEF Search, AttachedOnce, detourVars, transaction
  <2>4. step' = "DetourTransactionBegin" => Notifies'
    BY <2>1 DEF Notifies, IsFound, NotificationPatterns
  <2> QED BY <2>1, <2>2, <2>3, <2>4 DEF Search
<1>4. ASSUME NEW t \in Threads, InitDetours(t) PROVE Search'
  <2>1. /\ step = "DetourTransactionBegin" /\ step' = "HookFunction" /\ todo' = Patterns
        /\ UNCHANGED <<once, matches, data, notification>> /\ once # "done"
        /\ pendingThread = NoThread
    BY <1>4 DEF InitDetours, At, Control, OnceRuns, OwnsTransaction
  <2>2. pendingOps' = <<>> /\ UNCHANGED pointer /\ \A f \in Functions : pointer[f] = "null"
    BY <1>4, <2>1 DEF InitDetours, DetourTransactionBegin, Installed, Progress, Fresh
  <2>3. 1 .. Len(pendingOps') = {}
    BY <2>2
  <2>4. AttachedOnce' /\ Superfluous'
    BY <2>3 DEF AttachedOnce, Superfluous
  <2>5. Ordered' /\ \A p \in AllPatterns : FunctionOf(p) \in Functions => ~Searched(p)'
    BY <2>1, AllPatternsToCome
  <2>6. FoundSoFar'
    BY <2>1, <2>2, <2>5 DEF FoundSoFar, Control, TypeOK, FunctionOf
  <2> QED BY <2>1, <2>4, <2>5, <2>6 DEF Search, Notifies
<1>5. ASSUME NEW t \in Threads, HookFunction(t) PROVE Search'
  BY <1>5, HookFunctionSearch
<1>6. ASSUME NEW t \in Threads, CommitHooks(t) \/ Committing(t) PROVE Search'
  BY <1>6, CommitSearch
<1>7. CASE UNCHANGED vars
  BY <1>7, SameSearch DEF vars, startVars
<1> QED BY <1>1, <1>2, <1>3, <1>4, <1>5, <1>6, <1>7 DEF Next, InitStep

THEOREM SearchInvariance == Spec => []Search
  BY SearchInit, SearchStep, ControlInvariance, InstalledInvariance, PTL DEF Spec

\* Two patterns lead to SetForegroundFpsLimit, and still no function is attached twice.
THEOREM NeverTwice == Spec => []AttachedOnce
<1>1. Search => AttachedOnce
  BY DEF Search
<1> QED BY <1>1, SearchInvariance, PTL

\* Whichever patterns occur, exactly the functions they lead to have a pointer.
THEOREM FindsEach == Spec => []FindsWhatOccurs
<1>1. Search => FindsWhatOccurs
  BY DEF Search, FindsWhatOccurs, Notifies, FoundAll
<1> QED BY <1>1, SearchInvariance, PTL

-----------------------------------------------------------------------------
(* The protection of the client's code pages during the transaction. *)

\* What a step of the start-up does with the library.
LEMMA LibrarySteps ==
  ASSUME Control, [Next]_vars
  PROVE  \/ UNCHANGED detourVars
         \/ \E t \in Threads :
              /\ pendingThread # NoThread => pendingThread = t
              /\ \/ DetourTransactionBegin(t) /\ pendingThread = NoThread /\ phase = "idle"
                 \/ phase = "idle" /\ pendingThread = t /\ \E f \in Functions : DetourAttach(t, f)
                 \/ DetourTransactionCommit(t) /\ pendingThread = t
                 \/ CommitStep(t)
<1>1. ASSUME NEW t \in Threads, At(t, "HookFunction")
      PROVE  phase = "idle" /\ pendingThread = t
  <2>1. /\ Initializing(t) /\ phase = "idle" /\ pendingThread \in Threads
    BY <1>1 DEF At, Initializing, Control, OwnsTransaction, TypeOK, DetourTypeOK
  <2> QED BY <2>1, OneAtAStep
<1>2. ASSUME NEW t \in Threads, CallMain(t) \/ CallOnce(t) \/ InitConfigValues(t) \/ ScannerSetup(t)
                                \/ InitMessaging(t) \/ InitDone(t)
      PROVE  UNCHANGED detourVars
  BY <1>2 DEF CallMain, CallOnce, InitConfigValues, ScannerSetup, InitMessaging, InitDone
<1>3. ASSUME NEW t \in Threads, InitDetours(t)
      PROVE  DetourTransactionBegin(t) /\ pendingThread = NoThread /\ phase = "idle"
  BY <1>3 DEF InitDetours, At, Control, OwnsTransaction
<1>4. ASSUME NEW t \in Threads, HookFunction(t)
      PROVE  UNCHANGED detourVars \/ \E f \in Functions : DetourAttach(t, f)
  <2>1. todo \in Seq(HookPatterns) /\ todo # <<>>
    BY <1>4 DEF HookFunction, Control, TypeOK
  <2>2. FunctionOf(Head(todo)) \in Functions
    <3>1. Head(todo) \in HookPatterns
      BY <2>1
    <3> QED BY <3>1, PatternsType
  <2> QED BY <1>4, <2>2 DEF HookFunction
<1>5. ASSUME NEW t \in Threads, HookFunction(t) \/ CommitHooks(t) PROVE At(t, "HookFunction")
  BY <1>5 DEF HookFunction, CommitHooks
<1>6. ASSUME NEW t \in Threads, CommitHooks(t) PROVE DetourTransactionCommit(t)
  BY <1>6 DEF CommitHooks
<1>7. ASSUME NEW t \in Threads, Committing(t) PROVE CommitStep(t) /\ pendingThread = t
  BY <1>7 DEF Committing, CommitStep, PatchTarget, MovePointer, AllPatched, RestorePermission,
              EndTransaction
<1>8. CASE \E t \in Threads : CallMain(t) \/ InitStep(t)
  BY <1>1, <1>2, <1>3, <1>4, <1>5, <1>6, <1>7, <1>8 DEF InitStep
<1>9. CASE UNCHANGED vars
  BY <1>9 DEF vars
<1> QED BY <1>8, <1>9 DEF Next

-----------------------------------------------------------------------------
(* A page stays writable until the loop that restores it. *)

Writable ==
  pendingThread # NoThread /\ phase \in {"idle", "patch", "pointer"} =>
    \A i \in 1 .. Len(pendingOps) : /\ perm[FirstPage[pendingOps[i].fn]] = "RWX"
                                    /\ perm[LastPage[pendingOps[i].fn]] = "RWX"

LEMMA WritableInit == Init => Writable
  BY DEF Init, DetourInit, Writable

LEMMA WritableStep ==
  ASSUME Control, Writable, [Next]_vars
  PROVE  Writable'
<1>0. DetourTypeOK
  BY DEF Control, TypeOK
<1>1. CASE UNCHANGED detourVars
  BY <1>1 DEF Writable, detourVars, transaction
<1>2. ASSUME NEW t \in Threads, DetourTransactionBegin(t), pendingThread = NoThread
      PROVE  Writable'
  BY <1>2 DEF DetourTransactionBegin, Writable
<1>3. ASSUME NEW t \in Threads, NEW f \in Functions, DetourAttach(t, f),
             phase = "idle", pendingThread = t
      PROVE  Writable'
  <2>1. CASE AttachSucceeds(f)
    <3>1. PICK o \in Operations : /\ o.fn = f /\ pendingOps' = <<o>> \o pendingOps
                                  /\ perm' = Protect(o, "RWX")
      BY <1>0, <2>1, AttachedOperation
    <3>2. /\ \A p \in Pages : perm[p] = "RWX" => perm'[p] = "RWX"
          /\ perm'[FirstPage[f]] = "RWX" /\ perm'[LastPage[f]] = "RWX"
      BY <3>1, FirstPageAssumption, LastPageAssumption DEF Protect, Target
    <3>3. \A i \in 1 .. Len(pendingOps) : /\ perm[FirstPage[pendingOps[i].fn]] = "RWX"
                                          /\ perm[LastPage[pendingOps[i].fn]] = "RWX"
      BY <1>3, NoThreadAssumption DEF Writable
    <3>4. \A i \in 1 .. Len(pendingOps) : pendingOps[i].fn \in Functions
      BY <1>0, OperationFunctions
    <3>5. \A i \in 1 .. Len(pendingOps') : /\ perm'[FirstPage[pendingOps'[i].fn]] = "RWX"
                                           /\ perm'[LastPage[pendingOps'[i].fn]] = "RWX"
      BY <1>0, <3>1, <3>2, <3>3, <3>4, PushedOperations, FirstPageAssumption, LastPageAssumption
    <3> QED BY <3>5 DEF Writable
  <2>2. CASE UNCHANGED <<pendingOps, perm>>
    BY <1>3, <2>2 DEF Writable, DetourAttach
  <2> QED BY <1>3, <2>1, <2>2, AttachWays DEF AttachFails
<1>4. ASSUME NEW t \in Threads, DetourTransactionCommit(t), pendingThread = t
      PROVE  Writable'
  BY <1>4 DEF DetourTransactionCommit, Writable, transaction
<1>5. ASSUME NEW t \in Threads, CommitStep(t)
      PROVE  Writable'
  BY <1>5 DEF CommitStep, PatchTarget, MovePointer, AllPatched, RestorePermission, EndTransaction,
              Writable, transaction
<1> QED BY <1>1, <1>2, <1>3, <1>4, <1>5, LibrarySteps

THEOREM WritableInvariance == Spec => []Writable
  BY WritableInit, WritableStep, ControlInvariance, PTL DEF Spec

\* Wherever the patched bytes of the functions lie, and whichever of them share a
\* page, no byte is written to a page that is not writable.
THEOREM WritesWritable == Spec => PatchesWritablePages
<1> DEFINE Written == \A f \in Functions : code'[f] # code[f] =>
                        perm[FirstPage[f]] = "RWX" /\ perm[LastPage[f]] = "RWX"
<1>1. ASSUME Control, Writable, [Next]_vars PROVE [Written]_detourVars
  <2>1. CASE UNCHANGED detourVars
    BY <2>1
  <2>2. ASSUME NEW t \in Threads, PatchTarget(t) PROVE Written
    <3>1. DetourTypeOK /\ MoreOperations /\ pendingThread # NoThread /\ phase = "patch"
      BY <1>1, <2>2, NoThreadAssumption DEF Control, TypeOK, PatchTarget
    <3>2. perm[FirstPage[Operation.fn]] = "RWX" /\ perm[LastPage[Operation.fn]] = "RWX"
      BY <1>1, <3>1, OperationType DEF Writable
    <3>3. \A f \in Functions : code'[f] # code[f] => f = Operation.fn
      BY <2>2, <3>1 DEF PatchTarget, DetourTypeOK
    <3> QED BY <3>2, <3>3
  <2>3. ASSUME NEW t \in Threads,
               \/ DetourTransactionBegin(t) \/ DetourTransactionCommit(t)
               \/ \E f \in Functions : DetourAttach(t, f)
               \/ MovePointer(t) \/ AllPatched(t) \/ RestorePermission(t) \/ EndTransaction(t)
        PROVE  Written
    BY <2>3 DEF DetourTransactionBegin, DetourTransactionCommit, DetourAttach, MovePointer,
                AllPatched, RestorePermission, EndTransaction, detourVars
  <2> QED BY <1>1, <2>1, <2>2, <2>3, LibrarySteps DEF CommitStep
<1> QED BY <1>1, ControlInvariance, WritableInvariance, PTL DEF Spec, PatchesWritablePages

-----------------------------------------------------------------------------
(* The old protections. *)

\* InitDetours looks for g before f.
Before(g, f) ==
  /\ g # f
  /\ \E i, j \in 1 .. Len(Patterns) :
       i < j /\ FunctionOf(Patterns[i]) = g /\ FunctionOf(Patterns[j]) = f

\* When a function goes over the end of a page, one attached before it that touches
\* its first page touches its last one too: the library saves the protection of the
\* first page only.
OpenedTogether ==
  \A f, g \in Functions :
    Before(g, f) /\ FirstPage[f] \in {FirstPage[g], LastPage[g]} =>
      LastPage[f] \in {FirstPage[g], LastPage[g]}

\* Operations are in the order of the patterns, the latest first.
InOrder ==
  \A i, j \in 1 .. Len(pendingOps) : i < j => Before(pendingOps[j].fn, pendingOps[i].fn)

\* So are the patterns to come, behind those of the operations.
ToComeInOrder ==
  /\ \A i, j \in 1 .. Len(todo) :
       i < j => FunctionOf(todo[i]) = FunctionOf(todo[j])
                  \/ Before(FunctionOf(todo[i]), FunctionOf(todo[j]))
  /\ \A i \in 1 .. Len(pendingOps), j \in 1 .. Len(todo) :
       pendingOps[i].fn = FunctionOf(todo[j]) \/ Before(pendingOps[i].fn, FunctionOf(todo[j]))

Orders == InOrder /\ (step = "HookFunction" => ToComeInOrder)

\* Which function comes first does not change, and so neither does the order of the
\* operations as long as they are the same.
LEMMA BeforeStays ==
  /\ \A g, f : Before(g, f)' <=> Before(g, f)
  /\ UNCHANGED pendingOps /\ InOrder => InOrder'
<1>1. \A g, f : Before(g, f)' <=> Before(g, f)
  BY DEF Before, FunctionOf
<1> QED BY <1>1 DEF InOrder

LEMMA OrdersInit == Init => Orders
<1> SUFFICES ASSUME Init PROVE Orders
  OBVIOUS
<1>1. pendingOps = <<>> /\ step = "none"
  BY DEF Init, DetourInit
<1>2. 1 .. Len(pendingOps) = {}
  BY <1>1
<1> QED BY <1>1, <1>2 DEF Orders, InOrder

LEMMA SameOrders ==
  ASSUME Orders, UNCHANGED <<pendingOps, todo>>, step' = "HookFunction" => step = "HookFunction"
  PROVE  Orders'
<1>1. \A g, h : Before(g, h)' <=> Before(g, h)
  BY BeforeStays
<1>2. InOrder => InOrder'
  BY BeforeStays
<1>3. \A p : FunctionOf(p)' = FunctionOf(p)
  BY DEF FunctionOf
<1>4. ToComeInOrder => ToComeInOrder'
  BY <1>1, <1>3 DEF ToComeInOrder
<1> QED BY <1>2, <1>4 DEF Orders

LEMMA HookFunctionOrders ==
  ASSUME Control, Orders, AttachedOnce', NEW t \in Threads, HookFunction(t)
  PROVE  Orders'
<1> DEFINE f == FunctionOf(Head(todo))
<1>1. /\ InOrder /\ ToComeInOrder /\ DetourTypeOK
      /\ todo \in Seq(HookPatterns) /\ todo # <<>> /\ todo' = Tail(todo)
  BY DEF HookFunction, At, Orders, Control, TypeOK
<1>2. /\ Head(todo) = todo[1] /\ 1 \in 1 .. Len(todo) /\ f \in Functions
      /\ \A i \in 1 .. Len(todo') : i + 1 \in 1 .. Len(todo) /\ todo'[i] = todo[i + 1]
  BY <1>1, TailOfPatterns, PatternsType
<1>3. \A g, h : Before(g, h)' <=> Before(g, h)
  BY BeforeStays
<1>4. ASSUME NEW i \in 1 .. Len(todo'), NEW j \in 1 .. Len(todo'), i < j
      PROVE  FunctionOf(todo'[i]) = FunctionOf(todo'[j])
               \/ Before(FunctionOf(todo'[i]), FunctionOf(todo'[j]))
  <2>1. /\ i + 1 \in 1 .. Len(todo) /\ j + 1 \in 1 .. Len(todo) /\ i + 1 < j + 1
        /\ todo'[i] = todo[i + 1] /\ todo'[j] = todo[j + 1]
    BY <1>2, <1>4
  <2> QED BY <1>1, <2>1 DEF ToComeInOrder
<1>5. CASE UNCHANGED pendingOps
  <2>1. ASSUME NEW i \in 1 .. Len(pendingOps), NEW j \in 1 .. Len(todo')
        PROVE  pendingOps[i].fn = FunctionOf(todo'[j])
                 \/ Before(pendingOps[i].fn, FunctionOf(todo'[j]))
    BY <1>1, <1>2 DEF ToComeInOrder
  <2> QED BY <1>1, <1>3, <1>4, <1>5, <2>1 DEF Orders, InOrder, ToComeInOrder, FunctionOf
<1>6. CASE AttachSucceeds(f)
  <2>1. PICK o \in Operations : o.fn = f /\ pendingOps' = <<o>> \o pendingOps
    <3> HIDE DEF f
    <3> QED BY <1>1, <1>2, <1>6, AttachedOperation
  <2>2. /\ Len(pendingOps) \in Nat /\ Len(pendingOps') = Len(pendingOps) + 1
        /\ pendingOps'[1] = o /\ 1 \in 1 .. Len(pendingOps')
        /\ \A i \in 1 .. Len(pendingOps') : i # 1 => /\ i - 1 \in 1 .. Len(pendingOps)
                                                     /\ pendingOps'[i] = pendingOps[i - 1]
    BY <1>1, <2>1, PushedOperations
  <2>3. ASSUME NEW i \in 1 .. Len(pendingOps'), NEW j \in 1 .. Len(pendingOps'), i < j
        PROVE  Before(pendingOps'[j].fn, pendingOps'[i].fn)
    <3>1. j # 1 /\ j - 1 \in 1 .. Len(pendingOps) /\ pendingOps'[j] = pendingOps[j - 1]
      BY <2>2, <2>3
    <3>2. CASE i = 1
      <4>1. pendingOps'[j].fn # f
        BY <2>1, <2>2, <3>1 DEF AttachedOnce
      <4> QED BY <1>1, <1>2, <2>1, <2>2, <3>1, <3>2, <4>1 DEF ToComeInOrder
    <3>3. CASE i # 1
      <4>1. /\ i - 1 \in 1 .. Len(pendingOps) /\ pendingOps'[i] = pendingOps[i - 1]
            /\ i - 1 < j - 1
        BY <2>2, <2>3, <3>3
      <4> QED BY <1>1, <3>1, <4>1 DEF InOrder
    <3> QED BY <3>2, <3>3
  <2>4. ASSUME NEW i \in 1 .. Len(pendingOps'), NEW j \in 1 .. Len(todo')
        PROVE  pendingOps'[i].fn = FunctionOf(todo'[j])
                 \/ Before(pendingOps'[i].fn, FunctionOf(todo'[j]))
    <3>1. j + 1 \in 1 .. Len(todo) /\ todo'[j] = todo[j + 1] /\ 1 < j + 1
      BY <1>2
    <3>2. CASE i = 1
      BY <1>1, <1>2, <2>1, <2>2, <3>1, <3>2 DEF ToComeInOrder
    <3>3. CASE i # 1
      BY <1>1, <2>2, <3>1, <3>3 DEF ToComeInOrder
    <3> QED BY <3>2, <3>3
  <2> QED BY <1>3, <1>4, <2>3, <2>4 DEF Orders, InOrder, ToComeInOrder, FunctionOf
<1>7. UNCHANGED pendingOps \/ AttachSucceeds(f)
  BY AttachWays DEF HookFunction, AttachFails, detourVars, transaction
<1> QED BY <1>5, <1>6, <1>7

LEMMA OrdersStep == Control /\ Orders /\ AttachedOnce' /\ [Next]_vars => Orders'
<1> SUFFICES ASSUME Control, Orders, AttachedOnce', [Next]_vars PROVE Orders'
  OBVIOUS
<1>1. ASSUME NEW t \in Threads,
             CallMain(t) \/ CallOnce(t) \/ InitConfigValues(t) \/ ScannerSetup(t) \/ InitMessaging(t)
             \/ InitDone(t)
      PROVE  Orders'
  BY <1>1, SameOrders DEF CallMain, CallOnce, InitConfigValues, AfterConfigValues, ScannerSetup,
                          InitMessaging, InitDone, detourVars, transaction
<1>2. ASSUME NEW t \in Threads, InitDetours(t) PROVE Orders'
  <2>1. pendingOps' = <<>> /\ todo' = Patterns
    BY <1>2 DEF InitDetours, At, DetourTransactionBegin, Control, OwnsTransaction
  <2>2. 1 .. Len(pendingOps') = {}
    BY <2>1
  <2>3. \A i, j \in 1 .. Len(todo') :
          i < j => FunctionOf(todo'[i]) = FunctionOf(todo'[j])
                     \/ Before(FunctionOf(todo'[i]), FunctionOf(todo'[j]))
    BY <2>1 DEF Before
  <2>4. \A g, h : Before(g, h)' <=> Before(g, h)
    BY BeforeStays
  <2> QED BY <2>2, <2>3, <2>4 DEF Orders, InOrder, ToComeInOrder, FunctionOf
<1>3. ASSUME NEW t \in Threads, HookFunction(t) PROVE Orders'
  BY <1>3, HookFunctionOrders
<1>4. ASSUME NEW t \in Threads, CommitHooks(t) \/ Committing(t) PROVE Orders'
  <2>1. step' # "HookFunction" /\ (UNCHANGED pendingOps \/ pendingOps' = <<>>)
    BY <1>4 DEF CommitHooks, DetourTransactionCommit, Committing, At, startVars, CommitStep, PatchTarget,
                MovePointer, AllPatched, RestorePermission, EndTransaction, transaction
  <2>2. CASE UNCHANGED pendingOps
    BY <2>1, <2>2, BeforeStays DEF Orders
  <2>3. CASE pendingOps' = <<>>
    <3>1. 1 .. Len(pendingOps') = {}
      BY <2>3
    <3> QED BY <2>1, <3>1 DEF Orders, InOrder
  <2> QED BY <2>1, <2>2, <2>3
<1>5. CASE UNCHANGED vars
  BY <1>5, SameOrders DEF vars, startVars, detourVars, transaction
<1> QED BY <1>1, <1>2, <1>3, <1>4, <1>5 DEF Next, InitStep

LEMMA OrdersInvariance == Spec => []Orders
  BY OrdersInit, OrdersStep, ControlInvariance, NeverTwice, PTL DEF Spec

\* The first of the operations that are still to be undone.
Left == IF phase \in {"restore", "abort"} THEN cursor ELSE 1

\* A page is writable because of an operation that is still to be undone, and one
\* that will leave its pages writable has an earlier one on them, undone after it.
Layers ==
  /\ NoTransaction => pendingOps = <<>> /\ region # "RWX"
  /\ \A p \in Pages : perm[p] = "RWX" =>
       \E i \in Left .. Len(pendingOps) : p \in Target(pendingOps[i])
  /\ \A i \in 1 .. Len(pendingOps) : pendingOps[i].perm = "RWX" =>
       \A p \in Target(pendingOps[i]) :
         \E j \in i + 1 .. Len(pendingOps) : p \in Target(pendingOps[j])

LEMMA LayersInit == Init => Layers
<1> SUFFICES ASSUME Init PROVE Layers
  OBVIOUS
<1>1. pendingOps = <<>> /\ region = "none" /\ perm = [p \in Pages |-> "RX"]
  BY DEF Init, DetourInit
<1>2. 1 .. Len(pendingOps) = {}
  BY <1>1
<1> QED BY <1>1, <1>2 DEF Layers

LEMMA AttachLayers ==
  ASSUME OpenedTogether, DetourTypeOK, Layers, InOrder', phase = "idle", pendingThread # NoThread,
         NEW f \in Functions, AttachSucceeds(f), UNCHANGED <<pendingThread, phase, cursor>>
  PROVE  Layers'
<1>1. PICK o \in Operations : /\ o.fn = f /\ o.perm = perm[FirstPage[f]]
                              /\ pendingOps' = <<o>> \o pendingOps /\ perm' = Protect(o, "RWX")
  BY AttachedOperation
<1>2. /\ Len(pendingOps) \in Nat /\ Len(pendingOps') = Len(pendingOps) + 1
      /\ pendingOps'[1] = o
      /\ \A i \in 1 .. Len(pendingOps) : pendingOps'[i + 1] = pendingOps[i]
      /\ \A i \in 1 .. Len(pendingOps') : i # 1 => /\ i - 1 \in 1 .. Len(pendingOps)
                                                   /\ pendingOps'[i] = pendingOps[i - 1]
  BY <1>1, PushedOperations
<1>3. \A i \in 1 .. Len(pendingOps) : i + 1 \in 1 .. Len(pendingOps') /\ i + 1 # 1
  BY <1>2
<1>4. Left = 1 /\ Left' = 1
  BY DEF Left
<1>5. ASSUME NEW p \in Pages, perm'[p] = "RWX"
      PROVE  \E i \in Left' .. Len(pendingOps') : p \in Target(pendingOps'[i])
  <2>1. CASE p \in Target(o)
    <3>1. 1 \in 1 .. Len(pendingOps')
      BY <1>2
    <3> QED BY <1>2, <1>4, <2>1, <3>1
  <2>2. CASE p \notin Target(o)
    <3>1. perm[p] = "RWX"
      BY <1>1, <1>5, <2>2 DEF Protect
    <3>2. PICK i \in 1 .. Len(pendingOps) : p \in Target(pendingOps[i])
      BY <1>4, <3>1 DEF Layers
    <3> QED BY <1>2, <1>3, <1>4, <3>2
  <2> QED BY <2>1, <2>2
<1>6. ASSUME o.perm = "RWX", NEW p \in Target(o)
      PROVE  \E j \in 1 + 1 .. Len(pendingOps') : p \in Target(pendingOps'[j])
  <2>1. PICK i \in 1 .. Len(pendingOps) : FirstPage[f] \in Target(pendingOps[i])
    BY <1>1, <1>4, <1>6, FirstPageAssumption DEF Layers
  <2>2. pendingOps[i].fn \in Functions /\ Before(pendingOps[i].fn, f)
    <3>1. pendingOps[i].fn \in Functions
      BY OperationFunctions
    <3>2. 1 \in 1 .. Len(pendingOps') /\ i + 1 \in 1 .. Len(pendingOps') /\ 1 < i + 1
      BY <1>2, <1>3
    <3>3. Before(pendingOps'[i + 1].fn, pendingOps'[1].fn)
      BY <3>2 DEF InOrder, Before, FunctionOf
    <3> QED BY <1>1, <1>2, <3>1, <3>3
  <2>3. LastPage[f] \in Target(pendingOps[i])
    BY <2>1, <2>2 DEF OpenedTogether, Target
  <2>4. p \in Target(pendingOps[i])
    BY <1>1, <1>6, <2>1, <2>3 DEF Target
  <2>5. i + 1 \in 1 + 1 .. Len(pendingOps')
    BY <1>2
  <2> QED BY <1>2, <2>4, <2>5
<1>7. ASSUME NEW i \in 1 .. Len(pendingOps'), i # 1, pendingOps'[i].perm = "RWX",
             NEW p \in Target(pendingOps'[i])
      PROVE  \E j \in i + 1 .. Len(pendingOps') : p \in Target(pendingOps'[j])
  <2>1. i - 1 \in 1 .. Len(pendingOps) /\ pendingOps'[i] = pendingOps[i - 1]
    BY <1>2, <1>7
  <2>2. PICK j \in (i - 1) + 1 .. Len(pendingOps) : p \in Target(pendingOps[j])
    BY <1>7, <2>1 DEF Layers
  <2>3. j \in 1 .. Len(pendingOps) /\ j + 1 \in i + 1 .. Len(pendingOps')
    BY <1>2, <2>1
  <2> QED BY <1>2, <2>2, <2>3
<1>8. \A i \in 1 .. Len(pendingOps') : pendingOps'[i].perm = "RWX" =>
        \A p \in Target(pendingOps'[i]) :
          \E j \in i + 1 .. Len(pendingOps') : p \in Target(pendingOps'[j])
  BY <1>2, <1>6, <1>7
<1>9. \A o1 : Target(o1)' = Target(o1)
  BY DEF Target
<1> QED BY <1>5, <1>8, <1>9 DEF Layers, NoTransaction

LEMMA RestoreLayers ==
  ASSUME DetourTypeOK, Layers, NEW t \in Threads, RestorePermission(t)
  PROVE  Layers'
<1>1. /\ phase \in {"restore", "abort"} /\ cursor' = cursor + 1 /\ MoreOperations
      /\ perm' = Protect(Operation, Operation.perm)
      /\ UNCHANGED <<pendingThread, pendingOps, region, phase>>
  BY DEF RestorePermission, transaction
<1>2. /\ cursor \in 1 .. Len(pendingOps) /\ Operation = pendingOps[cursor]
      /\ Left = cursor /\ Left' = cursor + 1
  BY <1>1, OperationType DEF Left
<1>3. ASSUME NEW p \in Pages, perm'[p] = "RWX"
      PROVE  \E i \in cursor + 1 .. Len(pendingOps) : p \in Target(pendingOps[i])
  <2>1. CASE p \in Target(Operation)
    <3>1. Operation.perm = "RWX"
      BY <1>1, <1>3, <2>1 DEF Protect
    <3> QED BY <1>2, <2>1, <3>1 DEF Layers
  <2>2. CASE p \notin Target(Operation)
    <3>1. perm[p] = "RWX"
      BY <1>1, <1>3, <2>2 DEF Protect
    <3>2. PICK i \in cursor .. Len(pendingOps) : p \in Target(pendingOps[i])
      BY <1>2, <3>1 DEF Layers
    <3>3. i # cursor
      BY <1>2, <2>2, <3>2
    <3>4. i \in cursor + 1 .. Len(pendingOps)
      BY <1>2, <3>3
    <3> QED BY <3>2, <3>4
  <2> QED BY <2>1, <2>2
<1>4. \A o : Target(o)' = Target(o)
  BY DEF Target
<1> QED BY <1>1, <1>2, <1>3, <1>4 DEF Layers, NoTransaction

LEMMA EndLayers ==
  ASSUME DetourTypeOK, Layers, NEW t \in Threads, EndTransaction(t)
  PROVE  Layers'
<1>1. /\ phase \in {"restore", "abort"} /\ ~MoreOperations /\ pendingOps' = <<>>
      /\ region' # "RWX" /\ UNCHANGED perm
  BY DEF EndTransaction
<1>2. Left .. Len(pendingOps) = {} /\ 1 .. Len(pendingOps') = {}
  BY <1>1 DEF Left, MoreOperations, DetourTypeOK
<1>3. \A p \in Pages : perm'[p] # "RWX"
  BY <1>1, <1>2 DEF Layers
<1> QED BY <1>1, <1>2, <1>3 DEF Layers

\* Steps that change neither protections nor operations.
LEMMA SameLayers ==
  ASSUME Layers, UNCHANGED <<pendingOps, perm>>, Left' = Left,
         NoTransaction' => NoTransaction, NoTransaction' => UNCHANGED region
  PROVE  Layers'
  BY DEF Layers, Target

LEMMA LayersStep ==
  ASSUME OpenedTogether, Control, Layers, InOrder', [Next]_vars
  PROVE  Layers'
<1>0. DetourTypeOK
  BY DEF Control, TypeOK
<1>1. CASE UNCHANGED detourVars
  BY <1>1, SameLayers DEF detourVars, transaction, Left, NoTransaction
<1>2. ASSUME NEW t \in Threads, DetourTransactionBegin(t), pendingThread = NoThread, phase = "idle"
      PROVE  Layers'
  <2>1. /\ UNCHANGED <<pendingOps, perm, phase, cursor>> /\ pendingThread' # NoThread
    BY <1>2, NoThreadAssumption DEF DetourTransactionBegin, Layers, NoTransaction
  <2> QED BY <2>1, SameLayers DEF Left, NoTransaction
<1>3. ASSUME NEW t \in Threads, NEW f \in Functions, DetourAttach(t, f),
             phase = "idle", pendingThread = t
      PROVE  Layers'
  <2>1. pendingThread # NoThread /\ UNCHANGED <<pendingThread, phase, cursor>>
    BY <1>3, NoThreadAssumption DEF DetourAttach
  <2>2. CASE AttachSucceeds(f)
    BY <1>0, <1>3, <2>1, <2>2, AttachLayers
  <2>3. CASE UNCHANGED <<pendingOps, perm>>
    BY <2>1, <2>3, SameLayers DEF Left, NoTransaction
  <2> QED BY <1>3, <2>2, <2>3, AttachWays DEF AttachFails
<1>4. ASSUME NEW t \in Threads, DetourTransactionCommit(t), pendingThread = t
      PROVE  Layers'
  <2>1. /\ UNCHANGED <<pendingThread, pendingOps, perm, region>> /\ phase = "idle" /\ cursor' = 1
    BY <1>4 DEF DetourTransactionCommit, transaction
  <2> QED BY <2>1, SameLayers DEF Left, NoTransaction
<1>5. ASSUME NEW t \in Threads, PatchTarget(t) \/ MovePointer(t) \/ AllPatched(t)
      PROVE  Layers'
  <2>1. /\ UNCHANGED <<pendingThread, pendingOps, perm, region>>
        /\ phase \in {"patch", "pointer"}
        /\ phase' \in {"patch", "pointer"} \/ cursor' = 1
    BY <1>5 DEF PatchTarget, MovePointer, AllPatched, transaction
  <2> QED BY <2>1, SameLayers DEF Left, NoTransaction
<1>6. ASSUME NEW t \in Threads, RestorePermission(t) \/ EndTransaction(t)
      PROVE  Layers'
  BY <1>0, <1>6, RestoreLayers, EndLayers
<1> QED BY <1>1, <1>2, <1>3, <1>4, <1>5, <1>6, LibrarySteps DEF CommitStep

\* Functions may share pages and go over the end of one, but no function attached
\* before one that does may open only the first of its pages (the run startup_pages):
\* then every page has its old protection again.
THEOREM RestoresPages == ASSUME OpenedTogether PROVE Spec => []PagesRestored
<1>1. Control /\ Layers /\ Orders' /\ [Next]_vars => Layers'
  BY LayersStep DEF Orders
<1>2. Control /\ Layers => PagesRestored
  <2> SUFFICES ASSUME Control, Layers, NoTransaction
               PROVE  (\A p \in Pages : perm[p] = "RX") /\ region # "RWX"
    BY DEF PagesRestored
  <2>1. /\ pendingOps = <<>> /\ region # "RWX" /\ phase = "idle"
        /\ perm \in [Pages -> {"RX", "RWX"}]
    BY DEF Layers, Control, OwnsTransaction, TypeOK, DetourTypeOK, NoTransaction
  <2>2. Left .. Len(pendingOps) = {}
    BY <2>1 DEF Left
  <2> QED BY <2>1, <2>2 DEF Layers
<1> QED BY <1>1, <1>2, LayersInit, ControlInvariance, OrdersInvariance, PTL DEF Spec
-----------------------------------------------------------------------------
(* The initialisation comes to an end. *)

OperationsLeft == Len(pendingOps) + 1 - cursor

\* Steps of the commit, and of LeanPlugin_Init, that are still to come at most.
CommitLeft ==
  CASE phase = "patch"                -> 2 * OperationsLeft + Len(pendingOps) + 3
    [] phase = "pointer"              -> 2 * OperationsLeft + Len(pendingOps) + 2
    [] phase \in {"restore", "abort"} -> OperationsLeft + 2
    [] phase = "idle"                 -> 1

InitLeft ==
  CASE step = "none"                   -> 0
    [] step = "InitConfigValues"       -> 28
    [] step = "ScannerSetup"           -> 27
    [] step = "InitMessaging"          -> 26
    [] step = "DetourTransactionBegin" -> 25
    [] step = "HookFunction"           -> 4 * Len(todo) + 3 * Len(pendingOps) + 4
    [] step = "committing"             -> CommitLeft

\* No loop of the commit is further than its end, or without an operation while it
\* is busy with one.
CursorInside ==
  phase # "idle" => cursor <= Len(pendingOps) + (IF phase = "pointer" THEN 0 ELSE 1)

\* A caller runs the initialisation while the once-flag says so.
SomeoneRuns == once = "running" => \E t \in Threads : Initializing(t)

InitStepTaken == \E t \in Threads : InitStep(t) /\ ~CallOnce(t)

LEMMA Lengths ==
  ASSUME Control
  PROVE  Len(todo) \in Nat /\ Len(pendingOps) \in Nat /\ cursor \in Nat \ {0}
<1>1. todo \in Seq(HookPatterns) /\ pendingOps \in Seq(Operations) /\ cursor \in Nat \ {0}
  BY DEF Control, TypeOK, DetourTypeOK
<1> QED BY <1>1

LEMMA CommitLeftType ==
  ASSUME Control, CursorInside
  PROVE  CommitLeft \in Nat /\ CommitLeft > 0
<1>1. /\ phase \in {"idle", "patch", "pointer", "restore", "abort"}
      /\ Len(pendingOps) \in Nat /\ cursor \in Nat
  BY Lengths DEF Control, TypeOK, DetourTypeOK
<1>2. phase # "idle" => OperationsLeft \in Nat
  BY <1>1 DEF CursorInside, OperationsLeft
<1>3. CASE phase = "idle"
  BY <1>3 DEF CommitLeft
<1>4. CASE phase = "patch"
  BY <1>1, <1>2, <1>4 DEF CommitLeft
<1>5. CASE phase = "pointer"
  BY <1>1, <1>2, <1>5 DEF CommitLeft
<1>6. CASE phase \in {"restore", "abort"}
  BY <1>1, <1>2, <1>6 DEF CommitLeft
<1> QED BY <1>1, <1>3, <1>4, <1>5, <1>6

LEMMA InitLeftType ==
  Control /\ CursorInside => InitLeft \in Nat /\ (step # "none" => InitLeft > 0)
<1> SUFFICES ASSUME Control, CursorInside
             PROVE  InitLeft \in Nat /\ (step # "none" => InitLeft > 0)
  OBVIOUS
<1>1. step \in {"none", "InitConfigValues", "ScannerSetup", "InitMessaging",
                "DetourTransactionBegin", "HookFunction", "committing"}
  BY DEF Control, TypeOK
<1>2. CASE step = "HookFunction"
  BY <1>2, Lengths DEF InitLeft
<1>3. CASE step = "committing"
  BY <1>3, CommitLeftType DEF InitLeft
<1>4. CASE step \notin {"HookFunction", "committing"}
  BY <1>1, <1>4 DEF InitLeft
<1> QED BY <1>2, <1>3, <1>4

LEMMA CommitStepShrinks ==
  ASSUME Control, CursorInside, NEW t \in Threads, CommitStep(t), Control'
  PROVE  CursorInside' /\ CommitLeft' < CommitLeft
<1>1. Len(pendingOps) \in Nat /\ cursor \in Nat \ {0} /\ Len(pendingOps') \in Nat
  <2>1. pendingOps' \in Seq(Operations)
    BY DEF Control, TypeOK, DetourTypeOK, Operations
  <2> QED BY <2>1, Lengths
<1>2. CASE PatchTarget(t)
  <2>1. /\ phase = "patch" /\ cursor <= Len(pendingOps) /\ phase' = "pointer"
        /\ UNCHANGED <<pendingOps, cursor>>
    BY <1>2 DEF PatchTarget, MoreOperations, transaction
  <2> QED BY <1>1, <2>1 DEF CursorInside, CommitLeft, OperationsLeft
<1>3. CASE MovePointer(t)
  <2>1. phase = "pointer" /\ phase' = "patch" /\ cursor' = cursor + 1 /\ UNCHANGED pendingOps
    BY <1>3 DEF MovePointer, transaction
  <2> QED BY <1>1, <2>1 DEF CursorInside, CommitLeft, OperationsLeft
<1>4. CASE AllPatched(t)
  <2>1. /\ phase = "patch" /\ cursor > Len(pendingOps) /\ phase' = "restore" /\ cursor' = 1
        /\ UNCHANGED pendingOps
    BY <1>1, <1>4 DEF AllPatched, MoreOperations, transaction
  <2>2. cursor = Len(pendingOps) + 1
    BY <1>1, <2>1 DEF CursorInside
  <2> QED BY <1>1, <2>1, <2>2 DEF CursorInside, CommitLeft, OperationsLeft
<1>5. CASE RestorePermission(t)
  <2>1. /\ phase \in {"restore", "abort"} /\ cursor <= Len(pendingOps) /\ cursor' = cursor + 1
        /\ UNCHANGED <<pendingOps, phase>>
    BY <1>5 DEF RestorePermission, MoreOperations, transaction
  <2> QED BY <1>1, <2>1 DEF CursorInside, CommitLeft, OperationsLeft
<1>6. CASE EndTransaction(t)
  <2>1. /\ phase \in {"restore", "abort"} /\ cursor > Len(pendingOps) /\ phase' = "idle"
    BY <1>1, <1>6 DEF EndTransaction, MoreOperations
  <2>2. cursor = Len(pendingOps) + 1
    BY <1>1, <2>1 DEF CursorInside
  <2> QED BY <1>1, <2>1, <2>2 DEF CursorInside, CommitLeft, OperationsLeft
<1> QED BY <1>2, <1>3, <1>4, <1>5, <1>6 DEF CommitStep

LEMMA HookFunctionShrinks ==
  ASSUME Control, NEW t \in Threads, HookFunction(t)
  PROVE  CursorInside' /\ InitLeft' < InitLeft
<1>1. /\ step = "HookFunction" /\ step' = "HookFunction" /\ phase = "idle"
      /\ todo \in Seq(HookPatterns) /\ todo # <<>> /\ todo' = Tail(todo) /\ DetourTypeOK
  BY DEF HookFunction, At, Control, TypeOK, OwnsTransaction
<1>2. /\ Len(todo) \in Nat /\ Len(todo') = Len(todo) - 1 /\ Len(pendingOps) \in Nat
      /\ FunctionOf(Head(todo)) \in Functions
  BY <1>1, Lengths, TailOfPatterns, PatternsType
<1>3. phase' = "idle"
  BY <1>1 DEF HookFunction, DetourAttach, detourVars
<1>4. Len(pendingOps') \in {Len(pendingOps), Len(pendingOps) + 1}
  <2>1. CASE UNCHANGED pendingOps
    BY <2>1
  <2>2. CASE AttachSucceeds(FunctionOf(Head(todo)))
    <3>1. \E o \in Operations : pendingOps' = <<o>> \o pendingOps
      BY <1>1, <1>2, <2>2, AttachedOperation
    <3> QED BY <1>1, <3>1, PushedOperations
  <2>3. UNCHANGED pendingOps \/ AttachSucceeds(FunctionOf(Head(todo)))
    BY AttachWays DEF HookFunction, AttachFails, detourVars, transaction
  <2> QED BY <2>1, <2>2, <2>3
<1>5. InitLeft = 4 * Len(todo) + 3 * Len(pendingOps) + 4
  BY <1>1 DEF InitLeft
<1>6. InitLeft' = 4 * Len(todo') + 3 * Len(pendingOps') + 4
  BY <1>1 DEF InitLeft
<1>7. InitLeft' < InitLeft
  BY <1>2, <1>4, <1>5, <1>6
<1> QED BY <1>3, <1>7 DEF CursorInside

LEMMA InitStepShrinks ==
  ASSUME Control, CursorInside, NEW t \in Threads, InitStep(t), ~CallOnce(t), Control'
  PROVE  CursorInside' /\ InitLeft' < InitLeft
<1>1. CASE InitConfigValues(t) \/ ScannerSetup(t) \/ InitMessaging(t)
  <2>1. UNCHANGED phase /\ phase = "idle"
    BY <1>1 DEF InitConfigValues, ScannerSetup, InitMessaging, At, detourVars, Control, OwnsTransaction
  <2>2. \/ step = "InitConfigValues" /\ step' \in {"ScannerSetup", "none"}
        \/ step = "ScannerSetup" /\ step' = "InitMessaging"
        \/ step = "InitMessaging" /\ step' = "DetourTransactionBegin"
    BY <1>1 DEF InitConfigValues, AfterConfigValues, ScannerSetup, InitMessaging, At
  <2> QED BY <2>1, <2>2 DEF CursorInside, InitLeft
<1>2. CASE InitDetours(t)
  <2>1. /\ step = "DetourTransactionBegin" /\ step' = "HookFunction" /\ todo' = Patterns
        /\ pendingOps' = <<>> /\ phase' = "idle"
    BY <1>2 DEF InitDetours, At, DetourTransactionBegin, Control, OwnsTransaction
  <2>2. Len(todo') = 5 /\ Len(pendingOps') = 0
    BY <2>1 DEF Patterns
  <2>3. InitLeft = 25
    BY <2>1 DEF InitLeft
  <2>4. InitLeft' = 4 * Len(todo') + 3 * Len(pendingOps') + 4
    BY <2>1 DEF InitLeft
  <2> QED BY <2>1, <2>2, <2>3, <2>4 DEF CursorInside
<1>3. CASE HookFunction(t)
  BY <1>3, HookFunctionShrinks
<1>4. CASE CommitHooks(t)
  <2>1. /\ step = "HookFunction" /\ todo = <<>> /\ step' = "committing" /\ Initializing(t)
        /\ phase = "idle" /\ pendingThread \in Threads /\ UNCHANGED pendingOps /\ cursor' = 1
    BY <1>4 DEF CommitHooks, AllSearched, At, DetourTransactionCommit, transaction, Initializing,
                Control, OwnsTransaction, TypeOK, DetourTypeOK
  <2>2. pendingThread = t
    BY <2>1, OneAtAStep
  <2>3. phase' \in {"patch", "abort"}
    BY <1>4, <2>2 DEF CommitHooks, DetourTransactionCommit
  <2>4. Len(pendingOps) \in Nat /\ Len(todo) = 0
    BY <2>1, Lengths
  <2>5. InitLeft = 3 * Len(pendingOps) + 4
    BY <2>1, <2>4 DEF InitLeft
  <2>6. InitLeft' = CommitLeft' /\ OperationsLeft' = Len(pendingOps)
    BY <2>1, <2>4 DEF InitLeft, OperationsLeft
  <2>7. CommitLeft' < 3 * Len(pendingOps) + 4
    BY <2>1, <2>3, <2>4, <2>6 DEF CommitLeft
  <2> QED BY <2>1, <2>3, <2>4, <2>5, <2>6, <2>7 DEF CursorInside
<1>5. CASE Committing(t)
  <2>1. step = "committing" /\ step' = "committing" /\ CommitStep(t)
    BY <1>5 DEF Committing, At, startVars
  <2>2. CursorInside' /\ CommitLeft' < CommitLeft
    BY <2>1, CommitStepShrinks
  <2> QED BY <2>1, <2>2 DEF InitLeft
<1>6. CASE InitDone(t)
  <2>1. step = "committing" /\ step' = "none" /\ phase = "idle" /\ UNCHANGED phase
    BY <1>6 DEF InitDone, At, detourVars
  <2> QED BY <2>1 DEF CursorInside, InitLeft, CommitLeft
<1> QED BY <1>1, <1>2, <1>3, <1>4, <1>5, <1>6 DEF InitStep

LEMMA OthersLeaveInit ==
  ASSUME Control, CursorInside, [Next]_vars, ~InitStepTaken
  PROVE  CursorInside' /\ (step # "none" => InitLeft' = InitLeft)
<1>1. ASSUME UNCHANGED <<detourVars, step, todo>>
      PROVE  CursorInside' /\ InitLeft' = InitLeft
  <2>1. UNCHANGED <<pendingOps, phase, cursor, step, todo>>
    BY <1>1 DEF detourVars, transaction
  <2>2. CommitLeft' = CommitLeft
    BY <2>1 DEF CommitLeft, OperationsLeft
  <2> QED BY <2>1, <2>2 DEF CursorInside, InitLeft
<1>2. ASSUME NEW t \in Threads, CallOnce(t)
      PROVE  CursorInside' /\ (step # "none" => InitLeft' = InitLeft)
  <2>1. UNCHANGED detourVars /\ step = "none"
    BY <1>2 DEF CallOnce, MayInitialize, MayReturn, Control, OnceRuns
  <2> QED BY <2>1 DEF CursorInside, detourVars, transaction
<1>3. ASSUME NEW t \in Threads, CallMain(t)
      PROVE  UNCHANGED <<detourVars, step, todo>>
  BY <1>3 DEF CallMain
<1>4. CASE UNCHANGED vars
  BY <1>1, <1>4 DEF vars, startVars
<1> QED BY <1>1, <1>2, <1>3, <1>4 DEF Next, InitStepTaken

LEMMA SomeoneRunsStep == Control /\ SomeoneRuns /\ [Next]_vars => SomeoneRuns'
<1> SUFFICES ASSUME Control, SomeoneRuns, [Next]_vars, once' = "running"
             PROVE  \E t \in Threads : Initializing(t)'
  BY DEF SomeoneRuns
<1>0. main \in [Threads -> {"outside", "waiting", "initializing", "threw", "returned"}]
  BY DEF Control, TypeOK
<1>1. CASE once # "running"
  <2>1. PICK t \in Threads : CallOnce(t) /\ main' = [main EXCEPT ![t] = "initializing"]
    BY <1>1 DEF Next, InitStep, CallMain, CallOnce, MayReturn, InitConfigValues, OnceAfterThrow,
       ScannerSetup, InitMessaging, InitDetours, HookFunction, CommitHooks, Committing, InitDone,
       vars, startVars
  <2> QED BY <1>0, <2>1 DEF Initializing
<1>2. CASE once = "running"
  <2>1. PICK t \in Threads : Initializing(t)
    BY <1>2 DEF SomeoneRuns
  <2>2. main'[t] = main[t]
    <3>1. CASE UNCHANGED main
      BY <3>1
    <3>2. CASE \E u \in Threads : CallMain(u) \/ CallOnce(u)
      BY <1>0, <1>2, <2>1, <3>2 DEF CallMain, CallOnce, MayInitialize, MayReturn, Initializing
    <3>3. CASE \E u \in Threads : InitStep(u) /\ ~CallOnce(u)
      BY <3>3, <3>1 DEF InitStep, InitConfigValues, OnceAfterThrow, ScannerSetup, InitMessaging, InitDetours,
         HookFunction, CommitHooks, Committing, InitDone, startVars
    <3> QED BY <3>1, <3>2, <3>3 DEF Next, vars, startVars
  <2> QED BY <2>1, <2>2 DEF Initializing
<1> QED BY <1>1, <1>2

\* LeanPlugin_Init has at most 28 steps to go, whatever is found and whichever attach
\* fails: each of them leaves fewer, and nothing else that happens meanwhile changes that.
THEOREM InitShortens ==
  Spec => /\ [](InitLeft \in Nat)
          /\ [][/\ InitStepTaken => InitLeft' < InitLeft
                /\ ~InitStepTaken /\ step # "none" => InitLeft' = InitLeft]_vars
<1> DEFINE Shorter == /\ InitStepTaken => InitLeft' < InitLeft
                      /\ ~InitStepTaken /\ step # "none" => InitLeft' = InitLeft
<1>1. Init => CursorInside
  BY DEF Init, DetourInit, CursorInside
<1>2. Control /\ CursorInside /\ Control' /\ [Next]_vars => CursorInside' /\ [Shorter]_vars
  <2> SUFFICES ASSUME Control, CursorInside, Control', [Next]_vars
               PROVE  CursorInside' /\ Shorter
    OBVIOUS
  <2>1. CASE InitStepTaken
    <3>1. CursorInside' /\ InitLeft' < InitLeft
      BY <2>1, InitStepShrinks DEF InitStepTaken
    <3> QED BY <2>1, <3>1
  <2>2. CASE ~InitStepTaken
    BY <2>2, OthersLeaveInit
  <2> QED BY <2>1, <2>2
<1>3. Control /\ CursorInside => InitLeft \in Nat
  BY InitLeftType
<1> QED BY <1>1, <1>2, <1>3, ControlInvariance, PTL DEF Spec

\* A caller that waits can go on, or waits for one that is in LeanPlugin_Init: with
\* InitShortens, CallersReturn asks for no more than that threads which can run do.
THEOREM WaitsForInit ==
  Spec => [](\A t \in Threads : main[t] = "waiting" =>
               once \in {"unset", "done"} \/ \E u \in Threads : Initializing(u))
<1>1. Init => SomeoneRuns
  BY DEF Init, SomeoneRuns
<1>2. Control /\ SomeoneRuns =>
        \A t \in Threads : main[t] = "waiting" =>
          once \in {"unset", "done"} \/ \E u \in Threads : Initializing(u)
  BY DEF Control, TypeOK, SomeoneRuns
<1> QED BY <1>1, <1>2, SomeoneRunsStep, ControlInvariance, PTL DEF Spec
-----------------------------------------------------------------------------
(* The calls of the client's threads during all this. *)

\* A call changes nothing the start-up looks at: what is proved above holds with
\* the calls beside it.
LEMMA CallsLeaveStartup == CallsSpec => Spec
<1>1. CallsInit => Init
  BY DEF CallsInit
<1>2. [CallsNext]_allVars => [Next]_vars
  BY DEF CallsNext, StartupStep, ClientStarts, CallStep, allVars
<1> QED BY <1>1, <1>2, PTL DEF CallsSpec, Spec

\* Every call in a hook got there through a patched function.
Stacked ==
  /\ stack \in Seq(Frames)
  /\ \A i \in 1 .. Len(stack) : stack[i].at \in {"hook", "limits"} => Patched(stack[i].fn)

\* A function that is patched stays so.
LEMMA StaysPatched ==
  ASSUME Control, [Next]_vars, NEW f \in Functions, code[f] = "patched"
  PROVE  code'[f] = "patched"
<1>1. DetourTypeOK
  BY DEF Control, TypeOK
<1>2. ASSUME NEW t \in Threads, CommitStep(t) PROVE code'[f] = "patched"
  <2>1. UNCHANGED code \/ code' = [code EXCEPT ![Operation.fn] = "patched"]
    BY <1>2 DEF CommitStep, PatchTarget, MovePointer, AllPatched, RestorePermission, EndTransaction
  <2> QED BY <1>1, <2>1 DEF DetourTypeOK
<1>3. ASSUME UNCHANGED code PROVE code'[f] = "patched"
  BY <1>3
<1> QED BY <1>2, <1>3, LibrarySteps DEF DetourTransactionBegin, DetourAttach, DetourTransactionCommit,
                                        detourVars, transaction

\* When a function is patched, the search is over.
LEMMA PatchedMeansFound ==
  ASSUME Control, Installed, Search, NEW f, Patched(f)
  PROVE  FoundAll /\ Notifies
<1>1. ~Untouched
  BY DEF Patched, Untouched
<1>2. step = "committing" \/ once = "done"
  BY <1>1 DEF Installed, Progress, Fresh
<1> QED BY <1>2 DEF Search

\* When a patched function's pointer does not lead to its trampoline yet, the commit
\* is between its two writes for that function.
LEMMA HalfPatched ==
  ASSUME Control, Installed, NEW f \in Functions, code[f] = "patched", pointer[f] # "trampoline"
  PROVE  phase = "pointer" /\ Operation.fn = f
<1>1. phase \in {"idle", "patch", "pointer", "restore", "abort"}
  BY DEF Control, TypeOK, DetourTypeOK
<1>2. ~Untouched
  BY DEF Untouched
<1>3. step = "committing" \/ once = "done"
  BY <1>2 DEF Installed, Progress, Fresh
<1>4. phase # "idle"
  <2> SUFFICES ASSUME phase = "idle" PROVE FALSE
    OBVIOUS
  <2>1. pendingThread = NoThread
    BY <1>3 DEF Control, OnceRuns, OwnsTransaction
  <2> QED BY <2>1 DEF Installed, Progress, AllOrNothing, NoTransaction
<1> QED BY <1>1, <1>2, <1>4 DEF Installed, Progress

\* What the hooks call is a function of the client.
LEMMA WaysType ==
  ASSUME NEW f \in Functions, NEW w \in Ways(f) \union LimitCalls
  PROVE  w \in Seq(Functions \union {"AddInstantNotification"})
<1>1. f \in Functions /\ "FocusUnfocus" \in Functions /\ "GetWorld" \in Functions
  BY FunctionsAssumption DEF HookedFunctions
<1> DEFINE F == Functions \union {"AddInstantNotification"}
<1>2. /\ f \in F /\ "FocusUnfocus" \in F /\ "GetWorld" \in F /\ "AddInstantNotification" \in F
  BY <1>1
<1> HIDE DEF F
<1>3. \/ w = <<>> \/ w = <<f>> \/ w = <<"GetWorld", f>>
      \/ w = <<"GetWorld", "AddInstantNotification", f>>
      \/ w = <<"FocusUnfocus", "FocusUnfocus">>
      \/ w = <<"FocusUnfocus", "FocusUnfocus", "FocusUnfocus">>
  BY DEF Ways, LimitCalls
<1>4. <<>> \in Seq(F) /\ <<f>> \in Seq(F) /\ <<"GetWorld", f>> \in Seq(F)
  BY <1>2
<1>5. <<"GetWorld", "AddInstantNotification", f>> \in Seq(F)
  BY <1>2
<1>6. /\ <<"FocusUnfocus", "FocusUnfocus">> \in Seq(F)
      /\ <<"FocusUnfocus", "FocusUnfocus", "FocusUnfocus">> \in Seq(F)
  BY <1>2
<1>7. w \in Seq(F)
  BY <1>3, <1>4, <1>5, <1>6
<1> QED BY <1>7 DEF F

\* The innermost call of the stack replaced by another call of the same function.
LEMMA TopReplaced ==
  ASSUME Stacked, stack # <<>>, NEW fr \in Frames, stack' = [stack EXCEPT ![1] = fr],
         fr.at \in {"hook", "limits"} => Patched(fr.fn), UNCHANGED vars
  PROVE  Stacked' /\ Len(stack') = Len(stack)
<1>1. /\ stack \in Seq(Frames) /\ Len(stack) \in Nat \ {0}
      /\ stack' \in Seq(Frames) /\ Len(stack') = Len(stack)
      /\ \A i \in 1 .. Len(stack) : stack'[i] = IF i = 1 THEN fr ELSE stack[i]
  BY DEF Stacked
<1>2. \A g : Patched(g)' <=> Patched(g)
  BY DEF Patched, vars, detourVars
<1> QED BY <1>1, <1>2 DEF Stacked

LEMMA HeadAndTail ==
  ASSUME NEW S, NEW q \in Seq(S), q # <<>>
  PROVE  Head(q) \in S /\ Tail(q) \in Seq(S)
  OBVIOUS

LEMMA TopFrame ==
  ASSUME Stacked, stack # <<>>
  PROVE  /\ Inner \in Frames /\ Inner.fn \in Functions \union {"AddInstantNotification"}
         /\ Inner.calls \in Seq(Functions \union {"AddInstantNotification"})
         /\ InHook => Patched(Inner.fn)
<1>1. Inner \in Frames /\ 1 \in 1 .. Len(stack)
  BY DEF Stacked, Inner
<1> QED BY <1>1 DEF Frames, Stacked, Inner, InHook

LEMMA CallStepStacked ==
  ASSUME Stacked, CallStep
  PROVE  Stacked'
<1>1. UNCHANGED vars
  BY DEF CallStep
<1>2. \A g : Patched(g)' <=> Patched(g)
  BY <1>1 DEF Patched, vars, detourVars
<1>3. CASE EnterHook
  <2>1. PICK w \in Ways(Inner.fn) : stack' = [stack EXCEPT ![1].at = "hook", ![1].calls = w]
    BY <1>3 DEF EnterHook
  <2> DEFINE fr == [Inner EXCEPT !.at = "hook", !.calls = w]
  <2>2. stack # <<>> /\ Patched(Inner.fn) /\ Inner.fn \in Functions /\ Inner \in Frames
    BY <1>3, TopFrame DEF EnterHook, Patched
  <2>3. w \in Seq(Functions \union {"AddInstantNotification"})
    BY <2>1, <2>2, WaysType
  <2>4. fr \in Frames /\ fr.fn = Inner.fn
    BY <2>2, <2>3 DEF Frames
  <2>5. stack' = [stack EXCEPT ![1] = fr]
    BY <2>1, <2>2 DEF Inner, Stacked
  <2> HIDE DEF fr
  <2> QED BY <1>1, <2>2, <2>4, <2>5, TopReplaced
<1>4. CASE EnterClient
  <2> DEFINE fr == [Inner EXCEPT !.at = "client"]
  <2>1. stack # <<>> /\ Inner \in Frames /\ stack' = [stack EXCEPT ![1].at = "client"]
    BY <1>4, TopFrame DEF EnterClient
  <2>2. fr \in Frames /\ fr.at = "client"
    BY <2>1 DEF Frames
  <2>3. stack' = [stack EXCEPT ![1] = fr]
    BY <2>1 DEF Inner, Stacked
  <2> HIDE DEF fr
  <2> QED BY <1>1, <2>1, <2>2, <2>3, TopReplaced
<1>5. CASE SetsLimit
  <2>1. PICK w \in LimitCalls : stack' = [stack EXCEPT ![1].at = "limits", ![1].calls = w]
    BY <1>5 DEF SetsLimit
  <2> DEFINE fr == [Inner EXCEPT !.at = "limits", !.calls = w]
  <2>2. stack # <<>> /\ Patched(Inner.fn) /\ Inner.fn \in Functions /\ Inner \in Frames
    BY <1>5, TopFrame DEF SetsLimit, InHook, Patched
  <2>3. w \in Seq(Functions \union {"AddInstantNotification"})
    BY <2>1, <2>2, WaysType
  <2>4. fr \in Frames /\ fr.fn = Inner.fn
    BY <2>2, <2>3 DEF Frames
  <2>5. stack' = [stack EXCEPT ![1] = fr]
    BY <2>1, <2>2 DEF Inner, Stacked
  <2> HIDE DEF fr
  <2> QED BY <1>1, <2>2, <2>4, <2>5, TopReplaced
<1>6. CASE CallsThrough
  <2> DEFINE g == Head(Inner.calls)
             top == [Called(g) EXCEPT !.at = IF Held(g) = "target" THEN "entry" ELSE "client"]
             fr  == [Inner EXCEPT !.calls = Tail(@)]
             rest == [stack EXCEPT ![1] = fr]
  <2>1. /\ stack # <<>> /\ Inner.calls # <<>> /\ Inner \in Frames /\ Patched(Inner.fn)
        /\ Inner.calls \in Seq(Functions \union {"AddInstantNotification"})
        /\ stack \in Seq(Frames)
    BY <1>6, TopFrame DEF CallsThrough, InHook, Stacked
  <2>2. top \in Frames /\ top.at \in {"entry", "client"}
    <3>1. g \in Functions \union {"AddInstantNotification"}
      BY <2>1, HeadAndTail
    <3>2. <<>> \in Seq(Functions \union {"AddInstantNotification"})
      OBVIOUS
    <3> QED BY <3>1, <3>2 DEF Frames, Called
  <2>3. fr \in Frames /\ fr.fn = Inner.fn
    <3>1. Tail(Inner.calls) \in Seq(Functions \union {"AddInstantNotification"})
      BY <2>1, HeadAndTail
    <3> QED BY <2>1, <3>1 DEF Frames
  <2>4. stack' = <<top>> \o rest
    BY <1>6, <2>1 DEF CallsThrough, Inner
  <2> HIDE DEF top, fr
  <2>5. /\ rest \in Seq(Frames) /\ Len(rest) = Len(stack) /\ Len(stack) \in Nat \ {0}
        /\ \A i \in 1 .. Len(rest) : rest[i] = IF i = 1 THEN fr ELSE stack[i]
    BY <2>1, <2>3
  <2>6. \A i \in 1 .. Len(rest) : rest[i].at \in {"hook", "limits"} => Patched(rest[i].fn)
    BY <2>1, <2>3, <2>5 DEF Stacked
  <2> HIDE DEF rest
  <2>7. stack' \in Seq(Frames) /\ Len(stack') = Len(rest) + 1 /\ stack'[1] = top
    BY <2>2, <2>4, <2>5
  <2>8. \A i \in 1 .. Len(stack') : i # 1 => i - 1 \in 1 .. Len(rest) /\ stack'[i] = rest[i - 1]
    BY <2>2, <2>4, <2>5, <2>7
  <2> QED BY <1>2, <2>2, <2>6, <2>7, <2>8 DEF Stacked
<1>7. CASE Returns
  <2>1. stack \in Seq(Frames) /\ stack # <<>> /\ stack' = Tail(stack)
    BY <1>7 DEF Returns, Stacked
  <2>2. /\ stack' \in Seq(Frames)
        /\ \A i \in 1 .. Len(stack') : i + 1 \in 1 .. Len(stack) /\ stack'[i] = stack[i + 1]
    BY <2>1
  <2> QED BY <1>2, <2>2 DEF Stacked
<1>8. CASE HookThrows
  <2>1. stack' \in Seq(Frames) /\ 1 .. Len(stack') = {}
    BY <1>8 DEF HookThrows
  <2> QED BY <2>1 DEF Stacked
<1>9. CASE CallsNull \/ Overflows
  <2>1. UNCHANGED stack
    BY <1>9 DEF CallsNull, Overflows
  <2> QED BY <1>2, <2>1 DEF Stacked
<1> QED BY <1>3, <1>4, <1>5, <1>6, <1>7, <1>8, <1>9 DEF CallStep

\* A null call was one of a function that does not occur.
Calls == Stacked /\ HooksHaveOriginals

LEMMA NullMeansAbsent ==
  ASSUME Control, Installed, Search, Stacked, CallsNull
  PROVE  ~Occurs(Head(Inner.calls))
<1>1. /\ Patched(Inner.fn) /\ Head(Inner.calls) \in Functions \union {"AddInstantNotification"}
      /\ Held(Head(Inner.calls)) = "null"
  <2>1. stack # <<>> /\ InHook /\ Inner.calls # <<>> /\ Held(Head(Inner.calls)) = "null"
    BY DEF CallsNull, InHook
  <2> QED BY <2>1, TopFrame
<1>2. FoundAll /\ Notifies
  BY <1>1, PatchedMeansFound
<1> QED BY <1>1, <1>2 DEF Held, Occurs, FoundAll, Notifies

LEMMA CallsStep ==
  Control /\ Installed /\ Search /\ Calls /\ [CallsNext]_allVars => Calls'
<1> SUFFICES ASSUME Control, Installed, Search, Calls, [CallsNext]_allVars PROVE Calls'
  OBVIOUS
<1>1. CASE StartupStep
  <2>1. Next /\ process = "running" /\ UNCHANGED <<stack, process>>
    BY <1>1 DEF StartupStep, callVars
  <2>2. \A f \in Functions : code[f] = "patched" => code'[f] = "patched"
    BY <2>1, StaysPatched
  <2> QED BY <2>1, <2>2 DEF Calls, Stacked, Patched, HooksHaveOriginals
<1>2. CASE ClientStarts
  <2>1. PICK f \in Functions : stack' = <<Called(f)>> /\ UNCHANGED process /\ process = "running"
    BY <1>2 DEF ClientStarts, ClientCalls
  <2>2. Called(f) \in Frames /\ Called(f).at = "entry"
    BY DEF Called, Frames
  <2>3. stack' \in Seq(Frames) /\ Len(stack') = 1 /\ stack'[1] = Called(f)
    BY <2>1, <2>2
  <2> QED BY <2>1, <2>2, <2>3 DEF Calls, Stacked, HooksHaveOriginals
<1>3. CASE CallStep
  <2>1. Stacked'
    BY <1>3, CallStepStacked DEF Calls
  <2>2. process' = "null call" => CallsNull
    BY <1>3 DEF CallStep, EnterHook, EnterClient, CallsThrough, Overflows, SetsLimit, Returns, HookThrows
  <2>3. ASSUME CallsNull PROVE HooksHaveOriginals'
    <3>1. ~Occurs(Head(Inner.calls))
      BY <2>3, NullMeansAbsent DEF Calls
    <3>2. UNCHANGED <<stack, matches>>
      BY <1>3, <2>3 DEF CallsNull, CallStep, vars, startVars
    <3> QED BY <3>1, <3>2 DEF HooksHaveOriginals, Occurs, Inner, FunctionOf
  <2> QED BY <2>1, <2>2, <2>3 DEF Calls, HooksHaveOriginals
<1>4. CASE UNCHANGED allVars
  BY <1>4 DEF allVars, callVars, vars, startVars, detourVars, Calls, Stacked, Patched,
              HooksHaveOriginals, Occurs, Inner, FunctionOf
<1> QED BY <1>1, <1>2, <1>3, <1>4 DEF CallsNext

LEMMA CallsInvariance == CallsSpec => []Calls
<1>1. CallsInit => Calls
  <2> SUFFICES ASSUME CallsInit PROVE Calls
    OBVIOUS
  <2>1. stack \in Seq(Frames) /\ 1 .. Len(stack) = {} /\ process = "running"
    BY DEF CallsInit
  <2> QED BY <2>1 DEF Calls, Stacked, HooksHaveOriginals
<1> QED BY <1>1, CallsStep, CallsLeaveStartup, ControlInvariance, InstalledInvariance,
           SearchInvariance, PTL DEF CallsSpec

\* Wherever the commit stands, however deep the hooks call one another and whatever
\* was found, a null pointer is one to a function the client does not have.
THEOREM NeverNull == CallsSpec => []HooksHaveOriginals
<1>1. Calls => HooksHaveOriginals
  BY DEF Calls
<1> QED BY <1>1, CallsInvariance, PTL

\* Only while the commit stands between its two writes for a function does the hook
\* of that function get back into itself.
THEOREM NestsBetweenWrites == CallsSpec => NestsOnlyHalfPatched
<1> DEFINE Nests == stack # <<>> /\ Len(stack') > Len(stack) /\ stack'[1] = Called(Inner.fn)
           Half  == phase = "pointer" /\ Operation.fn = Inner.fn
<1>1. ASSUME Control, Installed, Calls, [CallsNext]_allVars PROVE [Nests => Half]_allVars
  <2> SUFFICES ASSUME CallsNext, Nests PROVE Half
    BY <1>1
  <2>0. stack \in Seq(Frames) /\ stack # <<>> /\ Len(stack) \in Nat
    BY <1>1 DEF Calls, Stacked
  <2>1. CallStep
    <3>1. ~StartupStep
      BY <2>0 DEF StartupStep, callVars
    <3>2. ~ClientStarts
      BY DEF ClientStarts, ClientCalls
    <3> QED BY <3>1, <3>2 DEF CallsNext
  <2>2. CallsThrough
    <3>0. Len(stack') > Len(stack) /\ stack' # stack
      BY <2>0
    <3>1. ~(CallsNull \/ Overflows)
      BY <3>0 DEF CallsNull, Overflows
    <3>2. ~(Returns \/ HookThrows)
      BY <2>0 DEF Returns, HookThrows
    <3>3. ~(EnterHook \/ EnterClient \/ SetsLimit)
      BY <2>0 DEF EnterHook, EnterClient, SetsLimit
    <3> QED BY <2>1, <3>1, <3>2, <3>3 DEF CallStep
  <2> DEFINE g == Head(Inner.calls)
             top == [Called(g) EXCEPT !.at = IF Held(g) = "target" THEN "entry" ELSE "client"]
             rest == [stack EXCEPT ![1].calls = Tail(@)]
  <2>3. stack' = <<top>> \o rest
    BY <2>2 DEF CallsThrough
  <2>4. stack'[1] = top
    BY <2>0, <2>3
  <2>5. top.fn = g /\ (top.at = "entry" => Held(g) = "target")
    BY DEF Called
  <2>6. g = Inner.fn /\ Held(g) = "target"
    BY <2>4, <2>5 DEF Called
  <2>7. Inner.fn \in Functions /\ code[Inner.fn] = "patched"
    BY <1>1, <2>0, <2>2, TopFrame DEF Calls, CallsThrough, Patched
  <2>8. pointer[Inner.fn] = "target"
    BY <2>6, <2>7, FunctionsAssumption DEF Held, HookedFunctions
  <2> QED BY <1>1, <2>7, <2>8, HalfPatched
<1> QED BY <1>1, CallsLeaveStartup, ControlInvariance, InstalledInvariance, CallsInvariance, PTL
    DEF CallsSpec, NestsOnlyHalfPatched
=============================================================================
