-------------------------- MODULE DetourTransaction --------------------------
(***************************************************************************)
(* The transaction of the Detours library through which the plugin         *)
(* installs its hooks (deps/Detours/src/detours.cpp), for attaching only.  *)
(* The commit is taken apart into the steps another thread of the client   *)
(* can see: the target's code, the plugin's function pointer and the       *)
(* protection of the target's pages change one at a time.  Only the thread *)
(* that owns the transaction changes anything: each action is a step of    *)
(* thread t.                                                               *)
(***************************************************************************)
EXTENDS Integers, Sequences

CONSTANTS
  Functions,   \* the functions that may be hooked
  Threads,     \* threads that may call the library
  NoThread,    \* s_nPendingThreadId == 0
  Pages,       \* code pages of the client
  FirstPage, LastPage   \* the pages the patched bytes of a function start and end on

ASSUME FirstPageAssumption == FirstPage \in [Functions -> Pages]
ASSUME LastPageAssumption  == LastPage \in [Functions -> Pages]
ASSUME NoThreadAssumption  == NoThread \notin Threads

VARIABLES
  pendingThread,  \* s_nPendingThreadId
  pendingError,   \* s_nPendingError
  pendingOps,     \* s_pPendingOperations, the latest attached first
  pointer,        \* the plugin's pointer to each client function
  code,           \* first instructions of each client function
  perm,           \* protection of each code page
  region,         \* protection of the memory the trampolines are in
  trampolines,    \* functions that hold a trampoline
  phase, cursor   \* where the commit is: the loop, and how far o has got in the list

transaction == <<pendingThread, pendingError, pendingOps>>
detourVars == <<transaction, pointer, code, perm, region, trampolines, phase, cursor>>

Operations == [fn : Functions, perm : {"RX", "RWX"}]
Target(o) == {FirstPage[o.fn], LastPage[o.fn]}

DetourInit ==
  /\ pendingThread = NoThread
  /\ pendingError = "NO_ERROR"
  /\ pendingOps = <<>>
  /\ pointer = [f \in Functions |-> "null"]
  /\ code = [f \in Functions |-> "original"]
  /\ perm = [p \in Pages |-> "RX"]
  /\ region = "none"
  /\ trampolines = {}
  /\ phase = "idle" /\ cursor = 1

\* Mutant: only the page the function starts on is made writable.
ProtectFirst(o, protection) == [perm EXCEPT ![FirstPage[o.fn]] = protection]

\* VirtualProtect sets all the pages and reports the old protection of the first.
Protect(o, protection) == [p \in Pages |-> IF p \in Target(o) THEN protection ELSE perm[p]]

-----------------------------------------------------------------------------
(* DetourTransactionBegin, DetourUpdateThread and DetourAttach. *)

\* Making the memory of earlier trampolines writable may fail, with some of it open.
RegionsOpened ==
  IF region = "none"
  THEN {[error |-> "NO_ERROR", region |-> "none"]}
  ELSE {[error |-> "NO_ERROR", region |-> "RWX"]} \union [error : {"error"}, region : {region, "RWX"}]

\* Only one transaction is allowed at a time.
DetourTransactionBegin(t) ==
  IF pendingThread # NoThread
  THEN UNCHANGED detourVars
  ELSE /\ pendingThread' = t
       /\ pendingOps' = <<>>
       /\ \E r \in RegionsOpened : pendingError' = r.error /\ region' = r.region
       /\ UNCHANGED <<pointer, code, perm, trampolines, phase, cursor>>

\* Mutant: operations are kept in the order they were attached.
AppendOperation(o) == Append(pendingOps, o)

PushOperation(o) == <<o>> \o pendingOps

\* There is nothing to attach to.
NullPointer ==
  /\ pendingError' = "error"
  /\ UNCHANGED <<pendingOps, perm, region, trampolines>>

\* Attaching fails for want of memory near the target, because the target is
\* too short to be patched, or because its page cannot be made writable.
AttachFails(f) ==
  /\ pendingError' = "error"
  /\ region' \in {region, "RWX"}
  /\ UNCHANGED <<pendingOps, perm, trampolines>>

\* Mutant: the answer of VirtualProtect is not kept.
ProtectionZero(f) == "0"

OldProtection(f) == perm[FirstPage[f]]

AttachSucceeds(f) ==
  LET o == [fn |-> f, perm |-> OldProtection(f)]
  IN  /\ trampolines' = trampolines \union {f}
      /\ region' = "RWX"
      /\ perm' = Protect(o, "RWX")
      /\ pendingOps' = PushOperation(o)
      /\ UNCHANGED pendingError

\* DetourAttach(&pointer[f], ...): the target is what the pointer holds when the
\* library is called.
DetourAttach(t, f) ==
  /\ IF pendingThread = t /\ pendingError = "NO_ERROR"
     THEN IF pointer'[f] = "null" THEN NullPointer ELSE AttachFails(f) \/ AttachSucceeds(f)
     ELSE UNCHANGED <<pendingError, pendingOps, perm, region, trampolines>>
  /\ UNCHANGED <<pendingThread, code, phase, cursor>>

-----------------------------------------------------------------------------
(* DetourTransactionCommit: two loops over the operations, or the abort. *)

DetourTransactionCommit(t) ==
  /\ phase = "idle"
  /\ IF pendingThread = t
     THEN phase' = IF pendingError = "NO_ERROR" THEN "patch" ELSE "abort"
     ELSE phase' = "idle"
  /\ cursor' = 1
  /\ UNCHANGED <<transaction, pointer, code, perm, region, trampolines>>

Operation == pendingOps[cursor]
MoreOperations == cursor <= Len(pendingOps)

\* The jump to the hook is written into the target ...
PatchTarget(t) ==
  /\ pendingThread = t /\ phase = "patch" /\ MoreOperations
  /\ code' = [code EXCEPT ![Operation.fn] = "patched"]
  /\ phase' = "pointer"
  /\ UNCHANGED <<transaction, pointer, perm, region, trampolines, cursor>>

\* Mutant: the pointer is forgotten.
MovedNowhere == pointer

Moved == [pointer EXCEPT ![Operation.fn] = "trampoline"]

\* ... and then the plugin's pointer is moved from the target to its trampoline.
MovePointer(t) ==
  /\ pendingThread = t /\ phase = "pointer"
  /\ pointer' = Moved
  /\ phase' = "patch" /\ cursor' = cursor + 1
  /\ UNCHANGED <<transaction, code, perm, region, trampolines>>

AllPatched(t) ==
  /\ pendingThread = t /\ phase = "patch" /\ ~MoreOperations
  /\ phase' = "restore" /\ cursor' = 1
  /\ UNCHANGED <<transaction, pointer, code, perm, region, trampolines>>

\* Mutant: an abort keeps the trampolines.
KeptTrampolines == trampolines

RemainingTrampolines ==
  IF phase = "abort" THEN trampolines \ {Operation.fn} ELSE trampolines

\* The commit's second loop and the abort's only one put the protection back;
\* the abort frees the trampoline too.
RestorePermission(t) ==
  /\ pendingThread = t /\ phase \in {"restore", "abort"} /\ MoreOperations
  /\ perm' = Protect(Operation, Operation.perm)
  /\ trampolines' = RemainingTrampolines
  /\ cursor' = cursor + 1
  /\ UNCHANGED <<transaction, pointer, code, region, phase>>

EndTransaction(t) ==
  /\ pendingThread = t /\ phase \in {"restore", "abort"} /\ ~MoreOperations
  /\ pendingOps' = <<>>
  /\ pendingThread' = NoThread
  /\ region' = IF region = "none" THEN "none" ELSE "RX"
  /\ phase' = "idle" /\ cursor' = 1
  /\ UNCHANGED <<pendingError, pointer, code, perm, trampolines>>

CommitStep(t) ==
  PatchTarget(t) \/ MovePointer(t) \/ AllPatched(t) \/ RestorePermission(t) \/ EndTransaction(t)

-----------------------------------------------------------------------------
(* What a transaction promises. *)

DetourTypeOK ==
  /\ pendingThread \in Threads \union {NoThread}
  /\ pendingError \in {"NO_ERROR", "error"}
  /\ pendingOps \in Seq(Operations)
  /\ pointer \in [Functions -> {"null", "target", "trampoline"}]
  /\ code \in [Functions -> {"original", "patched"}]
  /\ perm \in [Pages -> {"RX", "RWX"}]
  /\ region \in {"none", "RX", "RWX"}
  /\ trampolines \in SUBSET Functions
  /\ phase \in {"idle", "patch", "pointer", "restore", "abort"}
  /\ cursor \in Nat \ {0}

NoTransaction == pendingThread = NoThread

\* A transaction takes effect as a whole or not at all: outside of one, either
\* the pointer of every patched function leads to its trampoline and nothing is
\* left of a failed one, or no function is patched and no trampoline is held.
AllOrNothing ==
  NoTransaction =>
    /\ trampolines = {f \in Functions : code[f] = "patched"}
    /\ \A f \in Functions : code[f] = "patched" <=> pointer[f] = "trampoline"
    /\ pendingError = "error" => trampolines = {}

\* Outside of a transaction every code page has its old protection again, and the
\* trampolines cannot be written, although functions on one page saved different
\* old protections.
PagesRestored ==
  NoTransaction => (\A p \in Pages : perm[p] = "RX") /\ region # "RWX"

\* The bytes of a function are only written while its pages are writable.
PatchesWritablePages ==
  [][\A f \in Functions : code'[f] # code[f] =>
       perm[FirstPage[f]] = "RWX" /\ perm[LastPage[f]] = "RWX"]_detourVars
=============================================================================
