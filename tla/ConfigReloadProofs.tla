------------------------- MODULE ConfigReloadProofs -------------------------
(***************************************************************************)
(* Proofs about ConfigReload, for every set of files, worlds and hooks.    *)
(***************************************************************************)
EXTENDS ConfigReload, TLAPS

IInv ==
  /\ TypeOK
  /\ OneReloadPerPress /\ ReleaseRearms /\ CompleteFileTakesEffect

-----------------------------------------------------------------------------
(* Reading a file. *)

\* A setting that is assigned, or left alone, is an int.
LEMMA AssignedType ==
  ASSUME NEW f \in IniFile, NEW k \in Keys, NEW old \in Int32
  PROVE  Assigned(f, k, old) \in Int32
<1>1. f[k] \in IniValue
  BY DEF IniFile, Keys
<1> QED BY <1>1 DEF Assigned, IniValue

LEMMA DefaultType == DefaultConfig \in Config
  BY Int32MaxAssumption DEF DefaultConfig, Config, Int32

\* A reload leaves settings of the right types, whatever the file holds.
LEMMA ReloadType ==
  ASSUME NEW c \in Config, NEW f \in IniFile
  PROVE  ReloadFromConfig(c, f) \in Config
<1>1. /\ Assigned(f, "Foreground", c.ForegroundLimit) \in Int32
      /\ Assigned(f, "Charselect", c.CharselectLimit) \in Int32
      /\ Assigned(f, "Loading", c.LoadingLimit) \in Int32
  BY AssignedType DEF Config, Keys
<1> QED BY <1>1 DEF ReloadFromConfig, Config

\* A file without a gap takes over all the settings.
LEMMA ReloadComplete ==
  ASSUME NEW c \in Config, NEW f \in IniFile,
         f.readable, \A k \in Keys : f[k] \in Int32
  PROVE  /\ ~Throws(f)
         /\ ReloadFromConfig(c, f) =
              [ForegroundLimit |-> f.Foreground, CharselectLimit |-> f.Charselect,
               LoadingLimit |-> f.Loading, Loaded |-> TRUE]
<1>1. \A k \in Keys : f[k] # Absent /\ f[k] # Malformed
  BY SentinelAssumption DEF Int32
<1>2. ~Throws(f)
  BY <1>1 DEF Throws
<1>3. \A k \in Keys : ReadBefore(k) \union {k} \subseteq Keys
  BY DEF ReadBefore, Keys
<1>4. ASSUME NEW k \in Keys, NEW old PROVE Assigned(f, k, old) = f[k]
  BY <1>1, <1>3 DEF Assigned
<1>5. /\ Assigned(f, "Foreground", c.ForegroundLimit) = f.Foreground
      /\ Assigned(f, "Charselect", c.CharselectLimit) = f.Charselect
      /\ Assigned(f, "Loading", c.LoadingLimit) = f.Loading
  BY <1>4 DEF Keys
<1> QED BY <1>2, <1>5 DEF ReloadFromConfig

-----------------------------------------------------------------------------
(* The inductive invariant. *)

LEMMA InitInv == Init => IInv
<1> SUFFICES ASSUME Init PROVE IInv
  OBVIOUS
<1>1. ini \in IniFiles /\ ini \in IniFile /\ found \in SUBSET ClientFunctions
  BY IniFilesAssumption, FoundSetsAssumption DEF Init
<1>2. cfg \in Config
  BY <1>1, DefaultType, ReloadType DEF Init
<1>3. TypeOK
  BY <1>1, <1>2 DEF Init, TypeOK
<1>4. CompleteFileTakesEffect
  BY <1>1, DefaultType, ReloadComplete DEF Init, CompleteFileTakesEffect
<1> QED BY <1>3, <1>4 DEF Init, IInv, OneReloadPerPress, ReleaseRearms

\* What pressing the hotkey does to the settings and the process.
LEMMA PressFacts ==
  ASSUME IInv, onPress
  PROVE  /\ cfg' \in Config
         /\ lastRead' \in IniFiles
         /\ CompleteFileTakesEffect'
         /\ status' \in {"running", "null GetWorld", "null AddInstantNotification",
                         "uncaught std::stoi"}
         /\ notice' \in {"none", "reloaded", "not loaded"}
<1>1. cfg \in Config /\ ini \in IniFiles /\ ini \in IniFile
  BY IniFilesAssumption DEF IInv, TypeOK
<1>2. cfg' = ReloadFromConfig(cfg, ini) /\ lastRead' = ini
  BY DEF onPress
<1>3. cfg' \in Config
  BY <1>1, <1>2, ReloadType
<1>4. CompleteFileTakesEffect'
  BY <1>1, <1>2, ReloadComplete DEF CompleteFileTakesEffect
<1>5. /\ status' \in {"running", "null GetWorld", "null AddInstantNotification",
                      "uncaught std::stoi"}
      /\ notice' \in {"none", "reloaded", "not loaded"}
  <2>1. Unwind \/ Notify
    BY DEF onPress
  <2>2. /\ status \in {"running", "null GetWorld", "null AddInstantNotification",
                       "uncaught std::stoi"}
        /\ notice \in {"none", "reloaded", "not loaded"}
    BY DEF IInv, TypeOK
  <2>3. CASE Unwind
    BY <2>2, <2>3 DEF Unwind
  <2>4. CASE Notify
    BY <2>2, <2>4 DEF Notify
  <2> QED BY <2>1, <2>3, <2>4
<1> QED BY <1>1, <1>2, <1>3, <1>4, <1>5

LEMMA StepInv == IInv /\ [Next]_vars => IInv'
<1> SUFFICES ASSUME IInv, [Next]_vars PROVE IInv'
  OBVIOUS
<1>1. ASSUME NEW e \in Events, hkBUIWorld_ProcessEvent(e) PROVE IInv'
  <2>1. UNCHANGED <<found, world, ini>> /\ sinceRelease \in Nat /\ cfg.Loaded
    BY <1>1 DEF hkBUIWorld_ProcessEvent, IInv, TypeOK
  <2>2. CASE Pressed(e)
    <3>1. sinceRelease = 0
      BY <2>1, <2>2 DEF Pressed, IInv, ReleaseRearms
    <3>2. toggleKey' = TRUE /\ sinceRelease' = 1
      BY <2>2, <3>1 DEF Pressed
    <3>3. /\ cfg' \in Config /\ lastRead' \in IniFiles /\ CompleteFileTakesEffect'
          /\ status' \in {"running", "null GetWorld", "null AddInstantNotification",
                          "uncaught std::stoi"}
          /\ notice' \in {"none", "reloaded", "not loaded"}
      BY <2>2, PressFacts DEF Pressed
    <3>4. /\ found \in SUBSET ClientFunctions /\ ini \in IniFiles
          /\ world \in SomeWorlds \union {NoWorld}
      BY DEF IInv, TypeOK
    <3>5. TypeOK'
      BY <2>1, <3>2, <3>3, <3>4 DEF TypeOK
    <3>6. OneReloadPerPress' /\ sinceRelease' > 0
      BY <3>2 DEF OneReloadPerPress
    <3>7. ReleaseRearms'
      BY <3>2, <3>6 DEF ReleaseRearms
    <3> QED BY <3>3, <3>5, <3>6, <3>7 DEF IInv
  <2>3. CASE Released(e)
    <3>1. /\ toggleKey' = FALSE /\ sinceRelease' = 0
          /\ UNCHANGED <<found, world, ini, cfg, lastRead, notice, status>>
      BY <2>1, <2>3 DEF Released
    <3>2. TypeOK'
      BY <3>1 DEF IInv, TypeOK
    <3>3. CompleteFileTakesEffect'
      BY <3>1 DEF IInv, CompleteFileTakesEffect
    <3> QED BY <3>1, <3>2, <3>3 DEF IInv, OneReloadPerPress, ReleaseRearms
  <2> QED BY <1>1, <2>2, <2>3 DEF hkBUIWorld_ProcessEvent, handleKeyEventWithModifiers
<1>2. CASE PlayerEditsIni
  BY <1>2 DEF PlayerEditsIni, IInv, TypeOK, OneReloadPerPress, ReleaseRearms,
              CompleteFileTakesEffect
<1>3. CASE ClientChangesWorld
  BY <1>3 DEF ClientChangesWorld, keyVars, IInv, TypeOK, OneReloadPerPress, ReleaseRearms,
              CompleteFileTakesEffect
<1>4. CASE UNCHANGED vars
  BY <1>4 DEF vars, keyVars, IInv, TypeOK, OneReloadPerPress, ReleaseRearms,
              CompleteFileTakesEffect
<1> QED BY <1>1, <1>2, <1>3, <1>4 DEF Next

\* IInv is an invariant of the hotkey.
THEOREM Invariance == Spec => []IInv
<1>1. Init => IInv
  BY InitInv
<1>2. IInv /\ [Next]_vars => IInv'
  BY StepInv
<1> QED BY <1>1, <1>2, PTL DEF Spec

-----------------------------------------------------------------------------
(* The properties TLC checks. *)

\* Whatever fps.ini holds, the settings stay ints.
THEOREM TypeCorrect == Spec => []TypeOK
<1>1. IInv => TypeOK
  BY DEF IInv
<1> QED BY <1>1, Invariance, PTL

\* One press of the hotkey reads the file at most once.
THEOREM AtMostOneReload == Spec => []OneReloadPerPress
<1>1. IInv => OneReloadPerPress
  BY DEF IInv
<1> QED BY <1>1, Invariance, PTL

\* While the settings are loaded a release makes the hotkey ready again.
THEOREM Rearmed == Spec => []ReleaseRearms
<1>1. IInv => ReleaseRearms
  BY DEF IInv
<1> QED BY <1>1, Invariance, PTL

\* A complete file is in force as a whole once it has been read.
THEOREM CompleteFile == Spec => []CompleteFileTakesEffect
<1>1. IInv => CompleteFileTakesEffect
  BY DEF IInv
<1> QED BY <1>1, Invariance, PTL
=============================================================================
