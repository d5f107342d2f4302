---------------------------- MODULE FasterLoading ----------------------------
(***************************************************************************)
(* The running plugin: the limiter and the reload hotkey on the settings   *)
(* they share (g_PluginConfig) in one client.  FpsLimiter takes the        *)
(* settings as something its environment changes, ConfigReload knows no    *)
(* limits; here each one's steps are the other's environment.              *)
(***************************************************************************)
EXTENDS FpsLimiter

CONSTANTS
  IniFiles,    \* the contents fps.ini may have
  NullEvent    \* InputKeyEvent == nullptr

VARIABLES toggleKey, ini, notice, lastRead, sinceRelease   \* see ConfigReload

Hotkey == INSTANCE ConfigReload WITH SomeWorlds <- Worlds

allVars == <<vars, toggleKey, ini, notice, lastRead, sinceRelease>>

ASSUME IniFilesAssumption == IniFiles \subseteq IniFile
ASSUME SentinelAssumption == Absent \notin Int /\ Malformed \notin Int /\ Absent # Malformed

\* Configs are the settings the hotkey can leave.
ASSUME ConfigsClosed ==
  \A f \in IniFiles : \A c \in Configs \union {DefaultConfig} :
    (Throws(f) /\ c = DefaultConfig) \/ ReloadFromConfig(c, f) \in Configs

PluginInit == Init /\ Hotkey!Init

LimiterStep ==
  /\ \/ hkBNSClient_GetWorld
     \/ \E l \in Limits : hkSetForegroundFpsLimit(l) \/ SaveBackground(l)
     \/ \E f \in Focus : hkFocusUnfocus(f)
     \/ Unhooked
  /\ UNCHANGED <<toggleKey, ini, notice, lastRead, sinceRelease>>

\* Mutant: a reload puts the new loading limit in force at once.
HotkeyStepApplies ==
  /\ \E e \in Hotkey!Events : Hotkey!hkBUIWorld_ProcessEvent(e)
  /\ engine' = IF regime.by = "loading"
               THEN Applied(engine, AsUint32(cfg'.LoadingLimit), FALSE) ELSE engine
  /\ UNCHANGED <<plugin, regime, seen>>

HotkeyStep ==
  /\ \E e \in Hotkey!Events : Hotkey!hkBUIWorld_ProcessEvent(e)
  /\ UNCHANGED <<engine, plugin, regime, seen>>

Outside ==
  \/ WorldChanges /\ UNCHANGED <<toggleKey, ini, notice, lastRead, sinceRelease>>
  \/ Hotkey!PlayerEditsIni /\ UNCHANGED <<engine, plugin, regime, seen>>

PluginNext == LimiterStep \/ HotkeyStep \/ Outside

PluginSpec == PluginInit /\ [][PluginNext]_allVars
-----------------------------------------------------------------------------
(* Properties. *)

\* How the hotkey ended the process is nothing the limiter knows of.
Limiter == INSTANCE FpsLimiter
             WITH status <- IF status = "null FocusUnfocus" THEN status ELSE "running"

\* To the limiter, a reload is the environment changing the settings, and nothing
\* else: everything FpsLimiter promises holds with the hotkey beside it.
LimiterRefined == Limiter!Spec

Complete(f) == f.readable /\ \A k \in Keys : f[k] \in Int32

\* A loading screen that starts, and a limit the game saves, go by the file that was
\* read last if it was complete, however many reloads before it ended half done.
LastCompleteFileCounts ==
  [][Complete(lastRead) =>
       /\ (regime' # regime /\ regime'.by = "loading" => regime'.limit = AsUint32(lastRead.Loading))
       /\ (regime' # regime /\ regime'.by = "charselect" => regime'.limit = AsUint32(lastRead.Charselect))
       /\ (\E l \in Limits : hkSetForegroundFpsLimit(l)) /\ lastRead.Foreground > -1
            => engine'.fg = lastRead.Foreground]_allVars
=============================================================================
