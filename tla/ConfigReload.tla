---------------------------- MODULE ConfigReload ----------------------------
(***************************************************************************)
(* The reload hotkey: hkBUIWorld_ProcessEvent watches the key events of    *)
(* the client, and Alt+Shift+P reads fps.ini again and tells the player.   *)
(* Events come in any order, number and combination: a release may be lost *)
(* (the window loses the focus first), an event may be delivered twice     *)
(* (two UI worlds process it), the modifiers may go up before the key.     *)
(***************************************************************************)
EXTENDS GameClient, PluginConfig, FiniteSets

CONSTANTS
  IniFiles,    \* the contents fps.ini may have
  SomeWorlds,  \* World objects the client may have
  FoundSets,   \* which client functions the pattern scan may have found
  NoWorld,     \* BNSClient_GetWorld() returned nullptr
  NullEvent    \* InputKeyEvent == nullptr

ASSUME IniFilesAssumption == IniFiles \subseteq IniFile
ASSUME FoundSetsAssumption == FoundSets \subseteq SUBSET ClientFunctions
ASSUME WorldsAssumption   == NoWorld \notin SomeWorlds
ASSUME SentinelAssumption == Absent \notin Int /\ Malformed \notin Int /\ Absent # Malformed

VARIABLES
  found,        \* the client functions whose hook or pointer InitDetours set
  cfg,          \* g_PluginConfig
  toggleKey,    \* toggleKeys[0x50] of handleKeyEventWithModifiers
  ini,          \* the contents of fps.ini
  world,        \* the client's World object
  status,       \* "running", or how the process ended
  notice,       \* history: what the last notice in the chat told of
  lastRead,     \* history: fps.ini as it was when it was last read
  sinceRelease  \* history: reloads since the key was last seen to go up

keyVars == <<toggleKey, ini, notice, lastRead, sinceRelease>>
vars == <<found, cfg, world, status, keyVars>>

\* What the hook reads of an event; only events with id 2 are key events.
KeyEvents == [id : {1, 2}, vKey : {"P", "Q"},
              KeyState : {"EKS_PRESSED", "EKS_RELEASED", "EKS_REPEAT"},
              modifiers : SUBSET {"alt", "shift", "ctrl"}]
Events == KeyEvents \union {NullEvent}

\* InitConfigValues has read the file before any hook is installed.  (A file
\* that makes std::stoi throw there keeps the hooks from being installed.)
Init ==
  /\ found \in FoundSets
  /\ ini \in {f \in IniFiles : ~Throws(f)}
  /\ cfg = ReloadFromConfig(DefaultConfig, ini)
  /\ lastRead = ini
  /\ toggleKey = FALSE
  /\ world = NoWorld
  /\ status = "running"
  /\ notice = "none"
  /\ sinceRelease = 0

-----------------------------------------------------------------------------
(* The notice: DisplaySystemChatMessage(BNSClient_GetWorld(), ...). *)

\* SendGameMessage_s looks at the address of oAddInstantNotification, which is
\* never null, and calls through it whatever it holds; BNSClient_GetWorld is
\* called without a look.
Notify ==
  \/ /\ "GetWorld" \notin found
     /\ status' = "null GetWorld"
     /\ UNCHANGED notice
  \/ /\ "GetWorld" \in found /\ world = NoWorld
     /\ UNCHANGED <<status, notice>>
  \/ /\ "GetWorld" \in found /\ world # NoWorld
     /\ "AddInstantNotification" \notin found
     /\ status' = "null AddInstantNotification"
     /\ UNCHANGED notice
  \/ /\ "GetWorld" \in found /\ world # NoWorld
     /\ "AddInstantNotification" \in found
     /\ notice' = IF cfg'.Loaded THEN "reloaded" ELSE "not loaded"
     /\ UNCHANGED status

\* std::stoi throws through the hook into the client, which may or may not
\* catch what it did not throw.
Unwind ==
  /\ status' \in {"running", "uncaught std::stoi"}
  /\ UNCHANGED notice

onPress ==
  /\ cfg' = ReloadFromConfig(cfg, ini)
  /\ lastRead' = ini
  /\ IF Throws(ini) THEN Unwind ELSE Notify

-----------------------------------------------------------------------------
(* The key. *)

ReloadKey(e) == e.vKey = "P"
ReloadModifiers(e) == e.modifiers = {"alt", "shift"}

\* Mutants: a held key is a new press, and a release counts only while the
\* modifiers are still down.
PressedAgain(e) ==
  /\ e.KeyState = "EKS_PRESSED" /\ ReloadModifiers(e)
  /\ toggleKey' = TRUE
  /\ onPress
  /\ sinceRelease' = sinceRelease + 1
ReleasedWithModifiers(e) ==
  /\ toggleKey /\ e.KeyState = "EKS_RELEASED"
  /\ toggleKey' = ~ReloadModifiers(e)
  /\ sinceRelease' = 0
  /\ UNCHANGED <<cfg, lastRead, notice, status>>

Pressed(e) ==
  /\ ~toggleKey /\ e.KeyState = "EKS_PRESSED" /\ ReloadModifiers(e)
  /\ toggleKey' = TRUE
  /\ onPress
  /\ sinceRelease' = sinceRelease + 1

Released(e) ==
  /\ toggleKey /\ e.KeyState = "EKS_RELEASED"
  /\ toggleKey' = FALSE
  /\ sinceRelease' = 0
  /\ UNCHANGED <<cfg, lastRead, notice, status>>

handleKeyEventWithModifiers(e) == ReloadKey(e) /\ (Pressed(e) \/ Released(e))

\* An event that does not reach one of the two disjuncts is only passed on.
hkBUIWorld_ProcessEvent(e) ==
  /\ status = "running" /\ "ProcessEvent" \in found
  /\ e # NullEvent
  /\ cfg.Loaded
  /\ e.id = 2
  /\ handleKeyEventWithModifiers(e)
  /\ UNCHANGED <<found, world, ini>>

-----------------------------------------------------------------------------
(* The environment: the player edits the file, the client changes its World. *)

PlayerEditsIni ==
  /\ status = "running"
  /\ ini' \in IniFiles
  /\ UNCHANGED <<found, cfg, world, status, toggleKey, notice, lastRead, sinceRelease>>

ClientChangesWorld ==
  /\ status = "running"
  /\ world' \in SomeWorlds \union {NoWorld}
  /\ UNCHANGED <<found, cfg, status, keyVars>>

Next ==
  \/ \E e \in Events : hkBUIWorld_ProcessEvent(e)
  \/ PlayerEditsIni \/ ClientChangesWorld

Spec == Init /\ [][Next]_vars
-----------------------------------------------------------------------------
(* Properties. *)

\* The settings are ints and the key's flag a bool, whatever the file holds.
TypeOK ==
  /\ found \in SUBSET ClientFunctions
  /\ cfg \in Config
  /\ toggleKey \in BOOLEAN
  /\ ini \in IniFiles /\ lastRead \in IniFiles
  /\ world \in SomeWorlds \union {NoWorld}
  /\ status \in {"running", "null GetWorld", "null AddInstantNotification",
                 "uncaught std::stoi"}
  /\ notice \in {"none", "reloaded", "not loaded"}
  /\ sinceRelease \in Nat

\* One press of the hotkey reads the file once, however often its event is
\* delivered and in whatever order the modifiers are let go.
OneReloadPerPress == sinceRelease <= 1

\* A release the plugin is told of makes the hotkey ready again: as long as the
\* settings are loaded, the flag says exactly that a reload was not released yet,
\* even when the reload ended in an exception.
ReleaseRearms == cfg.Loaded => (toggleKey <=> sinceRelease > 0)

\* A file with every key in it and no malformed value is in force as a whole
\* once it has been read, whatever earlier reloads left half done.
CompleteFileTakesEffect ==
  (lastRead.readable /\ \A k \in Keys : lastRead[k] \in Int32) =>
    cfg = [ForegroundLimit |-> lastRead.Foreground,
           CharselectLimit |-> lastRead.Charselect,
           LoadingLimit    |-> lastRead.Loading, Loaded |-> TRUE]

\* Hooks.cpp:240: "FPS Plugin Config Reloaded" is shown when it was.
NoticeIsTrue == notice # "not loaded"

\* BSFunctions.cpp:10: the notification is checked before it is called.
NotificationChecked == status # "null AddInstantNotification"
=============================================================================
