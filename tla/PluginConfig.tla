---------------------------- MODULE PluginConfig ----------------------------
(***************************************************************************)
(* The plugin's settings (PluginConfig.h/.cpp) and what a reload of        *)
(* fps.ini does to them.                                                   *)
(***************************************************************************)
EXTENDS Integers

CONSTANTS
  Int32Max,    \* largest int32_t (2^31 - 1 in the program)
  Absent,      \* the key is not in the file (GetValue returns nullptr)
  Malformed    \* the key's text is not a number, or not an int (std::stoi throws)

ASSUME Int32MaxAssumption == Int32Max \in Nat /\ Int32Max >= 999

Int32  == -(Int32Max + 1) .. Int32Max
Uint32 == 0 .. 2 * Int32Max + 1

\* Mutant: the sign is kept.
SameSign(n) == n

\* The conversion of an int32_t argument to a uint32_t parameter.
AsUint32(n) == IF n < 0 THEN n + 2 * (Int32Max + 1) ELSE n

Config == [ForegroundLimit : Int32, LoadingLimit : Int32,
           CharselectLimit : Int32, Loaded : BOOLEAN]

DefaultConfig == [ForegroundLimit |-> -1, LoadingLimit |-> 999,
                  CharselectLimit |-> 10, Loaded |-> FALSE]

(***************************************************************************)
(* What LoadFile and GetValue find in fps.ini when it is read.             *)
(***************************************************************************)
IniValue == Int32 \union {Absent, Malformed}
IniFile  == [readable : BOOLEAN, Foreground : IniValue,
             Charselect : IniValue, Loading : IniValue]

Keys == {"Foreground", "Charselect", "Loading"}

\* The keys ReloadFromConfig reads before it reads k, in its order.
ReadBefore(k) == CASE k = "Foreground" -> {}
                   [] k = "Charselect" -> {"Foreground"}
                   [] k = "Loading"    -> {"Foreground", "Charselect"}

\* std::stoi of a malformed value throws out of ReloadFromConfig.
Throws(ini) == ini.readable /\ \E k \in Keys : ini[k] = Malformed

\* Mutant: a key that is not in the file is assigned all the same.
AssignedUnchecked(ini, k, old) ==
  IF \E j \in ReadBefore(k) \union {k} : ini[j] = Malformed THEN old ELSE ini[k]

\* The setting of key k after the reload: assigned only when the key is there
\* and no malformed value stopped the function at it or before it.
Assigned(ini, k, old) ==
  IF ini[k] = Absent \/ \E j \in ReadBefore(k) \union {k} : ini[j] = Malformed
  THEN old
  ELSE ini[k]

\* Mutant: Charselect is only read at startup.
ReloadKeepsCharselect(cfg, ini) ==
  IF ~ini.readable
  THEN [cfg EXCEPT !.Loaded = FALSE]
  ELSE [ForegroundLimit |-> Assigned(ini, "Foreground", cfg.ForegroundLimit),
        CharselectLimit |-> IF cfg.Loaded THEN cfg.CharselectLimit
                            ELSE Assigned(ini, "Charselect", cfg.CharselectLimit),
        LoadingLimit    |-> Assigned(ini, "Loading", cfg.LoadingLimit),
        Loaded          |-> IF Throws(ini) THEN cfg.Loaded ELSE TRUE]

ReloadFromConfig(cfg, ini) ==
  IF ~ini.readable
  THEN [cfg EXCEPT !.Loaded = FALSE]
  ELSE [ForegroundLimit |-> Assigned(ini, "Foreground", cfg.ForegroundLimit),
        CharselectLimit |-> Assigned(ini, "Charselect", cfg.CharselectLimit),
        LoadingLimit    |-> Assigned(ini, "Loading", cfg.LoadingLimit),
        Loaded          |-> IF Throws(ini) THEN cfg.Loaded ELSE TRUE]
=============================================================================
