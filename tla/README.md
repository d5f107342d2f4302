# Verification of the BnS faster-loading plugin

The plugin is a DLL that a loader puts into the Blade & Soul client. It hooks
four functions of the client and changes the client's frame limits: none during
loading screens, a low one on the way to character select. This directory holds
TLA+ models of the plugin, TLC runs that check them on small instances, and
TLAPS proofs of the main results for every instance. Paths below are relative
to `src/BnsPlugin/` unless they start with `README`.

## 1. Inventory

| Component | State | Operations | Modelled in |
|---|---|---|---|
| FPS limiter (`Hooks.cpp`) | `focusState`, `focusUnfocusAddr`, `applyLowFpsToNextLoadingScreen`, `prevGeoZoneId`, `inTransitState` | the hooks of `GetWorld`, `SetForegroundFpsLimit`, `FocusUnfocus`; `SetAndApplyFpsLimits` and the three functions that choose a limit | `FpsLimiter`, `LoadingPolicy`, `HookThreads`, `FasterLoading` |
| Reload hotkey (`Hooks.cpp`, `BSFunctions.cpp`) | `toggleKeys` | `hkBUIWorld_ProcessEvent`, `handleKeyEventWithModifiers`, the notice in the chat | `ConfigReload`, `FasterLoading` |
| Settings (`PluginConfig.cpp`) | three limits, `Loaded` | `ReloadFromConfig` | `PluginConfig` (operators) |
| Start-up (`LeanPlugin.cpp`, `callbacks.cpp`) | the `once_flag`, the pointers to the client's functions | `oep_notify`, `LeanPlugin_Main`, `LeanPlugin_Init`, `ScannerSetup`, `InitMessaging`, `InitDetours`, `HookFunction` | `PluginStartup`, `EarlyCalls` |
| Detours transaction (`deps/Detours/src/detours.cpp`) | pending thread, error and operations; page protections; trampolines | begin, attach, commit, abort | `DetourTransaction` |
| The client (not in the repository) | limits object, World object, code | the hooked functions | `GameClient`, and the environment actions of the other modules |
| Pattern search (`deps/searchers.h`) | the byte being put together | `compile_pattern`, `pattern_searcher` | `PatternSearch` |
| Version resources (`versioninfo.c`) | where the walk is | `GetModuleVersionInfo`, compiled but not called | `VersionInfo` |
| Image access (`deps/pe`), SimpleIni, rest of Detours, other vendored headers, build files | | | not modelled: vendored, pure, or without behaviour |

**How they interact.** The loader calls `oep_notify` once the client's entry
point is reached. `LeanPlugin_Init` reads `fps.ini`, finds the client's
functions by byte patterns, and attaches the hooks in one Detours transaction.
From then on the plugin only runs inside calls of the client: every hook runs on
the thread that made the call and shares the statics of `Hooks.cpp` and
`g_PluginConfig` without a lock. The hotkey rewrites `g_PluginConfig`, which the
limiter reads the next time it sets a limit. The limiter acts on the client by
storing two fields of its limits object and by playing focus changes to it.

**What is hard.**

- The client takes a stored limit up only when its focus *changes*, and the
  plugin knows the focus only from events; `focusState` starts as a guess.
- `GetWorld` is called every frame. A loading screen is an *edge* between two
  calls, and the way out of character select has no edge in the transit flag.
- Every hook is found or not on its own, and results of Detours are ignored.
- The hooks go in while the client's other threads run; nothing suspends them.
- Exceptions (`std::stoi`) leave `ReloadFromConfig` half done, leave a hook into
  the client, and leave `call_once` at start-up.
- Key events may be repeated, delivered twice, or lost.
- `focusState` is read twice around a call into the client, the World is read
  anew for every test, and a hook may run inside another.
- A version resource is a tree of lengths, and each leads to the next block.

**What makes each component correct.** Limiter: the renderer always runs under
the stored limit for the client's focus; a screen's limit survives alt-tabbing;
played focus changes are undone; limits are written only during loading screens;
kinds of screens follow the intended order; every screen is noticed. Hotkey: one
press is one reload; a release rearms; a complete file takes effect as a whole.
Start-up: one initialiser; hooks are attached as a whole or not at all; a hook
meets a null pointer only where the client has no such function; what occurs in
the client is found; every caller returns; a client's call during the commit
ends in the client's own code. Pattern search: the first place that matches the text, and no range
outside the section. Version resources: nothing behind the resource is read, the
walk ends, and the value is the one of the block that the path addresses.

`PROJECT.json` lists every hazard with its line and the properties that cover it.

## 2. Modules

### GameClient, PluginConfig

`GameClient` is the client as `Hooks.cpp` uses it: a limits object
`[fg, bg, focused, cap]` where `cap` is the limit the renderer runs under. Its
three operations are assumptions about code outside the repository, inferred from the
plugin's calls: a stored limit is not in force until the focus changes (that is
why `SetAndApplyFpsLimits` toggles it), one that goes through the client's own
function is in force at once. `PluginConfig` holds the settings and
`ReloadFromConfig` as an operator: keys are read in the order of the code, an
absent key keeps its value, a malformed one throws and stops the function, an
unreadable file only clears `Loaded`. Integers keep their width: `AsUint32` is
the conversion at the calls of `SetAndApplyFpsLimits`.

### FpsLimiter and LoadingPolicy

Variables of the same names as the statics; `world` and `engine` belong to the
client; `found` is the set of functions whose pattern was found; `status` says
whether the process is still there (a call through a null pointer ends it).
`regime` (who wrote the limits last) and `seen` (what the last `GetWorld` call
saw) are history variables that no guard reads.

`hkBNSClient_GetWorld` is split by its `if`s: `EnterCharSelect` (line 142),
`ToggleTransit` (146), `NothingNew`. The constant `Live` is `_BNSLIVE`, which
only the LIVE build configurations define. `Unhooked`, `WorldChanges`,
`SaveBackground` and `ConfigReloaded` are the environment. A hook is one step.
The model lets the World change in any way between two calls (zone 0 is always
in transit, as the comment at `Hooks.cpp:140` says).

`LoadingPolicy` is the abstract specification: which kind of screen may follow
which, and that nothing but the game changes limits between screens.
`FollowsPolicy` is the refinement with `by <- regime.by` and
`pending <- applyLowFpsToNextLoadingScreen`.

### HookThreads

The three hooks with one step per access of a static, of the settings, of the
World and of the limits object, and per call into the client. It EXTENDS
`FpsLimiter` for the state and adds `stack`, the hooks running on each thread of
the client: a frame says what a hook does next (`at`), the argument or limit it
holds, the kind of screen it has decided on, and where it goes on after a call.
`CallClient` is the client's `FocusUnfocus`; it may ask for the World before it
returns, which puts another `GetWorld` hook on the same stack. That it does so only
once its focus change has taken effect is an assumption about the client: one that
asked before would let the inner hook run under the old focus. The steps of
`hkBNSClient_GetWorld` follow the code: `LookAtWorld` is the pointer test and the
two `if`s, `ChooseFunction` the second look at the World in `SetInTransitFps`,
`ChooseScreen` the flag, `ChooseLimit` the settings, then the two stores, the
played focus (`focusState` read for each of the first two calls anew), the flag,
`inTransitState` and `prevGeoZoneId`. The two statements that store the address
of the limits object and the focus are one step: the address is the same every
time.

*Assumption.* Which thread of the client does what is not in the repository.
A *schedule* is one answer, and a behaviour follows any of `Schedules`: everything
on one thread, or the focus events on a thread of their own. One thread asks for the
World in both, and the World changes on that thread, in between two of its
calls or in none; the client does not delete a World that a hook has the
pointer to.

`before` is the limiter's state at the last moment at which no hook that may
change limits or the flag had taken effect in part, and `race` how a focus event
got between the readings of `focusState`; no guard reads either. `race.toggle`
is set by any hook, also one inside another, that reads `focusState` the second
time and finds it changed, and cleared when limits are stored anew; it has to
outlast the hooks further out, which may play their focus without a race and
still find the client at the focus they play. `race.restore` is about the last
second call that reached the client. With `before` in place of the state,
`Atomic` is `FpsLimiter` and its `Spec` the claim that the hooks act as a whole.

### FasterLoading

The limiter and the hotkey on the settings they share: `EXTENDS FpsLimiter`,
INSTANCE of `ConfigReload` with the same `cfg`, `world`, `found` and `status`. A
step is a hook of one of them, the player editing the file, or the World
changing. `LimiterRefined` is the limiter's specification, with `status`
mapped so that the hotkey's ways of ending the process are invisible; the other
property follows the contents of `fps.ini` through reloads into the limits. That
the composition implements `ConfigReload` too is not stated: it holds by the way
`PluginNext` is put together. The named assumption `ConfigsClosed` says that `Configs` contains what a reload can leave;
`MCFasterLoading` computes it as a fixed point.

### ConfigReload

One action per event, the file and the World changing around it. Events that
reach neither branch only pass through and are not steps. `notice`, `lastRead`
and `sinceRelease` are history. An exception goes through the hook into the
client, which may or may not catch it: both are modelled. The start is a file
that did not throw in `InitConfigValues`; the start that throws is in
`PluginStartup`.

### PatternSearch

`compile_pattern` with one step per character, and the search as one step. A
byte is a function from the shift (4 or 0) to a nibble. `b` is the byte that is
put together, used again for the next one as in the code, and `HighOnly` is what
the code does with a byte of one digit. `Hits` is `std::search`, the only
operator for code outside the repository. `HighOnly` keeps the mask of the nibble
that was never given, although `searchers.h:41` says that values are masked; no
pattern of the plugin ends in the middle of a byte, and `FindsFirstOccurrence` is
about patterns of whole bytes. A section without bytes and a pattern
that is longer than the section are among the inputs.

### VersionInfo

`GetModuleVersionInfo` with one step per block looked at: `CheckHead`,
`StartSegment` (one segment of the path), `LookAtSub` and `NoneLeft` (the loop,
whose four conditions are operators of their own, in the order of the code),
`CompareFails`, `Return`. A resource is its size and the block that is read *at
every offset the walk may come to*, also where no block was meant to be and
behind the end of the resource: the model does not assume that the blocks are
well formed (the named assumption `ResourcesAssumption` says that something can be
read at each of the `Places` an aligned walk may come to). `off`, `len` and `index` are kept over the levels as the code's
variables are. `wValLen` is taken for bytes, as the code does. `reach` is
history: the last byte read. `CheckHead` may also fail for reasons outside the
file (no such resource, its type, the signature).

### DetourTransaction, PluginStartup and EarlyCalls

`DetourTransaction` takes the commit apart: the jump is written into the target
(`PatchTarget`), then the plugin's pointer is moved to the trampoline
(`MovePointer`), function by function, then protections are put back one by one
in list order. Page protections are kept per page, with what `VirtualProtect`
does: sets all pages, reports the first one's old protection. `DetourAttach`
may fail at any call; it takes the target from the pointer, and a null pointer is an
error. `DetourTransactionBegin` opens the memory of earlier trampolines, of which
the plugin's one transaction has none (`RegionsOpened`). `PluginStartup` adds
`call_once` with several callers, the steps of `LeanPlugin_Init` and the choice of
the second pattern. `ScannerSetup` stores the code
section in `data`, which every search after it reads; a search before it would
find nothing (`IsFound`).

`EarlyCalls` puts a thread of the client beside them, which calls the four
functions at any moment. Its `stack` holds the calls going on, innermost first:
a frame is at the first instruction of its function, in the hook, in the part of
`hkBNSClient_GetWorld` that sets a limit, or in the client's own code, and `calls`
is what a hook has yet to call. A call through the plugin's pointer puts a frame
on top: at the first instruction while the pointer holds the target, which may lead
into the same hook again, in the client's code once it holds the trampoline. `Ways` are
the ways through a hook: only that of `ProcessEvent` can leave without calling the
original, at a null event (`Hooks.cpp:234`) or by the exception of a reload
(`HookThrows`), and it calls `GetWorld` and the notice for the hotkey; the hook of `GetWorld`
plays two or three focus changes when the limits object is known (`SetsLimit`). Which way
is taken is left open, since that depends on the state of `FpsLimiter` and
`ConfigReload`: every way those allow is among them. A call through a null pointer ends the process,
and so does one that no longer fits on the stack (`StackSize`).

*Assumptions.* The client's functions return and call no hooked function themselves.
One client thread is followed: hooks write nothing the start-up reads, and what
another thread can change for this one is whether the limits object is known, which
is left open as soon as a hook that stores it is in (`AddressMayBeKnown`). The jump
appears in one step; a client thread that runs half of it is not modelled.

## 3. Runs

| Run | Shows |
|---|---|
| `limiter_live` | LIVE build, every combination of hooks, three zones: types, `CapFollowsFocus`, `AltTabKeepsLimit`, `FocusRestored`, `SameWorldChangesNothing`, the one combination that calls a null pointer (`NullCallNeedsSplitHooks`), limits written only in transit, the refinement `FollowsPolicy`; and under fairness loading screens are noticed and the low limit is lifted |
| `limiter_unlimited` | *refuted*: a screen that starts before the limits object is known stays limited |
| `reload` | the hotkey's four properties, every combination of hooks, nine files |
| `reload_notice` | *refuted*: the notice is shown although the file could not be read |
| `reload_null` | *refuted*: the null check of the notification function tests an address that is never null |
| `startup` | two callers of `LeanPlugin_Main`, every set of patterns found, every failing attach; functions that share pages and one across two pages: once, all or nothing, only writable pages are patched and all are restored, `FindsWhatOccurs`, and under fairness every caller returns |
| `calls` | a client thread that calls at any moment, every set of patterns found, every failing attach: a hook meets a null pointer only where the client has no such function (`HooksHaveOriginals`), comes back to itself only between the two writes of the commit for its function (`NestsOnlyHalfPatched`), and under fairness a call reaches the client's code unless the stack overflows first or the hook drops the event (`CallsReachOriginal`) |
| `threads` | one thread, hooks inside hooks: the effect is that of whole hooks one after the other (`HooksAreAtomic`), so the runs of `FpsLimiter` leave nothing out; focus events on a thread of their own: `ScreensFollowPolicy` still holds, `StaleLimitNeedsRace` and `LostFocusNeedsRace` say which one race breaks the rest |
| `plugin` | with the hotkey beside it the limiter still implements its specification; after any number of reloads the file read last counts when it was complete |
| `patterns` | every pattern and section within the bounds: found first, found exactly when it occurs, range inside the section |
| `version` | every resource and path within the bounds: the walk stays inside, ends, and finds what the path addresses |
| `startup_pages` | *refuted*: when the first page of such a function was opened earlier in the transaction, its second page stays writable |

**Bounds.** `Int32Max = 1023` stands for 2^31 - 1: the code only compares limits
with -1 and converts a sign, and 1023 is above the default 999. Two zones are
character select and the game; the third of `limiter_live` lets zone changes within
the game happen. The runs are of the LIVE build: the other builds lack one branch
of `hkBNSClient_GetWorld` and one of `SetAndApplyUnlimitedFps`, and the theorems
about the limiter are for both.
Leave reasons 0, 1, 2 are the two the code tests and another. Two limits
tell a limit of the game from the next; the configurations are the default and
one that overrides all, with a negative loading limit. The files are the one
shipped (only `Foreground`), complete ones, one with each key missing or
malformed, an empty and an unreadable one. No counter needs a bound:
`sinceRelease` is bounded by a property that holds. Start-up has the four
functions the code has; two callers show everything the once-flag does; of
three pages one has a single function and the two others share one, which goes
over the boundary between them, so that the latest-first order matters. `calls` has one caller, one page
and a stack of four calls: enough for the hotkey's `ProcessEvent`, `GetWorld`, a
played `FocusUnfocus` and the client's code, and small enough that hooks inside
themselves overflow it. `maxDepth` bounds hooks inside hooks on one thread: 3
lets a hook run in a hook that runs in a hook, and 2, with the focus events
elsewhere, one in another; a client whose `FocusUnfocus` asked for the World
every time without an end is out of the bound. (The proofs of section 4 are for
every depth and any number of threads.) With the focus
events elsewhere, `threads` leaves out the client saving its background limit,
reloads, and settings without an override (`BoundedInit`); with one thread it has
them. `plugin` has two complete files, one that throws half way
and an unreadable one. Patterns have up to five characters, from two digits,
the wildcard and the separator; sections up to three bytes: a wildcard in either
half, a separator anywhere, a half byte at the end, and patterns longer than the
section all occur. The resource has 24 bytes behind its head, ten shapes of
blocks and nine paths of up to two segments: two levels, three siblings, lengths
of zero, odd lengths, lengths that lead behind the end.

**Deadlock** is checked except in `limiter_live`, `reload`, `plugin` and `calls`,
where the process may end (null call, uncaught exception, stack overflow), and in
`startup`, `startup_pages`, `patterns` and `version`, where every caller has
returned or was left by the exception, or the function has returned.

**Fairness.** `FpsLimiter!FairSpec` has weak fairness of
`hkBNSClient_GetWorld` alone: the client asks for its World every frame. Nothing
is assumed of the player or of how long a screen lasts, so the liveness
properties allow for a screen that is over before the client asks.
`PluginStartup!FairSpec` has weak fairness of each initialising thread, and
`EarlyCalls!FairCallsSpec` of the client's thread within a call too: the operating
system runs threads that can run. No caller is assumed to come, and no call. `VersionInfo!Spec` has weak fairness of the function's own
steps: it is one loop on one thread. The comparison that fails is not assumed to.

**Findings.** (1) `limiter_unlimited`: `inTransitState` is set even when no limit
could be, which uses up the edge; README.md:9 promises loading without limits.
(2) `reload_notice`: `Hooks.cpp:240` reports a reload that failed, and that
failure also turns the hotkey off. (3) `reload_null`: `BSFunctions.cpp:11` tests
the address of the pointer, not the pointer, against its own comment.
(4) `startup_pages`: `detours.cpp:1695` restores all pages of a target to the old
protection of the first, against the comment at `detours.cpp:1690`; vendored
code, and only for a target across a page boundary whose first page was opened
earlier in the same transaction.

## 4. Proofs

Eight modules hold theorems (names end in `Proofs`). They prove, for all values of the
constants that satisfy the named assumptions of the modules (types of the sets,
sentinels distinct from values; `Int32Max` a natural number not below 999), every
invariant, every action property and every refinement that a passing run
checks; some under a hypothesis that is part of the theorem and named below.

- **FpsLimiter.** `IInv` is `TypeOK`, the four state properties, and three facts
  without which they are not inductive. `HooksExplainState`: without the
  `FocusUnfocus` hook the focus is still the initial guess and no screen's limit
  is in force; a known limits object came from one of two hooks (needed for
  `NullCallNeedsSplitHooks` and `FocusRestored`). `StaticsFollowWorld`: the
  statics are what the last `GetWorld` call saw (needed for `SameWorld`).
  `FlagNeedsLive`: other builds never set the flag. The key lemma is
  `AppliedFacts`: whatever focus the client has, the two played changes put the
  new limit in force and end at the plugin's focus. `Invariance` gives the five
  invariant theorems; `WritesInTransit` and `SameWorld` are action properties;
  `ImplementsPolicy` is the refinement of `LoadingPolicy`; `LowBranchIsDead`
  shows that the low branch of `SetInTransitFps` can never be taken, because the
  test at line 142 has the same condition and comes first.
- **HookThreads.** For any number of threads and any depth of hooks inside hooks
  (`maxDepth` is whatever the schedule says). `FramesInv` (`ThreadsTypeCorrect`,
  for every schedule) gives each frame its type, what a hook holds at each step
  (`FrameOK`), that only a hook which has called the client has another inside it
  (`StackOK`), and that a hook past line 137 has a World. On top of it:
  - `StaleLimit`: a limit that is not in force either follows a race or is about
    to be taken up. `WillToggle` names the steps at which some hook will change
    the client's focus before it is done, inner hooks included, and `StoresBoth`
    how far the two stores have got; without them `StaleLimitNeedsRace` is not
    inductive. Hypothesis `OneLimiter`: one thread asks for the World and saves
    foreground limits.
  - `LostFocus`: likewise `WillRestore` names the steps that still play the last
    event's focus. It needs that hooks inside each other decide on one screen
    (`ScreenInv`: what the outer one saw is still new until the innermost remembers
    it), because only the screens with the low limit leave the client unfocused.
    Hypotheses `OneFocus` (focus events on one thread, any one) and `OneWorld`.
  - `ScreensPolicy`: `DoneInv` says, at every step of a stack of hooks, what of
    their effect on the flag, the statics and `regime` is there and what is still
    that of `before`; the last step of the outermost hook then is one step of
    `LoadingPolicy`. Hypothesis `OneDecides`: the other threads have no more than
    focus events and reloads.
  - `AtomicHooks`: `AtomInv` adds the limits object and the focus. The hooks inside
    a hook store the same limits again, and the client ends at the same focus with
    the same limit, so the whole stack is one `GetWorld` hook of `FpsLimiter`.

  *The hypotheses* say which thread of the client does what. They are about code that is not
  in the repository: nothing there says that two threads ask for the World, or that
  the World changes while a hook looks at it. Both schedules of the run `threads`
  satisfy all of them; `OneThread` is part of `HooksAreAtomic`. A World that
  changes on another thread is the hazard at `Hooks.cpp:162`.

  *What the proofs found in the model.* `race` was once overwritten by every
  hook, and `StaleLimitNeedsRace` with that meaning is false when three hooks run inside each
  other and focus events come on another thread: the inner hook meets the race, the
  outer ones end without one. The run's second schedule has depth 2, which hid it.
  `OneThread` once allowed threads that have focus events only.
- **FasterLoading.** `PluginImplementsLimiter` maps every step of the composition
  to a step or a stutter of the limiter: nothing but the settings is shared, what
  a reload can leave of them is in `Configs`, and the hotkey's writes to them are
  the limiter's environment action. `LastFile` is an invariant about the settings and the file
  read last, with the lemmas about `ReloadFromConfig`.
- **ConfigReload.** `ReloadType` and `ReloadComplete` are the lemmas about
  `ReloadFromConfig`; `Invariance` gives types, `AtMostOneReload`, `Rearmed`
  and `CompleteFile`.
- **PluginStartup.** `Control` says that
  the once-flag is running exactly while one caller is in `LeanPlugin_Init`, and
  that the transaction is that caller's, which gives `TypeCorrect`, `OneAtATime`
  and `ReturnsLast`. `Installed` says how far each loop of the commit has got: a
  function is patched, and its pointer moved, when the loop is past its operation
  (`Progress`), and a pointer is set before anything leads to it (`Pointers`);
  without the cursor `AllOrNothing` is not inductive. Of the patterns still to come only
  the second of `SetForegroundFpsLimit` can lead to a function already attached,
  and it is skipped then (`Superfluous`), which gives `NeverTwice` and, with
  `FoundSoFar`, `FindsEach`. A page stays writable
  until the loop that restores it (`WritesWritable`), for any layout. A page is
  writable because of an operation that is still to be undone, and an operation
  that saved "writable" has an earlier one on its pages, undone after it
  (`Layers`): `RestoresPages`. It assumes `OpenedTogether`: when a function goes over
  the end of a page, one attached before it (`Before`, the order of the patterns)
  that touches its first page touches its last one too. `InOrder` says that the pending
  operations follow that order. The layout of the run `startup` satisfies the
  hypothesis, that of `startup_pages` does not, and the property is refuted there.
  `InitShortens`: `LeanPlugin_Init` has at most 28 steps, each leaves fewer to go, and
  no step of another thread changes that; `WaitsForInit`: a caller that waits can go
  on, or waits for one that is in `LeanPlugin_Init`. They are what `CallersReturn` needs
  besides fairness.
- **EarlyCalls.** `CallsLeaveStartup`: the client's calls change nothing of the start-up,
  so all of the above holds with them. `NeverNull`: a function is patched only after
  all patterns have been looked for (`PatchedMeansFound`), and only a patched function
  has a hook to get into. `NestsBetweenWrites`: a hook that is entered again
  through its own pointer is that of a function which is patched while its pointer
  still holds the target, and the only such function is the one the commit is at,
  between its two writes (`HalfPatched`). Both for any number of callers of
  `LeanPlugin_Main`, any layout of the pages and any stack size.
- **PatternSearch.** For every pattern and section. `Compiled` is the invariant of
  `compile_pattern`: after any number of characters, the nibbles of the text read
  so far are, in order, those of the bytes in `cp` and of the byte being put together
  (`NibbleAdds` and `SeparatorKeeps` for its steps). A compiled pattern then
  matches at a place exactly when its text occurs there (`MatchIsOccurrence`,
  `HitsAreOccurrences`), which gives `FirstOccurrence`; `RangeInside` needs no
  more than the range of `Hits` and holds for half bytes too.
- **VersionInfo.** `Inside`: the block reached is a block of the resource with
  its key, the value of the last one looked at ends in it, and the next one is
  looked at on a multiple of four behind the head. `StaysInside` follows for
  every resource and every path. `AddressedFound`, for every resource and path:
  `OnPath` says that the walk is at the block to which the segments done so far
  lead, and that the blocks of the level before `sub` are passed, which the list
  of a parent's blocks, `PartsFrom`, holds in that order. `WalkShortens`: what is
  `Ahead` of the walk is a natural number that every step makes smaller, so of
  `WalkEnds` only fairness is left to TLC.

*Functions defined by recursion.* `PartsFrom` and `Reached` are recursive functions, and
before anything is said about them it has to be shown that a function with
their equation exists. The library's theorems for this take an operator as a
parameter, which no prover here can instantiate. Instead `ListExists` and
`ReachedLevels` look at the least number for which there is no such function up
to there (`MinIsLeast`, from the well-foundedness of the naturals) and extend the function that
exists below it. The rest of the proof does not use them: `OnPath` is stated for every `f`
and `R` with their equations (`Leads`), which no step changes.

*Only model-checked*: the liveness properties, `LoadingScreenNoticed`,
`LowLimitIsLifted`, `CallsReachOriginal`, `CallersReturn` and `WalkEnds`;
liveness under fairness is beyond the prover.

## 5. Plan

Done: the modules of section 2, each with its runs, and the proofs of section 4.
Next, proofs again:

1. The composition `FasterLoading` with hooks in steps, from `AtomicHooks`.
2. A variant for the client's call during the commit, the room left on the stack:
   what `CallsReachOriginal` needs besides fairness.

## 6. Not modelled, and why

Instruction copying and trampoline placement in Detours, `DetourDetach` and
suspended threads (the plugin detaches nothing and suspends nobody); the image
headers read by `deps/pe` (`ScannerSetup` is modelled for an image that has a code
section; without one it would use the end iterator, which is undefined; every executable the
loader starts has one); two
threads that both ask for the World, a World that changes on another thread than
the one that asks for it, reloads on another thread than the saving of settings
(nothing in the repository says that the client does any of this); SimpleIni's parser (a file is
readable or not, a key absent, malformed or a number); wording and debug
output; `DisplayScrollingTextHeadline`, `GetAddress`, `EngineKeyStateString`
and `patternbyte.h`, which nothing uses. When the client saves its own limits
again after a loading screen (README.md:10) is the client's doing and not in the
repository, so no property decides it.
