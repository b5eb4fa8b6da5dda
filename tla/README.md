# emu-anywhere: models, checks and proofs

emu-anywhere runs Nintendo DS and Game Boy Advance games in a web page. Two
emulator cores are compiled to WebAssembly (melonDS in `src/wasmelonDS`, driven
by `src/webmelon-sdk/webmelon.js`; mGBA as an npm package); a Preact frontend
(`src/frontend/src`) loads a game, starts a core, turns keys, game controllers
and touches into emulated buttons, and keeps saves in the browser.

This directory holds TLA+ models of the parts that are hard to test: the
frontend and the SDK, where everything is asynchronous (event handlers,
animation frames, timers, promises, an audio thread), and the parts of the DS
core where two processors, a geometry engine, DMAs, an event scheduler and a
render thread meet. What can go wrong is almost always an order of events
nobody tried.

Paths below are relative to `src/`; `input/`, `components/` and `cores/` are
under `frontend/src/`.

## The system

| Component | State it keeps | Operations | What makes it correct |
|---|---|---|---|
| Binding model (`input/bindings.ts`) | none: values | assign a slot, flags, presets, merge, migrate | a control is never booked twice; stored slots come back |
| Input router (`input/router.ts`) | sources per action, latches, applied edges, turbo phases, extras | setSource, releaseSource, tick, releaseAll, setBindings, setCore | what it believes of the core is true, presses of a boot aside; idle buttons come up |
| Keyboard source (`input/keyboard.ts`) | held keys | keydown, keyup, blur, capture | held keys are down; typing presses nothing |
| Gamepad source (`input/gamepad.ts`) | active slots per pad | poll, disconnect, reset | no source outlives its pad |
| Input runtime (`input/index.ts`) | capture mode, subscriptions | mount, unmount, panic release | a capture is silent; leaving releases everything |
| WebMelon bridge (`input/webmelon-bridge.ts`) | the SDK's settings and pad flag | mirror bindings, claim the pad | the SDK agrees with the router |
| Controls page (`components/settings-menus/controls.tsx`) | capture in progress | capture, clear, flags, presets, import | the key that makes a binding is not played |
| Config store (`input/store.ts`, `components/settings.tsx`) | current config, localStorage | load, save, subscribe, close the dialog | edits survive; nothing changes without one |
| Touch controls (`components/touch-controls.tsx`) | pointers, counts | press, slide, lift, blur | counts are the fingers; a shared button stays down |
| DS core, entry page, game view (`cores/nds.ts`, `components/entrypoint.tsx`, `components/emulator.tsx`) | boot progress, view, pause, speed | boot, pause, resume, fast forward, quit | the view shows a loaded game in the state it has |
| GBA core (`cores/gba.ts`) | module, paused, started game | boot, pause, resume, speed, destroy | one game runs, and is the one shown |
| WebMelon SDK (`webmelon-sdk/webmelon.js`) | emulator, interval, latch, button mask, save flag, audio queue | frames, keys, shutdown, syncs, sound | one interval; saves are stored; sound keeps its order |
| Save Data page (`components/settings-menus/savedata.tsx`) | list, restore wait | upload, delete, download | no save is set back |
| DS save writer (`wasmelonDS/.../WasmEmulator.cpp`) | the cart's save path | loadRom, writeSave | |
| DS main loop (`wasmelonDS/src/NDS.cpp`, `GPU.cpp`, `ARM.cpp`, `DMA.cpp`) | three timestamps and targets, the scheduled events, halts and stops, sleep mode | RunFrame: slices, catching up, events, sleep | the processors are in step; no event is late; every call returns |
| Geometry FIFO (`wasmelonDS/src/GPU3D.cpp`, `FIFO.h`) | pipe, FIFO, stall queue, GXSTAT, its interrupt and DMA | packed and single stores, status, execution, flush | one queue, nothing lost; stalls end; status and interrupt follow the level |
| Software renderer's thread (`wasmelonDS/src/GPU3D_Soft.cpp`) | three semaphores, two flags | start, draw, show, set up anew | no undrawn line is shown; the thread rests while its input changes, in frames that are not given up; nobody waits for good |
| SPU output, wasm platform, cross-origin bootstrap, wake lock, other settings | see "Not modelled" | | |
| The rest of melonDS and of its desktop frontend, IodineGBA, build scripts | devices and data, vendored, unused or build-time | | |

How they interact: keyboard and gamepad sources push *sources* into the router
by calls; the router pushes button *edges* into the core of the running game
from an animation-frame loop. For DS games the core is a bit mask in the SDK,
and the SDK's own key listeners write the same mask. The settings pages talk to
all of these through the config store's subscribers and a capture flag. The
entry page and the game view start and stop a core; the SDK drives DS frames
from `setInterval`, posts their sound to a worklet on the audio thread and
syncs saves to IndexedDB from timers. Every handler runs to its end; what comes
between handlers, and between an `await` and what follows it, is the subject of
the models of this side.

Below `runFrame`, the DS core is one call of `NDS::RunFrame` per frame. It runs
the ARM9 for a slice that ends at the next event, lets the geometry engine and
then the ARM7 catch up, and fires what is due. A store of either processor may
schedule an event in the slice that is running, stop a processor, start a DMA,
fill the geometry FIFO or send the console to sleep. In the desktop frontend a
thread draws the 3D picture beside it, one frame behind.

## Modules

| Module | Models | Handlers as actions |
|---|---|---|
| `Bindings` | slots, flags, `assignSlot` as operators on maps | |
| `InputRouter` | `router.ts` for any devices | one action per call of a device, `Frame` for `tick`, `Mount`, `Boot`, `Unmount`, `Rebind`, `Panic` |
| `DesktopInput` (on `InputRouter`) | keyboard, gamepads, runtime, capture, edits, focus, WebMelon's listeners | `KeyDown`, `KeyUp`, `AnimationFrame` (poll, then tick), `Leave`, `Start`, `ModuleArrives`, `Stop`, `CaptureKey`, `SwallowKey`, `KeyRepeat`, ... beside the physical devices |
| `TouchControls` | the on-screen pad | `Down`, `Move`, `Up`, lost lifts, `Leave` |
| `SaveStorage` | save files, syncs, the restore, reloads | one action per handler or completion of a request |
| `Session` | the life of a DS game | boot steps, effects after the paint, pause, speed, quit, frames |
| `GbaSession` | the life of GBA games | boot steps of every core ever started, the view's buttons |
| `SoundQueue` | what the buffers of sound promise: a queue, and what it lets go of when it is full | `AddAndTrim`, `AddMakingRoom`, `Take`, `Clear`, `Silence` |
| `AudioPath` (implements `SoundQueue`) | sound from a frame to the speaker | `Frame`, `Deliver`, `Process`, `ProcessQueue`, module loads, shutdown |
| `ConfigStore` (on `Bindings`) | localStorage, migration, the SDK's copy | `Reload`, `StartDs`, `CloseSettings`, `Edit`, `Import`, ... |
| `FrameLoop` | `RunFrame`, the scheduler, what the processors' instructions do to it, sleep mode | the loop's parts (`StartFrame`, `BeginSlice`, `Enter9`, `RunGeometry`, `Enter7`, `FireLCD`, ..., `EndSlice`, `SleepStep`, `Return`) and one action per kind of instruction (`StartDiv`, `Halt9`, `FillGeometry`, `EnterSleepMode`, ...) |
| `GxQueue` | what the geometry FIFO promises: a queue that says when its writer must wait | `Put`, `Take` |
| `GxFifo` (implements `GxQueue`) | pipe, FIFO and stall queue, decoding of packed words, GXSTAT, interrupt, DMA, flush | `StorePacked`, `Decode`, `StoreCommand`, `ReadStat`, `WriteStat`, `Acknowledge`, `StartDMA`, `EndUnit`, `Execute`, `Finish`, `VBlank`, `Return` |
| `RenderThread` | the thread, `SetupRenderThread` step by step, the emulator's frame, the frontend | one action per statement that a semaphore, a flag or the buffer separates |
| `MC*` | small maps, layouts, buffers and clocks for TLC | |
| `*Proofs` | theorems of the module they extend; `SdkProofs` of `SaveStorage` and `AudioPath`, `GameViewProofs` of `GbaSession` and `TouchControls` | |

A record `router` in `InputRouter` stands for the object of class
`InputRouter`; its fields keep the source's names (`sources`, `latched`,
`applied`, `extrasDown`). `pressed` is what each core has taken of what it was told:
a GBA core takes nothing until its game is there (`gba.ts:122`), which `hears` says.
`missed` is history: the buttons that the router has recorded as pressed while the
core took nothing, until it tells the core of them again. `firmware` in `SaveStorage`
says whether `/firmware` has been made, and with it every mount restored once more.
The variables, actions and specification of `SaveStorage` and `TouchControls` have
names beginning with `Storage` and `Touch` where another module that is proved
about together with them has the plain one.
Variables elsewhere keep the source's names too and are commented where they
stand for something of another name. Each operator called `...Leaking`,
`...Keeping...` or the like and commented "Seeded fault" is a plausible bug: it
is not part of any specification, and replacing its neighbour by it makes one of
the properties fail.

Abstractions. A control is a model value, a key name too; axes are controls
that are up or down. Wording, layout, rendering and vibration are left out.
Sound samples are numbered; the contents of a save are a number. In the DS core
an instruction is what it does to the loop and how long it takes; times count
from the end of the last slice, and the ARM9's clock is twice the system's. An
entry of the geometry FIFO is its command: parameters do not matter to it. How
long a command takes is left open, within the bound that a slice may end after
any of them. A picture is a number. The browser
(focus, pads, `FS.syncfs`, audio contexts, effects) and mGBA are modelled from
how the code uses them, and nondeterministically where they may fail or wait.

## Checks

Every run finishes with the whole state space explored. Bounds are constants of
the modules and named in the `.cfg`.

| Run | Bounds | States | What it shows |
|---|---|---|---|
| `desktop` | GBA, before and after its core has the game: 2 keys, 1 pad, 2 actions or 1 with flags, a capture for either device; DS: 2 keys, 1 pad, an edit | 104 478 | No orphaned sources or double bookings; the key that made a binding is silent; in a GBA core that has its game a held button is down, and the router's record is true, but for presses made during the boot; a released button comes up; the SDK's pad flag stays true. |
| `touch` | 3 pointers, 2 buttons, lost lifts | 475 | The core is told that a button is down exactly while a recorded finger is on it, also after lost lifts and on leaving. |
| `saves` | 2 games, 2 writes, 2 page syncs, both restores | 129 623 | The saving flag never sticks; no old save is started or written back; an armed sync arrives. |
| `session` | 2 intervals at a time | 438 | No view before its emulator's loading has finished; one interval, pause and speed as shown, boots end. |
| `gba_session` | 2 games | 3 156 | One game, shown as it is; boots end. |
| `audio` | ring of 5, target 2, batches to 3, 8 samples, 2 games | 428 188 | Ring and fallback implement one queue; sound keeps its order and its game; a loaded processor is fed. |
| `config` | 2 buttons, an extra, 6 keys, 1 edit | 15 290 | Stored maps come back; migrated keys stay on their buttons; primaries survive any number of loads. |
| `gx` | pipe 3, FIFO 2, stall queue 4, words of 2 commands, 2 stores in a slice, a DMA of 3 words | 301 319 | The three buffers implement one queue; nothing is dropped; stalls are due and end; status, interrupt and waiting DMA follow the level. |
| `frame_loop` | 2 lines of 4 cycles, slices of 2, 4 kinds of game, 1 sleep in a call | 846 808 | Processors in step when events fire; events on time; a call's samples; every call returns. |
| `render` | 2 lines, 2 pictures, 1 write to VCOUNT in a frame | 366 717 | Lines are shown when they are drawn; the thread rests in the vertical blank of a frame that goes on, and when a setup ends; no wait is for good. |
| `saves_lost` | as `saves` | violation | See Findings. |
| `frame_hang` | as `frame_loop`, a game that sleeps and is woken up early | violation | See Findings. |

Why the bounds are enough. The router treats actions and sources alike, so two
of each show every conflict (one control, two actions; one action, two
controls). Two games show what the first leaves behind for the second. Of two
saves the second is made before, during or after a sync of the first; with three
the `saves` run passes too, in about four minutes. Eight samples in a
ring of five wrap, fill and trim both rings; the constants keep the code's
order: target below capacity, a batch no longer than the ring. Two intervals at
a time are already the fault that `OneLoop` excludes. One edit suffices in
`config`, because an edit that was stored ends the migration and one that was
refused is forgotten by the next load.

In `gx` the buffers keep the order of the code's sizes: a refill of the pipe
(when at most 1 is left, by 1; in the code at most 2, by 2) leaves room in it,
the FIFO is longer than a refill, "half full" is at most full, and the
stall queue takes what one slice can write. That last bound is an assumption
about games, see below. Words of two commands show a stall within a word,
before and after a parameter. In `frame_loop` a slice is shorter than a line, a
DisplayFIFO piece shorter than the longest instruction, a sleep longer than a
frame; with two lines an event meets a line's and the frame's end, and
`MaxSleeps` bounds the calls' length only. `render` needs two lines for a frame
that is half drawn and two pictures to tell an old one from a new one; the
theorems about `GxFifo` hold for buffers of every size.

Assumptions on the surroundings are variables chosen once, so that the
properties stated under them and those stated without them share one run:

- `prompt` (Session): effects of a rendering run before the user acts again. Preact
  runs them after the paint, so a faster action is possible and is in the model;
  `OneLoop` and the properties after it are stated for a prompt browser.
- `careful` (SaveStorage): the user opens the Save Data page only once the
  restore has ended, and a game only once the entry page's probe has made
  `/firmware` (the usual order: the probe runs when the runtime is ready), and
  IndexedDB does not fail. `SavingHasASync` holds without it.
- `patient` (GbaSession): the user leaves the view alone until the boot has ended.
- `ordered` (AudioPath): worklet modules arrive in the order asked for.
- `FreshIds` (TouchControls): every contact has an id of its own, as touches do
  and a mouse does not.

The core's models have theirs as constants and sets of inputs:

- `Stores` and `StallSize` (GxFifo): the ARM9 writes no more entries in one slice
  than the stall queue takes. The code has 64 and relies on it (`GPU3D.cpp:1693-1696`).
- `EarlyWake` (FrameLoop): whether a sleeping ARM7 can be woken up before the
  loop has noticed the sleep. `frame_loop` excludes it; `frame_hang` shows why.
  `SleepLines` says in which lines games enter sleep mode.
- `Races` (RenderThread): whether the emulator may set up the thread just between
  two of its statements. `render` excludes it, for `WaitsEnd`; the theorems hold
  with it.
- `late` (RenderThread) is history, not an assumption: it says that a setup has met a
  frame half way, so that the lines of the next may be older ones, or that a token of an
  earlier frame is left. It ends with a setup that finds the thread at rest and the
  frame at its start, and no such token.

Fairness. `AnimationFrame` and `Frame` are weakly fair, as the browser keeps
calling a requested frame of a visible page. Timers, IndexedDB
requests, file reads, fetches and effects are weakly fair: they complete or
fail. Users, devices and losses never are.

In `FrameLoop` the loop is weakly fair as a whole: it is one thread of
control, and each of its turns takes time, so that no other fairness is needed.
In `RenderThread` both threads are weakly fair, as the operating system runs
them; the game and the user are not. In `GxFifo` the ARM9's slice ends and the
engine executes and reaches a vertical blank again and again, whatever the game
does: these three are strongly fair because a game's status reads disable them
for a moment, and time passes over such reads (each of them takes cycles of the
slice and of the engine alike).

## Findings

**`saves_lost`**: while `isSaving` is set a further save arms no sync
(`webmelon.js:258`), although the sync in progress may have copied the file
already. The newest save then stays in memory until the next one, and is lost
with the page.

**`frame_hang`**: an interrupt that reaches a sleeping ARM7 sets
`CPUStop_Wakeup` (`NDS.cpp:1507`), and the next turn of `RunFrame`'s outer loop
skips `GPU.StartFrame` for it (`NDS.cpp:939-943`), because the frame that the
sleep has interrupted goes on. That frame may be over: the interrupt comes in
the slice of the sleep itself (the ARM7 goes on until its end; an alarm
fires), so that the loop never sees the sleep and the flag waits for the next
frame; or the sleep begins in the slice that fires `FinishFrame`. Then no LCD
event is scheduled, nothing ends the inner loop, and `RunFrame` never returns:
in the page, a tab that hangs. `ARM.cpp:1057` says of `GPU.StartFrame()` "need
this to properly kick off the scheduler & frame output".

### Further disagreements, without a run

Each was met as a counterexample while modelling. The number of runs is kept
small; where a definition in these modules states the property, it is named and
can be added to a `.cfg`.

- On a first visit, opening and closing the settings dialog stores the SDK's
  default settings (`settings.tsx:71`) under the key from which `loadConfig`
  migrates until the first edit. They know no alternates, so the next load clears
  the alternate key of every button (`bindings.ts:493-497`) and the arrow keys stop
  moving the D-Pad, although the player has changed nothing; `bindings.ts:461` says
  that the old map "is translated forward once": `MigratesOnce`.
- A key held while its slot is cleared or rebound stays asserted after its
  release, because `keyup` consults the new map (`keyboard.ts:112`):
  `ReleasedButtonsComeUp` with `kinds |-> {"clear"}` in a GBA setup. `router.ts:12-15` calls
  stuck buttons "structurally impossible".
- A game whose boot finds the save directory starts at once, also while the
  restore that created it is running or after it failed (`webmelon.js:471`):
  `StartsFromStored`.
- The restore of `initializeFirmwareDirectory` (`webmelon.js:457`) is an
  `FS.syncfs(true)` over all mounts. When `/firmware` is made after `/savefiles`, a game
  can be saved before it ends, and is set back: `StartsFromSave` if the careful user
  does not wait for `/firmware`.
- `loadUserBIOS` may return without having loaded anything (`WasmEmulator.cpp:79-84`), and
  `loadCart` does not look at what `loadRom` returns (`webmelon.js:672`); the view
  appears all the same. `RevealedIsLoaded` says that the calls have returned.
- `setNativeInputEnabled(false)` is called while the GBA boot still awaits its
  module, is ignored (`gba.ts:168`) and never repeated; mGBA's keyboard handler
  stays on beside the router: `OneKeyboardOwner`.
- A key or pad button that goes down while a GBA game is still loading, and stays
  down, is never pressed in the game: `setButton` returns while the module is null
  (`gba.ts:122`), but the router has recorded the press as told and pushes only
  changes (`router.ts:242-248`). `router.ts:14-15` says that "the next tick reconciles
  the core to the truth": `Reconciled`. So `HeldMeansDown` and `RouterAgrees` speak of
  a core that has its game, and except the buttons in `missed`.
- Quitting during a GBA boot leaves a game running without a view
  (`gba.ts:90`); a pause or speed change during the boot is shown and not
  applied (`gba.ts:104`): `OneGame` and `ShownAsItIs` without `patient`.
- `releaseAll` drops a held extra without its release edge (`router.ts:133`), so
  fast forward stays on after a blur; so does one whose key goes up during a pause.
- A pad press that made a binding is new to the first poll after the capture and
  presses the button (`gamepad.ts:103`).
- In DS games a key press while the pad is in use zeroes the pad's buttons
  (`webmelon.js:555`), the release of one of two keys of a button releases it
  (`webmelon.js:565`), and typing into a text field plays, because the SDK's
  listeners ignore the focus (`webmelon.js:548`): `HeldMeansDown` and
  `TypingPressesNothing` without `Alone`, which leaves DS games out.
- A latch set before hold-toggle was switched off comes back when it is switched
  on again (`router.ts:237`).
- A mouse whose lift was lost reuses its pointer id and overwrites the entry that
  would have released its button (`touch-controls.tsx:168`): `TouchControls`
  without `FreshIds`.
- The touch pad releases nothing when it is unmounted; the DS mask keeps the bit for
  the next game (`webmelon.js:214`).
- Migration, merging and import bypass `assignSlot` and can book a key twice, for
  instance an old map's `p` or `f` beside the defaults of Pause and Fullscreen. A key
  of an old map without a code is cleared by the first load, and its default
  comes back with the second.
- `settings.tsx:66-69` says that an exception must not leave the dialog open;
  blocked storage throws there and does.
- Two tabs overwrite each other's whole config.
- The worklet's comment says that "when the buffer overflows we drop the oldest
  samples" (`webmelon.js:63`). Its loop stops copying a message at the full ring
  (`:80`), so that the message's newest samples are lost first, and only then trims
  the ring to its newest 200 ms: `OverflowDropsOldest`. The fallback does as it says
  (`NewestIsKept`, which is proved).
- The fallback queue's head and length survive a shutdown: the next game
  starts behind as much silence as the old one had waiting.
- A worklet module that arrives after its game, and after the next game's own,
  takes that game's samples away: `ProcessorIsFed` without `ordered`.

And in the DS core:

- `SPU.cpp:945-947` says that the back buffer "can never get full" and then "FIXME:
  apparently this does happen!!!". It does when a `RunFrame` comes into sleep mode:
  up to 560190 cycles of sleep come on top of a frame's, 547 samples each, and the
  buffer takes 1024. `SamplesOfACall` says how many there are: a frame's worth more
  for every time that the call falls asleep.
- The comment at `GPU3D.cpp:1693-1696` takes 64 entries for enough because an STM is
  the worst case. `GXFIFOStall` does not stop an ARM9 that is running its slice
  (`NDS.cpp:1574` tests for the other processor), so all stores of the rest of the
  slice count, and each may write up to four commands: `NothingDropped` needs
  four times the stores of a slice to fit.
- `FinishWork` clears GXSTAT's busy bit as soon as the pipe is empty, also when half
  of a command's parameters have been read: `StatusIsRight` asks for busy only
  while entries are queued.
- `EnterSleepMode` does not look at interrupts that are pending already
  (`NDS.cpp:1594`): one that came just before is not seen until another comes.
- Events that fall due in sleep mode are put off by what was slept in the step in
  which they fell due only, so they may change their order; events due in one pass
  of `RunSystem` fire in the order of their numbers, not of their times.
- After a load, a reset or the thread's being switched off, `FrameIdentical` may be of
  an earlier frame, and after an abort or a sleep half way through a frame, tokens
  of that frame let the next lines pass before they are drawn: `LineIsReady`, which
  `LinesAreReady` states for the other frames.
- In a frame that the game has given up by writing VCOUNT, `VCount144` waits for
  nothing (`GPU3D_Soft.cpp:1739`) and `GPU3D::VBlank` swaps in new polygons
  (`GPU3D.cpp:2485`), while the thread may still draw the old ones. The token it posts
  when it is done is left, and lets the next setup, whose comment says "it's
  safe to access the GPU state again" (`GPU3D_Soft.cpp:1796-1797`), go on while the
  thread draws. `GPU3D::Reset` clears the polygons (`GPU3D.cpp:256`) before its
  setup waits at all. `QuietForChanges` claims nothing of these: it excepts frames
  given up (`abort`) and what is left of them (`late`), and states of a reset before
  the wait.
- Time can run backwards. An ARM9 that waits for the geometry engine advances to
  `min(ARM9Target, ...)` (`NDS.cpp`, the branch of `CPUStop_GXStall`). If a piece of
  DisplayFIFO, 48 cycles after the last one (`GPU.cpp:860`), is due before the point that a
  long instruction has reached, the target lies in the past and sets the
  timestamp back; `InStep` fails with the game `{"fifo", "geometry"}`,
  `Costs9 = {2, 9}` and `Geometry = 9`. Hence `FifoKeepsUp`.
- `Semaphore_Reset` of the desktop frontend reads a count and then takes it
  (`Platform.cpp:343-348`). If the thread takes a token in between, the emulator
  waits on its own reset: `WaitsEnd` with `Races = TRUE`. In `WasmPlatform.cpp:148-153` a
  reset of an empty semaphore blocks; the wasm build never runs the thread.

## Proofs

TLAPS checks the following for all values of the constants under the named
ASSUMEs of the modules.

| Module | Theorems | Argument |
|---|---|---|
| `DesktopInputProofs` | `RouterTypeOK`, `RouterCoreAgrees` (of `InputRouter`, with any devices) | `RouterIInv`: types and `CoreAgrees` together. One lemma per method of the router (`AssertKeeps`, `TickKeeps`, `SetBindingsKeeps`, ...) says what it leaves of a router state (`Keeps`: the shape, the agreement, the core) and what it does to the sources; actions, here and in `DesktopInput`, are compositions of these. Types are needed because an extra in `latched` would be applied to the core. `CoreAgrees` is of a core that may get its game late and lose it early: it has down what is recorded, without `missed`. |
| | `ConfigBookedOnce` | `ConfigInv`: the config is a map, slots match their device, no control is in two slots. Single booking alone is not inductive: `assignSlot` clears only slots of the same device, so a pad control in a key slot would escape it. |
| | `DesktopInv`, `DesktopNoOrphanSources`, `DesktopSpentKeyIsSilent`, `DesktopHeldMeansDown`, `DesktopRouterAgrees`, `DesktopPadFlagIsLive`, `DesktopTypingPressesNothing` | `DInv`: `ConfigInv`, and `Matched`, which says that a source is asserted if and only if its device holds it and it is bound to the action *now*; that no source is orphaned is one direction of it. To survive a change of the map it needs that a capture finds nothing held (`DeviceInv`), so that the map changes under no source, and that a router without a game has no sources (`RouterInv`). `Told` and the router's own agreement then give `HeldMeansDown`, for a core that has its game and buttons not pressed in vain during its boot (`missed`). One lemma per handler. `Matched` is stated for setups in which the map changes by captures (`CapturesOnly`), since a cleared slot breaks it (see Findings); agreement and `HeldMeansDown` are stated for the GBA, whose core nothing else writes. `PadFlagIsLive` is inductive as it stands and holds for every setup. That no key down while typing presses anything needs `DInv` too: no listener of WebMelon is on the window in a GBA game. `SourcesAssumption` says that a key's id is no pad's. |
| `SessionProofs` | `SessionRevealedIsLoaded`; `SessionOneLoop`, `SessionPausedIsStill`, `SessionSpeedIsShown`, `SessionShownAsItIs`, `SessionFramesGoOn` | `BootInv` follows the boot's steps with the emulator they have made. `LoopInv`, for a prompt browser, ties the interval to view, handler, pause and speed; the properties are its parts. `FramesGoOn` (a frame that throws leaves its latch set for ever) is proved only: it follows from `OneLoop`. |
| `GameViewProofs` | `GbaInvariant`, `GbaOneGame`, `GbaShownAsItIs` | `GbaInv`: of a patient user, every core but the last is over, so that it stays what it is, and the last one has done as much as its boot has come to (`Cores`). `ShownAsItIs` alone is not inductive: the view is right when a boot ends because nothing was shown or asked of the core before (`InView`), and `OneGame` because no core without a view has steps left to take. |
| | `TouchCountsAreHolders`, `TouchDownWhileHeld` | `TouchInv`: types, counts and the core's buttons; lemmas on what adding or removing one pointer does to the cardinality of a button's holders. Assumes `FreshIds`. |
| `ConfigStoreProofs` | `ConfigTypeOK`, `ConfigStoredMapSurvives`, `ConfigMigrationKeepsKeys` | The types of both stores and of the map in use are inductive: one lemma for each kind of load and for the write of the SDK's copy. The entry that a shared key or pad button falls to is the one of least rank, which exists because ranks are natural numbers (`NamesAssumption`). The two action properties follow from the types; a migrated key needs that its button has one primary and one alternate name (`OneKeyEach`) and that an absent store is not taken for a broken one (`MarksAssumption`). |
| | `ConfigPrimariesSurviveLoads` | `Unedited`: until the first edit, each of the two settings that a later load may read (the SDK's and the stored ones) keeps the primaries of the map in use, and a map made by a load is `Settled`: no flags, no axis in a primary slot, and only keys whose names stand for them. The SDK's copy of a settled map without double bookings brings its primaries back (`MirrorKeeps`): a primary key is told under a name that no other slot is told under. `ReturnAssumption` and `SdkAssumption` are what the source's defaults and WebMelon's satisfy; the hypothesis `SettingsAreRead` says that stored settings are not taken for nothing. |
| `SdkProofs` | `SaveInv`, `SaveSavingHasASync`, `SaveStartsFromSave`, `SaveStoredFollowsLatest` | `Counts`: a timer turns into a sync and a sync into a callback that takes the flag down, for everybody. `Restored`, for a careful user: until the restore has ended, nothing of this page is written or synced, so that the stored copy is the last save; from then on the directory is. The restore of `/firmware` would break it, so that the user who waits for it is part of `careful`. That the page's syncs and the timer's overtake each other does no harm because each copies the directory as it is when it runs. |
| | `SoundInvariant`, `SoundTypeOK`, `SoundKeepsOrder`, `SoundNewestIsKept`, `SoundProcessorIsFed`, `SoundIsAQueue` | Lemmas on the ring: whatever `head` and `len` are, filling slots appends to the contents (`FillIsAppend`), moving `head` drops from their front (`DropIsSubSeq`); so a message and a frame do to the contents what `SoundQueue` says (`ReceiveIsAddAndTrim`, `PushIsAddMakingRoom`). `SoundInv`: what waits, then each message on its way, are rising samples of this game that were not heard yet, with the silence of a former game before them; nothing waits when no game is on; with `ordered`, a context that has its processor was asked for last. `SoundIsAQueue` is the whole property `IsSoundQueue`, for rings of every size. |
| `FrameLoopProofs` | `FrameTypes`, `FrameInv`, `FrameInStep`, `FrameOnTime` | `IInv` says for every point of a slice (`Outside`, `InSlice`, `Caught`) how far the processors may be from their targets and from every scheduled event: while the ARM9 runs, its target is at most the next event, and whatever schedules a nearer one moves it; so it passes an event by one step at most (`Ran9`), and the ARM7, which goes after it, ends at most one of its own steps past the slice (`CaughtUp`). `RunSystem` keeps that what it has looked at is in the future again. `CostsAssumption`: instructions take time and one takes longest. `PeriodsAssumption`: lines, sound and clock are further apart than a step of the ARM9. `FifoKeepsUp` is the theorems' hypothesis: in a game that uses both, pieces of DisplayFIFO are not closer than a step, see Further disagreements. |
| | `FrameSamples` | `SInv`, beside `IInv`. The next sample and the next line keep apart as far as the frame has come, but for what was slept (`Covered`): a line moves the one, a sample the other, sleep mode holds the lines back, and ending a slice moves both. As a sample is fired within a slice and the ARM9 has passed the next line by a step at most, its number is bounded (`Enough`). `Sleeping` and `Framed` say when the loop sleeps and that a frame under way has its next line scheduled. The hypothesis `SleepsInTime` is that no wake-up comes before the loop has seen the sleep and no sleep begins in the last line: else the frame never ends (see `frame_hang`) and the samples come to the buffer's size. |
| `RenderThreadProofs` | `RenderInv`, `RenderLinesAreReady`, `RenderQuietForChanges` | `IInv`: the frame that was asked for last is waiting, being drawn up to `row`, or drawn (`Job`), and the semaphores hold exactly what that implies: a line's token for every line drawn and not shown, one for a frame drawn and not over (`Tokens`). A setup of the thread is followed statement by statement (`Emptied`: a reset that has read a count finds no more than it later takes). What a setup meets in a frame that was not given up is in order (`Orderly`): a start that is posted and not taken has a thread asleep and no token of its end, and a token of an end has one too; hence the wait of a setup ends when the thread rests. While a setup has met a frame half way (`late`), only `Control` and `Emptied` are kept, until the thread is found at rest. Both values of `Races` are covered. |
| `GxFifoProofs` | `GxInv`, `GxStallIsDue`, `GxInterruptIsPending`, `GxDmaIsNotForgotten`, `GxIsQueue` | `Inv`: types and sizes of the buffers and `StallIsDue`. The stall flag alone is not inductive: that entries wait outside only while the FIFO is full, and that the pipe is above its low mark while the FIFO has entries, is what makes a write go to the end of the whole queue and a read leave it in order. Lemmas say what a write (`WriteKeepsInv`) and a read (`ReadParts`, `ReadLengths`, `ReadKeepsInv`) do to the three parts; the remaining actions leave them alone (`QuietSteps`). Interrupt and DMA then need only that the level never falls unnoticed: a read that changes it looks again, a write only raises it. `GxIsQueue` maps every write to `Put` and every read to `Take` of `GxQueue`, everything else to a stutter; it is `IsQueue` without the fairness. |
| | `GxNothingDropped` | `SpaceInv`: the stall queue takes what it holds and what may still come before the ARM9 or the DMA looks at the stall (`Owed`: the rest of a word, a unit of a DMA, a word for each store left). `StallAssumption` is that this fits for a slice without a stall. |
| | `GxStatusIsRight` | `Phases`: the written entries are cut into commands of the length that `Params` says, the first perhaps begun by the engine, the last perhaps not finished by the decoder; the two ends are tied to the engine's and the decoder's counters (`Decoding`). Without the grouping, that a status count falls with the last entry of its command would not be inductive. The cut is a witness that every step shifts or extends. `WordsAssumption`: words have one length, a push or pop has one parameter at most. |

Every invariant and every action property of a passing run is stated by a theorem.
Only model-checked: the liveness properties (`ReleasedButtonsComeUp`, `SavesReachStorage`,
`LoadingEnds`, `BootEnds`, `StallsEnd`, `FramesFinish`, `WaitsEnd`) and the fairness that `IsQueue`
adds to `GxIsQueue`: fairness is out of the prover's reach. Types are proved in
`RouterTypeOK`, `ConfigTypeOK`, `GbaInvariant`, `SoundTypeOK`, `GxInv`, `FrameTypes` and `RenderInv`
and are no property of a run; the other modules' `TypeOK` and `CountsAreHolders` hold in their
runs' instances when added to the `.cfg`. The inductive
invariants of all modules hold in their runs' instances too, except `Phases`, whose witness TLC cannot enumerate.
`TypingPressesNothing` and `NewestIsKept` are proved, and hold in the instances of `desktop` and `audio` when added.

## Not modelled

- Of the DS core: the instructions (an interpreter and a JIT), timers, 2D and 3D
  drawing, memory and caches, sound synthesis, SPI devices, carts, Wi-Fi, the DSi,
  savestates' contents, the debugger. They are data, or devices that the loop sees
  only as events and interrupts, and so are the vendored libraries (Teakra, FatFs,
  the JIT's emitters, the ROM list), which make up most of the source's lines.
- Of the loop: the end of the frame, which the code takes from VCOUNT
  (`GPU.cpp:914-917`), a register that a game can write, and `FrameLoop` from the number
  of lines; HBlank and scanline events are one kind of "LCD event"; DMAs of the
  ARM7; the variants of `RunFrame` for the JIT and the debugger, and `RunGhostFrame`;
  a stop of the console.
- Of the geometry FIFO: an aborted DMA (it stays `InProgress`), a repeating one
  (it is not looked at again when it has ended), several channels at once, power-off
  during a stall, commands of several parameters through their own ports. An
  all-NOP word is in the module, not in the instance.
- `SPU.cpp`'s front ring and `ReadOutput`; `coi.ts` (one reload per tab) and the
  wake lock of `ios.ts`.
- The SDK's own gamepad polling (the app replaces it), touch screen coordinates,
  rumble, firmware settings; save states and screenshots (single calls into mGBA).
- The wasm platform files: sequential glue. What the C library buffers of a save
  whose handle is never closed (`WasmEmulator.cpp:167`).
- Forms over stored values (`firmware.tsx`, `personalization.tsx`, `input.tsx`,
  `display-settings.ts`): one writer each.
- mGBA itself; IodineGBA, which is no longer used; build scripts.

## Plan

The order follows what a wrong order of events costs a player: stuck or dead
buttons, lost saves, sessions that do not start or stop, sound, settings, and
then a core that hangs, drops commands or shows half a picture. What is left:

1. *Extend the model.* `SharedCore`: touch controls, router and SDK listeners over
   one mask, across games, which would settle the hazards on shared buttons.
   The SPU's front ring against its reader, Wi-Fi's exchange of frames, cart
   transfers and the SPI bus beside `FrameLoop`. `Coi` and `WakeLock`: small modules
   on reloads and visibility. A second tab in `ConfigStore`. More abstract
   specifications: a set of held controls that the router implements with plain
   buttons; a durable store that `SaveStorage` implements for a careful user.
2. *Prove more.* What the new modules state, and that the router implements the set of
   held controls.
