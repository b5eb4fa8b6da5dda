---------------------------- MODULE DesktopInput ----------------------------
(***************************************************************************)
(* Keyboard, game controllers, the controls page and the router together,  *)
(* as src/frontend/src/input/index.ts wires them: which physical controls  *)
(* are down, which the two device sources believe are down, and what the   *)
(* core is told.  For the DS the button mask has a second writer, the      *)
(* keydown and keyup listeners of webmelon-sdk/webmelon.js, fed with the   *)
(* bindings that webmelon-bridge.ts mirrors into them.                     *)
(*                                                                         *)
(* The passive effects of the controls page (leaving capture mode) are     *)
(* taken with the handler that triggers them.                              *)
(***************************************************************************)
EXTENDS InputRouter, Naturals

CONSTANTS
    Pads,       \* indices of navigator.getGamepads()
    Setups      \* the situations to look at; a behaviour is in one of them

\* A setup is a system, of which only the DS mask has WebMelon's listeners,
\* the maps it may start from, how the controls page may change the map, and
\* a bound on the number of changes.
ASSUME SetupsAssumption ==
    \A s \in Setups :
        /\ s.system \in {"gba", "nds"}
        /\ s.maps \subseteq Maps
        /\ s.kinds \subseteq {"capture", "clear", "flag", "replace"}
        /\ s.maxEdits \in Nat
\* The ids "kb:<code>" of keyboard.ts and "pad<index>:<control>" of gamepad.ts.
ASSUME SourcesAssumption ==
    /\ Sources = Keys \cup (Pads \X PadControls)
    /\ Keys \cap (Pads \X PadControls) = {}
\* The layouts that the defaults and the presets of bindings.ts build.
ASSUME LayoutsAssumption == \A map \in Maps : NoDoubleBooking(map) /\ SlotsMatchDevice(map)

VARIABLES
    setup,      \* never changes
    config,     \* the map of this system in the config store
    held,       \* KeyboardSource.held
    active,     \* GamepadSource.activeSlots: a function on the pads tracked
    anyActive,  \* GamepadSource.anyActive
    capture,    \* the device whose binding the controls page captures, or "no"
    usingPad,   \* WebMelon._internal.emulatorUsingGamepad
    listening,  \* WebMelon's key listeners are on the window
    keysDown, padDown, connected,   \* the physical devices
    page,       \* "focused", "blurred" or "hidden"
    typing,     \* the focus is in a text field
    spent,      \* keys whose press a capture took, not let go since
    edits       \* changes of the map so far

world    == <<keysDown, padDown, connected, page, typing>>
devices  == <<held, active, anyActive, usingPad, listening>>
settings == <<config, capture, spent, edits>>
allVars  == <<router, running, world, devices, settings, setup>>

\* What a change of the physical devices alone leaves as it is.
program == <<router, running, devices, config, capture, edits>>

ActionsFor(control) == ActionsForSlot(router.bindings, control)

Tracked(i) == IF i \in DOMAIN active THEN active[i] ELSE {}

PadSources(i) == {<<i, c>> : c \in PadControls}

----------------------------------------------------------------------------
(* WebMelon's own listeners.  startEmulation adds them and nothing removes *)
(* them.  The mirror leaves out the buttons that use turbo or hold-toggle. *)

MirroredButtons(k) ==
    {b \in DOMAIN router.bindings \cap Buttons :
        /\ ~router.bindings[b].turbo /\ ~router.bindings[b].toggle
        /\ \E s \in KeySlots : router.bindings[b].slot[s] = k}

SetMask(r, mask) == [r EXCEPT !.pressed = [c \in Cores |-> mask[c]]]

\* Its keydown: a key press takes the mask back from the pad.
WebMelonKeyDown(r, k) ==
    IF ~listening \/ MirroredButtons(k) = {} THEN r
    ELSE SetMask(r, [c \in Cores |->
             (IF usingPad THEN {} ELSE r.pressed[c]) \cup MirroredButtons(k)])

UsingPadAfterKey(k) ==
    usingPad /\ ~(listening /\ MirroredButtons(k) # {})

WebMelonKeyUp(r, k) ==
    IF ~listening THEN r
    ELSE SetMask(r, [c \in Cores |-> r.pressed[c] \ MirroredButtons(k)])

----------------------------------------------------------------------------
(* keyboard.ts                                                             *)

\* Retract, under the current map, every key the source holds.
ReleaseHeld(r) ==
    [r EXCEPT !.sources = [a \in Actions |->
        {s \in @[a] : ~(s \in held /\ a \in ActionsFor(s))}]]

\* A key goes down while the page has the focus and no capture is on.
KeyDown(k) ==
    /\ page = "focused" /\ capture = "no"
    /\ k \notin keysDown
    /\ keysDown' = keysDown \cup {k}
    /\ LET r == WebMelonKeyDown(router, k)
       IN  IF running /\ ~typing /\ ActionsFor(k) # {} /\ k \notin held
           THEN /\ held' = held \cup {k}
                /\ \E due \in Due(r) :
                      router' = Tick(AssertSource(r, k, ActionsFor(k)), due)
           ELSE router' = r /\ UNCHANGED held
    /\ usingPad' = UsingPadAfterKey(k)
    /\ UNCHANGED <<running, active, anyActive, listening, settings,
                   padDown, connected, page, typing>>

\* Seeded fault: keyboard.ts takes a repeat for a press.
KeyRepeatHeard(k) ==
    /\ page = "focused" /\ capture = "no"
    /\ k \in keysDown
    /\ LET r == WebMelonKeyDown(router, k)
       IN  IF running /\ ~typing /\ ActionsFor(k) # {} /\ k \notin held
           THEN /\ held' = held \cup {k}
                /\ router' = Tick(AssertSource(r, k, ActionsFor(k)), {})
           ELSE router' = r /\ UNCHANGED held
    /\ usingPad' = UsingPadAfterKey(k)
    /\ UNCHANGED <<running, active, anyActive, listening, settings, world>>

\* The system repeats the keydown of a key that stays down, wherever its first
\* keydown went.  keyboard.ts ignores repeats, WebMelon's listener does not.
KeyRepeat(k) ==
    /\ page = "focused" /\ capture = "no"
    /\ k \in keysDown
    /\ router' = WebMelonKeyDown(router, k)
    /\ usingPad' = UsingPadAfterKey(k)
    /\ UNCHANGED <<running, held, active, anyActive, listening, settings, world>>

\* Seeded fault: the keyup is dropped while typing, as the keydown is.
KeyUpIgnoredWhileTyping(k) ==
    /\ page = "focused"
    /\ k \in keysDown
    /\ keysDown' = keysDown \ {k}
    /\ spent' = spent \ {k}
    /\ IF running /\ ~typing /\ k \in held
       THEN /\ held' = held \ {k}
            /\ \E due \in Due(router) :
                  router' = Tick(RetractSource(router, k, ActionsFor(k)), due)
       ELSE UNCHANGED <<router, held>>
    /\ UNCHANGED <<running, active, anyActive, usingPad, listening, config, capture, edits,
                   padDown, connected, page, typing>>

\* A key comes up while the page has the focus.  Neither the focus target
\* nor a capture keeps the release from the source.
KeyUp(k) ==
    /\ page = "focused"
    /\ k \in keysDown
    /\ keysDown' = keysDown \ {k}
    /\ spent' = spent \ {k}
    /\ LET r == WebMelonKeyUp(router, k)
       IN  IF running /\ k \in held
           THEN /\ held' = held \ {k}
                /\ \E due \in Due(r) :
                      router' = Tick(RetractSource(r, k, ActionsFor(k)), due)
           ELSE router' = r /\ UNCHANGED held
    /\ UNCHANGED <<running, active, anyActive, usingPad, listening, config, capture, edits,
                   padDown, connected, page, typing>>

\* Another window has the focus: it gets the event.
KeyElsewhere(k) ==
    /\ page # "focused"
    /\ keysDown' \in {keysDown \cup {k}, keysDown \ {k}}
    /\ spent' = spent \cap keysDown'
    /\ UNCHANGED <<program, padDown, connected, page, typing>>

----------------------------------------------------------------------------
(* gamepad.ts                                                              *)

\* The sources after one poll: edges against what was active at the last
\* poll, mapped with the current bindings, and the sweep of the pads that no
\* longer appear.
PolledSources(r) ==
    [a \in Actions |->
        LET bound == {s \in connected \X PadControls :
                         a \in ActionsForSlot(r.bindings, s[2])}
            came  == {s \in bound : s[2] \in padDown[s[1]] \ Tracked(s[1])}
            went  == {s \in bound : s[2] \in Tracked(s[1]) \ padDown[s[1]]}
            swept == UNION {PadSources(i) : i \in DOMAIN active \ connected}
        IN  ((r.sources[a] \cup came) \ went) \ swept]

\* One animation frame: poll, then tick.  The poll is off during a capture.
\* Each pad released by the sweep also ticks by itself; the sources only
\* shrink between those ticks, so the last one alone has the same effect.
AnimationFrame ==
    /\ running /\ page # "hidden"
    /\ IF capture # "no"
       THEN /\ \E due \in Due(router) : router' = Tick(router, due)
            /\ UNCHANGED <<active, anyActive, usingPad>>
       ELSE /\ active' = [i \in connected |-> padDown[i]]
            /\ anyActive' = (\E i \in connected : padDown[i] # {})
            /\ usingPad' = IF anyActive' = anyActive THEN usingPad ELSE anyActive'
            /\ LET r == [router EXCEPT !.sources = PolledSources(router)]
               IN  \E due \in Due(router) : router' = Tick(r, due)
    /\ UNCHANGED <<running, held, listening, settings, world>>

\* releasePad: the controls it was holding under the current map, then the
\* sweep of everything else with its prefix.
ReleasePad(r, i) == DropSources(r, PadSources(i))

\* releaseAllPads: with no pad tracked it does not even tick.
ReleaseAllPads(r) ==
    IF DOMAIN active = {} THEN r
    ELSE Tick(DropSources(r, UNION {PadSources(i) : i \in DOMAIN active}), {})

PadPress(i, c) ==
    /\ i \in connected
    /\ padDown' \in {[padDown EXCEPT ![i] = @ \cup {c}], [padDown EXCEPT ![i] = @ \ {c}]}
    /\ UNCHANGED <<program, spent, keysDown, connected, page, typing>>

Connect(i) ==
    /\ i \notin connected
    /\ connected' = connected \cup {i}
    /\ UNCHANGED <<program, spent, keysDown, padDown, page, typing>>

Unplug(i) ==
    /\ i \in connected
    /\ connected' = connected \ {i}
    /\ padDown' = [padDown EXCEPT ![i] = {}]
    /\ UNCHANGED <<spent, keysDown, page, typing>>

\* The pad is pulled out and the page gets the event.
Disconnect(i) ==
    /\ Unplug(i)
    /\ IF running
       THEN /\ \E due \in Due(router) : router' = Tick(ReleasePad(router, i), due)
            /\ active' = [j \in DOMAIN active \ {i} |-> active[j]]
       ELSE UNCHANGED <<router, active>>
    /\ UNCHANGED <<running, held, anyActive, usingPad, listening, config, capture, edits>>

\* The pad stops appearing and no event says so.
Vanish(i) == Unplug(i) /\ UNCHANGED program

----------------------------------------------------------------------------
(* index.ts: mount, unmount and the panic release.                         *)

\* The view of a GBA game mounts before its core has even asked for mGBA's
\* module; a DS game is there.
Start(c) ==
    /\ ~running
    /\ router' = SetBindings(SetCore(router, c, setup.system = "nds"), config)
    /\ running' = TRUE
    /\ listening' = (listening \/ setup.system = "nds")
    /\ UNCHANGED <<world, held, active, anyActive, usingPad, settings>>

\* The boot of gba.ts has awaited the module and gone on to the game.  It may never
\* come to it.  A press between the two, which mGBA gets without a game, is taken for
\* dropped, too.  A module that arrives when its view is gone meets no router.
ModuleArrives ==
    /\ running /\ ~router.hears
    /\ router' = GameReady(router)
    /\ UNCHANGED <<running, world, devices, settings>>

\* Quitting a GBA game destroys it before the view goes, in one task.
Quitting == IF setup.system = "gba" THEN GameGone(router) ELSE router

\* Seeded fault: the pads are detached without telling WebMelon.
StopKeepingPadFlag ==
    /\ running
    /\ router' = SetCore(ReleaseAllPads(ReleaseHeld(ReleaseAll(Quitting))), NoCore, FALSE)
    /\ running' = FALSE
    /\ held' = {} /\ active' = << >> /\ anyActive' = FALSE
    /\ UNCHANGED <<world, listening, usingPad, settings>>

\* The cleanup, in its order: stop, detach the keyboard, detach the pads,
\* drop the core.  The pads' release still ticks into the attached core.
Stop ==
    /\ running
    /\ router' = SetCore(ReleaseAllPads(ReleaseHeld(ReleaseAll(Quitting))), NoCore, FALSE)
    /\ running' = FALSE
    /\ held' = {}
    /\ active' = << >>
    /\ anyActive' = FALSE
    /\ usingPad' = FALSE
    /\ UNCHANGED <<world, listening, settings>>

\* Seeded fault: the pads' bookkeeping survives the panic release.
LeaveKeepingTracking(to) ==
    /\ page = "focused" \/ (page = "blurred" /\ to = "hidden")
    /\ page' = to
    /\ IF running
       THEN /\ router' = Tick(ReleaseAll(ReleaseHeld(router)), {})
            /\ held' = {}
       ELSE UNCHANGED <<router, held>>
    /\ UNCHANGED <<running, active, anyActive, usingPad, listening,
                   keysDown, padDown, connected, typing, settings>>

\* Blur, or the tab is hidden: the panic release of index.ts, and then the
\* keyboard's own listener, whose tick pushes every bound button up.
Leave(to) ==
    /\ page = "focused" \/ (page = "blurred" /\ to = "hidden")
    /\ page' = to
    /\ IF running
       THEN /\ router' = Tick(ReleaseAll(ReleaseHeld(router)), {})
            /\ held' = {}
            /\ active' = << >> /\ anyActive' = FALSE
            /\ usingPad' = (usingPad /\ ~anyActive)
       ELSE UNCHANGED <<router, held, active, anyActive, usingPad>>
    /\ UNCHANGED <<running, listening, keysDown, padDown, connected, typing, settings>>

Return ==
    /\ page # "focused"
    /\ page' = "focused"
    /\ UNCHANGED <<program, spent, keysDown, padDown, connected, typing>>

MoveFocus ==
    /\ page = "focused" /\ capture = "no"
    /\ typing' = ~typing
    /\ UNCHANGED <<program, spent, keysDown, padDown, connected, page>>

----------------------------------------------------------------------------
(* controls.tsx and store.ts: the controls page changes the map.           *)

\* setInputConfig: the new map is stored and, while a game runs, handed to
\* the router by the config listener.
SetConfig(map) ==
    /\ edits < setup.maxEdits
    /\ edits' = edits + 1
    /\ config' = map
    /\ router' = IF running THEN SetBindings(router, map) ELSE router

\* Seeded fault: entering capture mode does not release what is held.
StartCaptureKeepingHeld ==
    /\ "capture" \in setup.kinds /\ capture = "no" /\ edits < setup.maxEdits
    /\ capture' \in {"keyboard", "controller"} /\ typing' = FALSE
    /\ UNCHANGED <<router, devices, running, config, spent, edits,
                   keysDown, padDown, connected, page>>

\* A click on a slot.  setInputCaptureMode suspends both devices, and each
\* retracts what it holds.
StartCapture ==
    /\ "capture" \in setup.kinds /\ capture = "no" /\ edits < setup.maxEdits
    /\ capture' \in {"keyboard", "controller"} /\ typing' = FALSE
    /\ router' = ReleaseAllPads(ReleaseHeld(router))
    /\ held' = {}
    /\ active' = << >> /\ anyActive' = FALSE
    /\ usingPad' = (usingPad /\ ~anyActive)
    /\ UNCHANGED <<running, listening, config, spent, edits,
                   keysDown, padDown, connected, page>>

\* Escape, a click elsewhere, or leaving the page.
CancelCapture ==
    /\ capture # "no"
    /\ capture' = "no"
    /\ UNCHANGED <<router, devices, running, config, spent, edits, world>>

\* The next keydown is bound, also one that repeats a key which is down
\* already; the event reaches no other listener.  The slot was chosen by
\* StartCapture and matters only now.
CaptureKey(k) ==
    /\ capture = "keyboard" /\ page = "focused"
    /\ keysDown' = keysDown \cup {k}
    /\ \E a \in DOMAIN config, s \in KeySlots : SetConfig(AssignSlot(config, a, s, k))
    /\ capture' = "no"
    /\ spent' = spent \cup {k}
    /\ UNCHANGED <<devices, running, padDown, connected, page, typing>>

\* A capture for a controller takes keydowns as well, and drops them.
SwallowKey(k) ==
    /\ capture = "controller" /\ page = "focused"
    /\ keysDown' = keysDown \cup {k}
    /\ spent' = spent \cup {k}
    /\ UNCHANGED <<router, devices, running, config, capture, edits,
                   padDown, connected, page, typing>>

\* The capture's own frame loop finds a pressed pad control and binds it.
CapturePad(i, c) ==
    /\ capture = "controller" /\ page # "hidden"
    /\ i \in connected /\ c \in padDown[i]
    /\ \E a \in DOMAIN config, s \in PadSlots : SetConfig(AssignSlot(config, a, s, c))
    /\ capture' = "no"
    /\ UNCHANGED <<devices, running, spent, world>>

\* The changes that need no capture: clearing a slot, the two checkboxes,
\* and the buttons that replace the whole map.
EditMap ==
    /\ capture = "no"
    /\ \/ /\ "clear" \in setup.kinds
          /\ \E a \in DOMAIN config, s \in SlotNames :
                SetConfig(AssignSlot(config, a, s, Unbound))
       \/ /\ "flag" \in setup.kinds
          /\ \E b \in DOMAIN config \cap Buttons, f \in {"turbo", "toggle"} :
                SetConfig(ToggleFlag(config, b, f))
       \/ /\ "replace" \in setup.kinds
          /\ \E map \in setup.maps : SetConfig(map)
    /\ UNCHANGED <<devices, running, capture, spent, world>>

----------------------------------------------------------------------------
DInit ==
    /\ setup \in Setups /\ config \in setup.maps
    /\ router = Fresh(config) /\ running = FALSE
    /\ held = {} /\ active = << >> /\ anyActive = FALSE
    /\ usingPad = FALSE /\ listening = FALSE
    /\ capture = "no" /\ spent = {} /\ edits = 0
    /\ keysDown = {} /\ padDown = [i \in Pads |-> {}] /\ connected = {}
    /\ page = "focused" /\ typing = FALSE

Physical ==
    \/ \E k \in Keys : KeyElsewhere(k)
    \/ \E i \in Pads, c \in PadControls : PadPress(i, c)
    \/ \E i \in Pads : Connect(i) \/ Vanish(i)
    \/ Return \/ MoveFocus

Handlers ==
    \/ \E k \in Keys : KeyDown(k) \/ KeyRepeat(k) \/ KeyUp(k)
    \/ \E i \in Pads : Disconnect(i)
    \/ \E to \in {"blurred", "hidden"} : Leave(to)
    \/ \E c \in Cores : Start(c)
    \/ ModuleArrives
    \/ Stop

Editing ==
    \/ StartCapture \/ CancelCapture \/ EditMap
    \/ \E k \in Keys : CaptureKey(k) \/ SwallowKey(k)
    \/ \E i \in Pads, c \in PadControls : CapturePad(i, c)

DNext == UNCHANGED setup /\ (Physical \/ Handlers \/ Editing \/ AnimationFrame)

\* The browser keeps calling the frame loop while the page is visible.
DSpec == DInit /\ [][DNext]_allVars /\ WF_allVars(UNCHANGED setup /\ AnimationFrame)

----------------------------------------------------------------------------
(* Properties.                                                             *)

DTypeOK ==
    /\ IsSystemBindings(config) /\ IsSystemBindings(router.bindings)
    /\ router.sources \in [Actions -> SUBSET Sources]
    /\ router.latched \subseteq Buttons /\ router.extrasDown \subseteq Extras
    /\ router.missed \subseteq Buttons /\ capture \in {"no", "keyboard", "controller"}
    /\ held \subseteq Keys /\ keysDown \subseteq Keys
    /\ DOMAIN active \subseteq Pads
    /\ \A i \in DOMAIN active : active[i] \subseteq PadControls
    /\ padDown \in [Pads -> SUBSET PadControls] /\ connected \subseteq Pads
    /\ page \in {"focused", "blurred", "hidden"}
    /\ edits \in 0..setup.maxEdits /\ spent \subseteq Keys

\* The properties of the sources hold where a rebind takes its key from a source
\* that has already let go of it: for a player who changes the map by capturing
\* controls.  Those of the core need a game, too, whose core nothing else writes.
CapturesOnly == setup.kinds = {"capture"}
Alone == setup.system = "gba" /\ CapturesOnly

\* router.ts "What we have actually told the core": CoreAgrees of InputRouter,
\* with the real devices and handlers around the router, and games that come
\* after their views and go before them.
RouterAgrees == Alone => CoreAgrees

\* bindings.ts "A physical key that fires two actions at once is never what
\* the user meant": no sequence of captures and edits books a control twice.
BookedOnce == NoDoubleBooking(config)

\* What the devices believe is down.
DeviceHolds(s) == IF s \in Keys THEN s \in held ELSE s[2] \in Tracked(s[1])

\* router.ts "a rebind while a key is down [is] just a source disappearing":
\* the router never keeps a source whose device has let go of it.  An
\* orphaned source would hold its button with no control that ends it.
NoOrphanSources ==
    CapturesOnly => \A a \in Actions : \A s \in router.sources[a] : DeviceHolds(s)

\* webmelon.js zeroes the whole mask on the key press that follows pad
\* input: it may think the pad is in use only while the pad source sees a
\* control down, whatever unplugging, blur, capture or unmount came between.
PadFlagIsLive == usingPad => anyActive

\* index.ts "clicking a slot and pressing X both binds X and makes the
\* character jump": a key press that a capture took, for a binding or to drop
\* it, asserts nothing, during the capture or after it, for as long as the key
\* stays down and the system repeats it.
SpentKeyIsSilent ==
    CapturesOnly => \A a \in Actions : router.sources[a] \cap spent = {}

Plain(b) ==
    /\ b \in DOMAIN router.bindings \cap Buttons
    /\ ~router.bindings[b].turbo /\ ~router.bindings[b].toggle

Holders(b) ==
    {s \in Sources :
        DeviceHolds(s) /\ b \in ActionsFor(IF s \in Keys THEN s ELSE s[2])}

\* router.ts "two controls bound to the same action each hold it
\* independently and releasing one does not release the other": a button is
\* down in a core that has its game as long as any device holds a control bound
\* to it.  A press of the boot is lost (gba.ts drops it, and router.ts takes it
\* for told) until every control of its button has been let go of.
HeldMeansDown ==
    Alone /\ running /\ router.hears => \A b \in Buttons :
        Plain(b) /\ Holders(b) # {} /\ b \notin router.missed
            => b \in router.pressed[router.core]

\* router.ts "the next tick reconciles the core to the truth": the presses that
\* a booting core was told in vain reach it later, or end.  They do not: a key
\* that is held across the boot of a GBA game stays up in it (see the README).
Reconciled == router.missed # {} ~> router.missed = {}

\* keyboard.ts "Typing into a text field must never also press A".
TypingPressesNothing ==
    [][\A k \in Keys :
         Alone /\ typing /\ k \in keysDown' \ keysDown
            => \A c \in Cores : router'.pressed[c] \subseteq router.pressed[c]]_allVars

\* A control that is down, on a device that is there.
ControlDown(control) ==
    control \in keysDown \/ \E i \in connected : control \in padDown[i]

AllControlsUp(a) ==
    Alone /\ running /\ a \in DOMAIN router.bindings
            /\ \A x \in ControlsOf(router.bindings, a) : ~ControlDown(x)

\* keyboard.ts "leaves the character walking into a wall forever" is what
\* must not happen: once every control of a button is up, however the releases
\* were delivered, the button comes up, also one in turbo; only a latch stays.
Unlatched(b) == b \in DOMAIN router.bindings \cap Buttons /\ ~router.bindings[b].toggle

ReleasedButtonsComeUp ==
    \A b \in Buttons :
        AllControlsUp(b) /\ Unlatched(b)
            ~> (~AllControlsUp(b) \/ ~Unlatched(b)
                \/ \A c \in Cores : b \notin router.pressed[c])

=============================================================================
