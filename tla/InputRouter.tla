---------------------------- MODULE InputRouter ----------------------------
(***************************************************************************)
(* The input router (src/frontend/src/input/router.ts) and the runtime     *)
(* that drives it (the effect of index.ts).                                *)
(*                                                                         *)
(* The page has one thread: an event handler runs to its end before the    *)
(* next one starts.  So every method of the router is an operator from a   *)
(* router state to the next one, a handler is the composition of the       *)
(* methods it calls, in the order it calls them, and an action of Next is  *)
(* one handler.  The cores are outside this component: of them the state   *)
(* keeps which buttons are pressed in each, and whether the attached one   *)
(* has a game yet that takes setButton.  gba.ts drops the calls before     *)
(* that, and the router neither notices nor repeats them.                  *)
(***************************************************************************)
EXTENDS Bindings

CONSTANTS
    Sources,   \* source ids: a control of a physical device
    Cores,     \* the cores that may be attached, one at a time
    NoCore,    \* null
    Maps       \* the maps the config store may hand to the router

ASSUME CoresAssumption == NoCore \notin Cores
ASSUME MapsAssumption  == Maps # {} /\ \A map \in Maps : IsSystemBindings(map)

VARIABLES
    router,    \* the fields of the router and what it has told its callees
    running    \* the animation-frame loop is scheduled

vars == <<router, running>>

\* The states of a router whose map is one of maps.
RouterWith(maps) ==
    [bindings    : maps,
     core        : Cores \cup {NoCore},
     sources     : [Actions -> SUBSET Sources], \* no entry is the empty set
     latched     : SUBSET Buttons,
     applied     : [Buttons -> {"unknown", "up", "down"}],
     rawPrevious : SUBSET Actions,
     turbo       : [Buttons -> {"none", "on", "off"}],
     pressed     : [Cores -> SUBSET Buttons],   \* the cores' side of setButton
     hears       : BOOLEAN,                     \* the attached core has its game
     missed      : SUBSET Buttons,              \* history: see GameReady
     extrasDown  : SUBSET Extras]               \* onExtra's last report

Fresh(map) ==
    [bindings    |-> map,
     core        |-> NoCore,
     sources     |-> [a \in Actions |-> {}],
     latched     |-> {},
     applied     |-> [b \in Buttons |-> "unknown"],
     rawPrevious |-> {},
     turbo       |-> [b \in Buttons |-> "none"],
     pressed     |-> [c \in Cores |-> {}],
     hears       |-> FALSE,
     missed      |-> {},
     extrasDown  |-> {}]

----------------------------------------------------------------------------
(* Methods.                                                                *)

\* The loop of setSource calls by which a device asserts, or retracts, one
\* source against a set of actions.
AssertSource(r, source, actions) ==
    [r EXCEPT !.sources = [a \in Actions |->
        IF a \in actions THEN @[a] \cup {source} ELSE @[a]]]

RetractSource(r, source, actions) ==
    [r EXCEPT !.sources = [a \in Actions |->
        IF a \in actions THEN @[a] \ {source} ELSE @[a]]]

\* The sweep of releaseSourcePrefix; its callers here follow it with Tick.
DropSources(r, S) ==
    [r EXCEPT !.sources = [a \in Actions |-> @[a] \ S]]

\* What the core makes of it when `ups` are released and `downs` pressed: a
\* core without a game ignores the calls.
Push(r, ups, downs) ==
    IF r.core = NoCore \/ ~r.hears THEN r.pressed
    ELSE [r.pressed EXCEPT ![r.core] = (@ \ ups) \cup downs]

AppliedDown(r) == {b \in Buttons : r.applied[b] = "down"}

\* Forget every source and latch and release whatever the core was told is
\* down.  The extras get no release edge.
ReleaseAll(r) ==
    [r EXCEPT !.sources     = [a \in Actions |-> {}],
              !.latched     = {},
              !.rawPrevious = {},
              !.turbo       = [b \in Buttons |-> "none"],
              !.pressed     = Push(r, AppliedDown(r), {}),
              !.missed      = {},
              !.applied     = [b \in Buttons |-> "unknown"]]

\* hears: whether the core that is attached has its game already.
SetCore(r, c, hears) ==
    IF r.core = c THEN r ELSE [ReleaseAll(r) EXCEPT !.core = c, !.hears = hears]

\* The attached core's game is there: from now on the core takes what it is
\* told.  What the router has recorded as pressed by now the core was told in
\* vain; `missed` keeps it, until the router tells the core of it once more.
GameReady(r) == [r EXCEPT !.hears = TRUE, !.missed = AppliedDown(r)]

\* The game is gone, and its buttons with it.
GameGone(r) ==
    [r EXCEPT !.hears = FALSE, !.missed = {}, !.pressed = [c \in Cores |-> {}]]

\* Seeded fault: a new map forgets what the core was told, to have it told anew.
SetBindingsForgetting(r, map) ==
    [r EXCEPT !.bindings = map,
              !.latched  = @ \cap DOMAIN map,
              !.applied  = [b \in Buttons |-> "unknown"],
              !.sources  = [a \in Actions |->
                               IF a \in DOMAIN map THEN @[a] ELSE {}]]

\* A new map drops the latches and the sources of the actions it lacks; the
\* rest waits for the next tick.
SetBindings(r, map) ==
    [r EXCEPT !.bindings = map,
              !.latched  = @ \cap DOMAIN map,
              !.sources  = [a \in Actions |->
                               IF a \in DOMAIN map THEN @[a] ELSE {}]]

Bound(r) == DOMAIN r.bindings
Raw(r)   == {a \in Bound(r) : r.sources[a] # {}}
Rising(r) == Raw(r) \ r.rawPrevious

\* Latches after a tick: a rising edge of a toggle button flips its latch.
Flipped(r) ==
    {b \in Rising(r) \cap Buttons : r.bindings[b].toggle}
Latched(r) ==
    LET flipped == Flipped(r)
    IN  (r.latched \ flipped) \cup (flipped \ r.latched)

HeldButtons(r) ==
    LET latched == Latched(r)
    IN  {b \in Bound(r) \cap Buttons :
            IF r.bindings[b].toggle THEN b \in latched ELSE r.sources[b] # {}}

\* The auto-fire gate.  `due` are the buttons whose half period has elapsed:
\* how the clock stands is the environment's choice.  A press that has just
\* begun starts in the "on" half.
TurboGate(r, due) ==
    LET held   == HeldButtons(r)
        rising == Rising(r)
    IN  [b \in Buttons |->
            CASE b \notin Bound(r)                         -> r.turbo[b]
              [] b \in Bound(r) \ held                     -> "none"
              [] b \in held /\ ~r.bindings[b].turbo        -> r.turbo[b]
              [] b \in held /\ r.bindings[b].turbo         ->
                    CASE r.turbo[b] = "none" \/ b \in rising -> "on"
                      [] r.turbo[b] = "on" /\ b \notin rising ->
                            IF b \in due THEN "off" ELSE "on"
                      [] r.turbo[b] = "off" /\ b \notin rising ->
                            IF b \in due THEN "on" ELSE "off"]

Down(r, due) ==
    LET gate == TurboGate(r, due)
    IN  {b \in HeldButtons(r) : r.bindings[b].turbo => gate[b] = "on"}

\* The clock moves on its own: any set of running gates may be due.
Due(r) == SUBSET {b \in Buttons : r.turbo[b] # "none"}

\* Reduce the sources of every action to one boolean and push the changes.
Tick(r, due) ==
    LET down    == Down(r, due)
        up      == (Bound(r) \cap Buttons) \ down
        pressed == {b \in down : r.applied[b] # "down"}
        let_go  == {b \in up : r.applied[b] # "up"}
    IN  [r EXCEPT
            !.latched     = Latched(r),
            !.rawPrevious = (@ \ Bound(r)) \cup Raw(r),
            !.turbo       = TurboGate(r, due),
            !.applied     = [b \in Buttons |->
                                CASE b \in down -> "down"
                                  [] b \in up   -> "up"
                                  [] OTHER      -> @[b]],
            !.pressed     = Push(r, let_go, pressed),
            !.missed      = @ \ (let_go \cup pressed),
            !.extrasDown  = (@ \ ((r.rawPrevious \cap Bound(r)) \ Raw(r)))
                               \cup (Rising(r) \cap Extras)]

----------------------------------------------------------------------------
(* The runtime.  A device may change any sources and tick; it may also     *)
(* leave the tick to the next frame.                                       *)

Init == \E map \in Maps : router = Fresh(map) /\ running = FALSE

\* The mounting effect: attach the core, hand it its system's map, start.
Mount(c, map, hears) ==
    /\ ~running
    /\ router' = SetBindings(SetCore(router, c, hears), map)
    /\ running' = TRUE

\* Its cleanup: stop (with the panic release in it), then detach.  A view may
\* have destroyed the game before it goes.
Unmount ==
    /\ running
    /\ \E r \in {router, GameGone(router)} :
          router' = SetCore(ReleaseAll(r), NoCore, FALSE)
    /\ running' = FALSE

\* The boot of a core that was attached without its game gets to its game.
Boot ==
    /\ running /\ ~router.hears
    /\ router' = GameReady(router)
    /\ UNCHANGED running

\* A change of the config while a game runs; both maps are of its system.
Rebind(map) ==
    /\ running
    /\ DOMAIN map = DOMAIN router.bindings
    /\ router' = SetBindings(router, map)
    /\ UNCHANGED running

\* A device asserts or retracts one source against some actions of the map.
Sense(source, actions) ==
    /\ running
    /\ router' \in {AssertSource(router, source, actions), RetractSource(router, source, actions)}
    /\ UNCHANGED running

\* A device that is gone takes its sources with it.
DropDevice(S) ==
    /\ running
    /\ \E due \in Due(router) : router' = Tick(DropSources(router, S), due)
    /\ UNCHANGED running

\* Blur or a hidden tab.
Panic ==
    /\ running
    /\ router' = ReleaseAll(router)
    /\ UNCHANGED running

\* The frame loop, or a handler that ticks.
Frame ==
    /\ running
    /\ \E due \in Due(router) : router' = Tick(router, due)
    /\ UNCHANGED running

Next ==
    \/ \E c \in Cores, map \in Maps, hears \in BOOLEAN : Mount(c, map, hears)
    \/ Boot \/ Unmount
    \/ \E map \in Maps : Rebind(map)
    \/ \E s \in Sources, A \in SUBSET DOMAIN router.bindings : Sense(s, A)
    \/ \E S \in SUBSET Sources : DropDevice(S)
    \/ Panic
    \/ Frame

\* requestAnimationFrame keeps calling the loop while it is running.
Spec == Init /\ [][Next]_vars /\ WF_vars(Frame)

----------------------------------------------------------------------------
(* Properties.                                                             *)

\* The fields have the types of the source, and only an emulated button is
\* ever latched or applied.
TypeOK == router \in RouterWith(Maps) /\ running \in BOOLEAN

\* router.ts "What we have actually told the core": the record of pushed edges
\* and the buttons of a core that has its game differ by the presses of its
\* boot only (gba.ts drops those and nothing repeats them), whatever sequence
\* of rebinds, panics, swaps of core and ticks led here.  The core presses
\* nothing that the record does not know of, so that a release always finds
\* it; and a core without a game, or one that was let go of, has no button down.
CoreAgrees ==
    \A c \in Cores :
        router.pressed[c] = IF c = router.core /\ router.hears
                            THEN AppliedDown(router) \ router.missed ELSE {}

\* router.ts "the next tick reconciles the core to the truth": a button that
\* nothing asserts and no latch holds comes up, unless it is asserted again
\* or the game is left first.
Idle(b) == running /\ router.sources[b] = {} /\ b \notin router.latched

IdleButtonsComeUp ==
    \A b \in Buttons :
        Idle(b) ~> (~Idle(b) \/ b \notin UNION {router.pressed[c] : c \in Cores})
=============================================================================
