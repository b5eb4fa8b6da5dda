------------------------------ MODULE Bindings ------------------------------
(***************************************************************************)
(* The binding model of src/frontend/src/input/bindings.ts as operators.   *)
(*                                                                         *)
(* A control is what a slot may hold: the code of a physical key, or a     *)
(* button or half axis of a game controller.  An action is an emulated     *)
(* button or a host-side extra.  A map gives every action of one system    *)
(* its four slots and its two flags; different systems have different      *)
(* action sets, so a map is a function on some set of actions.             *)
(***************************************************************************)
EXTENDS FiniteSets

CONSTANTS
    Buttons,      \* the emulated buttons
    Extras,       \* fast-forward, pause and the other host-side actions
    Keys,         \* event.code values
    PadControls,  \* "pad:bN", "pad:aN+" and "pad:aN-"
    Unbound       \* null: a slot that holds nothing

Actions  == Buttons \cup Extras
Controls == Keys \cup PadControls

ASSUME ActionsAssumption == Buttons \cap Extras = {}
ASSUME ControlsAssumption == /\ Keys \cap PadControls = {}
                             /\ Unbound \notin Controls

KeySlots  == {"keyPrimary", "keyAlternate"}
PadSlots  == {"padPrimary", "padAlternate"}
SlotNames == KeySlots \cup PadSlots

ActionBinding == [slot   : [SlotNames -> Controls \cup {Unbound}],
                  turbo  : BOOLEAN,
                  toggle : BOOLEAN]

\* A map of one system.
IsSystemBindings(map) ==
    /\ DOMAIN map \subseteq Actions
    /\ map \in [DOMAIN map -> ActionBinding]

IsExtraAction(a) == a \in Extras

\* The slots of one device, as assignSlot picks them from the slot's name.
SameDevice(slotName) == IF slotName \in PadSlots THEN PadSlots ELSE KeySlots

\* Every action that a control is bound to, through any slot of either device.
ActionsForSlot(map, control) ==
    {a \in DOMAIN map : \E s \in SlotNames : map[a].slot[s] = control}

ControlsOf(map, a) == {map[a].slot[s] : s \in SlotNames} \ {Unbound}

\* What is left of the slots of an action once value is taken from those of
\* one device; taking null clears nothing.
WithoutValue(slots, device, value) ==
    [s \in SlotNames |->
        IF value # Unbound /\ s \in device /\ slots[s] = value
        THEN Unbound ELSE slots[s]]

\* Seeded fault: the value is not taken from the slot that had it.
AssignSlotOnly(map, action, slotName, value) ==
    [map EXCEPT ![action].slot[slotName] = value]

\* Give one slot a value, after clearing the value wherever else the device
\* was bound to it.
AssignSlot(map, action, slotName, value) ==
    [a \in DOMAIN map |->
        LET kept == WithoutValue(map[a].slot, SameDevice(slotName), value)
        IN  [map[a] EXCEPT !.slot =
                IF a = action THEN [kept EXCEPT ![slotName] = value] ELSE kept]]

\* The checkbox handlers of the settings page; a row without a binding is
\* left alone.
ToggleFlag(map, action, flag) ==
    [a \in DOMAIN map |->
        IF a # action THEN map[a]
        ELSE IF flag = "turbo" THEN [map[a] EXCEPT !.turbo = ~@]
                               ELSE [map[a] EXCEPT !.toggle = ~@]]

\* Control c is in at most one slot of the map.
BoundOnce(map, c) ==
    \A a, b \in DOMAIN map : \A s, t \in SlotNames :
        map[a].slot[s] = c /\ map[b].slot[t] = c => a = b /\ s = t

\* "A physical key that fires two actions at once is never what the user
\* meant": no control is in two slots of the map.
NoDoubleBooking(map) == \A c \in Controls : BoundOnce(map, c)

\* Each slot holds a control of its own device, which is what the settings
\* page's capture writes.
SlotsMatchDevice(map) ==
    \A a \in DOMAIN map :
        /\ \A s \in KeySlots : map[a].slot[s] \in Keys \cup {Unbound}
        /\ \A s \in PadSlots : map[a].slot[s] \in PadControls \cup {Unbound}
=============================================================================
