---------------------------- MODULE TouchControls ----------------------------
(***************************************************************************)
(* The on-screen pad (src/frontend/src/components/touch-controls.tsx).     *)
(* Fingers come down on a button, slide from button to button, lift, and   *)
(* share buttons; a reference count per button decides when the core is    *)
(* told.  The browser may also lose the event of a finger that lifts, and  *)
(* the component has a safety net for that.                                *)
(***************************************************************************)
EXTENDS Naturals, FiniteSets

CONSTANTS
    Pointers,   \* pointerId values; the id of a mouse is always the same
    Buttons,    \* the data-button names
    Nothing,    \* null: a point of the screen without a button
    MaxLost,    \* how many lifts the browser may lose
    FreshIds    \* every contact gets an id of its own, as touches do

ASSUME PointersAssumption == IsFiniteSet(Pointers)
ASSUME NothingAssumption == Nothing \notin Buttons
ASSUME MaxLostAssumption == MaxLost \in Nat
ASSUME FreshIdsAssumption == FreshIds \in BOOLEAN

VARIABLES
    fingers,       \* the ids that touch the screen
    pointerState,  \* pointerStateRef: a function from ids to where they are
    pressCount,    \* pressCountRef
    coreDown,      \* what onInput has told the core is pressed
    lost           \* lifts lost so far

touchVars == <<fingers, pointerState, pressCount, coreDown, lost>>

Holders(b) == {p \in DOMAIN pointerState : pointerState[p] = b}

\* pressButton: only the first finger on a button is news to the core.
Press(count, b) == [count EXCEPT ![b] = @ + 1]
DownAfterPress(down, count, b) == IF count[b] = 0 THEN down \cup {b} ELSE down

\* Seeded fault: any lift releases the button, whoever else holds it.
DownAfterFirstRelease(down, count, b) == down \ {b}

\* releaseButton: the last one is.
Release(count, b) == [count EXCEPT ![b] = IF @ > 0 THEN @ - 1 ELSE 0]
DownAfterRelease(down, count, b) ==
    IF count[b] > 1 THEN down ELSE down \ {b}

Without(p)  == [q \in DOMAIN pointerState \ {p} |-> pointerState[q]]
With(p, b)  == [q \in DOMAIN pointerState \cup {p} |->
                   IF q = p THEN b ELSE pointerState[q]]

----------------------------------------------------------------------------
TouchInit ==
    /\ fingers = {} /\ pointerState = << >>
    /\ pressCount = [b \in Buttons |-> 0]
    /\ coreDown = {} /\ lost = 0

\* The browser may give a contact the id p.
MayTouch(p) == p \notin fingers /\ (FreshIds => p \notin DOMAIN pointerState)

\* handlePointerDown on a button.
PointerDown(p, b) ==
    /\ MayTouch(p)
    /\ fingers' = fingers \cup {p}
    /\ pointerState' = With(p, b)
    /\ pressCount' = Press(pressCount, b)
    /\ coreDown' = DownAfterPress(coreDown, pressCount, b)
    /\ UNCHANGED lost

\* A touch beside the controls is left to what lies underneath.
PointerDownElsewhere(p) ==
    /\ MayTouch(p)
    /\ fingers' = fingers \cup {p}
    /\ UNCHANGED <<pointerState, pressCount, coreDown, lost>>

\* handlePointerMove: let go of the button left, take the one reached.
PointerMove(p, target) ==
    /\ p \in fingers
    /\ IF p \notin DOMAIN pointerState \/ pointerState[p] = target
       THEN UNCHANGED <<pointerState, pressCount, coreDown>>
       ELSE LET from == pointerState[p]
                c1 == IF from = Nothing THEN pressCount ELSE Release(pressCount, from)
                d1 == IF from = Nothing THEN coreDown
                      ELSE DownAfterRelease(coreDown, pressCount, from)
            IN  /\ pressCount' = IF target = Nothing THEN c1 ELSE Press(c1, target)
                /\ coreDown'   = IF target = Nothing THEN d1
                                 ELSE DownAfterPress(d1, c1, target)
                /\ pointerState' = With(p, target)
    /\ UNCHANGED <<fingers, lost>>

\* handlePointerUp, also for pointercancel.
PointerUp(p) ==
    /\ p \in fingers
    /\ fingers' = fingers \ {p}
    /\ IF p \notin DOMAIN pointerState
       THEN UNCHANGED <<pointerState, pressCount, coreDown>>
       ELSE /\ pointerState' = Without(p)
            /\ IF pointerState[p] = Nothing
               THEN UNCHANGED <<pressCount, coreDown>>
               ELSE /\ pressCount' = Release(pressCount, pointerState[p])
                    /\ coreDown' = DownAfterRelease(coreDown, pressCount, pointerState[p])
    /\ UNCHANGED lost

\* The lift reaches nobody.
LosePointerUp(p) ==
    /\ p \in fingers /\ lost < MaxLost
    /\ fingers' = fingers \ {p}
    /\ lost' = lost + 1
    /\ UNCHANGED <<pointerState, pressCount, coreDown>>

\* releaseAllPointers on blur or a hidden tab: releaseButton once for every
\* finger on a button.  Fingers may stay on the glass.
Leave ==
    /\ pressCount' = [b \in Buttons |->
                        IF pressCount[b] > Cardinality(Holders(b))
                        THEN pressCount[b] - Cardinality(Holders(b)) ELSE 0]
    /\ coreDown' = coreDown \ {b \in Buttons : Holders(b) # {} /\ pressCount'[b] = 0}
    /\ pointerState' = << >>
    /\ UNCHANGED <<fingers, lost>>

TouchNext ==
    \/ \E p \in Pointers, b \in Buttons : PointerDown(p, b)
    \/ \E p \in Pointers : PointerDownElsewhere(p)
    \/ \E p \in Pointers, t \in Buttons \cup {Nothing} : PointerMove(p, t)
    \/ \E p \in Pointers : PointerUp(p) \/ LosePointerUp(p)
    \/ Leave

TouchSpec == TouchInit /\ [][TouchNext]_touchVars

----------------------------------------------------------------------------
(* Properties.                                                             *)

TouchTypeOK ==
    /\ fingers \in SUBSET Pointers
    /\ DOMAIN pointerState \in SUBSET Pointers
    /\ pointerState \in [DOMAIN pointerState -> Buttons \cup {Nothing}]
    /\ pressCount \in [Buttons -> Nat]
    /\ coreDown \in SUBSET Buttons
    /\ lost \in 0..MaxLost

\* "Reference-counts how many active pointers are currently holding each
\* button": after any slides and lifts the count of a button is the number
\* of fingers the component sees on it.
CountsAreHolders ==
    \A b \in Buttons : pressCount[b] = Cardinality(Holders(b))

\* "lifting one of two fingers off the same button doesn't release it": the
\* core is told that a button is down exactly while a finger is on it, whatever
\* slides and lifts came before; and "if a pointerup/pointercancel is ever missed
\* [...], don't leave a button stuck held down forever": after a lost lift this
\* is so again when the page has been left, and stays so.
DownWhileHeld == coreDown = {b \in Buttons : Holders(b) # {}}
=============================================================================
