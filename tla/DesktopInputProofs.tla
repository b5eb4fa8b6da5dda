------------------------- MODULE DesktopInputProofs -------------------------
(***************************************************************************)
(* The input router, and keyboard, pads, controls page and router          *)
(* together, for any buttons, keys, pads, cores and layouts.               *)
(*                                                                         *)
(* Each method of the router is shown once to keep the shape of a router   *)
(* state and the agreement between its record of pushed edges and the      *)
(* cores, and what it does to the sources; the actions of InputRouter and  *)
(* of DesktopInput only compose methods.  No sequence of captures and      *)
(* edits books a control twice: lemmas about AssignSlot, the one operator  *)
(* that puts a control into a slot.  And what the router keeps asserted is *)
(* what the devices hold: lemmas about the handlers, one each.             *)
(***************************************************************************)
EXTENDS DesktopInput, TLAPS

----------------------------------------------------------------------------
(* The router's methods, and the router with any devices *)

\* CoreAgrees of a router state, so that it can be carried through a
\* composition of methods.
Agrees(r) ==
    \A c \in Cores :
        r.pressed[c] = IF c = r.core /\ r.hears THEN AppliedDown(r) \ r.missed ELSE {}

\* The fields have their types, with whatever map of the system.
Shaped(r) == r \in RouterWith({r.bindings}) /\ IsSystemBindings(r.bindings)

\* What a method leaves in q of a router state r, beside what it changes.
Keeps(r, q) ==
    /\ Shaped(q) /\ (Agrees(r) => Agrees(q))
    /\ q.core = r.core

NoSources == [a \in Actions |-> {}]

LEMMA FreshShaped ==
    ASSUME NEW map, IsSystemBindings(map)
    PROVE  /\ Shaped(Fresh(map)) /\ Agrees(Fresh(map))
           /\ Fresh(map).sources = NoSources /\ Fresh(map).core = NoCore
BY CoresAssumption
   DEF Shaped, Agrees, Fresh, RouterWith, AppliedDown, NoSources

LEMMA SourcesKeeps ==
    ASSUME NEW r, Shaped(r), NEW src \in [Actions -> SUBSET Sources]
    PROVE  LET q == [r EXCEPT !.sources = src] IN
           /\ Keeps(r, q)
           /\ q.sources = src /\ q.bindings = r.bindings /\ q.applied = r.applied
BY ZenonT(60) DEF Keeps, Shaped, Agrees, RouterWith, AppliedDown

LEMMA AssertKeeps ==
    ASSUME NEW r, Shaped(r), NEW s \in Sources, NEW A
    PROVE  LET q == AssertSource(r, s, A) IN
           /\ Keeps(r, q) /\ q.bindings = r.bindings
           /\ \A a \in Actions :
                 q.sources[a] = IF a \in A THEN r.sources[a] \cup {s} ELSE r.sources[a]
<1> DEFINE src == [a \in Actions |-> IF a \in A THEN r.sources[a] \cup {s} ELSE r.sources[a]]
<1>1. src \in [Actions -> SUBSET Sources]
  BY DEF Shaped, RouterWith
<1>2. AssertSource(r, s, A) = [r EXCEPT !.sources = src]
  BY DEF AssertSource
<1>3. \A a \in Actions : src[a] = IF a \in A THEN r.sources[a] \cup {s} ELSE r.sources[a]
  OBVIOUS
<1> HIDE DEF src
<1>4. QED  BY <1>1, <1>2, <1>3, SourcesKeeps

LEMMA RetractKeeps ==
    ASSUME NEW r, Shaped(r), NEW s, NEW A
    PROVE  LET q == RetractSource(r, s, A) IN
           /\ Keeps(r, q) /\ q.bindings = r.bindings
           /\ \A a \in Actions :
                 q.sources[a] = IF a \in A THEN r.sources[a] \ {s} ELSE r.sources[a]
<1> DEFINE src == [a \in Actions |-> IF a \in A THEN r.sources[a] \ {s} ELSE r.sources[a]]
<1>1. src \in [Actions -> SUBSET Sources]
  BY DEF Shaped, RouterWith
<1>2. RetractSource(r, s, A) = [r EXCEPT !.sources = src]
  BY DEF RetractSource
<1>3. \A a \in Actions : src[a] = IF a \in A THEN r.sources[a] \ {s} ELSE r.sources[a]
  OBVIOUS
<1> HIDE DEF src
<1>4. QED  BY <1>1, <1>2, <1>3, SourcesKeeps

LEMMA DropKeeps ==
    ASSUME NEW r, Shaped(r), NEW S
    PROVE  LET q == DropSources(r, S) IN
           /\ Keeps(r, q) /\ q.bindings = r.bindings
           /\ \A a \in Actions : q.sources[a] = r.sources[a] \ S
<1> DEFINE src == [a \in Actions |-> r.sources[a] \ S]
<1>1. src \in [Actions -> SUBSET Sources]
  BY DEF Shaped, RouterWith
<1>2. DropSources(r, S) = [r EXCEPT !.sources = src]
  BY DEF DropSources
<1>3. \A a \in Actions : src[a] = r.sources[a] \ S
  OBVIOUS
<1> HIDE DEF src
<1>4. QED  BY <1>1, <1>2, <1>3, SourcesKeeps

\* The panic release leaves nothing asserted, latched or recorded as pressed.
LEMMA ReleaseAllKeeps ==
    ASSUME NEW r, Shaped(r)
    PROVE  /\ Keeps(r, ReleaseAll(r))
           /\ ReleaseAll(r).sources = NoSources
           /\ ReleaseAll(r).bindings = r.bindings
           /\ AppliedDown(ReleaseAll(r)) = {}
           /\ Agrees(r) => \A c \in Cores : ReleaseAll(r).pressed[c] = {}
<1> DEFINE pr == Push(r, AppliedDown(r), {})
           q  == ReleaseAll(r)
<1>1. pr \in [Cores -> SUBSET Buttons] /\ (Agrees(r) => \A c \in Cores : pr[c] = {})
  <2>1. CASE r.core = NoCore
    BY <2>1, CoresAssumption DEF Push, Shaped, RouterWith, Agrees
  <2>2. CASE r.core # NoCore /\ ~r.hears
    BY <2>2 DEF Push, Shaped, RouterWith, Agrees
  <2>3. CASE r.core # NoCore /\ r.hears
    BY <2>3 DEF Push, Shaped, RouterWith, Agrees
  <2>4. QED  BY <2>1, <2>2, <2>3
<1> HIDE DEF pr
<1>2. Shaped(q)
  BY <1>1 DEF Shaped, RouterWith, ReleaseAll, pr
<1>3. /\ q.pressed = pr /\ q.latched = {} /\ q.applied = [b \in Buttons |-> "unknown"]
      /\ q.core = r.core /\ q.sources = NoSources /\ q.bindings = r.bindings
      /\ q.missed = {}
  BY DEF Shaped, RouterWith, ReleaseAll, pr, NoSources
<1>4. AppliedDown(q) = {}
  BY <1>3 DEF AppliedDown
<1>5. Agrees(r) => Agrees(q)
  BY <1>1, <1>3, <1>4 DEF Agrees
<1>6. QED  BY <1>1, <1>2, <1>3, <1>4, <1>5 DEF Keeps

LEMMA SetCoreKeeps ==
    ASSUME NEW r, Shaped(r), NEW c \in Cores \cup {NoCore}, NEW hears \in BOOLEAN
    PROVE  LET q == SetCore(r, c, hears) IN
           /\ Shaped(q) /\ (Agrees(r) => Agrees(q))
           /\ q.core = c /\ q.bindings = r.bindings
           /\ q.sources = r.sources \/ q.sources = NoSources
<1>1. CASE r.core = c  BY <1>1 DEF SetCore
<1>2. CASE r.core # c
  <2> DEFINE q == ReleaseAll(r)
  <2>1. /\ Shaped(q) /\ (Agrees(r) => Agrees(q))
        /\ AppliedDown(q) = {} /\ q.sources = NoSources /\ q.bindings = r.bindings
        /\ Agrees(r) => \A d \in Cores : q.pressed[d] = {}
    BY ReleaseAllKeeps DEF Keeps
  <2> HIDE DEF q
  <2> DEFINE t == [q EXCEPT !.core = c, !.hears = hears]
  <2>2. Shaped(t) /\ t.core = c /\ t.pressed = q.pressed
        /\ t.applied = q.applied /\ t.sources = q.sources /\ t.bindings = q.bindings
    BY <2>1 DEF Shaped, RouterWith
  <2> HIDE DEF t
  <2>3. AppliedDown(t) = {}
    BY <2>1, <2>2 DEF AppliedDown
  <2>4. Agrees(r) => Agrees(t)
    BY <2>1, <2>2, <2>3 DEF Agrees
  <2>5. QED  BY <1>2, <2>1, <2>2, <2>4 DEF SetCore, q, t
<1>3. QED  BY <1>1, <1>2

\* The game of the attached core comes, and goes.
LEMMA GameReadyKeeps ==
    ASSUME NEW r, Shaped(r), ~r.hears
    PROVE  LET q == GameReady(r) IN
           /\ Keeps(r, q)
           /\ q.sources = r.sources /\ q.bindings = r.bindings /\ q.applied = r.applied
<1> DEFINE down == AppliedDown(r)
           t    == [r EXCEPT !.hears = TRUE, !.missed = down]
<1>1. down \subseteq Buttons
  BY DEF AppliedDown
<1> HIDE DEF down
<1>2. /\ Shaped(t) /\ t.core = r.core /\ t.hears = TRUE /\ t.missed = down
      /\ t.pressed = r.pressed
      /\ t.sources = r.sources /\ t.bindings = r.bindings /\ t.applied = r.applied
  BY <1>1 DEF Shaped, RouterWith
<1>3. GameReady(r) = t
  BY DEF GameReady, down
<1> HIDE DEF t
<1>4. AppliedDown(t) = down
  BY <1>2 DEF AppliedDown, down
<1>5. Agrees(r) => Agrees(t)
  BY <1>2, <1>4 DEF Agrees
<1> QED BY <1>2, <1>3, <1>5 DEF Keeps

LEMMA GameGoneKeeps ==
    ASSUME NEW r, Shaped(r)
    PROVE  LET q == GameGone(r) IN
           /\ Keeps(r, q)
           /\ q.sources = r.sources /\ q.bindings = r.bindings
<1> DEFINE none == [c \in Cores |-> {}]
           t    == [r EXCEPT !.hears = FALSE, !.missed = {}, !.pressed = none]
<1>1. none \in [Cores -> SUBSET Buttons] /\ \A c \in Cores : none[c] = {}
  OBVIOUS
<1> HIDE DEF none
<1>2. /\ Shaped(t) /\ t.core = r.core /\ t.hears = FALSE /\ t.pressed = none
      /\ t.sources = r.sources /\ t.bindings = r.bindings
  BY <1>1 DEF Shaped, RouterWith
<1>3. GameGone(r) = t
  BY DEF GameGone, none
<1> HIDE DEF t
<1>4. Agrees(t)
  BY <1>1, <1>2 DEF Agrees
<1> QED BY <1>2, <1>3, <1>4 DEF Keeps

LEMMA SetBindingsKeeps ==
    ASSUME NEW r, Shaped(r), NEW map, IsSystemBindings(map)
    PROVE  LET q == SetBindings(r, map) IN
           /\ Keeps(r, q) /\ q.bindings = map
           /\ \A a \in Actions :
                 q.sources[a] = IF a \in DOMAIN map THEN r.sources[a] ELSE {}
<1> DEFINE src == [a \in Actions |-> IF a \in DOMAIN map THEN r.sources[a] ELSE {}]
           lat == r.latched \cap DOMAIN map
           t   == [r EXCEPT !.bindings = map, !.latched = lat, !.sources = src]
<1>1. src \in [Actions -> SUBSET Sources] /\ lat \in SUBSET Buttons
  BY DEF Shaped, RouterWith
<1>2. SetBindings(r, map) = t
  BY DEF SetBindings
<1> HIDE DEF src, lat
<1>3. /\ t.core = r.core /\ t.pressed = r.pressed /\ t.applied = r.applied
      /\ t.hears = r.hears /\ t.missed = r.missed
      /\ t.bindings = map /\ t.latched = lat /\ t.sources = src
  BY DEF Shaped, RouterWith
<1>4. t \in RouterWith({map})
  BY <1>1 DEF Shaped, RouterWith
<1> HIDE DEF t
<1>5. AppliedDown(t) = AppliedDown(r)
  BY <1>3 DEF AppliedDown
<1>6. Agrees(r) => Agrees(t)
  BY <1>3, <1>5 DEF Agrees
<1>7. QED  BY <1>2, <1>3, <1>4, <1>6 DEF Keeps, Shaped, src

\* A tick leaves the sources alone, and tells the core of every button that
\* is asserted and has neither of the flags.
LEMMA TickKeeps ==
    ASSUME NEW r, Shaped(r), NEW due
    PROVE  LET q == Tick(r, due) IN
           /\ Keeps(r, q) /\ q.sources = r.sources /\ q.bindings = r.bindings
           /\ \A b \in DOMAIN r.bindings \cap Buttons :
                 ~r.bindings[b].turbo /\ ~r.bindings[b].toggle /\ r.sources[b] # {}
                    => q.applied[b] = "down"
<1> DEFINE D  == Down(r, due)
           U  == (Bound(r) \cap Buttons) \ D
           G  == TurboGate(r, due)
           ap == [b \in Buttons |-> CASE b \in D -> "down"
                                      [] b \in U -> "up"
                                      [] OTHER   -> r.applied[b]]
           ups   == {b \in U : r.applied[b] # "up"}
           downs == {b \in D : r.applied[b] # "down"}
           pr == Push(r, ups, downs)
           ms == r.missed \ (ups \cup downs)
           ra == (r.rawPrevious \ Bound(r)) \cup Raw(r)
           ex == (r.extrasDown \ ((r.rawPrevious \cap Bound(r)) \ Raw(r)))
                    \cup (Rising(r) \cap Extras)
<1>1. Bound(r) \subseteq Actions
  BY DEF Shaped, RouterWith, Bound, IsSystemBindings
<1>2. Latched(r) \subseteq Buttons
  BY DEF Shaped, RouterWith, Latched, Flipped, Rising, Raw
<1>3. D \subseteq Bound(r) \cap Buttons
  BY DEF Down, HeldButtons
<1>4. G \in [Buttons -> {"none", "on", "off"}]
  <2> SUFFICES ASSUME NEW b \in Buttons
               PROVE  G[b] \in {"none", "on", "off"}
    BY DEF TurboGate
  <2>1. r.turbo[b] \in {"none", "on", "off"}
    BY DEF Shaped, RouterWith
  <2>2. r.bindings[b].turbo \in BOOLEAN \/ b \notin Bound(r)
    BY DEF Shaped, RouterWith, Bound, IsSystemBindings, ActionBinding
  <2>3. QED  BY <2>1, <2>2 DEF TurboGate
<1>5. ap \in [Buttons -> {"unknown", "up", "down"}]
  BY DEF Shaped, RouterWith
<1>6. ra \in SUBSET Actions /\ ex \in SUBSET Extras
  BY <1>1 DEF Shaped, RouterWith, Raw, Rising
<1>7. {b \in Buttons : ap[b] = "down"} = (AppliedDown(r) \ U) \cup D
  BY <1>3 DEF AppliedDown
<1>8. pr \in [Cores -> SUBSET Buttons] /\ ms \in SUBSET Buttons
  BY <1>3 DEF Shaped, RouterWith, Push
<1>9. ASSUME Agrees(r), NEW c \in Cores
      PROVE  pr[c] = IF c = r.core /\ r.hears
                     THEN ((AppliedDown(r) \ U) \cup D) \ ms ELSE {}
  <2>1. r.pressed[c] = IF c = r.core /\ r.hears THEN AppliedDown(r) \ r.missed ELSE {}
    BY <1>9 DEF Agrees
  <2>2. CASE c = r.core /\ r.hears
    <3>1. pr[c] = (r.pressed[c] \ ups) \cup downs
      BY <2>2, CoresAssumption DEF Push, Shaped, RouterWith
    <3>2. \A b \in Buttons : /\ b \in ups <=> b \in U /\ r.applied[b] # "up"
                             /\ b \in downs <=> b \in D /\ r.applied[b] # "down"
                             /\ b \in AppliedDown(r) <=> r.applied[b] = "down"
      BY <1>3 DEF AppliedDown
    <3>3. /\ ups \subseteq U /\ downs \subseteq D /\ D \cap U = {}
          /\ U \subseteq Buttons /\ D \subseteq Buttons /\ AppliedDown(r) \subseteq Buttons
      BY <1>3 DEF AppliedDown
    <3> HIDE DEF ups, downs, U, D
    <3>4. pr[c] = ((AppliedDown(r) \ r.missed) \ ups) \cup downs
      BY <3>1, <2>1, <2>2
    <3>5. \A b \in Buttons : b \in pr[c] <=> b \in ((AppliedDown(r) \ U) \cup D) \ ms
      BY <3>2, <3>3, <3>4
    <3>6. QED  BY <2>2, <3>3, <3>4, <3>5
  <2>3. CASE ~(c = r.core /\ r.hears)
    BY <2>1, <2>3 DEF Push, Shaped, RouterWith
  <2>4. QED  BY <2>2, <2>3
<1>10. ASSUME NEW b \in DOMAIN r.bindings \cap Buttons,
              ~r.bindings[b].turbo, ~r.bindings[b].toggle, r.sources[b] # {}
       PROVE  ap[b] = "down"
  BY <1>10 DEF Down, HeldButtons, Bound
<1> DEFINE t == [r EXCEPT !.latched = Latched(r), !.rawPrevious = ra, !.turbo = G,
                          !.applied = ap, !.pressed = pr, !.missed = ms, !.extrasDown = ex]
<1>11. Tick(r, due) = t
  BY DEF Tick
<1> HIDE DEF D, U, G, ap, ups, downs, pr, ms, ra, ex
<1>12. Shaped(t)
  BY <1>2, <1>4, <1>5, <1>6, <1>8 DEF Shaped, RouterWith
<1>13. /\ t.core = r.core /\ t.sources = r.sources
       /\ t.pressed = pr /\ t.missed = ms /\ t.hears = r.hears
       /\ t.applied = ap
       /\ t.bindings = r.bindings
  BY DEF Shaped, RouterWith
<1> HIDE DEF t
<1>14. Agrees(r) => Agrees(t)
  BY <1>7, <1>9, <1>13 DEF Agrees, AppliedDown
<1>15. QED  BY <1>10, <1>11, <1>12, <1>13, <1>14 DEF Keeps

----------------------------------------------------------------------------
\* The inductive invariant of the runtime: the router's shape and its
\* agreement with the cores, while its map is one of Maps.
Good(r) == Shaped(r) /\ Agrees(r) /\ r.bindings \in Maps

RouterIInv == Good(router) /\ running \in BOOLEAN

LEMMA InitRouterIInv == Init => RouterIInv
<1>1. \A map \in Maps : Good(Fresh(map))
  BY FreshShaped, MapsAssumption DEF Good, Fresh
<1>2. QED  BY <1>1 DEF Init, RouterIInv

LEMMA StepRouterIInv == RouterIInv /\ [Next]_vars => RouterIInv'
<1> SUFFICES ASSUME RouterIInv, [Next]_vars PROVE RouterIInv'
  OBVIOUS
<1>0. Shaped(router) /\ Agrees(router) /\ router.bindings \in Maps /\ running \in BOOLEAN
  BY DEF RouterIInv, Good
<1>1. \A map \in Maps : IsSystemBindings(map)
  BY MapsAssumption
<1> SUFFICES Good(router') /\ running' \in BOOLEAN
  BY DEF RouterIInv, Good, Agrees, Shaped, RouterWith, IsSystemBindings, AppliedDown
<1>2. ASSUME NEW c \in Cores, NEW map \in Maps, NEW hears \in BOOLEAN, Mount(c, map, hears)
      PROVE  Good(router') /\ running' \in BOOLEAN
  <2> DEFINE q == SetCore(router, c, hears)
  <2>1. Shaped(q) /\ Agrees(q)
    BY <1>0, SetCoreKeeps
  <2> HIDE DEF q
  <2>2. /\ Shaped(SetBindings(q, map)) /\ Agrees(SetBindings(q, map))
        /\ SetBindings(q, map).bindings = map
    BY <1>1, <2>1, SetBindingsKeeps DEF Keeps
  <2>3. QED  BY <1>2, <2>2 DEF Mount, Good, q
<1>3. CASE Unmount
  <2>1. PICK r \in {router, GameGone(router)} : router' = SetCore(ReleaseAll(r), NoCore, FALSE)
    BY <1>3 DEF Unmount
  <2>2. Shaped(r) /\ Agrees(r) /\ r.bindings = router.bindings
    BY <1>0, GameGoneKeeps DEF Keeps
  <2> DEFINE q == ReleaseAll(r)
  <2>3. Shaped(q) /\ Agrees(q) /\ q.bindings = r.bindings
    BY <2>2, ReleaseAllKeeps DEF Keeps
  <2> HIDE DEF q
  <2>4. /\ Shaped(SetCore(q, NoCore, FALSE)) /\ Agrees(SetCore(q, NoCore, FALSE))
        /\ SetCore(q, NoCore, FALSE).bindings = q.bindings
    BY <2>3, SetCoreKeeps
  <2>5. QED  BY <1>0, <1>3, <2>1, <2>2, <2>3, <2>4 DEF Unmount, Good, q
<1>4. ASSUME NEW map \in Maps, Rebind(map)
      PROVE  Good(router') /\ running' \in BOOLEAN
  <2>1. /\ Shaped(SetBindings(router, map)) /\ Agrees(SetBindings(router, map))
        /\ SetBindings(router, map).bindings = map
    BY <1>0, <1>1, SetBindingsKeeps DEF Keeps
  <2>2. QED  BY <1>0, <1>4, <2>1 DEF Rebind, Good
<1>5. ASSUME NEW s \in Sources, NEW A \in SUBSET DOMAIN router.bindings, Sense(s, A)
      PROVE  Good(router') /\ running' \in BOOLEAN
  <2>1. Good(AssertSource(router, s, A))
    <3>1. /\ Keeps(router, AssertSource(router, s, A))
          /\ AssertSource(router, s, A).bindings = router.bindings
      BY <1>0, AssertKeeps
    <3>2. QED  BY <1>0, <3>1 DEF Keeps, Good
  <2>2. Good(RetractSource(router, s, A))
    <3>1. /\ Keeps(router, RetractSource(router, s, A))
          /\ RetractSource(router, s, A).bindings = router.bindings
      BY <1>0, RetractKeeps
    <3>2. QED  BY <1>0, <3>1 DEF Keeps, Good
  <2>3. QED  BY <1>0, <1>5, <2>1, <2>2 DEF Sense
<1>6. ASSUME NEW S \in SUBSET Sources, DropDevice(S)
      PROVE  Good(router') /\ running' \in BOOLEAN
  <2> DEFINE q == DropSources(router, S)
  <2>1. Shaped(q) /\ Agrees(q) /\ q.bindings = router.bindings
    BY <1>0, DropKeeps DEF Keeps
  <2> HIDE DEF q
  <2>2. \A due : Good(Tick(q, due))
    BY <1>0, <2>1, TickKeeps DEF Keeps, Good
  <2>3. QED  BY <1>0, <1>6, <2>2 DEF DropDevice, q
<1>7. CASE Panic
  BY <1>0, <1>7, ReleaseAllKeeps DEF Panic, Keeps, Good
<1>8. CASE Frame
  BY <1>0, <1>8, TickKeeps DEF Frame, Keeps, Good
<1>9. CASE Boot
  BY <1>0, <1>9, GameReadyKeeps DEF Boot, Keeps, Good
<1>10. CASE UNCHANGED vars
  BY <1>0, <1>10 DEF vars, Good
<1>11. QED  BY <1>2, <1>3, <1>4, <1>5, <1>6, <1>7, <1>8, <1>9, <1>10 DEF Next

\* The router's fields keep the types of router.ts, for any sequence of
\* rebinds, device events, panics and frames.
THEOREM RouterTypeOK == Spec => []TypeOK
<1>1. RouterIInv => TypeOK
  BY DEF RouterIInv, Good, Shaped, RouterWith, TypeOK
<1>2. QED  BY <1>1, InitRouterIInv, StepRouterIInv, PTL DEF Spec

\* What the attached core holds once it has its game is what the router recorded,
\* without the presses of the boot that no later tick has repeated; a core that
\* has no game or was let go of holds nothing.
THEOREM RouterCoreAgrees == Spec => []CoreAgrees
<1>1. RouterIInv => CoreAgrees
  BY DEF RouterIInv, Good, Agrees, CoreAgrees
<1>2. QED  BY <1>1, InitRouterIInv, StepRouterIInv, PTL DEF Spec

----------------------------------------------------------------------------
(* The map *)

\* A value that the capture may put into a slot: a control of the slot's
\* device, or null.
Fits(s, value) ==
    \/ value = Unbound
    \/ s \in KeySlots /\ value \in Keys
    \/ s \in PadSlots /\ value \in PadControls

\* The slots of an assigned map, one by one.
LEMMA AssignedSlot ==
    ASSUME NEW map, IsSystemBindings(map), NEW action, NEW s \in SlotNames, NEW value,
           NEW a \in DOMAIN map, NEW t \in SlotNames
    PROVE  AssignSlot(map, action, s, value)[a].slot[t] =
               IF a = action /\ t = s THEN value
               ELSE IF value # Unbound /\ t \in SameDevice(s) /\ map[a].slot[t] = value
                    THEN Unbound ELSE map[a].slot[t]
BY DEF AssignSlot, WithoutValue, IsSystemBindings, ActionBinding

\* AssignSlot keeps the shape of a map.
LEMMA AssignedShape ==
    ASSUME NEW map, IsSystemBindings(map), NEW action, NEW s \in SlotNames,
           NEW value \in Controls \cup {Unbound}
    PROVE  /\ DOMAIN AssignSlot(map, action, s, value) = DOMAIN map
           /\ IsSystemBindings(AssignSlot(map, action, s, value))
BY DEF AssignSlot, WithoutValue, IsSystemBindings, ActionBinding

\* It keeps every control in a slot of its own device.
LEMMA AssignedDevice ==
    ASSUME NEW map, IsSystemBindings(map), SlotsMatchDevice(map),
           NEW action, NEW s \in SlotNames, NEW value, Fits(s, value)
    PROVE  SlotsMatchDevice(AssignSlot(map, action, s, value))
<1> DEFINE new == AssignSlot(map, action, s, value)
<1>1. DOMAIN new = DOMAIN map
  BY DEF AssignSlot
<1>2. ASSUME NEW a \in DOMAIN map, NEW t \in KeySlots
      PROVE  new[a].slot[t] \in Keys \cup {Unbound}
  <2>1. map[a].slot[t] \in Keys \cup {Unbound}
    BY DEF SlotsMatchDevice
  <2>2. t = s => value \in Keys \cup {Unbound}
    BY DEF Fits, KeySlots, PadSlots
  <2> QED BY <2>1, <2>2, AssignedSlot DEF SlotNames
<1>3. ASSUME NEW a \in DOMAIN map, NEW t \in PadSlots
      PROVE  new[a].slot[t] \in PadControls \cup {Unbound}
  <2>1. map[a].slot[t] \in PadControls \cup {Unbound}
    BY DEF SlotsMatchDevice
  <2>2. t = s => value \in PadControls \cup {Unbound}
    BY DEF Fits, KeySlots, PadSlots
  <2> QED BY <2>1, <2>2, AssignedSlot DEF SlotNames
<1> QED BY <1>1, <1>2, <1>3 DEF SlotsMatchDevice

\* It books no control twice.  The value leaves the other slots of its device
\* and, being of that device, was in no slot of the other one.
LEMMA AssignedOnce ==
    ASSUME NEW map, IsSystemBindings(map), SlotsMatchDevice(map), NoDoubleBooking(map),
           NEW action, NEW s \in SlotNames, NEW value, Fits(s, value)
    PROVE  NoDoubleBooking(AssignSlot(map, action, s, value))
<1> DEFINE new == AssignSlot(map, action, s, value)
<1>1. DOMAIN new = DOMAIN map
  BY DEF AssignSlot
<1>2. SUFFICES ASSUME NEW c \in Controls, NEW a \in DOMAIN map, NEW b \in DOMAIN map,
                      NEW t \in SlotNames, NEW u \in SlotNames,
                      new[a].slot[t] = c, new[b].slot[u] = c
               PROVE  a = b /\ t = u
  BY <1>1 DEF NoDoubleBooking, BoundOnce
<1>3. c # Unbound
  BY ControlsAssumption
<1>4. ASSUME NEW x \in DOMAIN map, NEW v \in SlotNames, new[x].slot[v] = c
      PROVE  \/ x = action /\ v = s /\ c = value
             \/ map[x].slot[v] = c /\ ~(v \in SameDevice(s) /\ c = value)
  BY <1>3, <1>4, AssignedSlot
<1>5. CASE c # value
  BY <1>2, <1>4, <1>5 DEF NoDoubleBooking, BoundOnce
<1>6. CASE c = value
  <2>1. ASSUME NEW x \in DOMAIN map, NEW v \in SlotNames, map[x].slot[v] = c
        PROVE  v \in SameDevice(s)
    <3>1. CASE s \in KeySlots
      <4>1. c \in Keys /\ c \notin PadControls
        BY <1>3, <1>6, <3>1, ControlsAssumption DEF Fits, KeySlots, PadSlots
      <4>2. v \notin PadSlots
        BY <1>3, <2>1, <4>1 DEF SlotsMatchDevice
      <4> QED BY <3>1, <4>2 DEF SameDevice, SlotNames, KeySlots, PadSlots
    <3>2. CASE s \in PadSlots
      <4>1. c \in PadControls /\ c \notin Keys
        BY <1>3, <1>6, <3>2, ControlsAssumption DEF Fits, KeySlots, PadSlots
      <4>2. v \notin KeySlots
        BY <1>3, <2>1, <4>1 DEF SlotsMatchDevice
      <4> QED BY <3>2, <4>2 DEF SameDevice, SlotNames
    <3> QED BY <3>1, <3>2 DEF SlotNames
  <2> QED BY <1>2, <1>4, <1>6, <2>1
<1> QED BY <1>5, <1>6

----------------------------------------------------------------------------
\* The inductive invariant: a control in a slot of the wrong device would
\* survive AssignSlot, which looks at one device only.
ConfigInv ==
    /\ setup \in Setups
    /\ IsSystemBindings(config)
    /\ SlotsMatchDevice(config)
    /\ NoDoubleBooking(config)

LEMMA LayoutsAreFine ==
    ASSUME NEW map \in Maps
    PROVE  IsSystemBindings(map) /\ SlotsMatchDevice(map) /\ NoDoubleBooking(map)
BY MapsAssumption, LayoutsAssumption

LEMMA AssignKeepsConfigInv ==
    ASSUME ConfigInv, NEW action, NEW s \in SlotNames,
           NEW value \in Controls \cup {Unbound}, Fits(s, value),
           config' = AssignSlot(config, action, s, value), setup' = setup
    PROVE  ConfigInv'
BY AssignedShape, AssignedDevice, AssignedOnce DEF ConfigInv

\* The checkboxes leave the slots alone.
LEMMA FlagKeepsConfigInv ==
    ASSUME ConfigInv, NEW action, NEW flag, config' = ToggleFlag(config, action, flag),
           setup' = setup
    PROVE  ConfigInv'
<1>1. DOMAIN config' = DOMAIN config
  BY DEF ToggleFlag
<1>2. \A x \in DOMAIN config : config'[x] \in ActionBinding /\ config'[x].slot = config[x].slot
  BY DEF ToggleFlag, ConfigInv, IsSystemBindings, ActionBinding
<1>3. IsSystemBindings(config')
  BY <1>1, <1>2 DEF ToggleFlag, ConfigInv, IsSystemBindings
<1>4. SlotsMatchDevice(config')
  BY <1>1, <1>2 DEF SlotsMatchDevice, ConfigInv
<1>5. NoDoubleBooking(config')
  BY <1>1, <1>2 DEF NoDoubleBooking, BoundOnce, ConfigInv
<1> QED BY <1>3, <1>4, <1>5 DEF ConfigInv

\* One step of the desktop input.
LEMMA ConfigStep ==
    ASSUME ConfigInv, [DNext]_allVars PROVE ConfigInv'
<1>0. setup' = setup
  BY DEF DNext, allVars
<1>1. CASE Physical
  <2>1. UNCHANGED config
    BY <1>1 DEF Physical, KeyElsewhere, PadPress, Connect, Vanish, Unplug, Return, MoveFocus, program
  <2> QED BY <1>0, <2>1 DEF ConfigInv
<1>2. CASE Handlers
  <2>1. UNCHANGED config
    BY <1>2 DEF Handlers, KeyDown, KeyRepeat, KeyUp, Disconnect, Leave, Start,
       ModuleArrives, Stop, settings
  <2> QED BY <1>0, <2>1 DEF ConfigInv
<1>3. CASE AnimationFrame
  <2>1. UNCHANGED config
    BY <1>3 DEF AnimationFrame, settings
  <2> QED BY <1>0, <2>1 DEF ConfigInv
<1>4. CASE StartCapture \/ CancelCapture \/ \E k \in Keys : SwallowKey(k)
  <2>1. UNCHANGED config
    BY <1>4 DEF StartCapture, CancelCapture, SwallowKey
  <2> QED BY <1>0, <2>1 DEF ConfigInv
<1>5. ASSUME NEW k \in Keys, CaptureKey(k) PROVE ConfigInv'
  <2>1. PICK a \in DOMAIN config, s \in KeySlots : config' = AssignSlot(config, a, s, k)
    BY <1>5 DEF CaptureKey, SetConfig
  <2>2. s \in SlotNames /\ Fits(s, k) /\ k \in Controls
    BY DEF SlotNames, Fits, Controls
  <2> QED BY <1>0, <2>1, <2>2, AssignKeepsConfigInv
<1>6. ASSUME NEW i \in Pads, NEW c \in PadControls, CapturePad(i, c) PROVE ConfigInv'
  <2>1. PICK a \in DOMAIN config, s \in PadSlots : config' = AssignSlot(config, a, s, c)
    BY <1>6 DEF CapturePad, SetConfig
  <2>2. s \in SlotNames /\ Fits(s, c) /\ c \in Controls
    BY DEF SlotNames, Fits, Controls
  <2> QED BY <1>0, <2>1, <2>2, AssignKeepsConfigInv
<1>7. CASE EditMap
  <2>1. \/ \E a \in DOMAIN config, s \in SlotNames : config' = AssignSlot(config, a, s, Unbound)
        \/ \E b \in DOMAIN config \cap Buttons, f \in {"turbo", "toggle"} :
              config' = ToggleFlag(config, b, f)
        \/ config' \in Maps
    BY <1>7, SetupsAssumption DEF EditMap, SetConfig, ConfigInv
  <2>2. \A s \in SlotNames : Fits(s, Unbound)
    BY DEF Fits
  <2>3. config' \in Maps => ConfigInv'
    BY <1>0, LayoutsAreFine DEF ConfigInv
  <2> QED BY <1>0, <2>1, <2>2, <2>3, AssignKeepsConfigInv, FlagKeepsConfigInv
<1>8. CASE UNCHANGED allVars
  BY <1>8 DEF allVars, settings, ConfigInv
<1> QED
  BY <1>1, <1>2, <1>3, <1>4, <1>5, <1>6, <1>7, <1>8 DEF DNext, Editing

\* controls.tsx and bindings.ts: from the layouts of the program, no captures,
\* clears, flags and presets, in any order, book a control twice.
THEOREM ConfigBookedOnce == DSpec => []BookedOnce
<1>1. DInit => ConfigInv
  BY LayoutsAreFine, SetupsAssumption DEF DInit, ConfigInv
<1>2. ConfigInv /\ [DNext]_allVars => ConfigInv'
  BY ConfigStep
<1>3. ConfigInv => BookedOnce
  BY DEF ConfigInv, BookedOnce
<1> QED BY <1>1, <1>2, <1>3, PTL DEF DSpec

----------------------------------------------------------------------------
(* What is asserted and what is held *)

\* The keys h and the pad controls act assert their actions, and nothing else
\* asserts any.
Matched(r, h, act) ==
    \A a \in Actions :
        /\ \A k \in Keys :
              k \in r.sources[a] <=> k \in h /\ a \in ActionsForSlot(r.bindings, k)
        /\ \A i \in Pads, c \in PadControls :
              <<i, c>> \in r.sources[a]
                 <=> i \in DOMAIN act /\ c \in act[i] /\ a \in ActionsForSlot(r.bindings, c)

\* The last tick told the core of every button that is asserted and has
\* neither of the flags.
Told(r) ==
    \A b \in DOMAIN r.bindings \cap Buttons :
        ~r.bindings[b].turbo /\ ~r.bindings[b].toggle /\ r.sources[b] # {}
            => r.applied[b] = "down"

DeviceInv ==
    /\ held \subseteq Keys /\ connected \subseteq Pads /\ DOMAIN active \subseteq Pads
    /\ spent \subseteq keysDown \cap Keys /\ held \cap spent = {}
    /\ capture # "no" \/ ~running => held = {} /\ DOMAIN active = {}

RouterInv ==
    /\ Shaped(router)
    /\ setup.system = "gba" => ~listening /\ Agrees(router)
    /\ running => router.core \in Cores
    /\ ~running => router.sources = NoSources

MatchInv == CapturesOnly => Matched(router, held, active) /\ Told(router)

\* The inductive invariant.  A capture finds nothing asserted, and so the map
\* may change under it.
DInv == ConfigInv /\ DeviceInv /\ RouterInv /\ MatchInv

\* A source is a key or a control of a pad.
LEMMA SourceIs ==
    /\ \A k \in Keys : k \in Sources
    /\ \A i \in Pads, c \in PadControls : <<i, c>> \in Sources /\ <<i, c>> \notin Keys
    /\ \A s \in Sources : s \in Keys \/ \E i \in Pads, c \in PadControls : s = <<i, c>>
BY SourcesAssumption

LEMMA ActionsForIs ==
    ASSUME NEW r, Shaped(r), NEW control
    PROVE  ActionsForSlot(r.bindings, control) \subseteq Actions
BY DEF Shaped, IsSystemBindings, ActionsForSlot

\* Nothing held, nothing asserted, and the other way round.
LEMMA NothingMatches ==
    ASSUME NEW r, r.sources = NoSources, NEW act, DOMAIN act = {}
    PROVE  Matched(r, {}, act) /\ Told(r)
BY DEF Matched, Told, NoSources, Actions

LEMMA MatchedNothing ==
    ASSUME NEW r, Shaped(r), NEW act, DOMAIN act = {}, Matched(r, {}, act)
    PROVE  r.sources = NoSources
<1>1. r.sources \in [Actions -> SUBSET Sources]
  BY DEF Shaped, RouterWith
<1>2. \A a \in Actions : r.sources[a] = {}
  BY <1>1, SourceIs DEF Matched
<1> QED BY <1>1, <1>2 DEF NoSources

LEMMA PressMatches ==
    ASSUME NEW r, NEW h, NEW act, Matched(r, h, act), NEW k \in Keys,
           NEW q, q.bindings = r.bindings,
           \A a \in Actions :
              q.sources[a] = IF a \in ActionsForSlot(r.bindings, k)
                             THEN r.sources[a] \cup {k} ELSE r.sources[a]
    PROVE  Matched(q, h \cup {k}, act)
<1> SUFFICES ASSUME NEW a \in Actions
             PROVE  /\ \A j \in Keys :
                          j \in q.sources[a] <=> j \in h \cup {k} /\ a \in ActionsForSlot(r.bindings, j)
                    /\ \A i \in Pads, c \in PadControls :
                          <<i, c>> \in q.sources[a] <=> <<i, c>> \in r.sources[a]
  BY DEF Matched
<1>1. ASSUME NEW j \in Keys
      PROVE  j \in q.sources[a] <=> j \in h \cup {k} /\ a \in ActionsForSlot(r.bindings, j)
  <2>1. j \in r.sources[a] <=> j \in h /\ a \in ActionsForSlot(r.bindings, j)
    BY DEF Matched
  <2> QED BY <2>1
<1>2. ASSUME NEW i \in Pads, NEW c \in PadControls
      PROVE  <<i, c>> \in q.sources[a] <=> <<i, c>> \in r.sources[a]
  BY SourceIs
<1> QED BY <1>1, <1>2

LEMMA ReleaseMatches ==
    ASSUME NEW r, NEW h, NEW act, Matched(r, h, act), NEW k \in Keys,
           NEW q, q.bindings = r.bindings,
           \A a \in Actions :
              q.sources[a] = IF a \in ActionsForSlot(r.bindings, k)
                             THEN r.sources[a] \ {k} ELSE r.sources[a]
    PROVE  Matched(q, h \ {k}, act)
<1> SUFFICES ASSUME NEW a \in Actions
             PROVE  /\ \A j \in Keys :
                          j \in q.sources[a] <=> j \in h \ {k} /\ a \in ActionsForSlot(r.bindings, j)
                    /\ \A i \in Pads, c \in PadControls :
                          <<i, c>> \in q.sources[a] <=> <<i, c>> \in r.sources[a]
  BY DEF Matched
<1>1. ASSUME NEW j \in Keys
      PROVE  j \in q.sources[a] <=> j \in h \ {k} /\ a \in ActionsForSlot(r.bindings, j)
  <2>1. j \in r.sources[a] <=> j \in h /\ a \in ActionsForSlot(r.bindings, j)
    BY DEF Matched
  <2> QED BY <2>1
<1>2. ASSUME NEW i \in Pads, NEW c \in PadControls
      PROVE  <<i, c>> \in q.sources[a] <=> <<i, c>> \in r.sources[a]
  BY SourceIs
<1> QED BY <1>1, <1>2

LEMMA UnplugMatches ==
    ASSUME NEW r, NEW h, NEW act, Matched(r, h, act), NEW i \in Pads,
           NEW q, q.bindings = r.bindings,
           \A a \in Actions : q.sources[a] = r.sources[a] \ PadSources(i)
    PROVE  Matched(q, h, [j \in DOMAIN act \ {i} |-> act[j]])
BY SourceIs DEF Matched, PadSources

\* Matched sees the sources and the map only.
LEMMA SameMatches ==
    ASSUME NEW r, NEW h, NEW act, Matched(r, h, act),
           NEW q, q.bindings = r.bindings, q.sources = r.sources
    PROVE  Matched(q, h, act)
BY DEF Matched


----------------------------------------------------------------------------
(* The compositions that the handlers make *)

LEMMA ReleaseHeldKeeps ==
    ASSUME NEW r, Shaped(r)
    PROVE  LET q == ReleaseHeld(r) IN
           /\ Keeps(r, q) /\ q.bindings = r.bindings
           /\ \A a \in Actions :
                 q.sources[a] = {s \in r.sources[a] : ~(s \in held /\ a \in ActionsFor(s))}
<1> DEFINE src == [a \in Actions |-> {s \in r.sources[a] : ~(s \in held /\ a \in ActionsFor(s))}]
<1>1. src \in [Actions -> SUBSET Sources]
  BY DEF Shaped, RouterWith
<1>2. ReleaseHeld(r) = [r EXCEPT !.sources = src]
  BY DEF ReleaseHeld
<1>3. \A a \in Actions :
         src[a] = {s \in r.sources[a] : ~(s \in held /\ a \in ActionsFor(s))}
  OBVIOUS
<1> HIDE DEF src
<1> QED BY <1>1, <1>2, <1>3, SourcesKeeps

\* The pads' sources go; without a pad there are none to go.
LEMMA ReleaseAllPadsKeeps ==
    ASSUME NEW r, Shaped(r)
    PROVE  LET q == ReleaseAllPads(r) IN
           /\ Keeps(r, q) /\ q.bindings = r.bindings
           /\ \A a \in Actions :
                 q.sources[a] = r.sources[a] \ UNION {PadSources(i) : i \in DOMAIN active}
<1> DEFINE S == UNION {PadSources(i) : i \in DOMAIN active}
           d == DropSources(r, S)
<1>1. CASE DOMAIN active = {}
  <2>1. S = {} /\ ReleaseAllPads(r) = r
    BY <1>1 DEF ReleaseAllPads
  <2> QED BY <2>1 DEF Keeps
<1>2. CASE DOMAIN active # {}
  <2>1. ReleaseAllPads(r) = Tick(d, {})
    BY <1>2 DEF ReleaseAllPads
  <2> HIDE DEF S
  <2>2. Keeps(r, d) /\ d.bindings = r.bindings /\ \A a \in Actions : d.sources[a] = r.sources[a] \ S
    BY DropKeeps
  <2> HIDE DEF d
  <2>3. Shaped(d)
    BY <2>2 DEF Keeps
  <2>4. Keeps(d, Tick(d, {})) /\ Tick(d, {}).sources = d.sources /\ Tick(d, {}).bindings = d.bindings
    BY <2>3, TickKeeps
  <2>5. Keeps(r, Tick(d, {}))
    BY <2>2, <2>4 DEF Keeps
  <2> QED BY <2>1, <2>2, <2>4, <2>5 DEF S
<1> QED BY <1>1, <1>2

\* WebMelon's listeners write the mask and nothing else, and only where they
\* are on the window.
LEMMA WebMelonKeeps ==
    ASSUME NEW r, Shaped(r), NEW k, NEW q, q = WebMelonKeyDown(r, k) \/ q = WebMelonKeyUp(r, k)
    PROVE  /\ Shaped(q) /\ q.core = r.core /\ q.bindings = r.bindings
           /\ q.sources = r.sources /\ q.applied = r.applied
           /\ ~listening => q = r
<1>1. MirroredButtons(k) \subseteq Buttons
  BY DEF MirroredButtons
<1>2. q = r \/ \E mask \in [Cores -> SUBSET Buttons] : q = SetMask(r, mask)
  <2>1. \A c \in Cores : r.pressed[c] \subseteq Buttons
    BY DEF Shaped, RouterWith
  <2> DEFINE down == [c \in Cores |-> (IF usingPad THEN {} ELSE r.pressed[c]) \cup MirroredButtons(k)]
             up   == [c \in Cores |-> r.pressed[c] \ MirroredButtons(k)]
  <2>2. down \in [Cores -> SUBSET Buttons] /\ up \in [Cores -> SUBSET Buttons]
    BY <1>1, <2>1
  <2>3. q \in {r, SetMask(r, down), SetMask(r, up)}
    BY DEF WebMelonKeyDown, WebMelonKeyUp
  <2> HIDE DEF down, up
  <2> QED BY <2>2, <2>3
<1>3. ~listening => q = r
  BY DEF WebMelonKeyDown, WebMelonKeyUp
<1>4. CASE q = r
  BY <1>3, <1>4
<1>5. ASSUME NEW mask \in [Cores -> SUBSET Buttons], q = SetMask(r, mask)
      PROVE  /\ Shaped(q) /\ q.core = r.core /\ q.bindings = r.bindings
             /\ q.sources = r.sources /\ q.applied = r.applied
  <2>1. q = [r EXCEPT !.pressed = mask]
    BY <1>5 DEF SetMask
  <2> QED BY <1>5, <2>1 DEF Shaped, RouterWith
<1> QED BY <1>2, <1>3, <1>4, <1>5

\* The sources after a poll are sources, if the pads that are there are pads.
LEMMA PolledAreSources ==
    ASSUME NEW r, Shaped(r), connected \subseteq Pads
    PROVE  PolledSources(r) \in [Actions -> SUBSET Sources]
<1> DEFINE bound(a) == {s \in connected \X PadControls : a \in ActionsForSlot(r.bindings, s[2])}
           came(a)  == {s \in bound(a) : s[2] \in padDown[s[1]] \ Tracked(s[1])}
           went(a)  == {s \in bound(a) : s[2] \in Tracked(s[1]) \ padDown[s[1]]}
           swept    == UNION {PadSources(i) : i \in DOMAIN active \ connected}
<1>1. PolledSources(r) = [a \in Actions |-> ((r.sources[a] \cup came(a)) \ went(a)) \ swept]
  BY DEF PolledSources
<1>2. \A a \in Actions : came(a) \subseteq Sources
  BY SourcesAssumption
<1>3. r.sources \in [Actions -> SUBSET Sources]
  BY DEF Shaped, RouterWith
<1> HIDE DEF came, went, swept, bound
<1> QED BY <1>1, <1>2, <1>3

\* A poll asserts what is down on the pads that are there, and nothing else of
\* any pad.
LEMMA PollMatches ==
    ASSUME NEW r, Shaped(r), NEW h, h \subseteq Keys, Matched(r, h, active),
           connected \subseteq Pads, DOMAIN active \subseteq Pads,
           NEW q, q.bindings = r.bindings, q.sources = PolledSources(r)
    PROVE  Matched(q, h, [i \in connected |-> padDown[i]])
<1> DEFINE bound(a) == {s \in connected \X PadControls : a \in ActionsForSlot(r.bindings, s[2])}
           came(a)  == {s \in bound(a) : s[2] \in padDown[s[1]] \ Tracked(s[1])}
           went(a)  == {s \in bound(a) : s[2] \in Tracked(s[1]) \ padDown[s[1]]}
           swept    == UNION {PadSources(i) : i \in DOMAIN active \ connected}
<1>1. PolledSources(r) = [a \in Actions |-> ((r.sources[a] \cup came(a)) \ went(a)) \ swept]
  BY DEF PolledSources
<1>3. \A a \in Actions : q.sources[a] = ((r.sources[a] \cup came(a)) \ went(a)) \ swept
  BY <1>1
<1>4. \A k \in Keys : k \notin swept /\ \A a \in Actions : k \notin came(a) /\ k \notin went(a)
  <2>1. swept \subseteq Pads \X PadControls
    BY DEF PadSources
  <2>2. \A a \in Actions : came(a) \subseteq Pads \X PadControls /\ went(a) \subseteq Pads \X PadControls
    OBVIOUS
  <2> HIDE DEF swept, came, went
  <2> QED BY <2>1, <2>2, SourcesAssumption
<1>5. ASSUME NEW a \in Actions, NEW i \in Pads, NEW c \in PadControls
      PROVE  /\ <<i, c>> \in came(a)
                   <=> i \in connected /\ a \in ActionsForSlot(r.bindings, c)
                       /\ c \in padDown[i] /\ c \notin Tracked(i)
             /\ <<i, c>> \in went(a)
                   <=> i \in connected /\ a \in ActionsForSlot(r.bindings, c)
                       /\ c \in Tracked(i) /\ c \notin padDown[i]
             /\ <<i, c>> \in swept <=> i \in DOMAIN active /\ i \notin connected
  BY DEF PadSources
<1> HIDE DEF came, went, swept, bound
<1>7. ASSUME NEW a \in Actions, NEW k \in Keys
      PROVE  k \in q.sources[a] <=> k \in h /\ a \in ActionsForSlot(q.bindings, k)
  <2>1. k \in q.sources[a] <=> k \in r.sources[a]
    BY <1>3, <1>4
  <2> QED BY <2>1 DEF Matched
<1>8. ASSUME NEW a \in Actions, NEW i \in Pads, NEW c \in PadControls
      PROVE  <<i, c>> \in q.sources[a]
                <=> i \in connected /\ c \in padDown[i] /\ a \in ActionsForSlot(q.bindings, c)
  <2>1. <<i, c>> \in r.sources[a]
           <=> i \in DOMAIN active /\ c \in active[i] /\ a \in ActionsForSlot(r.bindings, c)
    BY DEF Matched
  <2>2. c \in Tracked(i) <=> i \in DOMAIN active /\ c \in active[i]
    BY DEF Tracked
  <2>3. <<i, c>> \in q.sources[a]
           <=> (<<i, c>> \in r.sources[a] \/ <<i, c>> \in came(a)) /\ <<i, c>> \notin went(a)
               /\ <<i, c>> \notin swept
    BY <1>3
  <2> QED BY <1>5, <2>1, <2>2, <2>3
<1> QED BY <1>7, <1>8 DEF Matched


----------------------------------------------------------------------------
(* One handler after the other *)

\* What the handlers have to establish.
Kept == DeviceInv' /\ RouterInv' /\ MatchInv'

\* The router and what the devices hold stay.
LEMMA QuietKept ==
    ASSUME DInv, UNCHANGED <<setup, router, running, held, active, listening>>,
           capture' # "no" => capture # "no", connected' \subseteq Pads,
           spent' \subseteq spent, spent' \subseteq keysDown'
    PROVE  Kept
<1>1. DeviceInv'
  BY DEF DInv, DeviceInv
<1>2. RouterInv'
  BY DEF DInv, RouterInv, Shaped, Agrees, AppliedDown
<1>3. MatchInv'
  BY DEF DInv, MatchInv, CapturesOnly, Matched, Told
<1> QED BY <1>1, <1>2, <1>3 DEF Kept

LEMMA PhysicalKept ==
    ASSUME DInv, Physical, setup' = setup PROVE Kept
<1>1. UNCHANGED <<router, running, held, active, listening, capture>>
  BY DEF Physical, KeyElsewhere, PadPress, Connect, Vanish, Return, MoveFocus, program, devices
<1>2. connected \subseteq Pads /\ spent \subseteq keysDown
  BY DEF DInv, DeviceInv
<1>3. spent' \subseteq spent /\ spent' \subseteq keysDown' /\ connected' \subseteq Pads
  <2>1. CASE \E k \in Keys : KeyElsewhere(k)
    BY <1>2, <2>1 DEF KeyElsewhere
  <2>2. CASE \/ \E i \in Pads, c \in PadControls : PadPress(i, c)
             \/ \E i \in Pads : Connect(i) \/ Vanish(i)
             \/ Return \/ MoveFocus
    BY <1>2, <2>2 DEF PadPress, Connect, Vanish, Unplug, Return, MoveFocus, program
  <2> QED BY <2>1, <2>2 DEF Physical
<1> QED BY <1>1, <1>3, QuietKept

\* The router goes from r, which WebMelon may have written, to router'.
LEMMA RouterKept ==
    ASSUME DInv, setup' = setup, running' = running, listening' = listening,
           NEW r, Shaped(r), r.core = router.core, ~listening => r = router,
           Keeps(r, router'), ~running => router'.sources = NoSources
    PROVE  RouterInv'
<1>1. setup.system = "gba" => ~listening /\ Agrees(r)
  BY DEF DInv, RouterInv
<1>2. (running => r.core \in Cores) /\ router'.core = r.core
  BY DEF DInv, RouterInv, Keeps
<1>3. Shaped(router') /\ (Agrees(r) => Agrees(router'))
  BY DEF Keeps
<1>4. Shaped(router)' /\ (Agrees(router)' <=> Agrees(router'))
  BY <1>3 DEF Shaped, RouterWith, Agrees, AppliedDown, IsSystemBindings
<1> QED BY <1>1, <1>2, <1>3, <1>4 DEF RouterInv


\* A key press adds its key where the router ticks, and is WebMelon's alone elsewhere.
LEMMA KeyDownKept ==
    ASSUME DInv, NEW k \in Keys, KeyDown(k), setup' = setup
    PROVE  Kept
<1> DEFINE r == WebMelonKeyDown(router, k)
<1>1. /\ Shaped(r) /\ r.core = router.core /\ r.bindings = router.bindings
      /\ r.sources = router.sources /\ r.applied = router.applied
      /\ ~listening => r = router
  BY WebMelonKeeps DEF DInv, RouterInv
<1>2. /\ k \notin keysDown /\ keysDown' = keysDown \cup {k} /\ capture = "no"
      /\ UNCHANGED <<running, active, listening, config, capture, spent, connected>>
  BY DEF KeyDown, settings
<1>3. CASE running /\ ~typing /\ ActionsFor(k) # {} /\ k \notin held
  <2> DEFINE p == AssertSource(r, k, ActionsFor(k))
  <2>1. held' = held \cup {k} /\ \E due : router' = Tick(p, due)
    BY <1>3 DEF KeyDown
  <2> HIDE DEF r
  <2>2. /\ Keeps(r, p) /\ p.bindings = r.bindings
        /\ \A a \in Actions :
              p.sources[a] = IF a \in ActionsForSlot(r.bindings, k)
                             THEN r.sources[a] \cup {k} ELSE r.sources[a]
    BY <1>1, SourceIs, AssertKeeps DEF ActionsFor
  <2> HIDE DEF p
  <2>3. /\ Keeps(p, router') /\ router'.sources = p.sources /\ router'.bindings = p.bindings
        /\ Told(router')
    <3>1. Shaped(p)
      BY <2>2 DEF Keeps
    <3>2. PICK due : router' = Tick(p, due)
      BY <2>1
    <3> QED BY <3>1, <3>2, TickKeeps DEF Told
  <2>4. DeviceInv'
    BY <1>2, <1>3, <2>1 DEF DInv, DeviceInv
  <2>5. RouterInv'
    <3>1. Keeps(r, router')
      BY <2>2, <2>3 DEF Keeps
    <3> QED BY <1>1, <1>2, <1>3, <3>1, RouterKept
  <2>6. MatchInv'
    <3>1. ASSUME CapturesOnly PROVE Matched(router', held', active')
      <4>1. Matched(r, held, active)
        BY <1>1, <3>1 DEF DInv, MatchInv, Matched
      <4>2. Matched(p, held \cup {k}, active)
        BY <2>2, <4>1, PressMatches
      <4> QED BY <1>2, <2>1, <2>3, <4>2, SameMatches
    <3> QED BY <2>3, <3>1 DEF MatchInv, CapturesOnly, Matched, Told
  <2> QED BY <2>4, <2>5, <2>6 DEF Kept
<1>4. CASE ~(running /\ ~typing /\ ActionsFor(k) # {} /\ k \notin held)
  <2>1. router' = r /\ held' = held
    BY <1>4 DEF KeyDown
  <2> HIDE DEF r
  <2>2. DeviceInv'
    BY <1>2, <2>1 DEF DInv, DeviceInv
  <2>3. RouterInv'
    <3>1. Keeps(r, r)
      BY <1>1 DEF Keeps
    <3>2. ~running => r.sources = NoSources
      BY <1>1 DEF DInv, RouterInv
    <3> QED BY <1>1, <1>2, <2>1, <3>1, <3>2, RouterKept
  <2>4. MatchInv'
    BY <1>1, <1>2, <2>1 DEF DInv, MatchInv, CapturesOnly, Matched, Told
  <2> QED BY <2>2, <2>3, <2>4 DEF Kept
<1> QED BY <1>3, <1>4

\* A repeated key press is WebMelon's alone.
LEMMA KeyRepeatKept ==
    ASSUME DInv, NEW k \in Keys, KeyRepeat(k), setup' = setup
    PROVE  Kept
<1>1. /\ Shaped(router') /\ router'.core = router.core /\ router'.bindings = router.bindings
      /\ router'.sources = router.sources /\ router'.applied = router.applied
      /\ ~listening => router' = router
  BY WebMelonKeeps DEF DInv, RouterInv, KeyRepeat
<1>2. UNCHANGED <<running, held, active, listening, capture, spent, keysDown, connected>>
  BY DEF KeyRepeat, settings, world
<1>3. DeviceInv'
  BY <1>2 DEF DInv, DeviceInv
<1>4. RouterInv'
  <2>1. Keeps(router', router')
    BY <1>1 DEF Keeps
  <2>2. ~running => router'.sources = NoSources
    BY <1>1 DEF DInv, RouterInv
  <2> QED BY <1>1, <1>2, <2>1, <2>2, RouterKept
<1>5. MatchInv'
  BY <1>1, <1>2 DEF DInv, MatchInv, CapturesOnly, Matched, Told
<1> QED BY <1>3, <1>4, <1>5 DEF Kept

\* A release takes its key away where the source held it.
LEMMA KeyUpKept ==
    ASSUME DInv, NEW k \in Keys, KeyUp(k), setup' = setup
    PROVE  Kept
<1> DEFINE r == WebMelonKeyUp(router, k)
<1>1. /\ Shaped(r) /\ r.core = router.core /\ r.bindings = router.bindings
      /\ r.sources = router.sources /\ r.applied = router.applied
      /\ ~listening => r = router
  BY WebMelonKeeps DEF DInv, RouterInv
<1>2. /\ keysDown' = keysDown \ {k} /\ spent' = spent \ {k}
      /\ UNCHANGED <<running, active, listening, config, capture, connected>>
  BY DEF KeyUp
<1>3. CASE running /\ k \in held
  <2> DEFINE p == RetractSource(r, k, ActionsFor(k))
  <2>1. held' = held \ {k} /\ \E due : router' = Tick(p, due)
    BY <1>3 DEF KeyUp
  <2> HIDE DEF r
  <2>2. /\ Keeps(r, p) /\ p.bindings = r.bindings
        /\ \A a \in Actions :
              p.sources[a] = IF a \in ActionsForSlot(r.bindings, k)
                             THEN r.sources[a] \ {k} ELSE r.sources[a]
    <3>1. /\ Keeps(r, p) /\ p.bindings = r.bindings
          /\ \A a \in Actions :
                p.sources[a] = IF a \in ActionsFor(k) THEN r.sources[a] \ {k} ELSE r.sources[a]
      BY <1>1, RetractKeeps
    <3>2. ActionsFor(k) = ActionsForSlot(r.bindings, k)
      BY <1>1 DEF ActionsFor
    <3> HIDE DEF p
    <3> QED BY <3>1, <3>2
  <2> HIDE DEF p
  <2>3. /\ Keeps(p, router') /\ router'.sources = p.sources /\ router'.bindings = p.bindings
        /\ Told(router')
    <3>1. Shaped(p)
      BY <2>2 DEF Keeps
    <3>2. PICK due : router' = Tick(p, due)
      BY <2>1
    <3> QED BY <3>1, <3>2, TickKeeps DEF Told
  <2>4. DeviceInv'
    BY <1>2, <1>3, <2>1 DEF DInv, DeviceInv
  <2>5. RouterInv'
    <3>1. Keeps(r, router')
      BY <2>2, <2>3 DEF Keeps
    <3> QED BY <1>1, <1>2, <1>3, <3>1, RouterKept
  <2>6. MatchInv'
    <3>1. ASSUME CapturesOnly PROVE Matched(router', held', active')
      <4>1. Matched(r, held, active)
        BY <1>1, <3>1 DEF DInv, MatchInv, Matched
      <4>2. Matched(p, held \ {k}, active)
        BY <2>2, <4>1, ReleaseMatches
      <4> QED BY <1>2, <2>1, <2>3, <4>2, SameMatches
    <3> QED BY <2>3, <3>1 DEF MatchInv, CapturesOnly, Matched, Told
  <2> QED BY <2>4, <2>5, <2>6 DEF Kept
<1>4. CASE ~(running /\ k \in held)
  <2>1. router' = r /\ held' = held
    BY <1>4 DEF KeyUp
  <2> HIDE DEF r
  <2>2. DeviceInv'
    BY <1>2, <2>1 DEF DInv, DeviceInv
  <2>3. RouterInv'
    <3>1. Keeps(r, r)
      BY <1>1 DEF Keeps
    <3>2. ~running => r.sources = NoSources
      BY <1>1 DEF DInv, RouterInv
    <3> QED BY <1>1, <1>2, <2>1, <3>1, <3>2, RouterKept
  <2>4. MatchInv'
    BY <1>1, <1>2, <2>1 DEF DInv, MatchInv, CapturesOnly, Matched, Told
  <2> QED BY <2>2, <2>3, <2>4 DEF Kept
<1> QED BY <1>3, <1>4

\* Nothing asserted and nothing held: the sources match.
LEMMA EmptyMatches ==
    ASSUME setup' = setup, router'.sources = NoSources, held' = {}, DOMAIN active' = {}
    PROVE  MatchInv'
<1>1. Matched(router', {}, active') /\ Told(router')
  BY NothingMatches
<1> QED BY <1>1 DEF MatchInv, CapturesOnly, Matched, Told

LEMMA EmptySources ==
    ASSUME NEW r, Shaped(r), \A a \in Actions : r.sources[a] = {}
    PROVE  r.sources = NoSources
BY DEF Shaped, RouterWith, NoSources

\* A tick after other methods.
LEMMA TickAfter ==
    ASSUME NEW r, NEW p, Shaped(p), Keeps(r, p), NEW due
    PROVE  LET q == Tick(p, due) IN
           /\ Keeps(r, q) /\ q.sources = p.sources /\ q.bindings = p.bindings
           /\ Told(q)
<1> DEFINE q == Tick(p, due)
<1>1. /\ Keeps(p, q) /\ q.sources = p.sources /\ q.bindings = p.bindings
      /\ \A b \in DOMAIN p.bindings \cap Buttons :
            ~p.bindings[b].turbo /\ ~p.bindings[b].toggle /\ p.sources[b] # {}
               => q.applied[b] = "down"
  BY TickKeeps
<1> HIDE DEF q
<1>2. Keeps(r, q)
  BY <1>1 DEF Keeps
<1>3. Told(q)
  BY <1>1 DEF Told
<1> QED BY <1>1, <1>2, <1>3 DEF q

\* A pad that is pulled out takes its sources along.
LEMMA DisconnectKept ==
    ASSUME DInv, NEW i \in Pads, Disconnect(i), setup' = setup
    PROVE  Kept
<1>1. /\ connected' \subseteq connected
      /\ UNCHANGED <<running, held, listening, config, capture, spent, keysDown>>
  BY DEF Disconnect, Unplug
<1>2. CASE running
  <2> DEFINE p == ReleasePad(router, i)
  <2>1. /\ \E due : router' = Tick(p, due)
        /\ active' = [j \in DOMAIN active \ {i} |-> active[j]]
    BY <1>2 DEF Disconnect
  <2>2. Shaped(router)
    BY DEF DInv, RouterInv
  <2>3. /\ Keeps(router, p) /\ p.bindings = router.bindings
        /\ \A a \in Actions : p.sources[a] = router.sources[a] \ PadSources(i)
    BY <2>2, DropKeeps DEF ReleasePad
  <2> HIDE DEF p
  <2>4. /\ Keeps(router, router') /\ router'.sources = p.sources /\ router'.bindings = p.bindings
        /\ Told(router')
    <3>1. Shaped(p)
      BY <2>3 DEF Keeps
    <3> QED BY <2>1, <2>3, <3>1, TickAfter
  <2>5. DeviceInv'
    BY <1>1, <2>1 DEF DInv, DeviceInv
  <2>6. RouterInv'
    BY <1>1, <1>2, <2>2, <2>4, RouterKept
  <2>7. MatchInv'
    <3>1. ASSUME CapturesOnly PROVE Matched(router', held', active')
      <4>1. Matched(router, held, active)
        BY <3>1 DEF DInv, MatchInv
      <4>2. Matched(p, held, active')
        BY <2>1, <2>3, <4>1, UnplugMatches
      <4> QED BY <1>1, <2>4, <4>2, SameMatches
    <3> QED BY <2>4, <3>1 DEF MatchInv, CapturesOnly, Matched, Told
  <2> QED BY <2>5, <2>6, <2>7 DEF Kept
<1>3. CASE ~running
  <2>1. UNCHANGED <<router, active>>
    BY <1>3 DEF Disconnect
  <2>2. connected \subseteq Pads /\ spent \subseteq keysDown
    BY DEF DInv, DeviceInv
  <2> QED BY <1>1, <2>1, <2>2, QuietKept
<1> QED BY <1>2, <1>3

\* Blur, or a hidden tab: nothing is asserted any more.
LEMMA LeaveKept ==
    ASSUME DInv, NEW to, Leave(to), setup' = setup
    PROVE  Kept
<1>1. UNCHANGED <<running, listening, keysDown, connected, capture, spent>>
  BY DEF Leave, settings
<1>2. CASE running
  <2> DEFINE p == ReleaseHeld(router)
             x == ReleaseAll(p)
  <2>1. router' = Tick(x, {}) /\ held' = {} /\ active' = << >>
    BY <1>2 DEF Leave
  <2>2. Shaped(router)
    BY DEF DInv, RouterInv
  <2>3. Keeps(router, p)
    BY <2>2, ReleaseHeldKeeps
  <2> HIDE DEF p
  <2>4. Shaped(p) /\ Keeps(p, x) /\ x.sources = NoSources
    BY <2>3, ReleaseAllKeeps DEF Keeps
  <2> HIDE DEF x
  <2>5. Shaped(x) /\ Keeps(router, x)
    BY <2>3, <2>4 DEF Keeps
  <2>6. Keeps(router, router') /\ router'.sources = NoSources
    BY <2>1, <2>4, <2>5, TickAfter
  <2>7. DOMAIN active' = {}
    BY <2>1
  <2>8. DeviceInv'
    BY <1>1, <2>1, <2>7 DEF DInv, DeviceInv
  <2>9. RouterInv'
    BY <1>1, <1>2, <2>2, <2>6, RouterKept
  <2>10. MatchInv'
    BY <2>1, <2>6, <2>7, EmptyMatches
  <2> QED BY <2>8, <2>9, <2>10 DEF Kept
<1>3. CASE ~running
  <2>1. UNCHANGED <<router, held, active>>
    BY <1>3 DEF Leave
  <2>2. connected \subseteq Pads /\ spent \subseteq keysDown
    BY DEF DInv, DeviceInv
  <2> QED BY <1>1, <2>1, <2>2, QuietKept
<1> QED BY <1>2, <1>3

\* A game starts with nothing asserted.
LEMMA StartKept ==
    ASSUME DInv, NEW c \in Cores, Start(c), setup' = setup
    PROVE  Kept
<1> DEFINE p == SetCore(router, c, setup.system = "nds")
<1>1. /\ ~running /\ running' = TRUE /\ router' = SetBindings(p, config)
      /\ listening' = (listening \/ setup.system = "nds")
      /\ UNCHANGED <<held, active, keysDown, connected, capture, spent>>
  BY DEF Start, world, settings
<1>2. Shaped(router) /\ router.sources = NoSources /\ IsSystemBindings(config)
  BY <1>1 DEF DInv, RouterInv, ConfigInv
<1>3. /\ Shaped(p) /\ (Agrees(router) => Agrees(p)) /\ p.core = c /\ p.sources = NoSources
  <2> DEFINE hears == setup.system = "nds"
  <2>1. hears \in BOOLEAN /\ p = SetCore(router, c, hears)
    OBVIOUS
  <2> HIDE DEF hears, p
  <2> QED BY <1>2, <2>1, SetCoreKeeps
<1> HIDE DEF p
<1>4. /\ Keeps(p, router')
      /\ \A a \in Actions : router'.sources[a] = IF a \in DOMAIN config THEN p.sources[a] ELSE {}
  BY <1>1, <1>2, <1>3, SetBindingsKeeps
<1>5. router'.sources = NoSources
  <2>1. Shaped(router')
    BY <1>4 DEF Keeps
  <2>2. \A a \in Actions : router'.sources[a] = {}
    BY <1>3, <1>4 DEF NoSources
  <2> QED BY <2>1, <2>2, EmptySources
<1>6. held = {} /\ DOMAIN active = {}
  BY <1>1 DEF DInv, DeviceInv
<1>7. DeviceInv'
  BY <1>1, <1>6 DEF DInv, DeviceInv
<1>8. RouterInv'
  <2>1. setup.system = "gba" => ~listening' /\ Agrees(p)
    BY <1>1, <1>3 DEF DInv, RouterInv
  <2>2. Shaped(router') /\ (Agrees(p) => Agrees(router')) /\ router'.core = c
    BY <1>3, <1>4 DEF Keeps
  <2>3. Shaped(router)' /\ (Agrees(router)' <=> Agrees(router'))
    BY <2>2 DEF Shaped, RouterWith, Agrees, AppliedDown, IsSystemBindings
  <2> QED BY <1>1, <2>1, <2>2, <2>3 DEF RouterInv
<1>9. MatchInv'
  BY <1>1, <1>5, <1>6, EmptyMatches
<1> QED BY <1>7, <1>8, <1>9 DEF Kept

\* A game ends with nothing asserted.
LEMMA StopKept ==
    ASSUME DInv, Stop, setup' = setup
    PROVE  Kept
<1> DEFINE p == ReleaseAll(Quitting)
           x == ReleaseHeld(p)
           y == ReleaseAllPads(x)
<1>1. /\ running' = FALSE /\ router' = SetCore(y, NoCore, FALSE) /\ held' = {} /\ active' = << >>
      /\ UNCHANGED <<listening, keysDown, connected, capture, spent>>
  BY DEF Stop, world, settings
<1>2. Shaped(router)
  BY DEF DInv, RouterInv
<1>3. Keeps(router, p) /\ p.sources = NoSources
  <2>1. Keeps(router, Quitting)
    BY <1>2, GameGoneKeeps DEF Quitting, Keeps
  <2>2. Shaped(Quitting)
    BY <2>1 DEF Keeps
  <2>3. Keeps(Quitting, p) /\ p.sources = NoSources
    BY <2>2, ReleaseAllKeeps
  <2> HIDE DEF p
  <2> QED BY <2>1, <2>3 DEF Keeps
<1>4. Shaped(p)
  BY <1>3 DEF Keeps
<1> HIDE DEF p
<1>5. /\ Keeps(p, x)
      /\ \A a \in Actions :
            x.sources[a] = {s \in p.sources[a] : ~(s \in held /\ a \in ActionsFor(s))}
  BY <1>4, ReleaseHeldKeeps
<1>6. Shaped(x) /\ \A a \in Actions : x.sources[a] = {}
  BY <1>3, <1>5 DEF Keeps, NoSources
<1> HIDE DEF x
<1>7. /\ Keeps(x, y)
      /\ \A a \in Actions :
            y.sources[a] = x.sources[a] \ UNION {PadSources(i) : i \in DOMAIN active}
  BY <1>6, ReleaseAllPadsKeeps
<1>8. Shaped(y) /\ y.sources = NoSources
  <2>1. Shaped(y) /\ \A a \in Actions : y.sources[a] = {}
    BY <1>6, <1>7 DEF Keeps
  <2> QED BY <2>1, EmptySources
<1> HIDE DEF y
<1>9. /\ Shaped(router') /\ (Agrees(y) => Agrees(router')) /\ router'.sources = NoSources
  BY <1>1, <1>8, SetCoreKeeps
<1>10. DOMAIN active' = {}
  BY <1>1
<1>11. DeviceInv'
  BY <1>1, <1>10 DEF DInv, DeviceInv
<1>12. RouterInv'
  <2>1. setup.system = "gba" => ~listening' /\ Agrees(router')
    BY <1>1, <1>3, <1>5, <1>7, <1>9 DEF DInv, RouterInv, Keeps
  <2>2. Shaped(router)' /\ (Agrees(router)' <=> Agrees(router'))
    BY <1>9 DEF Shaped, RouterWith, Agrees, AppliedDown, IsSystemBindings
  <2> QED BY <1>1, <1>9, <2>1, <2>2 DEF RouterInv
<1>13. MatchInv'
  BY <1>1, <1>9, <1>10, EmptyMatches
<1> QED BY <1>11, <1>12, <1>13 DEF Kept

\* The game of a mounted view arrives: nothing that is asserted or held changes.
LEMMA ModuleArrivesKept ==
    ASSUME DInv, ModuleArrives, setup' = setup
    PROVE  Kept
<1>1. /\ running /\ ~router.hears /\ router' = GameReady(router)
      /\ UNCHANGED <<running, held, active, listening, capture, spent, keysDown, connected>>
  BY DEF ModuleArrives, settings, world, devices
<1>2. Shaped(router)
  BY DEF DInv, RouterInv
<1>3. /\ Keeps(router, router') /\ router'.sources = router.sources
      /\ router'.bindings = router.bindings /\ router'.applied = router.applied
  BY <1>1, <1>2, GameReadyKeeps
<1>4. DeviceInv'
  BY <1>1 DEF DInv, DeviceInv
<1>5. RouterInv'
  BY <1>1, <1>2, <1>3, RouterKept
<1>6. MatchInv'
  BY <1>1, <1>3 DEF DInv, MatchInv, CapturesOnly, Matched, Told
<1> QED BY <1>4, <1>5, <1>6 DEF Kept

\* Suspending both devices retracts whatever either of them asserts.
LEMMA StartCaptureKept ==
    ASSUME DInv, StartCapture, setup' = setup
    PROVE  Kept
<1> DEFINE p == ReleaseHeld(router)
<1>1. /\ router' = ReleaseAllPads(p) /\ held' = {} /\ active' = << >>
      /\ UNCHANGED <<running, listening, keysDown, connected, spent>>
  BY DEF StartCapture
<1>2. Shaped(router)
  BY DEF DInv, RouterInv
<1>3. /\ Keeps(router, p)
      /\ \A a \in Actions :
            p.sources[a] = {s \in router.sources[a] : ~(s \in held /\ a \in ActionsFor(s))}
  BY <1>2, ReleaseHeldKeeps
<1>4. Shaped(p)
  BY <1>3 DEF Keeps
<1> HIDE DEF p
<1>5. /\ Keeps(p, router')
      /\ \A a \in Actions :
            router'.sources[a] = p.sources[a] \ UNION {PadSources(i) : i \in DOMAIN active}
  BY <1>1, <1>4, ReleaseAllPadsKeeps
<1>6. Shaped(router') /\ Keeps(router, router')
  BY <1>3, <1>5 DEF Keeps
<1>7. DOMAIN active' = {}
  BY <1>1
<1>8. ~running => router'.sources = NoSources
  <2>1. ~running => \A a \in Actions : router'.sources[a] = {}
    BY <1>3, <1>5 DEF DInv, RouterInv, NoSources
  <2> QED BY <1>6, <2>1, EmptySources
<1>9. CapturesOnly => router'.sources = NoSources
  <2>1. SUFFICES ASSUME CapturesOnly, NEW a \in Actions, NEW s \in router'.sources[a]
                 PROVE  FALSE
    BY <1>6, EmptySources
  <2>2. /\ s \in router.sources[a] /\ ~(s \in held /\ a \in ActionsFor(s))
        /\ \A i \in DOMAIN active : s \notin PadSources(i)
    BY <1>3, <1>5
  <2>3. Matched(router, held, active)
    BY <2>1 DEF DInv, MatchInv
  <2>4. s \in Sources
    BY <1>2, <2>2 DEF Shaped, RouterWith
  <2>5. CASE s \in Keys
    BY <2>2, <2>3, <2>5 DEF Matched, ActionsFor
  <2>6. ASSUME NEW i \in Pads, NEW c \in PadControls, s = <<i, c>> PROVE FALSE
    BY <2>2, <2>3, <2>6 DEF Matched, PadSources
  <2> QED BY <2>4, <2>5, <2>6, SourceIs
<1>10. DeviceInv'
  BY <1>1, <1>7 DEF DInv, DeviceInv
<1>11. RouterInv'
  BY <1>1, <1>2, <1>6, <1>8, RouterKept
<1>12. MatchInv'
  <2>1. CASE CapturesOnly
    BY <1>1, <1>7, <1>9, <2>1, EmptyMatches
  <2>2. CASE ~CapturesOnly
    BY <2>2 DEF MatchInv, CapturesOnly
  <2> QED BY <2>1, <2>2
<1> QED BY <1>10, <1>11, <1>12 DEF Kept

\* A new map reaches a router that is running.
LEMMA SetConfigKept ==
    ASSUME DInv, setup' = setup, ConfigInv', NEW map, SetConfig(map),
           UNCHANGED <<devices, running>>
    PROVE  RouterInv' /\ (router.sources = NoSources => router'.sources = NoSources)
<1>1. config' = map /\ router' = (IF running THEN SetBindings(router, map) ELSE router)
  BY DEF SetConfig
<1>2. Shaped(router) /\ IsSystemBindings(map)
  BY <1>1 DEF DInv, RouterInv, ConfigInv
<1>3. Keeps(router, router') /\ (router.sources = NoSources => router'.sources = NoSources)
  <2>1. CASE running
    <3>1. /\ Keeps(router, router')
          /\ \A a \in Actions :
                router'.sources[a] = IF a \in DOMAIN map THEN router.sources[a] ELSE {}
      BY <1>1, <1>2, <2>1, SetBindingsKeeps
    <3>2. Shaped(router')
      BY <3>1 DEF Keeps
    <3>3. router.sources = NoSources => \A a \in Actions : router'.sources[a] = {}
      BY <3>1 DEF NoSources
    <3> QED BY <3>1, <3>2, <3>3, EmptySources
  <2>2. CASE ~running
    BY <1>1, <1>2, <2>2 DEF Keeps
  <2> QED BY <2>1, <2>2
<1>4. ~running => router'.sources = NoSources
  BY <1>3 DEF DInv, RouterInv
<1> QED BY <1>2, <1>3, <1>4, RouterKept DEF devices

\* A capture ends where nothing is held, so that the map changes under nobody.
LEMMA CapturedKept ==
    ASSUME DInv, setup' = setup, ConfigInv', capture # "no", NEW map, SetConfig(map),
           UNCHANGED <<devices, running>>
    PROVE  RouterInv' /\ MatchInv'
<1>1. held = {} /\ DOMAIN active = {} /\ Shaped(router)
  BY DEF DInv, DeviceInv, RouterInv
<1>2. RouterInv' /\ (router.sources = NoSources => router'.sources = NoSources)
  BY SetConfigKept
<1>3. CASE CapturesOnly
  <2>1. router.sources = NoSources
    BY <1>1, <1>3, MatchedNothing DEF DInv, MatchInv
  <2>2. held' = {} /\ DOMAIN active' = {}
    BY <1>1 DEF devices
  <2> QED BY <1>2, <2>1, <2>2, EmptyMatches
<1>4. CASE ~CapturesOnly
  BY <1>2, <1>4 DEF MatchInv, CapturesOnly
<1> QED BY <1>3, <1>4

LEMMA CaptureKeyKept ==
    ASSUME DInv, NEW k \in Keys, CaptureKey(k), setup' = setup, ConfigInv'
    PROVE  Kept
<1>1. PICK map : SetConfig(map)
  BY DEF CaptureKey
<1>2. /\ capture # "no" /\ capture' = "no"
      /\ keysDown' = keysDown \cup {k} /\ spent' = spent \cup {k}
      /\ UNCHANGED <<devices, running, connected>>
  BY DEF CaptureKey
<1>3. DeviceInv'
  BY <1>2 DEF DInv, DeviceInv, devices
<1> QED BY <1>1, <1>2, <1>3, CapturedKept DEF Kept

\* A key that a capture drops was held by nobody and is held by nobody.
LEMMA SwallowKeyKept ==
    ASSUME DInv, NEW k \in Keys, SwallowKey(k), setup' = setup
    PROVE  Kept
<1>1. /\ capture # "no" /\ keysDown' = keysDown \cup {k} /\ spent' = spent \cup {k}
      /\ UNCHANGED <<router, running, held, active, listening, capture, connected>>
  BY DEF SwallowKey, devices
<1>2. DeviceInv'
  BY <1>1 DEF DInv, DeviceInv
<1>3. RouterInv'
  BY <1>1 DEF DInv, RouterInv, Shaped, Agrees, AppliedDown
<1>4. MatchInv'
  BY <1>1 DEF DInv, MatchInv, CapturesOnly, Matched, Told
<1> QED BY <1>2, <1>3, <1>4 DEF Kept

LEMMA CapturePadKept ==
    ASSUME DInv, NEW i \in Pads, NEW c \in PadControls, CapturePad(i, c),
           setup' = setup, ConfigInv'
    PROVE  Kept
<1>1. PICK map : SetConfig(map)
  BY DEF CapturePad
<1>2. /\ capture # "no" /\ capture' = "no"
      /\ UNCHANGED <<devices, running, spent, keysDown, connected>>
  BY DEF CapturePad, world
<1>3. DeviceInv'
  BY <1>2 DEF DInv, DeviceInv, devices
<1> QED BY <1>1, <1>2, <1>3, CapturedKept DEF Kept

\* The other changes of the map need a setup that allows them.
LEMMA EditMapKept ==
    ASSUME DInv, EditMap, setup' = setup, ConfigInv'
    PROVE  Kept
<1>1. PICK map : SetConfig(map)
  BY DEF EditMap
<1>2. UNCHANGED <<devices, running, capture, spent, keysDown, connected>>
  BY DEF EditMap, world
<1>3. ~CapturesOnly
  BY DEF EditMap, CapturesOnly
<1>4. DeviceInv'
  BY <1>2 DEF DInv, DeviceInv, devices
<1>5. RouterInv'
  BY <1>1, <1>2, SetConfigKept
<1>6. MatchInv'
  BY <1>3 DEF MatchInv, CapturesOnly
<1> QED BY <1>4, <1>5, <1>6 DEF Kept

\* A frame polls the pads, unless a capture is on, and ticks.
LEMMA FrameKept ==
    ASSUME DInv, AnimationFrame, setup' = setup
    PROVE  Kept
<1>1. running /\ UNCHANGED <<running, held, listening, capture, spent, keysDown, connected>>
  BY DEF AnimationFrame, settings, world
<1>2. Shaped(router)
  BY DEF DInv, RouterInv
<1>3. CASE capture # "no"
  <2>1. active' = active /\ \E due : router' = Tick(router, due)
    BY <1>3 DEF AnimationFrame
  <2>2. Keeps(router, router)
    BY <1>2 DEF Keeps
  <2>3. /\ Keeps(router, router') /\ router'.sources = router.sources
        /\ router'.bindings = router.bindings /\ Told(router')
    BY <1>2, <2>1, <2>2, TickAfter
  <2>4. DeviceInv'
    BY <1>1, <2>1 DEF DInv, DeviceInv
  <2>5. RouterInv'
    BY <1>1, <1>2, <2>3, RouterKept
  <2>6. MatchInv'
    <3>1. CapturesOnly => Matched(router', held', active')
      BY <1>1, <2>1, <2>3, SameMatches DEF DInv, MatchInv
    <3> QED BY <2>3, <3>1 DEF MatchInv, CapturesOnly, Matched, Told
  <2> QED BY <2>4, <2>5, <2>6 DEF Kept
<1>4. CASE capture = "no"
  <2> DEFINE p == [router EXCEPT !.sources = PolledSources(router)]
  <2>1. active' = [i \in connected |-> padDown[i]] /\ \E due : router' = Tick(p, due)
    BY <1>4 DEF AnimationFrame
  <2>2. connected \subseteq Pads /\ DOMAIN active \subseteq Pads /\ held \subseteq Keys
    BY DEF DInv, DeviceInv
  <2>3. PolledSources(router) \in [Actions -> SUBSET Sources]
    BY <1>2, <2>2, PolledAreSources
  <2>4. Keeps(router, p) /\ p.sources = PolledSources(router) /\ p.bindings = router.bindings
    BY <1>2, <2>3, SourcesKeeps
  <2> HIDE DEF p
  <2>5. /\ Keeps(router, router') /\ router'.sources = p.sources /\ router'.bindings = p.bindings
        /\ Told(router')
    <3>1. Shaped(p)
      BY <2>4 DEF Keeps
    <3> QED BY <2>1, <2>4, <3>1, TickAfter
  <2>6. DeviceInv'
    <3>1. DOMAIN active' = connected
      BY <2>1
    <3> QED BY <1>1, <1>4, <2>2, <3>1 DEF DInv, DeviceInv
  <2>7. RouterInv'
    BY <1>1, <1>2, <2>5, RouterKept
  <2>8. MatchInv'
    <3>1. ASSUME CapturesOnly PROVE Matched(router', held', active')
      <4>1. Matched(router, held, active)
        BY <3>1 DEF DInv, MatchInv
      <4>2. Matched(p, held, active')
        BY <1>2, <2>1, <2>2, <2>4, <4>1, PollMatches
      <4> QED BY <1>1, <2>5, <4>2, SameMatches
    <3> QED BY <2>5, <3>1 DEF MatchInv, CapturesOnly, Matched, Told
  <2> QED BY <2>6, <2>7, <2>8 DEF Kept
<1> QED BY <1>3, <1>4

----------------------------------------------------------------------------
LEMMA InitDInv == DInit => DInv
<1> SUFFICES ASSUME DInit PROVE DInv
  OBVIOUS
<1>1. ConfigInv
  BY LayoutsAreFine, SetupsAssumption DEF DInit, ConfigInv
<1>2. router = Fresh(config) /\ DOMAIN active = {} /\ held = {}
  BY DEF DInit
<1>3. Shaped(router) /\ Agrees(router) /\ router.sources = NoSources
  BY <1>1, <1>2, FreshShaped DEF ConfigInv
<1>4. DeviceInv
  BY <1>2 DEF DInit, DeviceInv
<1>5. RouterInv
  BY <1>3 DEF DInit, RouterInv
<1>6. MatchInv
  BY <1>2, <1>3, NothingMatches DEF MatchInv
<1> QED BY <1>1, <1>4, <1>5, <1>6 DEF DInv

LEMMA StepDInv == ASSUME DInv, [DNext]_allVars PROVE DInv'
<1>0. setup' = setup
  BY DEF DNext, allVars
<1>1. ConfigInv'
  BY ConfigStep DEF DInv
<1>2. ASSUME Physical PROVE Kept
  BY <1>0, <1>2, PhysicalKept
<1>3. ASSUME Handlers PROVE Kept
  BY <1>0, <1>3, KeyDownKept, KeyRepeatKept, KeyUpKept, DisconnectKept, LeaveKept,
     StartKept, ModuleArrivesKept, StopKept DEF Handlers
<1>4. ASSUME Editing PROVE Kept
  <2>1. CASE CancelCapture
    <3>1. /\ UNCHANGED <<router, running, held, active, listening, connected, spent, keysDown>>
          /\ capture' = "no"
      BY <2>1 DEF CancelCapture, devices, world
    <3>2. connected \subseteq Pads /\ spent \subseteq keysDown
      BY DEF DInv, DeviceInv
    <3> QED BY <1>0, <3>1, <3>2, QuietKept
  <2>2. CASE StartCapture \/ EditMap
    BY <1>0, <1>1, <2>2, StartCaptureKept, EditMapKept
  <2>3. CASE \/ \E k \in Keys : CaptureKey(k) \/ SwallowKey(k)
             \/ \E i \in Pads, c \in PadControls : CapturePad(i, c)
    BY <1>0, <1>1, <2>3, CaptureKeyKept, SwallowKeyKept, CapturePadKept
  <2> QED BY <1>4, <2>1, <2>2, <2>3 DEF Editing
<1>5. ASSUME AnimationFrame PROVE Kept
  BY <1>0, <1>5, FrameKept
<1>6. ASSUME UNCHANGED allVars PROVE Kept
  <2>1. UNCHANGED <<router, running, held, active, listening, capture, connected, spent, keysDown>>
    BY <1>6 DEF allVars, world, devices, settings
  <2>2. connected \subseteq Pads /\ spent \subseteq keysDown
    BY DEF DInv, DeviceInv
  <2> QED BY <1>0, <2>1, <2>2, QuietKept
<1>7. Kept
  BY <1>2, <1>3, <1>4, <1>5, <1>6 DEF DNext
<1> QED BY <1>1, <1>7 DEF DInv, Kept

\* What the handlers of keyboard.ts, gamepad.ts, index.ts and the controls page
\* keep among them: while the map changes by captures, the router asserts
\* exactly what the devices hold.
THEOREM DesktopInv == DSpec => []DInv
BY InitDInv, StepDInv, PTL DEF DSpec

\* router.ts: no source outlives the device's own hold on it, whatever presses,
\* unplugging, blur, captures and unmounts came between.
THEOREM DesktopNoOrphanSources == DSpec => []NoOrphanSources
<1>1. ASSUME DInv PROVE NoOrphanSources
  <2>1. SUFFICES ASSUME CapturesOnly, NEW a \in Actions, NEW s \in router.sources[a]
                 PROVE  DeviceHolds(s)
    BY DEF NoOrphanSources
  <2>2. s \in Sources /\ Matched(router, held, active)
    BY <1>1, <2>1 DEF DInv, RouterInv, MatchInv, Shaped, RouterWith
  <2>3. CASE s \in Keys
    BY <2>2, <2>3 DEF Matched, DeviceHolds
  <2>4. ASSUME NEW i \in Pads, NEW c \in PadControls, s = <<i, c>> PROVE DeviceHolds(s)
    BY <2>2, <2>4, SourceIs DEF Matched, DeviceHolds, Tracked
  <2> QED BY <2>2, <2>3, <2>4, SourceIs
<1> QED BY <1>1, DesktopInv, PTL

\* index.ts: the key that was pressed to make a binding asserts nothing until
\* it has come up.
THEOREM DesktopSpentKeyIsSilent == DSpec => []SpentKeyIsSilent
<1>1. ASSUME DInv PROVE SpentKeyIsSilent
  BY <1>1 DEF DInv, DeviceInv, MatchInv, Matched, SpentKeyIsSilent
<1> QED BY <1>1, DesktopInv, PTL

\* router.ts: the core of a game that nothing else writes holds what the router
\* recorded since its boot, with the devices and the handlers of index.ts around
\* the router; without its game it holds nothing.
THEOREM DesktopRouterAgrees == DSpec => []RouterAgrees
<1>1. ASSUME DInv PROVE RouterAgrees
  BY <1>1 DEF DInv, RouterInv, Agrees, RouterAgrees, Alone, CoreAgrees
<1> QED BY <1>1, DesktopInv, PTL

\* router.ts: once the game is there, a button without turbo and hold-toggle is
\* down in the core as long as one of its controls is held, however many come and
\* go beside it, unless it was pressed during the boot and not told since.
THEOREM DesktopHeldMeansDown == DSpec => []HeldMeansDown
<1>1. ASSUME DInv PROVE HeldMeansDown
  <2>1. SUFFICES ASSUME Alone, running, router.hears, NEW b \in Buttons, Plain(b),
                        NEW s \in Holders(b), b \notin router.missed
                 PROVE  b \in router.pressed[router.core]
    BY DEF HeldMeansDown
  <2>2. Matched(router, held, active) /\ Told(router) /\ Agrees(router) /\ router.core \in Cores
    BY <1>1, <2>1 DEF DInv, RouterInv, MatchInv, Alone
  <2>3. b \in Actions
    BY DEF Actions
  <2>4. s \in router.sources[b]
    <3>1. s \in Sources /\ DeviceHolds(s) /\ b \in ActionsFor(IF s \in Keys THEN s ELSE s[2])
      BY DEF Holders
    <3>2. CASE s \in Keys
      BY <2>2, <2>3, <3>1, <3>2 DEF Matched, DeviceHolds, ActionsFor
    <3>3. ASSUME NEW i \in Pads, NEW c \in PadControls, s = <<i, c>>
          PROVE  s \in router.sources[b]
      <4>1. s \notin Keys /\ s[1] = i /\ s[2] = c
        BY <3>3, SourceIs
      <4>2. c \in Tracked(i) /\ b \in ActionsForSlot(router.bindings, c)
        BY <3>1, <4>1 DEF DeviceHolds, ActionsFor
      <4>3. i \in DOMAIN active /\ c \in active[i]
        BY <4>2 DEF Tracked
      <4> QED BY <2>2, <2>3, <3>3, <4>2, <4>3 DEF Matched
    <3> QED BY <3>1, <3>2, <3>3, SourceIs
  <2>5. router.applied[b] = "down"
    BY <2>1, <2>2, <2>4 DEF Told, Plain
  <2> QED BY <2>1, <2>2, <2>5 DEF Agrees, AppliedDown
<1> QED BY <1>1, DesktopInv, PTL

\* webmelon.js: the flag is set from what the pad source saw, and whatever
\* makes the pad source forget that clears the flag.
THEOREM DesktopPadFlagIsLive == DSpec => []PadFlagIsLive
<1>1. DInit => PadFlagIsLive
  BY DEF DInit, PadFlagIsLive
<1>2. ASSUME PadFlagIsLive, [DNext]_allVars PROVE PadFlagIsLive'
  <2>1. CASE Physical
    BY <1>2, <2>1 DEF Physical, KeyElsewhere, PadPress, Connect, Vanish, Return, MoveFocus,
       program, devices, PadFlagIsLive
  <2>2. CASE Handlers
    BY <1>2, <2>2 DEF Handlers, KeyDown, KeyRepeat, KeyUp, Disconnect, Leave, Start,
       ModuleArrives, Stop, devices, UsingPadAfterKey, PadFlagIsLive
  <2>3. CASE Editing
    BY <1>2, <2>3 DEF Editing, StartCapture, CancelCapture, EditMap, CaptureKey, SwallowKey,
       CapturePad, devices, PadFlagIsLive
  <2>4. CASE AnimationFrame
    BY <1>2, <2>4 DEF AnimationFrame, PadFlagIsLive
  <2>5. CASE UNCHANGED allVars
    BY <1>2, <2>5 DEF allVars, devices, PadFlagIsLive
  <2> QED BY <1>2, <2>1, <2>2, <2>3, <2>4, <2>5 DEF DNext
<1> QED BY <1>1, <1>2, PTL DEF DSpec

\* keyboard.ts: while the focus is in a text field, no key that goes down presses
\* anything in a core, be it played, taken by a capture or meant for another window.
THEOREM DesktopTypingPressesNothing == DSpec => TypingPressesNothing
<1>1. ASSUME DInv, [DNext]_allVars
      PROVE  [\A k \in Keys :
                 Alone /\ typing /\ k \in keysDown' \ keysDown
                    => \A c \in Cores : router'.pressed[c] \subseteq router.pressed[c]]_allVars
  <2>1. SUFFICES ASSUME DNext, NEW k \in Keys, Alone, typing, k \in keysDown', k \notin keysDown
                 PROVE  router'.pressed = router.pressed
    BY <1>1
  <2>2. ~listening /\ Shaped(router)
    BY <1>1, <2>1 DEF DInv, RouterInv, Alone
  <2>3. CASE Physical
    BY <2>3 DEF Physical, KeyElsewhere, PadPress, Connect, Vanish, Return, MoveFocus, program
  <2>4. ASSUME NEW j \in Keys, KeyDown(j) PROVE router' = router
    BY <2>1, <2>2, <2>4 DEF KeyDown, WebMelonKeyDown
  <2>5. CASE Handlers
    <3>1. \E j \in Keys : KeyDown(j)
      BY <2>1, <2>5 DEF Handlers, KeyRepeat, KeyUp, Disconnect, Unplug, Leave, Start,
         ModuleArrives, Stop, world
    <3> QED BY <2>4, <3>1
  <2>6. CASE Editing
    <3>1. \E j \in Keys : CaptureKey(j) \/ SwallowKey(j)
      BY <2>1, <2>6 DEF Editing, StartCapture, CancelCapture, EditMap, CapturePad, world
    <3>2. (\E j \in Keys : SwallowKey(j)) => router' = router
      BY DEF SwallowKey
    <3>3. ASSUME NEW j \in Keys, CaptureKey(j) PROVE router'.pressed = router.pressed
      <4>1. PICK map : SetConfig(map)
        BY <3>3 DEF CaptureKey
      <4>2. router' = router \/ router' = SetBindings(router, map)
        BY <4>1 DEF SetConfig
      <4>3. SetBindings(router, map).pressed = router.pressed
        BY <2>2 DEF SetBindings, Shaped, RouterWith
      <4> QED BY <4>2, <4>3
    <3> QED BY <3>1, <3>2, <3>3
  <2>7. CASE AnimationFrame
    BY <2>1, <2>7 DEF AnimationFrame, world
  <2> QED BY <2>1, <2>3, <2>5, <2>6, <2>7 DEF DNext
<1> QED BY <1>1, DesktopInv, PTL DEF DSpec, TypingPressesNothing

=============================================================================
