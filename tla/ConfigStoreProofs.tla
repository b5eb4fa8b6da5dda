------------------------- MODULE ConfigStoreProofs -------------------------
(***************************************************************************)
(* What a load brings back, for any keys, names, layouts and files: the    *)
(* types of the two stores, the slots of a stored map, the keys of an      *)
(* earlier build, and the primaries of a map that nobody has edited.       *)
(***************************************************************************)
EXTENDS ConfigStore, WellFoundedInduction, TLAPS

FullMaps == [Actions -> ActionBinding]

----------------------------------------------------------------------------
(* The SDK's copy.                                                         *)

\* Of the elements of a set one has the least rank.
LEMMA LeastRank ==
    ASSUME NEW S \in SUBSET Buttons, S # {}
    PROVE  \E b \in S : \A c \in S : Rank[b] <= Rank[c]
<1> DEFINE T    == {Rank[b] : b \in S}
           Less == OpToRel(<, Nat)
<1>1. T \subseteq Nat /\ T # {}
  BY NamesAssumption
<1>2. \A x, y \in Nat : <<x, y>> \in Less <=> x < y
  BY DEF OpToRel
<1>3. IsWellFoundedOn(Less, Nat)
  BY NatLessThanWellFounded, Zenon
<1> HIDE DEF Less
<1>4. PICK m \in T : \A y \in T : ~(<<y, m>> \in Less)
  <2> HIDE DEF T
  <2> QED BY <1>1, <1>3, WFMin, Zenon
<1>5. PICK b \in S : Rank[b] = m
  BY <1>4
<1>6. ASSUME NEW c \in S
      PROVE  Rank[b] <= Rank[c]
  <2>1. Rank[c] \in T /\ Rank[c] \in Nat /\ m \in Nat
    BY <1>1, <1>4
  <2>2. ~(Rank[c] < m)
    BY <1>2, <1>4, <2>1
  <2> QED BY <1>5, <2>1, <2>2
<1> QED BY <1>6

\* A name that is told belongs to a button.
LEMMA HolderIsButton ==
    ASSUME NEW map, NEW n, HoldersOf(map, n) # {}
    PROVE  HolderOf(map, n) \in Buttons
<1>1. HoldersOf(map, n) \in SUBSET Buttons
  BY DEF HoldersOf
<1>2. \E b \in HoldersOf(map, n) : \A c \in HoldersOf(map, n) : Rank[b] <= Rank[c]
  BY <1>1, LeastRank
<1>3. HolderOf(map, n) \in HoldersOf(map, n)
  BY <1>2 DEF HolderOf
<1> QED BY <1>1, <1>3

\* What is mirrored has the form that the SDK's settings have.
LEMMA MirrorIsSettings ==
    ASSUME NEW map \in FullMaps
    PROVE  IsSettings(MirrorDsBindings(map))
<1> DEFINE m == MirrorDsBindings(map)
<1>1. DOMAIN m.keys \subseteq Names
  BY DEF MirrorDsBindings
<1>2. ASSUME NEW n \in DOMAIN m.keys
      PROVE  m.keys[n] \in Buttons
  <2>1. HoldersOf(map, n) # {} /\ m.keys[n] = HolderOf(map, n)
    BY DEF MirrorDsBindings
  <2> QED BY <2>1, HolderIsButton
<1>3. ASSUME NEW b \in Buttons, NEW s \in KeySlots
      PROVE  ToldName(map, b, s) \in Names \cup {Unbound}
  BY NamesAssumption DEF ToldName
<1>4. m.alternates \subseteq Names
  BY <1>3 DEF MirrorDsBindings, ToldAlternates, KeySlots
<1>5. ASSUME NEW b \in DOMAIN m.pads
      PROVE  m.pads[b] \in Seq(PadButtons)
  <2>1. m.pads[b] = PadIndex(map[b].slot["padPrimary"]) \o PadIndex(map[b].slot["padAlternate"])
    BY DEF MirrorDsBindings
  <2>2. \A c : PadIndex(c) \in Seq(PadButtons)
    BY DEF PadIndex
  <2> HIDE DEF m
  <2> QED BY <2>1, <2>2
<1> QED BY <1>1, <1>2, <1>4, <1>5 DEF IsSettings

----------------------------------------------------------------------------
(* Loading.                                                                *)

LEMMA DefaultsAreFull == Defaults \in FullMaps /\ DOMAIN Defaults = Actions
BY MapsAssumption DEF FullMaps

\* A slot filled from settings holds a control or nothing.
LEMMA MigratedSlotType ==
    ASSUME NEW m, IsSettings(m), NEW b \in Buttons, NEW s \in SlotNames,
           NEW fallback \in Controls \cup {Unbound}
    PROVE  MigratedSlot(m, b, s, fallback) \in Controls \cup {Unbound}
<1>1. ASSUME NEW names \in SUBSET Names
      PROVE  KeyNamed(names) \in Keys \cup {Unbound}
  BY <1>1, NamesAssumption DEF KeyNamed
<1> DEFINE names == {n \in DOMAIN m.keys : m.keys[n] = b}
           pads  == IF b \in DOMAIN m.pads THEN m.pads[b] ELSE << >>
<1>2. /\ KeyNamed(names \ m.alternates) \in Keys \cup {Unbound}
      /\ KeyNamed(names \cap m.alternates) \in Keys \cup {Unbound}
  BY <1>1 DEF IsSettings
<1>3. pads \in Seq(PadButtons)
  BY DEF IsSettings
<1>4. /\ Len(pads) >= 1 => pads[1] \in PadControls
      /\ Len(pads) >= 2 => pads[2] \in PadControls
  <2> HIDE DEF pads
  <2> QED BY <1>3, NamesAssumption
<1>5. MigratedSlot(m, b, s, fallback) =
        CASE s = "keyPrimary"   -> IF names = {} THEN fallback ELSE KeyNamed(names \ m.alternates)
          [] s = "keyAlternate" -> IF names = {} THEN fallback ELSE KeyNamed(names \cap m.alternates)
          [] s = "padPrimary"   -> IF Len(pads) >= 1 THEN pads[1] ELSE fallback
          [] s = "padAlternate" -> IF Len(pads) >= 2 THEN pads[2] ELSE fallback
  BY DEF MigratedSlot
<1> HIDE DEF names, pads
<1> QED BY <1>2, <1>4, <1>5 DEF SlotNames, KeySlots, PadSlots, Controls

LEMMA MigrateType ==
    ASSUME NEW m, IsSettings(m)
    PROVE  MigrateLegacyDs(m, Defaults) \in FullMaps
<1>1. ASSUME NEW a \in Actions, a \in Buttons
      PROVE  [Defaults[a] EXCEPT !.slot = [s \in SlotNames |-> MigratedSlot(m, a, s, @[s])]]
               \in ActionBinding
  <2>1. Defaults[a] \in ActionBinding
    BY DefaultsAreFull DEF FullMaps
  <2>2. \A s \in SlotNames : MigratedSlot(m, a, s, Defaults[a].slot[s]) \in Controls \cup {Unbound}
    BY <1>1, <2>1, MigratedSlotType DEF ActionBinding
  <2> QED BY <2>1, <2>2 DEF ActionBinding
<1> QED BY <1>1, DefaultsAreFull DEF MigrateLegacyDs, FullMaps

LEMMA MergeType ==
    ASSUME NEW m, IsStored(m)
    PROVE  MergeSystem(m, Defaults) \in FullMaps
<1>1. ASSUME NEW a \in Actions, a \in DOMAIN m, NEW s \in SlotNames
      PROVE  ReadSlot(m[a].slot, s, Defaults[a].slot) \in Controls \cup {Unbound}
  BY <1>1, DefaultsAreFull DEF IsStored, ReadSlot, FullMaps, ActionBinding
<1> QED BY <1>1, DefaultsAreFull DEF MergeSystem, IsStored, FullMaps, ActionBinding

LEMMA FullMapIsStored ==
    ASSUME NEW map \in FullMaps
    PROVE  IsStored(map)
BY DEF IsStored, FullMaps, ActionBinding

LEMMA LoadType == TypeOK => LoadConfig \in FullMaps
<1> SUFFICES ASSUME TypeOK PROVE LoadConfig \in FullMaps
  OBVIOUS
<1>1. store \notin {Absent, Garbage} => MergeSystem(store, Defaults) \in FullMaps
  BY MergeType DEF TypeOK
<1>2. legacy \notin {Absent, Garbage} => MigrateLegacyDs(legacy, Defaults) \in FullMaps
  BY MigrateType DEF TypeOK
<1> QED BY <1>1, <1>2, DefaultsAreFull DEF LoadConfig

----------------------------------------------------------------------------
(* Types.                                                                  *)

\* Edits give full maps.
LEMMA AssignType ==
    ASSUME NEW map \in FullMaps, NEW a \in Actions, NEW s \in SlotNames,
           NEW v \in Controls \cup {Unbound}
    PROVE  AssignSlot(map, a, s, v) \in FullMaps
BY DEF AssignSlot, WithoutValue, FullMaps, ActionBinding

LEMMA ToggleType ==
    ASSUME NEW map \in FullMaps, NEW a \in Actions, NEW flag
    PROVE  ToggleFlag(map, a, flag) \in FullMaps
BY DEF ToggleFlag, FullMaps, ActionBinding

\* setInputConfig with a full map keeps the types of all stores.
LEMMA SetKeepsType ==
    ASSUME TypeOK, NEW map \in FullMaps, SetInputConfig(map)
    PROVE  TypeOK'
<1>1. config' \in FullMaps
  BY DEF SetInputConfig
<1>2. store' \in {Absent, Garbage} \/ IsStored(store')
  BY FullMapIsStored DEF SetInputConfig, TypeOK
<1>3. IsSettings(sdk')
  BY MirrorIsSettings DEF SetInputConfig, TypeOK
<1>4. edits' \in 0..MaxEdits
  BY EditBoundAssumption DEF SetInputConfig, TypeOK
<1>5. legacy' = legacy /\ playing' = playing
  BY DEF SetInputConfig
<1> QED BY <1>1, <1>2, <1>3, <1>4, <1>5 DEF TypeOK, FullMaps

LEMMA TypeStep == TypeOK /\ [Next]_vars => TypeOK'
<1> SUFFICES ASSUME TypeOK, [Next]_vars
             PROVE  TypeOK'
  OBVIOUS
<1>1. CASE Reload
  <2>1. config' \in FullMaps
    BY <1>1, LoadType DEF Reload
  <2>2. IsSettings(sdk')
    BY <1>1, MapsAssumption DEF Reload, TypeOK
  <2> QED BY <1>1, <2>1, <2>2 DEF Reload, TypeOK, FullMaps
<1>2. CASE StartDs
  <2>1. IsSettings(sdk')
    BY <1>2, MirrorIsSettings DEF StartDs, TypeOK, FullMaps
  <2> QED BY <1>2, <2>1 DEF StartDs, TypeOK
<1>3. CASE StopDs
  BY <1>3 DEF StopDs, TypeOK
<1>4. CASE CloseSettings
  BY <1>4 DEF CloseSettings, TypeOK
<1>5. CASE Edit
  <2>1. config \in FullMaps
    BY <1>5 DEF Edit, SetInputConfig, TypeOK, FullMaps
  <2>2. ASSUME NEW a \in Actions, NEW s \in SlotNames, NEW v \in Values(s),
               SetInputConfig(AssignSlot(config, a, s, v))
        PROVE  TypeOK'
    <3>1. v \in Controls \cup {Unbound}
      BY DEF Values, Controls
    <3> QED BY <2>1, <2>2, <3>1, AssignType, SetKeepsType
  <2>3. ASSUME NEW a \in Actions, NEW flag \in {"turbo", "toggle"},
               SetInputConfig(ToggleFlag(config, a, flag))
        PROVE  TypeOK'
    BY <2>1, <2>3, ToggleType, SetKeepsType
  <2> QED BY <1>5, <2>2, <2>3 DEF Edit
<1>6. CASE Replace
  <2>1. PICK map \in Presets : SetInputConfig(map)
    BY <1>6 DEF Replace
  <2>2. map \in FullMaps
    BY MapsAssumption DEF FullMaps
  <2> QED BY <2>1, <2>2, SetKeepsType
<1>7. CASE Import
  <2>1. PICK file \in Files : SetInputConfig(MergeSystem(file, Defaults))
    BY <1>7 DEF Import
  <2>2. MergeSystem(file, Defaults) \in FullMaps
    BY MapsAssumption, MergeType
  <2> QED BY <2>1, <2>2, SetKeepsType
<1>8. CASE UNCHANGED vars
  BY <1>8 DEF vars, TypeOK
<1> QED BY <1>1, <1>2, <1>3, <1>4, <1>5, <1>6, <1>7, <1>8 DEF Next

\* The stores and the map in use keep their types: whatever is stored, and
\* whatever storage refuses, a load gives a full map.
THEOREM ConfigTypeOK == Spec => []TypeOK
<1>1. ASSUME Init
      PROVE  TypeOK
  <2>1. store \in {Absent, Garbage} \/ IsStored(store)
    BY <1>1, MapsAssumption DEF Init
  <2>2. legacy \in {Absent, Garbage} \/ IsSettings(legacy)
    BY <1>1, MapsAssumption DEF Init
  <2>3. IsSettings(sdk)
    BY <1>1, MapsAssumption DEF Init
  <2>4. config = Absent /\ playing = FALSE /\ edits = 0
    BY <1>1 DEF Init
  <2>5. edits \in 0..MaxEdits
    BY <2>4, EditBoundAssumption
  <2>6. playing \in BOOLEAN
    BY <2>4
  <2> QED BY <2>1, <2>2, <2>3, <2>4, <2>5, <2>6 DEF TypeOK
<1> QED BY <1>1, TypeStep, PTL DEF Spec

----------------------------------------------------------------------------
(* What loads bring back.                                                  *)

\* A load gives every stored slot back, the cleared ones cleared.
THEOREM ConfigStoredMapSurvives == Spec => StoredMapSurvives
<1>1. ASSUME TypeOK, Reload, store \notin {Absent, Garbage},
             NEW a \in DOMAIN store, NEW s \in DOMAIN store[a].slot
      PROVE  config'[a].slot[s] = store[a].slot[s]
  <2>1. IsStored(store) /\ config' = MergeSystem(store, Defaults)
    BY <1>1 DEF TypeOK, Reload, LoadConfig
  <2>2. a \in DOMAIN Defaults /\ s \in SlotNames
    BY <2>1, DefaultsAreFull DEF IsStored
  <2>3. config'[a].slot[s] = ReadSlot(store[a].slot, s, Defaults[a].slot)
    BY <2>1, <2>2 DEF MergeSystem
  <2> QED BY <2>3 DEF ReadSlot
<1>2. TypeOK /\ [Next]_vars =>
        [Reload /\ store \notin {Absent, Garbage} =>
            \A a \in DOMAIN store : \A s \in DOMAIN store[a].slot :
                config'[a].slot[s] = store[a].slot[s]]_vars
  BY <1>1
<1> QED BY <1>2, ConfigTypeOK, PTL DEF Spec, StoredMapSurvives

\* A set with one name stands for the key of that name.
LEMMA KeyOfOne ==
    ASSUME NEW n, CodeOf[n] # Unbound
    PROVE  KeyNamed({n}) = CodeOf[n]
<1>1. (CHOOSE o \in {n} : CodeOf[o] # Unbound) = n
  OBVIOUS
<1> QED BY <1>1 DEF KeyNamed

\* With one primary and one alternate key for each button, a load from the
\* older settings binds every key they name to the button they name it for.
THEOREM ConfigMigrationKeepsKeys == Spec => MigrationKeepsKeys
<1>1. ASSUME TypeOK, Reload, store = Absent, legacy \notin {Absent, Garbage},
             OneKeyEach(legacy), NEW n \in DOMAIN legacy.keys, CodeOf[n] # Unbound
      PROVE  \E s \in KeySlots : config'[legacy.keys[n]].slot[s] = CodeOf[n]
  <2> DEFINE b     == legacy.keys[n]
             names == {o \in DOMAIN legacy.keys : legacy.keys[o] = b}
             alternates == legacy.alternates
  <2>1. config' = MigrateLegacyDs(legacy, Defaults)
    BY <1>1, MarksAssumption DEF Reload, LoadConfig
  <2>2. b \in Buttons /\ b \in DOMAIN Defaults
    BY <1>1, DefaultsAreFull DEF TypeOK, IsSettings, Actions
  <2>3. Defaults[b] \in ActionBinding
    BY <2>2, DefaultsAreFull DEF FullMaps
  <2>4. ASSUME NEW s \in SlotNames
        PROVE  config'[b].slot[s] = MigratedSlot(legacy, b, s, Defaults[b].slot[s])
    BY <2>1, <2>2, <2>3 DEF MigrateLegacyDs, ActionBinding
  <2>5. /\ config'[b].slot["keyPrimary"] =
              IF names = {} THEN Defaults[b].slot["keyPrimary"] ELSE KeyNamed(names \ alternates)
        /\ config'[b].slot["keyAlternate"] =
              IF names = {} THEN Defaults[b].slot["keyAlternate"] ELSE KeyNamed(names \cap alternates)
    BY <2>4 DEF MigratedSlot, SlotNames, KeySlots
  <2>6. \A o \in names : (n \in alternates <=> o \in alternates) => o = n
    BY <1>1 DEF OneKeyEach
  <2>7. n \in names
    BY <1>1
  <2> HIDE DEF names
  <2>8. CASE n \in alternates
    <3>1. names \cap alternates = {n}
      BY <2>6, <2>7, <2>8
    <3> QED BY <1>1, <2>5, <2>7, <3>1, KeyOfOne DEF KeySlots
  <2>9. CASE n \notin alternates
    <3>1. names \ alternates = {n}
      BY <2>6, <2>7, <2>9
    <3> QED BY <1>1, <2>5, <2>7, <3>1, KeyOfOne DEF KeySlots
  <2> QED BY <2>8, <2>9
<1>2. TypeOK /\ [Next]_vars =>
        [Reload /\ store = Absent /\ legacy \notin {Absent, Garbage} /\ OneKeyEach(legacy) =>
            \A n \in DOMAIN legacy.keys :
                CodeOf[n] # Unbound
                    => \E s \in KeySlots : config'[legacy.keys[n]].slot[s] = CodeOf[n]]_vars
  BY <1>1
<1> QED BY <1>2, ConfigTypeOK, PTL DEF Spec, MigrationKeepsKeys

----------------------------------------------------------------------------
(* Without an edit.                                                        *)

\* A map as loads make it of settings.
Settled(map) ==
    /\ map \in FullMaps
    /\ \A b \in Buttons :
        /\ ~map[b].turbo /\ ~map[b].toggle
        /\ \A s \in KeySlots : map[b].slot[s] # Unbound => ComesBack(map[b].slot[s])
        /\ map[b].slot["padPrimary"] \in PadButtons \cup {Unbound}
        /\ \/ map[b].slot["padAlternate"] = Defaults[b].slot["padAlternate"]
           \/ map[b].slot["padPrimary"] # Unbound /\ map[b].slot["padAlternate"] \in PadButtons

LEMMA DefaultsAreSettled == Settled(Defaults)
BY DefaultsAreFull, ReturnAssumption DEF Settled

LEMMA MigratedIsSettled ==
    ASSUME NEW m, IsSettings(m)
    PROVE  /\ Settled(MigrateLegacyDs(m, Defaults))
           /\ \A b \in Buttons : \A s \in SlotNames :
                 MigrateLegacyDs(m, Defaults)[b].slot[s] = MigratedSlot(m, b, s, Defaults[b].slot[s])
<1> DEFINE map == MigrateLegacyDs(m, Defaults)
<1>1. map \in FullMaps
  BY MigrateType
<1>2. ASSUME NEW b \in Buttons
      PROVE  /\ map[b].turbo = Defaults[b].turbo /\ map[b].toggle = Defaults[b].toggle
             /\ \A s \in SlotNames : map[b].slot[s] = MigratedSlot(m, b, s, Defaults[b].slot[s])
  <2>1. b \in DOMAIN Defaults /\ Defaults[b] \in ActionBinding
    BY DefaultsAreFull DEF FullMaps, Actions
  <2>2. map[b] = [Defaults[b] EXCEPT !.slot = [s \in SlotNames |-> MigratedSlot(m, b, s, @[s])]]
    BY <2>1 DEF MigrateLegacyDs
  <2> QED BY <2>1, <2>2 DEF ActionBinding
<1>3. ASSUME NEW b \in Buttons
      PROVE  /\ \A s \in KeySlots : map[b].slot[s] # Unbound => ComesBack(map[b].slot[s])
             /\ map[b].slot["padPrimary"] \in PadButtons \cup {Unbound}
             /\ \/ map[b].slot["padAlternate"] = Defaults[b].slot["padAlternate"]
                \/ map[b].slot["padPrimary"] # Unbound /\ map[b].slot["padAlternate"] \in PadButtons
  <2> DEFINE names == {n \in DOMAIN m.keys : m.keys[n] = b}
             pads  == IF b \in DOMAIN m.pads THEN m.pads[b] ELSE << >>
             d     == Defaults[b].slot
  <2>1. /\ map[b].slot["keyPrimary"] =
              IF names = {} THEN d["keyPrimary"] ELSE KeyNamed(names \ m.alternates)
        /\ map[b].slot["keyAlternate"] =
              IF names = {} THEN d["keyAlternate"] ELSE KeyNamed(names \cap m.alternates)
        /\ map[b].slot["padPrimary"] = IF Len(pads) >= 1 THEN pads[1] ELSE d["padPrimary"]
        /\ map[b].slot["padAlternate"] = IF Len(pads) >= 2 THEN pads[2] ELSE d["padAlternate"]
    BY <1>2 DEF MigratedSlot, SlotNames, KeySlots, PadSlots
  <2>2. ASSUME NEW S \in SUBSET Names, KeyNamed(S) # Unbound PROVE ComesBack(KeyNamed(S))
    BY <2>2, ReturnAssumption DEF KeyNamed
  <2>3. names \in SUBSET Names /\ pads \in Seq(PadButtons)
    BY DEF IsSettings
  <2>4. /\ Len(pads) >= 1 => pads[1] \in PadButtons
        /\ Len(pads) >= 2 => pads[2] \in PadButtons /\ pads[1] \in PadButtons /\ Len(pads) >= 1
    <3> HIDE DEF pads
    <3> QED BY <2>3
  <2>5. Unbound \notin PadButtons
    BY NamesAssumption, ControlsAssumption DEF Controls
  <2>6. /\ \A s \in KeySlots : d[s] # Unbound => ComesBack(d[s])
        /\ d["padPrimary"] \in PadButtons \cup {Unbound}
    BY ReturnAssumption
  <2>7. ASSUME NEW s \in KeySlots, map[b].slot[s] # Unbound PROVE ComesBack(map[b].slot[s])
    <3>1. (names \ m.alternates) \in SUBSET Names /\ (names \cap m.alternates) \in SUBSET Names
      BY <2>3
    <3> HIDE DEF names, d, map
    <3> QED BY <2>1, <2>2, <2>6, <2>7, <3>1 DEF KeySlots
  <2> HIDE DEF names, pads, d, map
  <2>8. map[b].slot["padPrimary"] \in PadButtons \cup {Unbound}
    BY <2>1, <2>4, <2>6
  <2>9. \/ map[b].slot["padAlternate"] = d["padAlternate"]
        \/ map[b].slot["padPrimary"] # Unbound /\ map[b].slot["padAlternate"] \in PadButtons
    BY <2>1, <2>4, <2>5
  <2> QED BY <2>7, <2>8, <2>9 DEF d
<1>4. \A b \in Buttons : ~map[b].turbo /\ ~map[b].toggle
  BY <1>2, ReturnAssumption
<1> HIDE DEF map
<1>5. Settled(map)
  BY <1>1, <1>3, <1>4 DEF Settled
<1> QED BY <1>2, <1>5 DEF map

\* A primary key is told under a name of its own, and to no other button.
LEMMA MirrorKeepsKey ==
    ASSUME NEW map, Settled(map), NoDoubleBooking(map), NEW b \in Buttons,
           map[b].slot["keyPrimary"] # Unbound, NEW fallback
    PROVE  MigratedSlot(MirrorDsBindings(map), b, "keyPrimary", fallback) = map[b].slot["keyPrimary"]
<1> DEFINE k == map[b].slot["keyPrimary"]
           n == NameOf[k]
           m == MirrorDsBindings(map)
           names == {o \in DOMAIN m.keys : m.keys[o] = b}
<1>1. k \in Keys /\ k \in Controls /\ n \in Names /\ CodeOf[n] = k /\ n # Unbound /\ CodeOf[n] # Unbound
  BY NamesAssumption DEF Settled, ComesBack, KeySlots, Controls
<1>2. Buttons \subseteq DOMAIN map
  BY DEF Settled, FullMaps, Actions
<1>3. ASSUME NEW c \in Buttons, NEW s \in KeySlots
      PROVE  /\ ToldName(map, c, s) = (IF map[c].slot[s] \notin Keys THEN Unbound ELSE NameOf[map[c].slot[s]])
             /\ ToldName(map, c, s) = n => c = b /\ s = "keyPrimary"
  <2>1. ToldName(map, c, s) = (IF map[c].slot[s] \notin Keys THEN Unbound ELSE NameOf[map[c].slot[s]])
    BY DEF ToldName, Settled
  <2>2. ASSUME ToldName(map, c, s) = n PROVE c = b /\ s = "keyPrimary"
    <3>1. map[c].slot[s] \in Keys /\ NameOf[map[c].slot[s]] = n
      BY <1>1, <2>1, <2>2
    <3>2. ComesBack(map[c].slot[s])
      BY <3>1, ControlsAssumption DEF Settled, Controls
    <3>3. map[c].slot[s] = k
      BY <1>1, <3>1, <3>2 DEF ComesBack
    <3>4. BoundOnce(map, k)
      BY <1>1 DEF NoDoubleBooking
    <3>5. s \in SlotNames /\ "keyPrimary" \in SlotNames
      BY DEF SlotNames, KeySlots
    <3>6. \A x, y \in DOMAIN map : \A t, u \in SlotNames :
            map[x].slot[t] = k /\ map[y].slot[u] = k => x = y /\ t = u
      BY <3>4 DEF BoundOnce
    <3> QED BY <1>2, <3>3, <3>5, <3>6
  <2> QED BY <2>1, <2>2
<1>4. ToldName(map, b, "keyPrimary") = n
  BY <1>1, <1>3 DEF KeySlots
<1> HIDE DEF n, k
<1>5. HoldersOf(map, n) = {b}
  BY <1>3, <1>4 DEF HoldersOf, KeySlots
<1>6. HolderOf(map, n) = b
  <2>1. Rank[b] \in Nat
    BY NamesAssumption
  <2>2. (CHOOSE x \in {b} : \A y \in {b} : Rank[x] <= Rank[y]) = b
    BY <2>1
  <2> QED BY <1>5, <2>2 DEF HolderOf
<1>7. n \in DOMAIN m.keys /\ m.keys[n] = b
  BY <1>1, <1>5, <1>6 DEF MirrorDsBindings
<1>8. m.alternates = {ToldName(map, c, "keyAlternate") : c \in Buttons} \ {Unbound}
  BY DEF MirrorDsBindings, ToldAlternates
<1>9. n \notin m.alternates
  BY <1>3, <1>8 DEF KeySlots
<1>10. ASSUME NEW o \in names, o \notin m.alternates PROVE o = n
  <2>1. o \in Names /\ HoldersOf(map, o) # {} /\ HolderOf(map, o) = b
    BY DEF MirrorDsBindings
  <2>2. b \in HoldersOf(map, o)
    <3>1. HoldersOf(map, o) \in SUBSET Buttons
      BY DEF HoldersOf
    <3>2. \E x \in HoldersOf(map, o) : \A y \in HoldersOf(map, o) : Rank[x] <= Rank[y]
      BY <2>1, <3>1, LeastRank
    <3> QED BY <2>1, <3>2 DEF HolderOf
  <2>3. PICK s \in KeySlots : ToldName(map, b, s) = o
    BY <2>2 DEF HoldersOf
  <2>4. o # Unbound
    BY <2>1, NamesAssumption
  <2>5. s # "keyAlternate"
    BY <1>8, <1>10, <2>3, <2>4
  <2> QED BY <1>4, <2>3, <2>5 DEF KeySlots
<1>11. names \ m.alternates = {n} /\ names # {}
  BY <1>7, <1>9, <1>10
<1>12. KeyNamed({n}) = k
  BY <1>1, KeyOfOne
<1>13. MigratedSlot(m, b, "keyPrimary", fallback) =
          IF names = {} THEN fallback ELSE KeyNamed(names \ m.alternates)
  BY DEF MigratedSlot
<1> HIDE DEF names, m
<1> QED BY <1>11, <1>12, <1>13 DEF k, m

LEMMA MirrorKeepsPads ==
    ASSUME NEW map, Settled(map), NEW b \in Buttons, NEW s \in PadSlots, map[b].slot[s] # Unbound
    PROVE  MigratedSlot(MirrorDsBindings(map), b, s, Defaults[b].slot[s]) = map[b].slot[s]
<1>1. PICK p : p = map[b].slot["padPrimary"]
  OBVIOUS
<1>2. PICK q : q = map[b].slot["padAlternate"]
  OBVIOUS
<1>3. PICK d : d = Defaults[b].slot["padAlternate"]
  OBVIOUS
<1>4. PICK pads : pads = PadIndex(p) \o PadIndex(q)
  OBVIOUS
<1>5. MirrorDsBindings(map).pads = [c \in Buttons |-> PadIndex(map[c].slot["padPrimary"])
                                                        \o PadIndex(map[c].slot["padAlternate"])]
  BY DEF MirrorDsBindings
<1>6. b \in DOMAIN MirrorDsBindings(map).pads /\ MirrorDsBindings(map).pads[b] = pads
  BY <1>1, <1>2, <1>4, <1>5
<1>7. /\ s = "padPrimary" => MigratedSlot(MirrorDsBindings(map), b, s, Defaults[b].slot[s]) =
                                IF Len(pads) >= 1 THEN pads[1] ELSE Defaults[b].slot[s]
      /\ s = "padAlternate" => MigratedSlot(MirrorDsBindings(map), b, s, Defaults[b].slot[s]) =
                                IF Len(pads) >= 2 THEN pads[2] ELSE d
  BY <1>3, <1>6 DEF MigratedSlot
<1>8. p \in PadButtons \cup {Unbound} /\ (q = d \/ (p # Unbound /\ q \in PadButtons))
  BY <1>1, <1>2, <1>3 DEF Settled
<1>9. Unbound \notin PadButtons
  BY NamesAssumption, ControlsAssumption DEF Controls
<1>10. /\ <<p>> \in Seq({p}) /\ <<q>> \in Seq({q}) /\ Len(<<p>>) = 1 /\ Len(<<q>>) = 1
       /\ Len(<< >>) = 0 /\ << >> \in Seq({q})
  OBVIOUS
<1>11. CASE p \in PadButtons /\ q \in PadButtons
  <2>1. pads = <<p>> \o <<q>>
    BY <1>4, <1>11 DEF PadIndex
  <2>2. Len(pads) = 2 /\ pads[1] = p /\ pads[2] = q
    BY <2>1
  <2> QED BY <1>1, <1>2, <1>7, <2>2 DEF PadSlots
<1>12. CASE p \in PadButtons /\ q \notin PadButtons
  <2>1. pads = <<p>> \o << >> /\ q = d
    BY <1>4, <1>8, <1>12 DEF PadIndex
  <2>2. Len(pads) = 1 /\ pads[1] = p
    BY <2>1
  <2>3. CASE s = "padPrimary"
    BY <1>1, <1>7, <2>2, <2>3
  <2>4. CASE s = "padAlternate"
    <3>1. ~(Len(pads) >= 2)
      BY <2>2
    <3> QED BY <1>2, <1>7, <2>1, <2>4, <3>1
  <2> QED BY <2>3, <2>4 DEF PadSlots
<1>13. CASE p = Unbound
  <2>1. q = d /\ s = "padAlternate"
    BY <1>1, <1>8, <1>13 DEF PadSlots
  <2>2. pads = << >> \o << >> \/ pads = << >> \o <<q>>
    BY <1>4, <1>9, <1>13 DEF PadIndex
  <2>3. Len(<< >> \o << >>) = 0 /\ Len(<< >> \o <<q>>) = 1
    OBVIOUS
  <2>4. Len(pads) \in {0, 1}
    BY <2>2, <2>3
  <2>5. ~(Len(pads) >= 2)
    BY <2>4
  <2> QED BY <1>2, <1>7, <2>1, <2>5
<1> QED BY <1>8, <1>11, <1>12, <1>13

LEMMA MirrorKeeps ==
    ASSUME NEW map, Settled(map), NoDoubleBooking(map)
    PROVE  Keeps(MirrorDsBindings(map), map)
<1> SUFFICES ASSUME NEW b \in Buttons, NEW s \in SlotNames \ {"keyAlternate"}, map[b].slot[s] # Unbound
             PROVE  MigratedSlot(MirrorDsBindings(map), b, s, Defaults[b].slot[s]) = map[b].slot[s]
  BY DEF Keeps
<1>1. CASE s = "keyPrimary"
  BY <1>1, MirrorKeepsKey
<1>2. CASE s \in PadSlots
  BY <1>2, MirrorKeepsPads
<1> QED BY <1>1, <1>2 DEF SlotNames, KeySlots

\* What is settings is not taken for nothing, or for what cannot be parsed.
SettingsAreRead == ~IsSettings(Absent) /\ ~IsSettings(Garbage)

\* The inductive invariant: whatever the next load reads, it keeps the primaries.
Unedited ==
    edits = 0 /\ config # Absent =>
        IF store # Absent THEN config = LoadConfig
        ELSE /\ Settled(config)
             /\ legacy \in {Absent, Garbage} => config = Defaults
             /\ NoDoubleBooking(config) =>
                    /\ Keeps(sdk, config)
                    /\ legacy \in {Absent, Garbage} \/ Keeps(legacy, config)

LEMMA UneditedStep ==
    ASSUME SettingsAreRead PROVE TypeOK /\ Unedited /\ [Next]_vars => Unedited'
<1> SUFFICES ASSUME TypeOK, Unedited, [Next]_vars, edits' = 0, config' # Absent
             PROVE  IF store' # Absent THEN config' = LoadConfig'
                    ELSE /\ Settled(config')
                         /\ legacy' \in {Absent, Garbage} => config' = Defaults
                         /\ NoDoubleBooking(config') =>
                                /\ Keeps(sdk', config')
                                /\ legacy' \in {Absent, Garbage} \/ Keeps(legacy', config')
  BY DEF Unedited
<1>1. CASE Reload
  <2>1. /\ config' = LoadConfig /\ store' = store /\ legacy' = legacy
        /\ sdk' = IF legacy \in {Absent, Garbage} THEN SdkDefault ELSE legacy
    BY <1>1 DEF Reload
  <2>2. CASE store # Absent
    BY <2>1, <2>2 DEF LoadConfig
  <2>3. CASE store = Absent /\ legacy \in {Absent, Garbage}
    <3>1. config' = Defaults
      BY <2>1, <2>3 DEF LoadConfig
    <3> QED BY <2>1, <2>3, <3>1, DefaultsAreSettled, SdkAssumption
  <2>4. CASE store = Absent /\ legacy \notin {Absent, Garbage}
    <3>1. config' = MigrateLegacyDs(legacy, Defaults) /\ IsSettings(legacy)
      BY <2>1, <2>4, MarksAssumption DEF LoadConfig, TypeOK
    <3>2. Settled(config') /\ Keeps(legacy, config')
      BY <3>1, MigratedIsSettled DEF Keeps
    <3> QED BY <2>1, <2>4, <3>2
  <2> QED BY <2>2, <2>3, <2>4
<1>2. CASE StartDs
  <2>1. /\ sdk' = MirrorDsBindings(config) /\ config # Absent
        /\ UNCHANGED <<store, legacy, config, edits>>
    BY <1>2 DEF StartDs
  <2>2. CASE store # Absent
    BY <2>1, <2>2 DEF Unedited, LoadConfig
  <2>3. CASE store = Absent
    BY <2>1, <2>3, MirrorKeeps DEF Unedited
  <2> QED BY <2>2, <2>3
<1>3. CASE CloseSettings
  <2>1. /\ legacy' \in {sdk, legacy} /\ config # Absent
        /\ UNCHANGED <<store, config, sdk, edits>>
    BY <1>3 DEF CloseSettings
  <2>2. sdk \notin {Absent, Garbage}
    BY DEF SettingsAreRead, TypeOK
  <2>3. CASE store # Absent
    BY <2>1, <2>3 DEF Unedited, LoadConfig
  <2>4. CASE store = Absent
    BY <2>1, <2>2, <2>4 DEF Unedited
  <2> QED BY <2>3, <2>4
<1>4. CASE StopDs \/ UNCHANGED vars
  <2>1. UNCHANGED <<store, legacy, config, sdk, edits>>
    BY <1>4 DEF StopDs, vars
  <2> QED BY <2>1 DEF Unedited, LoadConfig
<1>5. CASE Edit \/ Replace \/ Import
  <2>1. edits' = edits + 1 /\ edits \in Nat
    BY <1>5, EditBoundAssumption DEF Edit, Replace, Import, SetInputConfig, TypeOK
  <2> QED BY <2>1
<1> QED BY <1>1, <1>2, <1>3, <1>4, <1>5 DEF Next

\* Without an edit no button's primary key, and none of its pad controls, is lost by a
\* load, however often games and dialogs have written the settings over in between.
THEOREM ConfigPrimariesSurviveLoads ==
    ASSUME SettingsAreRead PROVE Spec => PrimariesSurviveLoads
<1>1. Init => Unedited
  BY DEF Init, Unedited
<1>2. ASSUME TypeOK, Unedited, Reload, config # Absent, edits = 0, NoDoubleBooking(config),
             NEW b \in Buttons, NEW s \in SlotNames \ {"keyAlternate"}, config[b].slot[s] # Unbound
      PROVE  config'[b].slot[s] = config[b].slot[s]
  <2>1. config' = LoadConfig
    BY <1>2 DEF Reload
  <2>2. CASE store # Absent
    BY <1>2, <2>1, <2>2 DEF Unedited
  <2>3. CASE store = Absent /\ legacy \in {Absent, Garbage}
    BY <1>2, <2>1, <2>3 DEF Unedited, LoadConfig
  <2>4. CASE store = Absent /\ legacy \notin {Absent, Garbage}
    <3>1. config' = MigrateLegacyDs(legacy, Defaults) /\ IsSettings(legacy)
      BY <1>2, <2>1, <2>4, MarksAssumption DEF LoadConfig, TypeOK
    <3>2. config'[b].slot[s] = MigratedSlot(legacy, b, s, Defaults[b].slot[s])
      BY <3>1, MigratedIsSettled
    <3>3. Keeps(legacy, config)
      BY <1>2, <2>4 DEF Unedited
    <3> QED BY <1>2, <3>2, <3>3 DEF Keeps
  <2> QED BY <2>2, <2>3, <2>4
<1>3. TypeOK /\ Unedited /\ [Next]_vars =>
        [Reload /\ config # Absent /\ edits = 0 /\ NoDoubleBooking(config) =>
            \A b \in Buttons : \A s \in SlotNames \ {"keyAlternate"} :
                config[b].slot[s] # Unbound => config'[b].slot[s] = config[b].slot[s]]_vars
  BY <1>2
<1> QED BY <1>1, <1>3, UneditedStep, ConfigTypeOK, PTL DEF Spec, PrimariesSurviveLoads

=============================================================================
