---------------------------- MODULE ConfigStore ----------------------------
(***************************************************************************)
(* Where the player's DS bindings are kept (src/frontend/src/input/        *)
(* bindings.ts, store.ts): in a store of their own, written after every    *)
(* edit, and, translated to key names, in the settings of WebMelon's SDK,  *)
(* which the settings dialog stores under the key that earlier builds      *)
(* used.  A page load reads the first if there is one and the second       *)
(* otherwise.  The map of GBA games takes the first way only.              *)
(*                                                                         *)
(* Left out: the turbo rate, other tabs, and the SDK's other settings.     *)
(***************************************************************************)
EXTENDS Bindings, Naturals, Sequences

CONSTANTS
    Names,        \* values of event.key, by which the SDK knows keys
    NameOf,       \* codeToLegacyKey: each key's name, or Unbound
    CodeOf,       \* legacyKeyToCode: each name's key, or Unbound
    PadButtons,   \* the "pad:bN" among the pad controls
    Rank,         \* the buttons' places in a map, counted from its end
    Defaults,     \* dsDefaults()
    Presets,      \* the maps that buttons of the page write, Defaults included
    Files,        \* maps as files and older builds have them
    SdkDefault,   \* the settings WebMelon comes with
    LegacyMaps,   \* settings that earlier builds may have stored
    Absent, Garbage,  \* nothing is stored; it cannot be parsed
    MaxEdits      \* bound on the edits

\* A file may lack actions, and slots of those it has.
IsStored(m) ==
    /\ DOMAIN m \subseteq Actions
    /\ \A a \in DOMAIN m :
        /\ DOMAIN m[a].slot \subseteq SlotNames
        /\ \A s \in DOMAIN m[a].slot : m[a].slot[s] \in Controls \cup {Unbound}
        /\ m[a].turbo \in BOOLEAN /\ m[a].toggle \in BOOLEAN

IsSettings(m) ==
    /\ DOMAIN m.keys \subseteq Names
    /\ \A n \in DOMAIN m.keys : m.keys[n] \in Buttons
    /\ m.alternates \subseteq Names
    /\ \A b \in DOMAIN m.pads : m.pads[b] \in Seq(PadButtons)

\* Settings name at most one key as a button's primary and one as its alternate.
OneKeyEach(m) ==
    \A n, o \in DOMAIN m.keys :
        m.keys[n] = m.keys[o] /\ (n \in m.alternates <=> o \in m.alternates) => n = o

\* A key that the SDK's settings bring back: its name stands for it, as ShiftRight's
\* stands for ShiftLeft.
ComesBack(k) == k \in Keys /\ NameOf[k] \in Names /\ CodeOf[NameOf[k]] = k

ASSUME NamesAssumption ==
    /\ NameOf \in [Keys -> Names \cup {Unbound}] /\ Unbound \notin Names
    /\ CodeOf \in [Names -> Keys \cup {Unbound}]
    /\ Rank \in [Buttons -> Nat]
    /\ PadButtons \subseteq PadControls
ASSUME MapsAssumption ==
    /\ \A m \in Files : IsStored(m)
    /\ \A m \in Presets \cup {Defaults} :
          m \in [Actions -> ActionBinding] /\ NoDoubleBooking(m)
    /\ \A m \in LegacyMaps \cup {SdkDefault} : IsSettings(m) /\ OneKeyEach(m)
ASSUME MarksAssumption == Absent # Garbage

\* A name's key comes back, and so does every key of a button's defaults, which have no
\* flags and no axis in a primary slot.
ASSUME ReturnAssumption ==
    /\ \A n \in Names : CodeOf[n] # Unbound => ComesBack(CodeOf[n])
    /\ \A b \in Buttons :
          /\ ~Defaults[b].turbo /\ ~Defaults[b].toggle
          /\ \A s \in KeySlots : Defaults[b].slot[s] # Unbound => ComesBack(Defaults[b].slot[s])
          /\ Defaults[b].slot["padPrimary"] \in PadButtons \cup {Unbound}
ASSUME EditBoundAssumption == MaxEdits \in Nat

VARIABLES
    store,    \* localStorage['emu-input-bindings']
    legacy,   \* localStorage['inputSettings']
    config,   \* current, the map in use; Absent before the first load
    sdk,      \* WebMelon's inputSettings
    playing,  \* a DS game runs
    edits     \* edits so far

vars == <<store, legacy, config, sdk, playing, edits>>

Init ==
    /\ store \in Files \cup {Absent, Garbage}
    /\ legacy \in LegacyMaps \cup {Absent, Garbage}
    /\ config = Absent /\ sdk = SdkDefault /\ playing = FALSE /\ edits = 0

----------------------------------------------------------------------------
(* Loading.                                                                *)

\* Seeded fault: a slot that was cleared is taken for one that is missing.
ReadSlotOrDefault(slots, s, fallback) ==
    IF s \in DOMAIN slots /\ slots[s] # Unbound THEN slots[s] ELSE fallback[s]

\* A slot that the stored copy predates comes from the defaults; one that was
\* cleared stays cleared.
ReadSlot(slots, s, fallback) ==
    IF s \in DOMAIN slots THEN slots[s] ELSE fallback[s]

MergeSystem(stored, base) ==
    [a \in DOMAIN base |->
        IF a \notin DOMAIN stored THEN base[a]
        ELSE [slot   |-> [s \in SlotNames |-> ReadSlot(stored[a].slot, s, base[a].slot)],
              turbo  |-> stored[a].turbo,
              toggle |-> stored[a].toggle]]

\* The key that a set of names stands for.  The last of several entries would
\* win; there are several only after a key was booked twice, and then any is
\* taken here.
KeyNamed(names) ==
    IF \E n \in names : CodeOf[n] # Unbound
    THEN CodeOf[CHOOSE n \in names : CodeOf[n] # Unbound]
    ELSE Unbound

\* Seeded fault: every key of a button goes to its primary slot.
MigratedSlotPrimary(m, b, s, fallback) ==
    LET names == {n \in DOMAIN m.keys : m.keys[n] = b}
    IN  CASE s = "keyPrimary"   -> IF names = {} THEN fallback ELSE KeyNamed(names)
          [] s = "keyAlternate" -> IF names = {} THEN fallback ELSE Unbound
          [] OTHER -> fallback

\* One slot of one button from the settings of an earlier build.  A button
\* with any key named there loses its default keys, even if the names stand
\* for no key; a button that has pad buttons there keeps the others.
MigratedSlot(m, b, s, fallback) ==
    LET names == {n \in DOMAIN m.keys : m.keys[n] = b}
        pads  == IF b \in DOMAIN m.pads THEN m.pads[b] ELSE << >>
    IN  CASE s = "keyPrimary"   -> IF names = {} THEN fallback ELSE KeyNamed(names \ m.alternates)
          [] s = "keyAlternate" -> IF names = {} THEN fallback ELSE KeyNamed(names \cap m.alternates)
          [] s = "padPrimary"   -> IF Len(pads) >= 1 THEN pads[1] ELSE fallback
          [] s = "padAlternate" -> IF Len(pads) >= 2 THEN pads[2] ELSE fallback

\* Settings that would leave the primary keys and the pad controls of a map's buttons.
Keeps(m, map) ==
    \A b \in Buttons : \A s \in SlotNames \ {"keyAlternate"} :
        map[b].slot[s] # Unbound => MigratedSlot(m, b, s, Defaults[b].slot[s]) = map[b].slot[s]

\* WebMelon's bindings are the defaults' primaries.
ASSUME SdkAssumption == Keeps(SdkDefault, Defaults)

MigrateLegacyDs(m, base) ==
    [a \in DOMAIN base |->
        IF a \notin Buttons THEN base[a]
        ELSE [base[a] EXCEPT !.slot = [s \in SlotNames |-> MigratedSlot(m, a, s, @[s])]]]

\* What cannot be parsed counts as the defaults, and hides the other store.
LoadConfig ==
    CASE store = Absent /\ legacy \in {Absent, Garbage} -> Defaults
      [] store = Absent /\ legacy \notin {Absent, Garbage} -> MigrateLegacyDs(legacy, Defaults)
      [] store = Garbage -> Defaults
      [] OTHER -> MergeSystem(store, Defaults)

\* A page load, the first one included; the settings dialog gives the SDK what
\* it has stored.
Reload ==
    /\ config' = LoadConfig
    /\ sdk' = IF legacy \in {Absent, Garbage} THEN SdkDefault ELSE legacy
    /\ playing' = FALSE
    /\ UNCHANGED <<store, legacy, edits>>

----------------------------------------------------------------------------
(* The SDK's copy.                                                         *)

\* The name under which WebMelon is told of a slot, if it is: not a flagged
\* action's, which the router drives alone.
ToldName(map, a, s) ==
    IF map[a].turbo \/ map[a].toggle \/ map[a].slot[s] \notin Keys
    THEN Unbound ELSE NameOf[map[a].slot[s]]

\* Seeded fault: every key is passed on as an alternate.
ToldAsAlternates(map) ==
    {ToldName(map, b, s) : b \in Buttons, s \in KeySlots} \ {Unbound}

ToldAlternates(map) == {ToldName(map, b, "keyAlternate") : b \in Buttons} \ {Unbound}

HoldersOf(map, n) == {b \in Buttons : \E s \in KeySlots : ToldName(map, b, s) = n}

\* Of two buttons with one key the last entry has it.
HolderOf(map, n) ==
    CHOOSE b \in HoldersOf(map, n) : \A c \in HoldersOf(map, n) : Rank[b] <= Rank[c]

\* Axes are not passed on.
PadIndex(control) == IF control \in PadButtons THEN <<control>> ELSE << >>

MirrorDsBindings(map) ==
    [keys       |-> [n \in {m \in Names : HoldersOf(map, m) # {}} |-> HolderOf(map, n)],
     alternates |-> ToldAlternates(map),
     pads       |-> [b \in Buttons |-> PadIndex(map[b].slot["padPrimary"])
                                          \o PadIndex(map[b].slot["padAlternate"])]]

\* A DS game is entered: applyConfig.
StartDs ==
    /\ config # Absent /\ ~playing
    /\ playing' = TRUE /\ sdk' = MirrorDsBindings(config)
    /\ UNCHANGED <<store, legacy, config, edits>>

StopDs ==
    /\ playing /\ playing' = FALSE
    /\ UNCHANGED <<store, legacy, config, sdk, edits>>

\* Closing the settings dialog stores the SDK's settings, unless the storage
\* refuses.
CloseSettings ==
    /\ config # Absent
    /\ legacy' \in {sdk, legacy}
    /\ UNCHANGED <<store, config, sdk, playing, edits>>

----------------------------------------------------------------------------
(* Editing.                                                                *)

\* setInputConfig: the map is kept, stored unless the storage refuses, and a
\* running game is told.
SetInputConfig(map) ==
    /\ config # Absent /\ edits < MaxEdits
    /\ edits' = edits + 1
    /\ config' = map
    /\ store' \in {map, store}
    /\ sdk' = IF playing THEN MirrorDsBindings(map) ELSE sdk
    /\ UNCHANGED <<legacy, playing>>

Values(s) == (IF s \in PadSlots THEN PadControls ELSE Keys) \cup {Unbound}

Edit ==
    \E a \in Actions :
        \/ \E s \in SlotNames : \E v \in Values(s) : SetInputConfig(AssignSlot(config, a, s, v))
        \/ \E flag \in {"turbo", "toggle"} : SetInputConfig(ToggleFlag(config, a, flag))

Replace == \E map \in Presets : SetInputConfig(map)

Import == \E file \in Files : SetInputConfig(MergeSystem(file, Defaults))

Next == Reload \/ StartDs \/ StopDs \/ CloseSettings \/ Edit \/ Replace \/ Import

Spec == Init /\ [][Next]_vars

----------------------------------------------------------------------------
(* Properties.                                                             *)

TypeOK ==
    /\ store \in {Absent, Garbage} \/ IsStored(store)
    /\ legacy \in {Absent, Garbage} \/ IsSettings(legacy)
    /\ config = Absent \/ config \in [Actions -> ActionBinding]
    /\ IsSettings(sdk)
    /\ playing \in BOOLEAN /\ edits \in 0..MaxEdits

\* What was stored is what is loaded: once storage has taken an edit, a reload
\* brings exactly that map back, its cleared slots cleared, whatever the SDK's
\* settings have become; a file of another build keeps every slot it has.
StoredMapSurvives ==
    [][Reload /\ store \notin {Absent, Garbage} =>
        \A a \in DOMAIN store : \A s \in DOMAIN store[a].slot :
            config'[a].slot[s] = store[a].slot[s]]_vars

\* A returning player's keys stay on their buttons: after a load from the
\* settings of an earlier build, or from those this build has stored in their
\* place, each key named there that has a code is bound to its button.
MigrationKeepsKeys ==
    [][Reload /\ store = Absent /\ legacy \notin {Absent, Garbage} /\ OneKeyEach(legacy) =>
        \A n \in DOMAIN legacy.keys :
            CodeOf[n] # Unbound
                => \E s \in KeySlots : config'[legacy.keys[n]].slot[s] = CodeOf[n]]_vars

\* Without an edit, a reload leaves every primary key and every pad control
\* where it was, through any number of games, closed dialogs and loads.
PrimariesSurviveLoads ==
    [][Reload /\ config # Absent /\ edits = 0 /\ NoDoubleBooking(config) =>
        \A b \in Buttons : \A s \in SlotNames \ {"keyAlternate"} :
            config[b].slot[s] # Unbound => config'[b].slot[s] = config[b].slot[s]]_vars

\* "Translated forward once": a reload without an edit gives the map in use.
MigratesOnce ==
    [][Reload /\ config # Absent /\ edits = 0 => config' = config]_vars
=============================================================================
