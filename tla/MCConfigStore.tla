--------------------------- MODULE MCConfigStore ---------------------------
(***************************************************************************)
(* A small instance of ConfigStore: two buttons and an extra.  Key kx has  *)
(* no name, name nx no key, and kr shares its name with k4, as the right   *)
(* Shift key does with the left.                                           *)
(***************************************************************************)
EXTENDS ConfigStore, TLC

CONSTANTS a, b, ff, k1, k2, k3, k4, kx, kr, n1, n2, n3, n4, nx, p1, p2, axis

MCNameOf == k1 :> n1 @@ k2 :> n2 @@ k3 :> n3 @@ k4 :> n4 @@ kx :> Unbound @@ kr :> n4
MCCodeOf == n1 :> k1 @@ n2 :> k2 @@ n3 :> k3 @@ n4 :> k4 @@ nx :> Unbound

Slots(key, key2, pad, pad2) ==
    [slot |-> "keyPrimary" :> key @@ "keyAlternate" :> key2 @@
              "padPrimary" :> pad @@ "padAlternate" :> pad2,
     turbo |-> FALSE, toggle |-> FALSE]

\* As in dsDefaults: a letter with an arrow, a pad button with an axis.
MCDefaults ==
    a :> Slots(k1, k2, p1, axis) @@ b :> Slots(k3, Unbound, p2, Unbound) @@
    ff :> Slots(k4, Unbound, Unbound, Unbound)

MCPreset ==
    a :> Slots(k2, Unbound, p2, Unbound) @@ b :> Slots(kx, k1, p1, Unbound) @@
    ff :> Slots(k4, Unbound, Unbound, Unbound)

MCPresets == {MCDefaults, MCPreset}

\* A file without the extra, and one from before alternates.
MCFiles ==
    {a :> Slots(k3, Unbound, Unbound, p2) @@ b :> [Slots(k1, kx, p1, Unbound) EXCEPT !.turbo = TRUE],
     a :> [slot |-> "keyPrimary" :> kx @@ "padPrimary" :> Unbound, turbo |-> FALSE, toggle |-> TRUE]}

Settings(keys, alternates, padsA, padsB) ==
    [keys |-> keys, alternates |-> alternates, pads |-> a :> padsA @@ b :> padsB]

\* DefaultKeyboardBindings and DefaultGamepadBindings know no arrows.
MCSdkDefault == Settings(n1 :> a @@ n3 :> b, {}, <<p1>>, <<p2>>)

\* Two swapped keys; an alternate and a name without a key; an extra's key.
MCLegacyMaps ==
    {Settings(n3 :> a @@ n1 :> b, {}, <<p2>>, <<p1>>),
     Settings(n2 :> a @@ n3 :> a @@ nx :> b, {n3}, <<p1, p2>>, << >>),
     Settings(n4 :> a @@ n2 :> b, {n2}, << >>, <<p2>>)}

MCRank == a :> 1 @@ b :> 0
=============================================================================
