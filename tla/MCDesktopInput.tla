--------------------------- MODULE MCDesktopInput ---------------------------
(***************************************************************************)
(* Small instances of DesktopInput: one button with a key and a pad        *)
(* control, and one more action, a button or an extra.                     *)
(***************************************************************************)
EXTENDS DesktopInput, TLC

CONSTANTS a, b, ff, k1, k2, p1

Slots(key, key2, pad) ==
    [slot |-> [s \in SlotNames |->
                 CASE s = "keyPrimary"   -> key
                   [] s = "keyAlternate" -> key2
                   [] s = "padPrimary"   -> pad
                   [] s = "padAlternate" -> Unbound],
     turbo |-> FALSE, toggle |-> FALSE]

\* A button on a key and a pad control, an extra on a key of its own.  The
\* "toggle" of an extra can only come from an imported file.
MCMapsTwoActions ==
    {a :> Slots(k1, Unbound, p1) @@ ff :> [Slots(k2, Unbound, Unbound) EXCEPT !.toggle = TRUE]}

\* A key or another and the same pad control, for imports and presets.
MCMapsTwoLayouts == {a :> Slots(k1, Unbound, p1), a :> Slots(k2, Unbound, p1)}

\* One action on a key and a pad control with one of the flags.
MCMapsFlags ==
    {a :> [Slots(k1, Unbound, p1) EXCEPT !.toggle = TRUE],
     a :> [Slots(k1, Unbound, p1) EXCEPT !.turbo = TRUE]}

MCSources == Keys \cup (Pads \X PadControls)

\* A GBA game with two actions or with the flags, where the page captures;
\* a DS game with everything else that the page can do to the map.
MCSetups ==
    {[system |-> "gba", maps |-> MCMapsTwoActions, kinds |-> {"capture"}, maxEdits |-> 1],
     [system |-> "gba", maps |-> MCMapsFlags,      kinds |-> {"capture"}, maxEdits |-> 1],
     [system |-> "nds", maps |-> MCMapsTwoLayouts,
      kinds |-> {"clear", "flag", "replace"}, maxEdits |-> 1]}

MCMaps == UNION {s.maps : s \in MCSetups}
=============================================================================
