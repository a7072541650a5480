------------------------- MODULE MCClipboardMonitor -------------------------
(* The instance of ClipboardMonitor for TLC: a text that is read at once,  *)
(* whole or in part, and may be written, one from a slow owner, an image,  *)
(* and one that is not UTF-8.  A part may be a text (p) or cut inside a    *)
(* character (g).                                                          *)
EXTENDS ClipboardMonitor

CONSTANTS a, p, s, i, g

MCParts == [t \in Text |-> IF t = a THEN {p, g} ELSE {}]

MCSelections ==
    {<<a, "Clipboard">>, <<s, "Clipboard">>, <<i, "Clipboard">>, <<g, "Primary">>}
=============================================================================
