--------------------------- MODULE MCHistoryStore ---------------------------
(* Instances of HistoryStore for TLC: the empty history and two histories  *)
(* of different lengths.                                                   *)
EXTENDS HistoryStore, TLC

CONSTANTS none, short, long

MCContent == {none, short, long}

\* settings that keep everything, and settings with room for one item
MCEvictions ==
    {[c \in MCContent |-> c], [c \in MCContent |-> IF c = long THEN short ELSE c]}

MCSize == (none :> 0) @@ (short :> 1) @@ (long :> 2)
=============================================================================
