--------------------------- MODULE DurableHistory ---------------------------
(***************************************************************************)
(* What HistoryStore promises: the saved history is one register.  A save  *)
(* replaces it at once, a crash loses only what was not saved, and a       *)
(* restart shows what was saved last, less what its settings evict.        *)
(***************************************************************************)
CONSTANTS Content, NoItems, Evictions

VARIABLES
    up,       \* the daemon is running
    memory,   \* the history it holds
    value     \* the history a restart will show

vars == <<up, memory, value>>

Init == up = FALSE /\ memory = NoItems /\ value = NoItems

Change == up /\ memory' \in Content /\ UNCHANGED <<up, value>>

Save == up /\ value' = memory /\ UNCHANGED <<up, memory>>

Crash == up /\ up' = FALSE /\ memory' = NoItems /\ UNCHANGED value

Restart ==
    /\ ~up /\ up' = TRUE
    /\ \E kept \in Evictions : memory' = kept[value]
    /\ UNCHANGED value

Next == Change \/ Save \/ Crash \/ Restart

Spec == Init /\ [][Next]_vars
=============================================================================
