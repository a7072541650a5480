------------------------- MODULE MCDaemonLifecycle -------------------------
(* Instances of DaemonLifecycle for TLC: two callers and what others do    *)
(* compete for the lock around a single entry; and one caller selects      *)
(* among two entries while the daemon ends.                                *)
EXTENDS DaemonLifecycle

CONSTANTS c1, c2, u1, u2, u3

MCUuid == {u1, u2, u3}

UuidSymmetry == Permutations(MCUuid)

MCText == {"a", "b"}

MCByteLen == [t \in MCText |-> 1]

MCTrimmed == [t \in MCText |-> t]

OneText == {"a"}

OneByteLen == [t \in OneText |-> 1]

OneTrimmed == [t \in OneText |-> t]

Policy(size) ==
    [max_history_size       |-> size,
     max_memory_usage_bytes |-> size,
     max_text_item_size     |-> 2,
     min_text_item_size     |-> 1,
     growing_lines          |-> FALSE,
     trim_items             |-> FALSE]

Setting(size) ==
    [policies |-> Policy(size), navigation_wrap |-> FALSE,
     track_changes |-> TRUE, track_applet_state |-> FALSE]

OnePolicy == {Policy(1)}

OneSetting == {Setting(1)}

TwoPolicy == {Policy(2)}

TwoSetting == {Setting(2)}

\* with two entries: applications copy one text, and calls add both
CopiedTexts == holding # "a" /\ channel # <<"a">>

\* Every selection returns to its caller (service.rs:169-261, 455-496),
\* whatever else goes on, unless the process ends first.  Callers are
\* interchangeable: one stands for all.
CallReturnsOrExit ==
    ~InPhase(c1, "idle") ~> InPhase(c1, "idle") \/ ~TasksRun
=============================================================================
