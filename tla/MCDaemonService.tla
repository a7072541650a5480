-------------------------- MODULE MCDaemonService --------------------------
(* Instances of DaemonService for TLC.                                     *)
EXTENDS DaemonService

CONSTANTS c1, u1, u2, u3

\* two texts are held at most, and the next needs an identifier of its own
MCUuid == {u1, u2, u3}

UuidSymmetry == Permutations(MCUuid)

MCText == {"a", "b"}

MCByteLen == [t \in MCText |-> IF t = "a" THEN 1 ELSE 2]

MCTrimmed == [t \in MCText |-> t]

MCStartsWith == {<<t, t>> : t \in MCText}

Policy(size, memory) ==
    [max_history_size       |-> size,
     max_memory_usage_bytes |-> memory,
     max_text_item_size     |-> 2,
     min_text_item_size     |-> 1,
     growing_lines          |-> FALSE,
     trim_items             |-> FALSE]

MCOffsets == {-1, 1}

MCPolicies == {Policy(1, 1), Policy(2, 4)}

\* the second follows the applet, keeps a single entry, and has no room for "b"
MCSettings ==
    {[policies |-> Policy(2, 4), navigation_wrap |-> FALSE,
      track_changes |-> TRUE, track_applet_state |-> FALSE],
     [policies |-> Policy(1, 1), navigation_wrap |-> FALSE,
      track_changes |-> TRUE, track_applet_state |-> TRUE]}
=============================================================================
