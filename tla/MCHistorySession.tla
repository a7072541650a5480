-------------------------- MODULE MCHistorySession --------------------------
(* Instances of HistorySession for TLC.                                    *)
EXTENDS HistorySession

CONSTANTS u1, u2, u3, u4

MCUuid == {u1, u2, u3, u4}

UuidSymmetry == Permutations(MCUuid)

\* "foo" grows into "foo bar"; " a " trims to "a"; "   " trims to nothing
MCText == {"", "   ", "a", " a ", "foo", "foo bar"}

MCByteLen ==
    [t \in MCText |->
        CASE t = "" -> 0 [] t = "a" -> 1 [] t \in {"   ", " a ", "foo"} -> 3
          [] t = "foo bar" -> 7]

MCTrimmed ==
    [t \in MCText |-> CASE t = "   " -> "" [] t = " a " -> "a" [] OTHER -> t]

\* every text starts with itself and with the empty text
MCStartsWith ==
    {<<t, t>> : t \in MCText} \cup {<<t, "">> : t \in MCText}
      \cup {<<"foo bar", "foo">>}

Policy(size, memory, min, growing, trim) ==
    [max_history_size       |-> size,
     max_memory_usage_bytes |-> memory,
     max_text_item_size     |-> 7,
     min_text_item_size     |-> min,
     growing_lines          |-> growing,
     trim_items             |-> trim]

\* roomy, short, tight on bytes (smaller than the largest item), trimming
PlainPolicies ==
    {Policy(3, 20, 1, FALSE, FALSE), Policy(1, 20, 1, FALSE, FALSE),
     Policy(3, 6, 1, FALSE, FALSE), Policy(3, 20, 2, FALSE, TRUE)}

GrowingPolicies ==
    {Policy(3, 11, 1, TRUE, FALSE), Policy(3, 20, 1, FALSE, FALSE)}

MCI32Max == 6

MCOffsets == {-2, -1, 0, 1, 2, MCI32Max, -(MCI32Max + 1)}
=============================================================================
