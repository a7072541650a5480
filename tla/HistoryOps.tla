----------------------------- MODULE HistoryOps -----------------------------
(***************************************************************************)
(* The data types and the operations of cosmic-paste-core: the clipboard   *)
(* history (history.rs), the active index (active_index.rs) and the        *)
(* session that couples them (lib.rs).  Every operation is an operator     *)
(* from a session record to the session it leaves, so that the modules     *)
(* with a state (HistorySession, DaemonService) share one translation.     *)
(*                                                                         *)
(* A session record flattens the structs HistorySession, History and       *)
(* ActiveIndexState.  Index 0 of the program is position 1 of a sequence;  *)
(* active_index keeps the program's 0-based value.                         *)
(***************************************************************************)
EXTENDS Integers, Sequences, SequencesExt

CONSTANTS
    Uuid,        \* identifiers of history items (Uuid::new_v4)
    Text,        \* plain texts, as copied and as stored
    ByteLen,     \* ByteLen[t]: the UTF-8 length of t
    Trimmed,     \* Trimmed[t]: t.trim()
    StartsWith,  \* pairs <<new, previous>> with new.starts_with(previous)
    Policies,    \* the policies a user's settings can produce
    I32Max       \* i32::MAX

PolicyRecord ==
    [max_history_size       : Nat,
     max_memory_usage_bytes : Nat,
     max_text_item_size     : Nat,
     min_text_item_size     : Nat,
     growing_lines          : BOOLEAN,
     trim_items             : BOOLEAN]

ASSUME TextAssumption ==
    /\ ByteLen \in [Text -> Nat]
    /\ Trimmed \in [Text -> Text]
    /\ StartsWith \subseteq Text \X Text
    /\ \A pair \in StartsWith : ByteLen[pair[2]] <= ByteLen[pair[1]]

ASSUME PoliciesAssumption == Policies \subseteq PolicyRecord

ASSUME I32Assumption == I32Max \in Nat

-----------------------------------------------------------------------------
(* Types.  byte_size is the item's own length: no caller passes a rich     *)
(* payload, so plain.len() is all it counts.                               *)

Item == [uuid : Uuid, text : Text]

Session ==
    [items           : Seq(Item),
     byte_total      : Nat,
     policies        : Policies,
     active_index    : Nat,
     navigation_wrap : BOOLEAN]

ByteSize(item) == ByteLen[item.text]

Bytes(items) == FoldSeq(LAMBDA item, sum : ByteSize(item) + sum, 0, items)

UuidsOf(items) == {items[i].uuid : i \in DOMAIN items}

Positions(s) == 0 .. Len(s.items) - 1

\* items.get(index) for an index in range
ItemAt(s, index) == s.items[index + 1]

WithinLength(s) == Len(s.items) <= s.policies.max_history_size

\* the running total is that of the items, and within the memory budget
ExactTotal(s) == s.byte_total = Bytes(s.items)

InBudget(s) == s.byte_total <= s.policies.max_memory_usage_bytes

\* a text, and a uuid, occurs once
DistinctTexts(s) ==
    \A i, j \in DOMAIN s.items : s.items[i].text = s.items[j].text => i = j

DistinctUuids(s) ==
    \A i, j \in DOMAIN s.items : s.items[i].uuid = s.items[j].uuid => i = j

\* what every operation keeps
Sound(s) == WithinLength(s) /\ DistinctUuids(s) /\ ExactTotal(s)

ActiveInRange(s) == s.items # <<>> => s.active_index \in Positions(s)

NewSession(policies, wrap) ==
    [items           |-> <<>>,
     byte_total      |-> 0,
     policies        |-> policies,
     active_index    |-> 0,
     navigation_wrap |-> wrap]

\* u64::saturating_sub
SaturatingSub(a, b) == IF a - b \in Nat THEN a - b ELSE 0

-----------------------------------------------------------------------------
(* Eviction.  enforce_limits pops from the old end, first down to          *)
(* max_history_size and then until byte_total fits the budget.             *)

\* byte_total once only the n newest items are left
TotalOfNewest(s, n) ==
    SaturatingSub(s.byte_total, Bytes(SubSeq(s.items, n + 1, Len(s.items))))

\* items left by the first loop
WithinCount(s) ==
    IF Len(s.items) > s.policies.max_history_size
    THEN s.policies.max_history_size
    ELSE Len(s.items)

\* pops after which the second loop stops: the budget is met, or nothing is left
SecondLoopStops(s) ==
    {k \in 0 .. WithinCount(s) :
        \/ k = WithinCount(s)
        \/ TotalOfNewest(s, WithinCount(s) - k) <= s.policies.max_memory_usage_bytes}

\* mutated EnforceLimits: the byte budget is not looked at
EnforceCountOnly(s) ==
    [s EXCEPT !.items = SubSeq(s.items, 1, WithinCount(s)),
              !.byte_total = TotalOfNewest(s, WithinCount(s))]

EnforceLimits(s) ==
    LET pops == CHOOSE k \in SecondLoopStops(s) :
                    \A j \in SecondLoopStops(s) : k <= j
        kept == WithinCount(s) - pops
    IN  [s EXCEPT !.items = SubSeq(s.items, 1, kept),
                  !.byte_total = TotalOfNewest(s, kept)]

\* mutated SetPolicies: the new limits wait for the next item
SetPoliciesOnly(s, policies) == [s EXCEPT !.policies = policies]

SetPolicies(s, policies) == EnforceLimits([s EXCEPT !.policies = policies])

ApplySettings(s, policies, wrap) ==
    [SetPolicies(s, policies) EXCEPT !.navigation_wrap = wrap]

-----------------------------------------------------------------------------
(* Ingest.                                                                 *)

PrepareText(policies, text) ==
    IF policies.trim_items THEN Trimmed[text] ELSE text

SizeRefused(policies, text) ==
    \/ ByteLen[text] = 0
    \/ ByteLen[text] < policies.min_text_item_size
    \/ ByteLen[text] > policies.max_text_item_size

\* try_growing_lines_replace applies: the newest item is a proper prefix
Grows(s, text) ==
    /\ s.policies.growing_lines
    /\ s.items # <<>>
    /\ <<text, s.items[1].text>> \in StartsWith
    /\ ByteLen[text] > ByteSize(s.items[1])

\* mutated Holding: only the newest item is compared
HoldingNewest(s, text) == {i \in DOMAIN s.items : i = 1 /\ s.items[i].text = text}

\* positions whose checksum is that of the text (find_text_by_checksum)
Holding(s, text) == {i \in DOMAIN s.items : s.items[i].text = text}

FirstHolding(s, text) ==
    CHOOSE i \in Holding(s, text) : \A j \in Holding(s, text) : i <= j

\* mutated GrowFirst: the size of the text replaced stays in the total
GrowFirstAddsOnly(s, text) ==
    [s EXCEPT !.items[1].text = text, !.byte_total = s.byte_total + ByteLen[text]]

GrowFirst(s, text) ==
    [s EXCEPT !.items[1].text = text,
              !.byte_total = SaturatingSub(s.byte_total, ByteSize(s.items[1]))
                               + ByteLen[text]]

\* mutated MoveToFront: the item stays where it was, too
CopyToFront(s, i) == [s EXCEPT !.items = Cons(s.items[i], s.items)]

\* mutated MoveToFront: the item trades places with the newest
SwapWithFront(s, i) == [s EXCEPT !.items[1] = s.items[i], !.items[i] = s.items[1]]

MoveToFront(s, i) ==
    [s EXCEPT !.items = Cons(s.items[i], RemoveAt(s.items, i))]

\* mutated PushFront: nothing is evicted
PushFrontUnlimited(s, item) ==
    [s EXCEPT !.items = Cons(item, s.items),
              !.byte_total = s.byte_total + ByteSize(item)]

PushFront(s, item) ==
    EnforceLimits([s EXCEPT !.items = Cons(item, s.items),
                            !.byte_total = s.byte_total + ByteSize(item)])

IngestOutcome(s, text) ==
    LET prepared == PrepareText(s.policies, text)
    IN  IF SizeRefused(s.policies, prepared) THEN "RejectedTextSize"
        ELSE IF Grows(s, prepared) THEN "ReplacedGrowingLine"
        ELSE IF Holding(s, prepared) # {} THEN "MovedExisting"
        ELSE "Added"

\* History::ingest_text; uuid is the fresh identifier of an item it creates
IngestText(s, text, uuid) ==
    LET prepared == PrepareText(s.policies, text)
    IN  CASE IngestOutcome(s, text) = "RejectedTextSize" -> s
          [] IngestOutcome(s, text) = "ReplacedGrowingLine" -> GrowFirst(s, prepared)
          [] IngestOutcome(s, text) = "MovedExisting" ->
                MoveToFront(s, FirstHolding(s, prepared))
          [] IngestOutcome(s, text) = "Added" ->
                PushFront(s, [uuid |-> uuid, text |-> prepared])

\* on_external_ingest, on_select, on_pop, on_empty_history and the like
ResetActive(s) == [s EXCEPT !.active_index = 0]

\* HistorySession::ingest_text
SessionIngest(s, text, uuid) ==
    IF IngestOutcome(s, text) = "RejectedTextSize" THEN s
    ELSE ResetActive(IngestText(s, text, uuid))

-----------------------------------------------------------------------------
(* Selection, removal and navigation.  Positions of an item with a uuid    *)
(* are at most one, uuids being fresh.                                     *)

FindIndex(s, uuid) == {i \in DOMAIN s.items : s.items[i].uuid = uuid}

Found(s, uuid) == FindIndex(s, uuid) # {}

FirstWith(s, uuid) ==
    CHOOSE i \in FindIndex(s, uuid) : \A j \in FindIndex(s, uuid) : i <= j

SessionSelect(s, uuid) == ResetActive(MoveToFront(s, FirstWith(s, uuid)))

RemoveItem(s, i) ==
    [s EXCEPT !.items = RemoveAt(s.items, i),
              !.byte_total = SaturatingSub(s.byte_total, ByteSize(s.items[i]))]

SessionPop(s) == ResetActive(RemoveItem(s, 1))

\* mutated OnDelete: a deletion at the active index counts as one before it
OnDeleteAtOrBefore(active, deleted, lenAfter) ==
    IF lenAfter = 0 THEN 0 ELSE IF deleted <= active THEN active - 1 ELSE active

\* mutated OnDelete: the index does not follow the entries that move up
OnDeleteNoShift(active, deleted, lenAfter) ==
    IF active < lenAfter \/ lenAfter = 0 THEN active ELSE lenAfter - 1

\* mutated OnDelete: deleting the last entry leaves the index on it
OnDeleteNoClamp(active, deleted, lenAfter) ==
    IF lenAfter = 0 THEN 0 ELSE IF deleted < active THEN active - 1 ELSE active

\* ActiveIndexState::on_delete, with deleted 0-based
OnDelete(active, deleted, lenAfter) ==
    IF lenAfter = 0 THEN 0
    ELSE IF deleted < active THEN active - 1
    ELSE IF deleted = active /\ active > lenAfter - 1 THEN lenAfter - 1
    ELSE active

SessionDelete(s, uuid) ==
    LET i == FirstWith(s, uuid)
    IN  [RemoveItem(s, i) EXCEPT
            !.active_index = OnDelete(s.active_index, i - 1, Len(s.items) - 1)]

SessionEmpty(s) == ResetActive([s EXCEPT !.items = <<>>, !.byte_total = 0])

\* set_active_index is refused past the end of a history that is not empty
IndexRefused(s, index) == s.items # <<>> /\ index >= Len(s.items)

SetActiveIndex(s, index) ==
    IF IndexRefused(s, index) THEN s
    ELSE [s EXCEPT !.active_index = IF s.items = <<>> THEN 0 ELSE index]

\* the two's complement sum of two i32 in a release build
WrappingAdd(a, b) ==
    LET sum == a + b
    IN  IF sum > I32Max THEN sum - 2 * (I32Max + 1)
        ELSE IF sum < -(I32Max + 1) THEN sum + 2 * (I32Max + 1)
        ELSE sum

\* mutated OffsetTarget: wraps one position too late
OffsetTargetOffByOne(s, offset) ==
    LET sum == WrappingAdd(s.active_index, offset)
    IN  IF s.navigation_wrap THEN sum % (Len(s.items) + 1) ELSE sum

\* the index ActiveIndexState::select_at_offset aims at
OffsetTarget(s, offset) ==
    LET sum == WrappingAdd(s.active_index, offset)
    IN  IF s.navigation_wrap THEN sum % Len(s.items) ELSE sum

\* EmptyHistory, or NavigationBoundary
OffsetRefused(s, offset) ==
    s.items = <<>> \/ OffsetTarget(s, offset) \notin Positions(s)

SelectAtOffset(s, offset) ==
    IF OffsetRefused(s, offset) THEN s
    ELSE [s EXCEPT !.active_index = OffsetTarget(s, offset)]
=============================================================================
