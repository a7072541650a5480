--------------------------- MODULE HistorySession ---------------------------
(***************************************************************************)
(* One HistorySession (cosmic-paste-core/src/lib.rs) as a state machine:   *)
(* an action per operation the daemon may perform on it, in any order.     *)
(* A call that is refused leaves the session as it was, so it is no step   *)
(* of this module.                                                         *)
(***************************************************************************)
EXTENDS HistoryOps

CONSTANT Offsets   \* the i32 offsets callers of SelectAtOffset pass

ASSUME OffsetsAssumption == Offsets \subseteq -(I32Max + 1) .. I32Max

VARIABLE session

vars == <<session>>

TypeOK == session \in Session

Init == \E policies \in Policies, wrap \in BOOLEAN :
            session = NewSession(policies, wrap)

-----------------------------------------------------------------------------

Ingest(text) ==
    /\ IngestOutcome(session, text) # "RejectedTextSize"
    /\ \E uuid \in Uuid \ UuidsOf(session.items) :
           session' = SessionIngest(session, text, uuid)

Select(uuid) ==
    /\ Found(session, uuid)
    /\ session' = SessionSelect(session, uuid)

Delete(uuid) ==
    /\ Found(session, uuid)
    /\ session' = SessionDelete(session, uuid)

Pop ==
    /\ session.items # <<>>
    /\ session' = SessionPop(session)

Empty == session' = SessionEmpty(session)

Highlight(index) ==
    /\ ~IndexRefused(session, index)
    /\ session' = SetActiveIndex(session, index)

Navigate(offset) ==
    /\ ~OffsetRefused(session, offset)
    /\ session' = SelectAtOffset(session, offset)

\* a reload of the user's settings (DaemonState::apply_settings)
Reload(policies, wrap) == session' = ApplySettings(session, policies, wrap)

Next ==
    \/ \E text \in Text : Ingest(text)
    \/ \E uuid \in Uuid : Select(uuid)
    \/ \E uuid \in Uuid : Delete(uuid)
    \/ Pop
    \/ Empty
    \/ \E index \in Positions(session) \cup {0} : Highlight(index)
    \/ \E offset \in Offsets : Navigate(offset)
    \/ \E policies \in Policies, wrap \in BOOLEAN : Reload(policies, wrap)

Spec == Init /\ [][Next]_vars

-----------------------------------------------------------------------------
(* Safety.                                                                 *)

\* The running total that eviction compares with the budget is the sum of
\* the sizes of the items held: no operation adds or subtracts a size twice,
\* forgets one, or saturates (history.rs keeps it by hand in six places).
ByteTotalExact == ExactTotal(session)

\* The list never outgrows max_history_size, whatever the last reload set.
LengthBounded == WithinLength(session)

\* The list never outgrows the memory budget (enforce_limits).
WithinBudget == InBudget(session)

\* A text is held once: ingesting it again moves it instead of adding it.
TextsDistinct == DistinctTexts(session)

\* A uuid names one item, so Select and Delete act on the item meant.
UuidsDistinct == DistinctUuids(session)

\* The active index designates an entry whenever there is one
\* (active_index.rs: "Tracks which history entry is "active"").
ActiveDesignatesEntry == ActiveInRange(session)

\* Only a reload of the settings, which evicts without telling the active
\* index, can leave the active index past the end of the list.
OnlyReloadStrandsActive ==
    [][ActiveInRange(session) /\ ~ActiveInRange(session')
         => \E policies \in Policies, wrap \in BOOLEAN : Reload(policies, wrap)]_vars

\* Deleting an entry never moves the selection to another item while the
\* active one is still there: the index shifts with the list.
DeleteKeepsActive ==
    [][\A uuid \in Uuid :
         /\ Delete(uuid)
         /\ ActiveInRange(session)
         /\ ItemAt(session, session.active_index).uuid # uuid
         => ItemAt(session', session'.active_index)
              = ItemAt(session, session.active_index)]_vars

\* Navigation by an offset moves by exactly that offset, modulo the length
\* when wrapping: i32 arithmetic shows in no step whose true sum fits an i32,
\* and clamped navigation never takes a step on account of an overflow.
NavigationExact ==
    [][\A offset \in Offsets :
         /\ Navigate(offset)
         /\ \/ ~session.navigation_wrap
            \/ session.active_index + offset \in -(I32Max + 1) .. I32Max
         => LET exact == session.active_index + offset
            IN  session'.active_index =
                  IF session.navigation_wrap THEN exact % Len(session.items)
                  ELSE exact]_vars

\* A text replaced because it grew: the one way in which ingest changes the
\* list without looking at the other items or at the budget.
GrowthStep ==
    \E text \in Text :
        IngestOutcome(session, text) = "ReplacedGrowingLine" /\ Ingest(text)

\* The budget is exceeded by a growing line or not at all.
BudgetLostOnlyByGrowth == [][WithinBudget /\ ~WithinBudget' => GrowthStep]_vars

\* A text is held twice because of a growing line or not at all.
DuplicatesOnlyByGrowth == [][TextsDistinct /\ ~TextsDistinct' => GrowthStep]_vars

\* Without growing lines the session keeps a list of recent texts: each is
\* held once, the last one used stands first, the others keep their order,
\* and room is made from the old end only.
Recency ==
    INSTANCE RecencyList WITH
        recent <- [i \in DOMAIN session.items |-> session.items[i].text]

ImplementsRecency == Recency!Spec
=============================================================================
