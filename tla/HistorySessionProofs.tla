------------------------ MODULE HistorySessionProofs ------------------------
(***************************************************************************)
(* Theorems about HistorySession, for every set of texts, uuids, policies  *)
(* and offsets.                                                            *)
(***************************************************************************)
EXTENDS HistorySession, HistoryOpsProofs

\* The inductive invariant: uuids must be known distinct for Delete and Select
\* to act on one item, the length bound survives a move only because a move
\* keeps the length, and the total must be exact for eviction to end within
\* the budget and for a removal to subtract no more than it holds.
IInv == TypeOK /\ Sound(session)

\* What a step that is no growing line keeps besides.
Kept == IInv' /\ (TextsDistinct => TextsDistinct') /\ (WithinBudget => WithinBudget')

\* An operation that keeps a sound session sound keeps the invariant.
LEMMA SoundStep ==
    ASSUME IInv, KeepsSound(session, session')
    PROVE  IInv' /\ (WithinBudget => WithinBudget')
  BY DEF IInv, TypeOK, KeepsSound, WithinBudget

\* Deleting one of lenAfter + 1 entries leaves an index, and one that is in
\* range when the index before was.
LEMMA OnDeleteRange ==
    ASSUME NEW active \in Nat, NEW deleted \in Nat, NEW lenAfter \in Nat,
           deleted <= lenAfter
    PROVE  /\ OnDelete(active, deleted, lenAfter) \in Nat
           /\ lenAfter # 0 /\ active <= lenAfter
                => OnDelete(active, deleted, lenAfter) < lenAfter
  BY DEF OnDelete

\* Removing the item at i, and whatever happens to the active index then,
\* keeps the invariant, the budget, and repeats no text.
LEMMA RemovalKeeps ==
    ASSUME IInv, NEW i \in DOMAIN session.items, NEW active \in Nat,
           session' = [RemoveItem(session, i) EXCEPT !.active_index = active]
    PROVE  Kept
  <1> DEFINE r == RemoveItem(session, i)
  <1>1. session \in Session /\ Sound(session)
    BY DEF IInv, TypeOK
  <1>2. r \in Session /\ (DistinctTexts(session) => DistinctTexts(r))
    BY <1>1, RemoveItemProperties, RemoveItemKeepsDistinct
  <1>3. KeepsSound(session, session')
    BY <1>1, RemovalSound
  <1> HIDE DEF r
  <1>4. session'.items = r.items
    BY <1>2 DEF r, Session
  <1> QED
    BY <1>2, <1>3, <1>4, SoundStep DEF Kept, TextsDistinct, DistinctTexts

\* A step that keeps the session sound and the items as they are.
LEMMA SameListKeeps ==
    ASSUME IInv, KeepsSound(session, session'), session'.items = session.items
    PROVE  Kept
  BY SoundStep DEF Kept, TextsDistinct, DistinctTexts

\* Ingest keeps the invariant, leaves the budget and repeats a text only by
\* growth, and selects the newest.
LEMMA IngestKeeps ==
    ASSUME IInv, NEW text \in Text, Ingest(text)
    PROVE  /\ IInv'
           /\ ~GrowthStep => Kept
           /\ session'.active_index = 0
  <1>1. PICK uuid \in Uuid \ UuidsOf(session.items) :
           session' = SessionIngest(session, text, uuid)
    BY DEF Ingest
  <1>2. ~GrowthStep => IngestOutcome(session, text) # "ReplacedGrowingLine"
    BY DEF GrowthStep
  <1>3. /\ session \in Session /\ Sound(session)
        /\ IngestOutcome(session, text) # "RejectedTextSize"
    BY DEF IInv, TypeOK, Ingest
  <1>4. /\ session' \in Session
        /\ IngestOutcome(session, text) # "ReplacedGrowingLine" /\ DistinctTexts(session)
             => DistinctTexts(session')
        /\ session'.active_index = 0
    BY <1>1, <1>3, SessionIngestProperties
  <1>5. /\ Sound(session')
        /\ IngestOutcome(session, text) # "ReplacedGrowingLine"
             => KeepsSound(session, session')
    BY <1>1, <1>3, IngestSound
  <1>6. IInv'
    BY <1>4, <1>5 DEF IInv, TypeOK
  <1>7. ~GrowthStep => Kept
    BY <1>2, <1>4, <1>5, <1>6, SoundStep DEF Kept, TextsDistinct
  <1> QED
    BY <1>4, <1>6, <1>7

\* Select moves one item to the front and selects it.
LEMMA SelectKeeps ==
    ASSUME IInv, NEW uuid \in Uuid, Select(uuid)
    PROVE  Kept /\ session'.active_index = 0
  <1> DEFINE i == FirstWith(session, uuid)
             m == MoveToFront(session, i)
  <1>1. /\ session \in Session /\ Sound(session) /\ Found(session, uuid)
        /\ i \in DOMAIN session.items
    BY FirstPositions DEF IInv, TypeOK, Select
  <1>2. session' = ResetActive(m)
    BY DEF Select, SessionSelect
  <1>3. KeepsSound(session, session')
    BY <1>1, ItemOperationsSound DEF Select
  <1> HIDE DEF i
  <1>4. m \in Session /\ (DistinctTexts(session) => DistinctTexts(m))
    BY <1>1, MoveToFrontProperties, MoveToFrontKeepsDistinct
  <1> HIDE DEF m
  <1>5. session'.items = m.items /\ session'.active_index = 0
    BY <1>2, <1>4, ResetActiveProperties
  <1> QED
    BY <1>3, <1>4, <1>5, SoundStep DEF Kept, TextsDistinct, DistinctTexts

\* Delete removes one item.
LEMMA DeleteKeeps ==
    ASSUME IInv, NEW uuid \in Uuid, Delete(uuid)
    PROVE  Kept
  <1> DEFINE i == FirstWith(session, uuid)
             active == OnDelete(session.active_index, i - 1, Len(session.items) - 1)
  <1>1. session \in Session /\ i \in DOMAIN session.items
    BY FirstPositions DEF IInv, TypeOK, Delete
  <1>2. session' = [RemoveItem(session, i) EXCEPT !.active_index = active]
    BY DEF Delete, SessionDelete
  <1>3. active \in Nat
    <2> HIDE DEF i
    <2>1. /\ session.active_index \in Nat
          /\ i - 1 \in Nat /\ Len(session.items) - 1 \in Nat
          /\ i - 1 <= Len(session.items) - 1
      BY <1>1, SessionFields
    <2> QED
      BY ONLY <2>1, OnDeleteRange
  <1> HIDE DEF i, active
  <1> QED
    BY <1>1, <1>2, <1>3, RemovalKeeps

\* Pop removes the newest item.
LEMMA PopKeeps ==
    ASSUME IInv, Pop
    PROVE  Kept /\ session'.active_index = 0
  <1>1. session \in Session /\ 1 \in DOMAIN session.items
    BY SessionFields DEF IInv, TypeOK, Pop
  <1>2. session' = [RemoveItem(session, 1) EXCEPT !.active_index = 0]
    BY DEF Pop, SessionPop, ResetActive
  <1>3. session'.active_index = 0
    BY <1>1, <1>2, RemoveItemProperties DEF Session
  <1> QED
    BY <1>1, <1>2, <1>3, RemovalKeeps

\* Empty leaves nothing that could break the invariant.
LEMMA EmptyKeeps ==
    ASSUME IInv, Empty
    PROVE  Kept /\ session'.active_index = 0
  <1>1. session \in Session
    BY DEF IInv, TypeOK
  <1>2. KeepsSound(session, session')
    BY <1>1, EmptySound DEF Empty
  <1>3. session'.items = <<>> /\ session'.active_index = 0
    BY <1>1 DEF Empty, SessionEmpty, ResetActive, Session
  <1>4. TextsDistinct'
    BY <1>3 DEF TextsDistinct, DistinctTexts
  <1> QED
    BY <1>2, <1>3, <1>4, SoundStep DEF Kept

\* Highlighting changes the active index only, to one in range.
LEMMA HighlightKeeps ==
    ASSUME IInv, NEW index \in Positions(session) \cup {0}, Highlight(index)
    PROVE  Kept /\ ActiveInRange(session')
  <1>1. session \in Session /\ Sound(session) /\ index \in Nat
    BY SessionFields DEF IInv, TypeOK, Positions
  <1>2. /\ session'.items = session.items
        /\ session.items # <<>> => session'.active_index = index /\ index < Len(session.items)
    BY <1>1, SessionFields DEF Highlight, SetActiveIndex, IndexRefused, Session
  <1>3. KeepsSound(session, session')
    BY <1>1, IndexOperationsSound DEF Highlight
  <1> QED
    BY <1>1, <1>2, <1>3, SameListKeeps, SessionFields DEF ActiveInRange, Positions

\* Navigation changes the active index only, to one in range.
LEMMA NavigateKeeps ==
    ASSUME IInv, NEW offset \in Offsets, Navigate(offset)
    PROVE  Kept /\ ActiveInRange(session')
  <1> DEFINE target == OffsetTarget(session, offset)
  <1>1. session \in Session /\ Sound(session) /\ target \in Positions(session)
    BY DEF IInv, TypeOK, Navigate, OffsetRefused
  <1>2. session' = [session EXCEPT !.active_index = target]
    BY DEF Navigate, SelectAtOffset
  <1> HIDE DEF target
  <1>3. session'.items = session.items /\ session'.active_index = target
    BY <1>1, <1>2 DEF Session
  <1>4. KeepsSound(session, session')
    BY <1>1, IndexOperationsSound DEF Navigate
  <1> QED
    BY <1>1, <1>3, <1>4, SameListKeeps DEF ActiveInRange, Positions

\* A reload evicts from the old end down to the new limits.
LEMMA ReloadKeeps ==
    ASSUME IInv, NEW policies \in Policies, NEW wrap \in BOOLEAN, Reload(policies, wrap)
    PROVE  Kept /\ WithinBudget'
  <1> DEFINE t == [session EXCEPT !.policies = policies]
             e == EnforceLimits(t)
  <1>1. session \in Session /\ Sound(session) /\ t \in Session /\ t.items = session.items
    BY DEF IInv, TypeOK, Session
  <1>2. KeepsSound(session, session') /\ InBudget(session')
    BY <1>1, ApplySettingsSound DEF Reload
  <1> HIDE DEF t
  <1>3. /\ e \in Session
        /\ Len(e.items) <= Len(t.items)
        /\ \A i \in DOMAIN e.items : e.items[i] = t.items[i]
    BY <1>1, EnforceLimitsProperties
  <1>4. session' = [e EXCEPT !.navigation_wrap = wrap]
    BY DEF Reload, ApplySettings, SetPolicies, t
  <1> HIDE DEF e
  <1>5. session'.items = e.items
    BY <1>3, <1>4 DEF Session
  <1>6. DOMAIN e.items \subseteq DOMAIN session.items
    BY <1>1, <1>3, SessionFields
  <1>7. DistinctTexts(session) => DistinctTexts(session')
    BY <1>1, <1>3, <1>5, <1>6 DEF DistinctTexts
  <1> QED
    BY <1>2, <1>7, SoundStep DEF Kept, TextsDistinct, WithinBudget

\* Deleting keeps the active index in range, and on the entry it was on
\* unless that is the one deleted.
LEMMA DeleteTracksActive ==
    ASSUME IInv, NEW uuid \in Uuid, Delete(uuid), ActiveInRange(session)
    PROVE  /\ ActiveInRange(session')
           /\ ItemAt(session, session.active_index).uuid # uuid
                => ItemAt(session', session'.active_index)
                     = ItemAt(session, session.active_index)
  <1> DEFINE i == FirstWith(session, uuid)
             n == Len(session.items) - 1
             a == session.active_index
             b == OnDelete(a, i - 1, n)
             r == RemoveItem(session, i)
  <1>1. /\ session \in Session /\ i \in DOMAIN session.items
        /\ session.items[i].uuid = uuid
    BY FirstPositions DEF IInv, TypeOK, Delete
  <1>2. session' = [r EXCEPT !.active_index = b]
    BY DEF Delete, SessionDelete
  <1> HIDE DEF i
  <1>3. /\ i - 1 \in Nat /\ n \in Nat /\ i - 1 <= n /\ a \in Nat
        /\ a <= n /\ i \in Nat
    BY <1>1, SessionFields DEF ActiveInRange, Positions
  <1>4. /\ r \in Session /\ Len(r.items) = n
        /\ \A j \in DOMAIN r.items : r.items[j] = session.items[KeptFrom(i, j)]
    BY <1>1, RemoveItemProperties
  <1>5. DOMAIN r.items = 1 .. n /\ (r.items # <<>> => n # 0)
    <2> HIDE DEF r, n
    <2>1. r.items \in Seq(Item) /\ DOMAIN r.items = 1 .. n
      BY <1>4, SessionFields
    <2>2. \A list \in Seq(Item) : Len(list) = 0 => list = <<>>
      OBVIOUS
    <2> QED
      BY <1>4, <2>1, <2>2
  <1> HIDE DEF r, n, a, b
  <1>6. b \in Nat /\ (n # 0 => b < n)
    BY <1>3, OnDeleteRange DEF b
  <1>7. session'.items = r.items /\ session'.active_index = b
    BY <1>2, <1>4, <1>6 DEF Session
  <1>8. ActiveInRange(session')
    BY <1>3, <1>4, <1>5, <1>6, <1>7 DEF ActiveInRange, Positions
  <1>9. ASSUME session.items[a + 1].uuid # uuid
        PROVE  session'.items[b + 1] = session.items[a + 1]
    <2>1. a # i - 1
      BY <1>1, <1>3, <1>9
    <2>2. b = IF i - 1 < a THEN a - 1 ELSE a
      BY <1>3, <2>1 DEF OnDelete, b
    <2>3. b + 1 \in 1 .. n /\ KeptFrom(i, b + 1) = a + 1
      BY <1>3, <2>1, <2>2 DEF KeptFrom
    <2> QED
      BY <2>3, <1>4, <1>5, <1>7
  <1> QED
    BY <1>7, <1>8, <1>9 DEF ItemAt, a

-----------------------------------------------------------------------------

Reloads == \E policies \in Policies, wrap \in BOOLEAN : Reload(policies, wrap)

\* Every action of the session keeps the invariant, and what the action
\* properties say of it.
LEMMA StepKeeps ==
    ASSUME IInv, [Next]_vars
    PROVE  /\ IInv'
           /\ ~GrowthStep => Kept
           /\ ActiveInRange(session) => ActiveInRange(session') \/ Reloads
  <1>0. session \in Session /\ Sound(session)
    BY DEF IInv, TypeOK
  <1>1. CASE UNCHANGED vars
    <2>1. session' = session
      BY <1>1 DEF vars
    <2>2. KeepsSound(session, session')
      BY <1>0, <2>1 DEF KeepsSound
    <2> QED
      BY <2>1, <2>2, SameListKeeps DEF Kept
  <1> DEFINE ToFront == session'.active_index = 0
  <1>2. IInv' /\ ToFront => ActiveInRange(session')
    <2>1. session' \in Session => Len(session'.items) \in Nat /\
                                  (session'.items # <<>> => Len(session'.items) > 0)
      BY SessionFields
    <2> QED
      BY <2>1 DEF IInv, TypeOK, ActiveInRange, Positions
  <1>3. ASSUME NEW text \in Text, Ingest(text)
        PROVE  IInv' /\ (~GrowthStep => Kept) /\ ToFront
    BY <1>3, IngestKeeps
  <1>4. ASSUME NEW uuid \in Uuid, Select(uuid)
        PROVE  Kept /\ ToFront
    BY <1>4, SelectKeeps
  <1>5. ASSUME NEW uuid \in Uuid, Delete(uuid)
        PROVE  Kept /\ (ActiveInRange(session) => ActiveInRange(session'))
    BY <1>5, DeleteKeeps, DeleteTracksActive
  <1>6. CASE Pop
    BY <1>2, <1>6, PopKeeps DEF Kept
  <1>7. CASE Empty
    BY <1>2, <1>7, EmptyKeeps DEF Kept
  <1>8. ASSUME NEW index \in Positions(session) \cup {0}, Highlight(index)
        PROVE  Kept /\ ActiveInRange(session')
    BY <1>8, HighlightKeeps
  <1>9. ASSUME NEW offset \in Offsets, Navigate(offset)
        PROVE  Kept /\ ActiveInRange(session')
    BY <1>9, NavigateKeeps
  <1>10. ASSUME NEW policies \in Policies, NEW wrap \in BOOLEAN, Reload(policies, wrap)
         PROVE  Kept /\ Reloads
    BY <1>10, ReloadKeeps DEF Reloads
  <1>11. Kept => IInv'
    BY DEF Kept
  <1> QED
    BY <1>1, <1>2, <1>3, <1>4, <1>5, <1>6, <1>7, <1>8, <1>9, <1>10, <1>11 DEF Next

\* A new session is empty, so nothing is repeated or out of bounds.
LEMMA InitKeeps == Init => IInv /\ TextsDistinct /\ WithinBudget
  <1> SUFFICES ASSUME NEW policies \in Policies, NEW wrap \in BOOLEAN,
                      session = NewSession(policies, wrap)
               PROVE  IInv /\ TextsDistinct /\ WithinBudget
    BY DEF Init
  <1>1. session.items = <<>>
    BY DEF NewSession
  <1>2. session \in Session /\ Sound(session) /\ InBudget(session)
    BY NewSessionSound
  <1> QED
    BY <1>1, <1>2 DEF IInv, TypeOK, TextsDistinct, DistinctTexts, WithinBudget

\* The invariant holds in every reachable state.
LEMMA Invariance == Spec => []IInv
  <1>1. Init => IInv
    BY InitKeeps
  <1>2. IInv /\ [Next]_vars => IInv'
    BY StepKeeps
  <1> QED
    BY <1>1, <1>2, PTL DEF Spec

\* A session keeps its type: no index goes negative, no total leaves Nat.
THEOREM TypeCorrect == Spec => []TypeOK
  <1>1. IInv => TypeOK
    BY DEF IInv
  <1> QED
    BY <1>1, Invariance, PTL

\* The list never outgrows max_history_size, across reloads that lower it
\* (enforce_limits is reached by every path that adds an item or lowers it).
THEOREM LengthStaysBounded == Spec => []LengthBounded
  <1>1. IInv => LengthBounded
    BY DEF IInv, Sound, LengthBounded
  <1> QED
    BY <1>1, Invariance, PTL

\* A uuid names one item at most, so Select and Delete act on the one meant.
THEOREM UuidsStayDistinct == Spec => []UuidsDistinct
  <1>1. IInv => UuidsDistinct
    BY DEF IInv, Sound, UuidsDistinct
  <1> QED
    BY <1>1, Invariance, PTL

\* The running total that history.rs keeps by hand is the sum of the sizes of
\* the items held: no path counts a size twice, forgets one, or saturates.
THEOREM TotalStaysExact == Spec => []ByteTotalExact
  <1>1. IInv => ByteTotalExact
    BY DEF IInv, Sound, ByteTotalExact
  <1> QED
    BY <1>1, Invariance, PTL

\* The memory budget is exceeded by a growing line or not at all: it is the one
\* path of ingest that adds bytes and does not reach enforce_limits.
THEOREM BudgetLossComesFromGrowth == Spec => BudgetLostOnlyByGrowth
  <1>1. IInv /\ [Next]_vars => [WithinBudget /\ ~WithinBudget' => GrowthStep]_vars
    BY StepKeeps DEF Kept
  <1> QED
    BY <1>1, Invariance, PTL DEF Spec, BudgetLostOnlyByGrowth

\* With growing_lines off in all settings, the list never outgrows the budget.
THEOREM BudgetStaysKept ==
    ASSUME \A policies \in Policies : ~policies.growing_lines
    PROVE  Spec => []WithinBudget
  <1>1. IInv => ~GrowthStep
    BY SessionFields DEF IInv, TypeOK, GrowthStep, IngestOutcome, Grows
  <1>2. IInv /\ WithinBudget /\ [Next]_vars => WithinBudget'
    BY <1>1, StepKeeps DEF Kept
  <1>3. Init => WithinBudget
    BY InitKeeps
  <1> QED
    BY <1>2, <1>3, Invariance, PTL DEF Spec

\* A text is held twice because of a growing line or not at all.
THEOREM DuplicatesComeFromGrowth == Spec => DuplicatesOnlyByGrowth
  <1>1. IInv /\ [Next]_vars => [TextsDistinct /\ ~TextsDistinct' => GrowthStep]_vars
    BY StepKeeps DEF Kept
  <1> QED
    BY <1>1, Invariance, PTL DEF Spec, DuplicatesOnlyByGrowth

\* With growing_lines off in all settings, no text is ever held twice.
THEOREM TextsStayDistinct ==
    ASSUME \A policies \in Policies : ~policies.growing_lines
    PROVE  Spec => []TextsDistinct
  <1>1. IInv => ~GrowthStep
    BY SessionFields DEF IInv, TypeOK, GrowthStep, IngestOutcome, Grows
  <1>2. IInv /\ TextsDistinct /\ [Next]_vars => TextsDistinct'
    BY <1>1, StepKeeps DEF Kept
  <1>3. Init => TextsDistinct
    BY InitKeeps
  <1> QED
    BY <1>2, <1>3, Invariance, PTL DEF Spec

\* Only a reload of the settings can leave the active index past the end.
THEOREM StrandingNeedsReload == Spec => OnlyReloadStrandsActive
  <1>1. IInv /\ [Next]_vars =>
          [ActiveInRange(session) /\ ~ActiveInRange(session')
             => \E policies \in Policies, wrap \in BOOLEAN :
                    Reload(policies, wrap)]_vars
    BY StepKeeps DEF Reloads
  <1> QED
    BY <1>1, Invariance, PTL DEF Spec, OnlyReloadStrandsActive

\* The selection stays on its entry while any other entry is deleted.
THEOREM DeletionKeepsSelection == Spec => DeleteKeepsActive
  <1>1. IInv /\ [Next]_vars =>
          [\A uuid \in Uuid :
             /\ Delete(uuid)
             /\ ActiveInRange(session)
             /\ ItemAt(session, session.active_index).uuid # uuid
             => ItemAt(session', session'.active_index)
                  = ItemAt(session, session.active_index)]_vars
    BY DeleteTracksActive
  <1> QED
    BY <1>1, Invariance, PTL DEF Spec, DeleteKeepsActive

-----------------------------------------------------------------------------
(* Navigation.  The sum of the index and an offset is exact where it       *)
(* matters as long as lists are no longer than an i32 can count, which the *)
(* u16 max_history_size of settings.rs sees to.                            *)

ListsFit == \A policies \in Policies : policies.max_history_size <= I32Max

IndexFits == session.active_index <= I32Max

\* No operation takes the index past the longest list there may be.
LEMMA StepKeepsIndexFit ==
    ASSUME ListsFit, IInv, IndexFits, [Next]_vars
    PROVE  IndexFits'
  <1>1. /\ session \in Session /\ session.active_index \in Nat
        /\ Len(session.items) \in Nat /\ I32Max \in Nat
        /\ session.policies.max_history_size \in Nat
        /\ Len(session.items) <= I32Max
    <2>1. /\ session \in Session /\ session.active_index \in Nat
          /\ Len(session.items) \in Nat /\ session.policies \in Policies
          /\ session.policies.max_history_size \in Nat /\ I32Max \in Nat
      BY SessionFields, I32Assumption DEF IInv, TypeOK, PolicyRecord
    <2>2. Len(session.items) <= session.policies.max_history_size
      BY DEF IInv, Sound, WithinLength
    <2>3. session.policies.max_history_size <= I32Max
      BY <2>1 DEF ListsFit
    <2> QED
      BY <2>1, <2>2, <2>3
  <1>2. ASSUME session'.active_index = 0
        PROVE  IndexFits'
    BY <1>1, <1>2 DEF IndexFits
  <1>3. ASSUME session'.active_index = session.active_index
        PROVE  IndexFits'
    BY <1>3 DEF IndexFits
  <1>4. ASSUME session'.active_index \in Positions(session)
        PROVE  IndexFits'
    BY <1>1, <1>4 DEF IndexFits, Positions
  <1>5. CASE UNCHANGED vars
    BY <1>3, <1>5 DEF vars
  <1>6. ASSUME NEW text \in Text, Ingest(text)
        PROVE  IndexFits'
    BY <1>2, <1>6, IngestKeeps
  <1>7. ASSUME NEW uuid \in Uuid, Select(uuid)
        PROVE  IndexFits'
    BY <1>2, <1>7, SelectKeeps
  <1>8. ASSUME NEW uuid \in Uuid, Delete(uuid)
        PROVE  IndexFits'
    <2> DEFINE i == FirstWith(session, uuid)
               deleted == i - 1
               left == Len(session.items) - 1
               active == OnDelete(session.active_index, deleted, left)
    <2>1. i \in DOMAIN session.items
      BY <1>1, <1>8, FirstPositions DEF Delete
    <2>2. session' = [RemoveItem(session, i) EXCEPT !.active_index = active]
      BY <1>8 DEF Delete, SessionDelete
    <2> HIDE DEF i
    <2>3. RemoveItem(session, i) \in Session
      BY <1>1, <2>1, RemoveItemProperties
    <2>4. deleted \in Nat /\ left \in Nat /\ deleted <= left
      BY <1>1, <2>1, SessionFields
    <2> HIDE DEF deleted, left
    <2>5. active <= session.active_index /\ active \in Nat
      BY <1>1, <2>4 DEF OnDelete
    <2> HIDE DEF active
    <2>6. session'.active_index = active
      BY <2>2, <2>3 DEF Session
    <2> QED
      BY <1>1, <2>5, <2>6 DEF IndexFits
  <1>9. CASE Pop
    BY <1>2, <1>9, PopKeeps
  <1>10. CASE Empty
    BY <1>2, <1>10, EmptyKeeps
  <1>11. ASSUME NEW index \in Positions(session) \cup {0}, Highlight(index)
         PROVE  IndexFits'
    <2>1. session'.active_index = IF session.items = <<>> THEN 0 ELSE index
      BY <1>1, <1>11 DEF Highlight, SetActiveIndex, Session
    <2>2. session.items # <<>> => index \in Positions(session)
      BY <1>1, <1>11, EmptySeq, SessionFields DEF Highlight, IndexRefused, Positions
    <2> QED
      BY <1>2, <1>4, <2>1, <2>2
  <1>12. ASSUME NEW offset \in Offsets, Navigate(offset)
         PROVE  IndexFits'
    BY <1>1, <1>4, <1>12 DEF Navigate, SelectAtOffset, OffsetRefused, Session
  <1>13. ASSUME NEW policies \in Policies, NEW wrap \in BOOLEAN, Reload(policies, wrap)
         PROVE  IndexFits'
    <2> DEFINE t == [session EXCEPT !.policies = policies]
               e == EnforceLimits(t)
    <2>1. t \in Session /\ t.active_index = session.active_index
      BY <1>1 DEF Session
    <2>2. session' = [e EXCEPT !.navigation_wrap = wrap]
      BY <1>13 DEF Reload, ApplySettings, SetPolicies
    <2> HIDE DEF t
    <2>3. e \in Session /\ e.active_index = t.active_index
      BY <2>1, EnforceLimitsProperties
    <2> HIDE DEF e
    <2>4. session'.active_index = e.active_index
      BY <2>2, <2>3 DEF Session
    <2> QED
      BY <1>3, <2>1, <2>3, <2>4
  <1> QED
    BY <1>5, <1>6, <1>7, <1>8, <1>9, <1>10, <1>11, <1>12, <1>13 DEF Next

\* As long as lists are no longer than an i32 can count, navigation moves by
\* the offset it is given: an overflow is refused, or needs wrapping and a sum
\* no i32 holds.
THEOREM NavigationStaysExact == ASSUME ListsFit PROVE Spec => NavigationExact
  <1> DEFINE Exact(offset) ==
               /\ Navigate(offset)
               /\ \/ ~session.navigation_wrap
                  \/ session.active_index + offset \in -(I32Max + 1) .. I32Max
               => session'.active_index =
                    IF session.navigation_wrap
                    THEN (session.active_index + offset) % Len(session.items)
                    ELSE session.active_index + offset
  <1>1. ASSUME IInv, IndexFits, NEW offset \in Offsets
        PROVE  Exact(offset)
    <2> SUFFICES ASSUME Navigate(offset),
                        \/ ~session.navigation_wrap
                        \/ session.active_index + offset \in -(I32Max + 1) .. I32Max
                 PROVE  session'.active_index =
                          IF session.navigation_wrap
                          THEN (session.active_index + offset) % Len(session.items)
                          ELSE session.active_index + offset
      OBVIOUS
    <2> DEFINE sum == session.active_index + offset
    <2>1. /\ session \in Session /\ session.active_index \in 0 .. I32Max
          /\ Len(session.items) \in Nat /\ I32Max \in Nat
          /\ offset \in -(I32Max + 1) .. I32Max
      BY <1>1, SessionFields, I32Assumption, OffsetsAssumption
      DEF IInv, TypeOK, IndexFits
    <2>2. /\ OffsetTarget(session, offset) \in Positions(session)
          /\ session'.active_index = OffsetTarget(session, offset)
      BY <2>1 DEF Navigate, OffsetRefused, SelectAtOffset, Session
    <2>3. sum \in Int /\ sum >= -(I32Max + 1) /\ sum <= 2 * I32Max
      BY <2>1
    <2>4. CASE sum <= I32Max
      <3>1. WrappingAdd(session.active_index, offset) = sum
        BY <2>1, <2>3, <2>4 DEF WrappingAdd
      <3> QED
        BY <2>2, <3>1 DEF OffsetTarget
    <2>5. CASE sum > I32Max
      <3>1. ~session.navigation_wrap
        BY <2>1, <2>3, <2>5
      <3>2. WrappingAdd(session.active_index, offset) = sum - 2 * (I32Max + 1)
        BY <2>5 DEF WrappingAdd
      <3>3. sum - 2 * (I32Max + 1) < 0
        BY <2>1, <2>3
      <3>4. OffsetTarget(session, offset) = sum - 2 * (I32Max + 1)
        BY <3>1, <3>2 DEF OffsetTarget
      <3> QED
        BY <2>1, <2>2, <2>3, <3>3, <3>4 DEF Positions
    <2> QED
      BY <2>1, <2>3, <2>4, <2>5
  <1>2. IInv /\ IndexFits /\ [Next]_vars =>
          [\A offset \in Offsets : Exact(offset)]_vars
    BY <1>1
  <1>3. Init => IndexFits
    BY I32Assumption DEF Init, NewSession, IndexFits
  <1>4. IInv /\ IndexFits /\ [Next]_vars => IndexFits'
    BY StepKeepsIndexFit
  <1> QED
    BY <1>2, <1>3, <1>4, Invariance, PTL DEF Spec, NavigationExact

-----------------------------------------------------------------------------
(* The refinement.  Recency!Cons and Recency!RemoveAt are the copies of the *)
(* sequence operators that the INSTANCE makes.                              *)

Texts(items) == [i \in DOMAIN items |-> items[i].text]

\* The texts of a list of items, and when two such lists are the same.
LEMMA TextsProperties ==
    ASSUME NEW items \in Seq(Item)
    PROVE  /\ Texts(items) \in Seq(Text)
           /\ Len(Texts(items)) = Len(items)
           /\ DOMAIN Texts(items) = 1 .. Len(items)
           /\ \A i \in 1 .. Len(items) : Texts(items)[i] = items[i].text
           /\ \A texts \in Seq(Text) :
                 /\ Len(texts) = Len(items)
                 /\ \A i \in 1 .. Len(items) : texts[i] = items[i].text
                 => Texts(items) = texts
  <1>1. DOMAIN items = 1 .. Len(items) /\ Len(items) \in Nat
    OBVIOUS
  <1>2. \A i \in 1 .. Len(items) : items[i].text \in Text
    <2>1. \A i \in 1 .. Len(items) : items[i] \in Item
      BY ElementOfSeq
    <2> QED
      BY <2>1 DEF Item
  <1>3. Texts(items) \in [1 .. Len(items) -> Text]
    BY <1>1, <1>2 DEF Texts
  <1>4. /\ Texts(items) \in Seq(Text)
        /\ Len(Texts(items)) = Len(items)
        /\ DOMAIN Texts(items) = 1 .. Len(items)
        /\ \A i \in 1 .. Len(items) : Texts(items)[i] = items[i].text
    <2>1. \A i \in 1 .. Len(items) : Texts(items)[i] = items[i].text
      BY <1>1 DEF Texts
    <2> QED
      BY <1>1, <1>3, <2>1
  <1>5. ASSUME NEW texts \in Seq(Text), Len(texts) = Len(items),
               \A i \in 1 .. Len(items) : texts[i] = items[i].text
        PROVE  Texts(items) = texts
    BY <1>4, <1>5, SeqEqual
  <1> QED
    BY <1>4, <1>5

\* Moving an item to the front touches its text.
LEMMA MoveTouches ==
    ASSUME NEW s \in Session, NEW i \in DOMAIN s.items
    PROVE  Texts(MoveToFront(s, i).items)
             = Cons(Texts(s.items)[i], RemoveAt(Texts(s.items), i))
  <1> DEFINE old   == Texts(s.items)
             items == MoveToFront(s, i).items
             moved == Cons(old[i], RemoveAt(old, i))
  <1>1. /\ s.items \in Seq(Item) /\ i \in 1 .. Len(s.items) /\ Len(s.items) \in Nat
    BY SessionFields
  <1>2. /\ old \in Seq(Text) /\ Len(old) = Len(s.items)
        /\ \A j \in 1 .. Len(s.items) : old[j] = s.items[j].text
    BY <1>1, TextsProperties
  <1>3. /\ items \in Seq(Item) /\ Len(items) = Len(s.items)
        /\ \A j \in 1 .. Len(s.items) : items[j] = s.items[MovedFrom(i, j)]
    BY MoveToFrontProperties, SessionFields
  <1> HIDE DEF old
  <1>4. /\ moved \in Seq(Text) /\ Len(moved) = Len(old)
        /\ \A j \in 1 .. Len(old) :
              moved[j] = IF j = 1 THEN old[i] ELSE IF j <= i THEN old[j - 1] ELSE old[j]
    <2>1. old \in Seq(Text) /\ i \in 1 .. Len(old)
      BY <1>1, <1>2
    <2> QED
      BY ONLY <2>1, MoveProperties
  <1> HIDE DEF items, moved
  <1>5. ASSUME NEW j \in 1 .. Len(s.items)
        PROVE  moved[j] = items[j].text
    <2>1. moved[j] = old[MovedFrom(i, j)] /\ MovedFrom(i, j) \in 1 .. Len(s.items)
      BY <1>1, <1>2, <1>4 DEF MovedFrom
    <2> QED
      BY <2>1, <1>2, <1>3
  <1>6. Texts(items) = moved
    BY <1>2, <1>3, <1>4, <1>5, TextsProperties
  <1> QED
    BY <1>6 DEF items, moved, old

\* Removing an item forgets its text.
LEMMA RemovalForgets ==
    ASSUME NEW s \in Session, NEW i \in DOMAIN s.items
    PROVE  Texts(RemoveItem(s, i).items) = RemoveAt(Texts(s.items), i)
  <1> DEFINE old   == Texts(s.items)
             items == RemoveItem(s, i).items
             left  == RemoveAt(old, i)
  <1>1. /\ s.items \in Seq(Item) /\ i \in 1 .. Len(s.items) /\ Len(s.items) \in Nat
    BY SessionFields
  <1>2. /\ old \in Seq(Text) /\ Len(old) = Len(s.items)
        /\ \A j \in 1 .. Len(s.items) : old[j] = s.items[j].text
    BY <1>1, TextsProperties
  <1>3. /\ items \in Seq(Item) /\ Len(items) = Len(s.items) - 1
        /\ \A j \in 1 .. Len(s.items) - 1 : items[j] = s.items[KeptFrom(i, j)]
    <2>1. /\ RemoveItem(s, i) \in Session /\ Len(items) = Len(s.items) - 1
          /\ \A j \in DOMAIN items : items[j] = s.items[KeptFrom(i, j)]
      BY RemoveItemProperties
    <2>2. items \in Seq(Item) /\ DOMAIN items = 1 .. Len(items)
      BY <2>1, SessionFields
    <2> QED
      BY <2>1, <2>2
  <1> HIDE DEF old
  <1>4. /\ left \in Seq(Text) /\ Len(left) = Len(old) - 1
        /\ \A j \in 1 .. Len(old) - 1 : left[j] = IF j < i THEN old[j] ELSE old[j + 1]
    BY <1>1, <1>2, RemoveAtProperties
  <1> HIDE DEF items, left
  <1>5. ASSUME NEW j \in 1 .. Len(s.items) - 1
        PROVE  left[j] = items[j].text
    <2>1. left[j] = old[KeptFrom(i, j)] /\ KeptFrom(i, j) \in 1 .. Len(s.items)
      BY <1>1, <1>2, <1>4 DEF KeptFrom
    <2> QED
      BY <2>1, <1>2, <1>3
  <1>6. Texts(items) = left
    BY <1>2, <1>3, <1>4, <1>5, TextsProperties
  <1> QED
    BY <1>6 DEF items, left, old

\* Eviction keeps a prefix of the texts.
LEMMA EvictionCuts ==
    ASSUME NEW s \in Session
    PROVE  \E kept \in 0 .. Len(s.items) :
              Texts(EnforceLimits(s).items) = SubSeq(Texts(s.items), 1, kept)
  <1> DEFINE old   == Texts(s.items)
             items == EnforceLimits(s).items
             kept  == Len(items)
             cut   == SubSeq(old, 1, kept)
  <1>1. s.items \in Seq(Item) /\ Len(s.items) \in Nat
    BY SessionFields
  <1>2. /\ old \in Seq(Text) /\ Len(old) = Len(s.items)
        /\ \A j \in 1 .. Len(s.items) : old[j] = s.items[j].text
    BY <1>1, TextsProperties
  <1>3. /\ items \in Seq(Item) /\ kept \in 0 .. Len(s.items)
        /\ \A j \in 1 .. kept : items[j] = s.items[j]
    <2>1. /\ EnforceLimits(s) \in Session /\ Len(items) <= Len(s.items)
          /\ \A j \in DOMAIN items : items[j] = s.items[j]
      BY EnforceLimitsProperties
    <2>2. items \in Seq(Item) /\ DOMAIN items = 1 .. Len(items) /\ Len(items) \in Nat
      BY <2>1, SessionFields
    <2> QED
      BY <1>1, <2>1, <2>2
  <1> HIDE DEF old, items
  <1>4. /\ cut \in Seq(Text) /\ Len(cut) = kept
        /\ \A j \in 1 .. kept : cut[j] = old[j]
    BY <1>2, <1>3, PrefixProperties
  <1> HIDE DEF cut
  <1>5. Texts(items) = cut
    <2>1. \A j \in 1 .. Len(items) : cut[j] = items[j].text
      BY <1>1, <1>2, <1>3, <1>4
    <2> QED
      BY <1>3, <1>4, <2>1, TextsProperties
  <1> QED
    BY <1>3, <1>5 DEF items, cut, old

\* A new item adds its text and makes room at the old end.
LEMMA PushAdds ==
    ASSUME NEW s \in Session, NEW item \in Item
    PROVE  \E kept \in 0 .. Len(s.items) + 1 :
              Texts(PushFront(s, item).items)
                = SubSeq(Cons(item.text, Texts(s.items)), 1, kept)
  <1> DEFINE old   == Texts(s.items)
             list  == Cons(item, s.items)
             total == s.byte_total + ByteSize(item)
             t     == [s EXCEPT !.items = list, !.byte_total = total]
  <1>1. s.items \in Seq(Item) /\ Len(s.items) \in Nat /\ item.text \in Text
    BY SessionFields DEF Item
  <1>2. /\ old \in Seq(Text) /\ Len(old) = Len(s.items)
        /\ \A j \in 1 .. Len(s.items) : old[j] = s.items[j].text
    BY <1>1, TextsProperties
  <1>3. /\ list \in Seq(Item) /\ Len(list) = Len(s.items) + 1
        /\ list[1] = item
        /\ \A j \in 1 .. Len(s.items) : list[j + 1] = s.items[j]
    <2> DEFINE held == s.items
    <2>1. held \in Seq(Item) /\ item \in Item
      BY <1>1
    <2> HIDE DEF held
    <2>2. /\ Cons(item, held) \in Seq(Item)
          /\ Len(Cons(item, held)) = Len(held) + 1
          /\ Cons(item, held)[1] = item
          /\ \A j \in 1 .. Len(held) : Cons(item, held)[j + 1] = held[j]
      BY ONLY <2>1, ConsProperties
    <2> QED
      BY <2>2 DEF held
  <1>4. total \in Nat
    BY SessionFields, TextAssumption DEF ByteSize, Item
  <1>5. t \in Session /\ t.items = list
    <2> HIDE DEF list, total
    <2> QED
      BY <1>3, <1>4 DEF Session
  <1>6. PushFront(s, item) = EnforceLimits(t)
    BY DEF PushFront
  <1> DEFINE text  == item.text
             added == Cons(text, old)
  <1> HIDE DEF old, list, total, t, text
  <1>7. text \in Text
    BY <1>1 DEF text
  <1>8. /\ added \in Seq(Text) /\ Len(added) = Len(old) + 1
        /\ added[1] = text
        /\ \A j \in 1 .. Len(old) : added[j + 1] = old[j]
    <2>1. old \in Seq(Text) /\ text \in Text
      BY <1>2, <1>7
    <2> QED
      BY ONLY <2>1, ConsProperties
  <1> HIDE DEF added
  <1>9. ASSUME NEW j \in 1 .. Len(list)
        PROVE  added[j] = list[j].text
    <2>1. CASE j = 1
      BY <2>1, <1>3, <1>8 DEF text
    <2>2. CASE j # 1
      <3>1. j - 1 \in 1 .. Len(s.items) /\ (j - 1) + 1 = j
        BY <2>2, <1>1, <1>3
      <3>2. /\ added[(j - 1) + 1] = old[j - 1] /\ old[j - 1] = s.items[j - 1].text
            /\ list[(j - 1) + 1] = s.items[j - 1]
        BY <3>1, <1>2, <1>3, <1>8
      <3> QED
        BY <3>1, <3>2
    <2> QED
      BY <2>1, <2>2
  <1>10. Texts(list) = added
    BY <1>2, <1>3, <1>8, <1>9, TextsProperties
  <1> QED
    BY <1>3, <1>5, <1>6, <1>10, EvictionCuts DEF added, old, text

LEMMA SameSequenceOps ==
    /\ \A e, seq : Recency!Cons(e, seq) = Cons(e, seq)
    /\ \A seq, i : Recency!RemoveAt(seq, i) = RemoveAt(seq, i)
  BY DEF Recency!Cons, Cons, Recency!RemoveAt, RemoveAt

\* How a change of the texts, T to T2, is a step of the list of recent texts.
RecencyStep(T, T2) ==
    \/ \E text \in Text :
          /\ \A i \in DOMAIN T : T[i] # text
          /\ \E kept \in 0 .. Len(T) + 1 : T2 = SubSeq(Cons(text, T), 1, kept)
    \/ \E i \in DOMAIN T : T2 = Cons(T[i], RemoveAt(T, i))
    \/ \E i \in DOMAIN T : T2 = RemoveAt(T, i)
    \/ \E kept \in 0 .. Len(T) : T2 = SubSeq(T, 1, kept)

LEMMA RecencyStepMaps ==
    RecencyStep(Texts(session.items), Texts(session'.items)) => Recency!Next
  BY SameSequenceOps
  DEF RecencyStep, Texts, Recency!Next, Recency!Add, Recency!Touch,
      Recency!Forget, Recency!Evict

\* Ingest adds a text or touches one, unless a line grows.
LEMMA IngestMaps ==
    ASSUME IInv, NEW text \in Text, Ingest(text), ~GrowthStep
    PROVE  RecencyStep(Texts(session.items), Texts(session'.items))
  <1> DEFINE s == session
             prepared == PrepareText(s.policies, text)
  <1>1. s \in Session /\ prepared \in Text
    BY TextAssumption DEF IInv, TypeOK, PrepareText
  <1>2. PICK uuid \in Uuid \ UuidsOf(s.items) : session' = SessionIngest(s, text, uuid)
    BY DEF Ingest
  <1>3. IngestOutcome(s, text) \in {"MovedExisting", "Added"}
    BY DEF Ingest, GrowthStep, IngestOutcome
  <1>4. /\ DOMAIN s.items = 1 .. Len(s.items) /\ s.items \in Seq(Item)
        /\ DOMAIN Texts(s.items) = 1 .. Len(s.items)
        /\ Len(Texts(s.items)) = Len(s.items)
        /\ \A i \in 1 .. Len(s.items) : Texts(s.items)[i] = s.items[i].text
    BY <1>1, SessionFields, TextsProperties
  <1>5. CASE IngestOutcome(s, text) = "MovedExisting"
    <2> DEFINE i == FirstHolding(s, prepared)
               m == MoveToFront(s, i)
    <2>1. i \in DOMAIN s.items
      BY <1>1, <1>5, FirstPositions DEF IngestOutcome
    <2>2. session' = ResetActive(m)
      BY <1>2, <1>5 DEF SessionIngest, IngestText
    <2> HIDE DEF i
    <2>3. m \in Session
      BY <1>1, <2>1, MoveToFrontProperties
    <2>4. session'.items = m.items
      BY <2>2, <2>3, ResetActiveProperties
    <2>5. Texts(m.items) = Cons(Texts(s.items)[i], RemoveAt(Texts(s.items), i))
      BY <1>1, <2>1, MoveTouches
    <2> QED
      BY <1>4, <2>1, <2>4, <2>5 DEF RecencyStep
  <1>6. CASE IngestOutcome(s, text) = "Added"
    <2> DEFINE item == [uuid |-> uuid, text |-> prepared]
               p == PushFront(s, item)
    <2>1. item \in Item /\ item.text = prepared
      BY <1>1 DEF Item
    <2>2. Holding(s, prepared) = {}
      BY <1>6 DEF IngestOutcome
    <2>3. session' = ResetActive(p)
      BY <1>2, <1>6 DEF SessionIngest, IngestText
    <2> HIDE DEF item, prepared
    <2>4. p \in Session
      BY <1>1, <2>1, PushFrontProperties
    <2>5. session'.items = p.items
      BY <2>3, <2>4, ResetActiveProperties
    <2>6. \E kept \in 0 .. Len(s.items) + 1 :
             Texts(p.items) = SubSeq(Cons(item.text, Texts(s.items)), 1, kept)
      BY <1>1, <2>1, PushAdds
    <2>7. \A i \in DOMAIN Texts(s.items) : Texts(s.items)[i] # prepared
      BY <1>4, <2>2 DEF Holding
    <2> QED
      BY <1>1, <1>4, <2>1, <2>5, <2>6, <2>7 DEF RecencyStep
  <1> QED
    BY <1>3, <1>5, <1>6

\* Every step of a session is one of its list of recent texts, or none.
LEMMA StepMaps ==
    ASSUME IInv, [Next]_vars, ~GrowthStep
    PROVE  \/ RecencyStep(Texts(session.items), Texts(session'.items))
           \/ session'.items = session.items
  <1> DEFINE T == Texts(session.items)
  <1>1. /\ session \in Session /\ session.items \in Seq(Item)
        /\ DOMAIN session.items = 1 .. Len(session.items) /\ Len(session.items) \in Nat
        /\ T \in Seq(Text) /\ DOMAIN T = 1 .. Len(session.items)
        /\ Len(T) = Len(session.items)
    BY SessionFields, TextsProperties DEF IInv, TypeOK
  <1>2. ASSUME NEW i \in DOMAIN session.items, NEW active \in Nat,
               session' = [RemoveItem(session, i) EXCEPT !.active_index = active]
        PROVE  RecencyStep(T, Texts(session'.items))
    <2>1. RemoveItem(session, i) \in Session
      BY <1>1, RemoveItemProperties
    <2>2. session'.items = RemoveItem(session, i).items
      BY <1>2, <2>1 DEF Session
    <2>3. Texts(session'.items) = RemoveAt(T, i)
      BY <1>1, <2>2, RemovalForgets
    <2> HIDE DEF T
    <2> QED
      BY <1>1, <2>3 DEF RecencyStep
  <1>3. CASE UNCHANGED vars
    BY <1>3 DEF vars
  <1>4. ASSUME NEW text \in Text, Ingest(text)
        PROVE  RecencyStep(T, Texts(session'.items))
    BY <1>4, IngestMaps
  <1>5. ASSUME NEW uuid \in Uuid, Select(uuid)
        PROVE  RecencyStep(T, Texts(session'.items))
    <2> DEFINE i == FirstWith(session, uuid)
               m == MoveToFront(session, i)
    <2>1. i \in DOMAIN session.items
      BY <1>1, <1>5, FirstPositions DEF Select
    <2>2. session' = ResetActive(m)
      BY <1>5 DEF Select, SessionSelect
    <2> HIDE DEF i
    <2>3. m \in Session
      BY <1>1, <2>1, MoveToFrontProperties
    <2>4. session'.items = m.items
      BY <2>2, <2>3, ResetActiveProperties
    <2>5. Texts(m.items) = Cons(T[i], RemoveAt(T, i))
      BY <1>1, <2>1, MoveTouches
    <2> HIDE DEF T
    <2> QED
      BY <1>1, <2>1, <2>4, <2>5 DEF RecencyStep
  <1>6. ASSUME NEW uuid \in Uuid, Delete(uuid)
        PROVE  RecencyStep(T, Texts(session'.items))
    <2> DEFINE i == FirstWith(session, uuid)
               active == OnDelete(session.active_index, i - 1, Len(session.items) - 1)
    <2>1. i \in DOMAIN session.items
      BY <1>1, <1>6, FirstPositions DEF Delete
    <2>2. session' = [RemoveItem(session, i) EXCEPT !.active_index = active]
      BY <1>6 DEF Delete, SessionDelete
    <2> HIDE DEF i
    <2>3. active \in Nat
      <3>1. /\ session.active_index \in Nat
            /\ i - 1 \in Nat /\ Len(session.items) - 1 \in Nat
            /\ i - 1 <= Len(session.items) - 1
        BY <1>1, <2>1, SessionFields
      <3> QED
        BY ONLY <3>1, OnDeleteRange
    <2> HIDE DEF active
    <2> QED
      BY <1>2, <2>1, <2>2, <2>3
  <1>7. ASSUME Pop
        PROVE  RecencyStep(T, Texts(session'.items))
    <2>1. 1 \in DOMAIN session.items
      BY <1>1, <1>7 DEF Pop
    <2>2. session' = [RemoveItem(session, 1) EXCEPT !.active_index = 0]
      BY <1>7 DEF Pop, SessionPop, ResetActive
    <2> QED
      BY <1>2, <2>1, <2>2
  <1>8. ASSUME Empty
        PROVE  RecencyStep(T, Texts(session'.items))
    <2>1. session'.items = <<>>
      BY <1>1, <1>8 DEF Empty, SessionEmpty, ResetActive, Session
    <2>2. Texts(<<>>) = <<>>
      BY DEF Texts
    <2>3. SubSeq(T, 1, 0) = <<>>
      BY SubSeqEmpty
    <2> HIDE DEF T
    <2>4. 0 \in 0 .. Len(T)
      BY <1>1
    <2> QED
      BY <2>1, <2>2, <2>3, <2>4 DEF RecencyStep
  <1>9. ASSUME NEW index \in Positions(session) \cup {0}, Highlight(index)
        PROVE  session'.items = session.items
    BY <1>1, <1>9 DEF Highlight, SetActiveIndex, Session
  <1>10. ASSUME NEW offset \in Offsets, Navigate(offset)
         PROVE  session'.items = session.items
    BY <1>1, <1>10 DEF Navigate, SelectAtOffset, Session
  <1>11. ASSUME NEW policies \in Policies, NEW wrap \in BOOLEAN, Reload(policies, wrap)
         PROVE  RecencyStep(T, Texts(session'.items))
    <2> DEFINE t == [session EXCEPT !.policies = policies]
               e == EnforceLimits(t)
    <2>1. t \in Session /\ t.items = session.items
      BY <1>1 DEF Session
    <2>2. session' = [e EXCEPT !.navigation_wrap = wrap]
      BY <1>11 DEF Reload, ApplySettings, SetPolicies
    <2> HIDE DEF t
    <2>3. e \in Session
      BY <2>1, EnforceLimitsProperties
    <2>4. \E kept \in 0 .. Len(t.items) : Texts(e.items) = SubSeq(Texts(t.items), 1, kept)
      BY <2>1, EvictionCuts
    <2> HIDE DEF e
    <2>5. session'.items = e.items
      BY <2>2, <2>3 DEF Session
    <2> QED
      BY <1>1, <2>1, <2>4, <2>5 DEF RecencyStep
  <1> QED
    BY <1>3, <1>4, <1>5, <1>6, <1>7, <1>8, <1>9, <1>10, <1>11 DEF Next

\* With growing_lines off in all settings, a session implements a list of
\* recent texts: whatever the callers do, no text is repeated, the last one
\* used is the newest, the others keep their order and only the old end is cut.
THEOREM RecencyImplemented ==
    ASSUME \A policies \in Policies : ~policies.growing_lines
    PROVE  Spec => ImplementsRecency
  <1>1. IInv => ~GrowthStep
    BY SessionFields DEF IInv, TypeOK, GrowthStep, IngestOutcome, Grows
  <1>2. Init => Recency!Init
    <2> SUFFICES ASSUME Init PROVE Recency!Init
      OBVIOUS
    <2>1. session.items = <<>>
      BY DEF Init, NewSession
    <2> QED
      BY <2>1 DEF Recency!Init
  <1>3. IInv /\ [Next]_vars =>
          [Recency!Next]_[i \in DOMAIN session.items |-> session.items[i].text]
    BY <1>1, StepMaps, RecencyStepMaps
  <1> QED
    BY <1>2, <1>3, Invariance, PTL DEF Spec, ImplementsRecency, Recency!Spec
=============================================================================
