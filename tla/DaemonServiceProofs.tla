------------------------ MODULE DaemonServiceProofs ------------------------
(***************************************************************************)
(* Theorems about DaemonService, for every number of callers, every set of *)
(* texts, settings and offsets, and any capacity of the channel.           *)
(***************************************************************************)
EXTENDS DaemonService, HistoryOpsProofs

\* What the session of HistorySession may do in one step, or an undo.
SessionStep == SessionSteps!Next \/ \E c \in Caller : Undo(c)

-----------------------------------------------------------------------------
(* HistorySession has its own copy of the operators of HistoryOps; they    *)
(* are the same operators.                                                 *)

\* Sizes, lists and eviction.
LEMMA SameEviction ==
    /\ \A items : SessionSteps!Bytes(items) = Bytes(items)
    /\ \A item : SessionSteps!ByteSize(item) = ByteSize(item)
    /\ \A item, items : SessionSteps!Cons(item, items) = Cons(item, items)
    /\ \A items, i : SessionSteps!RemoveAt(items, i) = RemoveAt(items, i)
    /\ \A a, b : SessionSteps!SaturatingSub(a, b) = SaturatingSub(a, b)
    /\ \A s : SessionSteps!EnforceLimits(s) = EnforceLimits(s)
  <1>1. /\ \A items : SessionSteps!Bytes(items) = Bytes(items)
        /\ \A item : SessionSteps!ByteSize(item) = ByteSize(item)
    BY DEF Bytes, ByteSize, FoldSeq, FoldFunction, FoldFunctionOnSet, MapThenFoldSet,
           SessionSteps!Bytes, SessionSteps!ByteSize, SessionSteps!FoldSeq,
           SessionSteps!FoldFunction, SessionSteps!FoldFunctionOnSet,
           SessionSteps!MapThenFoldSet
  <1>2. /\ \A item, items : SessionSteps!Cons(item, items) = Cons(item, items)
        /\ \A items, i : SessionSteps!RemoveAt(items, i) = RemoveAt(items, i)
    BY DEF Cons, RemoveAt, SessionSteps!Cons, SessionSteps!RemoveAt
  <1>3. \A a, b : SessionSteps!SaturatingSub(a, b) = SaturatingSub(a, b)
    BY DEF SaturatingSub, SessionSteps!SaturatingSub
  <1>4. \A s, n : SessionSteps!TotalOfNewest(s, n) = TotalOfNewest(s, n)
    BY <1>1, <1>3 DEF TotalOfNewest, SessionSteps!TotalOfNewest
  <1>5. \A s : SessionSteps!WithinCount(s) = WithinCount(s)
    BY DEF WithinCount, SessionSteps!WithinCount
  <1>6. \A s : SessionSteps!SecondLoopStops(s) = SecondLoopStops(s)
    BY <1>4, <1>5 DEF SecondLoopStops, SessionSteps!SecondLoopStops
  <1>7. \A s : SessionSteps!EnforceLimits(s) = EnforceLimits(s)
    BY <1>4, <1>5, <1>6 DEF EnforceLimits, SessionSteps!EnforceLimits
  <1> QED
    BY <1>1, <1>2, <1>3, <1>7

\* Ingest.
LEMMA SameIngest ==
    /\ \A s, text : SessionSteps!IngestOutcome(s, text) = IngestOutcome(s, text)
    /\ \A s, text, uuid :
          SessionSteps!SessionIngest(s, text, uuid) = SessionIngest(s, text, uuid)
    /\ \A s : SessionSteps!ResetActive(s) = ResetActive(s)
    /\ \A s, i : SessionSteps!MoveToFront(s, i) = MoveToFront(s, i)
    /\ \A items : SessionSteps!UuidsOf(items) = UuidsOf(items)
  <1>1. \A policies, text :
           /\ SessionSteps!PrepareText(policies, text) = PrepareText(policies, text)
           /\ SessionSteps!SizeRefused(policies, text) = SizeRefused(policies, text)
    BY DEF PrepareText, SizeRefused, SessionSteps!PrepareText, SessionSteps!SizeRefused
  <1>2. \A s, text : /\ SessionSteps!Grows(s, text) = Grows(s, text)
                     /\ SessionSteps!Holding(s, text) = Holding(s, text)
    BY SameEviction DEF Grows, Holding, SessionSteps!Grows, SessionSteps!Holding
  <1>3. \A s, text : SessionSteps!FirstHolding(s, text) = FirstHolding(s, text)
    BY <1>2 DEF FirstHolding, SessionSteps!FirstHolding
  <1>4. \A s, text : SessionSteps!GrowFirst(s, text) = GrowFirst(s, text)
    BY SameEviction DEF GrowFirst, SessionSteps!GrowFirst
  <1>5. \A s, i : SessionSteps!MoveToFront(s, i) = MoveToFront(s, i)
    BY SameEviction DEF MoveToFront, SessionSteps!MoveToFront
  <1>6. \A s, item : SessionSteps!PushFront(s, item) = PushFront(s, item)
    BY SameEviction DEF PushFront, SessionSteps!PushFront
  <1>7. \A s, text : SessionSteps!IngestOutcome(s, text) = IngestOutcome(s, text)
    BY <1>1, <1>2 DEF IngestOutcome, SessionSteps!IngestOutcome
  <1>8. \A s, text, uuid :
           SessionSteps!IngestText(s, text, uuid) = IngestText(s, text, uuid)
    BY <1>1, <1>3, <1>4, <1>5, <1>6, <1>7 DEF IngestText, SessionSteps!IngestText
  <1>9. /\ \A s : SessionSteps!ResetActive(s) = ResetActive(s)
        /\ \A items : SessionSteps!UuidsOf(items) = UuidsOf(items)
    BY DEF ResetActive, UuidsOf, SessionSteps!ResetActive, SessionSteps!UuidsOf
  <1>10. \A s, text, uuid :
            SessionSteps!SessionIngest(s, text, uuid) = SessionIngest(s, text, uuid)
    BY <1>7, <1>8, <1>9 DEF SessionIngest, SessionSteps!SessionIngest
  <1> QED
    BY <1>5, <1>7, <1>9, <1>10

\* Selection, removal, navigation and settings.
LEMMA SameOperations ==
    /\ \A s, uuid : /\ SessionSteps!Found(s, uuid) = Found(s, uuid)
                     /\ SessionSteps!SessionSelect(s, uuid) = SessionSelect(s, uuid)
                     /\ SessionSteps!SessionDelete(s, uuid) = SessionDelete(s, uuid)
    /\ \A s : /\ SessionSteps!SessionEmpty(s) = SessionEmpty(s)
              /\ SessionSteps!Positions(s) = Positions(s)
    /\ \A s, index : /\ SessionSteps!IndexRefused(s, index) = IndexRefused(s, index)
                      /\ SessionSteps!SetActiveIndex(s, index) = SetActiveIndex(s, index)
    /\ \A s, offset :
          /\ SessionSteps!OffsetRefused(s, offset) = OffsetRefused(s, offset)
          /\ SessionSteps!SelectAtOffset(s, offset) = SelectAtOffset(s, offset)
    /\ \A s, policies, wrap :
          SessionSteps!ApplySettings(s, policies, wrap) = ApplySettings(s, policies, wrap)
  <1>1. \A s, uuid : /\ SessionSteps!FindIndex(s, uuid) = FindIndex(s, uuid)
                     /\ SessionSteps!Found(s, uuid) = Found(s, uuid)
    BY DEF FindIndex, Found, SessionSteps!FindIndex, SessionSteps!Found
  <1>2. \A s, uuid : SessionSteps!FirstWith(s, uuid) = FirstWith(s, uuid)
    BY <1>1 DEF FirstWith, SessionSteps!FirstWith
  <1>3. \A s, uuid : SessionSteps!SessionSelect(s, uuid) = SessionSelect(s, uuid)
    BY <1>2, SameIngest DEF SessionSelect, SessionSteps!SessionSelect
  <1>4. \A s, i : SessionSteps!RemoveItem(s, i) = RemoveItem(s, i)
    BY SameEviction DEF RemoveItem, SessionSteps!RemoveItem
  <1>5. \A active, deleted, len :
           SessionSteps!OnDelete(active, deleted, len) = OnDelete(active, deleted, len)
    BY DEF OnDelete, SessionSteps!OnDelete
  <1>6. \A s, uuid : SessionSteps!SessionDelete(s, uuid) = SessionDelete(s, uuid)
    BY <1>2, <1>4, <1>5 DEF SessionDelete, SessionSteps!SessionDelete
  <1>7. \A s : /\ SessionSteps!SessionEmpty(s) = SessionEmpty(s)
              /\ SessionSteps!Positions(s) = Positions(s)
    BY SameIngest DEF SessionEmpty, Positions, SessionSteps!SessionEmpty, SessionSteps!Positions
  <1>8. \A s, index : SessionSteps!IndexRefused(s, index) = IndexRefused(s, index)
    BY DEF IndexRefused, SessionSteps!IndexRefused
  <1>9. \A s, index : SessionSteps!SetActiveIndex(s, index) = SetActiveIndex(s, index)
    BY <1>8 DEF SetActiveIndex, SessionSteps!SetActiveIndex
  <1>10. \A s, offset : SessionSteps!OffsetTarget(s, offset) = OffsetTarget(s, offset)
    BY DEF OffsetTarget, WrappingAdd, SessionSteps!OffsetTarget, SessionSteps!WrappingAdd
  <1>11. \A s, offset : SessionSteps!OffsetRefused(s, offset) = OffsetRefused(s, offset)
    BY <1>7, <1>10 DEF OffsetRefused, SessionSteps!OffsetRefused
  <1>12. \A s, offset : SessionSteps!SelectAtOffset(s, offset) = SelectAtOffset(s, offset)
    BY <1>10, <1>11 DEF SelectAtOffset, SessionSteps!SelectAtOffset
  <1>13. \A s, policies, wrap :
            SessionSteps!ApplySettings(s, policies, wrap) = ApplySettings(s, policies, wrap)
    BY SameEviction
    DEF ApplySettings, SetPolicies, SessionSteps!ApplySettings, SessionSteps!SetPolicies
  <1> QED
    BY <1>1, <1>3, <1>6, <1>7, <1>8, <1>9, <1>11, <1>12, <1>13

-----------------------------------------------------------------------------
(* The steps.                                                              *)

\* The three ways to choose an entry are operations of the session.
LEMMA ChoosingIsSessionStep ==
    ASSUME NEW c \in Caller, Selection(c), session' # session
    PROVE  SessionStep
  <1>1. ASSUME NEW offset \in Offsets, ChooseAtOffset(c, offset)
        PROVE  SessionSteps!Navigate(offset)
    BY <1>1, SameOperations DEF ChooseAtOffset, Choose, SessionSteps!Navigate
  <1>2. ASSUME NEW index \in Positions(session) \cup {0}, ChooseAtIndex(c, index)
        PROVE  SessionSteps!Highlight(index)
    BY <1>2, SameOperations DEF ChooseAtIndex, Choose, SessionSteps!Highlight
  <1>3. ASSUME NEW uuid \in Uuid, ChooseUuid(c, uuid)
        PROVE  SessionSteps!Select(uuid)
    BY <1>3, SameOperations DEF ChooseUuid, Choose, SessionSteps!Select
  <1>4. ~(BeginWrite(c) \/ WlCopyExits(c) \/ SpawnFlush(c) \/ AnnouncementFails(c) \/ SaveChoice(c))
    BY DEF BeginWrite, WlCopyExits, SpawnFlush, AnnouncementFails, SaveChoice
  <1> QED
    BY <1>1, <1>2, <1>3, <1>4, SameOperations DEF Selection, SessionStep, SessionSteps!Next

\* A handler that takes the lock once applies at most one operation.
LEMMA HandlerIsSessionStep ==
    ASSUME Handlers, session' # session
    PROVE  SessionStep
  <1>1. ASSUME NEW text \in Text, Add(text)
        PROVE  SessionSteps!Ingest(text)
    BY <1>1, SameIngest DEF Add, FreshUuids, SessionSteps!Ingest
  <1>2. ASSUME NEW index \in Positions(session) \cup {0}, Highlight(index)
        PROVE  SessionSteps!Highlight(index)
    BY <1>2, SameOperations DEF Highlight, ChangeAndPersist, SessionSteps!Highlight
  <1>3. ASSUME NEW uuid \in Uuid, Delete(uuid)
        PROVE  SessionSteps!Delete(uuid)
    BY <1>3, SameOperations DEF Delete, ChangeAndPersist, SessionSteps!Delete
  <1>4. CASE EmptyHistory
    BY <1>4, SameOperations DEF EmptyHistory, ChangeAndPersist, SessionStep, SessionSteps!Next,
                SessionSteps!Empty
  <1>5. ASSUME NEW new \in Settings, Reload(new)
        PROVE  \E policies \in Policies, wrap \in BOOLEAN :
                   SessionSteps!Reload(policies, wrap)
    <2>1. new.policies \in Policies /\ new.navigation_wrap \in BOOLEAN
      BY ServiceAssumption DEF SettingsRecord
    <2> QED
      BY <1>5, <2>1, SameOperations DEF Reload, SessionSteps!Reload
  <1>6. ~(\E on \in BOOLEAN : Track(on) \/ OnAppletStateChanged(on))
    BY DEF Track, OnAppletStateChanged
  <1> QED
    BY <1>1, <1>2, <1>3, <1>4, <1>5, <1>6, SameOperations DEF Handlers, SessionStep, SessionSteps!Next

\* The channel carries texts: only Capture adds to it.
ChannelTyped == channel \in Seq(Text)

LEMMA ChannelStaysTyped == Spec => []ChannelTyped
  <1>1. Init => ChannelTyped
    BY DEF Init, ChannelTyped
  <1>2. ASSUME ChannelTyped, [Next]_vars
        PROVE  ChannelTyped'
    <2> USE <1>2 DEF ChannelTyped
    <2>1. ASSUME NEW text \in Text, Capture(text)
          PROVE  channel' \in Seq(Text)
      BY <2>1 DEF Capture
    <2>2. CASE Ingest
      <3>1. channel # <<>> /\ channel' = Tail(channel)
        BY <2>2 DEF Ingest
      <3> QED
        BY <3>1
    <2>3. CASE Handlers
      BY <2>3
      DEF Handlers, Add, Highlight, Delete, EmptyHistory, Track, OnAppletStateChanged, Reload,
          ChangeAndPersist, events
    <2>4. ASSUME NEW c \in Caller, Selection(c)
          PROVE  channel' \in Seq(Text)
      BY <2>4
      DEF Selection, ChooseAtOffset, ChooseAtIndex, ChooseUuid, Choose, BeginWrite, WlCopyExits,
          Undo, SpawnFlush, AnnouncementFails, SaveChoice, events
    <2>5. CASE Flush \/ GuardExpires \/ UNCHANGED vars
      BY <2>5 DEF Flush, GuardExpires, vars, events
    <2> QED
      BY <1>2, <2>1, <2>2, <2>3, <2>4, <2>5 DEF Next
  <1> QED
    BY <1>1, <1>2, PTL DEF Spec

\* With texts in the channel, a step that changes the session is one of its own
\* operations, or an undo.
LEMMA StepIsSessionStep ==
    ASSUME ChannelTyped, [Next]_vars
    PROVE  [SessionStep]_session
  <1> SUFFICES ASSUME Next, session' # session PROVE SessionStep
    BY DEF vars
  <1>1. CASE Handlers
    BY <1>1, HandlerIsSessionStep
  <1>2. ASSUME NEW c \in Caller, Selection(c)
        PROVE  SessionStep
    BY <1>2, ChoosingIsSessionStep
  <1>3. CASE Ingest
    <2>1. channel # <<>> /\ Ingested(Head(channel))
      BY <1>3 DEF Ingest
    <2>2. Head(channel) \in Text
      BY <2>1 DEF ChannelTyped
    <2>3. SessionSteps!Ingest(Head(channel))
      BY <1>3, <2>1, SameIngest DEF Ingest, Ingested, FreshUuids, SessionSteps!Ingest
    <2> QED
      BY <2>2, <2>3 DEF SessionStep, SessionSteps!Next
  <1>4. ~(Flush \/ GuardExpires \/ \E text \in Text : Capture(text))
    BY DEF Flush, GuardExpires, Capture
  <1> QED
    BY <1>1, <1>2, <1>3, <1>4 DEF Next

\* However handlers, selections, spawned persists, clipboard events and reloads
\* interleave, the session takes steps of HistorySession only; a failed
\* selection that puts its snapshot back is the one exception.
THEOREM SessionIsASession == Spec => SessionStepOrUndo
  BY StepIsSessionStep, ChannelStaysTyped, PTL DEF Spec, SessionStepOrUndo, SessionStep

-----------------------------------------------------------------------------
(* Types, and what the session keeps.                                      *)

\* What a handler may leave in place of a session: one of the same policies.
Keeps(s, r) == r \in Session /\ r.policies = s.policies

\* The operations that move or remove an item.
LEMMA ItemOperationsKeep ==
    ASSUME NEW s \in Session, NEW uuid \in Uuid, Found(s, uuid)
    PROVE  Keeps(s, SessionSelect(s, uuid)) /\ Keeps(s, SessionDelete(s, uuid))
  <1> DEFINE i == FirstWith(s, uuid)
             n == Len(s.items) - 1
             active == OnDelete(s.active_index, i - 1, n)
  <1>1. i \in DOMAIN s.items
    BY FirstPositions
  <1>2. active \in Nat
    <2>1. /\ s.active_index \in Nat /\ n \in Nat /\ i - 1 \in Nat
          /\ DOMAIN s.items = 1 .. Len(s.items)
      BY <1>1, SessionFields
    <2> HIDE DEF i, n
    <2> QED
      BY <2>1 DEF OnDelete
  <1>3. Keeps(s, SessionSelect(s, uuid))
    <2> DEFINE m == MoveToFront(s, i)
    <2>1. m \in Session /\ m.policies = s.policies
      BY <1>1, MoveToFrontProperties
    <2>2. SessionSelect(s, uuid) = ResetActive(m)
      BY DEF SessionSelect
    <2> HIDE DEF m
    <2> QED
      BY <2>1, <2>2, ResetActiveProperties DEF Keeps
  <1>4. Keeps(s, SessionDelete(s, uuid))
    <2> DEFINE r == RemoveItem(s, i)
    <2>1. r \in Session /\ r.policies = s.policies
      BY <1>1, RemoveItemProperties
    <2>2. SessionDelete(s, uuid) = [r EXCEPT !.active_index = active]
      BY DEF SessionDelete
    <2> HIDE DEF r, active
    <2> QED
      BY <1>2, <2>1, <2>2 DEF Keeps, Session
  <1> QED
    BY <1>3, <1>4

\* The operations that empty the list or move the active index.
LEMMA IndexOperationsKeep ==
    ASSUME NEW s \in Session
    PROVE  /\ Keeps(s, SessionEmpty(s))
           /\ \A index \in Nat : Keeps(s, SetActiveIndex(s, index))
           /\ \A offset : ~OffsetRefused(s, offset) => Keeps(s, SelectAtOffset(s, offset))
  <1>1. Keeps(s, SessionEmpty(s))
    <2> DEFINE t == [s EXCEPT !.items = <<>>, !.byte_total = 0]
    <2>1. t \in Session /\ t.policies = s.policies
      <3>1. <<>> \in Seq(Item)
        OBVIOUS
      <3> QED
        BY <3>1 DEF Session
    <2>2. SessionEmpty(s) = ResetActive(t)
      BY DEF SessionEmpty
    <2> HIDE DEF t
    <2> QED
      BY <2>1, <2>2, ResetActiveProperties DEF Keeps
  <1>2. \A active \in Nat : Keeps(s, [s EXCEPT !.active_index = active])
    BY DEF Keeps, Session
  <1>3. \A index \in Nat : Keeps(s, SetActiveIndex(s, index))
    BY <1>2 DEF SetActiveIndex, Keeps
  <1>4. ASSUME NEW offset, ~OffsetRefused(s, offset)
        PROVE  Keeps(s, SelectAtOffset(s, offset))
    <2> DEFINE target == OffsetTarget(s, offset)
    <2>1. target \in Positions(s)
      BY <1>4 DEF OffsetRefused
    <2>2. SelectAtOffset(s, offset) = [s EXCEPT !.active_index = target]
      BY <1>4 DEF SelectAtOffset
    <2> HIDE DEF target
    <2>3. target \in Nat
      BY <2>1, SessionFields DEF Positions
    <2> QED
      BY <1>2, <2>2, <2>3
  <1> QED
    BY <1>1, <1>3, <1>4

\* A reload installs the policies it is given, and leaves the active index.
LEMMA ApplySettingsInstalls ==
    ASSUME NEW s \in Session, NEW policies \in Policies, NEW wrap \in BOOLEAN
    PROVE  /\ ApplySettings(s, policies, wrap) \in Session
           /\ ApplySettings(s, policies, wrap).policies = policies
           /\ ApplySettings(s, policies, wrap).active_index = s.active_index
  <1> DEFINE t == [s EXCEPT !.policies = policies]
             e == EnforceLimits(t)
  <1>1. t \in Session /\ t.policies = policies /\ t.active_index = s.active_index
    BY DEF Session
  <1>2. ApplySettings(s, policies, wrap) = [e EXCEPT !.navigation_wrap = wrap]
    BY DEF ApplySettings, SetPolicies
  <1> HIDE DEF t
  <1>3. e \in Session /\ e.policies = t.policies /\ e.active_index = t.active_index
    BY <1>1, EnforceLimitsProperties
  <1> HIDE DEF e
  <1> QED
    BY <1>1, <1>2, <1>3 DEF Session

\* A session has something to show after a restart.
LEMMA RestorableTyped ==
    ASSUME NEW s \in Session
    PROVE  Restorable(s) \in [items : Seq(Item), active_index : Nat]
  BY SessionFields DEF Restorable

\* An item's text is what a call writes.
LEMMA ItemTextTyped ==
    ASSUME NEW s \in Session, NEW index \in Positions(s)
    PROVE  ItemAt(s, index).text \in Text
  <1>1. index + 1 \in DOMAIN s.items
    BY SessionFields DEF Positions
  <1>2. s.items[index + 1] \in Item
    BY <1>1, SessionFields
  <1> QED
    BY <1>2 DEF Item, ItemAt

LEMMA CallFacts ==
    ASSUME TypeOK, NEW c \in Caller
    PROVE  /\ InPhase(c, "chosen") \/ InPhase(c, "writing") \/ InPhase(c, "undo") =>
                 call[c] \in [phase : {"chosen", "writing", "undo"}, text : Text,
                              deferred : BOOLEAN, rollback : Session]
           /\ InPhase(c, "written") => \E deferred \in BOOLEAN : call[c] = Written(deferred)
  <1>1. call[c] \in {Idle} \cup CallRecord
    BY DEF TypeOK
  <1> QED
    BY <1>1 DEF CallRecord, Idle, Written, InPhase

\* Only a reload installs other policies, and only an undo brings old ones back.
LEMMA SessionKept ==
    ASSUME TypeOK, [Next]_vars
    PROVE  /\ session' \in Session
           /\ \/ session'.policies = session.policies /\ settings' = settings
              \/ session'.policies = settings'.policies
              \/ \E c \in Caller : Undo(c)
  <1> DEFINE Result ==
        /\ session' \in Session
        /\ \/ session'.policies = session.policies /\ settings' = settings
           \/ session'.policies = settings'.policies
           \/ \E c \in Caller : Undo(c)
  <1>0. session \in Session
    BY DEF TypeOK
  <1>a. ASSUME NEW text \in Text, NEW uuid \in FreshUuids
        PROVE  Keeps(session, SessionIngest(session, text, uuid))
    BY <1>0, SessionIngestProperties DEF FreshUuids, Keeps
  <1>b. \A index \in Positions(session) \cup {0} : index \in Nat
    BY <1>0, SessionFields DEF Positions
  <1>1. ASSUME NEW text \in Text, Add(text)
        PROVE  Result
    BY <1>1, <1>a DEF Add, Keeps, policy
  <1>2. ASSUME NEW index \in Positions(session) \cup {0}, Highlight(index)
        PROVE  Result
    BY <1>0, <1>2, <1>b, IndexOperationsKeep DEF Highlight, ChangeAndPersist, Keeps, policy
  <1>3. ASSUME NEW uuid \in Uuid, Delete(uuid)
        PROVE  Result
    BY <1>0, <1>3, ItemOperationsKeep DEF Delete, ChangeAndPersist, Keeps, policy
  <1>4. CASE EmptyHistory
    BY <1>0, <1>4, IndexOperationsKeep DEF EmptyHistory, ChangeAndPersist, Keeps, policy
  <1>5. ASSUME NEW new \in Settings, Reload(new)
        PROVE  Result
    <2>1. new.policies \in Policies /\ new.navigation_wrap \in BOOLEAN
      BY ServiceAssumption DEF SettingsRecord
    <2> QED
      BY <1>0, <1>5, <2>1, ApplySettingsInstalls DEF Reload
  <1>6. ASSUME NEW c \in Caller, Selection(c)
        PROVE  Result
    <2>1. ASSUME NEW offset \in Offsets, ChooseAtOffset(c, offset)
          PROVE  Result
      BY <1>0, <2>1, IndexOperationsKeep DEF ChooseAtOffset, Choose, Keeps, policy
    <2>2. ASSUME NEW index \in Positions(session) \cup {0}, ChooseAtIndex(c, index)
          PROVE  Result
      BY <1>0, <1>b, <2>2, IndexOperationsKeep DEF ChooseAtIndex, Choose, Keeps, policy
    <2>3. ASSUME NEW uuid \in Uuid, ChooseUuid(c, uuid)
          PROVE  Result
      BY <1>0, <2>3, ItemOperationsKeep DEF ChooseUuid, Choose, Keeps, policy
    <2>4. CASE Undo(c)
      BY <2>4, CallFacts DEF Undo
    <2>5. CASE \/ BeginWrite(c) \/ WlCopyExits(c)
               \/ SpawnFlush(c) \/ AnnouncementFails(c) \/ SaveChoice(c)
      BY <1>0, <2>5 DEF BeginWrite, WlCopyExits, SpawnFlush, AnnouncementFails, SaveChoice, policy
    <2> QED
      BY <1>6, <2>1, <2>2, <2>3, <2>4, <2>5 DEF Selection
  <1>7. CASE Ingest
    <2>1. Head(channel) \in Text
      BY <1>7 DEF Ingest, TypeOK
    <2> QED
      BY <1>0, <1>7, <1>a, <2>1 DEF Ingest, Keeps, policy
  <1>8. CASE \E on \in BOOLEAN : Track(on) \/ OnAppletStateChanged(on)
    BY <1>0, <1>8 DEF Track, OnAppletStateChanged
  <1>9. CASE Flush \/ GuardExpires \/ (\E text \in Text : Capture(text)) \/ UNCHANGED vars
    BY <1>0, <1>9 DEF Flush, GuardExpires, Capture, vars, policy
  <1> QED
    BY <1>1, <1>2, <1>3, <1>4, <1>5, <1>6, <1>7, <1>8, <1>9 DEF Next, Handlers

\* A selection keeps the type of its call.
LEMMA CallKept ==
    ASSUME TypeOK, NEW c \in Caller, Selection(c)
    PROVE  /\ call' \in [Caller -> {Idle} \cup CallRecord]
           /\ flushes' \in 0 .. MaxFlushes /\ armed' \in Text \cup {None}
  <1> USE CallFacts
  <1>0. session \in Session /\ call \in [Caller -> {Idle} \cup CallRecord]
    BY DEF TypeOK
  <1>a. ASSUME NEW chosen \in Session, NEW index \in Positions(chosen),
               NEW deferred \in BOOLEAN, Choose(c, chosen, index, deferred)
        PROVE  call' \in [Caller -> {Idle} \cup CallRecord] /\ UNCHANGED <<flushes, armed>>
    <2>1. [phase |-> "chosen", text |-> ItemAt(chosen, index).text,
           deferred |-> deferred, rollback |-> session] \in CallRecord
      BY <1>0, ItemTextTyped DEF CallRecord
    <2> QED
      BY <1>0, <1>a, <2>1 DEF Choose, saving, events
  <1>1. ASSUME NEW offset \in Offsets, ChooseAtOffset(c, offset)
        PROVE  call' \in [Caller -> {Idle} \cup CallRecord] /\ UNCHANGED <<flushes, armed>>
    <2> DEFINE chosen == SelectAtOffset(session, offset)
               index == OffsetTarget(session, offset)
    <2>1. chosen \in Session /\ index \in Positions(session)
      BY <1>0, <1>1, IndexOperationsKeep DEF ChooseAtOffset, Keeps, OffsetRefused
    <2>2. Positions(chosen) = Positions(session)
      BY <1>0 DEF SelectAtOffset, Positions, Session
    <2>3. Choose(c, chosen, index, TRUE)
      BY <1>1 DEF ChooseAtOffset
    <2> HIDE DEF chosen, index
    <2> QED
      BY <1>a, <2>1, <2>2, <2>3
  <1>2. ASSUME NEW index \in Positions(session) \cup {0}, ChooseAtIndex(c, index)
        PROVE  call' \in [Caller -> {Idle} \cup CallRecord] /\ UNCHANGED <<flushes, armed>>
    <2> DEFINE chosen == SetActiveIndex(session, index)
    <2>1. CASE session.items = <<>>
      BY <1>0, <1>2, <2>1 DEF ChooseAtIndex, saving, events
    <2>2. CASE session.items # <<>>
      <3>1. index \in Nat /\ index \in Positions(session)
        BY <1>0, <2>2, SessionFields DEF Positions
      <3>2. chosen \in Session
        BY <1>0, <3>1, IndexOperationsKeep DEF Keeps
      <3>3. Positions(chosen) = Positions(session)
        BY <1>0 DEF SetActiveIndex, Positions, Session
      <3>4. Choose(c, chosen, index, FALSE)
        BY <1>2, <2>2 DEF ChooseAtIndex
      <3> HIDE DEF chosen
      <3> QED
        BY <1>a, <3>1, <3>2, <3>3, <3>4
    <2> QED
      BY <2>1, <2>2
  <1>3. ASSUME NEW uuid \in Uuid, ChooseUuid(c, uuid)
        PROVE  call' \in [Caller -> {Idle} \cup CallRecord] /\ UNCHANGED <<flushes, armed>>
    <2> DEFINE m == MoveToFront(session, FirstWith(session, uuid))
               chosen == SessionSelect(session, uuid)
    <2>1. FirstWith(session, uuid) \in DOMAIN session.items
      BY <1>0, <1>3, FirstPositions DEF ChooseUuid
    <2>2. m \in Session /\ Len(m.items) = Len(session.items) /\ Len(session.items) >= 1
      BY <1>0, <2>1, MoveToFrontProperties, SessionFields
    <2>3. chosen = ResetActive(m)
      BY DEF SessionSelect
    <2> HIDE DEF m
    <2>4. chosen \in Session /\ chosen.items = m.items
      BY <2>2, <2>3, ResetActiveProperties
    <2>5. Choose(c, chosen, 0, FALSE)
      BY <1>3 DEF ChooseUuid
    <2> HIDE DEF chosen
    <2>6. 0 \in Positions(chosen)
      BY <2>2, <2>4, SessionFields DEF Positions
    <2> QED
      BY <1>a, <2>4, <2>5, <2>6
  <1>4. ASSUME NEW phase \in {"writing", "undo"}, call' = [call EXCEPT ![c].phase = phase],
               call[c] \in [phase : {"chosen", "writing", "undo"}, text : Text,
                            deferred : BOOLEAN, rollback : Session]
        PROVE  call' \in [Caller -> {Idle} \cup CallRecord]
    <2>1. [call[c] EXCEPT !.phase = phase] \in CallRecord
      BY <1>4 DEF CallRecord
    <2>2. call' = [call EXCEPT ![c] = [call[c] EXCEPT !.phase = phase]]
      BY <1>4
    <2> QED
      BY <1>0, <2>1, <2>2
  <1>5. CASE BeginWrite(c)
    <2>1. call[c] \in [phase : {"chosen", "writing", "undo"}, text : Text,
                       deferred : BOOLEAN, rollback : Session]
      BY <1>5 DEF BeginWrite
    <2> QED
      BY <1>4, <1>5, <2>1 DEF BeginWrite, saving, TypeOK
  <1>6. CASE WlCopyExits(c)
    <2>1. call[c] \in [phase : {"chosen", "writing", "undo"}, text : Text,
                       deferred : BOOLEAN, rollback : Session]
      BY <1>6 DEF WlCopyExits
    <2>2. Written(call[c].deferred) \in CallRecord
      BY <2>1 DEF CallRecord
    <2>3. call' \in [Caller -> {Idle} \cup CallRecord]
      BY <1>0, <1>4, <1>6, <2>1, <2>2 DEF WlCopyExits
    <2> QED
      BY <1>6, <2>3 DEF WlCopyExits, saving, events, TypeOK
  <1>7. CASE Undo(c) \/ SpawnFlush(c) \/ AnnouncementFails(c) \/ SaveChoice(c)
    BY <1>0, <1>7, ServiceAssumption
    DEF Undo, SpawnFlush, AnnouncementFails, SaveChoice, saving, events, TypeOK
  <1> QED
    BY <1>1, <1>2, <1>3, <1>5, <1>6, <1>7 DEF Selection, TypeOK

\* The rest of the state.
LEMMA PolicyKept ==
    ASSUME TypeOK, [Next]_vars
    PROVE  settings' \in Settings /\ tracking' \in BOOLEAN
  <1>1. \A new \in Settings : new.track_changes \in BOOLEAN
    BY ServiceAssumption DEF SettingsRecord
  <1>2. CASE UNCHANGED policy
    BY <1>2 DEF policy, TypeOK
  <1>3. CASE \E on \in BOOLEAN : Track(on)
    BY <1>3 DEF Track, TypeOK
  <1>4. ASSUME NEW present \in BOOLEAN, OnAppletStateChanged(present)
        PROVE  settings' \in Settings /\ tracking' \in BOOLEAN
    <2>1. settings.track_changes \in BOOLEAN /\ settings' = settings /\ settings \in Settings
      BY <1>1, <1>4 DEF OnAppletStateChanged, TypeOK
    <2>2. (present /\ settings.track_changes) \in BOOLEAN
      BY <2>1
    <2>3. tracking' = tracking \/ tracking' = (present /\ settings.track_changes)
      BY <1>4 DEF OnAppletStateChanged
    <2>4. tracking \in BOOLEAN
      BY DEF TypeOK
    <2>5. tracking' \in BOOLEAN
      BY <2>2, <2>3, <2>4, Zenon
    <2> QED
      BY <2>1, <2>5
  <1>5. CASE \E new \in Settings : Reload(new)
    <2>1. PICK new \in Settings : settings' = new /\ tracking' = new.track_changes
      BY <1>5 DEF Reload
    <2> QED
      BY <1>1, <2>1, Zenon
  <1> QED
    BY <1>2, <1>3, <1>4, <1>5
    DEF Next, Handlers, Add, Highlight, Delete, EmptyHistory, ChangeAndPersist, Selection,
        ChooseAtOffset, ChooseAtIndex, ChooseUuid, Choose, BeginWrite, WlCopyExits, Undo,
        SpawnFlush, AnnouncementFails, SaveChoice, Flush, Capture, Ingest, GuardExpires, vars

LEMMA ChannelKept ==
    ASSUME TypeOK, [Next]_vars
    PROVE  /\ channel' \in Seq(Text) /\ Len(channel') <= ChannelCap
           /\ (\A c \in Caller : ~Selection(c)) => armed' \in Text \cup {None}
  <1> USE ServiceAssumption
  <1>1. ASSUME NEW text \in Text, Capture(text)
        PROVE  /\ channel' \in Seq(Text) /\ Len(channel') <= ChannelCap
               /\ armed' \in Text \cup {None}
    BY <1>1 DEF Capture, AfterSuppressing, TypeOK
  <1>2. CASE Ingest
    <2>1. channel # <<>> /\ channel' = Tail(channel)
      BY <1>2 DEF Ingest
    <2>2. channel' \in Seq(Text) /\ Len(channel') <= ChannelCap
      BY <2>1 DEF TypeOK
    <2>3. armed' \in {armed, None}
      BY <1>2 DEF Ingest, AfterSuppressing
    <2> QED
      BY <2>2, <2>3 DEF TypeOK
  <1>3. CASE GuardExpires
    BY <1>3 DEF GuardExpires, TypeOK
  <1>4. CASE Handlers \/ Flush \/ UNCHANGED vars
    <2>1. UNCHANGED events
      BY <1>4
      DEF Handlers, Add, Highlight, Delete, EmptyHistory, Track, OnAppletStateChanged, Reload,
          ChangeAndPersist, Flush, vars
    <2> QED
      BY <2>1 DEF TypeOK, events
  <1>5. ASSUME NEW c \in Caller, Selection(c)
        PROVE  channel' = channel
    BY <1>5
    DEF Selection, ChooseAtOffset, ChooseAtIndex, ChooseUuid, Choose, BeginWrite, WlCopyExits,
        Undo, SpawnFlush, AnnouncementFails, SaveChoice, events
  <1> QED
    BY <1>1, <1>2, <1>3, <1>4, <1>5 DEF Next, TypeOK

\* What a persist leaves: the session, an error, or what was there.
LEMMA DiskSteps ==
    ASSUME [Next]_vars
    PROVE  disk' \in {disk, Restorable(session'), Unsaved}
  BY DEF Next, Handlers, Add, Highlight, Delete, EmptyHistory, Track, OnAppletStateChanged,
         Reload, ChangeAndPersist, Persist, Selection, ChooseAtOffset, ChooseAtIndex,
         ChooseUuid, Choose, BeginWrite, WlCopyExits, Undo, SpawnFlush, AnnouncementFails,
         SaveChoice, Flush, Capture, Ingest, GuardExpires, vars, saving

LEMMA TypeKept ==
    ASSUME TypeOK, [Next]_vars
    PROVE  TypeOK'
  <1>1. session' \in Session
    BY SessionKept
  <1>2. disk' \in [items : Seq(Item), active_index : Nat] \cup {Unsaved}
    BY <1>1, DiskSteps, RestorableTyped DEF TypeOK
  <1>3. /\ call' \in [Caller -> {Idle} \cup CallRecord]
        /\ flushes' \in 0 .. MaxFlushes /\ armed' \in Text \cup {None}
    <2>1. CASE \E c \in Caller : Selection(c)
      BY <2>1, CallKept
    <2>2. CASE \A c \in Caller : ~Selection(c)
      <3>1. call' = call /\ flushes' \in {flushes, flushes - 1}
            /\ (flushes' # flushes => flushes > 0)
        BY <2>2
        DEF Next, Handlers, Add, Highlight, Delete, EmptyHistory, Track, OnAppletStateChanged,
            Reload, ChangeAndPersist, Flush, Capture, Ingest, GuardExpires, vars, saving
      <3>2. flushes' \in 0 .. MaxFlushes
        BY <3>1, ServiceAssumption DEF TypeOK
      <3> QED
        BY <2>2, <3>1, <3>2, ChannelKept DEF TypeOK
    <2> QED
      BY <2>1, <2>2
  <1> QED
    BY <1>1, <1>2, <1>3, PolicyKept, ChannelKept DEF TypeOK

-----------------------------------------------------------------------------
(* What is saved.                                                          *)

\* A handler that takes the lock once leaves its change saved or gives it up.
LEMMA HandlerSaves ==
    ASSUME Handlers \/ Ingest \/ Flush \/ GuardExpires
           \/ (\E text \in Text : Capture(text)) \/ UNCHANGED vars
    PROVE  \/ disk' \in {Restorable(session'), Unsaved}
           \/ disk' = disk /\ session' = session
           \/ \E new \in Settings : /\ Reload(new) /\ disk' = disk
                                    /\ session'.items = session.items
  BY DEF Handlers, Add, Highlight, Delete, EmptyHistory, Track, OnAppletStateChanged, Reload,
         ChangeAndPersist, Persist, Flush, Capture, Ingest, GuardExpires, vars, saving

\* A reload that evicts nothing changes nothing a restart would show ...
LEMMA ReloadKeepsRestorable ==
    ASSUME TypeOK, NEW new \in Settings, Reload(new), session'.items = session.items
    PROVE  Restorable(session') = Restorable(session)
  <1>1. new.policies \in Policies /\ new.navigation_wrap \in BOOLEAN /\ session \in Session
    BY ServiceAssumption DEF SettingsRecord, TypeOK
  <1>2. session'.active_index = session.active_index
    BY <1>1, ApplySettingsInstalls DEF Reload
  <1> QED
    BY <1>2 DEF Restorable, Positions

\* ... and neither does the index a refused choice sets in an empty list.
LEMMA EmptyChoiceKeepsRestorable ==
    ASSUME TypeOK, NEW index, session.items = <<>>,
           session' = SetActiveIndex(session, index)
    PROVE  Restorable(session') = Restorable(session)
  <1>1. session \in Session
    BY DEF TypeOK
  <1>2. session'.items = <<>>
    BY <1>1 DEF SetActiveIndex, Session
  <1> QED
    BY <1>2 DEF Restorable, Positions

\* A step with which no selection chooses an entry saves what it changes, or
\* gives it up, or changes nothing a restart would show.
LEMMA ChangesAreSaved ==
    ASSUME TypeOK, [Next]_vars,
           \A c \in Caller : ~(InPhase(c, "idle") /\ ~InPhase(c, "idle")')
    PROVE  \/ disk' \in {Restorable(session'), Unsaved}
           \/ disk' = disk /\ Restorable(session') = Restorable(session)
  <1>0. call \in [Caller -> {Idle} \cup CallRecord]
    BY DEF TypeOK
  <1>1. CASE Handlers \/ Ingest \/ Flush \/ GuardExpires
             \/ (\E text \in Text : Capture(text)) \/ UNCHANGED vars
    BY <1>1, HandlerSaves, ReloadKeepsRestorable
  <1>2. ASSUME NEW c \in Caller, Selection(c)
        PROVE  \/ disk' \in {Restorable(session'), Unsaved}
               \/ disk' = disk /\ Restorable(session') = Restorable(session)
    <2>1. ASSUME NEW chosen, NEW index, NEW deferred, Choose(c, chosen, index, deferred),
                 InPhase(c, "idle")
          PROVE  FALSE
      BY <1>0, <2>1 DEF Choose, InPhase
    <2>2. ASSUME NEW index \in Positions(session) \cup {0}, ChooseAtIndex(c, index)
          PROVE  disk' = disk /\ Restorable(session') = Restorable(session)
      <3>1. session.items = <<>> /\ session' = SetActiveIndex(session, index) /\ disk' = disk
        BY <2>1, <2>2 DEF ChooseAtIndex, saving
      <3> QED
        BY <3>1, EmptyChoiceKeepsRestorable
    <2>3. CASE BeginWrite(c) \/ WlCopyExits(c) \/ SpawnFlush(c)
      BY <2>3 DEF BeginWrite, WlCopyExits, SpawnFlush, saving
    <2>4. CASE Undo(c) \/ AnnouncementFails(c) \/ SaveChoice(c)
      BY <2>4 DEF Undo, AnnouncementFails, SaveChoice, Persist
    <2> QED
      BY <1>2, <2>1, <2>2, <2>3, <2>4 DEF Selection, ChooseAtOffset, ChooseUuid
  <1> QED
    BY <1>1, <1>2 DEF Next

LEMMA SavedKept ==
    ASSUME TypeOK, SavedAtRest, [Next]_vars
    PROVE  SavedAtRest'
  <1> SUFFICES ASSUME AtRest', disk' # Unsaved
               PROVE  disk' = Restorable(session')
    BY DEF SavedAtRest
  <1>0. session \in Session /\ call \in [Caller -> {Idle} \cup CallRecord] /\ flushes \in Nat
    BY ServiceAssumption DEF TypeOK
  <1>1. CASE \E c \in Caller : Selection(c)
    <2>1. PICK c \in Caller : Selection(c)
      BY <1>1
    <2>2. call'[c].phase = "idle" /\ flushes' = 0
      BY DEF AtRest, InPhase
    <2>3. ASSUME NEW chosen, NEW index, NEW deferred, Choose(c, chosen, index, deferred)
          PROVE  FALSE
      BY <1>0, <2>2, <2>3 DEF Choose
    <2>4. ~SpawnFlush(c) /\ ~BeginWrite(c) /\ ~WlCopyExits(c)
      <3>1. ~SpawnFlush(c)
        BY <1>0, <2>2 DEF SpawnFlush
      <3>2. ASSUME NEW phase \in {"writing", "undo"},
                   call' = [call EXCEPT ![c].phase = phase],
                   InPhase(c, "chosen") \/ InPhase(c, "writing")
            PROVE  FALSE
        <4>1. call[c] \in [phase : {"chosen", "writing", "undo"}, text : Text,
                           deferred : BOOLEAN, rollback : Session]
          BY <3>2, CallFacts
        <4>2. call'[c] = [call[c] EXCEPT !.phase = phase]
          BY <1>0, <3>2
        <4>3. call'[c].phase = phase
          BY <4>1, <4>2
        <4> QED
          BY <2>2, <4>3
      <3>3. ~BeginWrite(c)
        BY <3>2 DEF BeginWrite
      <3>4. ~WlCopyExits(c)
        BY <1>0, <2>2, <3>2 DEF WlCopyExits, Written
      <3> QED
        BY <3>1, <3>3, <3>4
    <2>5. CASE Undo(c) \/ AnnouncementFails(c) \/ SaveChoice(c)
      BY <2>5 DEF Undo, AnnouncementFails, SaveChoice, Persist
    <2>6. ASSUME NEW index \in Positions(session) \cup {0}, ChooseAtIndex(c, index)
          PROVE  disk' = Restorable(session')
      <3>1. /\ session.items = <<>> /\ session' = SetActiveIndex(session, index)
            /\ UNCHANGED <<call, flushes, disk>>
        BY <2>3, <2>6 DEF ChooseAtIndex, saving
      <3>2. disk = Restorable(session)
        BY <3>1 DEF SavedAtRest, AtRest, InPhase
      <3> QED
        BY <3>1, <3>2, EmptyChoiceKeepsRestorable
    <2> QED
      BY <2>1, <2>3, <2>4, <2>5, <2>6 DEF Selection, ChooseAtOffset, ChooseUuid
  <1>2. CASE Flush
    BY <1>2 DEF Flush, Persist
  <1>3. CASE Handlers \/ Ingest \/ GuardExpires \/ (\E text \in Text : Capture(text))
               \/ UNCHANGED vars
    <2>1. UNCHANGED <<call, flushes>>
      BY <1>3
      DEF Handlers, Add, Highlight, Delete, EmptyHistory, Track, OnAppletStateChanged, Reload,
          ChangeAndPersist, Capture, Ingest, GuardExpires, vars, saving
    <2>2. disk # Unsaved => disk = Restorable(session)
      BY <2>1 DEF SavedAtRest, AtRest, InPhase
    <2> QED
      BY <1>3, <2>2, HandlerSaves, ReloadKeepsRestorable
  <1> QED
    BY <1>1, <1>2, <1>3 DEF Next

-----------------------------------------------------------------------------
(* Sound sessions.                                                         *)

\* Whatever step it is, the session it leaves is sound.
LEMMA SessionStaysSound ==
    ASSUME TypeOK, SessionsSound, [Next]_vars
    PROVE  Sound(session')
  <1>0. session \in Session /\ Sound(session)
    BY DEF TypeOK, SessionsSound
  <1>a. ASSUME NEW text \in Text, NEW uuid \in FreshUuids
        PROVE  Sound(SessionIngest(session, text, uuid))
    BY <1>0, IngestSound DEF FreshUuids
  <1>b. \A index \in Positions(session) \cup {0} : index \in Nat
    BY <1>0, SessionFields DEF Positions
  <1>c. \A s : KeepsSound(session, s) => Sound(s)
    BY DEF KeepsSound
  <1>1. ASSUME NEW text \in Text, Add(text)
        PROVE  Sound(session')
    BY <1>1, <1>a DEF Add
  <1>2. ASSUME NEW index \in Positions(session) \cup {0}, Highlight(index)
        PROVE  Sound(session')
    BY <1>0, <1>2, <1>b, <1>c, IndexOperationsSound DEF Highlight, ChangeAndPersist
  <1>3. ASSUME NEW uuid \in Uuid, Delete(uuid)
        PROVE  Sound(session')
    BY <1>0, <1>3, <1>c, ItemOperationsSound DEF Delete, ChangeAndPersist
  <1>4. CASE EmptyHistory
    BY <1>0, <1>4, <1>c, EmptySound DEF EmptyHistory, ChangeAndPersist
  <1>5. ASSUME NEW new \in Settings, Reload(new)
        PROVE  Sound(session')
    <2>1. new.policies \in Policies /\ new.navigation_wrap \in BOOLEAN
      BY ServiceAssumption DEF SettingsRecord
    <2> QED
      BY <1>0, <1>5, <1>c, <2>1, ApplySettingsSound DEF Reload
  <1>6. ASSUME NEW c \in Caller, Selection(c)
        PROVE  Sound(session')
    <2>1. ASSUME NEW offset \in Offsets, ChooseAtOffset(c, offset)
          PROVE  Sound(session')
      BY <1>0, <1>c, <2>1, IndexOperationsSound DEF ChooseAtOffset, Choose
    <2>2. ASSUME NEW index \in Positions(session) \cup {0}, ChooseAtIndex(c, index)
          PROVE  Sound(session')
      BY <1>0, <1>b, <1>c, <2>2, IndexOperationsSound DEF ChooseAtIndex, Choose
    <2>3. ASSUME NEW uuid \in Uuid, ChooseUuid(c, uuid)
          PROVE  Sound(session')
      BY <1>0, <1>c, <2>3, ItemOperationsSound DEF ChooseUuid, Choose
    <2>4. CASE Undo(c)
      BY <2>4 DEF Undo, SessionsSound, HoldsSnapshot
    <2>5. CASE \/ BeginWrite(c) \/ WlCopyExits(c)
               \/ SpawnFlush(c) \/ AnnouncementFails(c) \/ SaveChoice(c)
      BY <1>0, <2>5 DEF BeginWrite, WlCopyExits, SpawnFlush, AnnouncementFails, SaveChoice
    <2> QED
      BY <1>6, <2>1, <2>2, <2>3, <2>4, <2>5 DEF Selection
  <1>7. CASE Ingest
    <2>1. Head(channel) \in Text
      BY <1>7 DEF Ingest, TypeOK
    <2> QED
      BY <1>0, <1>7, <1>a, <2>1 DEF Ingest
  <1>8. CASE \E on \in BOOLEAN : Track(on) \/ OnAppletStateChanged(on)
    BY <1>0, <1>8 DEF Track, OnAppletStateChanged
  <1>9. CASE Flush \/ GuardExpires \/ (\E text \in Text : Capture(text)) \/ UNCHANGED vars
    BY <1>0, <1>9 DEF Flush, GuardExpires, Capture, vars
  <1> QED
    BY <1>1, <1>2, <1>3, <1>4, <1>5, <1>6, <1>7, <1>8, <1>9 DEF Next, Handlers

\* A snapshot is the session of its own choice, and stays that until it is
\* put back or let go.
LEMMA SnapshotSteps ==
    ASSUME TypeOK, [Next]_vars, NEW d \in Caller, HoldsSnapshot(d)'
    PROVE  \/ call'[d].rollback = session
           \/ HoldsSnapshot(d) /\ call'[d].rollback = call[d].rollback
  <1> DEFINE Result == \/ call'[d].rollback = session
                       \/ HoldsSnapshot(d) /\ call'[d].rollback = call[d].rollback
  <1>0. call \in [Caller -> {Idle} \cup CallRecord]
    BY DEF TypeOK
  <1>1. ASSUME call'[d] = call[d]
        PROVE  Result
    BY <1>1 DEF HoldsSnapshot, InPhase
  <1>2. ASSUME NEW c \in Caller, NEW chosen, NEW index, NEW deferred,
               Choose(c, chosen, index, deferred)
        PROVE  Result
    <2>1. c # d => call'[d] = call[d]
      BY <1>0, <1>2 DEF Choose
    <2>2. c = d => call'[d].rollback = session
      BY <1>0, <1>2 DEF Choose
    <2> QED
      BY <1>1, <2>1, <2>2
  <1>3. ASSUME NEW c \in Caller, NEW phase, InPhase(c, "chosen") \/ InPhase(c, "writing"),
               call' = [call EXCEPT ![c].phase = phase]
        PROVE  Result
    <2>1. c # d => call'[d] = call[d]
      BY <1>0, <1>3
    <2>2. c = d => HoldsSnapshot(d) /\ call'[d].rollback = call[d].rollback
      <3> SUFFICES ASSUME c = d
                   PROVE  HoldsSnapshot(d) /\ call'[d].rollback = call[d].rollback
        OBVIOUS
      <3>1. call[c] \in [phase : {"chosen", "writing", "undo"}, text : Text,
                         deferred : BOOLEAN, rollback : Session]
        BY <1>3, CallFacts
      <3>2. call'[c] = [call[c] EXCEPT !.phase = phase]
        BY <1>0, <1>3
      <3>3. call'[c].rollback = call[c].rollback
        BY <3>1, <3>2
      <3> QED
        BY <1>3, <3>3 DEF HoldsSnapshot
    <2> QED
      BY <1>1, <2>1, <2>2
  <1>4. ASSUME NEW c \in Caller, NEW to,
               to.phase \notin {"chosen", "writing", "undo"},
               call' = [call EXCEPT ![c] = to]
        PROVE  Result
    <2>1. c # d
      BY <1>0, <1>4 DEF HoldsSnapshot, InPhase
    <2> QED
      BY <1>0, <1>1, <1>4, <2>1
  <1>5. ASSUME NEW c \in Caller, Selection(c)
        PROVE  Result
    <2>1. CASE BeginWrite(c)
      BY <1>3, <2>1 DEF BeginWrite
    <2>2. CASE WlCopyExits(c)
      <3>1. CASE call' = [call EXCEPT ![c] = Written(call[c].deferred)]
        <4>1. Written(call[c].deferred).phase \notin {"chosen", "writing", "undo"}
          BY DEF Written
        <4> QED
          BY <1>4, <3>1, <4>1
      <3>2. CASE call' = [call EXCEPT ![c].phase = "undo"]
        BY <1>3, <2>2, <3>2 DEF WlCopyExits
      <3> QED
        BY <2>2, <3>1, <3>2 DEF WlCopyExits
    <2>3. CASE Undo(c) \/ SpawnFlush(c) \/ AnnouncementFails(c) \/ SaveChoice(c)
      <3>1. Idle.phase \notin {"chosen", "writing", "undo"}
        BY DEF Idle
      <3>2. call' = [call EXCEPT ![c] = Idle]
        BY <2>3 DEF Undo, SpawnFlush, AnnouncementFails, SaveChoice
      <3> QED
        BY <1>4, <3>1, <3>2
    <2>4. CASE \E index \in Positions(session) \cup {0} : ChooseAtIndex(c, index)
      BY <1>1, <1>2, <2>4 DEF ChooseAtIndex
    <2>5. CASE \/ \E offset \in Offsets : ChooseAtOffset(c, offset)
               \/ \E uuid \in Uuid : ChooseUuid(c, uuid)
      BY <1>2, <2>5 DEF ChooseAtOffset, ChooseUuid
    <2> QED
      BY <1>5, <2>1, <2>2, <2>3, <2>4, <2>5 DEF Selection
  <1>6. ASSUME \A c \in Caller : ~Selection(c)
        PROVE  call' = call
    BY <1>6
    DEF Next, Handlers, Add, Highlight, Delete, EmptyHistory, Track, OnAppletStateChanged,
        Reload, ChangeAndPersist, Flush, Capture, Ingest, GuardExpires, vars, saving
  <1> QED
    BY <1>1, <1>5, <1>6

LEMMA SoundKept ==
    ASSUME TypeOK, SessionsSound, [Next]_vars
    PROVE  SessionsSound'
  <1>1. Sound(session')
    BY SessionStaysSound
  <1>2. ASSUME NEW c \in Caller, HoldsSnapshot(c)'
        PROVE  Sound(call'[c].rollback)
    BY <1>2, SnapshotSteps DEF SessionsSound
  <1> QED
    BY <1>1, <1>2 DEF SessionsSound

-----------------------------------------------------------------------------
IInv == TypeOK /\ SavedAtRest /\ SessionsSound

\* No part needs more than itself and the types.
LEMMA InitHolds == Init => IInv
  <1> SUFFICES ASSUME Init
               PROVE  IInv
    OBVIOUS
  <1>1. /\ settings.policies \in Policies /\ settings.navigation_wrap \in BOOLEAN
        /\ settings.track_changes \in BOOLEAN /\ settings \in Settings
    BY ServiceAssumption DEF Init, SettingsRecord
  <1>2. session \in Session /\ Sound(session)
    BY <1>1, NewSessionSound DEF Init
  <1>3. tracking \in BOOLEAN
    BY <1>1, Zenon DEF Init
  <1>4. Restorable(session) \in [items : Seq(Item), active_index : Nat]
    BY <1>2, RestorableTyped
  <1>5. /\ call \in [Caller -> {Idle} \cup CallRecord]
        /\ channel \in Seq(Text) /\ Len(channel) <= ChannelCap
        /\ flushes \in 0 .. MaxFlushes /\ armed \in Text \cup {None}
    BY ServiceAssumption DEF Init
  <1>6. disk = Restorable(session)
    BY DEF Init
  <1>7. \A c \in Caller : ~HoldsSnapshot(c)
    BY DEF Init, Idle, HoldsSnapshot, InPhase
  <1>8. TypeOK
    BY <1>1, <1>2, <1>3, <1>4, <1>5, <1>6 DEF TypeOK
  <1> QED
    BY <1>2, <1>6, <1>7, <1>8 DEF IInv, SavedAtRest, SessionsSound

LEMMA InvariantHolds == Spec => []IInv
  <1>1. IInv /\ [Next]_vars => IInv'
    BY TypeKept, SavedKept, SoundKept DEF IInv
  <1> QED
    BY <1>1, InitHolds, PTL DEF Spec

\* Every state of the daemon, of its calls and of the channel has its type: no
\* index leaves the naturals, and the channel holds no more than it may.
THEOREM TypeCorrect == Spec => []TypeOK
  <1>1. IInv => TypeOK
    BY DEF IInv
  <1> QED
    BY <1>1, InvariantHolds, PTL

\* With no call in progress and no persist to come, a restart shows what the
\* daemon shows, unless it has given that up.
THEOREM RestSaves == Spec => []SavedAtRest
  <1>1. IInv => SavedAtRest
    BY DEF IInv
  <1> QED
    BY <1>1, InvariantHolds, PTL

\* Whatever interleaves, the session behind the lock and every snapshot a
\* failed selection would put back are sound: totals exact, lengths within
\* their own policies, uuids distinct.
THEOREM SessionsStaySound == Spec => []SessionsSound
  <1>1. IInv => SessionsSound
    BY DEF IInv
  <1> QED
    BY <1>1, InvariantHolds, PTL

\* A step that parts the policies from the settings is an undo.
LEMMA RevertIsUndo ==
    ASSUME TypeOK, [Next]_vars, session.policies = settings.policies,
           session'.policies # settings'.policies
    PROVE  \E c \in Caller : Undo(c)
  BY SessionKept

\* Only a failed selection that puts its snapshot back leaves the history with
\* policies other than those of the settings.
THEOREM RevertNeedsUndo == Spec => OnlyUndoRevertsSettings
  <1>1. IInv => TypeOK
    BY DEF IInv
  <1> QED
    BY <1>1, RevertIsUndo, InvariantHolds, PTL DEF Spec, OnlyUndoRevertsSettings
=============================================================================
