------------------------- MODULE HistoryPopupProofs -------------------------
(***************************************************************************)
(* Theorems about HistoryPopup, for channels of any capacity and any       *)
(* number of presses and popups.                                           *)
(***************************************************************************)
EXTENDS HistoryPopup, TLAPS

\* Every opening that no guard holds back still has a popup to open.
OpeningsReserved == Spare >= 0

\* The compositor does not report a popup it still shows.
ClosedIsGone == closing \cap windows = {}

IInv == TypeOK /\ OpeningsReserved /\ ClosedIsGone /\ TrackedIsShown

\* What a step does to the popups alone: it opens one, destroys the one the
\* applet tracks, or moves a message about a closed one.
PopupStep ==
    \/ UNCHANGED <<popup, opened, windows, closing>>
    \/ OpenPopup /\ closing' = closing
    \/ popup # None /\ DestroyPopup /\ popup' = None /\ opened' = opened
    \/ \E id \in windows :
          /\ windows' = windows \ {id} /\ closing' = closing \cup {id}
          /\ UNCHANGED <<popup, opened>>
    \/ \E id \in closing :
          /\ closing' = closing \ {id} /\ popup' = AfterClosing(id)
          /\ UNCHANGED <<opened, windows>>

\* What is sent for one press.
LEMMA RoutesTyped == Routes \subseteq Seq(Delivery) /\ ShowHistoryCall \in Seq(Delivery)
  <1>1. /\ ShowHistoryCall \in Seq(Delivery)
        /\ <<"queue", "trigger", "activate">> \in Seq(Delivery)
        /\ <<"trigger">> \in Seq(Delivery) /\ <<"activate">> \in Seq(Delivery)
        /\ <<"trigger", "activate">> \in Seq(Delivery)
    BY DEF Delivery, ShowHistoryCall
  <1>2. \A s, t \in Seq(Delivery) : s \o t \in Seq(Delivery)
    OBVIOUS
  <1> QED
    BY <1>1, <1>2 DEF Routes

\* A full channel of triggers stays full.
LEMMA AddTriggerBounded ==
    ASSUME TypeOK, AddTrigger
    PROVE  triggers' \in 0 .. TriggerCap
  <1>1. triggers + 1 \in Nat /\ TriggerCap \in Nat
    BY PopupAssumption DEF TypeOK
  <1>2. \E x \in {triggers + 1, TriggerCap} : \A y \in {triggers + 1, TriggerCap} : x <= y
    <2>1. CASE triggers + 1 <= TriggerCap
      BY <1>1, <2>1
    <2>2. CASE TriggerCap < triggers + 1
      BY <1>1, <2>2
    <2> QED
      BY <1>1, <2>1, <2>2
  <1>3. triggers' \in {triggers + 1, TriggerCap} /\ triggers' <= TriggerCap
    BY <1>2 DEF AddTrigger, Min
  <1> QED
    BY <1>1, <1>3

\* A step passes at most one event to the user interface, and only if there is
\* room, or takes the first.
LEMMA PassTyped ==
    ASSUME TypeOK, NEW event \in {"ShowHistory", "Refreshed"}, Pass(event)
    PROVE  ui' \in Seq({"ShowHistory", "Refreshed"}) /\ Len(ui') <= EventCap
  BY PopupAssumption DEF TypeOK, Pass

LEMMA TakeTyped ==
    ASSUME TypeOK, ui # <<>>, ui' = Tail(ui)
    PROVE  ui' \in Seq({"ShowHistory", "Refreshed"}) /\ Len(ui') <= EventCap
  BY PopupAssumption DEF TypeOK

\* The senders, the channels and the listener keep their types.
ChannelsTyped ==
    /\ presses \in 0 .. MaxPresses
    /\ deliveries \in [Sender -> Seq(Delivery)]
    /\ queued \in Nat /\ pokes \in Nat /\ wire \in Nat
    /\ triggers \in 0 .. TriggerCap
    /\ listener \in {"down", "polling", "asleep", "refreshing"}
    /\ ui \in Seq({"ShowHistory", "Refreshed"}) /\ Len(ui) <= EventCap
    /\ waiting \in BOOLEAN

LEMMA ChannelsStayTyped ==
    ASSUME TypeOK, [Next]_vars
    PROVE  ChannelsTyped'
  <1> USE PopupAssumption
  <1>1. CASE Press
    <2>1. PICK route \in Routes : deliveries' = [deliveries EXCEPT !["shortcut"] = route]
      BY <1>1 DEF Press
    <2>2. deliveries' \in [Sender -> Seq(Delivery)]
      BY <2>1, RoutesTyped DEF TypeOK, Sender
    <2> QED
      BY <1>1, <2>2 DEF Press, TypeOK, ChannelsTyped, channels
  <1>2. ASSUME NEW sender \in Sender, Deliver(sender)
        PROVE  ChannelsTyped'
    <2>1. deliveries' \in [Sender -> Seq(Delivery)]
      BY <1>2 DEF Deliver, TypeOK
    <2>2. triggers' \in 0 .. TriggerCap
      BY <1>2, AddTriggerBounded DEF Deliver, TypeOK, channels
    <2>3. waiting' \in BOOLEAN
      <3>1. waiting' = (waiting \/ ~recent) \/ waiting' = waiting
        BY <1>2 DEF Deliver
      <3>2. (waiting \/ ~recent) \in BOOLEAN
        OBVIOUS
      <3> QED
        BY <3>1, <3>2 DEF TypeOK
    <2>4. queued' \in Nat /\ pokes' \in Nat /\ wire' \in Nat
      BY <1>2 DEF Deliver, TypeOK, channels
    <2> QED
      BY <1>2, <2>1, <2>2, <2>3, <2>4 DEF Deliver, TypeOK, ChannelsTyped
  <1>3. CASE CallFails
    BY <1>3 DEF CallFails, TypeOK, ChannelsTyped, channels, Sender
  <1>4. CASE Emit
    BY <1>4, RoutesTyped DEF Emit, TypeOK, ChannelsTyped, channels, Sender
  <1>5. CASE Notice
    BY <1>5, AddTriggerBounded DEF Notice, TypeOK, ChannelsTyped, senders
  <1>6. CASE Connect \/ Sleep \/ TakeTrigger \/ TakeSignal \/ Refresh
    BY <1>6, PassTyped
       DEF Connect, Sleep, TakeTrigger, TakeSignal, Refresh, TypeOK, ChannelsTyped, senders,
           channels
  <1>7. CASE TakeUpdate \/ RefreshFails
    BY <1>7 DEF TakeUpdate, RefreshFails, TypeOK, ChannelsTyped, senders, channels
  <1>8. CASE Updating
    BY <1>8, TakeTyped
       DEF Updating, UpdateRefreshed, UpdateShowHistory, TypeOK, ChannelsTyped, senders,
           channels
  <1>9. CASE Elapse \/ TogglePopup \/ SelectIndex
    BY <1>9 DEF Elapse, TogglePopup, SelectIndex, TypeOK, ChannelsTyped, senders, channels
  <1>10. CASE \E id \in Popup : CompositorCloses(id) \/ PopupClosed(id)
    BY <1>10 DEF CompositorCloses, PopupClosed, TypeOK, ChannelsTyped, senders, channels
  <1>11. CASE UNCHANGED vars
    BY <1>11 DEF vars, TypeOK, ChannelsTyped, senders, channels
  <1> QED
    BY <1>1, <1>2, <1>3, <1>4, <1>5, <1>6, <1>7, <1>8, <1>9, <1>10, <1>11
       DEF Next, Sending, Polling, Updating

\* Every step is a step of the popups.
LEMMA StepOfPopups ==
    ASSUME [Next]_vars
    PROVE  PopupStep
  <1>1. CASE UpdateRefreshed
    BY <1>1 DEF UpdateRefreshed, PopupStep, NoPopup
  <1>2. CASE UpdateShowHistory
    BY <1>2 DEF UpdateShowHistory, PopupStep, NoPopup
  <1>3. CASE TogglePopup
    BY <1>3 DEF TogglePopup, PopupStep
  <1>4. CASE SelectIndex
    BY <1>4 DEF SelectIndex, PopupStep
  <1>5. CASE \E id \in Popup : CompositorCloses(id) \/ PopupClosed(id)
    BY <1>5 DEF CompositorCloses, PopupClosed, PopupStep
  <1>6. CASE Press \/ Sending \/ CallFails \/ Notice \/ Connect \/ Polling \/ TakeSignal
                \/ TakeUpdate \/ RefreshFails \/ Elapse \/ UNCHANGED vars
    BY <1>6 DEF Press, Sending, Deliver, Emit, CallFails, Notice, Connect, Polling, Sleep,
                TakeTrigger, Refresh, TakeSignal, TakeUpdate, RefreshFails, Elapse, vars, app,
                PopupStep
  <1> QED
    BY <1>1, <1>2, <1>3, <1>4, <1>5, <1>6 DEF Next, Updating

\* The popups stay within the bound: the openings that nothing holds back are
\* the first request and the one asked for at the start.
LEMMA OpeningsStayReserved ==
    ASSUME TypeOK, OpeningsReserved, [Next]_vars
    PROVE  /\ OpeningsReserved'
           /\ {open_on_init, recent}' \subseteq BOOLEAN /\ opened' \in 0 .. MaxPopups
  <1> USE PopupAssumption
  <1>1. CASE UpdateRefreshed
    <2>1. open_on_init' = FALSE /\ recent' = recent
      BY <1>1 DEF UpdateRefreshed
    <2>2. {open_on_init, recent}' \subseteq BOOLEAN
      BY <2>1 DEF TypeOK
    <2>3. OpeningsReserved' /\ opened' \in 0 .. MaxPopups
      <3>1. CASE open_on_init
        <4>1. opened' = opened + 1
          BY <1>1, <3>1 DEF UpdateRefreshed, OpenPopup
        <4> QED
          BY <2>1, <3>1, <4>1 DEF TypeOK, OpeningsReserved, Spare
      <3>2. CASE ~open_on_init
        <4>1. opened' = opened
          BY <1>1, <3>2 DEF UpdateRefreshed, NoPopup
        <4> QED
          BY <2>1, <3>2, <4>1 DEF TypeOK, OpeningsReserved, Spare
      <3> QED
        BY <3>1, <3>2
    <2> QED
      BY <2>2, <2>3
  <1>2. CASE UpdateShowHistory
    <2>1. recent' = TRUE /\ open_on_init' = open_on_init
      BY <1>2 DEF UpdateShowHistory
    <2>2. {open_on_init, recent}' \subseteq BOOLEAN
      BY <2>1 DEF TypeOK
    <2>3. OpeningsReserved' /\ opened' \in 0 .. MaxPopups
      <3>1. CASE recent
        <4>1. opened' = opened
          BY <1>2, <3>1 DEF UpdateShowHistory, NoPopup
        <4> QED
          BY <2>1, <3>1, <4>1 DEF TypeOK, OpeningsReserved, Spare
      <3>2. CASE ~recent
        <4>1. opened' = opened + 1
          BY <1>2, <3>2 DEF UpdateShowHistory, OpenPopup
        <4> QED
          BY <2>1, <3>2, <4>1 DEF TypeOK, OpeningsReserved, Spare
      <3> QED
        BY <3>1, <3>2
    <2> QED
      BY <2>2, <2>3
  <1>3. CASE Elapse
    <2>1. recent /\ recent' = FALSE /\ open_on_init' = open_on_init
      BY <1>3 DEF Elapse
    <2>2. {open_on_init, recent}' \subseteq BOOLEAN
      BY <2>1 DEF TypeOK
    <2>3. opened' = opened /\ Spare > 0
      BY <1>3 DEF Elapse
    <2>4. OpeningsReserved'
      BY <2>1, <2>3 DEF TypeOK, OpeningsReserved, Spare
    <2> QED
      BY <2>2, <2>3, <2>4 DEF TypeOK
  <1>4. CASE TogglePopup
    BY <1>4 DEF TogglePopup, OpenPopup, TypeOK, OpeningsReserved, Spare
  <1>5. CASE UNCHANGED <<open_on_init, recent, opened>>
    BY <1>5 DEF TypeOK, OpeningsReserved, Spare
  <1>6. CASE Press \/ Sending \/ CallFails \/ Notice \/ Connect \/ Polling \/ TakeSignal
                \/ TakeUpdate \/ RefreshFails \/ SelectIndex \/ UNCHANGED vars
                \/ \E id \in Popup : CompositorCloses(id) \/ PopupClosed(id)
    BY <1>5, <1>6
       DEF Press, Sending, Deliver, Emit, CallFails, Notice, Connect, Polling, Sleep,
           TakeTrigger, Refresh, TakeSignal, TakeUpdate, RefreshFails, SelectIndex,
           CompositorCloses, PopupClosed, vars, app
  <1> QED
    BY <1>1, <1>2, <1>3, <1>4, <1>6 DEF Next, Updating

\* What the popups are keeps its type and the two facts about them.
LEMMA PopupsStayTracked ==
    ASSUME IInv, PopupStep, opened' \in 0 .. MaxPopups
    PROVE  /\ popup' \in Popup \cup {None}
           /\ windows' \subseteq 1 .. opened' /\ closing' \subseteq 1 .. opened'
           /\ ClosedIsGone' /\ TrackedIsShown'
  <1> USE PopupAssumption DEF IInv, TypeOK, ClosedIsGone, TrackedIsShown
  <1>1. CASE UNCHANGED <<popup, opened, windows, closing>>
    BY <1>1
  <1>2. CASE OpenPopup /\ closing' = closing
    BY <1>2 DEF OpenPopup, Popup
  <1>3. CASE popup # None /\ DestroyPopup /\ popup' = None /\ opened' = opened
    <2>1. CASE closing' = closing
      BY <1>3, <2>1 DEF DestroyPopup
    <2>2. CASE closing' = closing \cup {popup}
      <3>1. popup \in 1 .. opened
        BY <1>3
      <3> QED
        BY <1>3, <2>2, <3>1 DEF DestroyPopup
    <2> QED
      BY <1>3, <2>1, <2>2 DEF DestroyPopup
  <1>4. CASE \E id \in windows :
                /\ windows' = windows \ {id} /\ closing' = closing \cup {id}
                /\ UNCHANGED <<popup, opened>>
    BY <1>4
  <1>5. CASE \E id \in closing :
                /\ closing' = closing \ {id} /\ popup' = AfterClosing(id)
                /\ UNCHANGED <<opened, windows>>
    BY <1>5 DEF AfterClosing
  <1> QED
    BY <1>1, <1>2, <1>3, <1>4, <1>5 DEF PopupStep

-----------------------------------------------------------------------------
\* The strengthened invariant holds initially and is kept by every step.
LEMMA InvariantHolds == Spec => []IInv
  <1>1. Init => IInv
    <2> SUFFICES ASSUME Init
                 PROVE  IInv
      OBVIOUS
    <2>1. {open_on_init, recent, waiting} \subseteq BOOLEAN
      BY DEF Init
    <2>2. OpeningsReserved
      <3>1. recent = FALSE /\ opened = 0 /\ MaxPopups \in Nat /\ MaxPopups >= 2
        BY PopupAssumption DEF Init
      <3>2. CASE open_on_init
        BY <3>1, <3>2 DEF OpeningsReserved, Spare
      <3>3. CASE ~open_on_init
        BY <3>1, <3>3 DEF OpeningsReserved, Spare
      <3> QED
        BY <3>2, <3>3
    <2>3. /\ deliveries \in [Sender -> Seq(Delivery)]
          /\ ui \in Seq({"ShowHistory", "Refreshed"}) /\ Len(ui) <= EventCap
          /\ presses \in 0 .. MaxPresses /\ triggers \in 0 .. TriggerCap
      BY PopupAssumption DEF Init
    <2>4. /\ queued \in Nat /\ pokes \in Nat /\ wire \in Nat
          /\ listener \in {"down", "polling", "asleep", "refreshing"}
          /\ popup \in Popup \cup {None} /\ opened \in 0 .. MaxPopups
          /\ windows \subseteq 1 .. opened /\ closing \subseteq 1 .. opened
      BY PopupAssumption DEF Init
    <2>5. ClosedIsGone /\ TrackedIsShown
      BY DEF Init, ClosedIsGone, TrackedIsShown
    <2> QED
      BY <2>1, <2>2, <2>3, <2>4, <2>5 DEF IInv, TypeOK
  <1>2. IInv /\ [Next]_vars => IInv'
    <2> SUFFICES ASSUME IInv, [Next]_vars
                 PROVE  IInv'
      OBVIOUS
    <2>1. ChannelsTyped'
      BY ChannelsStayTyped DEF IInv
    <2>2. /\ OpeningsReserved'
          /\ {open_on_init, recent}' \subseteq BOOLEAN /\ opened' \in 0 .. MaxPopups
      BY OpeningsStayReserved DEF IInv
    <2>3. /\ popup' \in Popup \cup {None}
          /\ windows' \subseteq 1 .. opened' /\ closing' \subseteq 1 .. opened'
          /\ ClosedIsGone' /\ TrackedIsShown'
      BY <2>2, PopupsStayTracked, StepOfPopups
    <2> QED
      BY <2>1, <2>2, <2>3 DEF IInv, TypeOK, ChannelsTyped
  <1> QED
    BY <1>1, <1>2, PTL DEF Spec

\* No step leaves the state space: in particular the channels of the applet
\* hold no more than their capacity.
THEOREM TypeCorrect == Spec => []TypeOK
  <1>1. IInv => TypeOK
    BY DEF IInv
  <1> QED
    BY <1>1, InvariantHolds, PTL

\* The applet never tracks a popup that is gone without word of it.
THEOREM TrackedPopupIsShown == Spec => []TrackedIsShown
  <1>1. IInv => TrackedIsShown
    BY DEF IInv
  <1> QED
    BY <1>1, InvariantHolds, PTL

\* A popup is left behind only by a request, or the opening asked for at the
\* start, that comes while another popup is open.
THEOREM OrphansComeFromOverlap == Spec => OrphansNeedOverlap
  <1> DEFINE Overlap ==
        Orphans' \ Orphans # {} =>
          /\ popup \in windows /\ popup' # popup
          /\ (UpdateShowHistory /\ ~recent) \/ (UpdateRefreshed /\ open_on_init)
  <1>1. IInv /\ [Next]_vars => [Overlap]_vars
    <2> SUFFICES ASSUME IInv, [Next]_vars, Orphans' \ Orphans # {}
                 PROVE  Overlap
      OBVIOUS
    <2> USE PopupAssumption
    <2>1. PopupStep
      BY StepOfPopups
    <2>2. OpenPopup
      BY <2>1 DEF PopupStep, DestroyPopup, AfterClosing, Orphans, IInv, ClosedIsGone
    <2>3. popup \in windows /\ popup' # popup
      BY <2>2 DEF OpenPopup, Orphans, IInv, TypeOK
    <2>4. opened' # opened /\ popup # None
      BY <2>2, <2>3 DEF OpenPopup, IInv, TypeOK
    <2>5. (UpdateShowHistory /\ ~recent) \/ (UpdateRefreshed /\ open_on_init)
      <3>1. CASE Updating
        BY <3>1, <2>4 DEF Updating, UpdateShowHistory, UpdateRefreshed, NoPopup
      <3>2. CASE TogglePopup
        BY <3>2, <2>4 DEF TogglePopup
      <3>3. CASE Press \/ Sending \/ CallFails \/ Notice \/ Connect \/ Polling
                    \/ TakeSignal \/ TakeUpdate \/ RefreshFails \/ Elapse \/ SelectIndex
                    \/ UNCHANGED vars
                    \/ \E id \in Popup : CompositorCloses(id) \/ PopupClosed(id)
        BY <3>3, <2>4
           DEF Press, Sending, Deliver, Emit, CallFails, Notice, Connect, Polling, Sleep,
               TakeTrigger, Refresh, TakeSignal, TakeUpdate, RefreshFails, Elapse, SelectIndex,
               CompositorCloses, PopupClosed, vars, app
      <3> QED
        BY <3>1, <3>2, <3>3 DEF Next
    <2> QED
      BY <2>3, <2>5
  <1> QED
    BY <1>1, InvariantHolds, PTL DEF Spec, OrphansNeedOverlap
=============================================================================
