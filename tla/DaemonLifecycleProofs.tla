----------------------- MODULE DaemonLifecycleProofs -----------------------
(***************************************************************************)
(* Theorems about DaemonLifecycle: what DaemonService keeps is kept while  *)
(* the daemon stops.  A step of the lifecycle is a step of the service, or *)
(* the monitor thread's send, or a persist of main or of Reexecute, or it  *)
(* leaves the service alone.                                               *)
(***************************************************************************)
EXTENDS DaemonLifecycle, DaemonServiceProofs

\* A persist on the way out: of the service it changes the disk only.
LastPersist ==
    /\ UNCHANGED <<session, policy, events, call, flushes>>
    /\ Persist

-----------------------------------------------------------------------------
(* The steps.                                                              *)

\* What a step of the lifecycle is to the service.
LEMMA StepsOfService ==
    ASSUME LifecycleNext
    PROVE  [Next]_vars \/ MonitorSends \/ LastPersist
  <1>1. CASE HandlersRun
    BY <1>1 DEF HandlersRun, Next
  <1>2. CASE FlushRuns \/ IngestRuns
    BY <1>2 DEF FlushRuns, IngestRuns, Next
  <1>3. ASSUME NEW c \in Caller, SelectionRuns(c) \/ WlCopyOutlives(c)
        PROVE  Next
    BY <1>3 DEF SelectionRuns, WlCopyOutlives, Selection, Next
  <1>4. ASSUME NEW text \in Text, MonitorReads(text)
        PROVE  [Next]_vars
    BY <1>4 DEF MonitorReads, Next
  <1>5. CASE Reexecute \/ FlushState
    BY <1>5 DEF Reexecute, FlushState, LastPersist, Persist, events
  <1>6. CASE Terminate \/ Reexec \/ MainReturns \/ RuntimeEnds
    BY <1>6 DEF Terminate, Reexec, MainReturns, RuntimeEnds
  <1> QED
    BY <1>1, <1>2, <1>3, <1>4, <1>5, <1>6 DEF LifecycleNext, Stopping

\* main goes through its stages, and the monitor thread holds a text or none.
LEMMA MainTyped ==
    ASSUME LifecycleTypeOK, [LifecycleNext]_lifecycleVars
    PROVE  /\ stage' \in {"up", "stopping", "joining", "returning", "down"}
           /\ reason' \in ShutdownReason
           /\ holding' \in Text \cup {None}
  <1> USE DEF LifecycleTypeOK
  <1>1. CASE UNCHANGED main
    BY <1>1 DEF main
  <1>2. ASSUME NEW text \in Text, MonitorReads(text)
        PROVE  UNCHANGED <<stage, reason>> /\ holding' \in Text \cup {None}
    BY <1>2 DEF MonitorReads
  <1>3. CASE MonitorSends
    BY <1>3 DEF MonitorSends
  <1>4. CASE Reexecute \/ Terminate
    BY <1>4 DEF Reexecute, Terminate, WakesMain, ShutdownReason
  <1>5. CASE Stopping
    BY <1>5 DEF Stopping, FlushState, Reexec, MainReturns, RuntimeEnds
  <1>6. CASE \/ HandlersRun \/ FlushRuns \/ IngestRuns
             \/ \E c \in Caller : SelectionRuns(c) \/ WlCopyOutlives(c)
    BY <1>1, <1>6 DEF HandlersRun, FlushRuns, IngestRuns, SelectionRuns, WlCopyOutlives
  <1> QED
    BY <1>1, <1>2, <1>3, <1>4, <1>5, <1>6 DEF LifecycleNext, lifecycleVars

\* The text the thread sends is one, and it finds room.
LEMMA SendKeeps ==
    ASSUME LifecycleTypeOK, MonitorSends
    PROVE  /\ TypeOK'
           /\ SavedAtRest => SavedAtRest'
           /\ SessionsSound => SessionsSound'
  <1>1. UNCHANGED <<session, policy, armed, call, saving>>
    BY DEF MonitorSends
  <1>2. channel' \in Seq(Text) /\ Len(channel') <= ChannelCap
    <2>1. holding \in Text /\ channel \in Seq(Text) /\ Len(channel) < ChannelCap
      BY DEF MonitorSends, LifecycleTypeOK, TypeOK
    <2>2. channel' = Append(channel, holding)
      BY DEF MonitorSends
    <2> QED
      BY <2>1, <2>2, ServiceAssumption
  <1>3. TypeOK'
    BY <1>1, <1>2 DEF LifecycleTypeOK, TypeOK, policy, saving
  <1>4. SavedAtRest => SavedAtRest'
    BY <1>1 DEF SavedAtRest, AtRest, InPhase, saving
  <1>5. SessionsSound => SessionsSound'
    BY <1>1 DEF SessionsSound, HoldsSnapshot, InPhase
  <1> QED
    BY <1>3, <1>4, <1>5

\* A persist writes the session as it is, or fails and is known to have.
LEMMA LastPersistKeeps ==
    ASSUME TypeOK, LastPersist
    PROVE  /\ TypeOK'
           /\ SavedAtRest'
           /\ SessionsSound => SessionsSound'
  <1>1. UNCHANGED <<session, policy, events, call, flushes>>
    BY DEF LastPersist
  <1>2. disk' \in {Restorable(session'), Unsaved}
    BY DEF LastPersist, Persist
  <1>3. disk' \in [items : Seq(Item), active_index : Nat] \cup {Unsaved}
    BY <1>1, <1>2, RestorableTyped DEF TypeOK
  <1>4. TypeOK'
    BY <1>1, <1>3 DEF TypeOK, policy, events
  <1>5. SavedAtRest'
    BY <1>2 DEF SavedAtRest
  <1>6. SessionsSound => SessionsSound'
    BY <1>1 DEF SessionsSound, HoldsSnapshot, InPhase
  <1> QED
    BY <1>4, <1>5, <1>6

-----------------------------------------------------------------------------
(* The invariant of the service, and the types of main.                    *)

LifecycleInv == LifecycleTypeOK /\ SavedAtRest /\ SessionsSound

LEMMA LifecycleInvKept ==
    ASSUME LifecycleInv, [LifecycleNext]_lifecycleVars
    PROVE  LifecycleInv'
  <1>0. TypeOK /\ SavedAtRest /\ SessionsSound /\ LifecycleTypeOK
    BY DEF LifecycleInv, LifecycleTypeOK
  <1>1. [Next]_vars \/ MonitorSends \/ LastPersist
    BY StepsOfService DEF lifecycleVars
  <1>2. TypeOK' /\ SavedAtRest' /\ SessionsSound'
    <2>1. CASE [Next]_vars
      BY <1>0, <2>1, TypeKept, SavedKept, SoundKept
    <2>2. CASE MonitorSends
      BY <1>0, <2>2, SendKeeps
    <2>3. CASE LastPersist
      BY <1>0, <2>3, LastPersistKeeps
    <2> QED
      BY <1>1, <2>1, <2>2, <2>3
  <1>3. LifecycleTypeOK'
    BY <1>0, <1>2, MainTyped DEF LifecycleTypeOK
  <1> QED
    BY <1>2, <1>3 DEF LifecycleInv

LEMMA LifecycleInvHolds == LifecycleSpec => []LifecycleInv
  <1>1. LifecycleInit => LifecycleInv
    BY InitHolds DEF LifecycleInit, LifecycleInv, LifecycleTypeOK, ShutdownReason, IInv
  <1> QED
    BY <1>1, LifecycleInvKept, PTL DEF LifecycleSpec

\* Through a shutdown or a re-execution too, whatever tasks are at, the state
\* keeps its types, and the monitor thread sends no more than the channel holds.
THEOREM LifecycleTypeCorrect == LifecycleSpec => []LifecycleTypeOK
  <1>1. LifecycleInv => LifecycleTypeOK
    BY DEF LifecycleInv
  <1> QED
    BY <1>1, LifecycleInvHolds, PTL

\* What calls have chosen and not saved, and spawned persists have not written,
\* when the process ends is on disk all the same, unless it was chosen after
\* main had persisted; a persist that failed, an undo, a reload that evicts, an
\* Add that empties the list and a failed announcement give that up.
THEOREM ShutdownSaves == LifecycleSpec => SavedBeforeExit
  <1>1. ASSUME LifecycleInv, LifecycleNext, Flushed', Flushed => disk = Restorable(session),
               \A c \in Caller : ~Chooses(c)
        PROVE  disk' \in {Restorable(session'), Unsaved}
    <2>1. TypeOK
      BY <1>1 DEF LifecycleInv, LifecycleTypeOK
    <2>2. CASE MonitorSends \/ LastPersist
      <3>1. MonitorSends => Flushed /\ UNCHANGED <<session, disk>>
        BY <1>1 DEF MonitorSends, Flushed, saving
      <3> QED
        BY <1>1, <2>2, <3>1 DEF LastPersist, Persist
    <2>3. CASE [Next]_vars /\ ~LastPersist
      <3>1. Flushed
        <4>1. CASE UNCHANGED stage
          BY <1>1, <4>1 DEF Flushed
        <4>2. CASE Stopping
          BY <2>3, <4>2
          DEF Stopping, FlushState, LastPersist, Reexec, MainReturns, RuntimeEnds, Joined,
              Flushed, events
        <4>3. CASE Reexecute \/ Terminate
          BY <1>1, <4>3 DEF Reexecute, Terminate, WakesMain, Flushed
        <4> QED
          BY <1>1, <4>1, <4>2, <4>3
          DEF LifecycleNext, main, HandlersRun, FlushRuns, IngestRuns, MonitorSends,
              SelectionRuns, WlCopyOutlives, MonitorReads
      <3> QED
        BY <1>1, <2>1, <2>3, <3>1, ChangesAreSaved DEF Chooses
    <2> QED
      BY <1>1, <2>2, <2>3, StepsOfService
  <1>2. LifecycleInv /\ [LifecycleNext]_lifecycleVars
          => [Flushed' /\ (Flushed => disk = Restorable(session))
              => disk' \in {Restorable(session'), Unsaved} \/ \E c \in Caller : Chooses(c)
             ]_lifecycleVars
    BY <1>1
  <1> QED
    BY <1>2, LifecycleInvHolds, PTL DEF LifecycleSpec, SavedBeforeExit

\* The end of the daemon leaves no session half changed either, nor a snapshot
\* that a call still writing could put back.
THEOREM ShutdownKeepsSound == LifecycleSpec => []SessionsSound
  <1>1. LifecycleInv => SessionsSound
    BY DEF LifecycleInv
  <1> QED
    BY <1>1, LifecycleInvHolds, PTL

\* Of the session the end of the daemon changes nothing: through it too every
\* step is one operation of HistorySession, or an undo.
THEOREM ShutdownIsASession == LifecycleSpec => SessionStepOrUndo
  <1>1. ASSUME LifecycleInv, [LifecycleNext]_lifecycleVars
        PROVE  [SessionStep]_session
    <2>1. CASE [Next]_vars
      <3>1. ChannelTyped
        BY <1>1 DEF LifecycleInv, LifecycleTypeOK, TypeOK, ChannelTyped
      <3> QED
        BY <2>1, <3>1, StepIsSessionStep
    <2>2. CASE MonitorSends \/ LastPersist
      BY <2>2 DEF MonitorSends, LastPersist
    <2> QED
      BY <1>1, <2>1, <2>2, StepsOfService DEF lifecycleVars
  <1> QED
    BY <1>1, LifecycleInvHolds, PTL DEF LifecycleSpec, SessionStepOrUndo, SessionStep

\* Nor does it part the policies of the history from the settings.
THEOREM ShutdownRevertsNothing == LifecycleSpec => OnlyUndoRevertsSettings
  <1>1. ASSUME LifecycleInv, [LifecycleNext]_lifecycleVars
        PROVE  [/\ session.policies = settings.policies
                /\ session'.policies # settings'.policies
                => \E c \in Caller : Undo(c)]_vars
    <2>1. CASE [Next]_vars
      BY <1>1, <2>1, RevertIsUndo DEF LifecycleInv, LifecycleTypeOK
    <2>2. CASE MonitorSends \/ LastPersist
      BY <2>2 DEF MonitorSends, LastPersist, policy
    <2> QED
      BY <1>1, <2>1, <2>2, StepsOfService DEF lifecycleVars
  <1> QED
    BY <1>1, LifecycleInvHolds, PTL DEF LifecycleSpec, OnlyUndoRevertsSettings
=============================================================================
