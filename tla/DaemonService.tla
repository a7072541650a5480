--------------------------- MODULE DaemonService ---------------------------
(***************************************************************************)
(* The daemon's state behind its lock: the DBus handlers of                *)
(* dbus/service.rs, the write-back of a selection (dbus/clipboard.rs,      *)
(* dbus/guard.rs), DaemonState (dbus/state.rs) and the ingest loop         *)
(* (ingest.rs).  A handler that takes the lock once is one action.  A      *)
(* selection takes it three times: to choose an entry, for as long as      *)
(* wl-copy runs, and to save the choice or to put a snapshot back; other   *)
(* handlers, the ingest loop and reloads run in between.                   *)
(*                                                                         *)
(* The Wayland monitor appears as Capture, which hands any copied text to  *)
(* the channel; files appear as the session the last persist wrote         *)
(* (HistoryStore has their steps).  save_history is on.                    *)
(***************************************************************************)
EXTENDS HistoryOps

CONSTANTS
    Caller,      \* clients that select entries
    Offsets,     \* the offsets they pass to SelectAtOffset
    Settings,    \* the settings a user may write
    None,        \* the guard is not armed
    Unsaved,
    ChannelCap,  \* capacity of the channel of clipboard events (64)
    MaxFlushes   \* bound on spawned persists that have not run

SettingsRecord ==
    [policies : Policies, navigation_wrap : BOOLEAN,
     track_changes : BOOLEAN, track_applet_state : BOOLEAN]

ASSUME ServiceAssumption ==
    /\ Offsets \subseteq -(I32Max + 1) .. I32Max
    /\ Settings \subseteq SettingsRecord
    /\ None \notin Text /\ Unsaved \notin [items : Seq(Item), active_index : Nat]
    /\ ChannelCap \in Nat \ {0} /\ MaxFlushes \in Nat \ {0}

VARIABLES
    session,         \* DaemonState.session
    settings,        \* DaemonState.settings
    tracking,        \* DaemonState.tracking
    armed,           \* the text whose write the guard expects, or None
    call,            \* call[c]: the selection of client c in progress
    channel,         \* clipboard events not yet ingested
    flushes,         \* spawned persists that have not run
    disk             \* what a restart shows, or Unsaved: the code has changed
                     \* the session, or failed to save it, and leaves it at that

policy == <<settings, tracking>>
events == <<armed, channel>>
saving == <<flushes, disk>>
vars == <<session, policy, events, call, saving>>

\* Between its choice and the exit of wl-copy a call holds the text it writes
\* and the snapshot it took; deferred: its persist is spawned.
Idle == [phase |-> "idle"]

Written(deferred) == [phase |-> "written", deferred |-> deferred]

CallRecord ==
    [phase : {"chosen", "writing", "undo"},
     text : Text, deferred : BOOLEAN, rollback : Session]
      \cup {Written(deferred) : deferred \in BOOLEAN}

Restorable(s) ==
    [items        |-> s.items,
     active_index |-> IF s.active_index \in Positions(s) THEN s.active_index ELSE 0]

TypeOK ==
    /\ session \in Session
    /\ settings \in Settings
    /\ tracking \in BOOLEAN
    /\ armed \in Text \cup {None}
    /\ call \in [Caller -> {Idle} \cup CallRecord]
    /\ channel \in Seq(Text) /\ Len(channel) <= ChannelCap
    /\ flushes \in 0 .. MaxFlushes
    /\ disk \in [items : Seq(Item), active_index : Nat] \cup {Unsaved}

Init ==
    /\ settings \in Settings
    /\ session = NewSession(settings.policies, settings.navigation_wrap)
    /\ tracking = settings.track_changes
    /\ armed = None /\ channel = <<>>
    /\ call = [c \in Caller |-> Idle]
    /\ flushes = 0 /\ disk = Restorable(session)

InPhase(c, phase) == call[c].phase = phase

\* write_clipboard_text holds the state lock while wl-copy runs
LockFree == \A c \in Caller : ~InPhase(c, "writing")

\* DaemonState::persist reports success, or an error of the files
Persist == disk' \in {Restorable(session'), Unsaved}

-----------------------------------------------------------------------------
(* A selection.  The handlers differ in how they choose and in when they   *)
(* persist.                                                                *)

Choose(c, chosen, index, deferred) ==
    /\ session' = chosen
    /\ call' = [call EXCEPT ![c] =
                   [phase |-> "chosen", text |-> ItemAt(chosen, index).text,
                    deferred |-> deferred, rollback |-> session]]
    /\ UNCHANGED <<policy, events, saving>>

ChooseAtOffset(c, offset) ==
    /\ LockFree /\ InPhase(c, "idle")
    /\ ~OffsetRefused(session, offset)
    /\ Choose(c, SelectAtOffset(session, offset), OffsetTarget(session, offset), TRUE)

\* of an empty history the call fails after it has set the index to 0
ChooseAtIndex(c, index) ==
    /\ LockFree /\ InPhase(c, "idle")
    /\ ~IndexRefused(session, index)
    /\ IF session.items = <<>>
       THEN /\ session' = SetActiveIndex(session, index)
            /\ UNCHANGED <<policy, events, call, saving>>
       ELSE Choose(c, SetActiveIndex(session, index), index, FALSE)

ChooseUuid(c, uuid) ==
    /\ LockFree /\ InPhase(c, "idle")
    /\ Found(session, uuid)
    /\ Choose(c, SessionSelect(session, uuid), 0, FALSE)

\* write_clipboard_text takes the lock and arms the guard; no item is empty
BeginWrite(c) ==
    /\ LockFree /\ InPhase(c, "chosen")
    /\ armed' = call[c].text
    /\ call' = [call EXCEPT ![c].phase = "writing"]
    /\ UNCHANGED <<session, policy, channel, saving>>

\* wl-copy exits, with success or without, and the lock is released; the guard
\* stays armed either way
WlCopyExits(c) ==
    /\ InPhase(c, "writing")
    /\ \/ call' = [call EXCEPT ![c] = Written(call[c].deferred)]
       \/ call' = [call EXCEPT ![c].phase = "undo"]
    /\ UNCHANGED <<session, policy, events, saving>>

\* mutated Undo: the write is tried again instead
UndoAndRetry(c) ==
    /\ LockFree /\ InPhase(c, "undo")
    /\ call' = [call EXCEPT ![c].phase = "chosen"]
    /\ UNCHANGED <<session, policy, events, saving>>

\* mutated Undo: the list goes back, and the rest of the session does not
UndoListOnly(c) ==
    /\ LockFree /\ InPhase(c, "undo")
    /\ session' = [session EXCEPT !.items = call[c].rollback.items]
    /\ call' = [call EXCEPT ![c] = Idle]
    /\ disk' = Unsaved
    /\ UNCHANGED <<policy, events, flushes>>

\* the write failed: the whole session goes back to the snapshot
Undo(c) ==
    /\ LockFree /\ InPhase(c, "undo")
    /\ session' = call[c].rollback
    /\ call' = [call EXCEPT ![c] = Idle]
    /\ disk' = Unsaved
    /\ UNCHANGED <<policy, events, flushes>>

\* SelectAtOffset announces the new index, returns and leaves the persist to a
\* task of its own
SpawnFlush(c) ==
    /\ InPhase(c, "written") /\ call[c].deferred
    /\ flushes < MaxFlushes
    /\ flushes' = flushes + 1
    /\ call' = [call EXCEPT ![c] = Idle]
    /\ UNCHANGED <<session, policy, events, disk>>

\* the announcement fails, and SelectAtOffset returns its error before it has
\* left anything to persist the choice
AnnouncementFails(c) ==
    /\ InPhase(c, "written") /\ call[c].deferred
    /\ call' = [call EXCEPT ![c] = Idle]
    /\ disk' = Unsaved
    /\ UNCHANGED <<session, policy, events, flushes>>

\* mutated SaveChoice: the handler returns and does not persist
ReturnUnsaved(c) ==
    /\ InPhase(c, "written") /\ ~call[c].deferred
    /\ call' = [call EXCEPT ![c] = Idle]
    /\ UNCHANGED <<session, policy, events, saving>>

\* Select and SelectAtIndex persist before they return
SaveChoice(c) ==
    /\ LockFree /\ InPhase(c, "written") /\ ~call[c].deferred
    /\ call' = [call EXCEPT ![c] = Idle]
    /\ UNCHANGED session /\ Persist
    /\ UNCHANGED <<policy, events, flushes>>

Flush ==
    /\ LockFree /\ flushes > 0
    /\ flushes' = flushes - 1
    /\ UNCHANGED session /\ Persist
    /\ UNCHANGED <<policy, events, call>>

-----------------------------------------------------------------------------
(* The handlers that take the lock once.                                   *)

\* identifiers no item has (Uuid::new_v4)
FreshUuids == Uuid \ UuidsOf(session.items)

ChangeAndPersist(changed) ==
    /\ session' = changed /\ Persist
    /\ UNCHANGED <<policy, events, call, flushes>>

\* an item that alone exceeds the budget is evicted at once: Add then fails
\* before its persist
Add(text) ==
    /\ LockFree /\ tracking
    /\ IngestOutcome(session, text) # "RejectedTextSize"
    /\ \E uuid \in FreshUuids : session' = SessionIngest(session, text, uuid)
    /\ IF session'.items = <<>> THEN disk' = Unsaved ELSE Persist
    /\ UNCHANGED <<policy, events, call, flushes>>

Highlight(index) ==
    /\ LockFree
    /\ ~IndexRefused(session, index)
    /\ ChangeAndPersist(SetActiveIndex(session, index))

Delete(uuid) ==
    /\ LockFree
    /\ Found(session, uuid)
    /\ ChangeAndPersist(SessionDelete(session, uuid))

EmptyHistory ==
    /\ LockFree
    /\ ChangeAndPersist(SessionEmpty(session))

Track(on) ==
    /\ LockFree
    /\ tracking' = on
    /\ UNCHANGED <<session, settings, events, call, saving>>

\* applet_present itself is read by a warning only
OnAppletStateChanged(present) ==
    /\ LockFree
    /\ tracking' = IF settings.track_applet_state
                   THEN present /\ settings.track_changes ELSE tracking
    /\ UNCHANGED <<session, settings, events, call, saving>>

\* mutated Reload: the history keeps its policies
ReloadTrackingOnly(new) ==
    /\ LockFree
    /\ settings' = new /\ tracking' = new.track_changes
    /\ UNCHANGED <<session, events, call, saving>>

\* apply_settings_keys, after a change of any key: nothing is persisted
Reload(new) ==
    /\ LockFree
    /\ settings' = new
    /\ tracking' = new.track_changes
    /\ session' = ApplySettings(session, new.policies, new.navigation_wrap)
    /\ disk' = IF session'.items = session.items THEN disk ELSE Unsaved
    /\ UNCHANGED <<events, call, flushes>>

-----------------------------------------------------------------------------
(* The clipboard.                                                          *)

\* the guard once it has suppressed this text (clear_if_matched)
AfterSuppressing(text) == IF armed = text THEN None ELSE armed

\* mutated Capture: the sender does not wait for room in the channel
CaptureUnbounded(text) ==
    /\ IF armed # None
       THEN armed' = AfterSuppressing(text) /\ UNCHANGED channel
       ELSE channel' = Append(channel, text) /\ UNCHANGED armed
    /\ UNCHANGED <<session, policy, call, saving>>

\* the monitor has read a text; it asks the guard without the state lock
Capture(text) ==
    /\ IF armed # None
       THEN armed' = AfterSuppressing(text) /\ UNCHANGED channel
       ELSE /\ Len(channel) < ChannelCap
            /\ channel' = Append(channel, text) /\ UNCHANGED armed
    /\ UNCHANGED <<session, policy, call, saving>>

\* clipboard_echoes_active_item
Echoes(text) ==
    /\ session.active_index \in Positions(session)
    /\ ItemAt(session, session.active_index).text = text

\* what the ingest loop does with a text it does not drop
Ingested(text) ==
    /\ tracking /\ armed = None /\ ~Echoes(text)
    /\ IngestOutcome(session, text) # "RejectedTextSize"

\* mutated Ingest: the list changes without the active index
IngestKeepsIndex ==
    /\ LockFree /\ channel # <<>>
    /\ channel' = Tail(channel)
    /\ IF Ingested(Head(channel))
       THEN /\ \E uuid \in FreshUuids :
                  session' = IngestText(session, Head(channel), uuid)
            /\ Persist
       ELSE UNCHANGED <<session, disk>>
    /\ armed' = IF tracking THEN AfterSuppressing(Head(channel)) ELSE armed
    /\ UNCHANGED <<policy, call, flushes>>

\* run_ingest_loop takes one event
Ingest ==
    /\ LockFree /\ channel # <<>>
    /\ channel' = Tail(channel)
    /\ IF Ingested(Head(channel))
       THEN /\ \E uuid \in FreshUuids :
                  session' = SessionIngest(session, Head(channel), uuid)
            /\ Persist
       ELSE UNCHANGED <<session, disk>>
    /\ armed' = IF tracking THEN AfterSuppressing(Head(channel)) ELSE armed
    /\ UNCHANGED <<policy, call, flushes>>

\* the window of the guard has passed: it suppresses nothing any more
GuardExpires ==
    /\ armed # None
    /\ armed' = None
    /\ UNCHANGED <<session, policy, channel, call, saving>>

-----------------------------------------------------------------------------

Handlers ==
    \/ \E text \in Text : Add(text)
    \/ \E index \in Positions(session) \cup {0} : Highlight(index)
    \/ \E uuid \in Uuid : Delete(uuid)
    \/ EmptyHistory
    \/ \E on \in BOOLEAN : Track(on)
    \/ \E present \in BOOLEAN : OnAppletStateChanged(present)
    \/ \E new \in Settings : Reload(new)

Selection(c) ==
    \/ \E offset \in Offsets : ChooseAtOffset(c, offset)
    \/ \E index \in Positions(session) \cup {0} : ChooseAtIndex(c, index)
    \/ \E uuid \in Uuid : ChooseUuid(c, uuid)
    \/ BeginWrite(c) \/ WlCopyExits(c) \/ Undo(c)
    \/ SpawnFlush(c) \/ AnnouncementFails(c) \/ SaveChoice(c)

Next ==
    \/ Handlers
    \/ \E c \in Caller : Selection(c)
    \/ Flush
    \/ \E text \in Text : Capture(text)
    \/ Ingest
    \/ GuardExpires

Spec == Init /\ [][Next]_vars

-----------------------------------------------------------------------------
(* Properties.                                                             *)

AtRest == flushes = 0 /\ \A c \in Caller : InPhase(c, "idle")

\* With no call in progress and no spawned persist to come, what a restart
\* would show is what the daemon shows, unless since the last persist that
\* succeeded one failed, a reload evicted, a call was undone, an Add emptied the
\* list, or the announcement of a navigation failed.  Every other handler that
\* changes the session saves it, if only in a task that runs after the call has
\* returned and other calls have changed it again.
SavedAtRest == AtRest /\ disk # Unsaved => disk = Restorable(session)

\* a call may have to put its snapshot back
HoldsSnapshot(c) ==
    InPhase(c, "chosen") \/ InPhase(c, "writing") \/ InPhase(c, "undo")

\* The session behind the lock, and every snapshot a selection may put in its
\* place after others have run, is one whose running total is exact, whose
\* length keeps to its own policies and whose uuids name one item each: an
\* undo puts back the whole of a session or nothing of it.
SessionsSound ==
    /\ Sound(session)
    /\ \A c \in Caller : HoldsSnapshot(c) => Sound(call[c].rollback)

\* The history obeys the settings in force, whatever interleaves with a
\* reload; only the snapshot a failed selection puts back (service.rs:191)
\* brings back policies the user has since replaced.
OnlyUndoRevertsSettings ==
    [][/\ session.policies = settings.policies
       /\ session'.policies # settings'.policies
       => \E c \in Caller : Undo(c)]_vars

SessionSteps == INSTANCE HistorySession

\* Seen through the lock the session is that of HistorySession: interleaved
\* handlers only ever apply its operations one at a time.  The exception is
\* an undo, which may jump back over the operations of others.
SessionStepOrUndo ==
    [][SessionSteps!Next \/ \E c \in Caller : Undo(c)]_session

\* DESIGN.md: the guard "prevents navigation from corrupting `active_index`
\* via stale clipboard events".  An event ingested between the choice of an
\* entry and its write leaves the active index alone.
StaleEventsHarmless ==
    [][/\ Ingest
       /\ \E c \in Caller : InPhase(c, "chosen")
       => session'.active_index = session.active_index]_vars
=============================================================================
