# cosmic-paste: TLA+ models and proofs

cosmic-paste is a clipboard manager for COSMIC on Wayland.  A daemon watches
the clipboard, keeps a history of plain texts, saves it, and lets a panel
applet, a command line and global shortcuts select an entry, which it writes
back to the clipboard with `wl-copy`.  This directory models the daemon and the
part of the applet that follows it in TLA+, checks them with TLC and proves the
safety properties with TLAPS.  Paths below are relative to the crates
`cosmic-paste-core` (core), `cosmic-paste-daemon` (daemon) and
`cosmic-paste-applet` (applet).

## Inventory

| Part | Source | State | Operations |
|---|---|---|---|
| History list | core `history.rs`, `item.rs` | items (newest first), `byte_total`, policies | `ingest_text`, `select`, `pop`, `delete`, `empty`, `set_policies` |
| Active index, session | core `active_index.rs`, `lib.rs` | `active_index`, `navigation_wrap` | navigation by offset, highlight, resets, `on_delete` |
| Persistence | core `persistence.rs` | `<name>.ron`, `.ron.bak`, `.ron.corrupt`, `state.json` | `save_history`, `load_history`, `save_session_state`, `load_session_state` |
| Daemon state | core `dbus/state.rs`, `settings.rs` | session, settings, `tracking`, `applet_present` | `load_default`, `new_in_memory`, `persist`, `apply_settings` |
| DBus service | core `dbus/service.rs` | handlers in flight, behind one `tokio::sync::Mutex` | `Add`, `Select`, `SelectAtIndex`, `SelectAtOffset`, `SetActiveIndex`, `Delete`, `EmptyHistory`, ... |
| Write-back and guard | core `dbus/clipboard.rs`, `dbus/guard.rs` | pending fingerprint and its time | `write_clipboard_for_paste`, `arm`, `should_suppress_ingest` |
| Ingest loop | daemon `ingest.rs`, `signals.rs` | two bounded channels | one event at a time |
| Wayland monitor | daemon `monitor/` | one slot for a pending selection, the read in progress | Wayland callbacks, `flush_pending`, `read_text_plain` |
| Lifecycle | daemon `main.rs`, `lifecycle.rs`, `config.rs` | shutdown reason, the monitor thread's handle | start, last persist, join, re-execute, settings watcher |
| Applet, listener | applet `dbus_sub.rs`, `app.rs` | a subscription, a copy of the history and of the index | fetch, subscribe, refresh, select |
| Applet, popup | applet `app.rs`, `dbus_sub.rs`; core `show_history_trigger.rs`, `dbus/applet_activation.rs` | triggers, the popup it tracks | show, toggle, select, closed |
| Selection toast | core `selection_status.rs` | one notification | show, hide |
| Portal shortcuts | daemon `shortcuts/` | none of its own | calls the service |
| Command line, history window | `cosmic-paste-cli`, `cosmic-paste-ui` | none (the window is a stub) | one call per process |

### How the parts interact

- **One lock.**  `DaemonState` (session, settings, tracking) sits behind a
  `tokio::sync::Mutex` that every handler, the ingest loop and the settings
  watcher take.  A handler that changes the session takes it once and persists
  before it lets go (`Add`, `Delete`, `EmptyHistory`, `SetActiveIndex`).
- **Selections take the lock three times**: to choose the entry and clone the
  session, to run `wl-copy` (the lock is held until that process exits), and to
  persist, or to put the clone back when the write failed.  `SelectAtOffset`
  persists in a task that runs after the call has returned.
- **Two channels.**  The Wayland thread hands each text it has read to a
  bounded channel and waits when it is full; the ingest loop drains it.  The
  loop announces what it did on a second channel with `try_send`, which drops
  signals when full.
- **The self-copy guard** has a lock of its own.  A write arms it with the text
  about to appear; the monitor and the ingest loop both ask it.  It ends when
  that text has been suppressed, or after 5250 ms.
- **Files.**  A persist replaces the history (temporary file and rename), copies
  it to the backup, and replaces `state.json`.  A start reads `state.json` and
  the history, and on an error runs in memory with saving off.
- **The applet** is a DBus client with three threads of its own.  One fetches the
  history, subscribes to the daemon's signals, fetches again on each `Update`
  and takes over the index of each `ActiveIndexChanged`.  The other two watch a
  file and a socket, through which a press of the show-history shortcut reaches
  the applet a second and a third time.  All hand events to the user interface,
  which also fetches once on its own when it starts.
- **Shutdown.**  A signal or `Reexecute` wakes `main`, which persists under the
  lock, tells the Wayland thread to stop and waits for it, while handlers, the
  ingest loop and spawned persists go on.

### What is hard, and what makes each part correct

| Part | Hard because | Correct when |
|---|---|---|
| History list | `byte_total` kept by hand; three ways to ingest; two eviction loops | limits hold, the total is exact, texts and uuids are unique, order is recency |
| Active index | positions move under it; `usize` mixed with `i32` | it designates an entry, and the same one across a deletion |
| Persistence | a crash or an error between any two steps; damaged files | what was saved returns; nothing is lost in silence |
| Service | other handlers run between the lock sections of a selection | the session changes by one operation at a time; what is shown gets saved; calls return |
| Guard, ingest | an event may be older than the write it meets | an old event does not undo a selection; the user's own copies are kept |
| Monitor | one slot for two sources; Wayland events dispatched inside a read; reads that time out and are put back, or end with a part of the text | selections reach the history in order and once; a current one is not forgotten |
| Listener | refresh and subscription race; dropped, failed, late and overtaken signals; a stream that is not polled during a refresh; a daemon that restarts | the copy is current, or is about to be |
| Popup | one press arrives several times; reports of closed popups come late | a press opens a popup unless one was just asked for; no popup is left behind |
| Lifecycle | a thread that waits for room, a lock held by `wl-copy` | a daemon told to stop stops |

PROJECT.json lists the hazards line by line with the properties that cover them.

## Modules

| Module | Models |
|---|---|
| `HistoryOps` | every operation of `History`, `ActiveIndexState` and `HistorySession`, as operators from a session record to the session it leaves |
| `HistorySession` | one session as a state machine, an action per operation |
| `RecencyList` | abstract: what a history promises about its texts |
| `HistoryStore` | the files, the persist step by step, crashes, damage, and the start |
| `DurableHistory` | abstract: the saved history as one register |
| `DaemonService` | lock, handlers, selections, guard, channel, ingest loop, reloads |
| `DaemonLifecycle` | the end of the daemon, over the state and actions of `DaemonService`, which it extends |
| `ClipboardMonitor` | the Wayland thread between compositor, guard and channel |
| `AppletSync` | the signals of the handlers and of the ingest loop, the listener thread, what the applet shows |
| `HistoryPopup` | from the shortcut, over its deliveries, to the popup |
| `MC...` | instances for TLC, one for each of the state machines |
| `HistoryOpsProofs` | lemmas about sequences, sums and the operators |
| `HistorySessionProofs`, `HistoryStoreProofs`, `DaemonServiceProofs`, `DaemonLifecycleProofs`, `ClipboardMonitorProofs`, `AppletSyncProofs`, `HistoryPopupProofs` | theorems |

**HistoryOps, HistorySession.**  A session record flattens the three structs:
`items` is `History.items` (position 1 is index 0), `active_index` and
`navigation_wrap` keep the program's values.  Texts are elements of a set with
the three things the code asks of them: `ByteLen`, `Trimmed`, `StartsWith`.
A checksum is taken to identify its text.  A refused call is no step.
Timestamps, display lines and rich payloads are left out: nothing decides on
them, and no caller passes a payload.  The offset arithmetic keeps the width
of an `i32` (`WrappingAdd`), with the limit as a constant.

**HistoryStore.**  Each file is absent, damaged (it does not parse) or holds a
value.  A persist is four steps: rename of the primary, truncation of the backup,
its filling, rename of `state.json`.  `IoError` ends a persist after any step;
`Crash` may come anywhere; `Damage` makes a file unreadable while no save runs.
The temporary file is never read, so writing it is no step.  `Start` restores the
index against the history as it was saved and then evicts under the settings it
finds, as `load_default` does: what the settings may evict is the constant
`Evictions`, and the index may end past the end.  The file's magic
number is not modelled (21 bytes, `persistence.rs:10`).

**DaemonService.**  `call[c]` is a client's selection in progress with the text
and the snapshot it holds: `chosen` (between the first two lock sections),
`writing` (wl-copy runs and holds the lock), then `written` or `undo`.
`LockFree` guards every action that takes the state lock.  `armed` is the
guard's pending text; because its window is time, `GuardExpires` may come at any
moment.  `Capture` is the monitor handing over any text at all, so the events
include the echo of a write, old events and the user's own copies.  `disk` is
the session a restart would show: `Persist` either updates it or fails, after
which it is `Unsaved` and says nothing.  It is also `Unsaved` where the code
changes the session and does not save: after a reload that evicts, after an
undo, when `Add` evicts everything, and when `SelectAtOffset` cannot announce
the index (`AnnouncementFails`), which returns before the persist is spawned.
`applet_present` is read by a warning only, and so is left out.  A reload after
a change of any key sets `tracking` to `track_changes`.

**DaemonLifecycle.**  The variables of `DaemonService`, and `stage` (up, stopping,
joining, returning, down), `reason`, and `holding`, the text a monitor thread is
about to send.  The actions of `DaemonService` run while the process does; the
monitor is split in two, because the thread that waits in `blocking_send` is the
one `main` waits for.  A `Reexecute` ends in `exec` with tasks still running; a
signal ends in the return of `main`, where the runtime waits for the blocking call
that runs `wl-copy`.  How a start reads the files is in `HistoryStore`.

**ClipboardMonitor.**  An offer is the number of the selection it stands for.
`inbox` holds Wayland events not yet dispatched; `Dispatch` runs in the loop and
inside a read, but not while the thread sends.  `pending` is the slot, `ripe` says
that its debounce has passed.  A read is answered if the compositor still knows
the offer; it may time out if the owner is slow or the offer has been replaced.
A read returns what is in the pipe when it finds it not empty, the text or a first
part of it (`Readable`, with the parts of each text in the constant `Parts`), and
guard and encoding check decide on what was read (`thread.read`).  An empty text
reads like no answer and so counts as slow.  The guard is the one
of `DaemonService`; `write` adds whether the selection a write made has been read.

**AppletSync.**  A history is named by the operation that made it, since only its
identity matters.  `call` holds the signals a handler has still to send, after its
lock sections; `signals` is the bounded channel to the emitter, `wire` the
subscription, `ui` the channel to `App::update`.  The stream of the subscription
holds `WireCap` signals and is not polled during a refresh.  What happens when it
fills is behaviour of zbus 5, outside the repository: the task that reads the
connection waits for room, so no answer that comes after is read.  That is
`AnswerArrives`, the guard of everything the listener reads in a refresh, and
`Stuck`.  A signal may fail to go out: a handler then sends no more
(`AnnounceFails`), the emitter goes on (`EmitFails`).  The auxiliary `missed` becomes
true where a change goes unannounced and false where the listener reads the value
again.  One client's call is in progress at a time; the ingest loop, reloads,
fetches and the daemon's exit interleave with it.

**HistoryPopup.**  `deliveries` holds what each sender has still to do of
`Routes`: the portal's task, the helper script, the command line.  `pokes` are
file changes and datagrams, `triggers` the channel of eight, `recent` the 300 ms
during which the interface ignores requests.  `waiting` is auxiliary: a press
wrote a trigger while requests were not ignored, and none has been taken since.
`windows` is what the compositor shows and `popup` what the applet tracks; a
closed popup is reported by a message of its own, in `closing`, which may come
late or for one already destroyed.

## What the runs check

| Run | Checks |
|---|---|
| `session_plain` | `TypeOK`, `LengthBounded`, `WithinBudget`, `TextsDistinct`, `OnlyReloadStrandsActive`, `DeleteKeepsActive`, `NavigationExact`, `ImplementsRecency` |
| `session_growing` | `ByteTotalExact`, `UuidsDistinct`, `BudgetLostOnlyByGrowth`, `DuplicatesOnlyByGrowth` |
| `session_stranded` | finding 1 |
| `store_damage` | `TypeOK`, `CompletedSaveReturns`, `OnlyDamageLoses`, `InMemoryKeepsHistory`, `ImplementsRegister` (the store implements `DurableHistory` up to the first damage), with crashes, failed writes, starts that evict and two damages |
| `store_state_damage` | finding 2 |
| `service_safety` | `TypeOK`, `SavedAtRest`, `SessionsSound`, `OnlyUndoRevertsSettings`, `SessionStepOrUndo` |
| `service_liveness` | `LifecycleTypeOK`, `ShutdownCompletes`, `CallReturnsOrExit`, under `LifecycleFairSpec` |
| `lifecycle_exit` | `SavedBeforeExit` |
| `service_stale` | finding 3 |
| `monitor` | `TypeOK`, `CapturedInOrder`, `SeenWriteDisarms`, `OnlySlotTheftForgets`, `PromptSelectionSettles` |
| `applet_sync` | `TypeOK`, `ListIsFresh`, `IndexRightAtRest`, `UnreachableMeansIt`, `ListConverges` |
| `popup` | `TypeOK`, `TrackedIsShown`, `OrphansNeedOverlap`, `EveryPressIsTaken` |

What they show, part by part:

- *Session.*  Without growing lines the list respects both limits, holds each
  text once and implements `RecencyList`.  With growing lines the total stays
  exact and uuids unique; a growing line is the one step that can repeat a text
  or exceed the budget.  Only a reload can leave the active index past the end.
  Deleting another entry never changes which item is active.  `NavigationExact`
  holds although the sum wraps, because a clamped target that wrapped is refused.
- *Store.*  A persist that reported success is what every later start shows, if
  that start can read `state.json`, whatever crashes follow and although the
  primary may be damaged between saves, less what its settings evict.  No crash,
  failed write or start at any step of a later save changes what a start would
  load (`OnlyDamageLoses`); only damage to the primary does, and only after a
  persist that was cut short, whose backup is old or half written.  Up to the first
  damage the four steps are one write of a register.
- *Service.*  Whatever interleaves, the session takes the steps of
  `HistorySession`, one at a time, and the policies in force are those of the
  settings; the snapshot a failed selection puts back is the one exception,
  and it may discard other calls' changes.  The session, and every snapshot a
  call may put back, has an exact total, a length within its own policies and
  distinct uuids (`SessionsSound`).  When nothing is in progress the disk
  holds what is shown, unless since the last persist that succeeded one failed, a
  reload evicted, a selection was undone, an `Add` emptied the list, or the
  announcement of a navigation failed.  The last is not in the code's comments: an
  error of a signal leaves the choice unsaved until another handler persists.
- *Lifecycle.*  Every selection returns unless the process ends first, and a
  daemon told to stop does: the channel is drained until the end, so the thread
  that waits for room in it gets some.  The exit drops calls between their choice
  and its persist, and persists that were spawned and have not run.  Still, once
  `main` has persisted, only a new choice parts what is shown from what is on disk
  (`SavedBeforeExit`): `main` waits for the lock, so whatever was chosen before is
  in its persist, and handlers and the ingest loop save what they change later.
- *Monitor.*  Selections are handed over in the order they were made and once
  each.  A selection the user has not replaced is let go of without a result
  only when the single slot is taken from it: by the other source (a primary
  selection over a clipboard one, with `primary_to_history` on, and the
  reverse), or by an older selection whose read timed out and is put back.  One
  whose owner answers is settled even so, or replaced.  Once the thread has read
  all of the selection a write made, the guard suppresses nothing until the next
  write.  Before that, after a write that failed or was replaced, and after one
  that was read in part, whose fingerprint the guard does not know, it swallows
  the user's copies until its window of 5250 ms passes.
- *Listener.*  What the applet shows is current or on its way, except after a
  change that is not announced: `EmptyHistory` (which the listener ignores), an
  eviction by new settings, an undone or unsaved change, a signal dropped by a
  full channel, sent before the subscription or not sent at all, a daemon that
  restarted, or a first fetch shown late.  The comment of `ListIsFresh` is the
  list.  The index at rest is the daemon's unless the last announcement was
  overtaken or missing.  An old list is caught up with unless a change was
  missed, or the listener is `Stuck`: more signals came during one of its
  fetches than its stream holds, and it waits for ever.
- *Popup.*  However often a press is delivered, dropped or delayed, the
  interface opens a popup for a request after it once the listener is connected,
  unless it had taken one in the 300 ms before: such a press is dropped by the
  debounce, as meant.  The popup it tracks is on the screen or known to be
  closed.  A popup is left on the screen untracked only when a request opens one
  while another is open.

### Bounds, and why they suffice

| Instance | Values | Reaches |
|---|---|---|
| session | texts `""`, `"   "`, `"a"`, `" a "`, `"foo"`, `"foo bar"`; four uuids (symmetric); `I32Max` 6; offsets -2..2 and both ends of the range | empty and blank texts, trimming into another text, a proper prefix |
| `session_plain` policies | three entries and 20 bytes; one entry; 6 bytes, less than the largest text; trimming with a minimum of 2 | both eviction loops, an item evicted at once, both size refusals by the minimum |
| `session_growing` policies | growing lines with 11 bytes; plain with 20 | growth past the budget and into a duplicate |
| store | histories of 0, 1 and 2 items; indices 0 and 1; settings that keep all and that keep one item; two damages | every file absent, damaged, old and current, alone and in pairs |
| service, safety | one selecting client beside all other handlers; texts of 1 and 2 bytes; three uuids (symmetric); two settings, one too small for the larger text and following the applet; channel 1; one spawned persist | all interleavings of a selection with anything else, a full channel, an `Add` that empties |
| `service_liveness` | two clients, one text, one setting, channel 1; no symmetry | two selections that wait for each other's lock, a thread that waits for room while `main` waits for it |
| `lifecycle_exit` | one selecting client, two texts of which applications copy one (`CopiedTexts`), three uuids (symmetric), room for both, channel 1, one spawned persist | a choice before, during and after the persist of `main`, dropped with and without a write |
| `monitor` | three selections of a prompt (writable), a slow, an image (clipboard) and a garbled text (primary); the prompt one read whole, in part, or in a part that is garbled; channel 1 | a slot taken by either source and by a read that timed out, a write between two copies, a full channel |
| `applet_sync` | two operations, two indices, two signals in the emitter's channel, two on the stream, one event | an index overtaken, one or both signals dropped or failed, a stream that fills during a fetch, a restart between two fetches |
| `popup` | two presses, three popups, one trigger and one event in the channels | a second press inside and after the 300 ms, an orphan, a late report |

Four uuids are one more than the longest list, so a fresh one is always there; a
list of three has a first, a middle and a last item, which is all the operations
distinguish.  `I32Max` 6 keeps all offsets that do and do not wrap within reach
of an index.  `MaxDamages` and `MaxFlushes` bound what is otherwise unbounded,
`ChannelCap` stands for the code's 64.  Spawned persists do the same work in
whatever order they run, so one at a time loses no outcome that `disk` could
tell.  `MaxOffers`, `MaxOps`, `MaxPresses` and `MaxPopups` bound what the user
and the daemon do; a hazard of these modules takes two of them and a third to
follow.  In `HistoryPopup` the spare popups are kept for openings nothing can
hold back, so that the bound never blocks the interface.  In `AppletSync` clicks
end with the operations they may ask for.  `WireCap` stands for the code's 32:
two operations send up to four signals, so a stream of two fills, and does not.
Two runs have a constraint.  `CopiedTexts` leaves out states in which an
application copies the other text; the handlers and the channel still see both.
`BootsInTime` leaves out states in which the last operation has come and the
first fetch of the applet has not begun: that fetch could only show what is
current, or fail.  Deadlock is not checked in three passing runs: in
`service_liveness` and `lifecycle_exit` the daemon ends, and in `applet_sync`
the system rests when the last operation has been shown.

### Fairness

Four runs assume some.

- `service_liveness`: the queue of a `tokio::sync::Mutex` is first in, first out,
  so whoever waits for the lock gets it however often others take it: strong
  fairness of the steps of a selection, of the ingest loop, of a spawned persist
  and of the end of the daemon.  It includes that `wl-copy` exits.  The code has
  no timeout for it (`clipboard.rs:39-73`), so this is an assumption about a
  program outside the repository; without it every call waits for ever, and so
  does the shutdown.
- `monitor`: the thread runs, its debounce passes, the ingest loop takes events,
  and the owner of a selection that is not slow answers a read.  Owners, the user
  and `wl-copy` are otherwise free.
- `applet_sync`: something of the daemon or of the applet goes on while something
  can.  Nothing is assumed about the first fetch, the user, or the return of a
  daemon that has exited.
- `popup`: the threads that poll and the interface run.  Connecting is not assumed:
  `EveryPressIsTaken` has it as its condition.

### Findings

1. `session_stranded`: a reload that lowers the limits evicts without telling
   the active index, which is left past the end; clamped navigation is refused
   until another operation resets it.
2. `store_state_damage`: a `state.json` that does not parse makes the daemon
   start with an empty history and saving off, though the history is intact.
3. `service_stale`: the index is chosen in one lock section and the guard armed
   in the next, so a queued event can be ingested in between and resets it.

Three smaller disagreements have no run of their own.  A line that grows into a text
held further down is then held twice (`history.rs:134`; `DuplicatesOnlyByGrowth`
shows it is the only step that does so).  The backup is a copy of the revision just
saved (`FillBackup`, `persistence.rs:148`), where `data/state-paths.md:9` describes
the one before.  `docs/adr/001`, lines 60-63, plans a guard that ignores matching
selections for 500 ms, marked as future; the code suppresses whatever is read while
the guard is armed, for 5250 ms.

## What is proved

The theorems hold for all values of the constants that meet the assumptions
named in the modules: lengths are naturals and a prefix is no longer than what it
starts (`TextAssumption`), policies and settings have their types, `i32` offsets
are in range, the empty history has size 0, eviction makes no history longer
(`EvictionAssumption`), channels and the stream hold at least one element,
the index 0 is an index (`SyncAssumption`), there is a second popup
(`PopupAssumption`: one is kept for openings nothing can hold back), the value
for an empty slot is no selection, and a text is not one of its parts
(`MonitorAssumption`).

| Theorem | Says |
|---|---|
| `HistoryOpsProofs!EvictionIsLeast` | `enforce_limits` evicts nothing that both limits allow |
| `HistorySessionProofs!TypeCorrect`, `LengthStaysBounded`, `UuidsStayDistinct` | the invariants of the same names as in the runs |
| `TotalStaysExact` | `ByteTotalExact`: the total kept by hand is the sum of the sizes |
| `BudgetStaysKept`, `BudgetLossComesFromGrowth` | `WithinBudget` when no policy grows lines; growth is the only step that exceeds it otherwise (`BudgetLostOnlyByGrowth`) |
| `TextsStayDistinct`, `DuplicatesComeFromGrowth` | no duplicates when no policy grows lines; growth is the only cause otherwise |
| `StrandingNeedsReload`, `DeletionKeepsSelection` | two action properties of the active index |
| `NavigationStaysExact` | `NavigationExact`, if no setting allows lists longer than `i32::MAX` (`ListsFit`) |
| `RecencyImplemented` | refinement of `RecencyList` when no policy grows lines |
| `HistoryStoreProofs!TypeCorrect`, `SavedSessionReturns`, `LossNeedsDamage`, `InMemoryIsHarmless` | `TypeOK`, `CompletedSaveReturns`, `OnlyDamageLoses`, `InMemoryKeepsHistory`: the store with any crashes, evictions and damage |
| `StoreImplementsRegister` | refinement of `DurableHistory` up to the first damage (`ImplementsRegister`) |
| `DaemonServiceProofs!SessionIsASession` | `SessionStepOrUndo` for any callers, texts, settings and channel |
| `DaemonServiceProofs!TypeCorrect`, `RestSaves`, `RevertNeedsUndo` | `TypeOK`, `SavedAtRest`, `OnlyUndoRevertsSettings` |
| `SessionsStaySound` | `SessionsSound`: the session and every snapshot, for any callers |
| `DaemonLifecycleProofs!LifecycleTypeCorrect`, `ShutdownSaves`, `ShutdownKeepsSound`, `ShutdownIsASession`, `ShutdownRevertsNothing` | `LifecycleTypeOK`, `SavedBeforeExit`, and of a daemon that is stopping `SessionsSound`, `SessionStepOrUndo`, `OnlyUndoRevertsSettings` |
| `ClipboardMonitorProofs!TypeCorrect`, `CapturesAreInOrder`, `SeenWritesDisarm`, `ForgettingNeedsTheft` | `TypeOK`, `CapturedInOrder`, `SeenWriteDisarms`, `OnlySlotTheftForgets` |
| `AppletSyncProofs!TypeCorrect`, `ListStaysFresh`, `IndexIsRightAtRest`, `UnreachableIsMeant` | `TypeOK`, `ListIsFresh`, `IndexRightAtRest`, `UnreachableMeansIt` |
| `HistoryPopupProofs!TypeCorrect`, `TrackedPopupIsShown`, `OrphansComeFromOverlap` | `TypeOK`, `TrackedIsShown`, `OrphansNeedOverlap` |

*Session.*  The invariant is `TypeOK /\ Sound(session)`, where `Sound` says that the
length keeps to the policies (`LengthBounded`), uuids are distinct
(`UuidsDistinct`) and the total is exact (`ByteTotalExact`).
`LengthBounded` alone is inductive only if reloads and insertions evict, which is
the lemma that `EnforceLimits` keeps a prefix no longer than the limit.  Distinct
uuids are needed because `Select` and `Delete` look an item up by uuid and then
act on its position.  Each operation has a lemma; the theorems put them together.
For `RecencyImplemented` each helper (move, remove, push, evict) has a lemma on the
texts of the list it leaves (`Texts`), `StepMaps` turns every action into one of the
four steps of `RecencyList` or into none, and `SameSequenceOps` identifies the
operators that INSTANCE copies.  `NavigationStaysExact` needs `IndexFits`, that the
active index is an i32: then a sum can only overflow upwards, to a negative index
that is refused.  The code meets `ListsFit`: `max_history_size` is a u16
(`settings.rs`).

*Bytes.*  `Bytes(items)` is a fold over the items, and the installed provers cannot
apply an induction theorem to it.  What it adds up to is obtained from its
definition instead.  The fold takes elements out of a set in the order CHOOSE picks
them: there is a function that adds up so (`SumsExist`), only one (`SumsUnique`),
and any element may be taken first (`SumsInAnyOrder`), each by the cardinality of a
smallest counterexample, which `LeastNatural` provides.  Taking the oldest item
first makes `Bytes` the last of a row of prefix sums (`BytesByPrefix`), and from
that follow the sizes of a list with one item removed, moved, replaced or put in
front, and of the parts of a list (`BytesOfRemoval`, `BytesOfMove`,
`BytesOfNewFirst`, `BytesOfCons`, `BytesOfParts`).  The code subtracts with
saturation; with the total exact it never saturates, because a total is no less
than any of its parts.  So each operation has a lemma that it leaves the total exact
(`PushFrontExact`, `RemoveItemExact`, ...), and `EnforceLimitsExact` says that the
two loops of `enforce_limits` leave it exact and within the budget.
`EvictionIsLeast` is the other half: the loops keep every list of newest
items that both limits allow.  The growing line is the one operation that ends
without them.  `BudgetStaysKept` therefore assumes that no policy grows lines, and
`BudgetLossComesFromGrowth` assumes nothing of the kind.

*Store.*  The invariant adds two facts to `TypeOK`.  `SavePhase` says which steps
of a persist the primary has already been replaced in, and that only a daemon that
saves runs one.  `SaveHolds`: while the last save is complete, a start loads the
history saved, with the index saved as long as `state.json` parses, and a primary
that parses equals the backup.  Without the clause on the backup the damage of the
primary would not preserve what `CompletedSaveReturns` needs.
`LoadableSteps` goes through the steps for what they do to the history a start
loads, from which `LossNeedsDamage` follows:
only damage changes it while it is the one saved last, and not while the backup
equals a primary that parses, which `SaveHolds` has of a complete save.
`InMemoryIsHarmless` rests on `SavesAreLoaded`: a persist is under way only in a
daemon that has loaded its history.  The refinement needs that nothing has been
damaged so far (`Undamaged`) and that damages are only counted up
(`DamagesGrow`).

*Service.*  `HistorySession` is reached through INSTANCE, which copies its
operators, so the first lemmas show that the copies are the same operators.
Then each handler, each way of choosing, and the ingest loop is one operation of
the session or leaves it alone.  The only state that argument needs is that the
channel holds texts (`ChannelStaysTyped`).  `SavedAtRest` is inductive with the
types: a handler ends with a persist or leaves the session alone, and a selection
that has chosen without saving is at no rest until it has saved, has spawned its
persist, or gives up and says so.  The type of the
snapshots `call` holds is what an undo needs to leave a session behind.
`SessionsSound` has to speak of the snapshots too, since an undo may put one back
after any number of other operations.  `SnapshotSteps` shows that a snapshot is
the session of the choice it was taken at and stays that; that session was sound,
and each operation keeps it so (`ItemOperationsSound`, `RemovalSound`, `IngestSound`,
`ApplySettingsSound`, ...).  Its length and its total are those of its own policies,
which a reload may have replaced since.

*Lifecycle.*  `StepsOfService` shows that a step of the lifecycle is a step of
`DaemonService`, or leaves it alone, or is one of two that the service does not
have: the send of a monitor thread that has waited for room (`SendKeeps`), and a
persist outside any handler, by `main` or `Reexecute` (`LastPersistKeeps`).  The
lemmas of the service then apply to the first kind, and its invariant holds
through the shutdown without a strengthening of its own; `LifecycleTypeOK` adds
the types of `main` and of the text the thread holds, which has to be one when it
is sent.  `SavedBeforeExit` is an action property: each step that changes the session
saves it, gives that up, or is a choice (`ChangesAreSaved`), and the step that makes
`Flushed` true is the persist of `main`.

*Monitor.*  `CapturedInOrder` is about what is in the history; what a step may
add to it depends on all places a selection can wait in.  The invariant therefore
says (`InLine`) that captured selections are older than the one being read, that
one than the one in the slot, and all of them than those announced, and
(`Superseded`) that what an announced selection replaces is current no more:
without it a read of an old offer could still count as forgetting a current one.
`GuardFollowsWrite` ties the pending text of the guard to the last write, so that a
read of the whole text finds the fingerprint the guard waits for.

*Listener.*  A property of what is shown is carried by everything on its way to
it.  `ListFreshAtLast` is about the list the interface shows once it has handled
its events, that is the last `Refreshed` among them; `FetchedListFresh` about the
list the listener has read and not yet passed on, which an operation may make old
only by sending one more `Update`.  `IndexRightAtLast` says the same of the last
announcement among the signals, the fetch and the events in that order, so that
it comes down to `IndexRightAtRest` when all of them are empty.  A signal that is
lost, in the emitter or with the rest of a handler's, is missed (`LostSignals`).
`DisconnectsHeal` says that a `Disconnected` is followed by a `Refreshed`, or finds
the listener not connected, which `UnreachableMeansIt` needs when the event is
taken.  The lemmas on sequences (`AppendLast`, `TailLast`, `LastExists`) say how
the last of some elements changes.

*Popup.*  `TrackedIsShown` needs that a reported popup is not shown any more
(`ClosedIsGone`) and that an opening always has a popup left
(`OpeningsReserved`), which is why the bound needs to be two or more.

### Only model-checked

- `ShutdownCompletes`, `CallReturnsOrExit`, `PromptSelectionSettles`,
  `ListConverges`, `EveryPressIsTaken`: liveness under fairness, and ENABLED, are
  out of reach.  Every invariant and every action property of the passing runs is
  stated by a theorem.
- That the stream of 32 in the code is large enough: the runs and the proofs only
  say what follows when it is not.

## Not modelled

- The content of the clipboard against the active entry when two selections
  overlap: the product of two selecting clients, texts and the ingest loop is beyond
  one run.
- In the monitor: the write queue (`process_write_requests`, `write_clipboard`),
  which has no caller outside tests; seats after the first; errors that end the thread.
- In the applet: labels, layout, scrolling, the display of tracking; a second
  applet, which takes the socket of the first.  The selection toast: a thread
  around two external commands.
- `save_history` off by the user's choice; settings no handler reads.
- Blobs, `backups/` and `on_switch_history`: no caller.
- The RON and JSON encodings: a file parses or it does not.
- The portal and its binding of shortcuts.  The command line but for
  `show-history`: one call, or a fetch and a call, and no state.  The history
  window: a stub.

## Plan

1. The content of the clipboard in a smaller abstraction of `DaemonService` (no
   lists, two clients), to say when clipboard and active entry agree at rest.
2. Proofs: that the history the files return to a daemon that starts again
   (`HistoryStore`) is one `DaemonService` leaves at rest.
3. The toast worker: shown while the user navigates, hidden afterwards.
