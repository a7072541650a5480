----------------------------- MODULE AppletSync -----------------------------
(***************************************************************************)
(* How the panel applet follows the daemon: the signals the DBus handlers  *)
(* (dbus/service.rs) and the ingest loop (ingest.rs, signals.rs) send once *)
(* the lock is free, the listener thread of the applet (dbus_sub.rs), and  *)
(* the copy its user interface shows (app.rs).                             *)
(*                                                                         *)
(* A history is the number of the operation that made it.  An Update makes *)
(* the listener fetch the list and then the index; an ActiveIndexChanged   *)
(* carries an index of its own.  The applet subscribes after its first     *)
(* fetch, ignores EmptyHistory, and fetches a second time, on its own, at  *)
(* its start.  One call of a client is in progress at a time; the ingest   *)
(* loop, reloads and fetches go on beside it.  What tracking shows and the *)
(* popup are left out (HistoryPopup has it).                               *)
(*                                                                         *)
(* The stream of the subscription holds WireCap signals.  It is not polled *)
(* while the listener fetches, over the same connection: a signal that     *)
(* finds it full stops the task that reads the connection (zbus), and no   *)
(* answer that comes after it is ever read.                                *)
(***************************************************************************)
EXTENDS Integers, Sequences, SequencesExt

CONSTANTS
    Index,      \* the values of the active index
    None,
    SignalCap,  \* capacity of the channel of the signal emitter (64)
    EventCap,   \* capacity of the channel to the user interface (64)
    WireCap,    \* signals the stream of the subscription holds (32)
    MaxOps      \* bound on the operations of the daemon

ASSUME SyncAssumption ==
    /\ Index \subseteq Nat /\ 0 \in Index /\ None \notin Index
    /\ SignalCap \in Nat \ {0} /\ EventCap \in Nat \ {0}
    /\ WireCap \in Nat \ {0} /\ MaxOps \in Nat

VARIABLES
    up,           \* the daemon runs
    ops,          \* the operations so far
    history,      \* the daemon's history: the operation that made it
    active,       \* the daemon's active index
    call,         \* the handler that is running
    signals,      \* the channel from the ingest loop to the signal emitter
    wire,         \* signals sent to the applet and not yet taken
    listener,     \* the thread of dbus_sub.rs
    boot,         \* the fetch of App::init
    ui,           \* events on their way to App::update
    shown,        \* App.history and App.active_index
    unreachable,  \* App.daemon_unreachable
    clicked,      \* the index of a SelectAtIndex on its way, or None
    missed        \* auxiliary: by part, whether a change was never announced

daemon == <<up, ops, history, active>>
applet == <<listener, boot, ui, shown, unreachable, clicked>>
vars == <<daemon, call, signals, wire, applet, missed>>

History == 0 .. MaxOps

Update == [member |-> "Update"]
EmptyHistory == [member |-> "EmptyHistory"]
ActiveIndexChanged(i) == [member |-> "ActiveIndexChanged", index |-> i]
\* Delete reads the index again before it announces it
ReadActiveIndex == [member |-> "ReadActiveIndex"]

Signal == {Update, EmptyHistory} \cup {ActiveIndexChanged(i) : i \in Index}

NoCall == [at |-> "idle"]
Call ==
    {NoCall} \cup [at : {"writing", "announcing"}, todo : Seq(Signal \cup {ReadActiveIndex})]

\* a fetch has read nothing, the list, or the list and the index.  Its third
\* call, for tracking, is taken with the second: one that fails or waits for ever
\* in it leaves nothing behind that it would not leave in the second
Fetch ==
    [at : {"get_history"}] \cup [at : {"get_active_index"}, history : History]
      \cup [at : {"done"}, history : History, active_index : Index]

Event ==
    [event : {"Refreshed"}, history : History, active_index : Index]
      \cup [event : {"ActiveIndexChanged"}, active_index : Index]
      \cup [event : {"Disconnected"}]

TypeOK ==
    /\ up \in BOOLEAN /\ ops \in History /\ history \in History /\ active \in Index
    /\ call \in Call
    /\ signals \in Seq(Signal) /\ Len(signals) <= SignalCap
    /\ wire \in Seq(Signal)
    /\ listener \in [subscribed : BOOLEAN, fetch : Fetch \cup {[at |-> "none"], [at |-> "backoff"]}]
    /\ boot \in Fetch \cup [at : {"failed", "shown"}]
    /\ ui \in Seq(Event) /\ Len(ui) <= EventCap
    /\ shown \in [history : History \cup {None}, active_index : Index]
    /\ unreachable \in BOOLEAN
    /\ clicked \in Index \cup {None}
    /\ missed \in [history : BOOLEAN, index : BOOLEAN]

Start == [at |-> "get_history"]

Init ==
    /\ up = TRUE
    /\ ops = 0 /\ history = 0 /\ active \in Index
    /\ call = NoCall /\ signals = <<>> /\ wire = <<>>
    /\ listener = [subscribed |-> FALSE, fetch |-> Start]
    /\ boot = Start
    /\ ui = <<>> /\ shown = [history |-> None, active_index |-> 0]
    /\ unreachable = FALSE /\ clicked = None
    /\ missed = [history |-> FALSE, index |-> FALSE]

-----------------------------------------------------------------------------
(* The daemon.                                                             *)

\* an operation that leaves the index at i, and a new list unless keeps
Operate(i, keeps) ==
    /\ up /\ ops < MaxOps
    /\ ops' = ops + 1
    /\ history' = IF keeps THEN history ELSE ops'
    /\ active' = i
    /\ UNCHANGED up

Miss(part) == missed' = [missed EXCEPT ![part] = TRUE]

MissBoth == missed' = [history |-> TRUE, index |-> TRUE]

\* a handler whose persist may fail, and which then announces nothing
Handle(i, keeps, todo) ==
    /\ call = NoCall
    /\ Operate(i, keeps)
    /\ \/ call' = [at |-> "announcing", todo |-> todo] /\ UNCHANGED missed
       \/ UNCHANGED call /\ MissBoth
    /\ UNCHANGED <<signals, wire, applet>>

\* mutated Add: only the index is announced
AddAnnouncesIndex == Handle(0, FALSE, <<ActiveIndexChanged(0)>>)

Add == Handle(0, FALSE, <<Update, ActiveIndexChanged(0)>>)

SetActiveIndex == \E i \in Index : Handle(i, TRUE, <<ActiveIndexChanged(i)>>)

Delete == \E i \in Index : Handle(i, FALSE, <<Update, ReadActiveIndex>>)

Empty ==
    /\ call = NoCall
    /\ Operate(0, FALSE)
    /\ Miss("history")
    /\ call' = [at |-> "announcing", todo |-> <<EmptyHistory, ActiveIndexChanged(0)>>]
    /\ UNCHANGED <<signals, wire, applet>>

\* a selection announces nothing before wl-copy has exited
Choose(i, keeps, todo) ==
    /\ call = NoCall
    /\ Operate(i, keeps)
    /\ call' = [at |-> "writing", todo |-> todo]
    /\ UNCHANGED <<signals, wire, missed>>

SelectAtOffset ==
    /\ \E i \in Index : Choose(i, TRUE, <<ActiveIndexChanged(i), Update>>)
    /\ UNCHANGED applet

Select ==
    /\ Choose(0, FALSE, <<Update, ActiveIndexChanged(0)>>)
    /\ UNCHANGED applet

\* the click of a user (select_entry_at_index)
SelectAtIndex ==
    /\ clicked # None
    /\ Choose(clicked, TRUE, <<Update, ActiveIndexChanged(clicked)>>)
    /\ clicked' = None
    /\ UNCHANGED <<listener, boot, ui, shown, unreachable>>

\* the daemon is down, or the index is out of range: the applet drops the error
RefuseClick ==
    /\ clicked # None
    /\ clicked' = None
    /\ Miss("index")
    /\ UNCHANGED <<daemon, call, signals, wire, listener, boot, ui, shown, unreachable>>

Written ==
    /\ call.at = "writing"
    /\ call' = [call EXCEPT !.at = "announcing"]
    /\ UNCHANGED <<daemon, signals, wire, applet, missed>>

\* the write, or the persist after it, failed; a failed write also puts the
\* snapshot back, over everything done meanwhile
GiveUp ==
    /\ call.at = "writing"
    /\ call' = NoCall
    /\ \/ UNCHANGED daemon
       \/ \E i \in Index : Operate(i, FALSE)
    /\ MissBoth
    /\ UNCHANGED <<signals, wire, applet>>

\* a signal leaves the daemon; nobody gets it before the listener subscribes
Send(signal) ==
    /\ wire' = IF listener.subscribed THEN Append(wire, signal) ELSE wire
    /\ missed' =
         [history |-> missed.history \/ (signal = Update /\ ~listener.subscribed),
          index |-> IF signal.member = "ActiveIndexChanged"
                    THEN ~listener.subscribed \/ signal.index # active
                    ELSE missed.index]

\* these signals could not be sent
Lose(lost) ==
    /\ missed' = [history |-> missed.history \/ Update \in lost,
                  index   |-> missed.index \/ lost \ {Update, EmptyHistory} # {}]
    /\ UNCHANGED wire

AfterSignal == IF Len(call.todo) = 1 THEN NoCall ELSE [call EXCEPT !.todo = Tail(@)]

Announce ==
    /\ call.at = "announcing" /\ Head(call.todo) # ReadActiveIndex
    /\ Send(Head(call.todo))
    /\ call' = AfterSignal
    /\ UNCHANGED <<daemon, signals, applet>>

\* a handler that cannot send a signal sends no other
AnnounceFails ==
    /\ call.at = "announcing"
    /\ Head(call.todo) # ReadActiveIndex
    /\ Lose(ToSet(call.todo))
    /\ call' = NoCall
    /\ UNCHANGED <<daemon, signals, applet>>

ReadActive ==
    /\ call.at = "announcing" /\ Head(call.todo) = ReadActiveIndex
    /\ call' = [call EXCEPT !.todo = <<ActiveIndexChanged(active)>>]
    /\ UNCHANGED <<daemon, signals, wire, applet, missed>>

\* apply_settings may evict; nothing is announced
Reload ==
    /\ Operate(active, FALSE)
    /\ Miss("history")
    /\ UNCHANGED <<call, signals, wire, applet>>

\* mutated Ingest: it does not look for room
IngestUnbounded ==
    /\ Operate(0, FALSE)
    /\ signals' = signals \o <<Update, ActiveIndexChanged(0)>>
    /\ UNCHANGED <<call, wire, applet, missed>>

\* run_ingest_loop: try_send drops a signal the channel has no room for, and a
\* failed persist sends none
Ingest ==
    /\ Operate(0, FALSE)
    /\ LET room == SignalCap - Len(signals)
           sent == CASE room = 0 -> <<>>
                     [] room = 1 -> <<Update>>
                     [] OTHER -> <<Update, ActiveIndexChanged(0)>>
       IN  \/ /\ signals' = signals \o sent
              /\ missed' = [history |-> missed.history \/ room = 0,
                            index |-> missed.index \/ room < 2]
           \/ UNCHANGED signals /\ MissBoth
    /\ UNCHANGED <<call, wire, applet>>

\* run_signal_emitter
EmitSignal ==
    /\ signals # <<>>
    /\ Send(Head(signals))
    /\ signals' = Tail(signals)
    /\ UNCHANGED <<daemon, call, applet>>

\* it goes on after a signal it could not send
EmitFails ==
    /\ signals # <<>>
    /\ Lose({Head(signals)})
    /\ signals' = Tail(signals)
    /\ UNCHANGED <<daemon, call, applet>>

\* signals not yet sent are lost with the daemon
DaemonExits ==
    /\ up = TRUE
    /\ up' = FALSE
    /\ call' = NoCall /\ signals' = <<>>
    /\ MissBoth
    /\ UNCHANGED <<ops, history, active, wire, applet>>

\* what the files hold may differ from what was last announced
DaemonStarts ==
    /\ ~up /\ ops < MaxOps
    /\ up' = TRUE
    /\ ops' = ops + 1 /\ history' = ops' /\ active' \in Index
    /\ MissBoth
    /\ UNCHANGED <<call, signals, wire, applet>>

-----------------------------------------------------------------------------
(* The listener thread.                                                    *)

Fetching == listener.fetch.at

Calling == Fetching \in {"get_history", "get_active_index"}

\* the answer to the listener's call, or its failure, is read
AnswerArrives == Calling /\ Len(wire) <= WireCap

\* it is behind a signal that has no room, and never read
Stuck == Calling /\ Len(wire) > WireCap

\* refresh: three calls, one after the other
ListenerGetsHistory ==
    /\ up /\ Fetching = "get_history" /\ AnswerArrives
    /\ listener' = [listener EXCEPT !.fetch = [at |-> "get_active_index", history |-> history]]
    /\ missed' = [missed EXCEPT !.history = FALSE]
    /\ UNCHANGED <<daemon, call, signals, wire, boot, ui, shown, unreachable, clicked>>

\* a signal that was sent before this answer and is taken after it
StaleIndexBehind ==
    \E signal \in ToSet(wire) :
        signal.member = "ActiveIndexChanged" /\ signal.index # active

ListenerGetsActiveIndex ==
    /\ up /\ Fetching = "get_active_index" /\ AnswerArrives
    /\ listener' = [listener EXCEPT !.fetch = [at |-> "done", history |-> listener.fetch.history,
                                               active_index |-> active]]
    /\ missed' = [missed EXCEPT !.index = StaleIndexBehind]
    /\ UNCHANGED <<daemon, call, signals, wire, boot, ui, shown, unreachable, clicked>>

Refreshed(fetch) ==
    [event |-> "Refreshed", history |-> fetch.history, active_index |-> fetch.active_index]

\* mutated ListenerRefreshes: the first fetch of the applet is shown before
RefreshesAfterBoot ==
    /\ Fetching = "done" /\ Len(ui) < EventCap /\ boot.at = "shown"
    /\ listener' = [listener EXCEPT !.fetch = [at |-> "none"]]
    /\ ui' = Append(ui, Refreshed(listener.fetch))
    /\ UNCHANGED <<daemon, call, signals, wire, boot, shown, unreachable, clicked, missed>>

ListenerRefreshes ==
    /\ Fetching = "done" /\ Len(ui) < EventCap
    /\ listener' = [listener EXCEPT !.fetch = [at |-> "none"]]
    /\ ui' = Append(ui, Refreshed(listener.fetch))
    /\ UNCHANGED <<daemon, call, signals, wire, boot, shown, unreachable, clicked, missed>>

\* the match rule comes after the first refresh
Subscribe ==
    /\ Fetching = "none" /\ ~listener.subscribed
    /\ listener' = [listener EXCEPT !.subscribed = TRUE]
    /\ UNCHANGED <<daemon, call, signals, wire, boot, ui, shown, unreachable, clicked, missed>>

\* mutated ListenerTakes: an index that changes alone is not passed on
TakesUpdatesOnly ==
    /\ Fetching = "none" /\ listener.subscribed /\ wire # <<>>
    /\ wire' = Tail(wire)
    /\ listener' = [listener EXCEPT !.fetch = IF Head(wire) = Update THEN Start ELSE @]
    /\ UNCHANGED <<daemon, call, signals, boot, ui, shown, unreachable, clicked, missed>>

ListenerTakes ==
    /\ Fetching = "none" /\ listener.subscribed /\ wire # <<>>
    /\ Head(wire).member = "ActiveIndexChanged" => Len(ui) < EventCap
    /\ wire' = Tail(wire)
    /\ LET signal == Head(wire)
       IN  /\ listener' = [listener EXCEPT !.fetch = IF signal = Update THEN Start ELSE @]
           /\ ui' = IF signal.member = "ActiveIndexChanged"
                    THEN Append(ui, [event |-> "ActiveIndexChanged",
                                     active_index |-> signal.index])
                    ELSE ui
    /\ UNCHANGED <<daemon, call, signals, boot, shown, unreachable, clicked, missed>>

\* a call fails: the subscription is dropped, and the thread waits
ListenerFails ==
    /\ ~up /\ AnswerArrives /\ Len(ui) < EventCap
    /\ listener' = [subscribed |-> FALSE, fetch |-> [at |-> "backoff"]]
    /\ wire' = <<>>
    /\ ui' = Append(ui, [event |-> "Disconnected"])
    /\ UNCHANGED <<daemon, call, signals, boot, shown, unreachable, clicked, missed>>

Reconnect ==
    /\ Fetching = "backoff"
    /\ listener' = [listener EXCEPT !.fetch = Start]
    /\ UNCHANGED <<daemon, call, signals, wire, boot, ui, shown, unreachable, clicked, missed>>

-----------------------------------------------------------------------------
(* The user interface.                                                     *)

\* App::init fetches over a connection of its own
BootGets ==
    /\ up /\ \/ /\ boot = Start
                /\ boot' = [at |-> "get_active_index", history |-> history]
             \/ /\ boot.at = "get_active_index"
                /\ boot' = [at |-> "done", history |-> boot.history, active_index |-> active]
    /\ UNCHANGED <<daemon, call, signals, wire, listener, ui, shown, unreachable, clicked, missed>>

\* mutated Show: the report of a failure stays
ShowQuietly(fetch) ==
    /\ shown' = [history |-> fetch.history, active_index |-> fetch.active_index]
    /\ UNCHANGED unreachable

\* apply_refreshed
Show(fetch) ==
    /\ shown' = [history |-> fetch.history, active_index |-> fetch.active_index]
    /\ unreachable' = FALSE

\* the answer need not come before those of the listener
BootShows ==
    /\ boot.at = "done"
    /\ boot' = [at |-> "shown"]
    /\ Show(boot)
    /\ UNCHANGED <<daemon, call, signals, wire, listener, ui, clicked>>
    /\ missed' = [history |-> missed.history \/ boot.history # history,
                  index |-> missed.index \/ boot.active_index # active]

BootFails ==
    /\ ~up /\ boot.at \in {"get_history", "get_active_index"}
    /\ boot' = [at |-> "failed"]
    /\ unreachable' = TRUE
    /\ UNCHANGED <<daemon, call, signals, wire, listener, ui, shown, clicked, missed>>

UpdateApp ==
    /\ ui # <<>>
    /\ ui' = Tail(ui)
    /\ LET event == Head(ui)
       IN  CASE event.event = "Refreshed" -> Show(event)
             [] event.event = "ActiveIndexChanged" ->
                  /\ shown' = [shown EXCEPT !.active_index = event.active_index]
                  /\ unreachable' = FALSE
             [] event.event = "Disconnected" -> unreachable' = TRUE /\ UNCHANGED shown
    /\ UNCHANGED <<daemon, call, signals, wire, listener, boot, clicked, missed>>

\* Message::SelectIndex shows the choice at once; no more clicks than operations
\* they may ask for
SelectIndex(i) ==
    /\ clicked = None /\ ops < MaxOps
    /\ clicked' = i
    /\ shown' = [shown EXCEPT !.active_index = i]
    /\ UNCHANGED <<daemon, call, signals, wire, listener, boot, ui, unreachable, missed>>

-----------------------------------------------------------------------------

Operations ==
    \/ Add \/ SetActiveIndex \/ Delete \/ Empty \/ SelectAtOffset \/ Select
    \/ SelectAtIndex \/ RefuseClick \/ Reload \/ Ingest \/ DaemonExits \/ DaemonStarts

Announcing ==
    Written \/ GiveUp \/ Announce \/ AnnounceFails \/ ReadActive \/ EmitSignal \/ EmitFails

Listening ==
    \/ ListenerGetsHistory \/ ListenerGetsActiveIndex \/ ListenerRefreshes
    \/ Subscribe \/ ListenerTakes \/ ListenerFails \/ Reconnect

Interface ==
    \/ BootGets \/ BootShows \/ BootFails \/ UpdateApp
    \/ \E i \in Index : SelectIndex(i)

Next == Operations \/ Announcing \/ Listening \/ Interface

Spec == Init /\ [][Next]_vars

\* wl-copy exits, and something of the daemon or of the applet runs as long as
\* something can; the listener never gives up reconnecting
Fairness == WF_vars(Announcing \/ Listening \/ UpdateApp)

FairSpec == Spec /\ Fairness

-----------------------------------------------------------------------------
(* Properties.                                                             *)

InCall(signal) == call # NoCall /\ signal \in ToSet(call.todo)

\* an Update that will make the listener fetch, a fetch that has not read the
\* list yet or has read it as it is now, or a Refreshed that carries it
OnItsWay ==
    \/ InCall(Update) \/ Update \in ToSet(signals) \/ Update \in ToSet(wire)
    \/ Fetching \in {"get_history", "backoff"}
    \/ Fetching \in {"get_active_index", "done"} /\ listener.fetch.history = history
    \/ \E k \in DOMAIN ui : ui[k].event = "Refreshed" /\ ui[k].history = history

\* The applet shows the list the daemon has, or that list is on its way, unless
\* since the listener last fetched a change went unannounced: an emptied
\* history, an eviction by new settings, an undone or unsaved change, signals
\* the emitter's channel had no room for, one sent before the subscription,
\* one that failed to go out, another daemon, or an old answer to the fetch the
\* applet starts with.
ListIsFresh == shown.history = history \/ missed.history \/ OnItsWay

\* An applet that shows an old list catches up, unless it has missed a change, or
\* its listener waits for ever: more signals came while it fetched than its
\* stream has room for.
ListConverges ==
    shown.history # history ~> (shown.history = history \/ missed.history \/ Stuck)

AtRest ==
    /\ call = NoCall /\ signals = <<>> /\ wire = <<>> /\ ui = <<>> /\ clicked = None
    /\ listener.subscribed /\ Fetching = "none"

\* With nothing on its way the applet highlights the entry the daemon has
\* chosen, unless the last index it was told was not that one: announcements
\* overtook each other or a fetch, or the index changed without one.
IndexRightAtRest == AtRest => shown.active_index = active \/ missed.index

\* The applet reports the daemon as unreachable only while its listener is not
\* connected or the answer of its first fetch is on its way, unless its own
\* fetch at the start failed: that failure may be reported after the listener
\* has connected.
UnreachableMeansIt ==
    unreachable =>
        \/ boot.at = "failed"
        \/ Fetching # "none"
        \/ \E k \in DOMAIN ui : ui[k].event = "Refreshed"
=============================================================================
