---------------------------- MODULE HistoryPopup ----------------------------
(***************************************************************************)
(* From the press of the show-history shortcut to the popup of the applet. *)
(* One press is delivered several times over: as a DBus signal, as a file  *)
(* and a datagram (show_history_trigger.rs), as a DbusActivation call      *)
(* (applet_activation.rs).  The threads of the applet (dbus_sub.rs) pass   *)
(* every delivery on to its user interface (app.rs), which ignores those   *)
(* that come within 300 ms of the last one it took.                        *)
(*                                                                         *)
(* What the popup shows is in AppletSync.  Where it is placed is left out, *)
(* as is a second applet, which would take the socket from the first.      *)
(***************************************************************************)
EXTENDS Integers, Sequences, SequencesExt, FiniteSets, FiniteSetsExt

CONSTANTS
    TriggerCap,  \* capacity of the channel of the triggers (8)
    EventCap,    \* capacity of the channel to the user interface (64)
    MaxPresses,  \* bound on the presses of the shortcut
    MaxPopups,   \* bound on the popups opened
    None

ASSUME PopupAssumption ==
    /\ {TriggerCap, EventCap} \subseteq Nat \ {0} /\ MaxPresses \in Nat
    /\ MaxPopups \in Nat \ {0, 1}  \* one asked for at the start, and one more
    /\ None \notin Nat

VARIABLES
    presses,       \* the presses so far
    deliveries,    \* by sender, what it has still to do
    queued,        \* ShowHistory in the channel of the signal emitter
    pokes,         \* changes of the file and datagrams not yet noticed
    triggers,      \* the channel of the triggers
    wire,          \* ShowHistory signals sent to the listener
    listener,      \* the thread of dbus_sub.rs
    ui,            \* events on their way to App::update
    open_on_init,  \* App.open_on_init
    recent,        \* last_show_history is less than 300 ms ago
    popup,         \* App.popup
    opened,        \* the popups opened so far: the last id
    windows,       \* the popups the compositor shows
    closing,       \* PopupClosed messages on their way
    waiting        \* auxiliary: a trigger was written when no request had been
                   \* taken for 300 ms, and none has been taken since

senders == <<presses, deliveries, queued>>
channels == <<pokes, triggers, wire>>
app == <<open_on_init, recent, popup, opened, windows, closing>>
vars == <<senders, channels, listener, ui, app, waiting>>

Sender == {"shortcut", "emitter"}

Delivery == {"queue", "trigger", "signal", "activate"}

\* show_history in the daemon, and the same three steps in the emitter
ShowHistoryCall == <<"signal", "trigger", "activate">>

\* the portal's task, the helper script, and the command line, each with the
\* call it waits for
Routes ==
    {<<"queue", "trigger", "activate">>,
     <<"trigger">> \o ShowHistoryCall \o <<"activate">>,
     <<"trigger", "activate">> \o ShowHistoryCall}

Popup == 1 .. MaxPopups

TypeOK ==
    /\ presses \in 0 .. MaxPresses
    /\ deliveries \in [Sender -> Seq(Delivery)]
    /\ queued \in Nat /\ pokes \in Nat /\ wire \in Nat
    /\ triggers \in 0 .. TriggerCap
    /\ listener \in {"down", "polling", "asleep", "refreshing"}
    /\ ui \in Seq({"ShowHistory", "Refreshed"}) /\ Len(ui) <= EventCap
    /\ {open_on_init, recent, waiting} \subseteq BOOLEAN
    /\ popup \in Popup \cup {None}
    /\ opened \in 0 .. MaxPopups
    /\ windows \subseteq 1 .. opened /\ closing \subseteq 1 .. opened

Init ==
    /\ presses = 0 /\ deliveries = [s \in Sender |-> <<>>] /\ queued = 0
    /\ pokes = 0 /\ triggers = 0 /\ wire = 0
    /\ listener = "down" /\ ui = <<>>
    /\ open_on_init \in BOOLEAN /\ recent = FALSE
    /\ popup = None /\ opened = 0 /\ windows = {} /\ closing = {}
    /\ waiting = FALSE

-----------------------------------------------------------------------------
(* The shortcut and the daemon.                                            *)

Press ==
    /\ presses < MaxPresses /\ deliveries["shortcut"] = <<>>
    /\ presses' = presses + 1
    /\ \E route \in Routes : deliveries' = [deliveries EXCEPT !["shortcut"] = route]
    /\ UNCHANGED <<queued, channels, listener, ui, app, waiting>>

\* try_send drops a trigger the channel has no room for
AddTrigger == triggers' = Min({triggers + 1, TriggerCap})

Deliver(sender) ==
    /\ deliveries[sender] # <<>>
    /\ deliveries' = [deliveries EXCEPT ![sender] = Tail(@)]
    /\ LET delivery == Head(deliveries[sender])
       IN  \/ /\ delivery = "queue"
              /\ queued' = queued + 1
              /\ UNCHANGED <<channels, waiting>>
           \/ /\ delivery = "trigger"
              /\ pokes' = pokes + 1 /\ waiting' = (waiting \/ ~recent)
              /\ UNCHANGED <<queued, triggers, wire>>
           \/ /\ delivery = "signal"
              /\ wire' = IF listener = "down" THEN wire ELSE wire + 1
              /\ UNCHANGED <<queued, pokes, triggers, waiting>>
           \/ /\ delivery = "activate"
              /\ IF listener = "down" THEN UNCHANGED triggers ELSE AddTrigger
              /\ UNCHANGED <<queued, pokes, wire, waiting>>
    /\ UNCHANGED <<presses, listener, ui, app>>

\* the daemon does not answer: the script and the command line give up
CallFails ==
    /\ deliveries["shortcut"] # <<>> /\ Head(deliveries["shortcut"]) = "signal"
    /\ deliveries' = [deliveries EXCEPT !["shortcut"] = <<>>]
    /\ UNCHANGED <<presses, queued, channels, listener, ui, app, waiting>>

\* run_signal_emitter
Emit ==
    /\ queued > 0 /\ deliveries["emitter"] = <<>>
    /\ queued' = queued - 1
    /\ deliveries' = [deliveries EXCEPT !["emitter"] = ShowHistoryCall]
    /\ UNCHANGED <<presses, channels, listener, ui, app, waiting>>

-----------------------------------------------------------------------------
(* The threads of the applet.                                              *)

\* mutated Notice: it does not look for room
NoticeUnbounded ==
    /\ pokes > 0
    /\ pokes' = pokes - 1 /\ triggers' = triggers + 1
    /\ UNCHANGED <<senders, wire, listener, ui, app, waiting>>

\* the watcher of the file, or the thread that reads the socket
Notice ==
    /\ pokes > 0
    /\ pokes' = pokes - 1 /\ AddTrigger
    /\ UNCHANGED <<senders, wire, listener, ui, app, waiting>>

Pass(event) == Len(ui) < EventCap /\ ui' = Append(ui, event)

\* mutated Connect: triggers from before the connection are discarded
ConnectAfresh ==
    /\ listener = "down" /\ listener' = "polling"
    /\ Pass("Refreshed")
    /\ triggers' = 0
    /\ UNCHANGED <<senders, pokes, wire, app, waiting>>

\* the first refresh has succeeded, and the match rule is set
Connect ==
    /\ listener = "down" /\ listener' = "polling"
    /\ Pass("Refreshed")
    /\ UNCHANGED <<senders, channels, app, waiting>>

\* wait_show_history polls the channel, then sleeps 16 ms
Sleep ==
    /\ listener = "polling" /\ triggers = 0
    /\ listener' = "asleep"
    /\ UNCHANGED <<senders, channels, ui, app, waiting>>

TakeTrigger ==
    /\ listener \in {"polling", "asleep"} /\ triggers > 0
    /\ triggers' = triggers - 1
    /\ Pass("ShowHistory")
    /\ listener' = "polling"
    /\ UNCHANGED <<senders, pokes, wire, app, waiting>>

\* a message ends the sleep, though a trigger may have come meanwhile
TakeSignal ==
    /\ listener = "asleep" /\ wire > 0
    /\ wire' = wire - 1
    /\ Pass("ShowHistory")
    /\ listener' = "polling"
    /\ UNCHANGED <<senders, pokes, triggers, app, waiting>>

TakeUpdate ==
    /\ listener = "asleep" /\ listener' = "refreshing"
    /\ UNCHANGED <<senders, channels, ui, app, waiting>>

Refresh ==
    /\ listener = "refreshing" /\ listener' = "polling"
    /\ Pass("Refreshed")
    /\ UNCHANGED <<senders, channels, app, waiting>>

\* the connection is dropped; what is in the channel of the triggers stays
RefreshFails ==
    /\ listener = "refreshing" /\ listener' = "down"
    /\ wire' = 0
    /\ UNCHANGED <<senders, pokes, triggers, ui, app, waiting>>

-----------------------------------------------------------------------------
(* The user interface and the compositor.                                  *)

\* popups that may still be opened, with one kept for each opening that no
\* guard may hold back
Spare ==
    MaxPopups - opened - (IF open_on_init THEN 1 ELSE 0) - (IF recent THEN 0 ELSE 1)

\* open_popup_task: the popup that was open is forgotten, and not destroyed
OpenPopup ==
    /\ opened' = opened + 1
    /\ popup' = opened'
    /\ windows' = windows \cup {popup'}

\* destroy_popup: the compositor may report it closed, too
DestroyPopup ==
    /\ windows' = windows \ {popup}
    /\ closing' \in {closing, closing \cup {popup}}

NoPopup == UNCHANGED <<popup, opened, windows>>

\* apply_refreshed, then the popup asked for on the command line
UpdateRefreshed ==
    /\ ui # <<>> /\ Head(ui) = "Refreshed"
    /\ ui' = Tail(ui)
    /\ open_on_init' = FALSE
    /\ IF open_on_init THEN OpenPopup ELSE NoPopup
    /\ UNCHANGED <<senders, channels, listener, recent, closing, waiting>>

\* show_history_task
UpdateShowHistory ==
    /\ ui # <<>> /\ Head(ui) = "ShowHistory"
    /\ ui' = Tail(ui)
    /\ recent' = TRUE
    /\ IF recent THEN NoPopup /\ UNCHANGED waiting ELSE OpenPopup /\ waiting' = FALSE
    /\ UNCHANGED <<senders, channels, listener, open_on_init, closing>>

Elapse ==
    /\ recent /\ Spare > 0
    /\ recent' = FALSE
    /\ UNCHANGED <<senders, channels, listener, ui, open_on_init, popup, opened, windows,
                   closing, waiting>>

\* a click on the icon
TogglePopup ==
    /\ IF popup = None
       THEN Spare > 0 /\ OpenPopup /\ UNCHANGED closing
       ELSE DestroyPopup /\ popup' = None /\ UNCHANGED opened
    /\ UNCHANGED <<senders, channels, listener, ui, open_on_init, recent, waiting>>

\* a click on a row of any popup: all of them show the same list
SelectIndex ==
    /\ windows # {}
    /\ popup' = None
    /\ IF popup = None THEN UNCHANGED <<windows, closing>> ELSE DestroyPopup
    /\ UNCHANGED <<senders, channels, listener, ui, open_on_init, recent, opened, waiting>>

CompositorCloses(id) ==
    /\ id \in windows
    /\ windows' = windows \ {id} /\ closing' = closing \cup {id}
    /\ UNCHANGED <<senders, channels, listener, ui, open_on_init, recent, popup, opened,
                   waiting>>

\* mutated AfterClosing: the id is not compared
ForgetsAny(id) == None

\* mutated PopupClosed: nothing is forgotten
PopupClosedUnread(id) ==
    /\ id \in closing
    /\ closing' = closing \ {id}
    /\ UNCHANGED <<senders, channels, listener, ui, open_on_init, recent, popup, opened,
                   windows, waiting>>

\* App.popup once it is told that a popup is closed
AfterClosing(id) == IF popup = id THEN None ELSE popup

PopupClosed(id) ==
    /\ id \in closing
    /\ closing' = closing \ {id}
    /\ popup' = AfterClosing(id)
    /\ UNCHANGED <<senders, channels, listener, ui, open_on_init, recent, opened, windows,
                   waiting>>

-----------------------------------------------------------------------------

Sending == (\E sender \in Sender : Deliver(sender)) \/ Emit

Polling == Sleep \/ TakeTrigger \/ Refresh

Updating == UpdateRefreshed \/ UpdateShowHistory

Next ==
    \/ Press \/ Sending \/ CallFails \/ Notice
    \/ Connect \/ Polling \/ TakeSignal \/ TakeUpdate \/ RefreshFails
    \/ Updating \/ Elapse \/ TogglePopup \/ SelectIndex
    \/ \E id \in Popup : CompositorCloses(id) \/ PopupClosed(id)

Spec == Init /\ [][Next]_vars

\* the threads run, and the user interface handles its events
Fairness ==
    /\ WF_vars(Notice) /\ WF_vars(Polling) /\ WF_vars(Updating)

FairSpec == Spec /\ Fairness

-----------------------------------------------------------------------------
(* Properties.                                                             *)

\* The popup the applet believes open is on the screen, or the message that it
\* was closed is on its way, whoever closed it and however late he is told.
TrackedIsShown == popup # None => popup \in windows \cup closing

\* popups on the screen that the applet cannot close any more
Orphans == windows \ {popup}

\* Clicks, late or doubled reports of closed popups and debounced requests
\* never leave a popup behind: only a request that opens one while another is
\* open does, or the one asked for when the applet was started.
OrphansNeedOverlap ==
    [][Orphans' \ Orphans # {} =>
          /\ popup \in windows /\ popup' # popup
          /\ (UpdateShowHistory /\ ~recent) \/ (UpdateRefreshed /\ open_on_init)]_vars

\* If the listener is connected again and again, every press that wrote a trigger
\* is followed by a popup, unless one had been opened by a request in the 300 ms
\* before: a full channel, a call that failed, a daemon that was away, triggers
\* from before the connection and requests that are ignored do not lose it.
EveryPressIsTaken ==
    []<>(listener = "polling") => (waiting ~> ~waiting)
=============================================================================
