-------------------------- MODULE ClipboardMonitor --------------------------
(***************************************************************************)
(* The Wayland thread (monitor/data_control.rs) between the compositor and *)
(* the channel of the ingest loop.  A selection waits in one slot for the  *)
(* debounce, is read from the application that owns it, and is handed      *)
(* over; the guard (dbus/guard.rs) may suppress it.  While the thread      *)
(* reads it goes on dispatching Wayland events, which may fill the slot    *)
(* again; while it waits for room in the channel it dispatches nothing.    *)
(*                                                                         *)
(* An offer is the number of the selection it stands for.  An owner may    *)
(* miss the deadline of a read (Slow: a busy application, or an empty      *)
(* text, which reads like no answer); a read by an offer that the          *)
(* compositor has replaced gets no answer.  A read takes the bytes that    *)
(* are there when it looks for the whole text: what it returns is the text *)
(* the owner holds or a first part of it, which is a text of its own, with *)
(* a fingerprint of its own, and not UTF-8 when it was cut inside a        *)
(* character.  The queue of write requests, which nothing in the daemon    *)
(* fills, is left out.                                                     *)
(***************************************************************************)
EXTENDS Integers, Sequences, SequencesExt

CONSTANTS
    Text,        \* what applications select, and what is read of it
    Parts,       \* Parts[t]: the first parts of t a read may end with
    UserSelections, \* the pairs of text and source a user may select
    Image,       \* the texts without a text MIME type
    Slow,        \* the texts whose owner may not answer in 500 ms
    Garbled,     \* the texts that are not UTF-8
    Writable,    \* the texts of history entries, which wl-copy may select
    None,
    MaxOffers,   \* bound on the selections made
    ChannelCap   \* capacity of the channel to the ingest loop (64)

Source == {"Clipboard", "Primary"}

Offer == 1 .. MaxOffers

PendingSelection ==
    [source : Source, offer : Offer, ripe : BOOLEAN]

ASSUME MonitorAssumption ==
    /\ Image \subseteq Text /\ Slow \subseteq Text /\ Garbled \subseteq Text
    /\ Writable \subseteq Text \ (Image \cup Garbled) /\ None \notin Text \cup PendingSelection
    /\ Parts \in [Text -> SUBSET Text] /\ \A t \in Text : t \notin Parts[t]
    /\ UserSelections \subseteq Text \X Source
    /\ MaxOffers \in Nat /\ ChannelCap \in Nat \ {0}

VARIABLES
    offered,       \* every selection made: its text and its source
    selection,     \* the compositor's selection by source, 0 for none
    inbox,         \* Wayland events not yet dispatched
    watch_primary, \* MonitorConfig.watch_primary
    pending,       \* State.pending
    thread,        \* what the monitor thread is doing
    armed,         \* the text the guard expects, or None
    write,         \* the last write of the daemon
    channel,       \* offers handed over and not yet ingested
    captured       \* auxiliary: every offer handed over

compositor == <<offered, selection>>
guard == <<armed, write>>
handedOver == <<channel, captured>>
vars == <<compositor, inbox, watch_primary, pending, thread, guard, handedOver>>

WaylandEvent == [type : {"Selection", "PrimarySelection"}, id : Offer \cup {0}]

Looping == [at |-> "loop"]

Thread ==
    {Looping} \cup [at : {"reading"}, selected : PendingSelection, read : Text \cup {None}]
              \cup [at : {"sending"}, selected : PendingSelection]

\* a write runs, then fails or selects an offer, which the thread reads in
\* full at some time, perhaps (seen is auxiliary)
NoWrite == [at |-> "none"]

Write ==
    {NoWrite, [at |-> "failed"]}
              \cup [at : {"running"}, text : Writable]
              \cup [at : {"selected", "seen"}, offer : Offer]

TypeOK ==
    /\ offered \in Seq([text : Text, source : Source]) /\ Len(offered) <= MaxOffers
    /\ selection \in [Source -> Offer \cup {0}]
    /\ inbox \in Seq(WaylandEvent)
    /\ watch_primary \in BOOLEAN
    /\ pending \in PendingSelection \cup {None}
    /\ thread \in Thread
    /\ armed \in Text \cup {None} /\ write \in Write
    /\ channel \in Seq(Offer) /\ Len(channel) <= ChannelCap
    /\ captured \in Seq(Offer)

Init ==
    /\ offered = <<>> /\ selection = [s \in Source |-> 0]
    /\ inbox = <<>>
    /\ watch_primary \in BOOLEAN
    /\ pending = None /\ thread = Looping
    /\ armed = None /\ write = NoWrite
    /\ channel = <<>> /\ captured = <<>>

-----------------------------------------------------------------------------
(* The compositor and the applications.                                    *)

SelectionEvent(source, n) ==
    [type |-> IF source = "Clipboard" THEN "Selection" ELSE "PrimarySelection", id |-> n]

\* an application owns the selection now; the offer and its MIME types are
\* announced before the change, so that the thread knows them by then
Select(text, source) ==
    LET n == Len(offered) + 1
    IN  /\ n \in Offer
        /\ offered' = Append(offered, [text |-> text, source |-> source])
        /\ selection' = [selection EXCEPT ![source] = n]
        /\ inbox' = Append(inbox, SelectionEvent(source, n))

UserSelects(text, source) ==
    /\ Select(text, source)
    /\ UNCHANGED <<watch_primary, pending, thread, guard, handedOver>>

\* the owner of the selection is gone
OwnerExits(source) ==
    /\ selection[source] # 0
    /\ selection' = [selection EXCEPT ![source] = 0]
    /\ inbox' = Append(inbox, SelectionEvent(source, 0))
    /\ UNCHANGED <<offered, watch_primary, pending, thread, guard, handedOver>>

Running == write.at = "running"

\* write_clipboard_for_paste arms the guard and runs wl-copy
BeginWrite(text) ==
    /\ ~Running
    /\ write' = [at |-> "running", text |-> text] /\ armed' = text
    /\ UNCHANGED <<compositor, inbox, watch_primary, pending, thread, handedOver>>

WlCopySelects ==
    /\ Running
    /\ Select(write.text, "Clipboard")
    /\ write' = [at |-> "selected", offer |-> Len(offered')]
    /\ UNCHANGED <<watch_primary, pending, thread, armed, handedOver>>

\* nobody disarms the guard
WlCopyFails ==
    /\ Running
    /\ write' = [at |-> "failed"]
    /\ UNCHANGED <<compositor, inbox, watch_primary, pending, thread, armed, handedOver>>

\* the window of 5250 ms has passed; wl-copy has no deadline
GuardExpires ==
    /\ armed # None
    /\ armed' = None
    /\ UNCHANGED <<compositor, inbox, watch_primary, pending, thread, write, handedOver>>

\* the config watcher follows primary_to_history
SetWatchPrimary(on) ==
    /\ watch_primary' = on
    /\ UNCHANGED <<compositor, inbox, pending, thread, guard, handedOver>>

-----------------------------------------------------------------------------
(* Dispatch, in the loop and inside a read (impl Dispatch for State).      *)

Scheduled(source, n) == [source |-> source, offer |-> n, ripe |-> FALSE]

Dispatch(type) ==
    /\ thread.at \in {"loop", "reading"}
    /\ inbox # <<>> /\ Head(inbox).type = type
    /\ inbox' = Tail(inbox)
    /\ UNCHANGED <<compositor, watch_primary, thread, guard, handedOver>>

\* the slot of the other source is emptied too
OnSelection ==
    LET n == Head(inbox).id
    IN  /\ Dispatch("Selection")
        /\ pending' = IF n = 0 THEN None
                      ELSE IF pending # None /\ pending.offer = n THEN pending
                      ELSE Scheduled("Clipboard", n)

\* the slot is taken from the clipboard, and is kept when the owner exits
OnPrimarySelection ==
    LET n == Head(inbox).id
    IN  /\ Dispatch("PrimarySelection")
        /\ pending' = IF watch_primary /\ n # 0 THEN Scheduled("Primary", n) ELSE pending

-----------------------------------------------------------------------------
(* flush_pending and the read inside it.                                   *)

\* the debounce has passed
Ripen ==
    /\ pending # None /\ ~pending.ripe
    /\ pending' = [pending EXCEPT !.ripe = TRUE]
    /\ UNCHANGED <<compositor, inbox, watch_primary, thread, guard, handedOver>>

TextOf(n) == offered[n].text

\* text_plain_mime finds one
HasTextMime(n) == TextOf(n) \notin Image

\* mutated BeginRead: the slot keeps what is being read
BeginReadAndKeep ==
    /\ thread = Looping
    /\ pending # None /\ pending.ripe
    /\ HasTextMime(pending.offer)
    /\ thread' = [at |-> "reading", selected |-> pending, read |-> None]
    /\ UNCHANGED <<compositor, inbox, watch_primary, pending, guard, handedOver>>

BeginRead ==
    /\ thread = Looping
    /\ pending # None /\ pending.ripe
    /\ HasTextMime(pending.offer)
    /\ thread' = [at |-> "reading", selected |-> pending, read |-> None]
    /\ pending' = None
    /\ UNCHANGED <<compositor, inbox, watch_primary, guard, handedOver>>

Reading == thread.at = "reading"

\* the compositor still knows the offer and its owner
IsSelected(n) == selection[offered[n].source] = n

\* what read_text_plain may return of the text: whatever is in the pipe when it
\* finds the pipe not empty
Readable(text) == {text} \cup Parts[text]

OwnerAnswers ==
    /\ Reading /\ thread.read = None
    /\ IsSelected(thread.selected.offer)
    /\ \E text \in Readable(TextOf(thread.selected.offer)) :
           thread' = [thread EXCEPT !.read = text]
    /\ UNCHANGED <<compositor, inbox, watch_primary, pending, guard, handedOver>>

\* mutated ReadTimesOut: nothing is put back
ReadTimesOutAndDrops ==
    /\ Reading /\ thread.read = None
    /\ TextOf(thread.selected.offer) \in Slow \/ ~IsSelected(thread.selected.offer)
    /\ thread' = Looping
    /\ UNCHANGED <<compositor, inbox, watch_primary, pending, guard, handedOver>>

\* the selection goes back into the slot, over one scheduled meanwhile
ReadTimesOut ==
    /\ Reading /\ thread.read = None
    /\ TextOf(thread.selected.offer) \in Slow \/ ~IsSelected(thread.selected.offer)
    /\ pending' = thread.selected
    /\ thread' = Looping
    /\ UNCHANGED <<compositor, inbox, watch_primary, guard, handedOver>>

\* mutated AfterSuppressing: the guard waits for its window to pass
StaysArmed(text) == armed

\* the guard once it has suppressed a text
AfterSuppressing(text) == IF armed = text THEN None ELSE armed

\* the thread has read n, to its end or not
NoteSeen(n) ==
    write' = IF write.at = "selected" /\ write.offer = n /\ thread.read = TextOf(n)
             THEN [write EXCEPT !.at = "seen"] ELSE write

\* mutated Suppress: the selection is put back for later
SuppressForNow ==
    /\ Reading /\ thread.read # None
    /\ thread.read \notin Garbled
    /\ armed # None
    /\ pending' = thread.selected
    /\ thread' = Looping
    /\ UNCHANGED <<compositor, inbox, watch_primary, guard, handedOver>>

Suppress ==
    /\ Reading /\ thread.read # None
    /\ thread.read \notin Garbled
    /\ armed # None
    /\ armed' = AfterSuppressing(thread.read)
    /\ NoteSeen(thread.selected.offer)
    /\ thread' = Looping
    /\ UNCHANGED <<compositor, inbox, watch_primary, pending, handedOver>>

RejectGarbled ==
    /\ Reading /\ thread.read # None
    /\ thread.read \in Garbled
    /\ thread' = Looping
    /\ UNCHANGED <<compositor, inbox, watch_primary, pending, guard, handedOver>>

Capture ==
    /\ Reading /\ thread.read # None
    /\ thread.read \notin Garbled
    /\ armed = None
    /\ NoteSeen(thread.selected.offer)
    /\ thread' = [at |-> "sending", selected |-> thread.selected]
    /\ UNCHANGED <<compositor, inbox, watch_primary, pending, armed, handedOver>>

\* mutated Send: it does not wait for room
SendUnbounded ==
    /\ thread.at = "sending"
    /\ channel' = Append(channel, thread.selected.offer)
    /\ captured' = Append(captured, thread.selected.offer)
    /\ thread' = Looping
    /\ UNCHANGED <<compositor, inbox, watch_primary, pending, guard>>

\* blocking_send
Send ==
    /\ thread.at = "sending" /\ Len(channel) < ChannelCap
    /\ channel' = Append(channel, thread.selected.offer)
    /\ captured' = Append(captured, thread.selected.offer)
    /\ thread' = Looping
    /\ UNCHANGED <<compositor, inbox, watch_primary, pending, guard>>

Ingest ==
    /\ channel # <<>>
    /\ channel' = Tail(channel)
    /\ UNCHANGED <<compositor, inbox, watch_primary, pending, thread, guard, captured>>

-----------------------------------------------------------------------------

World ==
    \/ \E selected \in UserSelections : UserSelects(selected[1], selected[2])
    \/ \E source \in Source : OwnerExits(source)
    \/ \E text \in Writable : BeginWrite(text)
    \/ WlCopySelects \/ WlCopyFails \/ GuardExpires
    \/ \E on \in BOOLEAN : SetWatchPrimary(on)

Dispatching == OnSelection \/ OnPrimarySelection

Reader == BeginRead \/ ReadTimesOut \/ Suppress \/ RejectGarbled \/ Capture \/ Send

Next == World \/ Dispatching \/ Ripen \/ Reader \/ OwnerAnswers \/ Ingest

Spec == Init /\ [][Next]_vars

\* the thread runs, time passes, the ingest loop takes events, and an owner
\* that is not slow answers
Fairness ==
    /\ WF_vars(Dispatching) /\ WF_vars(Ripen) /\ WF_vars(Reader) /\ WF_vars(Ingest)
    /\ WF_vars(OwnerAnswers /\ TextOf(thread.selected.offer) \notin Slow)

FairSpec == Spec /\ Fairness

-----------------------------------------------------------------------------
(* Properties.                                                             *)

\* the selections the thread still has to deal with
Held ==
    (IF pending = None THEN {} ELSE {pending.offer})
      \cup (IF thread = Looping THEN {} ELSE {thread.selected.offer})

\* Selections reach the history in the order they were made and at most once,
\* though they are read late, put back and read again, and though the slot is
\* refilled while they are read.
CapturedInOrder ==
    \A i, j \in DOMAIN captured : i < j => captured[i] < captured[j]

\* A selection the user has not replaced is let go of only with a result, or
\* because the only slot was taken from it: by an event of the other source, or
\* by an older selection whose read timed out after this one was scheduled.
OnlySlotTheftForgets ==
    [][\A n \in Held \ Held' :
          \/ ~IsSelected(n)
          \/ Suppress \/ RejectGarbled \/ Send
          \/ offered[n].source = "Clipboard" /\ OnPrimarySelection
          \/ offered[n].source = "Primary" /\ OnSelection
          \/ ReadTimesOut /\ thread.selected.offer < n]_vars

\* A selection whose owner answers does not stay with the thread: it is
\* captured, suppressed or replaced, whatever else is selected and written.
PromptSelectionSettles ==
    \A n \in Offer :
        (n \in Held /\ IsSelected(n) /\ TextOf(n) \notin Slow \cup Image)
          ~> (n \notin Held \/ ~IsSelected(n))

\* Once the thread has read all of what wl-copy selected, the guard lets
\* everything pass until the next write, without waiting for its window: a copy
\* the user makes is swallowed only while a write runs, after one that failed,
\* or when the written selection was not read yet, was replaced before it was
\* read, or was read in part, with another fingerprint than the guard expects.
SeenWriteDisarms == write.at = "seen" => armed = None
=============================================================================
