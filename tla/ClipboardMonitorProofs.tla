----------------------- MODULE ClipboardMonitorProofs -----------------------
(***************************************************************************)
(* Theorems about ClipboardMonitor, for every set of texts, any number of  *)
(* selections and any capacity of the channel.                             *)
(***************************************************************************)
EXTENDS ClipboardMonitor, SequenceTheorems, TLAPS

Made == 1 .. Len(offered)

EventType(source) == SelectionEvent(source, 0).type

\* Only selections that were made are read, announced and captured.
OnlyMade ==
    /\ Held \subseteq Made
    /\ \A k \in DOMAIN inbox : inbox[k].id \in Made \cup {0}
    /\ \A i \in DOMAIN captured : captured[i] \in Made

\* Selections stand in one line, in the order they were made: the captured
\* ones, the one being read, the one in the slot, the ones announced.
InLine ==
    /\ CapturedInOrder
    /\ \A i \in DOMAIN captured, n \in Held : captured[i] < n
    /\ \A i \in DOMAIN captured, k \in DOMAIN inbox :
          inbox[k].id # 0 => captured[i] < inbox[k].id
    /\ thread # Looping /\ pending # None => thread.selected.offer < pending.offer
    /\ \A n \in Held, k \in DOMAIN inbox : inbox[k].id # 0 => n < inbox[k].id
    /\ \A j, k \in DOMAIN inbox :
          j < k /\ inbox[j].id # 0 /\ inbox[k].id # 0 => inbox[j].id < inbox[k].id

\* An event that waits means that what its source selected before is replaced.
Superseded ==
    /\ \A n \in Held, k \in DOMAIN inbox :
          inbox[k].type = EventType(offered[n].source) => ~IsSelected(n)
    /\ \A j, k \in DOMAIN inbox :
          /\ j < k /\ inbox[j].id # 0
          /\ inbox[k].type = EventType(offered[inbox[j].id].source)
          => ~IsSelected(inbox[j].id)

\* The guard expects the text of the last write, until that text is seen.
GuardFollowsWrite ==
    /\ write.at \in {"selected", "seen"} => write.offer \in Made
    /\ Running => armed \in {None, write.text}
    /\ write.at = "selected" => armed \in {None, TextOf(write.offer)}
    /\ SeenWriteDisarms

IInv == TypeOK /\ OnlyMade /\ InLine /\ Superseded /\ GuardFollowsWrite

-----------------------------------------------------------------------------
(* What a step does to the line.                                           *)

\* A step inside the thread: it may let a selection go.
QuietStep ==
    /\ UNCHANGED <<offered, selection, inbox, captured>>
    /\ Held' \subseteq Held
    /\ thread' # Looping /\ pending' # None =>
          /\ thread # Looping /\ pending # None
          /\ thread'.selected.offer = thread.selected.offer
          /\ pending'.offer = pending.offer

SelectStep(source) ==
    /\ \E text \in Text : Select(text, source)
    /\ UNCHANGED <<pending, thread, captured>>

ExitStep(source) ==
    /\ selection' = [selection EXCEPT ![source] = 0]
    /\ inbox' = Append(inbox, SelectionEvent(source, 0))
    /\ UNCHANGED <<offered, pending, thread, captured>>

DispatchStep ==
    /\ inbox # <<>> /\ inbox' = Tail(inbox)
    /\ UNCHANGED <<offered, selection, thread, captured>>
    /\ \/ pending' \in {pending, None}
       \/ pending' # None /\ pending'.offer = Head(inbox).id /\ Head(inbox).id # 0

SendStep ==
    /\ thread # Looping /\ thread' = Looping
    /\ captured' = Append(captured, thread.selected.offer)
    /\ UNCHANGED <<offered, selection, inbox, pending>>

\* The forms of the thread.
LEMMA ThreadFacts ==
    ASSUME TypeOK
    PROVE  /\ thread.at \in {"loop", "reading", "sending"}
           /\ thread = Looping <=> thread.at = "loop"
           /\ thread # Looping => thread.selected \in PendingSelection
           /\ pending # None => pending \in PendingSelection
           /\ None \notin PendingSelection
  BY MonitorAssumption DEF TypeOK, Thread, Looping

LEMMA ThreadSteps ==
    ASSUME TypeOK, Ripen \/ Reader \/ OwnerAnswers
    PROVE  QuietStep \/ SendStep
  <1> USE ThreadFacts
  <1>1. CASE Ripen
    BY <1>1 DEF Ripen, QuietStep, Held, compositor, handedOver, PendingSelection
  <1>2. CASE BeginRead
    BY <1>2 DEF BeginRead, QuietStep, Held, compositor, handedOver, Looping
  <1>3. CASE ReadTimesOut
    BY <1>3 DEF ReadTimesOut, Reading, QuietStep, Held, compositor, handedOver, Looping
  <1>4. CASE Suppress \/ RejectGarbled
    BY <1>4 DEF Suppress, RejectGarbled, Reading, QuietStep, Held, compositor, handedOver
  <1>5. CASE Capture
    BY <1>5 DEF Capture, Reading, QuietStep, Held, compositor, handedOver, Looping
  <1>6. CASE Send
    BY <1>6 DEF Send, SendStep, compositor
  <1>7. CASE OwnerAnswers
    <2>1. thread \in [at : {"reading"}, selected : PendingSelection, read : Text \cup {None}]
      BY <1>7 DEF OwnerAnswers, Reading, TypeOK, Thread, Looping
    <2>2. thread'.at = "reading" /\ thread'.selected = thread.selected
      BY <1>7, <2>1 DEF OwnerAnswers
    <2> QED
      BY <1>7, <2>2 DEF OwnerAnswers, Reading, QuietStep, Held, compositor, handedOver, Looping
  <1> QED
    BY <1>1, <1>2, <1>3, <1>4, <1>5, <1>6, <1>7 DEF Reader

LEMMA FormOfStep ==
    ASSUME TypeOK, [Next]_vars
    PROVE  \/ QuietStep \/ SendStep \/ DispatchStep
           \/ \E source \in Source : SelectStep(source) \/ ExitStep(source)
  <1>1. CASE \E selected \in UserSelections : UserSelects(selected[1], selected[2])
    BY <1>1, MonitorAssumption DEF UserSelects, SelectStep, handedOver
  <1>2. CASE \E source \in Source : OwnerExits(source)
    BY <1>2 DEF OwnerExits, ExitStep, handedOver
  <1>3. CASE WlCopySelects
    <2>1. write.text \in Text
      BY <1>3, MonitorAssumption DEF WlCopySelects, Running, TypeOK, Write, NoWrite
    <2> QED
      BY <1>3, <2>1 DEF WlCopySelects, SelectStep, handedOver, Source
  <1>4. CASE \/ \E text \in Writable : BeginWrite(text)
             \/ WlCopyFails \/ GuardExpires
             \/ \E on \in BOOLEAN : SetWatchPrimary(on)
             \/ Ingest \/ UNCHANGED vars
    BY <1>4
       DEF BeginWrite, WlCopyFails, GuardExpires, SetWatchPrimary, Ingest, vars, compositor,
           handedOver, QuietStep, Held
  <1>5. CASE OnSelection
    BY <1>5 DEF OnSelection, Dispatch, DispatchStep, Scheduled, compositor, handedOver
  <1>6. CASE OnPrimarySelection
    BY <1>6 DEF OnPrimarySelection, Dispatch, DispatchStep, Scheduled, compositor, handedOver
  <1> QED
    BY <1>1, <1>2, <1>3, <1>4, <1>5, <1>6, ThreadSteps DEF Next, World, Dispatching

-----------------------------------------------------------------------------
(* Each part of the invariant is kept.                                     *)

\* The events and selections of the compositor have their types.
LEMMA SelectTyped ==
    ASSUME TypeOK, NEW source \in Source, NEW text \in Text, Select(text, source)
    PROVE  /\ offered' \in Seq([text : Text, source : Source]) /\ Len(offered') <= MaxOffers
           /\ selection' \in [Source -> Offer \cup {0}]
           /\ inbox' \in Seq(WaylandEvent)
           /\ Len(offered') \in Offer
  <1>1. SelectionEvent(source, Len(offered) + 1) \in WaylandEvent
    BY DEF SelectionEvent, WaylandEvent, Select
  <1>2. [text |-> text, source |-> source] \in [text : Text, source : Source]
    OBVIOUS
  <1> QED
    BY <1>1, <1>2, MonitorAssumption DEF TypeOK, Select, Offer

\* What is read of a selection is a text.
LEMMA ReadableTyped ==
    ASSUME TypeOK, NEW n \in Made
    PROVE  Readable(TextOf(n)) \subseteq Text
  <1>1. offered[n] \in [text : Text, source : Source]
    BY ElementOfSeq, Zenon DEF TypeOK, Made
  <1> QED
    BY <1>1, MonitorAssumption DEF Readable, TextOf

LEMMA TypeKept ==
    ASSUME TypeOK, OnlyMade, [Next]_vars
    PROVE  TypeOK'
  <1> USE MonitorAssumption, ThreadFacts
  <1>1. CASE \E selected \in UserSelections : UserSelects(selected[1], selected[2])
    BY <1>1, SelectTyped DEF UserSelects, TypeOK, guard, handedOver
  <1>2. CASE \E source \in Source : OwnerExits(source)
    <2>1. PICK source \in Source : OwnerExits(source)
      BY <1>2
    <2>2. SelectionEvent(source, 0) \in WaylandEvent
      BY DEF SelectionEvent, WaylandEvent
    <2> QED
      BY <2>1, <2>2 DEF OwnerExits, TypeOK, guard, handedOver
  <1>3. CASE \E text \in Writable : BeginWrite(text)
    BY <1>3 DEF BeginWrite, TypeOK, Write, compositor, handedOver
  <1>4. CASE WlCopySelects
    <2>1. write.text \in Text
      BY <1>4 DEF WlCopySelects, Running, TypeOK, Write, NoWrite
    <2>2. "Clipboard" \in Source
      BY DEF Source
    <2>3. write' \in Write
      BY <1>4, <2>1, <2>2, SelectTyped DEF WlCopySelects, Write
    <2> QED
      BY <1>4, <2>1, <2>2, <2>3, SelectTyped DEF WlCopySelects, TypeOK, handedOver
  <1>5. CASE WlCopyFails \/ GuardExpires \/ \E on \in BOOLEAN : SetWatchPrimary(on)
    BY <1>5
       DEF WlCopyFails, GuardExpires, SetWatchPrimary, TypeOK, Write, compositor, guard,
           handedOver
  <1>6. CASE OnSelection \/ OnPrimarySelection
    <2>1. inbox # <<>> /\ inbox' = Tail(inbox)
      BY <1>6 DEF OnSelection, OnPrimarySelection, Dispatch
    <2>2. inbox' \in Seq(WaylandEvent) /\ Head(inbox).id \in Offer \cup {0}
      <3>1. inbox' \in Seq(WaylandEvent) /\ Head(inbox) \in WaylandEvent
        BY <2>1 DEF TypeOK
      <3> QED
        BY <3>1 DEF WaylandEvent
    <2>3. pending' \in PendingSelection \cup {None}
      <3>1. \A source \in Source, n \in Offer : Scheduled(source, n) \in PendingSelection
        BY DEF Scheduled, PendingSelection
      <3>2. pending \in PendingSelection \cup {None}
        BY DEF TypeOK
      <3> QED
        BY <1>6, <2>2, <3>1, <3>2 DEF OnSelection, OnPrimarySelection, Source
    <2> QED
      BY <1>6, <2>2, <2>3
         DEF OnSelection, OnPrimarySelection, Dispatch, TypeOK, compositor, guard, handedOver
  <1>7. CASE Ripen
    BY <1>7 DEF Ripen, TypeOK, PendingSelection, compositor, guard, handedOver
  <1>8. CASE BeginRead \/ ReadTimesOut \/ OwnerAnswers
    <2>1. thread' \in Thread
      <3>1. CASE BeginRead \/ ReadTimesOut
        <4>1. \A selected \in PendingSelection :
                 [at |-> "reading", selected |-> selected, read |-> None] \in Thread
          BY DEF Thread
        <4>2. Looping \in Thread
          BY DEF Thread
        <4> QED
          BY <3>1, <4>1, <4>2 DEF BeginRead, ReadTimesOut
      <3>2. CASE OwnerAnswers
        <4>1. thread \in [at : {"reading"}, selected : PendingSelection, read : Text \cup {None}]
          BY <3>2 DEF OwnerAnswers, Reading, TypeOK, Thread, Looping
        <4>2. thread.selected.offer \in Made
          BY <3>2 DEF OwnerAnswers, Reading, Looping, OnlyMade, Held
        <4>3. Readable(TextOf(thread.selected.offer)) \subseteq Text
          BY <4>2, ReadableTyped
        <4> QED
          BY <3>2, <4>1, <4>3 DEF OwnerAnswers, Thread
      <3> QED
        BY <1>8, <3>1, <3>2
    <2>2. pending' \in PendingSelection \cup {None}
      BY <1>8 DEF BeginRead, ReadTimesOut, OwnerAnswers, Reading, Looping, TypeOK
    <2> QED
      BY <1>8, <2>1, <2>2
         DEF BeginRead, ReadTimesOut, OwnerAnswers, TypeOK, compositor, guard, handedOver
  <1>9. CASE Suppress \/ RejectGarbled \/ Capture
    <2>1. write' \in Write
      <3>1. CASE write.at = "selected"
        <4>1. write \in [at : {"selected", "seen"}, offer : Offer]
          BY <3>1 DEF TypeOK, Write, NoWrite
        <4>2. [write EXCEPT !.at = "seen"] \in [at : {"selected", "seen"}, offer : Offer]
          BY <4>1
        <4> QED
          BY <1>9, <4>1, <4>2
             DEF Suppress, RejectGarbled, Capture, NoteSeen, guard, TypeOK, Write
      <3>2. CASE write.at # "selected"
        BY <1>9, <3>2 DEF Suppress, RejectGarbled, Capture, NoteSeen, guard, TypeOK
      <3> QED
        BY <3>1, <3>2
    <2>2. thread' \in Thread /\ armed' \in Text \cup {None}
      BY <1>9
         DEF Suppress, RejectGarbled, Capture, AfterSuppressing, Reading, Looping, Thread,
             guard, TypeOK
    <2> QED
      BY <1>9, <2>1, <2>2
         DEF Suppress, RejectGarbled, Capture, TypeOK, compositor, guard, handedOver
  <1>10. CASE Send
    <2>1. thread.selected.offer \in Offer
      BY <1>10 DEF Send, Looping, PendingSelection
    <2> QED
      BY <1>10, <2>1 DEF Send, TypeOK, Thread, compositor, guard
  <1>11. CASE Ingest
    BY <1>11 DEF Ingest, TypeOK, compositor, guard
  <1>12. CASE UNCHANGED vars
    BY <1>12 DEF vars, TypeOK, compositor, guard, handedOver
  <1> QED
    BY <1>1, <1>2, <1>3, <1>4, <1>5, <1>6, <1>7, <1>8, <1>9, <1>10, <1>11, <1>12
       DEF Next, World, Dispatching, Reader

\* What the step of each form does to the sequences.
LEMMA SelectFacts ==
    ASSUME TypeOK, NEW source \in Source, SelectStep(source)
    PROVE  /\ Len(offered') = Len(offered) + 1 /\ Len(offered) \in Nat
           /\ \A n \in Made : offered'[n] = offered[n]
           /\ selection' = [selection EXCEPT ![source] = Len(offered) + 1]
           /\ DOMAIN inbox' = 1 .. Len(inbox) + 1 /\ DOMAIN inbox = 1 .. Len(inbox)
           /\ \A k \in DOMAIN inbox : inbox'[k] = inbox[k]
           /\ inbox'[Len(inbox) + 1].id = Len(offered) + 1
           /\ inbox'[Len(inbox) + 1].type = EventType(source)
           /\ Held' = Held
  <1>1. PICK text \in Text : Select(text, source)
    BY DEF SelectStep
  <1>2. Held' = Held
    BY DEF SelectStep, Held
  <1> QED
    BY <1>1, <1>2 DEF Select, TypeOK, Made, SelectionEvent, EventType

LEMMA ExitFacts ==
    ASSUME TypeOK, NEW source \in Source, ExitStep(source)
    PROVE  /\ DOMAIN inbox' = 1 .. Len(inbox) + 1 /\ DOMAIN inbox = 1 .. Len(inbox)
           /\ Len(inbox) \in Nat
           /\ \A k \in DOMAIN inbox : inbox'[k] = inbox[k]
           /\ inbox'[Len(inbox) + 1].id = 0
           /\ inbox'[Len(inbox) + 1].type = EventType(source)
           /\ Held' = Held
  <1>1. Held' = Held
    BY DEF ExitStep, Held
  <1> QED
    BY <1>1 DEF ExitStep, TypeOK, SelectionEvent, EventType

LEMMA DispatchFacts ==
    ASSUME TypeOK, DispatchStep
    PROVE  /\ Len(inbox) \in Nat /\ Len(inbox) >= 1
           /\ DOMAIN inbox' = 1 .. Len(inbox) - 1 /\ DOMAIN inbox = 1 .. Len(inbox)
           /\ \A k \in DOMAIN inbox' : inbox'[k] = inbox[k + 1]
           /\ Head(inbox) = inbox[1]
           /\ Held' \subseteq Held \cup {inbox[1].id}
           /\ 0 \in Held' => 0 \in Held
  <1>1. /\ Len(inbox) \in Nat /\ Len(inbox) >= 1
        /\ DOMAIN inbox' = 1 .. Len(inbox) - 1 /\ DOMAIN inbox = 1 .. Len(inbox)
        /\ \A k \in DOMAIN inbox' : inbox'[k] = inbox[k + 1]
        /\ Head(inbox) = inbox[1]
    BY DEF DispatchStep, TypeOK
  <1>2. Held' \subseteq Held \cup {inbox[1].id} /\ (0 \in Held' => 0 \in Held)
    BY <1>1 DEF DispatchStep, Held
  <1> QED
    BY <1>1, <1>2

LEMMA SendFacts ==
    ASSUME TypeOK, SendStep
    PROVE  /\ DOMAIN captured' = 1 .. Len(captured) + 1 /\ DOMAIN captured = 1 .. Len(captured)
           /\ Len(captured) \in Nat
           /\ \A i \in DOMAIN captured : captured'[i] = captured[i]
           /\ captured'[Len(captured) + 1] = thread.selected.offer
           /\ thread.selected.offer \in Held /\ Held' \subseteq Held
           /\ \A n \in Held' : pending # None /\ n = pending.offer
  <1>1. /\ DOMAIN captured' = 1 .. Len(captured) + 1 /\ DOMAIN captured = 1 .. Len(captured)
        /\ Len(captured) \in Nat
        /\ \A i \in DOMAIN captured : captured'[i] = captured[i]
        /\ captured'[Len(captured) + 1] = thread.selected.offer
    <2>1. thread.selected.offer \in Offer
      BY ThreadFacts DEF SendStep, PendingSelection
    <2> QED
      BY <2>1 DEF SendStep, TypeOK
  <1>2. /\ thread.selected.offer \in Held /\ Held' \subseteq Held
        /\ \A n \in Held' : pending # None /\ n = pending.offer
    BY DEF SendStep, Held
  <1> QED
    BY <1>1, <1>2

\* All of these are numbers.
LEMMA Numbers ==
    ASSUME TypeOK
    PROVE  /\ Held \subseteq Nat \ {0} /\ Made \subseteq Nat \ {0}
           /\ \A k \in DOMAIN inbox : inbox[k].id \in Nat
           /\ \A i \in DOMAIN captured : captured[i] \in Nat
           /\ DOMAIN inbox \subseteq Nat /\ DOMAIN captured \subseteq Nat
  <1>1. Offer \subseteq Nat \ {0}
    BY MonitorAssumption DEF Offer
  <1>2. Held \subseteq Offer
    BY ThreadFacts DEF Held, PendingSelection
  <1>3. \A k \in DOMAIN inbox : inbox[k] \in WaylandEvent
    BY DEF TypeOK
  <1>4. \A k \in DOMAIN inbox : inbox[k].id \in Nat
    <2>1. \A event \in WaylandEvent : event.id \in Offer \cup {0}
      BY DEF WaylandEvent
    <2> SUFFICES ASSUME NEW k \in DOMAIN inbox
                 PROVE  inbox[k].id \in Nat
      OBVIOUS
    <2>2. inbox[k].id \in Offer \cup {0}
      BY <1>3, <2>1
    <2>3. \A id \in Offer \cup {0} : id \in Nat
      BY <1>1
    <2> QED
      BY <2>2, <2>3, Zenon
  <1>5. \A i \in DOMAIN captured : captured[i] \in Offer
    BY DEF TypeOK
  <1>6. DOMAIN inbox \subseteq Nat /\ DOMAIN captured \subseteq Nat
    BY DEF TypeOK
  <1>7. Made \subseteq Nat \ {0}
    BY DEF Made, TypeOK
  <1> QED
    BY <1>1, <1>2, <1>4, <1>5, <1>6, <1>7

LEMMA InLineKept ==
    ASSUME TypeOK, OnlyMade, InLine, [Next]_vars
    PROVE  InLine'
  <1> USE Numbers
  <1>0. TypeOK'
    BY TypeKept
  <1>1. CASE QuietStep
    BY <1>1 DEF QuietStep, InLine, CapturedInOrder
  <1>2. ASSUME NEW source \in Source, SelectStep(source)
        PROVE  InLine'
    <2>1. captured' = captured /\ thread' = thread /\ pending' = pending
      BY <1>2 DEF SelectStep
    <2>2. \A k \in DOMAIN inbox' : k \in DOMAIN inbox \/ k = Len(inbox) + 1
      BY <1>2, SelectFacts DEF TypeOK
    <2>3. Len(offered) \in Nat /\ Len(inbox) \in Nat
      BY DEF TypeOK
    <2>4. \A i \in DOMAIN captured : captured[i] < Len(offered) + 1
      BY <2>3 DEF OnlyMade, Made
    <2>5. \A n \in Held : n < Len(offered) + 1
      BY <2>3 DEF OnlyMade, Made
    <2>6. \A k \in DOMAIN inbox : inbox[k].id < Len(offered) + 1
      BY <2>3 DEF OnlyMade, Made
    <2>7. \A i \in DOMAIN captured', k \in DOMAIN inbox' :
             inbox'[k].id # 0 => captured'[i] < inbox'[k].id
      BY <1>2, <2>1, <2>2, <2>4, SelectFacts DEF InLine
    <2>8. \A n \in Held', k \in DOMAIN inbox' : inbox'[k].id # 0 => n < inbox'[k].id
      BY <1>2, <2>2, <2>5, SelectFacts DEF InLine
    <2>9. \A j, k \in DOMAIN inbox' :
             j < k /\ inbox'[j].id # 0 /\ inbox'[k].id # 0 => inbox'[j].id < inbox'[k].id
      <3> SUFFICES ASSUME NEW j \in DOMAIN inbox', NEW k \in DOMAIN inbox', j < k,
                          inbox'[j].id # 0, inbox'[k].id # 0
                   PROVE  inbox'[j].id < inbox'[k].id
        OBVIOUS
      <3>1. j \in DOMAIN inbox
        BY <1>2, <2>3, SelectFacts
      <3> QED
        BY <1>2, <2>2, <2>6, <3>1, SelectFacts DEF InLine
    <2> QED
      BY <1>2, <2>1, <2>7, <2>8, <2>9, SelectFacts DEF InLine, CapturedInOrder
  <1>3. ASSUME NEW source \in Source, ExitStep(source)
        PROVE  InLine'
    <2>1. captured' = captured /\ thread' = thread /\ pending' = pending
      BY <1>3 DEF ExitStep
    <2>2. \A k \in DOMAIN inbox' : k \in DOMAIN inbox \/ k = Len(inbox) + 1
      BY <1>3, ExitFacts DEF TypeOK
    <2> QED
      BY <1>3, <2>1, <2>2, ExitFacts DEF InLine, CapturedInOrder
  <1>4. CASE DispatchStep
    <2>1. captured' = captured /\ thread' = thread
      BY <1>4 DEF DispatchStep
    <2>2. \A k \in DOMAIN inbox' : k + 1 \in DOMAIN inbox /\ inbox'[k] = inbox[k + 1] /\ k + 1 > 1
      BY <1>4, DispatchFacts
    <2>3. 1 \in DOMAIN inbox /\ \A n \in Held' : n \in Held \/ (n = inbox[1].id /\ n # 0)
      BY <1>4, DispatchFacts
    <2>4. thread' # Looping /\ pending' # None => thread'.selected.offer < pending'.offer
      <3>1. thread # Looping => thread.selected.offer \in Held
        BY DEF Held
      <3>2. \/ pending' = None \/ pending' = pending
            \/ pending'.offer = inbox[1].id /\ inbox[1].id # 0
        BY <1>4, DispatchFacts DEF DispatchStep
      <3> QED
        BY <2>1, <2>3, <3>1, <3>2 DEF InLine
    <2>5. /\ \A i \in DOMAIN captured', n \in Held' : captured'[i] < n
          /\ \A i \in DOMAIN captured', k \in DOMAIN inbox' :
                inbox'[k].id # 0 => captured'[i] < inbox'[k].id
      BY <2>1, <2>2, <2>3 DEF InLine
    <2>6. /\ \A n \in Held', k \in DOMAIN inbox' : inbox'[k].id # 0 => n < inbox'[k].id
          /\ \A j, k \in DOMAIN inbox' :
                j < k /\ inbox'[j].id # 0 /\ inbox'[k].id # 0 => inbox'[j].id < inbox'[k].id
      <3>1. /\ \A n \in Held', k \in DOMAIN inbox' : inbox'[k].id # 0 => n < inbox'[k].id
        BY <2>2, <2>3 DEF InLine
      <3>2. \A j, k \in DOMAIN inbox' : j < k => j + 1 < k + 1
        BY <1>4, DispatchFacts
      <3> QED
        BY <2>2, <3>1, <3>2 DEF InLine
    <2> QED
      BY <2>1, <2>4, <2>5, <2>6 DEF InLine, CapturedInOrder
  <1>5. CASE SendStep
    <2>1. thread' = Looping /\ inbox' = inbox
      BY <1>5 DEF SendStep
    <2>2. \A i \in DOMAIN captured' : i \in DOMAIN captured \/ i = Len(captured) + 1
      BY <1>5, SendFacts DEF TypeOK
    <2>3. \A n \in Held' : thread.selected.offer < n
      BY <1>5, SendFacts DEF InLine, SendStep
    <2>4. CapturedInOrder'
      <3> SUFFICES ASSUME NEW i \in DOMAIN captured', NEW j \in DOMAIN captured', i < j
                   PROVE  captured'[i] < captured'[j]
        BY DEF CapturedInOrder
      <3>1. i \in DOMAIN captured
        BY <1>5, <2>2, SendFacts
      <3> QED
        BY <1>5, <2>2, <3>1, SendFacts DEF InLine, CapturedInOrder
    <2>5. \A i \in DOMAIN captured', n \in Held' : captured'[i] < n
      BY <1>5, <2>2, <2>3, SendFacts DEF InLine
    <2>6. \A i \in DOMAIN captured', k \in DOMAIN inbox' :
             inbox'[k].id # 0 => captured'[i] < inbox'[k].id
      BY <1>5, <2>1, <2>2, SendFacts DEF InLine
    <2>7. \A n \in Held', k \in DOMAIN inbox' : inbox'[k].id # 0 => n < inbox'[k].id
      BY <1>5, <2>1, SendFacts DEF InLine
    <2> QED
      BY <2>1, <2>4, <2>5, <2>6, <2>7 DEF InLine
  <1> QED
    BY <1>1, <1>2, <1>3, <1>4, <1>5, FormOfStep

\* Selections are only added.
LEMMA MadeGrows ==
    ASSUME TypeOK, [Next]_vars
    PROVE  Made \subseteq Made' /\ \A n \in Made : offered'[n] = offered[n]
  <1>1. Len(offered) \in Nat
    BY DEF TypeOK
  <1>2. CASE \E source \in Source : SelectStep(source)
    BY <1>1, <1>2, SelectFacts DEF Made
  <1>3. CASE offered' = offered
    BY <1>3 DEF Made
  <1> QED
    BY <1>2, <1>3, FormOfStep DEF QuietStep, SendStep, DispatchStep, ExitStep

LEMMA OnlyMadeKept ==
    ASSUME TypeOK, OnlyMade, [Next]_vars
    PROVE  OnlyMade'
  <1> USE Numbers, MadeGrows
  <1>1. CASE QuietStep
    BY <1>1 DEF QuietStep, OnlyMade
  <1>2. ASSUME NEW source \in Source, SelectStep(source)
        PROVE  OnlyMade'
    <2>1. Len(offered) + 1 \in Made' /\ captured' = captured
      BY <1>2, SelectFacts DEF Made, SelectStep
    <2>2. \A k \in DOMAIN inbox' : k \in DOMAIN inbox \/ k = Len(inbox) + 1
      BY <1>2, SelectFacts DEF TypeOK
    <2> QED
      BY <1>2, <2>1, <2>2, SelectFacts DEF OnlyMade
  <1>3. ASSUME NEW source \in Source, ExitStep(source)
        PROVE  OnlyMade'
    <2>1. \A k \in DOMAIN inbox' : k \in DOMAIN inbox \/ k = Len(inbox) + 1
      BY <1>3, ExitFacts
    <2> QED
      BY <1>3, <2>1, ExitFacts DEF OnlyMade, ExitStep
  <1>4. CASE DispatchStep
    <2>1. \A k \in DOMAIN inbox' : k + 1 \in DOMAIN inbox /\ inbox'[k] = inbox[k + 1]
      BY <1>4, DispatchFacts
    <2>2. 1 \in DOMAIN inbox
      BY <1>4, DispatchFacts
    <2>3. Held' \subseteq Made'
      BY <1>4, <2>2, DispatchFacts DEF OnlyMade
    <2> QED
      BY <1>4, <2>1, <2>3 DEF OnlyMade, DispatchStep
  <1>5. CASE SendStep
    <2>1. \A i \in DOMAIN captured' : i \in DOMAIN captured \/ i = Len(captured) + 1
      BY <1>5, SendFacts
    <2> QED
      BY <1>5, <2>1, SendFacts DEF OnlyMade, SendStep
  <1> QED
    BY <1>1, <1>2, <1>3, <1>4, <1>5, FormOfStep

LEMMA SourcesTyped ==
    ASSUME TypeOK
    PROVE  \A n \in Made : offered[n].source \in Source
  <1> DEFINE Selected == [text : Text, source : Source]
  <1>1. offered \in Seq(Selected)
    BY DEF TypeOK
  <1>2. \A n \in 1 .. Len(offered) : offered[n] \in Selected
    <2> HIDE DEF Selected
    <2> QED
      BY <1>1
  <1>3. \A selected \in Selected : selected.source \in Source
    OBVIOUS
  <1> QED
    BY <1>2, <1>3 DEF Made

LEMMA SupersededKept ==
    ASSUME TypeOK, OnlyMade, Superseded, [Next]_vars
    PROVE  Superseded'
  <1> USE Numbers
  <1> DEFINE ReplacedNext(n) == selection'[offered'[n].source] # n
             HeldPart ==
                \A n \in Held', k \in DOMAIN inbox' :
                   inbox'[k].type = EventType(offered'[n].source) => ReplacedNext(n)
             InboxPart ==
                \A j, k \in DOMAIN inbox' :
                   /\ j < k /\ inbox'[j].id # 0
                   /\ inbox'[k].type = EventType(offered'[inbox'[j].id].source)
                   => ReplacedNext(inbox'[j].id)
  <1> SUFFICES HeldPart /\ InboxPart
    BY DEF Superseded, IsSelected, EventType, SelectionEvent
  <1>0. \A n \in Made : offered[n].source \in Source
    BY SourcesTyped
  <1>1. CASE QuietStep
    BY <1>1 DEF QuietStep, Superseded, IsSelected
  <1>2. ASSUME NEW source \in Source, SelectStep(source)
        PROVE  HeldPart /\ InboxPart
    <2>1. \A k \in DOMAIN inbox' : k \in DOMAIN inbox \/ k = Len(inbox) + 1
      BY <1>2, SelectFacts DEF TypeOK
    <2>2. ASSUME NEW n \in Made,
                 ~IsSelected(n) \/ EventType(source) = EventType(offered[n].source)
          PROVE  ReplacedNext(n)
      <3>1. offered[n].source \in Source /\ n # Len(offered) + 1
        BY <1>0, <1>2, SelectFacts DEF Made
      <3>2. EventType(source) = EventType(offered[n].source) => offered[n].source = source
        BY <3>1 DEF EventType, SelectionEvent, Source
      <3> QED
        BY <1>2, <2>2, <3>1, <3>2, SelectFacts DEF IsSelected, TypeOK
    <2>3. HeldPart
      <3> SUFFICES ASSUME NEW n \in Held', NEW k \in DOMAIN inbox',
                          inbox'[k].type = EventType(offered'[n].source)
                   PROVE  ReplacedNext(n)
        OBVIOUS
      <3>1. n \in Held /\ n \in Made /\ offered'[n] = offered[n]
        BY <1>2, SelectFacts DEF OnlyMade
      <3>2. CASE k \in DOMAIN inbox
        <4>1. inbox[k].type = EventType(offered[n].source)
          BY <1>2, <3>1, <3>2, SelectFacts
        <4>2. ~IsSelected(n)
          BY <3>1, <3>2, <4>1 DEF Superseded
        <4> QED
          BY <2>2, <3>1, <4>2
      <3>3. CASE k = Len(inbox) + 1
        <4>1. EventType(source) = EventType(offered[n].source)
          BY <1>2, <3>1, <3>3, SelectFacts
        <4> QED
          BY <2>2, <3>1, <4>1
      <3> QED
        BY <2>1, <3>2, <3>3
    <2>4. InboxPart
      <3> SUFFICES ASSUME NEW j \in DOMAIN inbox', NEW k \in DOMAIN inbox', j < k,
                          inbox'[j].id # 0,
                          inbox'[k].type = EventType(offered'[inbox'[j].id].source)
                   PROVE  ReplacedNext(inbox'[j].id)
        OBVIOUS
      <3>1. j \in DOMAIN inbox /\ inbox'[j] = inbox[j]
        BY <1>2, <2>1, SelectFacts DEF TypeOK
      <3>2. inbox[j].id \in Made /\ offered'[inbox[j].id] = offered[inbox[j].id]
        BY <1>2, <3>1, SelectFacts DEF OnlyMade
      <3>3. CASE k \in DOMAIN inbox
        <4>1. inbox[k].type = EventType(offered[inbox[j].id].source) /\ inbox[j].id # 0
          BY <1>2, <3>1, <3>2, <3>3, SelectFacts
        <4>2. ~IsSelected(inbox[j].id)
          BY <3>1, <3>3, <4>1 DEF Superseded
        <4> QED
          BY <2>2, <3>1, <3>2, <4>2
      <3>4. CASE k = Len(inbox) + 1
        <4>1. EventType(source) = EventType(offered[inbox[j].id].source)
          BY <1>2, <3>1, <3>2, <3>4, SelectFacts
        <4> QED
          BY <2>2, <3>1, <3>2, <4>1
      <3> QED
        BY <2>1, <3>3, <3>4
    <2> QED
      BY <2>3, <2>4
  <1>3. ASSUME NEW source \in Source, ExitStep(source)
        PROVE  HeldPart /\ InboxPart
    <2>1. \A k \in DOMAIN inbox' : k \in DOMAIN inbox \/ k = Len(inbox) + 1
      BY <1>3, ExitFacts
    <2>2. offered' = offered
      BY <1>3 DEF ExitStep
    <2>3. ASSUME NEW n \in Made,
                 ~IsSelected(n) \/ EventType(source) = EventType(offered[n].source)
          PROVE  ReplacedNext(n)
      <3>1. EventType(source) = EventType(offered[n].source) => offered[n].source = source
        BY <1>0 DEF EventType, SelectionEvent, Source
      <3> QED
        BY <1>0, <1>3, <2>2, <2>3, <3>1 DEF ExitStep, IsSelected, TypeOK
    <2>4. HeldPart
      BY <1>3, <2>1, <2>2, <2>3, ExitFacts DEF Superseded, OnlyMade
    <2>5. InboxPart
      <3> SUFFICES ASSUME NEW j \in DOMAIN inbox', NEW k \in DOMAIN inbox', j < k,
                          inbox'[j].id # 0,
                          inbox'[k].type = EventType(offered[inbox'[j].id].source)
                   PROVE  ReplacedNext(inbox'[j].id)
        BY <2>2
      <3>1. j \in DOMAIN inbox /\ inbox'[j] = inbox[j] /\ inbox[j].id \in Made
        BY <1>3, <2>1, ExitFacts DEF OnlyMade
      <3> QED
        BY <1>3, <2>1, <2>3, <3>1, ExitFacts DEF Superseded
    <2> QED
      BY <2>4, <2>5
  <1>4. CASE DispatchStep
    <2>1. \A k \in DOMAIN inbox' : k + 1 \in DOMAIN inbox /\ inbox'[k] = inbox[k + 1] /\ 1 < k + 1
      BY <1>4, DispatchFacts
    <2>2. 1 \in DOMAIN inbox /\ \A n \in Held' : n \in Held \/ (n = inbox[1].id /\ n # 0)
      BY <1>4, DispatchFacts
    <2>3. offered' = offered /\ selection' = selection
      BY <1>4 DEF DispatchStep
    <2>4. \A n : ReplacedNext(n) <=> ~IsSelected(n)
      BY <2>3 DEF IsSelected
    <2>5. HeldPart
      BY <2>1, <2>2, <2>3, <2>4 DEF Superseded
    <2>6. InboxPart
      <3>1. \A j, k \in DOMAIN inbox' : j < k => j + 1 < k + 1
        BY <1>4, DispatchFacts
      <3> QED
        BY <2>1, <2>3, <2>4, <3>1 DEF Superseded
    <2> QED
      BY <2>5, <2>6
  <1>5. CASE SendStep
    BY <1>5, SendFacts DEF SendStep, Superseded, IsSelected
  <1> QED
    BY <1>1, <1>2, <1>3, <1>4, <1>5, FormOfStep

LEMMA GuardKept ==
    ASSUME TypeOK, GuardFollowsWrite, [Next]_vars
    PROVE  GuardFollowsWrite'
  <1> USE MadeGrows DEF GuardFollowsWrite, SeenWriteDisarms, Running
  <1>1. CASE UNCHANGED guard
    BY <1>1 DEF guard, TextOf
  <1>2. CASE \E text \in Writable : BeginWrite(text)
    BY <1>2 DEF BeginWrite
  <1>3. CASE WlCopySelects
    <2>1. /\ write' = [at |-> "selected", offer |-> Len(offered')] /\ armed' = armed
          /\ Select(write.text, "Clipboard")
      BY <1>3 DEF WlCopySelects
    <2>2. offered' = Append(offered, [text |-> write.text, source |-> "Clipboard"])
      BY <2>1 DEF Select
    <2>3. Len(offered) \in Nat /\ Len(offered') = Len(offered) + 1
      BY <2>2 DEF TypeOK
    <2>4. Len(offered') \in Made' /\ offered'[Len(offered')].text = write.text
      BY <2>2, <2>3 DEF Made, TypeOK
    <2> QED
      BY <1>3, <2>1, <2>4 DEF WlCopySelects, TextOf
  <1>4. CASE WlCopyFails
    BY <1>4 DEF WlCopyFails
  <1>5. CASE GuardExpires
    BY <1>5 DEF GuardExpires, TextOf, compositor
  <1>6. CASE Suppress \/ Capture
    <2> DEFINE WholeWrite == /\ write.at = "selected" /\ write.offer = thread.selected.offer
                             /\ thread.read = TextOf(write.offer)
    <2>1. offered' = offered
      BY <1>6 DEF Suppress, Capture, compositor
    <2>2. CASE WholeWrite
      <3>1. write'.at = "seen" /\ write'.offer = write.offer
        <4>1. write \in [at : {"selected", "seen"}, offer : Offer]
          BY <2>2 DEF TypeOK, Write, NoWrite
        <4> QED
          BY <1>6, <2>2, <4>1 DEF Suppress, Capture, NoteSeen
      <3>2. armed' = None
        BY <1>6, <2>2 DEF Suppress, Capture, AfterSuppressing
      <3> QED
        BY <2>2, <3>1, <3>2
    <2>3. CASE ~WholeWrite
      <3>1. write' = write /\ armed' \in {armed, None}
        BY <1>6, <2>3 DEF Suppress, Capture, NoteSeen, AfterSuppressing
      <3> QED
        BY <2>1, <3>1 DEF TextOf
    <2> QED
      BY <2>2, <2>3
  <1>7. UNCHANGED guard \/ (\E text \in Writable : BeginWrite(text)) \/ WlCopySelects
          \/ WlCopyFails \/ GuardExpires \/ Suppress \/ Capture
    BY DEF Next, World, UserSelects, OwnerExits, SetWatchPrimary, Dispatching, OnSelection,
           OnPrimarySelection, Dispatch, Ripen, Reader, BeginRead, ReadTimesOut, RejectGarbled,
           Send, OwnerAnswers, Ingest, vars
  <1> QED
    BY <1>1, <1>2, <1>3, <1>4, <1>5, <1>6, <1>7

-----------------------------------------------------------------------------
\* The strengthened invariant holds initially and is kept by every step.
LEMMA InvariantHolds == Spec => []IInv
  <1>1. Init => IInv
    <2> SUFFICES ASSUME Init
                 PROVE  IInv
      OBVIOUS
    <2>1. TypeOK
      BY MonitorAssumption DEF Init, TypeOK, Thread, Write
    <2>2. Held = {} /\ inbox = <<>> /\ captured = <<>> /\ thread = Looping
      BY DEF Init, Held
    <2>3. OnlyMade /\ InLine /\ Superseded
      BY <2>2 DEF OnlyMade, InLine, CapturedInOrder, Superseded
    <2>4. GuardFollowsWrite
      BY DEF Init, GuardFollowsWrite, SeenWriteDisarms, Running, NoWrite
    <2> QED
      BY <2>1, <2>3, <2>4 DEF IInv
  <1>2. IInv /\ [Next]_vars => IInv'
    BY TypeKept, OnlyMadeKept, InLineKept, SupersededKept, GuardKept DEF IInv
  <1> QED
    BY <1>1, <1>2, PTL DEF Spec

\* The thread and its channel keep their types: no more than ChannelCap
\* selections wait for the ingest loop, however slowly it takes them.
THEOREM TypeCorrect == Spec => []TypeOK
  <1>1. IInv => TypeOK
    BY DEF IInv
  <1> QED
    BY <1>1, InvariantHolds, PTL

\* Selections reach the history in the order they were made and at most once.
THEOREM CapturesAreInOrder == Spec => []CapturedInOrder
  <1>1. IInv => CapturedInOrder
    BY DEF IInv, InLine
  <1> QED
    BY <1>1, InvariantHolds, PTL

\* The guard is disarmed once the thread has read all of what wl-copy selected;
\* only a read that ended with a part of it leaves the guard to its window.
THEOREM SeenWritesDisarm == Spec => []SeenWriteDisarms
  <1>1. IInv => SeenWriteDisarms
    BY DEF IInv, GuardFollowsWrite
  <1> QED
    BY <1>1, InvariantHolds, PTL

\* The thread lets go of a selection the user has not replaced only with a
\* result or because its slot was taken.
THEOREM ForgettingNeedsTheft == Spec => OnlySlotTheftForgets
  <1> DEFINE Excused(n) ==
        \/ ~IsSelected(n)
        \/ Suppress \/ RejectGarbled \/ Send
        \/ offered[n].source = "Clipboard" /\ OnPrimarySelection
        \/ offered[n].source = "Primary" /\ OnSelection
        \/ ReadTimesOut /\ thread.selected.offer < n
  <1>1. IInv /\ [Next]_vars => [\A n \in Held \ Held' : Excused(n)]_vars
    <2> SUFFICES ASSUME IInv, [Next]_vars, NEW n \in Held, n \notin Held'
                 PROVE  Excused(n)
      OBVIOUS
    <2> USE ThreadFacts, Numbers DEF IInv
    <2>1. CASE OnSelection \/ OnPrimarySelection
      <3>1. inbox # <<>> /\ Head(inbox) = inbox[1] /\ 1 \in DOMAIN inbox
        BY <2>1 DEF OnSelection, OnPrimarySelection, Dispatch, TypeOK
      <3>2. offered[n].source \in Source
        BY SourcesTyped DEF OnlyMade
      <3>3. CASE OnSelection /\ offered[n].source = "Clipboard"
        <4>1. inbox[1].type = EventType(offered[n].source)
          BY <3>1, <3>3 DEF OnSelection, Dispatch, EventType, SelectionEvent
        <4> QED
          BY <3>1, <4>1 DEF Superseded
      <3>4. CASE OnPrimarySelection /\ offered[n].source = "Primary"
        <4>1. inbox[1].type = EventType(offered[n].source)
          BY <3>1, <3>4 DEF OnPrimarySelection, Dispatch, EventType, SelectionEvent
        <4> QED
          BY <3>1, <4>1 DEF Superseded
      <3> QED
        BY <2>1, <3>2, <3>3, <3>4 DEF Source
    <2>2. CASE ReadTimesOut
      <3>1. thread # Looping /\ pending' = thread.selected /\ thread' = Looping
        BY <2>2 DEF ReadTimesOut, Reading
      <3>2. thread.selected.offer \in Held'
        BY <3>1 DEF Held
      <3>3. pending # None /\ n = pending.offer
        BY <3>1, <3>2 DEF Held
      <3> QED
        BY <2>2, <3>1, <3>3 DEF InLine
    <2>3. CASE Capture
      BY <2>3 DEF Capture, Held, Looping, Reading
    <2>4. CASE Ripen
      BY <2>4 DEF Ripen, Held, PendingSelection
    <2>5. CASE BeginRead
      BY <2>5 DEF BeginRead, Held, Looping
    <2>6. CASE OwnerAnswers
      <3>1. thread \in [at : {"reading"}, selected : PendingSelection, read : Text \cup {None}]
        BY <2>6 DEF OwnerAnswers, Reading, TypeOK, Thread, Looping
      <3>2. thread'.at = "reading" /\ thread'.selected = thread.selected
        BY <2>6, <3>1 DEF OwnerAnswers
      <3> QED
        BY <2>6, <3>2 DEF OwnerAnswers, Reading, Held, Looping
    <2>7. CASE World \/ Ingest \/ UNCHANGED vars
      <3>1. UNCHANGED <<pending, thread>>
        BY <2>7
           DEF World, UserSelects, OwnerExits, BeginWrite, WlCopySelects, WlCopyFails,
               GuardExpires, SetWatchPrimary, Ingest, vars
      <3> QED
        BY <3>1 DEF Held
    <2> QED
      BY <2>1, <2>2, <2>3, <2>4, <2>5, <2>6, <2>7 DEF Next, Dispatching, Reader
  <1> QED
    BY <1>1, InvariantHolds, PTL DEF Spec, OnlySlotTheftForgets
=============================================================================
