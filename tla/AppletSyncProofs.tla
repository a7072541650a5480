-------------------------- MODULE AppletSyncProofs --------------------------
(***************************************************************************)
(* Theorems about AppletSync, for every set of indices, any number of      *)
(* operations and any capacities of the channels.                          *)
(***************************************************************************)
EXTENDS AppletSync, SequenceTheorems, WellFoundedInduction, TLAPS

-----------------------------------------------------------------------------
(* Sequences, and the least-number principle.                              *)

\* A non-empty set of naturals has a least element.
LEMMA LeastNatural ==
    ASSUME NEW T \in SUBSET Nat, T # {}
    PROVE  \E k \in T : \A j \in T : k <= j
  <1>1. PICK k \in T : \A j \in T : <<j, k>> \notin OpToRel(<, Nat)
    BY WFMin, NatLessThanWellFounded
  <1>2. \A j \in T : ~ (j < k)
    BY <1>1 DEF OpToRel
  <1> QED
    BY <1>2

\* An element more, at the end.
LEMMA AppendFacts ==
    ASSUME NEW S, NEW seq \in Seq(S), NEW elt \in S, NEW longer, longer = Append(seq, elt)
    PROVE  /\ Len(seq) \in Nat /\ DOMAIN seq = 1 .. Len(seq)
           /\ DOMAIN longer = 1 .. Len(seq) + 1 /\ longer[Len(seq) + 1] = elt
           /\ \A k \in DOMAIN seq : k \in DOMAIN longer /\ longer[k] = seq[k]
           /\ \A k \in DOMAIN longer : k \in DOMAIN seq \/ k = Len(seq) + 1
  OBVIOUS

\* An element less, at the front.
LEMMA TailFacts ==
    ASSUME NEW S, NEW seq \in Seq(S), seq # <<>>, NEW rest, rest = Tail(seq)
    PROVE  /\ Len(seq) \in Nat /\ DOMAIN seq = 1 .. Len(seq)
           /\ 1 \in DOMAIN seq /\ Head(seq) = seq[1] /\ Head(seq) \in S
           /\ DOMAIN rest = 1 .. Len(seq) - 1
           /\ \A k \in DOMAIN rest : k + 1 \in DOMAIN seq /\ rest[k] = seq[k + 1]
           /\ \A k \in DOMAIN seq : k > 1 => k - 1 \in DOMAIN rest /\ rest[k - 1] = seq[k]
  OBVIOUS

LEMMA InTail ==
    ASSUME NEW S, NEW seq \in Seq(S), seq # <<>>, NEW elt
    PROVE  elt \in ToSet(seq) => elt = Head(seq) \/ (elt \in ToSet(Tail(seq)) /\ Len(seq) # 1)
  <1> DEFINE rest == Tail(seq)
  <1>1. /\ DOMAIN seq = 1 .. Len(seq) /\ Len(seq) \in Nat /\ Head(seq) = seq[1]
        /\ \A k \in DOMAIN seq : k > 1 => k - 1 \in DOMAIN rest /\ rest[k - 1] = seq[k]
    BY TailFacts
  <1> HIDE DEF rest
  <1>2. ASSUME NEW k \in DOMAIN seq, seq[k] # Head(seq)
        PROVE  seq[k] \in ToSet(rest) /\ Len(seq) # 1
    <2>1. k > 1 /\ Len(seq) # 1
      BY <1>1, <1>2
    <2>2. k - 1 \in DOMAIN rest /\ rest[k - 1] = seq[k]
      BY <1>1, <2>1
    <2> QED
      BY <2>1, <2>2 DEF ToSet
  <1> QED
    BY <1>2 DEF ToSet, rest

LEMMA InAppend ==
    ASSUME NEW S, NEW seq \in Seq(S), NEW elt \in S
    PROVE  elt \in ToSet(Append(seq, elt)) /\ ToSet(seq) \subseteq ToSet(Append(seq, elt))
  <1> DEFINE longer == Append(seq, elt)
  <1>1. /\ Len(seq) \in Nat /\ DOMAIN longer = 1 .. Len(seq) + 1 /\ longer[Len(seq) + 1] = elt
        /\ \A k \in DOMAIN seq : k \in DOMAIN longer /\ longer[k] = seq[k]
    BY AppendFacts
  <1> HIDE DEF longer
  <1>2. Len(seq) + 1 \in DOMAIN longer
    BY <1>1
  <1>3. elt \in ToSet(longer) /\ ToSet(seq) \subseteq ToSet(longer)
    BY <1>1, <1>2 DEF ToSet
  <1> QED
    BY <1>3 DEF longer

\* The last of a sequence's elements that are in T.
LastIn(seq, T, elt) ==
    /\ elt \in T
    /\ \E k \in DOMAIN seq : seq[k] = elt /\ \A j \in DOMAIN seq : j > k => seq[j] \notin T

NoneIn(seq, T) == \A k \in DOMAIN seq : seq[k] \notin T

\* A sequence with elements in T has a last one.
LEMMA LastExists ==
    ASSUME NEW S, NEW seq \in Seq(S), NEW T, ~NoneIn(seq, T)
    PROVE  \E last \in T : LastIn(seq, T, last)
  <1> DEFINE n == Len(seq)
             Left == {m \in 0 .. n : n - m \in DOMAIN seq /\ seq[n - m] \in T}
  <1>0. n \in Nat /\ DOMAIN seq = 1 .. n
    OBVIOUS
  <1> HIDE DEF n
  <1>1. PICK i \in DOMAIN seq : seq[i] \in T
    BY DEF NoneIn
  <1>2. n - i \in 0 .. n /\ n - (n - i) = i
    BY <1>0
  <1>3. n - i \in Left
    BY <1>1, <1>2
  <1>4. PICK m \in Left : \A j \in Left : m <= j
    <2>1. Left \in SUBSET Nat /\ Left # {}
      BY <1>0, <1>3
    <2> HIDE DEF Left
    <2> QED
      BY <2>1, LeastNatural
  <1> DEFINE k == n - m
  <1>5. k \in DOMAIN seq /\ seq[k] \in T
    BY <1>4
  <1>6. ASSUME NEW j \in DOMAIN seq, j > k, seq[j] \in T
        PROVE  FALSE
    <2>1. n - j \in 0 .. n /\ n - (n - j) = j
      BY <1>0
    <2>2. n - j \in Left
      BY <1>6, <2>1
    <2>3. m <= n - j
      BY <1>4, <2>2
    <2>4. m \in Nat /\ j \in Nat
      BY <1>0
    <2> QED
      BY <1>0, <1>6, <2>3, <2>4
  <1> HIDE DEF k
  <1> QED
    BY <1>5, <1>6 DEF LastIn

\* An element appended is the last one, or changes nothing.
LEMMA AppendLast ==
    ASSUME NEW S, NEW seq \in Seq(S), NEW elt \in S, NEW T
    PROVE  /\ elt \in T => LastIn(Append(seq, elt), T, elt)
           /\ elt \notin T =>
                 /\ \A last : LastIn(seq, T, last) => LastIn(Append(seq, elt), T, last)
                 /\ NoneIn(seq, T) => NoneIn(Append(seq, elt), T)
  <1> DEFINE longer == Append(seq, elt)
  <1>1. /\ Len(seq) \in Nat /\ DOMAIN seq = 1 .. Len(seq)
        /\ DOMAIN longer = 1 .. Len(seq) + 1
        /\ longer[Len(seq) + 1] = elt
        /\ \A k \in DOMAIN seq : longer[k] = seq[k]
    OBVIOUS
  <1> HIDE DEF longer
  <1>2. elt \in T => LastIn(longer, T, elt)
    BY <1>1 DEF LastIn
  <1>3. \A k \in DOMAIN longer : k \in DOMAIN seq \/ k = Len(seq) + 1
    BY <1>1
  <1>4. ASSUME elt \notin T, NEW last, LastIn(seq, T, last)
        PROVE  LastIn(longer, T, last)
    <2>1. PICK k \in DOMAIN seq : seq[k] = last /\ \A j \in DOMAIN seq : j > k => seq[j] \notin T
      BY <1>4 DEF LastIn
    <2>2. k \in DOMAIN longer /\ longer[k] = last
      BY <1>1, <2>1
    <2>3. \A j \in DOMAIN longer : j > k => longer[j] \notin T
      BY <1>1, <1>3, <1>4, <2>1
    <2> QED
      BY <1>4, <2>2, <2>3 DEF LastIn
  <1>5. elt \notin T /\ NoneIn(seq, T) => NoneIn(longer, T)
    BY <1>1, <1>3 DEF NoneIn
  <1> QED
    BY <1>2, <1>4, <1>5 DEF longer

\* Without its head a sequence ends as before, or the head was the last one.
LEMMA TailLast ==
    ASSUME NEW S, NEW seq \in Seq(S), seq # <<>>, NEW T
    PROVE  /\ \A last : LastIn(seq, T, last) =>
                 \/ LastIn(Tail(seq), T, last)
                 \/ (last = Head(seq) /\ last \in T /\ NoneIn(Tail(seq), T))
           /\ NoneIn(seq, T) => NoneIn(Tail(seq), T) /\ Head(seq) \notin T
  <1> DEFINE rest == Tail(seq)
  <1>1. /\ Len(seq) \in Nat /\ Len(seq) >= 1 /\ DOMAIN seq = 1 .. Len(seq)
        /\ DOMAIN rest = 1 .. Len(seq) - 1
        /\ \A k \in DOMAIN rest : rest[k] = seq[k + 1]
        /\ Head(seq) = seq[1]
    OBVIOUS
  <1> HIDE DEF rest
  <1>2. \A k \in DOMAIN rest : k + 1 \in DOMAIN seq /\ k + 1 > 1
    BY <1>1
  <1>3. ASSUME NEW last, LastIn(seq, T, last)
        PROVE  LastIn(rest, T, last) \/ (last = Head(seq) /\ last \in T /\ NoneIn(rest, T))
    <2>1. PICK k \in DOMAIN seq : seq[k] = last /\ \A j \in DOMAIN seq : j > k => seq[j] \notin T
      BY <1>3 DEF LastIn
    <2>2. CASE k = 1
      BY <1>1, <1>2, <1>3, <2>1, <2>2 DEF LastIn, NoneIn
    <2>3. CASE k # 1
      <3> DEFINE m == k - 1
      <3>1. m \in DOMAIN rest /\ rest[m] = last
        BY <1>1, <2>1, <2>3
      <3>2. \A j \in DOMAIN rest : j > m => j + 1 > k
        BY <1>1
      <3>3. \A j \in DOMAIN rest : j > m => rest[j] \notin T
        BY <1>1, <1>2, <2>1, <3>2
      <3>4. last \in T
        BY <1>3 DEF LastIn
      <3> HIDE DEF m
      <3> QED
        BY <3>1, <3>3, <3>4 DEF LastIn
    <2> QED
      BY <2>2, <2>3
  <1>4. NoneIn(seq, T) => NoneIn(rest, T) /\ Head(seq) \notin T
    BY <1>1, <1>2 DEF NoneIn
  <1> QED
    BY <1>3, <1>4 DEF rest

-----------------------------------------------------------------------------
(* The parts of the invariant.                                             *)

\* A call has something to announce, and reads the index last.
ReadsLast(todo) ==
    /\ todo # <<>>
    /\ \A k \in DOMAIN todo : todo[k] = ReadActiveIndex => k = Len(todo)

TodoShape == call # NoCall => ReadsLast(call.todo)

UpdateComing == InCall(Update) \/ Update \in ToSet(signals) \/ Update \in ToSet(wire)

\* A list the listener has read is the daemon's, unless an Update tells it, once
\* more, or it has missed a change.
FetchedListFresh ==
    Fetching \in {"get_active_index", "done"} =>
        missed.history \/ UpdateComing \/ listener.fetch.history = history

RefreshedEvents == {event \in Event : event.event = "Refreshed"}

\* The list the user interface shows once it has handled its events.
ShownAtLast(h) ==
    \/ \E event \in RefreshedEvents :
          LastIn(ui, RefreshedEvents, event) /\ event.history = h
    \/ NoneIn(ui, RefreshedEvents) /\ shown.history = h

ListFreshAtLast ==
    \/ missed.history \/ UpdateComing
    \/ Fetching \in {"get_history", "backoff"}
    \/ Fetching \in {"get_active_index", "done"} /\ listener.fetch.history = history
    \/ ShownAtLast(history)

\* A Disconnected on its way is followed by a Refreshed, or the listener is
\* not connected.
DisconnectsHeal ==
    \A k \in DOMAIN ui :
        ui[k].event = "Disconnected" =>
            Fetching # "none" \/ \E j \in DOMAIN ui : j > k /\ ui[j].event = "Refreshed"

IndexEvents == {event \in Event : event.event # "Disconnected"}

IndexSignals == {ActiveIndexChanged(i) : i \in Index}

\* An index that a call will announce, or the emitter.
IndexComing ==
    \/ call # NoCall /\ ~(ToSet(call.todo) \subseteq {Update, EmptyHistory})
    \/ ~NoneIn(signals, IndexSignals)

\* The index the user interface shows once it has handled its events, and
\* then what the listener has read, and what it has been sent.
UiEndsAt(i) ==
    \/ \E event \in IndexEvents : LastIn(ui, IndexEvents, event) /\ event.active_index = i
    \/ NoneIn(ui, IndexEvents) /\ shown.active_index = i

FetchEndsAt(i) ==
    IF Fetching = "done" THEN listener.fetch.active_index = i ELSE UiEndsAt(i)

LineEndsAt(i) ==
    \/ LastIn(wire, IndexSignals, ActiveIndexChanged(i))
    \/ NoneIn(wire, IndexSignals) /\ FetchEndsAt(i)

IndexRightAtLast ==
    \/ missed.index \/ clicked # None \/ IndexComing
    \/ Fetching \in {"get_history", "get_active_index", "backoff"}
    \/ LineEndsAt(active)

Kept == TypeOK /\ TodoShape

IInv ==
    /\ Kept /\ FetchedListFresh /\ ListFreshAtLast
    /\ UnreachableMeansIt /\ DisconnectsHeal /\ IndexRightAtLast

-----------------------------------------------------------------------------
(* Types.                                                                  *)

\* The messages are told apart by their members.
LEMMA SignalFacts ==
    /\ Update \in Signal /\ EmptyHistory \in Signal
    /\ \A i \in Index : ActiveIndexChanged(i) \in Signal
    /\ ReadActiveIndex \notin Signal
    /\ Update # ReadActiveIndex /\ EmptyHistory # ReadActiveIndex /\ Update # EmptyHistory
    /\ \A i : /\ ActiveIndexChanged(i) # Update /\ ActiveIndexChanged(i) # EmptyHistory
              /\ ActiveIndexChanged(i) # ReadActiveIndex
              /\ ActiveIndexChanged(i).member = "ActiveIndexChanged"
              /\ ActiveIndexChanged(i).index = i
    /\ Update.member = "Update" /\ EmptyHistory.member = "EmptyHistory"
    /\ \A signal \in Signal :
          signal.member = "ActiveIndexChanged" =>
              signal \in IndexSignals /\ signal.index \in Index
    /\ \A signal \in IndexSignals :
          signal.member = "ActiveIndexChanged" /\ signal = ActiveIndexChanged(signal.index)
    /\ Update \notin IndexSignals /\ EmptyHistory \notin IndexSignals
  <1>1. /\ Update.member = "Update" /\ EmptyHistory.member = "EmptyHistory"
        /\ ReadActiveIndex.member = "ReadActiveIndex"
        /\ \A i : /\ ActiveIndexChanged(i).member = "ActiveIndexChanged"
                  /\ ActiveIndexChanged(i).index = i
    BY DEF Update, EmptyHistory, ActiveIndexChanged, ReadActiveIndex
  <1> QED
    BY <1>1 DEF Signal, IndexSignals

Todo == Signal \cup {ReadActiveIndex}

\* A call about to be announced.
LEMMA CallFacts ==
    ASSUME Kept
    PROVE  /\ call # NoCall => /\ call.at \in {"writing", "announcing"}
                               /\ call.todo \in Seq(Todo) /\ call.todo # <<>>
           /\ call.at \in {"writing", "announcing"} => call # NoCall
           /\ call = NoCall => call.at = "idle"
  <1>1. call = NoCall \/ call \in [at : {"writing", "announcing"}, todo : Seq(Todo)]
    BY DEF Kept, TypeOK, Call, Todo
  <1>2. call # NoCall => ReadsLast(call.todo)
    BY DEF Kept, TodoShape
  <1>3. NoCall.at = "idle"
    BY DEF NoCall
  <1> QED
    BY <1>1, <1>2, <1>3 DEF ReadsLast

LEMMA NewCallTyped ==
    ASSUME NEW at \in {"writing", "announcing"}, NEW todo \in Seq(Todo)
    PROVE  [at |-> at, todo |-> todo] \in Call
  BY DEF Call, Todo

\* The operations of the daemon.
LEMMA OperateTyped ==
    ASSUME TypeOK, NEW i \in Index, NEW keeps \in BOOLEAN, Operate(i, keeps)
    PROVE  up' \in BOOLEAN /\ ops' \in History /\ history' \in History /\ active' \in Index
  <1>1. ops' \in History
    BY SyncAssumption DEF Operate, TypeOK, History
  <1> QED
    BY <1>1 DEF Operate, TypeOK

LEMMA DaemonKept ==
    ASSUME Kept, [Next]_vars
    PROVE  up' \in BOOLEAN /\ ops' \in History /\ history' \in History /\ active' \in Index
  <1> USE SyncAssumption, OperateTyped DEF Kept
  <1>0. active \in Index /\ TypeOK
    BY DEF TypeOK
  <1>1. CASE Add \/ SetActiveIndex \/ Delete \/ Empty
    BY <1>0, <1>1 DEF Add, SetActiveIndex, Delete, Empty, Handle
  <1>2. CASE SelectAtOffset \/ Select
    BY <1>0, <1>2 DEF SelectAtOffset, Select, Choose
  <1>3. CASE SelectAtIndex
    <2>1. clicked \in Index
      BY <1>3 DEF SelectAtIndex, TypeOK
    <2> QED
      BY <1>0, <1>3, <2>1 DEF SelectAtIndex, Choose
  <1>4. CASE Reload \/ Ingest
    BY <1>0, <1>4 DEF Reload, Ingest
  <1>5. CASE GiveUp
    BY <1>0, <1>5 DEF GiveUp, daemon, TypeOK
  <1>6. CASE DaemonExits
    BY <1>6 DEF DaemonExits, TypeOK
  <1>7. CASE DaemonStarts
    <2>1. ops' \in History
      BY <1>7 DEF DaemonStarts, TypeOK, History
    <2> QED
      BY <1>7, <2>1 DEF DaemonStarts
  <1>8. CASE UNCHANGED daemon
    BY <1>8 DEF daemon, TypeOK
  <1> QED
    BY <1>1, <1>2, <1>3, <1>4, <1>5, <1>6, <1>7, <1>8
    DEF Next, Operations, RefuseClick, Announcing, Written, Announce, AnnounceFails,
        ReadActive, EmitSignal, EmitFails, Listening, ListenerGetsHistory, ListenerGetsActiveIndex, ListenerRefreshes, Subscribe,
        ListenerTakes, ListenerFails, Reconnect, Interface, BootGets, BootShows, BootFails,
        UpdateApp, SelectIndex, vars

\* What the handlers have to announce.
LEMMA TodoOfOne ==
    ASSUME NEW first \in Todo
    PROVE  <<first>> \in Seq(Todo) /\ ReadsLast(<<first>>)
  BY DEF ReadsLast

LEMMA TodoOfTwo ==
    ASSUME NEW first \in Signal, NEW second \in Todo
    PROVE  <<first, second>> \in Seq(Todo) /\ ReadsLast(<<first, second>>)
  <1> DEFINE todo == <<first, second>>
  <1>1. /\ Len(todo) = 2 /\ DOMAIN todo = 1 .. 2 /\ todo[1] = first
        /\ todo \in Seq(Todo) /\ todo # <<>>
    BY DEF Todo
  <1>2. first # ReadActiveIndex
    BY SignalFacts
  <1> HIDE DEF todo
  <1>3. \A k \in DOMAIN todo : k = 1 \/ k = 2
    BY <1>1
  <1>4. ReadsLast(todo)
    BY <1>1, <1>2, <1>3 DEF ReadsLast
  <1> QED
    BY <1>1, <1>4 DEF todo

LEMMA TodoTail ==
    ASSUME NEW todo \in Seq(Todo), ReadsLast(todo), Len(todo) # 1
    PROVE  Tail(todo) \in Seq(Todo) /\ ReadsLast(Tail(todo)) /\ Head(todo) # ReadActiveIndex
  <1> DEFINE rest == Tail(todo)
  <1>0. todo # <<>>
    BY DEF ReadsLast
  <1>a. Len(todo) \in Nat /\ Len(todo) > 1 /\ DOMAIN todo = 1 .. Len(todo)
    <2> HIDE DEF Todo
    <2>1. Len(todo) \in Nat /\ DOMAIN todo = 1 .. Len(todo) /\ Len(todo) # 0
      BY <1>0
    <2> QED
      BY <2>1
  <1>b. /\ rest \in Seq(Todo) /\ Len(rest) = Len(todo) - 1 /\ Head(todo) = todo[1]
        /\ DOMAIN rest = 1 .. Len(rest)
        /\ \A k \in 1 .. Len(rest) : rest[k] = todo[k + 1]
    BY <1>0, <1>a
  <1>1. /\ Len(todo) \in Nat /\ Len(todo) > 1 /\ DOMAIN todo = 1 .. Len(todo)
        /\ rest \in Seq(Todo) /\ rest # <<>> /\ Len(rest) = Len(todo) - 1
        /\ DOMAIN rest = 1 .. Len(todo) - 1
        /\ \A k \in DOMAIN rest : rest[k] = todo[k + 1]
        /\ Head(todo) = todo[1]
    <2> HIDE DEF rest
    <2>1. Len(rest) = Len(todo) - 1 /\ Len(rest) # 0
      BY <1>a, <1>b
    <2>2. rest # <<>>
      BY <2>1
    <2> QED
      BY <1>a, <1>b, <2>1, <2>2
  <1> HIDE DEF rest
  <1>2. \A k \in DOMAIN rest : k + 1 \in DOMAIN todo
    BY <1>1
  <1>3. \A k \in DOMAIN todo : todo[k] = ReadActiveIndex => k = Len(todo)
    BY DEF ReadsLast
  <1>4. \A k \in DOMAIN rest : rest[k] = ReadActiveIndex => k = Len(rest)
    BY <1>1, <1>2, <1>3
  <1>5. Head(todo) # ReadActiveIndex
    BY <1>1, <1>3
  <1> QED
    BY <1>1, <1>4, <1>5 DEF ReadsLast, rest

\* A call that is about to announce todo.
LEMMA NewCallKept ==
    ASSUME NEW at \in {"writing", "announcing"}, NEW todo \in Seq(Todo), ReadsLast(todo),
           call' = [at |-> at, todo |-> todo]
    PROVE  call' \in Call /\ TodoShape'
  <1>1. call'.todo = todo
    OBVIOUS
  <1> QED
    BY <1>1, NewCallTyped DEF TodoShape, ReadsLast, ReadActiveIndex

LEMMA CallKept ==
    ASSUME Kept, [Next]_vars
    PROVE  call' \in Call /\ TodoShape'
  <1> USE SignalFacts, NewCallKept
  <1>0. NoCall \in Call /\ 0 \in Index /\ active \in Index
    BY SyncAssumption DEF Call, Kept, TypeOK
  <1>t. /\ Update \in Todo /\ EmptyHistory \in Todo /\ ReadActiveIndex \in Todo
        /\ \A i \in Index : ActiveIndexChanged(i) \in Todo
    BY DEF Todo
  <1>b. ASSUME call' = NoCall \/ call' = call
        PROVE  call' \in Call /\ TodoShape'
    BY <1>0, <1>b DEF Kept, TypeOK, TodoShape, ReadsLast
  <1>r. ASSUME call.at = "announcing" \/ call.at = "writing"
        PROVE  /\ call \in [at : {"writing", "announcing"}, todo : Seq(Todo)]
               /\ ReadsLast(call.todo)
    BY <1>r DEF Kept, TypeOK, Call, NoCall, Todo, TodoShape
  <1>1. CASE Add
    BY <1>0, <1>t, <1>1, <1>b, TodoOfTwo DEF Add, Handle
  <1>2. CASE Empty
    BY <1>0, <1>t, <1>2, TodoOfTwo DEF Empty
  <1>3. CASE SetActiveIndex
    <2>1. PICK i \in Index : \/ call' = [at |-> "announcing", todo |-> <<ActiveIndexChanged(i)>>]
                             \/ call' = call
      BY <1>3 DEF SetActiveIndex, Handle
    <2> QED
      BY <1>b, <1>t, <2>1, TodoOfOne
  <1>4. CASE Delete
    BY <1>t, <1>b, <1>4, TodoOfTwo DEF Delete, Handle
  <1>5. CASE SelectAtOffset
    <2>1. PICK i \in Index :
             call' = [at |-> "writing", todo |-> <<ActiveIndexChanged(i), Update>>]
      BY <1>5 DEF SelectAtOffset, Choose
    <2> QED
      BY <1>t, <2>1, TodoOfTwo
  <1>6. CASE Select
    BY <1>0, <1>t, <1>6, TodoOfTwo DEF Select, Choose
  <1>7. CASE SelectAtIndex
    <2>1. clicked \in Index
      BY <1>7 DEF SelectAtIndex, Kept, TypeOK
    <2> QED
      BY <1>t, <1>7, <2>1, TodoOfTwo DEF SelectAtIndex, Choose
  <1>8. CASE Written
    <2>1. call' = [at |-> "announcing", todo |-> call.todo]
      BY <1>8, <1>r DEF Written
    <2> QED
      BY <1>8, <1>r, <2>1 DEF Written
  <1>9. CASE Announce
    <2>1. CASE Len(call.todo) = 1
      BY <1>9, <1>b, <2>1 DEF Announce, AfterSignal
    <2>2. CASE Len(call.todo) # 1
      <3>1. call' = [at |-> "announcing", todo |-> Tail(call.todo)]
        BY <1>9, <1>r, <2>2 DEF Announce, AfterSignal
      <3> QED
        BY <1>9, <1>r, <2>2, <3>1, TodoTail DEF Announce
    <2> QED
      BY <2>1, <2>2
  <1>10. CASE ReadActive
    <2>1. call' = [at |-> "announcing", todo |-> <<ActiveIndexChanged(active)>>]
      BY <1>10, <1>r DEF ReadActive
    <2> QED
      BY <1>0, <1>t, <2>1, TodoOfOne
  <1> QED
    BY <1>b, <1>1, <1>2, <1>3, <1>4, <1>5, <1>6, <1>7, <1>8, <1>9, <1>10
    DEF Next, Operations, RefuseClick, Reload, Ingest, DaemonExits, DaemonStarts, Announcing,
        GiveUp, AnnounceFails, EmitSignal, EmitFails, Listening, ListenerGetsHistory, ListenerGetsActiveIndex, ListenerRefreshes, Subscribe,
        ListenerTakes, ListenerFails, Reconnect, Interface, BootGets, BootShows, BootFails,
        UpdateApp, SelectIndex, vars

\* The channel from the ingest loop, and the subscription.
LEMMA SignalsTyped ==
    ASSUME TypeOK, [Next]_vars
    PROVE  signals' \in Seq(Signal) /\ Len(signals') <= SignalCap
  <1>0. signals \in Seq(Signal) /\ Len(signals) <= SignalCap /\ Len(signals) \in Nat
    BY DEF TypeOK
  <1> HIDE DEF Signal
  <1>1. CASE Ingest
    <2>1. CASE signals' = signals
      BY <1>0, <2>1
    <2>2. CASE signals' # signals
      <3> DEFINE room == SignalCap - Len(signals)
      <3>1. signals' = signals \o (CASE room = 0 -> <<>>
                                    [] room = 1 -> <<Update>>
                                    [] OTHER -> <<Update, ActiveIndexChanged(0)>>)
        BY <1>1, <2>2 DEF Ingest
      <3>2. room \in Nat
        BY <1>0, SyncAssumption
      <3>3. <<Update>> \in Seq(Signal) /\ <<Update, ActiveIndexChanged(0)>> \in Seq(Signal)
        BY SignalFacts, SyncAssumption
      <3>4. CASE room = 0
        <4> HIDE DEF room
        <4>1. signals' = signals \o <<>>
          BY <3>1, <3>4
        <4> QED
          BY <1>0, <4>1
      <3>5. CASE room = 1
        <4>1. signals' = signals \o <<Update>>
          BY <3>1, <3>5
        <4> QED
          BY <1>0, <3>3, <3>5, <4>1, SyncAssumption
      <3>6. CASE room # 0 /\ room # 1
        <4>1. signals' = signals \o <<Update, ActiveIndexChanged(0)>>
          BY <3>1, <3>6
        <4>2. Len(signals') = Len(signals) + 2 /\ signals' \in Seq(Signal)
          BY <1>0, <3>3, <4>1
        <4> QED
          BY <1>0, <3>2, <3>6, <4>2, SyncAssumption
      <3> QED
        BY <3>4, <3>5, <3>6
    <2> QED
      BY <2>1, <2>2
  <1>2. CASE EmitSignal \/ EmitFails
    <2>1. signals # <<>> /\ signals' = Tail(signals)
      BY <1>2 DEF EmitSignal, EmitFails
    <2>2. signals' \in Seq(Signal) /\ Len(signals') = Len(signals) - 1
      BY <1>0, <2>1
    <2> QED
      BY <1>0, <2>2, SyncAssumption
  <1>3. CASE DaemonExits
    BY <1>0, <1>3, SyncAssumption DEF DaemonExits
  <1>4. CASE UNCHANGED signals
    BY <1>0, <1>4
  <1> QED
    BY <1>1, <1>2, <1>3, <1>4
    DEF Next, Operations, Add, SetActiveIndex, Delete, Handle, Empty, SelectAtOffset, Select,
        SelectAtIndex, Choose, RefuseClick, Reload, DaemonStarts, Announcing, Written, GiveUp,
        Announce, AnnounceFails, ReadActive, Listening, ListenerGetsHistory,
        ListenerGetsActiveIndex, ListenerRefreshes, Subscribe, ListenerTakes, ListenerFails, Reconnect, Interface,
        BootGets, BootShows, BootFails, UpdateApp, SelectIndex, vars

\* The signals that Announce and EmitSignal send.
LEMMA Sent ==
    ASSUME Kept
    PROVE  /\ Announce => Head(call.todo) \in Signal
           /\ EmitSignal => Head(signals) \in Signal
  <1>1. ASSUME Announce
        PROVE  Head(call.todo) \in Signal
    <2>1. call.todo \in Seq(Todo) /\ call.todo # <<>> /\ Head(call.todo) # ReadActiveIndex
      BY <1>1, CallFacts DEF Announce
    <2>2. Head(call.todo) \in Todo
      BY <2>1
    <2> QED
      BY <2>1, <2>2 DEF Todo
  <1>2. ASSUME EmitSignal
        PROVE  Head(signals) \in Signal
    <2>1. signals \in Seq(Signal) /\ signals # <<>>
      BY <1>2 DEF EmitSignal, Kept, TypeOK
    <2> QED
      BY <2>1
  <1> QED
    BY <1>1, <1>2

LEMMA WireTyped ==
    ASSUME Kept, [Next]_vars
    PROVE  wire' \in Seq(Signal)
  <1>0. wire \in Seq(Signal)
    BY DEF Kept, TypeOK
  <1> HIDE DEF Signal
  <1>1. CASE Announce
    BY <1>0, <1>1, Sent DEF Announce, Send
  <1>2. CASE EmitSignal
    BY <1>0, <1>2, Sent DEF EmitSignal, Send
  <1>3. CASE ListenerTakes
    <2>1. wire # <<>> /\ wire' = Tail(wire)
      BY <1>3 DEF ListenerTakes
    <2> QED
      BY <1>0, <2>1
  <1>4. CASE ListenerFails
    BY <1>4 DEF ListenerFails
  <1>5. CASE UNCHANGED wire
    BY <1>0, <1>5
  <1> QED
    BY <1>1, <1>2, <1>3, <1>4, <1>5
    DEF Next, Operations, Add, SetActiveIndex, Delete, Handle, Empty, SelectAtOffset, Select,
        SelectAtIndex, Choose, RefuseClick, Reload, Ingest, DaemonExits, DaemonStarts,
        Announcing, Written, GiveUp, AnnounceFails, EmitFails, Lose, ReadActive, Listening,
        ListenerGetsHistory,
        ListenerGetsActiveIndex, ListenerRefreshes, Subscribe, Reconnect, Interface,
        BootGets, BootShows, BootFails, UpdateApp, SelectIndex, vars

\* The threads that fetch.
FetchState == Fetch \cup {[at |-> "none"], [at |-> "backoff"]}

LEMMA FetchFacts ==
    /\ Start \in Fetch /\ Start.at = "get_history"
    /\ \A h \in History : [at |-> "get_active_index", history |-> h] \in Fetch
    /\ \A h \in History, i \in Index :
          [at |-> "done", history |-> h, active_index |-> i] \in Fetch
    /\ \A f \in FetchState :
          /\ f.at \in {"none", "backoff", "get_history", "get_active_index", "done"}
          /\ f.at \in {"get_active_index", "done"} => f.history \in History
          /\ f.at = "done" => f.active_index \in Index
    /\ Fetch \subseteq FetchState
    /\ [at |-> "none"] \in FetchState /\ [at |-> "backoff"] \in FetchState
  BY DEF Start, Fetch, FetchState

LEMMA ListenerTyped ==
    ASSUME TypeOK, [Next]_vars
    PROVE  listener' \in [subscribed : BOOLEAN, fetch : FetchState]
  <1>0. /\ listener \in [subscribed : BOOLEAN, fetch : FetchState]
        /\ history \in History /\ active \in Index
    BY DEF TypeOK, FetchState
  <1>f. ASSUME NEW f \in FetchState, listener' = [listener EXCEPT !.fetch = f]
        PROVE  listener' \in [subscribed : BOOLEAN, fetch : FetchState]
    BY <1>0, <1>f
  <1>a. listener.fetch \in FetchState
    BY <1>0
  <1> HIDE DEF FetchState
  <1>1. CASE ListenerGetsHistory
    <2> DEFINE f == [at |-> "get_active_index", history |-> history]
    <2>1. f \in FetchState
      BY <1>0, FetchFacts
    <2> QED
      BY <1>f, <1>1, <2>1 DEF ListenerGetsHistory
  <1>2. CASE ListenerGetsActiveIndex
    <2> DEFINE f == [at |-> "done", history |-> listener.fetch.history, active_index |-> active]
    <2>1. listener.fetch.history \in History
      BY <1>a, <1>2, FetchFacts DEF ListenerGetsActiveIndex, Fetching
    <2>2. f \in FetchState
      BY <1>0, <2>1, FetchFacts
    <2> QED
      BY <1>f, <1>2, <2>2 DEF ListenerGetsActiveIndex
  <1>3. CASE ListenerRefreshes
    BY <1>f, <1>3, FetchFacts DEF ListenerRefreshes
  <1>4. CASE Subscribe
    BY <1>0, <1>4 DEF Subscribe
  <1>5. CASE ListenerTakes
    <2> DEFINE f == IF Head(wire) = Update THEN Start ELSE listener.fetch
    <2>1. f \in FetchState
      BY <1>a, FetchFacts
    <2>2. listener' = [listener EXCEPT !.fetch = f]
      BY <1>5 DEF ListenerTakes
    <2> QED
      BY <1>f, <2>1, <2>2
  <1>6. CASE ListenerFails
    BY <1>6, FetchFacts DEF ListenerFails
  <1>7. CASE Reconnect
    BY <1>f, <1>7, FetchFacts DEF Reconnect
  <1>8. CASE UNCHANGED listener
    BY <1>0, <1>8
  <1> QED
    BY <1>1, <1>2, <1>3, <1>4, <1>5, <1>6, <1>7, <1>8
    DEF Next, Operations, Add, SetActiveIndex, Delete, Handle, Empty, SelectAtOffset, Select,
        SelectAtIndex, Choose, RefuseClick, Reload, Ingest, DaemonExits, DaemonStarts,
        Announcing, Written, GiveUp, Announce, AnnounceFails, ReadActive, EmitSignal, EmitFails, Listening, Interface,
        BootGets, BootShows, BootFails, UpdateApp, SelectIndex, applet, vars

BootState == Fetch \cup [at : {"failed", "shown"}]

LEMMA BootTyped ==
    ASSUME TypeOK, [Next]_vars
    PROVE  boot' \in BootState
  <1>0. boot \in BootState /\ history \in History /\ active \in Index
    BY DEF TypeOK, BootState
  <1>1. CASE BootGets
    <2>1. CASE boot = Start
      BY <1>0, <1>1, <2>1, FetchFacts DEF BootGets, BootState, Start
    <2>2. CASE boot.at = "get_active_index"
      <3>1. boot.history \in History /\ boot # Start
        BY <1>0, <2>2 DEF BootState, Fetch, Start
      <3> QED
        BY <1>0, <1>1, <2>2, <3>1, FetchFacts DEF BootGets, BootState
    <2> QED
      BY <1>1, <2>1, <2>2 DEF BootGets
  <1>2. CASE BootShows \/ BootFails
    BY <1>2 DEF BootShows, BootFails, BootState
  <1>3. CASE UNCHANGED boot
    BY <1>0, <1>3
  <1> QED
    BY <1>1, <1>2, <1>3
    DEF Next, Operations, Add, SetActiveIndex, Delete, Handle, Empty, SelectAtOffset, Select,
        SelectAtIndex, Choose, RefuseClick, Reload, Ingest, DaemonExits, DaemonStarts,
        Announcing, Written, GiveUp, Announce, AnnounceFails, ReadActive, EmitSignal, EmitFails, Listening,
        ListenerGetsHistory, ListenerGetsActiveIndex, ListenerRefreshes, Subscribe,
        ListenerTakes, ListenerFails, Reconnect, Interface, UpdateApp, SelectIndex, applet, vars

\* The user interface.
LEMMA EventFacts ==
    /\ \A h \in History, i \in Index :
          [event |-> "Refreshed", history |-> h, active_index |-> i] \in RefreshedEvents
    /\ \A i \in Index :
          [event |-> "ActiveIndexChanged", active_index |-> i] \in Event \ RefreshedEvents
    /\ [event |-> "Disconnected"] \in Event \ RefreshedEvents
    /\ \A e \in Event :
          /\ e.event \in {"Refreshed", "ActiveIndexChanged", "Disconnected"}
          /\ e \in RefreshedEvents <=> e.event = "Refreshed"
          /\ e \in IndexEvents <=> e.event # "Disconnected"
          /\ e.event = "Refreshed" => e.history \in History
          /\ e.event # "Disconnected" => e.active_index \in Index
    /\ RefreshedEvents \subseteq Event /\ IndexEvents \subseteq Event
  BY DEF Event, RefreshedEvents, IndexEvents

\* What the listener has fetched, and what it reports of it.
LEMMA RefreshedTyped ==
    ASSUME TypeOK, Fetching = "done"
    PROVE  /\ listener.fetch.history \in History /\ listener.fetch.active_index \in Index
           /\ Refreshed(listener.fetch) \in RefreshedEvents
           /\ Refreshed(listener.fetch) \in Event
           /\ Refreshed(listener.fetch).event = "Refreshed"
           /\ Refreshed(listener.fetch).history = listener.fetch.history
           /\ Refreshed(listener.fetch).active_index = listener.fetch.active_index
  <1>1. listener.fetch \in FetchState
    BY DEF TypeOK, FetchState
  <1>2. listener.fetch.history \in History /\ listener.fetch.active_index \in Index
    BY <1>1, FetchFacts DEF Fetching
  <1> QED
    BY <1>2, EventFacts DEF Refreshed

LEMMA UiTyped ==
    ASSUME TypeOK, [Next]_vars
    PROVE  ui' \in Seq(Event) /\ Len(ui') <= EventCap
  <1>0. /\ ui \in Seq(Event) /\ Len(ui) <= EventCap /\ Len(ui) \in Nat
        /\ wire \in Seq(Signal) /\ EventCap \in Nat
    BY SyncAssumption DEF TypeOK
  <1>a. ASSUME NEW e \in Event, Len(ui) < EventCap, ui' = Append(ui, e)
        PROVE  ui' \in Seq(Event) /\ Len(ui') <= EventCap
    <2> HIDE DEF Event
    <2>1. Len(ui') = Len(ui) + 1 /\ ui' \in Seq(Event)
      BY <1>0, <1>a
    <2> QED
      BY <1>0, <1>a, <2>1
  <1> HIDE DEF Event, Signal
  <1>1. CASE ListenerRefreshes
    BY <1>a, <1>1, RefreshedTyped DEF ListenerRefreshes
  <1>2. CASE ListenerFails
    BY <1>a, <1>2, EventFacts DEF ListenerFails
  <1>3. CASE ListenerTakes
    <2>1. CASE Head(wire).member = "ActiveIndexChanged"
      <3>1. Head(wire) \in Signal
        BY <1>0, <1>3 DEF ListenerTakes
      <3>2. Head(wire).index \in Index
        BY <2>1, <3>1, SignalFacts
      <3> QED
        BY <1>a, <1>3, <2>1, <3>2, EventFacts DEF ListenerTakes
    <2>2. CASE Head(wire).member # "ActiveIndexChanged"
      BY <1>0, <1>3, <2>2 DEF ListenerTakes
    <2> QED
      BY <2>1, <2>2
  <1>4. CASE UpdateApp
    <2>1. ui # <<>> /\ ui' = Tail(ui)
      BY <1>4 DEF UpdateApp
    <2>2. ui' \in Seq(Event) /\ Len(ui') = Len(ui) - 1
      BY <1>0, <2>1
    <2> QED
      BY <1>0, <2>2
  <1>5. CASE UNCHANGED ui
    BY <1>0, <1>5
  <1> QED
    BY <1>1, <1>2, <1>3, <1>4, <1>5
    DEF Next, Operations, Add, SetActiveIndex, Delete, Handle, Empty, SelectAtOffset, Select,
        SelectAtIndex, Choose, RefuseClick, Reload, Ingest, DaemonExits, DaemonStarts,
        Announcing, Written, GiveUp, Announce, AnnounceFails, ReadActive, EmitSignal, EmitFails, Listening,
        ListenerGetsHistory, ListenerGetsActiveIndex, Subscribe, Reconnect, Interface,
        BootGets, BootShows, BootFails, SelectIndex, applet, vars

LEMMA ShownTyped ==
    ASSUME TypeOK, [Next]_vars
    PROVE  /\ shown' \in [history : History \cup {None}, active_index : Index]
           /\ unreachable' \in BOOLEAN
           /\ clicked' \in Index \cup {None}
  <1>0. /\ shown \in [history : History \cup {None}, active_index : Index]
        /\ clicked \in Index \cup {None}
        /\ unreachable \in BOOLEAN
    BY DEF TypeOK
  <1>1. CASE BootShows
    <2>1. boot.history \in History /\ boot.active_index \in Index
      BY <1>1 DEF BootShows, TypeOK, Fetch
    <2> QED
      BY <1>0, <1>1, <2>1 DEF BootShows, Show
  <1>2. CASE BootFails
    BY <1>0, <1>2 DEF BootFails
  <1>3. CASE UpdateApp
    <2>1. Head(ui) \in Event
      <3> HIDE DEF Event
      <3> QED
        BY <1>3 DEF UpdateApp, TypeOK
    <2>2. CASE Head(ui).event = "Refreshed"
      <3>1. Show(Head(ui)) /\ UNCHANGED clicked
        BY <1>3, <2>2 DEF UpdateApp
      <3>2. Head(ui).history \in History /\ Head(ui).active_index \in Index
        BY <2>1, <2>2, EventFacts
      <3> QED
        BY <1>0, <3>1, <3>2 DEF Show
    <2>3. CASE Head(ui).event = "ActiveIndexChanged"
      BY <1>0, <1>3, <2>1, <2>3, EventFacts DEF UpdateApp
    <2>4. CASE Head(ui).event = "Disconnected"
      BY <1>0, <1>3, <2>4 DEF UpdateApp
    <2> QED
      BY <2>1, <2>2, <2>3, <2>4, EventFacts
  <1>4. CASE \E i \in Index : SelectIndex(i)
    BY <1>0, <1>4 DEF SelectIndex
  <1>5. CASE UNCHANGED <<shown, unreachable>> /\ (clicked' = None \/ UNCHANGED clicked)
    BY <1>0, <1>5
  <1> QED
    BY <1>1, <1>2, <1>3, <1>4, <1>5
    DEF Next, Operations, Add, SetActiveIndex, Delete, Handle, Empty, SelectAtOffset, Select,
        SelectAtIndex, Choose, RefuseClick, Reload, Ingest, DaemonExits, DaemonStarts,
        Announcing, Written, GiveUp, Announce, AnnounceFails, ReadActive, EmitSignal, EmitFails, Listening,
        ListenerGetsHistory, ListenerGetsActiveIndex, ListenerRefreshes, Subscribe,
        ListenerTakes, ListenerFails, Reconnect, Interface, BootGets, applet, vars

MissedType == [history : BOOLEAN, index : BOOLEAN]

LEMMA MissedTyped ==
    ASSUME TypeOK, [Next]_vars
    PROVE  missed' \in MissedType
  <1>0. missed \in MissedType /\ missed.history \in BOOLEAN /\ missed.index \in BOOLEAN
    BY DEF TypeOK, MissedType
  <1>r. ASSUME NEW a \in BOOLEAN, NEW b \in BOOLEAN
        PROVE  [history |-> a, index |-> b] \in MissedType
    BY DEF MissedType
  <1>m. ASSUME MissBoth \/ Miss("history") \/ Miss("index")
        PROVE  missed' \in MissedType
    <2>1. CASE MissBoth
      BY <2>1, <1>r DEF MissBoth
    <2>2. CASE Miss("history")
      <3>1. missed' = [history |-> TRUE, index |-> missed.index]
        BY <1>0, <2>2 DEF Miss, MissedType
      <3> QED
        BY <1>0, <1>r, <3>1
    <2>3. CASE Miss("index")
      <3>1. missed' = [history |-> missed.history, index |-> TRUE]
        BY <1>0, <2>3 DEF Miss, MissedType
      <3> QED
        BY <1>0, <1>r, <3>1
    <2> QED
      BY <1>m, <2>1, <2>2, <2>3
  <1>s. ASSUME NEW signal, Send(signal)
        PROVE  missed' \in MissedType
    <2> DEFINE a == missed.history \/ (signal = Update /\ ~listener.subscribed)
               b == IF signal.member = "ActiveIndexChanged"
                    THEN ~listener.subscribed \/ signal.index # active
                    ELSE missed.index
    <2>1. missed' = [history |-> a, index |-> b]
      BY <1>s DEF Send
    <2>2. a \in BOOLEAN /\ b \in BOOLEAN
      BY <1>0
    <2> QED
      BY <1>r, <2>1, <2>2
  <1>1. CASE Announce \/ EmitSignal
    BY <1>1, <1>s DEF Announce, EmitSignal
  <1>9. CASE AnnounceFails \/ EmitFails
    <2>1. ASSUME NEW lost, Lose(lost)
          PROVE  missed' \in MissedType
      <3>1. /\ (missed.history \/ Update \in lost) \in BOOLEAN
            /\ (missed.index \/ lost \ {Update, EmptyHistory} # {}) \in BOOLEAN
        BY <1>0
      <3> QED
        BY <1>r, <2>1, <3>1 DEF Lose
    <2> QED
      BY <1>9, <2>1 DEF AnnounceFails, EmitFails
  <1>2. CASE Ingest
    <2>1. CASE MissBoth
      BY <1>m, <2>1
    <2>2. CASE ~MissBoth
      <3> DEFINE a == missed.history \/ SignalCap - Len(signals) = 0
                 b == missed.index \/ SignalCap - Len(signals) < 2
      <3>1. missed' = [history |-> a, index |-> b]
        BY <1>2, <2>2 DEF Ingest
      <3>2. a \in BOOLEAN /\ b \in BOOLEAN
        BY <1>0
      <3> QED
        BY <1>r, <3>1, <3>2
    <2> QED
      BY <2>1, <2>2
  <1>3. CASE ListenerGetsHistory
    BY <1>0, <1>3 DEF ListenerGetsHistory, MissedType
  <1>4. CASE ListenerGetsActiveIndex
    <2>1. StaleIndexBehind \in BOOLEAN
      BY DEF StaleIndexBehind
    <2> QED
      BY <1>0, <1>4, <2>1 DEF ListenerGetsActiveIndex, MissedType
  <1>5. CASE BootShows
    <2> DEFINE a == missed.history \/ boot.history # history
               b == missed.index \/ boot.active_index # active
    <2>1. missed' = [history |-> a, index |-> b]
      BY <1>5 DEF BootShows
    <2>2. a \in BOOLEAN /\ b \in BOOLEAN
      BY <1>0
    <2> QED
      BY <1>r, <2>1, <2>2
  <1>6. CASE UNCHANGED missed
    BY <1>0, <1>6
  <1>7. CASE GiveUp \/ DaemonExits \/ DaemonStarts \/ RefuseClick \/ Empty \/ Reload
    BY <1>m, <1>7 DEF GiveUp, DaemonExits, DaemonStarts, RefuseClick, Empty, Reload
  <1>8. CASE Add \/ SetActiveIndex \/ Delete
    <2>1. MissBoth \/ UNCHANGED missed
      BY <1>8 DEF Add, SetActiveIndex, Delete, Handle
    <2> QED
      BY <1>m, <1>6, <2>1
  <1> QED
    BY <1>1, <1>2, <1>3, <1>4, <1>5, <1>6, <1>7, <1>8, <1>9
    DEF Next, Operations, SelectAtOffset, Select, SelectAtIndex, Choose, Announcing, Written,
        ReadActive, Listening, ListenerRefreshes, Subscribe, ListenerTakes, ListenerFails,
        Reconnect, Interface, BootGets, BootFails, UpdateApp, SelectIndex, vars

LEMMA TypeKept ==
    ASSUME Kept, [Next]_vars
    PROVE  TypeOK' /\ TodoShape'
  BY DaemonKept, CallKept, SignalsTyped, WireTyped, ListenerTyped, BootTyped, UiTyped,
     ShownTyped, MissedTyped
  DEF Kept, TypeOK, FetchState, BootState, MissedType

-----------------------------------------------------------------------------
(* The report that the daemon is unreachable.                              *)

LEMMA UnreachableKept ==
    ASSUME Kept, UnreachableMeansIt, DisconnectsHeal, [Next]_vars
    PROVE  UnreachableMeansIt' /\ DisconnectsHeal'
  <1>0. /\ ui \in Seq(Event) /\ wire \in Seq(Signal)
        /\ listener \in [subscribed : BOOLEAN, fetch : FetchState]
    BY DEF Kept, TypeOK, FetchState
  <1>b. ASSUME Fetching' # "none"
        PROVE  UnreachableMeansIt' /\ DisconnectsHeal'
    BY <1>b DEF UnreachableMeansIt, DisconnectsHeal
  <1> HIDE DEF Event, Signal, FetchState
  <1>1. CASE ListenerGetsHistory \/ ListenerGetsActiveIndex \/ ListenerFails \/ Reconnect
    <2>1. Fetching' # "none"
      BY <1>0, <1>1
      DEF ListenerGetsHistory, ListenerGetsActiveIndex, ListenerFails, Reconnect, Fetching, Start
    <2> QED
      BY <1>b, <2>1
  <1>2. CASE ListenerRefreshes
    <2> DEFINE e == Refreshed(listener.fetch)
    <2>1. e \in Event /\ e.event = "Refreshed" /\ ui' = Append(ui, e)
      BY <1>2, RefreshedTyped DEF ListenerRefreshes, Kept
    <2> HIDE DEF e
    <2>2. /\ Len(ui) \in Nat /\ DOMAIN ui = 1 .. Len(ui) /\ DOMAIN ui' = 1 .. Len(ui) + 1
          /\ ui'[Len(ui) + 1] = e
          /\ \A k \in DOMAIN ui' : k \in DOMAIN ui \/ k = Len(ui) + 1
      BY <1>0, <2>1, AppendFacts
    <2>3. UnreachableMeansIt'
      BY <2>1, <2>2 DEF UnreachableMeansIt
    <2>4. ASSUME NEW k \in DOMAIN ui', ui'[k].event = "Disconnected"
          PROVE  Len(ui) + 1 > k
      BY <2>1, <2>2, <2>4
    <2>5. DisconnectsHeal'
      BY <2>1, <2>2, <2>4 DEF DisconnectsHeal
    <2> QED
      BY <2>3, <2>5
  <1>3. CASE ListenerTakes
    <2>1. CASE Head(wire) = Update
      <3>1. listener' = [listener EXCEPT !.fetch = Start]
        BY <1>3, <2>1 DEF ListenerTakes
      <3>2. Fetching' # "none"
        BY <1>0, <3>1 DEF Fetching, Start
      <3> QED
        BY <1>b, <3>2
    <2>2. CASE Head(wire) # Update
      <3>1. Fetching' = Fetching /\ boot' = boot /\ unreachable' = unreachable
        BY <1>0, <1>3, <2>2 DEF ListenerTakes, Fetching
      <3>2. CASE ui' = ui
        BY <3>1, <3>2 DEF UnreachableMeansIt, DisconnectsHeal
      <3>3. CASE Head(wire).member = "ActiveIndexChanged"
        <4> DEFINE e == [event |-> "ActiveIndexChanged", active_index |-> Head(wire).index]
        <4>1. e \in Event /\ e.event = "ActiveIndexChanged" /\ ui' = Append(ui, e)
          <5>1. Head(wire) \in Signal
            BY <1>0, <1>3 DEF ListenerTakes
          <5>2. Head(wire).index \in Index
            BY <3>3, <5>1, SignalFacts
          <5> QED
            BY <1>3, <3>3, <5>2, EventFacts DEF ListenerTakes
        <4> HIDE DEF e
        <4>2. /\ \A k \in DOMAIN ui : k \in DOMAIN ui' /\ ui'[k] = ui[k]
              /\ \A k \in DOMAIN ui' : k \in DOMAIN ui \/ ui'[k] = e
          BY <1>0, <4>1, AppendFacts
        <4> QED
          BY <3>1, <4>1, <4>2 DEF UnreachableMeansIt, DisconnectsHeal
      <3> QED
        BY <1>3, <3>2, <3>3 DEF ListenerTakes
    <2> QED
      BY <2>1, <2>2
  <1>4. CASE UpdateApp
    <2>1. ui # <<>> /\ ui' = Tail(ui) /\ Fetching' = Fetching /\ boot' = boot
      BY <1>4 DEF UpdateApp, Fetching
    <2>2. /\ 1 \in DOMAIN ui /\ Head(ui) = ui[1] /\ Head(ui) \in Event
          /\ \A k \in DOMAIN ui' : k + 1 \in DOMAIN ui /\ ui'[k] = ui[k + 1]
          /\ \A k \in DOMAIN ui : k > 1 => k - 1 \in DOMAIN ui' /\ ui'[k - 1] = ui[k]
          /\ DOMAIN ui \subseteq Nat /\ DOMAIN ui' \subseteq Nat
      BY <1>0, <2>1, TailFacts
    <2>3. DisconnectsHeal'
      <3> SUFFICES ASSUME NEW k \in DOMAIN ui', ui'[k].event = "Disconnected", Fetching = "none"
                   PROVE  \E j \in DOMAIN ui' : j > k /\ ui'[j].event = "Refreshed"
        BY <2>1 DEF DisconnectsHeal
      <3>1. PICK j \in DOMAIN ui : j > k + 1 /\ ui[j].event = "Refreshed"
        BY <2>2 DEF DisconnectsHeal
      <3>2. j > 1 /\ j - 1 > k
        BY <2>2, <3>1
      <3> QED
        BY <2>2, <3>1, <3>2
    <2>4. CASE Head(ui).event \in {"Refreshed", "ActiveIndexChanged"}
      <3>1. unreachable' = FALSE
        BY <1>4, <2>4 DEF UpdateApp, Show
      <3> QED
        BY <2>3, <3>1 DEF UnreachableMeansIt
    <2>5. CASE Head(ui).event = "Disconnected"
      <3>1. Fetching # "none" \/ \E j \in DOMAIN ui : j > 1 /\ ui[j].event = "Refreshed"
        BY <2>2, <2>5 DEF DisconnectsHeal
      <3>2. Fetching # "none" \/ \E j \in DOMAIN ui' : ui'[j].event = "Refreshed"
        BY <2>2, <3>1
      <3> QED
        BY <2>1, <2>3, <3>2 DEF UnreachableMeansIt
    <2> QED
      BY <2>2, <2>4, <2>5, EventFacts
  <1>5. CASE BootGets \/ BootShows \/ BootFails
    <2>1. ui' = ui /\ Fetching' = Fetching
      BY <1>5 DEF BootGets, BootShows, BootFails, Fetching
    <2>2. DisconnectsHeal'
      BY <2>1 DEF DisconnectsHeal
    <2>3. CASE BootGets
      <3>1. boot.at # "failed" /\ unreachable' = unreachable
        BY <2>3 DEF BootGets, Start
      <3> QED
        BY <2>1, <2>2, <3>1 DEF UnreachableMeansIt
    <2>4. CASE BootShows
      <3>1. unreachable' = FALSE
        BY <2>4 DEF BootShows, Show
      <3> QED
        BY <2>2, <3>1 DEF UnreachableMeansIt
    <2>5. CASE BootFails
      <3>1. boot'.at = "failed"
        BY <2>5 DEF BootFails
      <3> QED
        BY <2>2, <3>1 DEF UnreachableMeansIt
    <2> QED
      BY <1>5, <2>3, <2>4, <2>5
  <1>6. CASE Fetching' = Fetching /\ UNCHANGED <<boot, ui, unreachable>>
    BY <1>6 DEF UnreachableMeansIt, DisconnectsHeal
  <1>7. CASE Subscribe
    <2>1. Fetching' = Fetching /\ UNCHANGED <<boot, ui, unreachable>>
      BY <1>0, <1>7 DEF Subscribe, Fetching
    <2> QED
      BY <1>6, <2>1
  <1>8. CASE UNCHANGED <<listener, boot, ui, unreachable>>
    BY <1>6, <1>8 DEF Fetching
  <1> QED
    BY <1>1, <1>2, <1>3, <1>4, <1>5, <1>7, <1>8
    DEF Next, Operations, Add, SetActiveIndex, Delete, Handle, Empty, SelectAtOffset, Select,
        SelectAtIndex, Choose, RefuseClick, Reload, Ingest, DaemonExits, DaemonStarts,
        Announcing, Written, GiveUp, Announce, AnnounceFails, ReadActive, EmitSignal, EmitFails, Listening, Interface,
        SelectIndex, applet, vars

-----------------------------------------------------------------------------
(* The list.                                                               *)

\* A call announces its first signal.
LEMMA AnnounceFacts ==
    ASSUME Kept, Announce
    PROVE  /\ call # NoCall /\ call.todo \in Seq(Todo) /\ call.todo # <<>>
           /\ Head(call.todo) \in Signal /\ Send(Head(call.todo))
           /\ Len(call.todo) = 1 => call' = NoCall
           /\ Len(call.todo) # 1 => call' # NoCall /\ call'.todo = Tail(call.todo)
           /\ signals' = signals
  <1>1. call # NoCall /\ call \in [at : {"writing", "announcing"}, todo : Seq(Todo)]
    BY CallFacts DEF Announce, Kept, TypeOK, Call, Todo
  <1>2. call.todo # <<>> /\ Head(call.todo) \in Signal
    BY <1>1, CallFacts, Sent
  <1>3. Len(call.todo) = 1 => call' = NoCall
    BY DEF Announce, AfterSignal
  <1>4. Len(call.todo) # 1 => call' # NoCall /\ call'.todo = Tail(call.todo)
    BY <1>1 DEF Announce, AfterSignal, NoCall
  <1> QED
    BY <1>1, <1>2, <1>3, <1>4 DEF Announce

\* An Update on its way arrives, or nobody gets it.
LEMMA UpdateGoesOn ==
    ASSUME Kept, Written \/ Announce \/ ReadActive \/ EmitSignal, UpdateComing
    PROVE  UpdateComing' \/ missed'.history
  <1>0. wire \in Seq(Signal) /\ Update \in Signal
    BY SignalFacts DEF Kept, TypeOK
  <1> HIDE DEF Signal
  <1>s. ASSUME NEW signal \in Signal, Send(signal), Update \in ToSet(wire) \/ signal = Update
        PROVE  Update \in ToSet(wire') \/ missed'.history
    <2>1. CASE listener.subscribed
      <3>1. wire' = Append(wire, signal)
        BY <1>s, <2>1 DEF Send
      <3> QED
        BY <1>0, <1>s, <3>1, InAppend
    <2>2. CASE ~listener.subscribed
      <3>1. wire' = wire
        BY <1>s, <2>2 DEF Send
      <3>2. signal = Update => missed'.history
        BY <1>s, <2>2 DEF Send
      <3> QED
        BY <1>s, <3>1, <3>2
    <2> QED
      BY <2>1, <2>2
  <1>1. CASE Written
    <2>1. call # NoCall /\ call'.todo = call.todo /\ call' # NoCall
      BY <1>1, CallFacts DEF Written, Kept, TypeOK, Call, NoCall
    <2> QED
      BY <1>1, <2>1 DEF Written, UpdateComing, InCall
  <1>2. CASE Announce
    <2>1. CASE InCall(Update)
      <3>1. Update = Head(call.todo) \/ (Update \in ToSet(Tail(call.todo)) /\ Len(call.todo) # 1)
        BY <1>2, <2>1, AnnounceFacts, InTail DEF InCall
      <3> QED
        BY <1>2, <1>s, <3>1, AnnounceFacts DEF UpdateComing, InCall
    <2>2. CASE Update \in ToSet(signals)
      BY <1>2, <2>2, AnnounceFacts DEF UpdateComing
    <2>3. CASE Update \in ToSet(wire)
      BY <1>2, <1>s, <2>3, AnnounceFacts DEF UpdateComing
    <2> QED
      BY <2>1, <2>2, <2>3 DEF UpdateComing
  <1>3. CASE ReadActive
    <2>1. ~InCall(Update)
      <3>1. CASE call = NoCall
        BY <3>1 DEF InCall
      <3>2. CASE call # NoCall
        <4>1. /\ call.todo \in Seq(Todo) /\ call.todo # <<>> /\ ReadsLast(call.todo)
              /\ Head(call.todo) = ReadActiveIndex
          BY <1>3, <3>2, CallFacts DEF ReadActive, Kept, TodoShape
        <4>2. Len(call.todo) = 1
          BY <4>1, TodoTail
        <4>3. Update # Head(call.todo)
          BY <4>1, SignalFacts
        <4> QED
          BY <4>1, <4>2, <4>3, InTail DEF InCall
      <3> QED
        BY <3>1, <3>2
    <2> QED
      BY <1>3, <2>1 DEF ReadActive, UpdateComing
  <1>4. CASE EmitSignal
    <2>1. /\ signals \in Seq(Signal) /\ signals # <<>> /\ Head(signals) \in Signal
          /\ Send(Head(signals)) /\ signals' = Tail(signals) /\ call' = call
      BY <1>4, Sent DEF EmitSignal, Kept, TypeOK
    <2>2. CASE InCall(Update)
      BY <2>1, <2>2 DEF UpdateComing, InCall
    <2>3. CASE Update \in ToSet(signals)
      <3>1. Update = Head(signals) \/ Update \in ToSet(Tail(signals))
        BY <2>1, <2>3, InTail
      <3> QED
        BY <1>s, <2>1, <3>1 DEF UpdateComing
    <2>4. CASE Update \in ToSet(wire)
      BY <1>s, <2>1, <2>4 DEF UpdateComing
    <2> QED
      BY <2>2, <2>3, <2>4 DEF UpdateComing
  <1> QED
    BY <1>1, <1>2, <1>3, <1>4

\* What is lost with a signal that could not be sent is recorded.
LEMMA LostSignals ==
    ASSUME Kept, AnnounceFails \/ EmitFails
    PROVE  /\ UNCHANGED <<daemon, wire, applet>>
           /\ missed.history => missed'.history
           /\ missed.index => missed'.index
           /\ UpdateComing => UpdateComing' \/ missed'.history
           /\ IndexComing => IndexComing' \/ missed'.index
  <1>1. CASE AnnounceFails
    <2>1. /\ call' = NoCall /\ UNCHANGED <<daemon, signals, wire, applet>>
          /\ missed'.history = (missed.history \/ Update \in ToSet(call.todo))
          /\ missed'.index = (missed.index \/ ToSet(call.todo) \ {Update, EmptyHistory} # {})
      BY <1>1 DEF AnnounceFails, Lose
    <2>2. UpdateComing => UpdateComing' \/ missed'.history
      BY <2>1 DEF UpdateComing, InCall
    <2>3. IndexComing => IndexComing' \/ missed'.index
      BY <2>1 DEF IndexComing, NoneIn
    <2> QED
      BY <2>1, <2>2, <2>3
  <1>2. CASE EmitFails
    <2>1. /\ signals' = Tail(signals) /\ UNCHANGED <<daemon, call, wire, applet>>
          /\ missed'.history = (missed.history \/ Update = Head(signals))
          /\ missed'.index = (missed.index \/ Head(signals) \notin {Update, EmptyHistory})
      BY <1>2 DEF EmitFails, Lose
    <2>2. signals \in Seq(Signal) /\ signals # <<>>
      BY <1>2 DEF EmitFails, Kept, TypeOK
    <2> HIDE DEF Signal
    <2>3. UpdateComing => UpdateComing' \/ missed'.history
      <3>1. Update \in ToSet(signals) => Update = Head(signals) \/ Update \in ToSet(signals')
        BY <2>1, <2>2, InTail
      <3> QED
        BY <2>1, <3>1 DEF UpdateComing, InCall
    <2>4. IndexComing => IndexComing' \/ missed'.index
      <3>1. ASSUME Head(signals) \in {Update, EmptyHistory}, ~NoneIn(signals, IndexSignals)
            PROVE  ~NoneIn(signals', IndexSignals)
        <4>1. PICK last \in IndexSignals : LastIn(signals, IndexSignals, last)
          BY <2>2, <3>1, LastExists
        <4>2. Head(signals) \notin IndexSignals
          BY <3>1, SignalFacts
        <4>3. LastIn(signals', IndexSignals, last)
          BY <2>1, <2>2, <4>1, <4>2, TailLast
        <4> QED
          BY <4>3 DEF LastIn, NoneIn
      <3> QED
        BY <2>1, <3>1 DEF IndexComing, NoneIn
    <2> QED
      BY <2>1, <2>3, <2>4
  <1> QED
    BY <1>1, <1>2

\* A handler that has changed the list is about to send an Update, or has
\* failed.
LEMMA NewListAnnounced ==
    ASSUME \/ Add \/ Delete \/ Empty \/ SelectAtOffset \/ Select \/ SelectAtIndex \/ GiveUp
           \/ Reload \/ Ingest \/ DaemonExits \/ DaemonStarts,
           Kept
    PROVE  UpdateComing' \/ missed'.history
  <1>m. ASSUME MissBoth \/ Miss("history")
        PROVE  missed'.history
    <2>1. missed \in MissedType
      BY DEF Kept, TypeOK, MissedType
    <2> QED
      BY <1>m, <2>1 DEF MissBoth, Miss, MissedType
  <1>a. ASSUME NEW at \in {"writing", "announcing"}, NEW todo \in Seq(Todo),
               call' = [at |-> at, todo |-> todo], Update \in ToSet(todo)
        PROVE  UpdateComing'
    <2>1. call' # NoCall /\ call'.todo = todo
      BY <1>a DEF NoCall
    <2> QED
      BY <1>a, <2>1 DEF UpdateComing, InCall
  <1>t. \A i \in Index :
           /\ <<Update, ActiveIndexChanged(i)>> \in Seq(Todo)
           /\ Update \in ToSet(<<Update, ActiveIndexChanged(i)>>)
           /\ <<ActiveIndexChanged(i), Update>> \in Seq(Todo)
           /\ Update \in ToSet(<<ActiveIndexChanged(i), Update>>)
    <2> TAKE i \in Index
    <2>1. Update \in Todo /\ ActiveIndexChanged(i) \in Todo
      BY SignalFacts DEF Todo
    <2> HIDE DEF Todo
    <2> QED
      BY <2>1 DEF ToSet
  <1>d. /\ <<Update, ReadActiveIndex>> \in Seq(Todo)
        /\ Update \in ToSet(<<Update, ReadActiveIndex>>)
    <2>1. Update \in Todo /\ ReadActiveIndex \in Todo
      BY SignalFacts DEF Todo
    <2> HIDE DEF Todo
    <2> QED
      BY <2>1 DEF ToSet
  <1> HIDE DEF Todo
  <1>1. CASE Add
    BY <1>1, <1>a, <1>t, <1>m, SyncAssumption DEF Add, Handle
  <1>2. CASE Delete
    BY <1>2, <1>a, <1>d, <1>m DEF Delete, Handle
  <1>3. CASE SelectAtOffset
    <2>1. PICK i \in Index :
             call' = [at |-> "writing", todo |-> <<ActiveIndexChanged(i), Update>>]
      BY <1>3 DEF SelectAtOffset, Choose
    <2> QED
      BY <1>a, <1>t, <2>1
  <1>4. CASE Select
    BY <1>4, <1>a, <1>t, SyncAssumption DEF Select, Choose
  <1>5. CASE SelectAtIndex
    <2>1. clicked \in Index
      BY <1>5 DEF SelectAtIndex, Kept, TypeOK
    <2> QED
      BY <1>5, <1>a, <1>t, <2>1 DEF SelectAtIndex, Choose
  <1>6. CASE Empty \/ GiveUp \/ Reload \/ DaemonExits \/ DaemonStarts
    BY <1>6, <1>m DEF Empty, GiveUp, Reload, DaemonExits, DaemonStarts
  <1>7. CASE Ingest
    <2>1. CASE MissBoth
      BY <1>m, <2>1
    <2>2. CASE ~MissBoth
      <3> DEFINE room == SignalCap - Len(signals)
      <3>0. signals \in Seq(Signal) /\ Update \in Signal
        BY SignalFacts DEF Kept, TypeOK
      <3>1. /\ signals' = signals \o (CASE room = 0 -> <<>>
                                       [] room = 1 -> <<Update>>
                                       [] OTHER -> <<Update, ActiveIndexChanged(0)>>)
        BY <1>7, <2>2 DEF Ingest
      <3>r. ASSUME room = 0
            PROVE  missed'.history
        <4>1. missed' = [history |-> missed.history \/ room = 0,
                         index |-> missed.index \/ room < 2]
          BY <1>7, <2>2 DEF Ingest
        <4>2. missed'.history = (missed.history \/ room = 0)
          BY <4>1
        <4> QED
          BY <3>r, <4>2
      <3>2. ActiveIndexChanged(0) \in Signal
        BY SignalFacts, SyncAssumption
      <3> HIDE DEF room, Signal
      <3>3. ASSUME NEW told \in Seq(Signal), Len(told) > 0, told[1] = Update,
                   signals' = signals \o told
            PROVE  UpdateComing'
        <4>1. /\ Len(signals) + 1 \in DOMAIN signals'
              /\ signals'[Len(signals) + 1] = Update
          BY <3>0, <3>3
        <4> QED
          BY <4>1 DEF ToSet, UpdateComing
      <3>4. CASE room = 1
        <4>1. signals' = signals \o <<Update>>
          BY <3>1, <3>4
        <4>2. <<Update>> \in Seq(Signal) /\ Len(<<Update>>) > 0 /\ <<Update>>[1] = Update
          BY <3>0
        <4> QED
          BY <3>3, <4>1, <4>2
      <3>5. CASE room # 0 /\ room # 1
        <4> DEFINE told == <<Update, ActiveIndexChanged(0)>>
        <4>1. signals' = signals \o told
          BY <3>1, <3>5
        <4>2. told \in Seq(Signal) /\ Len(told) > 0 /\ told[1] = Update
          BY <3>0, <3>2
        <4> QED
          BY <3>3, <4>1, <4>2
      <3> QED
        BY <3>r, <3>4, <3>5
    <2> QED
      BY <2>1, <2>2
  <1> QED
    BY <1>1, <1>2, <1>3, <1>4, <1>5, <1>6, <1>7

LEMMA ListKept ==
    ASSUME Kept, FetchedListFresh, ListFreshAtLast, [Next]_vars
    PROVE  FetchedListFresh' /\ ListFreshAtLast'
  <1>0. /\ ui \in Seq(Event) /\ wire \in Seq(Signal) /\ missed \in MissedType
        /\ listener \in [subscribed : BOOLEAN, fetch : FetchState]
        /\ listener.fetch \in FetchState
        /\ shown \in [history : History \cup {None}, active_index : Index]
        /\ history \in History
    BY DEF Kept, TypeOK, FetchState, MissedType
  <1>a. ASSUME missed'.history \/ UpdateComing'
        PROVE  FetchedListFresh' /\ ListFreshAtLast'
    BY <1>a DEF FetchedListFresh, ListFreshAtLast
  <1>b. ASSUME history' = history, listener'.fetch = listener.fetch, ui' = ui,
               shown'.history = shown.history,
               missed.history => missed'.history,
               UpdateComing => UpdateComing' \/ missed'.history
        PROVE  FetchedListFresh' /\ ListFreshAtLast'
    BY <1>b DEF FetchedListFresh, ListFreshAtLast, Fetching, ShownAtLast, LastIn, NoneIn
  <1>c. ASSUME Fetching' \in {"get_history", "backoff"}
        PROVE  FetchedListFresh' /\ ListFreshAtLast'
    BY <1>c DEF FetchedListFresh, ListFreshAtLast
  <1>d. ASSUME UNCHANGED <<call, signals, wire>>
        PROVE  UpdateComing' <=> UpdateComing
    BY <1>d DEF UpdateComing, InCall
  <1> HIDE DEF Event, Signal, FetchState
  <1>1. CASE \/ Add \/ Delete \/ Empty \/ SelectAtOffset \/ Select \/ SelectAtIndex \/ GiveUp
             \/ Reload \/ Ingest \/ DaemonExits \/ DaemonStarts
    BY <1>1, <1>a, NewListAnnounced
  <1>2. CASE SetActiveIndex
    <2>1. /\ history' = history /\ UNCHANGED <<signals, wire, listener, ui, shown>>
          /\ call = NoCall
      BY <1>2 DEF SetActiveIndex, Handle, Operate, applet
    <2>2. missed.history => missed'.history
      BY <1>2 DEF SetActiveIndex, Handle, MissBoth
    <2>3. UpdateComing => UpdateComing'
      BY <2>1 DEF UpdateComing, InCall
    <2> QED
      BY <1>b, <2>1, <2>2, <2>3
  <1>3. CASE Written \/ Announce \/ ReadActive \/ EmitSignal
    <2>1. history' = history /\ UNCHANGED <<listener, ui, shown>>
      BY <1>3 DEF Written, Announce, ReadActive, EmitSignal, daemon, applet
    <2>2. missed.history => missed'.history
      <3>1. ASSUME NEW signal, Send(signal), missed.history
            PROVE  missed'.history
        BY <3>1 DEF Send
      <3> QED
        BY <1>3, <3>1 DEF Written, Announce, ReadActive, EmitSignal
    <2> QED
      BY <1>3, <1>b, <2>1, <2>2, UpdateGoesOn
  <1>14. CASE AnnounceFails \/ EmitFails
    <2>1. history' = history /\ UNCHANGED <<listener, ui, shown>>
      BY <1>14, LostSignals DEF daemon, applet
    <2> QED
      BY <1>14, <1>b, <2>1, LostSignals
  <1>4. CASE RefuseClick \/ BootGets \/ BootFails \/ \E i \in Index : SelectIndex(i)
    <2>1. /\ history' = history /\ UNCHANGED <<call, signals, wire, listener, ui>>
          /\ shown'.history = shown.history
      BY <1>0, <1>4 DEF RefuseClick, BootGets, BootFails, SelectIndex, daemon
    <2>2. missed'.history = missed.history
      BY <1>0, <1>4 DEF RefuseClick, Miss, BootGets, BootFails, SelectIndex, MissedType
    <2> QED
      BY <1>b, <1>d, <2>1, <2>2
  <1>5. CASE Subscribe
    <2>1. /\ history' = history /\ UNCHANGED <<call, signals, wire, ui, shown, missed>>
          /\ listener'.fetch = listener.fetch
      BY <1>0, <1>5 DEF Subscribe, daemon
    <2> QED
      BY <1>b, <1>d, <2>1
  <1>6. CASE ListenerFails \/ Reconnect
    <2>1. Fetching' \in {"get_history", "backoff"}
      BY <1>0, <1>6 DEF ListenerFails, Reconnect, Fetching, Start
    <2> QED
      BY <1>c, <2>1
  <1>7. CASE ListenerGetsHistory
    <2>1. /\ Fetching' = "get_active_index" /\ listener'.fetch.history = history
          /\ history' = history
      BY <1>0, <1>7 DEF ListenerGetsHistory, Fetching, daemon
    <2> QED
      BY <2>1 DEF FetchedListFresh, ListFreshAtLast
  <1>8. CASE ListenerGetsActiveIndex
    <2>1. /\ Fetching = "get_active_index" /\ Fetching' = "done"
          /\ listener'.fetch.history = listener.fetch.history
          /\ history' = history /\ UNCHANGED <<call, signals, wire>>
      BY <1>0, <1>8 DEF ListenerGetsActiveIndex, Fetching, daemon
    <2>2. missed'.history = missed.history
      BY <1>0, <1>8 DEF ListenerGetsActiveIndex, MissedType
    <2> QED
      BY <1>d, <2>1, <2>2 DEF FetchedListFresh, ListFreshAtLast
  <1>9. CASE ListenerRefreshes
    <2> DEFINE e == Refreshed(listener.fetch)
    <2>1. /\ Fetching = "done" /\ Fetching' = "none" /\ history' = history
          /\ UNCHANGED <<call, signals, wire, missed>>
      BY <1>0, <1>9 DEF ListenerRefreshes, Fetching, daemon
    <2>2. /\ e \in Event /\ e \in RefreshedEvents /\ e.history = listener.fetch.history
          /\ ui' = Append(ui, e)
      BY <1>9, <2>1, RefreshedTyped DEF ListenerRefreshes, Kept
    <2> HIDE DEF e
    <2>3. LastIn(ui', RefreshedEvents, e)
      BY <1>0, <2>2, AppendLast
    <2>4. missed.history \/ UpdateComing \/ e.history = history
      BY <2>1, <2>2 DEF FetchedListFresh
    <2>5. FetchedListFresh'
      BY <2>1 DEF FetchedListFresh
    <2>6. ListFreshAtLast'
      BY <1>d, <2>1, <2>2, <2>3, <2>4 DEF ListFreshAtLast, ShownAtLast, LastIn
    <2> QED
      BY <2>5, <2>6
  <1>10. CASE ListenerTakes
    <2>1. CASE Head(wire) = Update
      <3>1. listener' = [listener EXCEPT !.fetch = Start]
        BY <1>10, <2>1 DEF ListenerTakes
      <3>2. Fetching' = "get_history"
        BY <1>0, <3>1 DEF Fetching, Start
      <3> QED
        BY <1>c, <3>2
    <2>2. CASE Head(wire) # Update
      <3>1. /\ Fetching = "none" /\ history' = history
            /\ UNCHANGED <<call, signals, missed, shown, listener>>
            /\ wire # <<>> /\ wire' = Tail(wire)
        BY <1>0, <1>10, <2>2 DEF ListenerTakes, Fetching, daemon
      <3>2. UpdateComing => UpdateComing'
        BY <1>0, <2>2, <3>1, InTail DEF UpdateComing, InCall
      <3>3. CASE ui' = ui
        BY <1>b, <3>1, <3>2, <3>3
      <3>4. CASE Head(wire).member = "ActiveIndexChanged"
        <4> DEFINE e == [event |-> "ActiveIndexChanged", active_index |-> Head(wire).index]
        <4>1. e \in Event /\ e \notin RefreshedEvents /\ ui' = Append(ui, e)
          <5>1. Head(wire) \in Signal
            BY <1>0, <3>1
          <5>2. Head(wire).index \in Index
            BY <3>4, <5>1, SignalFacts
          <5> QED
            BY <1>10, <3>4, <5>2, EventFacts DEF ListenerTakes
        <4> HIDE DEF e
        <4>2. /\ \A last : LastIn(ui, RefreshedEvents, last) => LastIn(ui', RefreshedEvents, last)
              /\ NoneIn(ui, RefreshedEvents) => NoneIn(ui', RefreshedEvents)
          BY <1>0, <4>1, AppendLast
        <4>3. ShownAtLast(history) => ShownAtLast(history)'
          BY <3>1, <4>2 DEF ShownAtLast, LastIn, NoneIn
        <4>4. FetchedListFresh'
          BY <3>1 DEF FetchedListFresh, Fetching
        <4>5. ListFreshAtLast'
          BY <3>1, <3>2, <4>3 DEF ListFreshAtLast, Fetching
        <4> QED
          BY <4>4, <4>5
      <3> QED
        BY <1>10, <3>3, <3>4 DEF ListenerTakes
    <2> QED
      BY <2>1, <2>2
  <1>11. CASE BootShows
    <2>1. /\ history' = history /\ UNCHANGED <<call, signals, wire, listener, ui>>
          /\ shown'.history = boot.history
      BY <1>11 DEF BootShows, Show, daemon
    <2>2. missed'.history \/ boot.history = history
      BY <1>0, <1>11 DEF BootShows
    <2>3. missed.history => missed'.history
      BY <1>11 DEF BootShows
    <2>4. CASE boot.history = history
      <3>1. ShownAtLast(history) => ShownAtLast(history)'
        BY <2>1, <2>4 DEF ShownAtLast, LastIn, NoneIn
      <3> QED
        BY <1>d, <2>1, <2>3, <3>1 DEF FetchedListFresh, ListFreshAtLast, Fetching
    <2> QED
      BY <1>a, <2>2, <2>4
  <1>12. CASE UpdateApp
    <2>1. /\ history' = history /\ UNCHANGED <<call, signals, wire, listener, missed>>
          /\ ui # <<>> /\ ui' = Tail(ui)
      BY <1>12 DEF UpdateApp, daemon
    <2>2. Head(ui) \in Event
      BY <1>0, <2>1
    <2>3. ASSUME NEW last, LastIn(ui, RefreshedEvents, last), last.history = history,
                 last \in RefreshedEvents
          PROVE  ShownAtLast(history)'
      <3>1. \/ LastIn(ui', RefreshedEvents, last)
            \/ last = Head(ui) /\ NoneIn(ui', RefreshedEvents)
        BY <1>0, <2>1, <2>3, TailLast
      <3>2. CASE LastIn(ui', RefreshedEvents, last)
        BY <2>1, <2>3, <3>2 DEF ShownAtLast, LastIn
      <3>3. CASE last = Head(ui) /\ NoneIn(ui', RefreshedEvents)
        <4>1. shown'.history = history
          <5>1. Head(ui).event = "Refreshed"
            BY <2>2, <2>3, <3>3, EventFacts
          <5>2. Show(Head(ui))
            BY <1>12, <5>1 DEF UpdateApp
          <5> QED
            BY <2>3, <3>3, <5>2 DEF Show
        <4> QED
          BY <2>1, <3>3, <4>1 DEF ShownAtLast, NoneIn
      <3> QED
        BY <3>1, <3>2, <3>3
    <2>4. ASSUME NoneIn(ui, RefreshedEvents), shown.history = history
          PROVE  ShownAtLast(history)'
      <3>1. NoneIn(ui', RefreshedEvents) /\ Head(ui) \notin RefreshedEvents
        BY <1>0, <2>1, <2>4, TailLast
      <3>2. Head(ui).event \in {"ActiveIndexChanged", "Disconnected"}
        BY <2>2, <3>1, EventFacts
      <3>3. shown'.history = shown.history
        BY <1>0, <1>12, <3>2 DEF UpdateApp
      <3> QED
        BY <2>1, <2>4, <3>1, <3>3 DEF ShownAtLast, NoneIn
    <2>5. ShownAtLast(history) => ShownAtLast(history)'
      BY <2>3, <2>4 DEF ShownAtLast
    <2> QED
      BY <1>d, <2>1, <2>5 DEF FetchedListFresh, ListFreshAtLast, Fetching
  <1>13. CASE UNCHANGED vars
    <2>1. UNCHANGED <<history, listener, ui, shown, missed, call, signals, wire>>
      BY <1>13 DEF vars, daemon, applet
    <2> QED
      BY <1>b, <1>d, <2>1
  <1> QED
    BY <1>1, <1>2, <1>3, <1>4, <1>5, <1>6, <1>7, <1>8, <1>9, <1>10, <1>11, <1>12, <1>13,
       <1>14
    DEF Next, Operations, Announcing, Listening, Interface

-----------------------------------------------------------------------------
(* The index.                                                              *)

\* A handler that has changed the index is about to announce one, or has
\* failed.
LEMMA NewIndexAnnounced ==
    ASSUME \/ Add \/ SetActiveIndex \/ Delete \/ Empty \/ SelectAtOffset \/ Select
           \/ SelectAtIndex \/ GiveUp \/ ReadActive \/ Ingest \/ DaemonExits \/ DaemonStarts,
           Kept
    PROVE  IndexComing' \/ missed'.index
  <1>m. ASSUME MissBoth
        PROVE  missed'.index
    BY <1>m DEF MissBoth
  <1>a. ASSUME NEW at \in {"writing", "announcing"}, NEW todo, NEW elt \in ToSet(todo),
               call' = [at |-> at, todo |-> todo], elt # Update, elt # EmptyHistory
        PROVE  IndexComing'
    <2>1. call' # NoCall /\ call'.todo = todo
      BY <1>a DEF NoCall
    <2> QED
      BY <1>a, <2>1 DEF IndexComing
  <1>t. \A i : /\ ActiveIndexChanged(i) \in ToSet(<<ActiveIndexChanged(i)>>)
              /\ \A other : /\ ActiveIndexChanged(i) \in ToSet(<<ActiveIndexChanged(i), other>>)
                           /\ ActiveIndexChanged(i) \in ToSet(<<other, ActiveIndexChanged(i)>>)
              /\ ActiveIndexChanged(i) # Update /\ ActiveIndexChanged(i) # EmptyHistory
    BY SignalFacts DEF ToSet
  <1>d. /\ ReadActiveIndex \in ToSet(<<Update, ReadActiveIndex>>)
        /\ ReadActiveIndex # Update /\ ReadActiveIndex # EmptyHistory
    BY SignalFacts DEF ToSet
  <1>1. CASE Add
    BY <1>1, <1>a, <1>t, <1>m DEF Add, Handle
  <1>2. CASE SetActiveIndex
    <2>1. PICK i \in Index : \/ call' = [at |-> "announcing", todo |-> <<ActiveIndexChanged(i)>>]
                             \/ MissBoth
      BY <1>2 DEF SetActiveIndex, Handle
    <2> QED
      BY <1>a, <1>t, <1>m, <2>1
  <1>3. CASE Delete
    BY <1>3, <1>a, <1>d, <1>m DEF Delete, Handle
  <1>4. CASE Empty
    BY <1>4, <1>a, <1>t DEF Empty
  <1>5. CASE SelectAtOffset
    <2>1. PICK i \in Index :
             call' = [at |-> "writing", todo |-> <<ActiveIndexChanged(i), Update>>]
      BY <1>5 DEF SelectAtOffset, Choose
    <2> QED
      BY <1>a, <1>t, <2>1
  <1>6. CASE Select \/ SelectAtIndex
    BY <1>6, <1>a, <1>t DEF Select, SelectAtIndex, Choose
  <1>7. CASE GiveUp \/ DaemonExits \/ DaemonStarts
    BY <1>7, <1>m DEF GiveUp, DaemonExits, DaemonStarts
  <1>8. CASE ReadActive
    <2>1. call' = [at |-> "announcing", todo |-> <<ActiveIndexChanged(active)>>]
      <3>1. call \in [at : {"writing", "announcing"}, todo : Seq(Todo)] /\ call.at = "announcing"
        BY <1>8, CallFacts DEF ReadActive, Kept, TypeOK, Call, Todo
      <3> QED
        BY <1>8, <3>1 DEF ReadActive
    <2> QED
      BY <1>a, <1>t, <2>1
  <1>9. CASE Ingest
    <2>1. CASE MissBoth
      BY <1>m, <2>1
    <2>2. CASE ~MissBoth
      <3> DEFINE room == SignalCap - Len(signals)
      <3>0. /\ signals \in Seq(Signal) /\ Update \in Signal /\ ActiveIndexChanged(0) \in Signal
            /\ ActiveIndexChanged(0) \in IndexSignals /\ room \in Nat
        BY SignalFacts, SyncAssumption DEF Kept, TypeOK, IndexSignals
      <3>r. ASSUME room < 2
            PROVE  missed'.index
        <4>1. missed' = [history |-> missed.history \/ room = 0,
                         index |-> missed.index \/ room < 2]
          BY <1>9, <2>2 DEF Ingest
        <4>2. missed'.index = (missed.index \/ room < 2)
          BY <4>1
        <4> QED
          BY <3>r, <4>2
      <3>1. ASSUME NEW told \in Seq(Signal), NEW k \in 1 .. Len(told),
                   told[k] = ActiveIndexChanged(0), signals' = signals \o told
            PROVE  IndexComing'
        <4> HIDE DEF Signal, IndexSignals, room
        <4>0. signals \in Seq(Signal) /\ Len(signals) \in Nat /\ Len(told) \in Nat
          BY <3>0
        <4>1. /\ Len(signals) + k \in DOMAIN signals'
              /\ signals'[Len(signals) + k] = told[k]
          BY <3>1, <4>0
        <4> QED
          BY <3>0, <3>1, <4>1 DEF IndexComing, NoneIn
      <3>2. CASE room >= 2
        <4> DEFINE told == <<Update, ActiveIndexChanged(0)>>
        <4>1. signals' = signals \o (CASE room = 0 -> <<>>
                                      [] room = 1 -> <<Update>>
                                      [] OTHER -> told)
          BY <1>9, <2>2 DEF Ingest
        <4>2. signals' = signals \o told
          BY <3>0, <3>2, <4>1
        <4> HIDE DEF Signal
        <4>3. told \in Seq(Signal) /\ 2 \in 1 .. Len(told) /\ told[2] = ActiveIndexChanged(0)
          BY <3>0
        <4> HIDE DEF told, IndexComing
        <4> QED
          BY <3>1, <4>2, <4>3
      <3> QED
        BY <3>0, <3>2, <3>r
    <2> QED
      BY <2>1, <2>2
  <1> QED
    BY <1>1, <1>2, <1>3, <1>4, <1>5, <1>6, <1>7, <1>8, <1>9

\* A signal that leaves the daemon, with the applet as it is.
LEMMA SentIndex ==
    ASSUME Kept, IndexRightAtLast, NEW signal \in Signal, Send(signal),
           UNCHANGED <<daemon, applet>>,
           signal \notin IndexSignals /\ IndexComing => IndexComing'
    PROVE  IndexRightAtLast'
  <1>0. wire \in Seq(Signal) /\ active' = active /\ active \in Index
        /\ UNCHANGED <<listener, ui, shown, clicked>>
    BY DEF Kept, TypeOK, daemon, applet
  <1> HIDE DEF Signal
  <1>1. CASE signal.member = "ActiveIndexChanged"
    <2>1. missed'.index = (~listener.subscribed \/ signal.index # active)
      BY <1>1 DEF Send
    <2>2. CASE listener.subscribed /\ signal.index = active
      <3>1. wire' = Append(wire, signal)
        BY <2>2 DEF Send
      <3>2. signal \in IndexSignals /\ signal = ActiveIndexChanged(active)
        BY <1>1, <2>2, SignalFacts
      <3>3. LastIn(wire', IndexSignals, ActiveIndexChanged(active))
        BY <1>0, <3>1, <3>2, AppendLast
      <3> QED
        BY <1>0, <3>3 DEF IndexRightAtLast, LineEndsAt, LastIn
    <2> QED
      BY <2>1, <2>2 DEF IndexRightAtLast
  <1>2. CASE signal.member # "ActiveIndexChanged"
    <2>1. signal \notin IndexSignals
      BY <1>2, SignalFacts
    <2>2. missed'.index = missed.index
      BY <1>2 DEF Send
    <2>3. wire' = Append(wire, signal) \/ wire' = wire
      BY DEF Send
    <2>4. /\ \A last : LastIn(wire, IndexSignals, last) => LastIn(wire', IndexSignals, last)
          /\ NoneIn(wire, IndexSignals) => NoneIn(wire', IndexSignals)
      BY <1>0, <2>1, <2>3, AppendLast
    <2>5. LineEndsAt(active) => LineEndsAt(active)'
      BY <1>0, <2>4
      DEF LineEndsAt, LastIn, NoneIn, FetchEndsAt, UiEndsAt, Fetching
    <2> QED
      BY <1>0, <2>1, <2>2, <2>5 DEF IndexRightAtLast, Fetching
  <1> QED
    BY <1>1, <1>2

LEMMA IndexKept ==
    ASSUME Kept, IndexRightAtLast, [Next]_vars
    PROVE  IndexRightAtLast'
  <1>0. /\ ui \in Seq(Event) /\ wire \in Seq(Signal) /\ missed \in MissedType
        /\ listener \in [subscribed : BOOLEAN, fetch : FetchState]
        /\ listener.fetch \in FetchState
        /\ shown \in [history : History \cup {None}, active_index : Index]
        /\ active \in Index
    BY DEF Kept, TypeOK, FetchState, MissedType
  <1>a. ASSUME missed'.index \/ clicked' # None \/ IndexComing'
        PROVE  IndexRightAtLast'
    BY <1>a DEF IndexRightAtLast
  <1>b. ASSUME active' = active, listener'.fetch = listener.fetch, ui' = ui, wire' = wire,
               shown'.active_index = shown.active_index, clicked' = clicked,
               missed.index => missed'.index, IndexComing => IndexComing'
        PROVE  IndexRightAtLast'
    BY <1>b
    DEF IndexRightAtLast, LineEndsAt, LastIn, NoneIn, FetchEndsAt, UiEndsAt, Fetching
  <1>c. ASSUME Fetching' \in {"get_history", "get_active_index", "backoff"}
        PROVE  IndexRightAtLast'
    BY <1>c DEF IndexRightAtLast
  <1>d. ASSUME UNCHANGED <<call, signals>>
        PROVE  IndexComing' <=> IndexComing
    BY <1>d DEF IndexComing, NoneIn
  <1> HIDE DEF Event, Signal, FetchState
  <1>1. CASE \/ Add \/ SetActiveIndex \/ Delete \/ Empty \/ SelectAtOffset \/ Select
             \/ SelectAtIndex \/ GiveUp \/ ReadActive \/ Ingest \/ DaemonExits \/ DaemonStarts
    BY <1>1, <1>a, NewIndexAnnounced
  <1>2. CASE RefuseClick \/ \E i \in Index : SelectIndex(i)
    <2>1. RefuseClick => missed'.index
      BY <1>0 DEF RefuseClick, Miss, MissedType
    <2>2. (\E i \in Index : SelectIndex(i)) => clicked' # None
      BY SyncAssumption DEF SelectIndex
    <2> QED
      BY <1>2, <1>a, <2>1, <2>2
  <1>3. CASE Reload
    <2>1. /\ active' = active /\ UNCHANGED <<call, signals, wire, applet>>
          /\ missed'.index = missed.index
      BY <1>0, <1>3 DEF Reload, Operate, Miss, MissedType
    <2> QED
      BY <1>b, <1>d, <2>1 DEF applet
  <1>4. CASE Written
    <2>1. call # NoCall /\ call'.todo = call.todo /\ call' # NoCall
      BY <1>4, CallFacts DEF Written, Kept, TypeOK, Call, NoCall
    <2>2. IndexComing => IndexComing'
      BY <1>4, <2>1 DEF Written, IndexComing, NoneIn
    <2> QED
      BY <1>4, <1>b, <2>2 DEF Written, daemon, applet
  <1>5. CASE Announce
    <2>1. /\ call # NoCall /\ call.todo \in Seq(Todo) /\ call.todo # <<>>
          /\ Head(call.todo) \in Signal /\ Send(Head(call.todo)) /\ signals' = signals
          /\ Len(call.todo) # 1 => call' # NoCall /\ call'.todo = Tail(call.todo)
      BY <1>5, AnnounceFacts
    <2>2. ASSUME Head(call.todo) \notin IndexSignals, IndexComing
          PROVE  IndexComing'
      <3>1. CASE ~NoneIn(signals, IndexSignals)
        BY <2>1, <3>1 DEF IndexComing, NoneIn
      <3>2. CASE ~(ToSet(call.todo) \subseteq {Update, EmptyHistory})
        <4>1. PICK elt \in ToSet(call.todo) : elt # Update /\ elt # EmptyHistory
          BY <3>2
        <4>2. Head(call.todo) \in {Update, EmptyHistory}
          BY <2>1, <2>2 DEF Signal, IndexSignals
        <4>3. elt \in ToSet(Tail(call.todo)) /\ Len(call.todo) # 1
          BY <2>1, <4>1, <4>2, InTail
        <4> QED
          BY <2>1, <4>1, <4>3 DEF IndexComing
      <3> QED
        BY <2>2, <3>1, <3>2 DEF IndexComing
    <2> QED
      BY <1>5, <2>1, <2>2, SentIndex DEF Announce
  <1>6. CASE EmitSignal
    <2>1. /\ signals \in Seq(Signal) /\ signals # <<>> /\ Head(signals) \in Signal
          /\ Send(Head(signals)) /\ signals' = Tail(signals) /\ call' = call
      BY <1>6, Sent DEF EmitSignal, Kept, TypeOK
    <2>2. ASSUME Head(signals) \notin IndexSignals, ~NoneIn(signals, IndexSignals)
          PROVE  ~NoneIn(signals', IndexSignals)
      <3>1. PICK last \in IndexSignals : LastIn(signals, IndexSignals, last)
        BY <2>1, <2>2, LastExists
      <3>2. LastIn(signals', IndexSignals, last)
        BY <2>1, <2>2, <3>1, TailLast
      <3> QED
        BY <3>2 DEF LastIn, NoneIn
    <2>3. Head(signals) \notin IndexSignals /\ IndexComing => IndexComing'
      BY <2>1, <2>2 DEF IndexComing, NoneIn
    <2> QED
      BY <1>6, <2>1, <2>3, SentIndex DEF EmitSignal
  <1>16. CASE AnnounceFails \/ EmitFails
    <2>1. CASE missed'.index
      BY <1>a, <2>1
    <2>2. CASE ~missed'.index
      <3>1. UNCHANGED <<daemon, wire, applet>> /\ (IndexComing => IndexComing')
        BY <1>16, <2>2, LostSignals
      <3> QED
        BY <1>16, <1>b, <3>1, LostSignals DEF daemon, applet
    <2> QED
      BY <2>1, <2>2
  <1>7. CASE ListenerGetsHistory \/ ListenerFails \/ Reconnect
    <2>1. Fetching' \in {"get_history", "get_active_index", "backoff"}
      BY <1>0, <1>7 DEF ListenerGetsHistory, ListenerFails, Reconnect, Fetching, Start
    <2> QED
      BY <1>c, <2>1
  <1>8. CASE ListenerGetsActiveIndex
    <2>1. /\ Fetching' = "done" /\ listener'.fetch.active_index = active
          /\ active' = active /\ wire' = wire
      BY <1>0, <1>8 DEF ListenerGetsActiveIndex, Fetching, daemon
    <2>2. CASE NoneIn(wire, IndexSignals)
      BY <2>1, <2>2 DEF IndexRightAtLast, LineEndsAt, NoneIn, FetchEndsAt
    <2>3. CASE ~NoneIn(wire, IndexSignals)
      <3>1. PICK last \in IndexSignals : LastIn(wire, IndexSignals, last)
        BY <1>0, <2>3, LastExists
      <3>2. last.member = "ActiveIndexChanged" /\ last = ActiveIndexChanged(last.index)
        BY SignalFacts
      <3>3. last \in ToSet(wire)
        BY <3>1 DEF LastIn, ToSet
      <3>4. CASE last.index = active
        BY <2>1, <3>1, <3>2, <3>4 DEF IndexRightAtLast, LineEndsAt, LastIn
      <3>5. CASE last.index # active
        <4>1. StaleIndexBehind
          BY <3>2, <3>3, <3>5 DEF StaleIndexBehind
        <4>2. missed'.index
          BY <1>0, <1>8, <4>1 DEF ListenerGetsActiveIndex, MissedType
        <4> QED
          BY <1>a, <4>2
      <3> QED
        BY <3>4, <3>5
    <2> QED
      BY <2>2, <2>3
  <1>9. CASE Subscribe
    <2>1. /\ UNCHANGED <<daemon, call, signals, wire, ui, shown, missed, clicked>>
          /\ listener'.fetch = listener.fetch
      BY <1>0, <1>9 DEF Subscribe
    <2> QED
      BY <1>b, <1>d, <2>1 DEF daemon
  <1>10. CASE BootGets \/ BootFails
    BY <1>10, <1>b, <1>d DEF BootGets, BootFails, daemon
  <1>11. CASE ListenerRefreshes
    <2> DEFINE e == Refreshed(listener.fetch)
    <2>1. /\ Fetching = "done" /\ Fetching' = "none"
          /\ UNCHANGED <<daemon, call, signals, wire, missed, clicked>>
      BY <1>0, <1>11 DEF ListenerRefreshes, Fetching
    <2>2. /\ e \in Event /\ e \in RefreshedEvents /\ e.event = "Refreshed"
          /\ e.active_index = listener.fetch.active_index
          /\ ui' = Append(ui, e)
      BY <1>11, <2>1, RefreshedTyped DEF ListenerRefreshes, Kept
    <2>3. e \in IndexEvents
      BY <2>2, EventFacts
    <2> HIDE DEF e
    <2>4. LastIn(ui', IndexEvents, e)
      BY <1>0, <2>2, <2>3, AppendLast
    <2>5. LineEndsAt(active) => LineEndsAt(active)'
      BY <2>1, <2>2, <2>3, <2>4
      DEF LineEndsAt, LastIn, NoneIn, FetchEndsAt, UiEndsAt, daemon
    <2> QED
      BY <1>d, <2>1, <2>5 DEF IndexRightAtLast
  <1>12. CASE ListenerTakes
    <2>1. CASE Head(wire) = Update
      <3>1. listener' = [listener EXCEPT !.fetch = Start]
        BY <1>12, <2>1 DEF ListenerTakes
      <3>2. Fetching' = "get_history"
        BY <1>0, <3>1 DEF Fetching, Start
      <3> QED
        BY <1>c, <3>2
    <2>2. CASE Head(wire) # Update
      <3>1. /\ Fetching = "none" /\ active' = active
            /\ UNCHANGED <<call, signals, missed, shown, listener, clicked>>
            /\ wire # <<>> /\ wire' = Tail(wire) /\ Head(wire) \in Signal
        BY <1>0, <1>12, <2>2 DEF ListenerTakes, Fetching, daemon
      <3>2. CASE Head(wire).member # "ActiveIndexChanged"
        <4>1. ui' = ui /\ Head(wire) \notin IndexSignals
          BY <1>12, <3>1, <3>2, SignalFacts DEF ListenerTakes
        <4>2. /\ \A last : LastIn(wire, IndexSignals, last) => LastIn(wire', IndexSignals, last)
              /\ NoneIn(wire, IndexSignals) => NoneIn(wire', IndexSignals)
          BY <1>0, <3>1, <4>1, TailLast
        <4>3. LineEndsAt(active) => LineEndsAt(active)'
          BY <3>1, <4>1, <4>2
          DEF LineEndsAt, LastIn, NoneIn, FetchEndsAt, UiEndsAt, Fetching
        <4> QED
          BY <1>d, <3>1, <4>3 DEF IndexRightAtLast, Fetching
      <3>3. CASE Head(wire).member = "ActiveIndexChanged"
        <4> DEFINE e == [event |-> "ActiveIndexChanged", active_index |-> Head(wire).index]
        <4>1. /\ Head(wire).index \in Index /\ Head(wire) \in IndexSignals
              /\ Head(wire) = ActiveIndexChanged(Head(wire).index)
          BY <3>1, <3>3, SignalFacts
        <4>2. /\ e \in Event /\ e.event = "ActiveIndexChanged" /\ ui' = Append(ui, e)
              /\ e.active_index = Head(wire).index
          BY <1>12, <3>3, <4>1, EventFacts DEF ListenerTakes
        <4> HIDE DEF e
        <4>3. e \in IndexEvents
          BY <4>2, EventFacts
        <4>4. LastIn(ui', IndexEvents, e)
          BY <1>0, <4>2, <4>3, AppendLast
        <4>5. ASSUME LineEndsAt(active)
              PROVE  LineEndsAt(active)'
          <5>1. ~NoneIn(wire, IndexSignals)
            BY <1>0, <3>1, <4>1, TailLast
          <5>2. LastIn(wire, IndexSignals, ActiveIndexChanged(active))
            BY <4>5, <5>1 DEF LineEndsAt
          <5>3. \/ LastIn(wire', IndexSignals, ActiveIndexChanged(active))
                \/ ActiveIndexChanged(active) = Head(wire) /\ NoneIn(wire', IndexSignals)
            BY <1>0, <3>1, <5>2, TailLast
          <5>4. CASE LastIn(wire', IndexSignals, ActiveIndexChanged(active))
            BY <3>1, <5>4 DEF LineEndsAt, LastIn
          <5>5. CASE ActiveIndexChanged(active) = Head(wire) /\ NoneIn(wire', IndexSignals)
            <6>1. e.active_index = active
              BY <4>2, <5>5, SignalFacts
            <6> QED
              BY <3>1, <4>3, <4>4, <5>5, <6>1
              DEF LineEndsAt, FetchEndsAt, UiEndsAt, Fetching, LastIn, NoneIn
          <5> QED
            BY <5>3, <5>4, <5>5
        <4> QED
          BY <1>d, <3>1, <4>5 DEF IndexRightAtLast, Fetching
      <3> QED
        BY <3>2, <3>3
    <2> QED
      BY <2>1, <2>2
  <1>13. CASE BootShows
    <2>1. /\ UNCHANGED <<daemon, call, signals, wire, listener, ui, clicked>>
          /\ shown'.active_index = boot.active_index
      BY <1>13 DEF BootShows, Show
    <2>2. missed'.index = (missed.index \/ boot.active_index # active)
      BY <1>13 DEF BootShows
    <2>3. CASE boot.active_index = active
      <3>1. LineEndsAt(active) => LineEndsAt(active)'
        BY <2>1, <2>3
        DEF LineEndsAt, LastIn, NoneIn, FetchEndsAt, UiEndsAt, Fetching, daemon
      <3>2. missed.index => missed'.index
        BY <2>2
      <3> QED
        BY <1>d, <2>1, <3>1, <3>2 DEF IndexRightAtLast, Fetching
    <2>4. CASE boot.active_index # active
      BY <1>a, <2>2, <2>4
    <2> QED
      BY <2>3, <2>4
  <1>14. CASE UpdateApp
    <2>1. /\ UNCHANGED <<daemon, call, signals, wire, listener, missed, clicked>>
          /\ ui # <<>> /\ ui' = Tail(ui) /\ Head(ui) \in Event
      BY <1>0, <1>14 DEF UpdateApp
    <2>2. ASSUME NEW last, LastIn(ui, IndexEvents, last), last.active_index = active,
                 last \in IndexEvents
          PROVE  UiEndsAt(active)'
      <3>1. \/ LastIn(ui', IndexEvents, last)
            \/ last = Head(ui) /\ NoneIn(ui', IndexEvents)
        BY <1>0, <2>1, <2>2, TailLast
      <3>2. CASE LastIn(ui', IndexEvents, last)
        BY <2>1, <2>2, <3>2 DEF UiEndsAt, LastIn, daemon
      <3>3. CASE last = Head(ui) /\ NoneIn(ui', IndexEvents)
        <4>1. Head(ui).event \in {"Refreshed", "ActiveIndexChanged"}
          BY <2>1, <2>2, <3>3, EventFacts
        <4>2. CASE Head(ui).event = "Refreshed"
          <5>1. Show(Head(ui))
            BY <1>14, <4>2 DEF UpdateApp
          <5> QED
            BY <2>1, <2>2, <3>3, <5>1 DEF Show, UiEndsAt, NoneIn, daemon
        <4>3. CASE Head(ui).event = "ActiveIndexChanged"
          <5>1. shown' = [shown EXCEPT !.active_index = Head(ui).active_index]
            BY <1>14, <4>3 DEF UpdateApp
          <5>2. shown'.active_index = active
            BY <1>0, <2>2, <3>3, <5>1
          <5> QED
            BY <2>1, <3>3, <5>2 DEF UiEndsAt, NoneIn, daemon
        <4> QED
          BY <4>1, <4>2, <4>3
      <3> QED
        BY <3>1, <3>2, <3>3
    <2>3. ASSUME NoneIn(ui, IndexEvents), shown.active_index = active
          PROVE  UiEndsAt(active)'
      <3>1. NoneIn(ui', IndexEvents) /\ Head(ui) \notin IndexEvents
        BY <1>0, <2>1, <2>3, TailLast
      <3>2. Head(ui).event = "Disconnected"
        BY <2>1, <3>1, EventFacts
      <3>3. shown' = shown
        BY <1>14, <3>2 DEF UpdateApp
      <3> QED
        BY <2>1, <2>3, <3>1, <3>3 DEF UiEndsAt, NoneIn, daemon
    <2>4. UiEndsAt(active) => UiEndsAt(active)'
      BY <2>2, <2>3 DEF UiEndsAt
    <2>5. LineEndsAt(active) => LineEndsAt(active)'
      BY <2>1, <2>4 DEF LineEndsAt, FetchEndsAt, LastIn, NoneIn, Fetching, daemon
    <2> QED
      BY <1>d, <2>1, <2>5 DEF IndexRightAtLast, Fetching
  <1>15. CASE UNCHANGED vars
    BY <1>15, <1>b, <1>d DEF vars, daemon, applet
  <1> QED
    BY <1>1, <1>2, <1>3, <1>4, <1>5, <1>6, <1>7, <1>8, <1>9, <1>10, <1>11, <1>12, <1>13,
       <1>14, <1>15, <1>16
    DEF Next, Operations, Announcing, Listening, Interface

-----------------------------------------------------------------------------
(* The theorems.                                                           *)

LEMMA InvariantHolds == Spec => []IInv
  <1>1. Init => IInv
    <2> SUFFICES ASSUME Init
                 PROVE  IInv
      OBVIOUS
    <2>1. TypeOK
      <3>1. missed \in [history : BOOLEAN, index : BOOLEAN]
        BY DEF Init
      <3>2. Start \in Fetch
        BY FetchFacts
      <3>3. listener \in [subscribed : BOOLEAN, fetch : Fetch]
        BY <3>2 DEF Init
      <3>4. shown \in [history : History \cup {None}, active_index : Index]
        BY SyncAssumption DEF Init
      <3>5. ops \in History /\ history \in History
        BY SyncAssumption DEF Init, History
      <3> QED
        <4>1. listener \in [subscribed : BOOLEAN,
                             fetch : Fetch \cup {[at |-> "none"], [at |-> "backoff"]}]
          BY <3>3
        <4>2. boot \in Fetch \cup [at : {"failed", "shown"}]
          BY <3>2 DEF Init
        <4> HIDE DEF Fetch, Event, Signal, History
        <4>3. /\ signals \in Seq(Signal) /\ Len(signals) <= SignalCap /\ wire \in Seq(Signal)
              /\ ui \in Seq(Event) /\ Len(ui) <= EventCap
          BY SyncAssumption DEF Init
        <4> QED
          BY <3>1, <3>4, <3>5, <4>1, <4>2, <4>3 DEF Init, TypeOK, Call
    <2>2. Fetching = "get_history" /\ unreachable = FALSE
      BY DEF Init, Fetching, Start
    <2>3. TodoShape /\ DisconnectsHeal
      BY DEF Init, TodoShape, DisconnectsHeal
    <2> QED
      BY <2>1, <2>2, <2>3
      DEF IInv, Kept, FetchedListFresh, ListFreshAtLast, UnreachableMeansIt, IndexRightAtLast
  <1>2. IInv /\ [Next]_vars => IInv'
    BY TypeKept, UnreachableKept, ListKept, IndexKept DEF IInv, Kept
  <1> QED
    BY <1>1, <1>2, PTL DEF Spec

\* The signals, the listener and the interface keep their types: neither
\* channel ever holds more than its capacity, however fast the daemon changes.
THEOREM TypeCorrect == Spec => []TypeOK
  <1>1. IInv => TypeOK
    BY DEF IInv, Kept
  <1> QED
    BY <1>1, InvariantHolds, PTL

\* The applet shows the list the daemon has, or that list is on its way, or a
\* change went unannounced since the listener last fetched.
THEOREM ListStaysFresh == Spec => []ListIsFresh
  <1>1. IInv => ListIsFresh
    <2> SUFFICES ASSUME IInv, ~missed.history
                 PROVE  shown.history = history \/ OnItsWay
      BY DEF ListIsFresh
    <2>1. CASE ShownAtLast(history)
      <3>1. CASE NoneIn(ui, RefreshedEvents) /\ shown.history = history
        BY <3>1
      <3>2. CASE \E event \in RefreshedEvents :
                    LastIn(ui, RefreshedEvents, event) /\ event.history = history
        BY <3>2 DEF LastIn, RefreshedEvents, OnItsWay
      <3> QED
        BY <2>1, <3>1, <3>2 DEF ShownAtLast
    <2>2. CASE ~ShownAtLast(history)
      BY <2>2 DEF IInv, ListFreshAtLast, UpdateComing, OnItsWay
    <2> QED
      BY <2>1, <2>2
  <1> QED
    BY <1>1, InvariantHolds, PTL

\* With nothing on its way the applet highlights the entry the daemon has
\* chosen, or the last index it was told was not that one.
THEOREM IndexIsRightAtRest == Spec => []IndexRightAtRest
  <1>1. IInv => IndexRightAtRest
    <2> SUFFICES ASSUME IInv, AtRest, ~missed.index
                 PROVE  shown.active_index = active
      BY DEF IndexRightAtRest
    <2>1. /\ NoneIn(signals, IndexSignals) /\ NoneIn(wire, IndexSignals)
          /\ NoneIn(ui, IndexEvents)
      BY DEF AtRest, NoneIn
    <2>2. LineEndsAt(active)
      BY <2>1 DEF IInv, IndexRightAtLast, IndexComing, AtRest
    <2> QED
      BY <2>1, <2>2 DEF LineEndsAt, FetchEndsAt, UiEndsAt, LastIn, NoneIn, AtRest
  <1> QED
    BY <1>1, InvariantHolds, PTL

\* The applet reports the daemon as unreachable only while its listener is not
\* connected or an answer is on its way, or after its own fetch has failed.
THEOREM UnreachableIsMeant == Spec => []UnreachableMeansIt
  <1>1. IInv => UnreachableMeansIt
    BY DEF IInv
  <1> QED
    BY <1>1, InvariantHolds, PTL
=============================================================================
