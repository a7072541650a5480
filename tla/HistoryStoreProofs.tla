------------------------- MODULE HistoryStoreProofs -------------------------
(***************************************************************************)
(* Theorems about HistoryStore, for every set of histories and any number  *)
(* of damages.                                                             *)
(***************************************************************************)
EXTENDS HistoryStore, TLAPS

\* the steps left after the primary was replaced
AfterRename == {"truncate_backup", "fill_backup", "replace_state"}

\* What a save in progress has done so far, and who can be running it.
SavePhase ==
    /\ pc # "idle" => mode = "persistent" /\ ~complete
    /\ pc \in AfterRename => primary = memory.history /\ saved = memory
    /\ pc = "replace_state" => backup = primary

\* After a complete save the backup can stand in for the primary, and as long as
\* state.json parses the files hold the session saved.
SaveHolds ==
    complete
      => /\ Loadable = saved.history
         /\ primary \in Content => backup = primary
         /\ stateFile # Damaged
              => RestoredActive(saved.history) =
                    IF saved.active < Size[saved.history] THEN saved.active ELSE 0

IInv == TypeOK /\ SavePhase /\ SaveHolds

\* The types the assumptions give.
LEMMA ContentFacts ==
    /\ NoItems \in Content /\ Size[NoItems] = 0
    /\ \A history \in Content : Size[history] \in Nat
    /\ Indices \subseteq Nat
    /\ \A history \in Content : history # Absent /\ history # Damaged
    /\ Absent # Damaged /\ Absent \notin Nat /\ Damaged \notin Nat
  BY ContentAssumption

\* What a start restores is a history and an index.
LEMMA RestoredTypes ==
    ASSUME TypeOK
    PROVE  /\ Loadable \in Content
           /\ RestoredActive(Loadable) \in Nat
           /\ \A kept \in Evictions : kept[Loadable] \in Content
  <1>1. Loadable \in Content
    BY ContentFacts DEF Loadable
  <1>2. RestoredActive(Loadable) \in Nat
    BY DEF RestoredActive
  <1> QED
    BY <1>1, <1>2, EvictionAssumption

\* Nothing was saved yet and nothing is on disk.
LEMMA InitInvariant == Init => IInv
  BY ContentFacts, DamageAssumption
  DEF Init, IInv, TypeOK, SavePhase, SaveHolds, Empty, HistoryFile,
      Loadable, RestoredActive, Steps, AfterRename

\* Every step keeps the invariant: a save that dies half-way is not complete, and the only files it
\* leaves half-written are those a start does not need.
LEMMA StepInvariant ==
    ASSUME IInv, [Next]_vars
    PROVE  IInv'
  <1> USE ContentFacts DEF IInv
  <1>1. CASE UNCHANGED vars
    BY <1>1 DEF vars, files, auxiliary, TypeOK, SavePhase, SaveHolds,
                Loadable, RestoredActive, AfterRename
  <1>2. ASSUME NEW history \in Content, NEW active \in Indices,
               ChangeAndPersist(history, active)
        PROVE  IInv'
    <2>1. memory' = [history |-> history, active |-> active] /\ active \in Nat
      BY <1>2 DEF ChangeAndPersist
    <2>2. memory' \in [history : Content, active : Nat]
      BY <2>1
    <2>3. CASE mode = "persistent"
      BY <1>2, <2>2, <2>3
      DEF ChangeAndPersist, files, auxiliary, TypeOK, SavePhase, SaveHolds,
          AfterRename, Steps
    <2>4. CASE mode # "persistent"
      BY <1>2, <2>2, <2>4
      DEF ChangeAndPersist, files, auxiliary, TypeOK, SavePhase, SaveHolds,
          Loadable, RestoredActive, AfterRename
    <2> QED
      BY <2>3, <2>4
  <1>3. ASSUME NEW history \in Content, NEW active \in Indices,
               ChangeOnly(history, active)
        PROVE  IInv'
    BY <1>3 DEF ChangeOnly, files, auxiliary, TypeOK, SavePhase, SaveHolds,
                Loadable, RestoredActive, AfterRename
  <1>4. CASE ReplacePrimary
    BY <1>4 DEF ReplacePrimary, files, auxiliary, TypeOK, SavePhase, SaveHolds,
                HistoryFile, AfterRename, Steps
  <1>5. CASE TruncateBackup
    BY <1>5 DEF TruncateBackup, files, auxiliary, TypeOK, SavePhase, SaveHolds,
                HistoryFile, AfterRename, Steps
  <1>6. CASE FillBackup
    BY <1>6 DEF FillBackup, files, auxiliary, TypeOK, SavePhase, SaveHolds,
                HistoryFile, AfterRename, Steps
  <1>7. CASE ReplaceState
    BY <1>7 DEF ReplaceState, files, auxiliary, TypeOK, SavePhase, SaveHolds,
                Loadable, RestoredActive, AfterRename, Steps
  <1>8. CASE IoError
    BY <1>8 DEF IoError, files, auxiliary, TypeOK, SavePhase, SaveHolds,
                Loadable, RestoredActive, AfterRename
  <1>9. CASE Crash
    BY <1>9 DEF Crash, files, auxiliary, TypeOK, SavePhase, SaveHolds,
                Loadable, RestoredActive, AfterRename, Empty
  <1>10. ASSUME NEW target \in DamageTargets, Damage(target)
         PROVE  IInv'
    BY <1>10, DamageAssumption
    DEF Damage, auxiliary, TypeOK, SavePhase, SaveHolds, HistoryFile,
        Loadable, RestoredActive, AfterRename
  <1>11. CASE Start
    BY <1>11, RestoredTypes
    DEF Start, NothingReadable, files, auxiliary, TypeOK, SavePhase, SaveHolds,
        HistoryFile, Loadable, RestoredActive, AfterRename
  <1>12. CASE StartInMemory
    BY <1>12 DEF StartInMemory, files, auxiliary, TypeOK, SavePhase, SaveHolds,
                 Loadable, RestoredActive, AfterRename, Empty
  <1> QED
    BY <1>1, <1>2, <1>3, <1>4, <1>5, <1>6, <1>7, <1>8, <1>9, <1>10, <1>11, <1>12
    DEF Next

\* The invariant holds in every reachable state.
LEMMA Invariance == Spec => []IInv
  <1>1. Init => IInv
    BY InitInvariant
  <1>2. IInv /\ [Next]_vars => IInv'
    BY StepInvariant
  <1> QED
    BY <1>1, <1>2, PTL DEF Spec

\* Only Start and StartInMemory end a time in which no daemon runs.
LEMMA StartingIsStart ==
    ASSUME Next, Starting, mode' = "persistent"
    PROVE  Start
  BY DEF Starting, Next, ChangeAndPersist, ChangeOnly, ReplacePrimary, TruncateBackup,
         FillBackup, ReplaceState, IoError, Crash, Damage, StartInMemory

\* Once a persist has reported success, every later start that reads the files
\* shows that session, less what its settings evict, whenever the process died
\* and whatever damaged the primary in between (load_history falls back on the
\* backup).
THEOREM SavedSessionReturns == Spec => CompletedSaveReturns
  <1>1. IInv /\ [Next]_vars =>
          [Starting /\ complete /\ mode' = "persistent" => Shows(saved)]_vars
    <2> SUFFICES ASSUME IInv, Next, Starting, complete, mode' = "persistent"
                 PROVE  Shows(saved)
      OBVIOUS
    <2>1. Start
      BY StartingIsStart
    <2>2. PICK kept \in Evictions :
              memory' = [history |-> kept[Loadable], active |-> RestoredActive(Loadable)]
      BY <2>1 DEF Start
    <2>3. Loadable = saved.history /\ stateFile # Damaged
      BY <2>1 DEF Start, IInv, SaveHolds
    <2> QED
      BY <2>2, <2>3 DEF Shows, IInv, SaveHolds
  <1> QED
    BY <1>1, Invariance, PTL DEF Spec, CompletedSaveReturns

\* What a start loads changes with a save, which then is what was saved, or
\* with damage to the primary that no complete backup makes good.
LEMMA LoadableSteps ==
    ASSUME IInv, Next, Loadable = saved.history, Loadable' # saved'.history
    PROVE  Damage("primary") /\ ~complete
  <1> USE ContentFacts DEF IInv
  <1>1. ASSUME UNCHANGED <<primary, backup, saved>>
        PROVE  FALSE
    BY <1>1 DEF Loadable
  <1>2. ~ReplacePrimary
    BY DEF ReplacePrimary, TypeOK, Loadable
  <1>3. ~(TruncateBackup \/ FillBackup)
    BY DEF TruncateBackup, FillBackup, auxiliary, SavePhase, AfterRename, TypeOK, Loadable
  <1>4. ~Start
    BY DEF Start, NothingReadable, auxiliary, Loadable
  <1>5. ~(ReplaceState \/ IoError \/ Crash \/ StartInMemory)
    BY <1>1 DEF ReplaceState, IoError, Crash, StartInMemory, files, auxiliary
  <1>6. \A history \in Content, active \in Indices :
           ~ChangeAndPersist(history, active) /\ ~ChangeOnly(history, active)
    BY <1>1 DEF ChangeAndPersist, ChangeOnly, files, auxiliary
  <1>7. ASSUME NEW target \in DamageTargets, Damage(target)
        PROVE  Damage("primary") /\ ~complete
    <2>1. target = "primary"
      <3>1. target = "state" => UNCHANGED <<primary, backup, saved>>
        BY <1>7 DEF Damage, auxiliary
      <3> QED
        BY <1>1, <3>1, DamageAssumption
    <2>2. primary \in Content /\ primary' = Damaged /\ UNCHANGED <<backup, saved>>
      BY <1>7, <2>1 DEF Damage, auxiliary
    <2>3. ~complete
      BY <2>2 DEF SaveHolds, Loadable
    <2> QED
      BY <1>7, <2>1, <2>3
  <1> QED
    BY <1>2, <1>3, <1>4, <1>5, <1>6, <1>7 DEF Next

\* No crash, no failed step and no start loses the history that was saved last;
\* damage to the primary does after a persist that was cut short, and only then.
THEOREM LossNeedsDamage == Spec => OnlyDamageLoses
  <1>1. IInv /\ [Next]_vars =>
          [Loadable = saved.history /\ Loadable' # saved'.history
             => Damage("primary") /\ ~complete]_vars
    BY LoadableSteps
  <1> QED
    BY <1>1, Invariance, PTL DEF Spec, OnlyDamageLoses

-----------------------------------------------------------------------------
(* The type invariant, and a daemon that runs in memory.                   *)

\* The types of the daemon and of its files, whatever is damaged.
THEOREM TypeCorrect == Spec => []TypeOK
  <1>1. Init => TypeOK
    BY ContentFacts, DamageAssumption DEF Init, TypeOK, Empty, HistoryFile
  <1>2. TypeOK /\ [Next]_vars => TypeOK'
    <2> SUFFICES ASSUME TypeOK, [Next]_vars PROVE TypeOK'
      OBVIOUS
    <2> USE ContentFacts DEF TypeOK
    <2>1. CASE UNCHANGED vars
      BY <2>1 DEF vars, files, auxiliary
    <2>2. ASSUME NEW history \in Content, NEW active \in Indices,
                 ChangeAndPersist(history, active) \/ ChangeOnly(history, active)
          PROVE  TypeOK'
      <3>1. memory' = [history |-> history, active |-> active] /\ active \in Nat
        BY <2>2 DEF ChangeAndPersist, ChangeOnly
      <3>2. memory' \in [history : Content, active : Nat]
        BY <3>1
      <3>3. CASE ChangeAndPersist(history, active)
        BY <3>2, <3>3 DEF ChangeAndPersist, files, auxiliary, Steps
      <3>4. CASE ChangeOnly(history, active)
        BY <3>2, <3>4 DEF ChangeOnly, files, auxiliary
      <3> QED
        BY <2>2, <3>3, <3>4
    <2>3. CASE ReplacePrimary \/ TruncateBackup \/ FillBackup
      BY <2>3 DEF ReplacePrimary, TruncateBackup, FillBackup, files, auxiliary,
                  HistoryFile, Steps
    <2>4. CASE ReplaceState \/ IoError
      BY <2>4 DEF ReplaceState, IoError, files, auxiliary
    <2>8. CASE Crash
      BY <2>8 DEF Crash, files, auxiliary, Empty
    <2>5. ASSUME NEW target \in DamageTargets, Damage(target)
          PROVE  TypeOK'
      BY <2>5, DamageAssumption DEF Damage, auxiliary, HistoryFile
    <2>6. CASE Start
      BY <2>6, RestoredTypes DEF Start, files, auxiliary, HistoryFile
    <2>7. CASE StartInMemory
      BY <2>7 DEF StartInMemory, files, auxiliary, Empty
    <2> QED
      BY <2>1, <2>2, <2>3, <2>4, <2>5, <2>6, <2>7, <2>8 DEF Next
  <1> QED
    BY <1>1, <1>2, PTL DEF Spec

\* Only a daemon that has loaded its history saves.
SavesAreLoaded == pc # "idle" => mode = "persistent"

LEMMA SavesStayLoaded == Spec => []SavesAreLoaded
  <1>1. Init => SavesAreLoaded
    BY DEF Init, SavesAreLoaded
  <1>2. SavesAreLoaded /\ [Next]_vars => SavesAreLoaded'
    BY DEF SavesAreLoaded, Next, ChangeAndPersist, ChangeOnly, ReplacePrimary, TruncateBackup,
           FillBackup, ReplaceState, IoError, Crash, Damage, Start, StartInMemory, vars, Steps
  <1> QED
    BY <1>1, <1>2, PTL DEF Spec

\* A daemon that could not read state.json changes nothing of the history a
\* start would load, neither while it runs nor as it starts or dies.
THEOREM InMemoryIsHarmless == Spec => InMemoryKeepsHistory
  <1>1. SavesAreLoaded /\ [Next]_vars =>
          [/\ mode = "in_memory" \/ mode' = "in_memory"
           /\ damages' = damages
           => Loadable' = Loadable]_vars
    <2> SUFFICES ASSUME SavesAreLoaded, Next, mode = "in_memory" \/ mode' = "in_memory",
                        damages' = damages
                 PROVE  Loadable' = Loadable
      OBVIOUS
    <2>1. ASSUME UNCHANGED files
          PROVE  Loadable' = Loadable
      BY <2>1 DEF files, Loadable
    <2>2. CASE ReplacePrimary \/ TruncateBackup \/ FillBackup \/ ReplaceState
      BY <2>2 DEF SavesAreLoaded, ReplacePrimary, TruncateBackup, FillBackup, ReplaceState
    <2>3. CASE \E target \in DamageTargets : Damage(target)
      BY <2>3, DamageAssumption DEF Damage
    <2>4. CASE Start
      BY <2>4 DEF Start
    <2> QED
      BY <2>1, <2>2, <2>3, <2>4
      DEF Next, ChangeAndPersist, ChangeOnly, IoError, Crash, StartInMemory
  <1> QED
    BY <1>1, SavesStayLoaded, PTL DEF Spec, InMemoryKeepsHistory

-----------------------------------------------------------------------------
(* Up to the first damage: the files implement the register.               *)

\* While nothing outside the daemon has touched them, no file a start reads
\* first is damaged, and no backup is without a primary.
Undamaged ==
    /\ TypeOK
    /\ primary # Damaged /\ stateFile # Damaged /\ mode # "in_memory"
    /\ primary = Absent => backup = Absent
    /\ pc \in AfterRename => primary = memory.history
    /\ pc # "idle" => mode = "persistent"
    /\ mode = "down" => memory = Empty

\* Nothing is on disk yet.
LEMMA InitUndamaged == Init => Undamaged
  BY ContentFacts, DamageAssumption
  DEF Init, Undamaged, TypeOK, Empty, HistoryFile, AfterRename

\* Every step before the first damage keeps the files undamaged and is a step of
\* the register.
LEMMA StepUndamaged ==
    ASSUME damages' = 0, Undamaged, TypeOK', [Next]_vars
    PROVE  Undamaged' /\ (Register!Next \/ UNCHANGED Register!vars)
  <1> USE ContentFacts DEF Undamaged, Register!vars
  <1>1. CASE UNCHANGED vars
    BY <1>1 DEF vars, files, auxiliary, Loadable, AfterRename
  <1>2. ASSUME NEW history \in Content, NEW active \in Indices,
               ChangeAndPersist(history, active) \/ ChangeOnly(history, active)
        PROVE  Undamaged' /\ Register!Change
    BY <1>2 DEF ChangeAndPersist, ChangeOnly, files, auxiliary, Loadable, AfterRename,
                Register!Change
  <1>3. CASE ReplacePrimary
    <2>1. memory.history \in Content
      BY DEF TypeOK
    <2>2. Undamaged'
      BY <1>3, <2>1 DEF ReplacePrimary, AfterRename, Steps
    <2>3. Register!Save
      BY <1>3, <2>1 DEF ReplacePrimary, Loadable, Register!Save
    <2> QED
      BY <2>2, <2>3 DEF Register!Next
  <1>4. CASE TruncateBackup \/ FillBackup
    <2>1. primary \in Content
      BY <1>4 DEF TruncateBackup, FillBackup, AfterRename, TypeOK
    <2>2. Undamaged'
      BY <1>4, <2>1 DEF TruncateBackup, FillBackup, files, auxiliary, AfterRename
    <2>3. UNCHANGED Register!vars
      BY <1>4, <2>1 DEF TruncateBackup, FillBackup, files, auxiliary, Loadable
    <2> QED
      BY <2>2, <2>3
  <1>5. CASE ReplaceState \/ IoError
    <2>1. Undamaged'
      BY <1>5 DEF ReplaceState, IoError, files, auxiliary, AfterRename, TypeOK
    <2>2. UNCHANGED Register!vars
      BY <1>5 DEF ReplaceState, IoError, files, auxiliary, Loadable
    <2> QED
      BY <2>1, <2>2
  <1>6. CASE Crash
    <2>1. Undamaged'
      BY <1>6 DEF Crash, files, auxiliary, AfterRename
    <2>2. Register!Crash
      BY <1>6 DEF Crash, files, auxiliary, Loadable, Empty, Register!Crash
    <2> QED
      BY <2>1, <2>2 DEF Register!Next
  <1>7. CASE Start
    <2>1. Undamaged'
      BY <1>7 DEF Start, NothingReadable, files, auxiliary, AfterRename
    <2>2. Register!Restart
      <3>1. PICK kept \in Evictions : memory'.history = kept[Loadable]
        BY <1>7 DEF Start
      <3>2. Loadable' = Loadable /\ mode = "down" /\ mode' # "down"
        BY <1>7 DEF Start, NothingReadable, files, auxiliary, Loadable
      <3> QED
        BY <3>1, <3>2 DEF Register!Restart
    <2> QED
      BY <2>1, <2>2 DEF Register!Next
  <1>8. CASE StartInMemory
    BY <1>8 DEF StartInMemory
  <1>9. ASSUME NEW target \in DamageTargets, Damage(target)
        PROVE  FALSE
    BY <1>9, DamageAssumption DEF Damage, TypeOK
  <1> QED
    BY <1>1, <1>2, <1>3, <1>4, <1>5, <1>6, <1>7, <1>8, <1>9 DEF Next, Register!Next

\* A step never undoes a damage.
LEMMA DamagesGrow ==
    ASSUME TypeOK, [Next]_vars, damages' = 0
    PROVE  damages = 0
  BY DamageAssumption
  DEF Next, ChangeAndPersist, ChangeOnly, ReplacePrimary, TruncateBackup, FillBackup,
      ReplaceState, IoError, Crash, Damage, Start, StartInMemory, TypeOK, vars

\* Up to the first damage from outside, saving in four steps with a crash or a
\* failure between any two of them is indistinguishable from one atomic write.
THEOREM StoreImplementsRegister == Spec => ImplementsRegister
  <1> DEFINE Intact == damages = 0 => Undamaged
  <1>1. Init => Intact /\ Register!Init
    BY InitUndamaged, ContentFacts DEF Init, Register!Init, Loadable, Empty
  <1>2. TypeOK /\ Intact /\ TypeOK' /\ [Next]_vars
          => Intact' /\ [damages' = 0 => Register!Next \/ UNCHANGED Register!vars]_vars
    BY StepUndamaged, DamagesGrow
  <1> QED
    BY <1>1, <1>2, TypeCorrect, PTL DEF Spec, ImplementsRegister
=============================================================================
