---------------------------- MODULE HistoryStore ----------------------------
(***************************************************************************)
(* The files of one history and the daemon that saves and loads them:      *)
(* persistence.rs, DaemonState::persist and load_default (dbus/state.rs)   *)
(* and the start of the daemon (main.rs).  A persist runs under the state  *)
(* lock, so one save is in progress at a time and memory does not change   *)
(* under it, but the process may die or a write may fail between any two   *)
(* of its steps.                                                           *)
(*                                                                         *)
(* A file is Absent, Damaged (it does not parse) or holds a value.  The    *)
(* temporary file of atomic_write is never read, so a write that dies      *)
(* before its rename changes no file.                                      *)
(***************************************************************************)
EXTENDS Naturals

CONSTANTS
    Content,        \* histories (lists of items)
    NoItems,        \* the empty history
    Size,           \* Size[c]: number of items of c
    Evictions,      \* what enforce_limits leaves of a history, for each of the
                    \* settings a start may find
    Indices,        \* active indices; a reload may leave one past the end
    Absent, Damaged,
    DamageTargets,  \* files something outside the daemon may damage
    MaxDamages      \* bound on such damages

ASSUME ContentAssumption ==
    /\ NoItems \in Content
    /\ Size \in [Content -> Nat]
    /\ Size[NoItems] = 0
    /\ Indices \subseteq Nat
    /\ Absent \notin Content /\ Damaged \notin Content /\ Absent # Damaged
    /\ Absent \notin Nat /\ Damaged \notin Nat

ASSUME EvictionAssumption ==
    /\ Evictions \subseteq [Content -> Content]
    /\ \A kept \in Evictions, c \in Content : Size[kept[c]] <= Size[c]

ASSUME DamageAssumption ==
    DamageTargets \subseteq {"primary", "state"} /\ MaxDamages \in Nat

VARIABLES
    mode,       \* "down", "persistent", or "in_memory" after a failed load
    memory,     \* the session: its history and its active index
    pc,         \* the next step of the persist in progress
    primary,    \* <name>.ron
    backup,     \* <name>.ron.bak
    corrupt,    \* <name>.ron.corrupt
    stateFile,  \* state.json
    damages,    \* damages done so far
    saved,      \* auxiliary: the session of the last save that took effect
    complete    \* auxiliary: the last persist ran to its end

files == <<primary, backup, corrupt, stateFile>>
auxiliary == <<saved, complete>>
vars == <<mode, memory, pc, files, damages, auxiliary>>

Empty == [history |-> NoItems, active |-> 0]

Steps == {"replace_primary", "truncate_backup", "fill_backup", "replace_state"}

HistoryFile == Content \cup {Absent, Damaged}

TypeOK ==
    /\ mode \in {"down", "persistent", "in_memory"}
    /\ memory \in [history : Content, active : Nat]
    /\ pc \in Steps \cup {"idle"}
    /\ primary \in HistoryFile
    /\ backup \in HistoryFile
    /\ corrupt \in HistoryFile
    /\ stateFile \in Nat \cup {Absent, Damaged}
    /\ damages \in 0 .. MaxDamages
    /\ saved \in [history : Content, active : Nat]
    /\ complete \in BOOLEAN

Init ==
    /\ mode = "down" /\ memory = Empty /\ pc = "idle"
    /\ primary = Absent /\ backup = Absent /\ corrupt = Absent
    /\ stateFile = Absent
    /\ damages = 0
    /\ saved = Empty /\ complete = TRUE

-----------------------------------------------------------------------------
(* Saving.                                                                 *)

\* mutated ChangeAndPersist: save_history is ignored
ChangeAndPersistAlways(history, active) ==
    /\ mode # "down" /\ pc = "idle"
    /\ memory' = [history |-> history, active |-> active]
    /\ pc' = "replace_primary" /\ complete' = FALSE
    /\ UNCHANGED <<mode, files, damages, saved>>

\* a handler changes the session and persists it before it lets the lock go;
\* an in-memory daemon has save_history off and a store under a temporary
\* directory, so its persist writes nothing a start reads
ChangeAndPersist(history, active) ==
    /\ mode # "down" /\ pc = "idle"
    /\ memory' = [history |-> history, active |-> active]
    /\ IF mode = "persistent"
       THEN pc' = "replace_primary" /\ complete' = FALSE
       ELSE UNCHANGED <<pc, complete>>
    /\ UNCHANGED <<mode, files, damages, saved>>

\* a handler or a reload changes the session and leaves it unsaved
ChangeOnly(history, active) ==
    /\ mode # "down" /\ pc = "idle"
    /\ memory' = [history |-> history, active |-> active]
    /\ UNCHANGED <<mode, pc, files, damages, auxiliary>>

\* mutated ReplacePrimary: the primary is written in place, in two steps
WritePrimaryInPlace ==
    /\ pc = "replace_primary"
    /\ \/ primary # Damaged /\ primary' = Damaged /\ UNCHANGED <<pc, saved>>
       \/ /\ primary = Damaged /\ primary' = memory.history
          /\ saved' = memory
          /\ pc' = "truncate_backup"
    /\ UNCHANGED <<mode, memory, backup, corrupt, stateFile, damages, complete>>

\* save_history: atomic_write renames the new file over the primary
ReplacePrimary ==
    /\ pc = "replace_primary"
    /\ primary' = memory.history
    /\ saved' = memory
    /\ pc' = "truncate_backup"
    /\ UNCHANGED <<mode, memory, backup, corrupt, stateFile, damages, complete>>

\* save_history: fs::copy opens the backup for writing ...
TruncateBackup ==
    /\ pc = "truncate_backup"
    /\ backup' = Damaged
    /\ pc' = "fill_backup"
    /\ UNCHANGED <<mode, memory, primary, corrupt, stateFile, damages, auxiliary>>

\* ... and copies the primary into it
FillBackup ==
    /\ pc = "fill_backup"
    /\ backup' = primary
    /\ pc' = "replace_state"
    /\ UNCHANGED <<mode, memory, primary, corrupt, stateFile, damages, auxiliary>>

\* save_session_state: atomic_write of state.json; the persist is complete
ReplaceState ==
    /\ pc = "replace_state"
    /\ stateFile' = memory.active
    /\ pc' = "idle"
    /\ complete' = TRUE
    /\ UNCHANGED <<mode, memory, primary, backup, corrupt, damages, saved>>

\* mutated IoError: the backup is put back
IoErrorRestoresBackup ==
    /\ pc \in Steps
    /\ pc' = "idle"
    /\ primary' = backup
    /\ UNCHANGED <<mode, memory, backup, corrupt, stateFile, damages, auxiliary>>

\* a step fails: persist returns its error and the remaining steps are skipped
IoError ==
    /\ pc \in Steps
    /\ pc' = "idle"
    /\ UNCHANGED <<mode, memory, files, damages, auxiliary>>

-----------------------------------------------------------------------------
(* Dying, damage, and starting again.                                      *)

Crash ==
    /\ mode # "down"
    /\ mode' = "down" /\ memory' = Empty /\ pc' = "idle"
    /\ UNCHANGED <<files, damages, auxiliary>>

\* something outside the daemon damages a file while no save is in progress
Damage(target) ==
    /\ damages < MaxDamages /\ pc = "idle"
    /\ damages' = damages + 1
    /\ \/ target = "primary" /\ primary \in Content
          /\ primary' = Damaged /\ UNCHANGED stateFile
       \/ target = "state" /\ stateFile \in Nat
          /\ stateFile' = Damaged /\ UNCHANGED primary
    /\ UNCHANGED <<mode, memory, pc, backup, corrupt, auxiliary>>

\* mutated Loadable: the backup is not tried
LoadablePrimary == IF primary \in Content THEN primary ELSE NoItems

\* the history load_history returns
Loadable ==
    IF primary \in Content THEN primary
    ELSE IF backup \in Content THEN backup
    ELSE NoItems

\* mutated RestoredActive: a missing state.json has no default
RestoredActiveNoDefault(history) == stateFile

\* set_active_index on load: out of range is ignored and 0 stays
RestoredActive(history) ==
    IF stateFile \in Nat /\ stateFile < Size[history] THEN stateFile ELSE 0

NothingReadable == primary \notin Content /\ backup \notin Content

\* load_default: state.json, then the history, with the limits it was saved
\* under, and the index checked against it; at last apply_settings, which evicts
\* under the settings of this start and leaves the index where it is, past the
\* end perhaps
Start ==
    /\ mode = "down" /\ stateFile # Damaged
    /\ mode' = "persistent"
    /\ \E kept \in Evictions :
           memory' = [history |-> kept[Loadable], active |-> RestoredActive(Loadable)]
    /\ IF NothingReadable /\ primary = Damaged
       THEN primary' = Absent /\ corrupt' = Damaged
       ELSE UNCHANGED <<primary, corrupt>>
    /\ UNCHANGED <<pc, backup, stateFile, damages, auxiliary>>

\* main: load_default failed, so DaemonState::new_in_memory with save_history off
StartInMemory ==
    /\ mode = "down" /\ stateFile = Damaged
    /\ mode' = "in_memory"
    /\ memory' = Empty
    /\ UNCHANGED <<pc, files, damages, auxiliary>>

Next ==
    \/ \E history \in Content, active \in Indices : ChangeAndPersist(history, active)
    \/ \E history \in Content, active \in Indices : ChangeOnly(history, active)
    \/ ReplacePrimary \/ TruncateBackup \/ FillBackup \/ ReplaceState
    \/ IoError
    \/ Crash
    \/ \E target \in DamageTargets : Damage(target)
    \/ Start \/ StartInMemory

Spec == Init /\ [][Next]_vars

-----------------------------------------------------------------------------
(* Properties.                                                             *)

Starting == mode = "down" /\ mode' # "down"

\* what a start should show of a session: what its settings keep, and the index
\* if the session had it
Shows(session) ==
    \E kept \in Evictions :
        memory' = [history |-> kept[session.history],
                   active  |-> IF session.active < Size[session.history]
                               THEN session.active ELSE 0]

\* Once a persist of a daemon that saves has reported success, every later
\* start that reads the files shows that session, history and active index, up
\* to what the settings evict, until another is saved: the primary may be
\* damaged whenever no save is in progress, and the process may die at any time.
CompletedSaveReturns ==
    [][Starting /\ complete /\ mode' = "persistent" => Shows(saved)]_vars

\* STATE.md: "no silent data loss on corrupt files". Once a persist has
\* reported success, every later start shows that session.
NoSilentLoss == [][Starting /\ complete => Shows(saved)]_vars

\* A start loads the history that was saved last, and no step of a later save,
\* no failure of one and no crash or start between any two of them changes
\* that: the history is lost only when the primary is damaged from outside
\* after a persist that did not run to its end, and left a backup that is
\* older or half written.
OnlyDamageLoses ==
    [][Loadable = saved.history /\ Loadable' # saved'.history
       => Damage("primary") /\ ~complete]_vars

\* A daemon that could not read state.json runs without its history, but
\* leaves the one on disk as a repaired state.json would find it.
InMemoryKeepsHistory ==
    [][/\ mode = "in_memory" \/ mode' = "in_memory"
       /\ damages' = damages
       => Loadable' = Loadable]_vars

Register ==
    INSTANCE DurableHistory WITH
        up <- mode # "down", memory <- memory.history, value <- Loadable

\* Up to the first damage from outside, the files and the steps between them
\* are one register written at once (the rename of the primary is its write).
ImplementsRegister ==
    /\ Register!Init
    /\ [][damages' = 0 => Register!Next \/ UNCHANGED Register!vars]_vars
=============================================================================
