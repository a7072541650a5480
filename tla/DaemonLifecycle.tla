-------------------------- MODULE DaemonLifecycle --------------------------
(***************************************************************************)
(* How the daemon stops (main.rs, lifecycle.rs, monitor/mod.rs), over the  *)
(* handlers, the ingest loop and the persists of DaemonService, which go   *)
(* on while it does.  A signal, or Reexecute once it has persisted, wakes  *)
(* main, which persists in its turn, tells the monitor thread to stop and  *)
(* waits for it, and then returns or executes its program again.  The      *)
(* monitor thread is one that holds a text until the channel has room.     *)
(*                                                                         *)
(* How the daemon starts, and a process that dies in the middle of a       *)
(* persist, are in HistoryStore.                                           *)
(***************************************************************************)
EXTENDS DaemonService

VARIABLES
    stage,    \* what main is at
    reason,   \* the ShutdownReason it was woken with
    holding   \* the text the monitor thread is about to send, or None

main == <<stage, reason, holding>>
lifecycleVars == <<vars, main>>

ShutdownReason == {"None", "Reexecute"}

LifecycleTypeOK ==
    /\ TypeOK
    /\ stage \in {"up", "stopping", "joining", "returning", "down"}
    /\ reason \in ShutdownReason
    /\ holding \in Text \cup {None}

LifecycleInit ==
    /\ Init
    /\ stage = "up" /\ reason = "None" /\ holding = None

-----------------------------------------------------------------------------
(* Tasks and threads, until the process ends.                              *)

TasksRun == stage \notin {"returning", "down"}

HandlersRun == TasksRun /\ (Handlers \/ GuardExpires) /\ UNCHANGED main

SelectionRuns(c) == TasksRun /\ Selection(c) /\ UNCHANGED main

FlushRuns == TasksRun /\ Flush /\ UNCHANGED main

\* mutated IngestRuns: the loop ends when main has persisted
IngestUntilFlushed ==
    /\ stage \in {"up", "stopping"}
    /\ Ingest
    /\ UNCHANGED main

IngestRuns == TasksRun /\ Ingest /\ UNCHANGED main

\* a read that is under way when the thread is told to stop counts as before
MonitorReads(text) ==
    /\ stage \in {"up", "stopping"} /\ holding = None
    /\ IF armed # None
       THEN Capture(text) /\ UNCHANGED holding
       ELSE holding' = text /\ UNCHANGED vars
    /\ UNCHANGED <<stage, reason>>

\* mutated MonitorSends: it does not wait
MonitorSendsUnbounded ==
    /\ holding # None
    /\ channel' = Append(channel, holding)
    /\ holding' = None
    /\ UNCHANGED <<session, policy, armed, call, saving, stage, reason>>

\* blocking_send waits for room in the channel
MonitorSends ==
    /\ holding # None /\ Len(channel) < ChannelCap
    /\ channel' = Append(channel, holding)
    /\ holding' = None
    /\ UNCHANGED <<session, policy, armed, call, saving, stage, reason>>

-----------------------------------------------------------------------------
(* The end.                                                                *)

\* the first request wakes main, and no other is looked at
WakesMain(r) ==
    IF stage = "up" THEN stage' = "stopping" /\ reason' = r
    ELSE UNCHANGED <<stage, reason>>

\* the handler persists first, and gives up when that fails
Reexecute ==
    /\ TasksRun /\ LockFree
    /\ UNCHANGED <<session, policy, events, call, flushes, holding>>
    /\ \/ disk' = Restorable(session) /\ WakesMain("Reexecute")
       \/ disk' = Unsaved /\ UNCHANGED <<stage, reason>>

\* SIGTERM, or ctrl-c
Terminate ==
    /\ stage = "up"
    /\ WakesMain("None")
    /\ UNCHANGED <<vars, holding>>

\* mutated FlushState: main does not wait for the lock
FlushStateIfFree ==
    /\ stage = "stopping" /\ stage' = "joining"
    /\ UNCHANGED <<session, policy, events, call, flushes, reason, holding>>
    /\ IF LockFree THEN Persist ELSE UNCHANGED disk

\* flush_state takes the lock, and only warns when the persist fails; then the
\* monitor thread is told to stop, and waited for
FlushState ==
    /\ stage = "stopping" /\ stage' = "joining"
    /\ LockFree
    /\ UNCHANGED session /\ Persist
    /\ UNCHANGED <<policy, events, call, flushes, reason, holding>>

\* the monitor thread has ended
Joined == stage = "joining" /\ holding = None

\* exec, or exit, with whatever tasks are doing
Reexec ==
    /\ Joined /\ reason = "Reexecute"
    /\ stage' = "down"
    /\ UNCHANGED <<vars, reason, holding>>

\* the runtime drops every task at its next await
MainReturns ==
    /\ Joined /\ reason = "None"
    /\ stage' = "returning"
    /\ UNCHANGED <<vars, reason, holding>>

\* the blocking call that waits for wl-copy outlives its task
WlCopyOutlives(c) ==
    /\ stage = "returning"
    /\ WlCopyExits(c)
    /\ UNCHANGED main

RuntimeEnds ==
    /\ stage = "returning" /\ LockFree
    /\ stage' = "down"
    /\ UNCHANGED <<vars, reason, holding>>

-----------------------------------------------------------------------------

Stopping == FlushState \/ Reexec \/ MainReturns \/ RuntimeEnds

LifecycleNext ==
    \/ HandlersRun \/ FlushRuns \/ IngestRuns \/ MonitorSends
    \/ \E c \in Caller : SelectionRuns(c) \/ WlCopyOutlives(c)
    \/ \E text \in Text : MonitorReads(text)
    \/ Reexecute \/ Terminate \/ Stopping

LifecycleSpec == LifecycleInit /\ [][LifecycleNext]_lifecycleVars

\* a selection goes on, up to its return
Progress(c) ==
    /\ TasksRun \/ InPhase(c, "writing")
    /\ \/ BeginWrite(c) \/ WlCopyExits(c) \/ Undo(c)
       \/ SpawnFlush(c) \/ AnnouncementFails(c) \/ SaveChoice(c)
    /\ UNCHANGED main

\* wl-copy exits, threads and tasks run, and the queue of the tokio Mutex is
\* fair, so that whoever waits for the lock gets it however often others do
Fairness ==
    /\ WF_lifecycleVars(MonitorSends)
    /\ SF_lifecycleVars(IngestRuns) /\ SF_lifecycleVars(FlushRuns)
    /\ SF_lifecycleVars(Stopping)
    /\ \A c \in Caller : SF_lifecycleVars(Progress(c))

LifecycleFairSpec == LifecycleSpec /\ Fairness

-----------------------------------------------------------------------------
(* Properties.                                                             *)

\* main has persisted, and does not again
Flushed == stage \in {"joining", "returning", "down"}

\* a selection chooses an entry
Chooses(c) == InPhase(c, "idle") /\ ~InPhase(c, "idle")'

\* The end of the daemon drops calls that have chosen and not saved, and
\* persists that were spawned and have not run.  What they would have saved is
\* saved all the same: the persist of main leaves on disk what the daemon
\* shows, and from then on, to the end of the process, no step but another
\* choice parts the two without giving it up (as in SavedAtRest).
SavedBeforeExit ==
    [][Flushed' /\ (Flushed => disk = Restorable(session))
       => disk' \in {Restorable(session'), Unsaved} \/ \E c \in Caller : Chooses(c)
      ]_lifecycleVars

\* A daemon told to stop does: the lock, a running wl-copy, a full channel and
\* the thread that waits for room in it do not keep it.
ShutdownCompletes == stage = "stopping" ~> stage = "down"
=============================================================================
