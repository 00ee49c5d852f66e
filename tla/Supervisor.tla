------------------------------ MODULE Supervisor ------------------------------
(* The process around the workers: ownership locks, startup, the supervisor's
   restarts and bounded drain, the storage monitor and the systemd watchdog.
   Sources: runtime/supervisor.rs, runtime/process_guard.rs, runtime/shutdown.rs,
   runtime/failure.rs, telemetry/health.rs and main.rs. *)
EXTENDS Naturals, FiniteSets

CONSTANTS
    Services,      \* supervised services
    Restartable,   \* the ones added with spawn_restartable
    Core,          \* the ones whose heartbeat the watchdog reads
    Rivals,        \* lock files another process wants, by host configuration
    Window,        \* watchdog intervals in WatchdogSec
    MaxFaults,     \* bound: worker failures, hangs and storage stops
    MaxSignals     \* bound: SIGTERM and Ctrl-C

ASSUME SupervisorAssumption ==
    /\ Restartable \subseteq Services /\ Core \subseteq Services
    /\ {"storage", "watchdog"} \subseteq Services
    /\ Window \in Nat \ {0} /\ MaxFaults \in Nat /\ MaxSignals \in Nat
    /\ Rivals \subseteq (SUBSET {"chain", "signer"}) \ {{}}

VARIABLES
    phase,      \* of the process: off, locking, starting, serving, draining, stopping
    held,       \* lock file -> its owner
    rival,      \* the other process: off, locking, serving; and its lock files
    storage,    \* the storage actor: closed, alive or dead
    task,       \* service -> state of its task
    cancelled,  \* ShutdownSignal
    outcome,    \* what Supervisor::run returns
    beats,      \* heartbeats since the last watchdog notification
    missed,     \* watchdog intervals since then
    budget      \* what is left of the bounds

vars == <<phase, held, rival, storage, task, cancelled, outcome, beats, missed,
          budget>>

Lock == {"chain", "signer"}
Watched == Core \cup {"supervisor"}
Exited == {"returned", "failed", "fatal", "panicked"}
Live == {"running", "hung", "backoff"}

Init ==
    /\ phase = "off" /\ held = [l \in Lock |-> "none"]
    /\ rival = [st |-> "off", wants |-> {}] /\ storage = "closed"
    /\ task = [s \in Services |-> "done"] /\ cancelled = FALSE
    /\ outcome = "none" /\ beats = {} /\ missed = 0
    /\ budget = [faults |-> MaxFaults, signals |-> MaxSignals]

Spend(what) == budget[what] > 0 /\ budget' = [budget EXCEPT ![what] = @ - 1]
Serving == phase \in {"serving", "draining"}

-----------------------------------------------------------------------------
(* ProcessGuards::acquire: the chain lock, then the signers', each tried once;
   dropping the guards releases all of them. *)

Released(who) == [l \in Lock |-> IF held[l] = who THEN "none" ELSE held[l]]

NextLock(wants) == IF "chain" \in wants THEN "chain" ELSE "signer"

RivalLocks ==
    /\ \/ /\ rival.st = "off"
          /\ \E w \in Rivals : rival' = [st |-> "locking", wants |-> w]
          /\ UNCHANGED held
       \/ /\ rival.st = "locking" /\ rival.wants # {}
          /\ LET l == NextLock(rival.wants) IN
             IF held[l] = "none"
             THEN /\ held' = [held EXCEPT ![l] = "rival"]
                  /\ rival' = [rival EXCEPT !.wants = @ \ {l}]
             ELSE held' = Released("rival") /\ rival' = [st |-> "off", wants |-> {}]
       \/ /\ rival.st = "locking" /\ rival.wants = {}
          /\ rival' = [rival EXCEPT !.st = "serving"] /\ UNCHANGED held
       \/ /\ rival.st = "serving"
          /\ held' = Released("rival") /\ rival' = [st |-> "off", wants |-> {}]
    /\ UNCHANGED <<phase, storage, task, cancelled, outcome, beats, missed, budget>>

Launch ==
    /\ phase = "off" /\ phase' = "locking"
    /\ cancelled' = FALSE /\ outcome' = "none"
    /\ UNCHANGED <<held, rival, storage, task, beats, missed, budget>>

Acquire ==
    /\ phase = "locking" /\ \E l \in Lock : held[l] # "self"
    /\ LET l == NextLock({k \in Lock : held[k] # "self"}) IN
       IF held[l] = "none"
       THEN held' = [held EXCEPT ![l] = "self"] /\ UNCHANGED phase
       ELSE held' = Released("self") /\ phase' = "off"
    /\ UNCHANGED <<rival, storage, task, cancelled, outcome, beats, missed, budget>>

\* The guards bound to `_` are dropped at once.
OpenStorageUnguarded ==
    /\ phase = "locking" /\ \A l \in Lock : held[l] = "self"
    /\ phase' = "starting" /\ storage' = "alive" /\ held' = Released("self")
    /\ UNCHANGED <<rival, task, cancelled, outcome, beats, missed, budget>>

\* Startup keeps the guards in `authorization` until run_supervised returns.
OpenStorage ==
    /\ phase = "locking" /\ \A l \in Lock : held[l] = "self"
    /\ phase' = "starting" /\ storage' = "alive"
    /\ UNCHANGED <<held, rival, task, cancelled, outcome, beats, missed, budget>>

SpawnServices ==
    /\ phase = "starting" /\ phase' = "serving"
    /\ task' = [s \in Services |-> "running"]
    /\ beats' = {} /\ missed' = 0
    /\ UNCHANGED <<held, rival, storage, cancelled, outcome, budget>>

\* Provider identity, API bind and alerts may still refuse the start.
StartupFails ==
    /\ phase = "starting" /\ phase' = "stopping" /\ outcome' = "refused"
    /\ UNCHANGED <<held, rival, storage, task, cancelled, beats, missed, budget>>

-----------------------------------------------------------------------------
(* Workers. *)

\* A worker leaves its loop: an error with its disposition, an unexpected Ok
\* (restarted like an error), or a panic. The storage monitor is fatal.
Fail(s) ==
    /\ task[s] = "running" /\ ~cancelled /\ Spend("faults")
    /\ \E how \in IF s = "storage" THEN {"panicked"} ELSE Exited :
          task' = [task EXCEPT ![s] = how]
    /\ UNCHANGED <<cancelled, beats>>

\* An await that never returns; cancellation does not reach it.
Hang(s) ==
    /\ task[s] = "running" /\ s # "storage" /\ Spend("faults")
    /\ task' = [task EXCEPT ![s] = "hung"]
    /\ UNCHANGED <<cancelled, beats>>

Beat(s) ==
    /\ task[s] = "running" /\ s \in Core \ beats
    /\ beats' = beats \cup {s}
    /\ UNCHANGED <<task, cancelled, budget>>

\* The loop's select sees the cancellation.
Return(s) ==
    /\ task[s] = "running" /\ cancelled
    /\ task' = [task EXCEPT ![s] = "done"]
    /\ UNCHANGED <<cancelled, beats, budget>>

\* The wrapper of Supervisor::restart after its backoff.
Resume(s) ==
    /\ task[s] = "backoff"
    /\ task' = [task EXCEPT ![s] = IF cancelled THEN "done" ELSE "running"]
    /\ UNCHANGED <<cancelled, beats, budget>>

Worker(s) ==
    /\ Serving
    /\ Fail(s) \/ Hang(s) \/ Beat(s) \/ Return(s) \/ Resume(s)
    /\ UNCHANGED <<phase, held, rival, storage, outcome, missed>>

\* The actor thread ends or a command runs for a minute.
StorageStops ==
    /\ Serving /\ storage = "alive" /\ ~cancelled /\ Spend("faults")
    /\ storage' = "dead"
    /\ UNCHANGED <<phase, held, rival, task, cancelled, outcome, beats, missed>>

\* run_storage_owner_monitor
StorageMonitor ==
    /\ Serving /\ storage = "dead" /\ task["storage"] = "running" /\ ~cancelled
    /\ task' = [task EXCEPT !["storage"] = "fatal"]
    /\ UNCHANGED <<phase, held, rival, storage, cancelled, outcome, beats, missed,
                   budget>>

Signal ==
    /\ Serving /\ ~cancelled /\ Spend("signals") /\ cancelled' = TRUE
    /\ UNCHANGED <<phase, held, rival, storage, task, outcome, beats, missed>>

-----------------------------------------------------------------------------
(* Supervisor::run. *)

SupervisorBeat ==
    /\ phase = "serving" /\ "supervisor" \notin beats
    /\ beats' = beats \cup {"supervisor"}
    /\ UNCHANGED <<phase, held, rival, storage, task, cancelled, outcome, missed,
                   budget>>

Break(result) ==
    phase' = "draining" /\ outcome' = result /\ cancelled' = TRUE

\* What Supervisor::restart leaves of a failed restartable service.
AfterRestart(s) == "backoff"

Join(s) ==
    /\ phase = "serving" /\ task[s] \in Exited
    /\ IF cancelled /\ task[s] # "panicked"
       THEN Break("ok") /\ task' = [task EXCEPT ![s] = "done"]
       ELSE IF task[s] = "fatal" \/ s \notin Restartable
       THEN Break("fatal") /\ task' = [task EXCEPT ![s] = "done"]
       ELSE /\ task' = [task EXCEPT ![s] = AfterRestart(s)]
            /\ UNCHANGED <<phase, outcome, cancelled>>
    /\ UNCHANGED <<held, rival, storage, beats, missed, budget>>

SeeCancelled ==
    /\ phase = "serving" /\ cancelled /\ Break("ok")
    /\ UNCHANGED <<held, rival, storage, task, beats, missed, budget>>

\* join_next until none is left; the results are dropped.
Drained ==
    /\ phase = "draining" /\ \A s \in Services : task[s] \in Exited \cup {"done"}
    /\ phase' = "stopping" /\ task' = [s \in Services |-> "done"]
    /\ UNCHANGED <<held, rival, storage, cancelled, outcome, beats, missed, budget>>

\* A drain without a deadline.
DrainForever == FALSE

\* DEFAULT_SHUTDOWN_TIMEOUT: the rest is aborted. A worker that is only slow
\* to return is aborted like a hung one.
DrainTimeout ==
    /\ phase = "draining" /\ \E s \in Services : task[s] \in Live
    /\ phase' = "stopping" /\ outcome' = "timeout"
    /\ task' = [s \in Services |-> "done"]
    /\ UNCHANGED <<held, rival, storage, cancelled, beats, missed, budget>>

\* storage.shutdown(), then the guards are dropped.
Leave ==
    /\ phase = "stopping" /\ phase' = "off"
    /\ storage' = "closed" /\ held' = Released("self")
    /\ UNCHANGED <<rival, task, cancelled, outcome, beats, missed, budget>>

-----------------------------------------------------------------------------
(* run_systemd_watchdog and systemd. *)

SomeProgress == beats # {}
WorkersProgressed == Watched \subseteq beats

\* One interval. It is longer than the one-second heartbeats and the restart
\* backoff, so every responsive core worker and the supervisor have beaten.
WatchdogInterval ==
    /\ phase = "serving" /\ missed < Window /\ "supervisor" \in beats
    /\ \A s \in Core : task[s] = "running" => s \in beats
    /\ IF task["watchdog"] = "running" /\ storage = "alive" /\ WorkersProgressed
       THEN missed' = 0 /\ beats' = {}
       ELSE missed' = missed + 1 /\ UNCHANGED beats
    /\ UNCHANGED <<phase, held, rival, storage, task, cancelled, outcome, budget>>

\* systemd kills a process that has not notified it within WatchdogSec; the
\* kernel closes its files.
WatchdogKill ==
    /\ phase = "serving" /\ missed = Window
    /\ phase' = "off" /\ outcome' = "killed"
    /\ storage' = "closed" /\ held' = Released("self")
    /\ task' = [s \in Services |-> "done"]
    /\ UNCHANGED <<rival, cancelled, beats, missed, budget>>

-----------------------------------------------------------------------------

Process ==
    \/ Launch \/ Acquire \/ OpenStorage \/ SpawnServices \/ StartupFails
    \/ SupervisorBeat \/ SeeCancelled \/ Drained \/ DrainTimeout \/ Leave
    \/ StorageMonitor \/ WatchdogInterval \/ WatchdogKill
    \/ \E s \in Services : Join(s)

Next ==
    \/ Process \/ RivalLocks \/ StorageStops \/ Signal
    \/ \E s \in Services : Worker(s)

Spec == Init /\ [][Next]_vars

\* The runtime schedules the supervisor's select, the timers and every worker
\* that is not stuck; systemd enforces WatchdogSec. Failures, hangs and signals
\* need not happen, and neither process need be launched.
Fairness ==
    /\ WF_vars(SeeCancelled) /\ WF_vars(SupervisorBeat)
    /\ WF_vars(Drained \/ DrainTimeout) /\ WF_vars(Leave)
    /\ WF_vars(StorageMonitor)
    /\ WF_vars(WatchdogInterval) /\ WF_vars(WatchdogKill)
    /\ \A s \in Services :
          WF_vars(Join(s)) /\ WF_vars(Serving /\ (Beat(s) \/ Return(s) \/ Resume(s))
              /\ UNCHANGED <<phase, held, rival, storage, outcome, missed>>)

FairSpec == Spec /\ Fairness

-----------------------------------------------------------------------------
(* Properties. *)

\* "RAII owner for one chain lane and every configured signer lane": a process
\* that shares a lock file with this one serves only while this one has no
\* open storage and no task, through startup, drain, abort and kill.
LaneExclusive ==
    rival.st = "serving" =>
        storage = "closed" /\ \A s \in Services : task[s] = "done"

\* A signal, a fatal failure or a panic of a non-restartable service stops the
\* process within the drain's deadline, hung workers or not.
Stops == cancelled ~> phase = "off"

\* A core worker that no longer makes progress, or a storage owner that stopped,
\* does not leave a process that looks alive.
StuckIsStopped ==
    /\ \A s \in Core : phase = "serving" /\ task[s] = "hung" ~> phase = "off"
    /\ storage = "dead" ~> phase = "off"
=============================================================================
