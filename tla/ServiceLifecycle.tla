-------------------------- MODULE ServiceLifecycle --------------------------
(***************************************************************************)
(* The life of one process of a service: runService starts it, the runtime *)
(* factory connects its resources one after the other, a failure rolls     *)
(* back what was connected, and a signal or an error shuts down what runs. *)
(* start(), the shutdown, the consumer's batches and the snapshot runs of  *)
(* the trends service interleave at every await.                           *)
(***************************************************************************)
EXTENDS Naturals, Sequences, SequencesExt

CONSTANTS
    Services,     \* the services looked at, a subset of DOMAIN Startup
    None,         \* no exit code
    MaxFaults     \* bound on failed and hanging calls, errors and signals

-----------------------------------------------------------------------------
(* What a service connects when it starts, and what it closes, in order.   *)
(* Loads have nothing to close.                                            *)

PersisterStartup == <<"health", "postgres", "redis", "consumer">>
TrendsStartup    == <<"health", "postgres", "redis", "allowlist", "consumer", "producer">>
BriefStartup     == <<"health", "postgres", "redis", "consumer", "producer">>
CollectorStartup == <<"health", "checkpoints", "allowlist", "producer", "filters", "adapters">>

PersisterShutdown == <<"consumer", "redis", "postgres", "health">>
TrendsShutdown    == <<"consumer", "producer", "redis", "postgres", "health">>
BriefShutdownReversed == <<"health", "postgres", "redis", "producer", "consumer">>
BriefShutdown     == <<"consumer", "producer", "redis", "postgres", "health">>
CollectorShutdown == <<"adapters", "checkpoints", "producer", "health">>

Startup ==
    [persister |-> PersisterStartup, trends |-> TrendsStartup,
     brief |-> BriefStartup, collector |-> CollectorStartup]
Shutdown ==
    [persister |-> PersisterShutdown, trends |-> TrendsShutdown,
     brief |-> BriefShutdown, collector |-> CollectorShutdown]

Loads == {"allowlist", "filters"}
Resources == (UNION {ToSet(Startup[s]) : s \in DOMAIN Startup}) \ Loads
Stores == {"postgres", "redis", "producer"}
Flow == {1, 2}

ASSUME LifecycleAssumption ==
    Services \subseteq DOMAIN Startup /\ None \notin {0, 1} /\ MaxFaults \in Nat

VARIABLES
    service,      \* the service
    phase,        \* where start() is
    next,         \* the index in Startup[service] to connect
    rollback,     \* the registered rollback steps, last connected first
    open,         \* the resources that are connected
    context,      \* initialize() returned
    shuttingDown, \* shuttingDown
    step,         \* step[k]: index in Shutdown[service] of the k-th shutdown
    code,         \* code[k]: its exit code
    exit,         \* the exit code of the process
    batch,        \* a batch is being processed
    snapshot,     \* trends: a snapshot run is in flight
    timer,        \* trends: the snapshot timer is set
    calls,        \* history: how often r was asked to close
    broken,       \* history: r failed to close
    hung,         \* history: r is closing for ever
    cut,          \* history: the process ended before its steps did
    revived,      \* history: the consumer was started after its disconnect
    faults        \* faults so far

startVars == <<phase, next, rollback, context>>
stopVars  == <<shuttingDown, step, code, exit>>
workVars  == <<batch, snapshot, timer>>
closeVars == <<open, calls, broken, hung>>
vars == <<service, startVars, stopVars, workVars, closeVars, cut, revived, faults>>

Init ==
    /\ service \in Services
    /\ phase = "init" /\ next = 1 /\ rollback = <<>> /\ context = FALSE
    /\ shuttingDown = FALSE /\ exit = None
    /\ step = [k \in Flow |-> 0] /\ code = [k \in Flow |-> 0]
    /\ batch = FALSE /\ snapshot = FALSE /\ timer = FALSE
    /\ open = {} /\ calls = [r \in Resources |-> 0]
    /\ broken = {} /\ hung = {}
    /\ cut = FALSE /\ revived = FALSE
    /\ faults = 0

Alive == exit = None
Fault == faults < MaxFaults /\ faults' = faults + 1

-----------------------------------------------------------------------------
(* requestShutdown *)

\* process.exit; steps that are left are not run.
Exit(c, early) == exit' = c /\ cut' = early

\* Variant of RequestShutdown: a second request runs the steps again.
RequestShutdownTwice(c) ==
    IF ~context
    THEN shuttingDown' = TRUE /\ Exit(c, open # {}) /\ UNCHANGED <<step, code>>
    ELSE \E k \in Flow :
            /\ step[k] = 0
            /\ \A j \in Flow : j < k => step[j] # 0
            /\ shuttingDown' = TRUE
            /\ step' = [step EXCEPT ![k] = 1]
            /\ code' = [code EXCEPT ![k] = c]
            /\ UNCHANGED <<exit, cut>>

\* A request after the first one returns.  Before initialize() returned there
\* is no context, and the process exits at once.
RequestShutdown(c) ==
    \/ shuttingDown /\ UNCHANGED <<stopVars, cut>>
    \/ /\ ~shuttingDown /\ ~context
       /\ shuttingDown' = TRUE
       /\ Exit(c, open # {})
       /\ UNCHANGED <<step, code>>
    \/ /\ ~shuttingDown /\ context
       /\ shuttingDown' = TRUE
       /\ step' = [step EXCEPT ![1] = 1]
       /\ code' = [code EXCEPT ![1] = c]
       /\ UNCHANGED <<exit, cut>>

\* SIGTERM or SIGINT.
Signal ==
    /\ Alive /\ Fault
    /\ RequestShutdown(0)
    /\ UNCHANGED <<service, startVars, workVars, closeVars, revived>>

\* An uncaught exception or an unhandled rejection.
Uncaught ==
    /\ Alive /\ Fault
    /\ RequestShutdown(1)
    /\ UNCHANGED <<service, startVars, workVars, closeVars, revived>>

-----------------------------------------------------------------------------
(* start() *)

Item == Startup[service][next]

\* resources.connect, or a load: what was connected is registered.
Connect ==
    /\ Alive /\ phase = "init" /\ next <= Len(Startup[service])
    /\ next' = next + 1
    /\ IF Item \in Loads
       THEN UNCHANGED <<open, rollback>>
       ELSE open' = open \cup {Item} /\ rollback' = <<Item>> \o rollback
    /\ UNCHANGED <<service, phase, context, stopVars, workVars, calls, broken, hung,
                   cut, revived, faults>>

\* What failed to connect is not registered.
ConnectFails ==
    /\ Alive /\ phase = "init" /\ next <= Len(Startup[service])
    /\ Fault
    /\ phase' = "rollback"
    /\ UNCHANGED <<service, next, rollback, context, stopVars, workVars, closeVars,
                   cut, revived>>

\* A close ends, throws, or never ends.  The consumer waits for its batch.
Close(r) ==
    /\ calls' = [calls EXCEPT ![r] = @ + 1]
    /\ r = "consumer" => ~batch
    /\ open' = open \ {r}
    /\ UNCHANGED <<broken, hung, faults>>
CloseFails(r) ==
    /\ Fault
    /\ calls' = [calls EXCEPT ![r] = @ + 1]
    /\ broken' = broken \cup {r}
    /\ UNCHANGED <<open, hung>>
CloseHangs(r) ==
    /\ Fault
    /\ calls' = [calls EXCEPT ![r] = @ + 1]
    /\ hung' = hung \cup {r}
    /\ UNCHANGED <<open, broken>>

\* Variant of RollbackStep: a failing step ends the rollback.
RollbackStepStops ==
    /\ Alive /\ phase = "rollback" /\ rollback # <<>> /\ hung = {}
    /\ \/ Close(Head(rollback)) /\ rollback' = Tail(rollback)
       \/ CloseFails(Head(rollback)) /\ rollback' = <<>>
    /\ UNCHANGED <<service, phase, next, context, stopVars, workVars, cut, revived>>

\* The rollback steps, the last connected first; an error is logged.
RollbackStep ==
    /\ Alive /\ phase = "rollback" /\ rollback # <<>> /\ hung = {}
    /\ \/ Close(Head(rollback)) /\ rollback' = Tail(rollback)
       \/ CloseFails(Head(rollback)) /\ rollback' = Tail(rollback)
    /\ UNCHANGED <<service, phase, next, context, stopVars, workVars, cut, revived>>

RollbackHangs ==
    /\ Alive /\ phase = "rollback" /\ rollback # <<>> /\ hung = {}
    /\ CloseHangs(Head(rollback))
    /\ UNCHANGED <<service, startVars, stopVars, workVars, cut, revived>>

\* initialize() rejects: start() logs the error and requests a shutdown.
RolledBack ==
    /\ Alive /\ phase = "rollback" /\ rollback = <<>> /\ ~shuttingDown
    /\ shuttingDown' = TRUE
    /\ Exit(1, FALSE)
    /\ UNCHANGED <<service, startVars, step, code, workVars, closeVars, revived, faults>>

\* initialize() returns; the trends service first runs a snapshot.
Initialized ==
    /\ Alive /\ phase = "init" /\ next > Len(Startup[service])
    /\ context' = TRUE
    /\ phase' = IF service = "trends" THEN "first" ELSE "run"
    /\ snapshot' = (service = "trends")
    /\ UNCHANGED <<service, next, rollback, stopVars, batch, timer, closeVars, cut,
                   revived, faults>>

\* run() of the other services, or of trends once its timer is set: consume()
\* connects the consumer, also one that a shutdown has disconnected meanwhile.
Consume ==
    /\ Alive /\ phase = "run"
    /\ phase' = "running"
    /\ IF service = "collector" \/ "consumer" \in open
       THEN UNCHANGED <<open, revived>>
       ELSE open' = open \cup {"consumer"} /\ revived' = TRUE
    /\ UNCHANGED <<service, next, rollback, context, stopVars, workVars, calls, broken,
                   hung, cut, faults>>

\* run() rejects; start() requests a shutdown.
RunFails ==
    /\ Alive /\ phase \in {"run", "running"}
    /\ Fault
    /\ phase' = "failed"
    /\ RequestShutdown(1)
    /\ UNCHANGED <<service, next, rollback, context, workVars, closeVars, revived>>

-----------------------------------------------------------------------------
(* Work *)

StartBatch ==
    /\ Alive /\ phase = "running" /\ service # "collector"
    /\ "consumer" \in open /\ ~batch
    \* a consumer that is disconnecting fetches no batch
    /\ \A k \in Flow : step[k] # 0 => Shutdown[service][1] \in broken \/ revived
    /\ batch' = TRUE
    /\ UNCHANGED <<service, startVars, stopVars, snapshot, timer, closeVars, cut,
                   revived, faults>>

EndBatch ==
    /\ Alive /\ batch
    /\ batch' = FALSE
    /\ UNCHANGED <<service, startVars, stopVars, snapshot, timer, closeVars, cut,
                   revived, faults>>

\* The timer fires: a run starts unless one is in flight.
StartSnapshot ==
    /\ Alive /\ timer /\ ~snapshot
    /\ snapshot' = TRUE
    /\ UNCHANGED <<service, startVars, stopVars, batch, timer, closeVars, cut, revived,
                   faults>>

\* The run ends or fails, and the first one lets runSnapshotLoop go on.
EndSnapshot ==
    /\ Alive /\ snapshot
    /\ snapshot' = FALSE
    /\ timer' = (timer \/ phase = "first")
    /\ phase' = IF phase = "first" THEN "run" ELSE phase
    /\ UNCHANGED <<service, next, rollback, context, stopVars, batch, closeVars, cut,
                   revived, faults>>

-----------------------------------------------------------------------------
(* gracefulShutdown *)

Stopping(k) == Alive /\ step[k] # 0 /\ step[k] <= Len(Shutdown[service])
Closing(k) == Shutdown[service][step[k]]

\* Before its steps the trends service clears its timer.
ClearTimer(k) == timer' = (timer /\ step[k] # 1)

\* An error is logged, and the steps go on.
StopStep(k) ==
    /\ Stopping(k) /\ hung = {}
    /\ \/ Close(Closing(k))
       \/ CloseFails(Closing(k)) /\ <<service, Closing(k)>> # <<"collector", "checkpoints">>
    /\ step' = [step EXCEPT ![k] = @ + 1]
    /\ ClearTimer(k)
    /\ UNCHANGED <<service, startVars, shuttingDown, code, exit, batch, snapshot, cut,
                   revived>>

\* The collector closes its checkpoints outside the steps.
CheckpointsFail(k) ==
    /\ Stopping(k) /\ hung = {}
    /\ service = "collector" /\ Closing(k) = "checkpoints"
    /\ CloseFails("checkpoints")
    /\ Exit(1, TRUE)
    /\ UNCHANGED <<service, startVars, shuttingDown, step, code, workVars, revived>>

StopHangs(k) ==
    /\ Stopping(k) /\ hung = {}
    /\ CloseHangs(Closing(k))
    /\ ClearTimer(k)
    /\ UNCHANGED <<service, startVars, stopVars, batch, snapshot, cut, revived>>

\* Variant of Timeout: it is cleared when the steps begin.
TimeoutCleared(k) ==
    /\ Stopping(k) /\ FALSE
    /\ Exit(1, TRUE)
    /\ UNCHANGED <<service, startVars, shuttingDown, step, code, workVars, closeVars,
                   revived, faults>>

\* SHUTDOWN_TIMEOUT_MS have passed.
Timeout(k) ==
    /\ Stopping(k)
    /\ Exit(1, TRUE)
    /\ UNCHANGED <<service, startVars, shuttingDown, step, code, workVars, closeVars,
                   revived, faults>>

Stopped(k) ==
    /\ Alive /\ step[k] > Len(Shutdown[service])
    /\ Exit(code[k], FALSE)
    /\ UNCHANGED <<service, startVars, shuttingDown, step, code, workVars, closeVars,
                   revived, faults>>

-----------------------------------------------------------------------------

Starting == Connect \/ RollbackStep \/ RolledBack \/ Initialized \/ Consume
Work == StartBatch \/ EndBatch \/ StartSnapshot \/ EndSnapshot
Stop(k) == StopStep(k) \/ Stopped(k)

Next ==
    \/ Starting \/ ConnectFails \/ RollbackHangs \/ RunFails
    \/ Work \/ Signal \/ Uncaught
    \/ \E k \in Flow : Stop(k) \/ CheckpointsFail(k) \/ StopHangs(k) \/ Timeout(k)

Spec == Init /\ [][Next]_vars

\* Calls that do not hang return, and the timer of the shutdown fires.
FairSpec ==
    /\ Spec
    /\ WF_vars(Starting)
    /\ \A k \in Flow : WF_vars(Stop(k)) /\ WF_vars(Timeout(k))

-----------------------------------------------------------------------------
(* Properties *)

\* Every variable has its type.
TypeOK ==
    /\ service \in Services
    /\ phase \in {"init", "rollback", "first", "run", "running", "failed"}
    /\ next \in 1 .. Len(Startup[service]) + 1
    /\ rollback \in Seq(Resources)
    /\ open \in SUBSET Resources
    /\ context \in BOOLEAN /\ shuttingDown \in BOOLEAN
    /\ batch \in BOOLEAN /\ snapshot \in BOOLEAN /\ timer \in BOOLEAN
    /\ step \in [Flow -> Nat] /\ code \in [Flow -> {0, 1}]
    /\ \A k \in Flow : step[k] <= Len(Shutdown[service]) + 1
    /\ exit \in {None, 0, 1}
    /\ calls \in [Resources -> Nat]
    /\ broken \in SUBSET Resources /\ hung \in SUBSET Resources
    /\ cut \in BOOLEAN /\ revived \in BOOLEAN
    /\ faults \in 0 .. MaxFaults

\* A process that was not cut short asked everything it had connected to
\* close, once: after a start that failed half way, and however many signals
\* and errors arrived during the shutdown.
ReleasedOnce ==
    exit # None /\ ~cut =>
        \A r \in Resources :
            calls[r] = IF r \in ToSet(SubSeq(Startup[service], 1, next - 1)) THEN 1 ELSE 0

\* No store is closed under a batch that still writes to it, unless the
\* disconnect of the consumer failed, or run() started it again afterwards.
StoresOutliveBatch ==
    batch /\ "consumer" \notin broken /\ ~revived =>
        \A r \in Stores : calls[r] = 0

\* A failed start and a requested shutdown end the process.  Only a rollback
\* has no timeout: a close that hangs there keeps the process.
StopEnds ==
    (shuttingDown \/ phase = "rollback") ~>
        (exit # None \/ (phase = "rollback" /\ hung # {}))

=============================================================================
