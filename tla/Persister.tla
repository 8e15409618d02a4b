----------------------------- MODULE Persister -----------------------------
(***************************************************************************)
(* The persister: instances of one consumer group that copy the batches of *)
(* events.raw into raw_events (Postgres) and mark their events as seen     *)
(* (Redis).  An instance handles one batch at a time, whatever partition   *)
(* it comes from, and guards Postgres by one circuit breaker.  Kafka       *)
(* delivers at least once: a batch that was not acknowledged comes again,  *)
(* to the same instance or to another one.                                 *)
(***************************************************************************)
EXTENDS CircuitBreaker, Integers, Sequences, FiniteSets

CONSTANTS
    Instances,    \* service instances
    Partitions,   \* partitions of events.raw
    Log,          \* Log[p]: the messages of p
    Malformed,    \* messages without a value, or that do not deserialize
    Source,       \* Source[e]: where event e comes from
    None,         \* no value
    MaxFaults     \* bound on failed calls, crashes and lost partitions

Events == DOMAIN Source
Label == {"idle", "gate", "pause", "insert", "mark", "commit", "lag"}

ASSUME PersisterAssumption ==
    /\ Events \cap Malformed = {}
    /\ Log \in [Partitions -> Seq(Events \cup Malformed)]
    /\ MaxFaults \in Nat
    /\ None \notin Instances \cup Partitions

VARIABLES
    committed,    \* committed[p]: offset committed by the group
    owner,        \* owner[p]: the instance p is assigned to, or None
    position,     \* position[i][p]: number of messages i acknowledged
    paused,       \* paused[i]: partitions i does not fetch
    pc,           \* what i is about to do
    part,         \* the partition of i's batch
    end,          \* offset of the last message of i's batch
    todo,         \* offsets i still has to insert
    breaker,      \* i's circuit breaker
    stored,       \* raw_events, including what retention deleted since
    seen,         \* the seen keys in Redis
    lagRow,       \* consumer_lag: the position last reported for a partition
    failing,      \* history: i's failed batches since Postgres last took one
    tripped,      \* history: i's circuit opened since then
    faults        \* faults so far

groupVars   == <<committed, owner, position, paused>>
jobVars     == <<pc, part, end, todo>>
storeVars   == <<stored, seen>>
historyVars == <<failing, tripped>>
vars == <<groupVars, jobVars, breaker, lagRow, storeVars, historyVars, faults>>

Init ==
    /\ committed = [p \in Partitions |-> 0]
    /\ owner = [p \in Partitions |-> None]
    /\ position = [i \in Instances |-> [p \in Partitions |-> 0]]
    /\ paused = [i \in Instances |-> {}]
    /\ pc = [i \in Instances |-> "idle"]
    /\ part = [i \in Instances |-> None]
    /\ end = [i \in Instances |-> 0]
    /\ todo = [i \in Instances |-> {}]
    /\ breaker = [i \in Instances |-> NewBreaker]
    /\ stored = {}
    /\ seen = {}
    /\ lagRow = [p \in Partitions |-> 0]
    /\ failing = [i \in Instances |-> 0]
    /\ tripped = [i \in Instances |-> FALSE]
    /\ faults = 0

-----------------------------------------------------------------------------
(* Helpers *)

Goto(i, label) == pc' = [pc EXCEPT ![i] = label]
Fault == faults < MaxFaults /\ faults' = faults + 1
Min(S) == CHOOSE x \in S : \A y \in S : x <= y

\* collectMessagesWithStrategy: messages without a usable event are skipped,
\* and acknowledged with the rest of the batch.
Collected(p, from, to) == {o \in from .. to : Log[p][o] \notin Malformed}
Batch(i) == Collected(part[i], position[i][part[i]] + 1, end[i])
EventsAt(p, offsets) == {Log[p][o] : o \in offsets}

\* groupBySource: the events of one createMany, in the order of their sources'
\* first appearance.
FirstGroup(i) ==
    LET first == Log[part[i]][Min(todo[i])]
    IN  {o \in todo[i] : Source[Log[part[i]][o]] = Source[first]}

\* createMany with skipDuplicates.
Insert(events) == stored' = stored \cup events

\* isActive: running and not stale.  An instance that lost the partition may
\* not know yet.
ActiveValues(i) == IF owner[part[i]] = i THEN {TRUE} ELSE BOOLEAN

\* processBatch returns.
EndBatch(i) ==
    /\ Goto(i, "idle")
    /\ part' = [part EXCEPT ![i] = None]
    /\ end' = [end EXCEPT ![i] = 0]
    /\ todo' = [todo EXCEPT ![i] = {}]

\* The consumer stops and rejoins the group: what it owned is assigned anew.
LeaveGroup(i) ==
    owner' = [p \in Partitions |-> IF owner[p] = i THEN None ELSE owner[p]]

\* An error leaves processBatch.
Throw(i) ==
    /\ EndBatch(i)
    /\ LeaveGroup(i)
    /\ UNCHANGED <<committed, position>>

PostgresTook(i) ==
    /\ failing' = [failing EXCEPT ![i] = 0]
    /\ tripped' = [tripped EXCEPT ![i] = FALSE]

-----------------------------------------------------------------------------
(* The consumer group. *)

Assign(i, p) ==
    /\ owner[p] = None
    /\ pc[i] = "idle"
    /\ owner' = [owner EXCEPT ![p] = i]
    /\ position' = [position EXCEPT ![i][p] = committed[p]]
    /\ UNCHANGED <<committed, paused, jobVars, breaker, lagRow, storeVars,
                   historyVars, faults>>

\* The group takes p from its owner, whose batch goes on.
LosePartition(p) ==
    /\ owner[p] # None
    /\ Fault
    /\ owner' = [owner EXCEPT ![p] = None]
    /\ UNCHANGED <<committed, position, paused, jobVars, breaker, lagRow,
                   storeVars, historyVars>>

Fetch(i, p) ==
    /\ pc[i] = "idle"
    /\ owner[p] = i /\ p \notin paused[i]
    /\ \E to \in position[i][p] + 1 .. Len(Log[p]) : end' = [end EXCEPT ![i] = to]
    /\ part' = [part EXCEPT ![i] = p]
    /\ Goto(i, "gate")
    /\ UNCHANGED <<groupVars, todo, breaker, lagRow, storeVars, historyVars, faults>>

\* autoCommit: after a batch the consumer commits what was acknowledged.
AutoCommit(i, p) ==
    /\ pc[i] = "idle" /\ owner[p] = i
    /\ committed[p] < position[i][p]
    /\ committed' = [committed EXCEPT ![p] = position[i][p]]
    /\ UNCHANGED <<owner, position, paused, jobVars, breaker, lagRow, storeVars,
                   historyVars, faults>>

-----------------------------------------------------------------------------
(* The steps of PROCESS_BATCH_STEPS. *)

\* batch-lifecycle-gate, or a batch that turns inactive while it is collected.
GateInactive(i) ==
    /\ pc[i] = "gate"
    /\ FALSE \in ActiveValues(i)
    /\ EndBatch(i)
    /\ breaker' = [breaker EXCEPT ![i] = IF IsOpen(@) THEN @ ELSE AfterIsOpen(@)]
    /\ UNCHANGED <<groupVars, lagRow, storeVars, historyVars, faults>>

\* circuit-breaker-pause: pause the partition and wait.
GatePause(i) ==
    /\ pc[i] = "gate"
    /\ IsOpen(breaker[i])
    /\ paused' = [paused EXCEPT ![i] = @ \cup {part[i]}]
    /\ Goto(i, "pause")
    /\ UNCHANGED <<committed, owner, position, part, end, todo, breaker, lagRow,
                   storeVars, historyVars, faults>>

\* Variant of Resume: the batch that was not processed is acknowledged.
ResumeAcknowledging(i) ==
    /\ pc[i] = "pause"
    /\ ~IsOpen(breaker[i])
    /\ paused' = [paused EXCEPT ![i] = @ \ {part[i]}]
    /\ position' = [position EXCEPT ![i][part[i]] = end[i]]
    /\ EndBatch(i)
    /\ UNCHANGED <<committed, owner, breaker, lagRow, storeVars, historyVars, faults>>

\* Variant of Resume: nothing resumes the partition.
ResumeForgotten(i) ==
    /\ pc[i] = "pause"
    /\ ~IsOpen(breaker[i])
    /\ EndBatch(i)
    /\ UNCHANGED <<groupVars, breaker, lagRow, storeVars, historyVars, faults>>

\* The wait is over: the batch returns unacknowledged and is fetched again.
Resume(i) ==
    /\ pc[i] = "pause"
    /\ ~IsOpen(breaker[i])
    /\ paused' = [paused EXCEPT ![i] = @ \ {part[i]}]
    /\ EndBatch(i)
    /\ UNCHANGED <<committed, owner, position, breaker, lagRow, storeVars,
                   historyVars, faults>>

\* A heartbeat fails during the wait; the finally block resumes.
HeartbeatFails(i) ==
    /\ pc[i] = "pause"
    /\ owner[part[i]] # i
    /\ paused' = [paused EXCEPT ![i] = @ \ {part[i]}]
    /\ Throw(i)
    /\ UNCHANGED <<breaker, lagRow, storeVars, historyVars, faults>>

\* The circuit lets the batch through (and becomes half-open if it expired);
\* its messages are collected.  A batch without events skips the stores.
GatePass(i) ==
    /\ pc[i] = "gate"
    /\ ~IsOpen(breaker[i])
    /\ breaker' = [breaker EXCEPT ![i] = AfterIsOpen(@)]
    /\ todo' = [todo EXCEPT ![i] = Batch(i)]
    /\ Goto(i, IF Batch(i) = {} THEN "commit" ELSE "insert")
    /\ UNCHANGED <<groupVars, part, end, lagRow, storeVars, historyVars, faults>>

\* Variant of InsertGroup: the batch goes on after the first source.
InsertGroupOnly(i) ==
    /\ pc[i] = "insert"
    /\ Insert(EventsAt(part[i], FirstGroup(i)))
    /\ todo' = [todo EXCEPT ![i] = @ \ FirstGroup(i)]
    /\ Goto(i, "mark") /\ PostgresTook(i)
    /\ UNCHANGED <<groupVars, part, end, breaker, lagRow, seen, faults>>

\* persistBatch: one createMany per source.
InsertGroup(i) ==
    /\ pc[i] = "insert"
    /\ Insert(EventsAt(part[i], FirstGroup(i)))
    /\ todo' = [todo EXCEPT ![i] = @ \ FirstGroup(i)]
    /\ IF todo'[i] = {} THEN Goto(i, "mark") /\ PostgresTook(i)
                        ELSE UNCHANGED <<pc, historyVars>>
    /\ UNCHANGED <<groupVars, part, end, breaker, lagRow, seen, faults>>

\* A createMany fails, possibly after it was applied; groups before it stay.
InsertFails(i) ==
    /\ pc[i] = "insert"
    /\ Fault
    /\ \/ Insert(EventsAt(part[i], FirstGroup(i)))
       \/ UNCHANGED stored
    /\ breaker' = [breaker EXCEPT ![i] = AfterIsOpen(RecordFailure(@))]
    /\ failing' = [failing EXCEPT ![i] = @ + 1]
    /\ tripped' = [tripped EXCEPT ![i] = @ \/ IsOpen(breaker'[i])]
    /\ Throw(i)
    /\ UNCHANGED <<paused, lagRow, seen>>

\* markEventsSeen: one SET NX per event, also for duplicates.
Mark(i) ==
    /\ pc[i] = "mark"
    /\ seen' = seen \cup EventsAt(part[i], Batch(i))
    /\ breaker' = [breaker EXCEPT ![i] = AfterIsOpen(RecordSuccess(@))]
    /\ Goto(i, "commit")
    /\ UNCHANGED <<groupVars, part, end, todo, lagRow, stored, historyVars,
                   faults>>

\* Variant of MarkFails: the error of Redis is taken for one of Postgres.
MarkFailsCounting(i) ==
    /\ pc[i] = "mark"
    /\ Fault
    /\ \E marked \in SUBSET EventsAt(part[i], Batch(i)) : seen' = seen \cup marked
    /\ breaker' = [breaker EXCEPT ![i] = AfterIsOpen(RecordFailure(@))]
    /\ Throw(i)
    /\ UNCHANGED <<paused, lagRow, stored, historyVars>>

\* Variant of MarkFails: the failure is logged and the batch acknowledged.
MarkFailsSwallowed(i) ==
    /\ pc[i] = "mark"
    /\ Fault
    /\ \E marked \in SUBSET EventsAt(part[i], Batch(i)) : seen' = seen \cup marked
    /\ breaker' = [breaker EXCEPT ![i] = AfterIsOpen(RecordSuccess(@))]
    /\ Goto(i, "commit")
    /\ UNCHANGED <<groupVars, part, end, todo, lagRow, stored, historyVars>>

\* RedisWriteFailure: Postgres worked, so the circuit closes, but the batch is
\* not acknowledged.
MarkFails(i) ==
    /\ pc[i] = "mark"
    /\ Fault
    /\ \E marked \in SUBSET EventsAt(part[i], Batch(i)) : seen' = seen \cup marked
    /\ breaker' = [breaker EXCEPT ![i] = AfterIsOpen(RecordSuccess(@))]
    /\ Throw(i)
    /\ UNCHANGED <<paused, lagRow, stored, historyVars>>

\* Variant of Commit: an instance that lost the partition commits as well.
CommitStale(i) ==
    /\ pc[i] = "commit"
    /\ position' = [position EXCEPT ![i][part[i]] = end[i]]
    /\ \/ committed' = committed
       \/ committed' = [committed EXCEPT ![part[i]] = end[i]]
    /\ \/ Goto(i, "lag") /\ UNCHANGED <<part, end, todo>>
       \/ FALSE \in ActiveValues(i) /\ EndBatch(i)
    /\ UNCHANGED <<owner, paused, breaker, lagRow, storeVars, historyVars, faults>>

\* resolve-offsets, then commit-and-heartbeat.  commitOffsetsIfNecessary may
\* leave the commit to AutoCommit; an instance that lost the partition ends here.
Commit(i) ==
    /\ pc[i] = "commit"
    /\ position' = [position EXCEPT ![i][part[i]] = end[i]]
    /\ \/ committed' = committed
       \/ owner[part[i]] = i /\ committed' = [committed EXCEPT ![part[i]] = end[i]]
    /\ \/ Goto(i, "lag") /\ UNCHANGED <<part, end, todo>>
       \/ FALSE \in ActiveValues(i) /\ EndBatch(i)
    /\ UNCHANGED <<owner, paused, breaker, lagRow, storeVars, historyVars, faults>>

\* The commit or the heartbeat after it fails.
CommitFails(i) ==
    /\ pc[i] = "commit"
    /\ Fault
    /\ EndBatch(i)
    /\ LeaveGroup(i)
    /\ position' = [position EXCEPT ![i][part[i]] = end[i]]
    /\ UNCHANGED <<committed, paused, breaker, lagRow, storeVars, historyVars>>

\* update-consumer-lag: the upsert, which is left out when the last one is less
\* than CONSUMER_LAG_UPDATE_INTERVAL_MS old; its error is only logged.
UpdateLag(i) ==
    /\ pc[i] = "lag"
    /\ \/ lagRow' = [lagRow EXCEPT ![part[i]] = end[i]]
       \/ UNCHANGED lagRow
    /\ EndBatch(i)
    /\ UNCHANGED <<groupVars, breaker, storeVars, historyVars, faults>>

-----------------------------------------------------------------------------
(* The environment. *)

\* POSTGRES_CIRCUIT_OPEN_MS have passed.
Elapse(i) ==
    /\ IsOpen(breaker[i])
    /\ breaker' = [breaker EXCEPT ![i] = Elapsed(@)]
    /\ UNCHANGED <<groupVars, jobVars, lagRow, storeVars, historyVars, faults>>

\* The process dies and a new one starts: the breaker is in memory only.
Crash(i) ==
    /\ pc[i] # "idle" \/ breaker[i] # NewBreaker
    /\ Fault
    /\ EndBatch(i)
    /\ LeaveGroup(i)
    /\ paused' = [paused EXCEPT ![i] = {}]
    /\ breaker' = [breaker EXCEPT ![i] = NewBreaker]
    /\ PostgresTook(i)
    /\ UNCHANGED <<committed, position, lagRow, storeVars>>

-----------------------------------------------------------------------------

Work(i) ==
    \/ \E p \in Partitions : Fetch(i, p) \/ AutoCommit(i, p)
    \/ GateInactive(i) \/ GatePause(i) \/ GatePass(i) \/ Resume(i) \/ HeartbeatFails(i)
    \/ InsertGroup(i) \/ Mark(i) \/ Commit(i) \/ UpdateLag(i)

Failure(i) ==
    \/ InsertFails(i) \/ MarkFails(i) \/ CommitFails(i) \/ Crash(i)

Next ==
    \/ \E i \in Instances :
          \/ \E p \in Partitions : Assign(i, p)
          \/ Work(i) \/ Failure(i) \/ Elapse(i)
    \/ \E p \in Partitions : LosePartition(p)

Spec == Init /\ [][Next]_vars

\* An instance goes on, time passes, and the group assigns every partition.
Fairness ==
    /\ \A i \in Instances : WF_vars(Work(i)) /\ WF_vars(Elapse(i))
    /\ \A p \in Partitions : WF_vars(\E i \in Instances : Assign(i, p))

FairSpec == Spec /\ Fairness

-----------------------------------------------------------------------------
(* Properties *)

\* Every variable has its type.
GroupTypeOK ==
    /\ committed \in [Partitions -> Nat]
    /\ owner \in [Partitions -> Instances \cup {None}]
    /\ position \in [Instances -> [Partitions -> Nat]]
    /\ paused \in [Instances -> SUBSET Partitions]
JobTypeOK ==
    /\ pc \in [Instances -> Label]
    /\ part \in [Instances -> Partitions \cup {None}]
    /\ end \in [Instances -> Nat]
    /\ todo \in [Instances -> SUBSET Nat]
BreakerTypeOK ==
    /\ breaker \in [Instances -> Breaker]
    /\ failing \in [Instances -> Nat]
    /\ tripped \in [Instances -> BOOLEAN]
StoreTypeOK ==
    /\ stored \in SUBSET Events /\ seen \in SUBSET Events
    /\ lagRow \in [Partitions -> Nat]
    /\ faults \in 0 .. MaxFaults
TypeOK == GroupTypeOK /\ JobTypeOK /\ BreakerTypeOK /\ StoreTypeOK

EventsUpTo(p, offset) == EventsAt(p, Collected(p, 1, offset))

\* What the group committed is never delivered again, so its events are in
\* raw_events (or were, until retention) and marked as seen: whether Postgres
\* failed between two sources, Redis failed after Postgres, the circuit was
\* open, or another instance took the partition in the middle.
CommittedPersisted ==
    \A p \in Partitions : EventsUpTo(p, committed[p]) \subseteq stored \cap seen

\* An event is marked as seen only after it was stored: a seen key vouches for
\* a row, even when the batch behind it failed or was run twice.
SeenWasStored == seen \subseteq stored

\* The persister is a reliable copy: nothing is taken back from either store, and
\* no commit moves an offset back, neither of an instance that lost the partition
\* with a batch in its hands nor of one that got it again.  The position reported
\* in consumer_lag vouches for both stores too, although it is written before the
\* offset is committed and by instances that may have lost the partition.
Copy == INSTANCE ReliableCopy WITH
    kept <- stored, marked <- seen, retired <- committed, reported <- lagRow
CopiesReliably == Copy!Spec

\* The circuit opens after Threshold batches in a row that Postgres refused:
\* neither a failure of Redis nor failures before a success count.
OpensOnPostgresFailures ==
    \A i \in Instances : IsOpen(breaker[i]) => failing[i] >= Threshold

\* Until Postgres takes a batch again, every failed batch after the circuit
\* opened once opens it again: a single probe goes through per open period.
ReopensUntilSuccess ==
    [][\A i \in Instances :
          tripped[i] /\ failing'[i] > failing[i] => IsOpen(breaker'[i])]_vars

\* Once faults stop every partition is persisted and committed to its end: an
\* open circuit, a paused partition or a batch that returned unacknowledged
\* holds nothing up for ever.
EventuallyDrained == <>(\A p \in Partitions : committed[p] = Len(Log[p]))

=============================================================================
