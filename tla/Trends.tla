------------------------------ MODULE Trends ------------------------------
(***************************************************************************)
(* The trends service: it counts the events of events.raw per topic and    *)
(* per clock-aligned bucket of every window (Redis), and on a timer reads  *)
(* the current buckets, publishes the snapshot of every window             *)
(* (trends.snapshots), stores it (trend_snapshots) and keeps its counts as *)
(* the previous counts (Redis).  Both activities share one process and one *)
(* Redis connection.  A tick of the clock is one SNAPSHOT_INTERVAL, and a  *)
(* Redis key lives until its deadline.                                     *)
(***************************************************************************)
EXTENDS Integers, Sequences, FiniteSets, SequencesExt

CONSTANTS
    WindowSeq,    \* WINDOWS, in the configured order
    Length,       \* Length[w]: ticks in window w
    Ranking,      \* the allowlist's topics by priority, then key
    Muted,        \* muted topics
    MaxTopics,    \* maxTopicsPerEvent
    Log,          \* the messages of events.raw
    BatchSize,    \* messages in a batch, after which the consumer commits
    Event,        \* Event[e]: [fetched, published, url, weight, tags]
    MaxAge,       \* MAX_TRACKED_EVENT_AGE_MS
    None,         \* no published date, no url, no window
    MaxTime,      \* bound on the clock
    MaxFaults     \* bound on failed calls and crashes

Windows == ToSet(WindowSeq)
Topics == ToSet(Ranking)
Events == DOMAIN Event
Runs == {1, 2}
Never == -1

ASSUME TrendsAssumption ==
    /\ WindowSeq \in Seq(Windows) /\ Len(WindowSeq) > 0
    /\ Length \in [Windows -> Nat \ {0}]
    /\ \E w \in Windows : \A v \in Windows : Length[v] <= Length[w]
    /\ Log \in Seq(Events) /\ BatchSize \in Nat \ {0}
    /\ \A e \in Events : Event[e].fetched \in Nat /\ Event[e].weight \in Nat \ {0}
    /\ MaxFaults \in Nat

VARIABLES
    now,          \* the clock
    committed,    \* committed offset of events.raw
    position,     \* messages acknowledged by the running consumer
    consuming,    \* the consumer runs
    redis,        \* key -> [val, until], the live keys
    runs,         \* runs[r]: a run of the snapshot loop
    inFlight,     \* snapshotInFlight
    published,    \* published[w]: generatedAt of the last snapshot published
    table,        \* table[w]: generatedAt of the last row of trend_snapshots
    keptFrom,     \* keptFrom[w]: generatedAt of the snapshot prev:w is from
    applied,      \* history: the events applied, in order
    faults        \* faults so far

kafkaVars == <<committed, position, consuming>>
snapVars  == <<runs, inFlight, published, table, keptFrom>>
vars == <<now, kafkaVars, redis, snapVars, applied, faults>>

Fault == faults < MaxFaults /\ faults' = faults + 1

-----------------------------------------------------------------------------
(* Keys *)

BucketStart(time, w) == (time \div Length[w]) * Length[w]
CounterKey(w, t, b)  == <<"window", w, t, b>>
StoryKey(w, t, b)    == <<"story_urls", w, t, b>>
PrevKey(w, t)        == <<"prev", w, t>>
DedupKey(w, b)       == <<"dedup", w, b>>

Value(k, default) == IF k \in DOMAIN redis THEN redis[k].val ELSE default
Count(w, t, b) == Value(CounterKey(w, t, b), 0)

\* The largest window, whose bucket also tells duplicates apart.
ChooseDedupWindowSmallest ==
    CHOOSE w \in Windows : \A v \in Windows : Length[w] <= Length[v]
ChooseDedupWindow ==
    CHOOSE w \in Windows : \A v \in Windows : Length[v] <= Length[w]

\* What counts is kept for three windows from the last write.
Kept(w) == 3 * Length[w]
Entry(val, ticks) == [val |-> val, until |-> now + ticks]

\* Commands write their keys, each command its own, and leave the others.
Write(commands) ==
    redis' = [k \in DOMAIN redis \cup UNION {DOMAIN c : c \in commands} |->
                 IF \E c \in commands : k \in DOMAIN c
                 THEN (CHOOSE c \in commands : k \in DOMAIN c)[k] ELSE redis[k]]

-----------------------------------------------------------------------------
(* An event *)

\* filterTrackedTags: known and not muted, by priority, at most MaxTopics.
TrackedTopics == [e \in Events |->
    LET matched == SelectSeq(Ranking, LAMBDA t : t \in Event[e].tags \ Muted)
    IN  {matched[k] : k \in 1 .. Len(matched) \cap 1 .. MaxTopics}]

FreshEnough(e) ==
    Event[e].published # None =>
        Event[e].fetched - Event[e].published <= MaxAge

Tracked(e) == TrackedTopics[e] # {} /\ FreshEnough(e)

BucketOf(e, w) == BucketStart(Event[e].fetched, w)

\* The url counts once per window, topic and bucket.  No url, no such guard.
NewStory(e, w, t) ==
    \/ Event[e].url = None
    \/ Event[e].url \notin Value(StoryKey(w, t, BucketOf(e, w)), {})

DedupKeyOf(e) == DedupKey(ChooseDedupWindow, BucketOf(e, ChooseDedupWindow))
Duplicate(e) == e \in Value(DedupKeyOf(e), {})
Marked(e) == [k \in {DedupKeyOf(e)} |->
    Entry(Value(k, {}) \cup {e}, Kept(ChooseDedupWindow))]

\* The keys a plan of the script writes, for every window and topic.
CountersUnguarded(e) ==
    [k \in {CounterKey(p[1], p[2], BucketOf(e, p[1])) : p \in Windows \X TrackedTopics[e]} |->
        Entry(Value(k, 0) + Event[e].weight, Kept(k[2]))]
Counters(e) ==
    LET plans == {p \in Windows \X TrackedTopics[e] : NewStory(e, p[1], p[2])}
    IN  [k \in {CounterKey(p[1], p[2], BucketOf(e, p[1])) : p \in plans} |->
            Entry(Value(k, 0) + Event[e].weight, Kept(k[2]))]
Stories(e) ==
    LET plans == {p \in Windows \X TrackedTopics[e] : Event[e].url # None}
    IN  [k \in {StoryKey(p[1], p[2], BucketOf(e, p[1])) : p \in plans} |->
            Entry(Value(k, {}) \cup {Event[e].url}, Kept(k[2]))]

\* APPLY_EVENT_TO_WINDOWS_SCRIPT: one atomic step.  A duplicate refreshes the
\* deadline of the dedup set and nothing else.
ApplyEventToWindows(e) ==
    IF Duplicate(e)
    THEN Write({Marked(e)}) /\ UNCHANGED applied
    ELSE /\ Write({Marked(e), Counters(e), Stories(e)})
         /\ applied' = IF e \in ToSet(applied) THEN applied ELSE Append(applied, e)

-----------------------------------------------------------------------------
(* The consumer *)

Message == Log[position + 1]
Available ==
    /\ consuming
    /\ position < Len(Log) /\ position < committed + BatchSize
    /\ Event[Message].fetched <= now

Skip ==
    /\ Available /\ ~Tracked(Message)
    /\ position' = position + 1
    /\ UNCHANGED <<now, committed, consuming, redis, snapVars,
                   applied, faults>>

Apply ==
    /\ Available /\ Tracked(Message)
    /\ ApplyEventToWindows(Message)
    /\ position' = position + 1
    /\ UNCHANGED <<now, committed, consuming, snapVars, faults>>

\* The consumer rejoins the group: delivery restarts at the committed offsets.
RejoinStopped ==
    /\ position' = committed
    /\ consuming' = FALSE
    /\ UNCHANGED committed
Rejoin ==
    /\ position' = committed
    /\ UNCHANGED <<committed, consuming>>

\* onMessage rethrows what Redis threw, whether the script ran or not.
ApplyFailsSwallowed ==
    /\ Available /\ Tracked(Message)
    /\ Fault
    /\ \/ ApplyEventToWindows(Message)
       \/ UNCHANGED <<redis, applied>>
    /\ position' = position + 1
    /\ UNCHANGED <<now, committed, consuming, snapVars>>
ApplyFails ==
    /\ Available /\ Tracked(Message)
    /\ Fault
    /\ \/ ApplyEventToWindows(Message)
       \/ UNCHANGED <<redis, applied>>
    /\ Rejoin
    /\ UNCHANGED <<now, snapVars>>

AutoCommit ==
    /\ consuming /\ committed < position
    /\ committed' = position
    /\ UNCHANGED <<now, position, consuming, redis, snapVars,
                   applied, faults>>

-----------------------------------------------------------------------------
(* The snapshot loop *)

Idle == [step |-> "idle", w |-> 0, at |-> 0, counts |-> [t \in Topics |-> 0]]
Starting == [Idle EXCEPT !.step = "read", !.w = 1]
Set(r, run) == runs' = [runs EXCEPT ![r] = run]
Window(r) == WindowSeq[runs[r].w]

\* The timer fires: run() returns at once while a snapshot is in flight.
TimerUnguarded ==
    IF \E r \in Runs : runs[r].step = "idle"
    THEN /\ Set(CHOOSE r \in Runs : runs[r].step = "idle", Starting)
         /\ inFlight' = TRUE
    ELSE UNCHANGED <<runs, inFlight>>
Timer ==
    IF inFlight \/ \A r \in Runs : runs[r].step # "idle"
    THEN UNCHANGED <<runs, inFlight>>
    ELSE /\ Set(CHOOSE r \in Runs : runs[r].step = "idle", Starting)
         /\ inFlight' = TRUE

\* A SNAPSHOT_INTERVAL passes, and Redis drops the keys past their deadline.
\* The timer is set once the first run has ended.
Tick ==
    /\ now < MaxTime
    /\ now' = now + 1
    /\ redis' = [k \in {x \in DOMAIN redis : redis[x].until > now + 1} |-> redis[k]]
    /\ IF consuming THEN Timer ELSE UNCHANGED <<runs, inFlight>>
    /\ UNCHANGED <<kafkaVars, published, table, keptFrom, applied, faults>>

\* computeWindowMetrics reads the buckets of now in one pipeline.  The error
\* of a command is not looked at: its count is 0.
ReadCounts(r, lost) ==
    /\ runs[r].step = "read"
    /\ LET w == Window(r)
           counts == [t \in Topics |->
                         IF t \in lost THEN 0 ELSE Count(w, t, BucketStart(now, w))]
       IN  Set(r, [runs[r] EXCEPT !.step = "publish", !.at = now, !.counts = counts])
    /\ UNCHANGED <<now, kafkaVars, redis, inFlight, published, table, keptFrom,
                   applied>>

Read(r) == ReadCounts(r, {}) /\ UNCHANGED faults
ReadLoses(r) == Fault /\ \E lost \in SUBSET Topics \ {{}} : ReadCounts(r, lost)

Publish(r) ==
    /\ runs[r].step = "publish"
    /\ published' = [published EXCEPT ![Window(r)] = runs[r].at]
    /\ Set(r, [runs[r] EXCEPT !.step = "store"])
    /\ UNCHANGED <<now, kafkaVars, redis, inFlight, table, keptFrom, applied, faults>>

Store(r) ==
    /\ runs[r].step = "store"
    /\ table' = [table EXCEPT ![Window(r)] = runs[r].at]
    /\ Set(r, [runs[r] EXCEPT !.step = "keep"])
    /\ UNCHANGED <<now, kafkaVars, redis, inFlight, published, keptFrom, applied,
                   faults>>

\* The loop goes on with the next window, or publishSnapshots returns.
Done(r) ==
    IF runs[r].w < Len(WindowSeq)
    THEN Set(r, [Starting EXCEPT !.w = runs[r].w + 1]) /\ UNCHANGED <<inFlight, consuming>>
    ELSE Set(r, Idle) /\ inFlight' = FALSE /\ consuming' = TRUE

\* writePreviousWindowCounts: the counts of every topic, whatever its rank.
KeepCounts(r, topics) ==
    /\ Write({[k \in {PrevKey(Window(r), t) : t \in topics} |->
                  Entry(runs[r].counts[k[3]], 2 * Length[k[2]])]})
    /\ keptFrom' = [keptFrom EXCEPT ![Window(r)] = runs[r].at]

Keep(r) ==
    /\ runs[r].step = "keep"
    /\ KeepCounts(r, Topics)
    /\ Done(r)
    /\ UNCHANGED <<now, committed, position, published, table,
                   applied, faults>>

\* A step throws, its effect done, done in part or not done: the error is
\* logged, the windows that remain have no snapshot, and the run ends.
RunFailsInFlight(r) ==
    /\ runs[r].step # "idle"
    /\ Fault
    /\ Set(r, Idle)
    /\ consuming' = TRUE
    /\ UNCHANGED <<now, committed, position, applied, published,
                   table, redis, keptFrom, inFlight>>
RunFails(r) ==
    /\ runs[r].step # "idle"
    /\ Fault
    /\ Set(r, Idle) /\ inFlight' = FALSE /\ consuming' = TRUE
    /\ \/ UNCHANGED <<published, table, redis, keptFrom>>
       \/ /\ runs[r].step = "publish"
          /\ published' = [published EXCEPT ![Window(r)] = runs[r].at]
          /\ UNCHANGED <<table, redis, keptFrom>>
       \/ /\ runs[r].step = "store"
          /\ table' = [table EXCEPT ![Window(r)] = runs[r].at]
          /\ UNCHANGED <<published, redis, keptFrom>>
       \/ /\ runs[r].step = "keep"
          /\ \E topics \in SUBSET Topics \ {{}} : KeepCounts(r, topics)
          /\ UNCHANGED <<published, table>>
    /\ UNCHANGED <<now, committed, position, applied>>

-----------------------------------------------------------------------------

\* The process starts with a first snapshot, and then consumes.
Init ==
    /\ now = 0
    /\ committed = 0 /\ position = 0 /\ consuming = FALSE
    /\ redis = [k \in {} |-> Idle]
    /\ runs = [r \in Runs |-> IF r = 1 THEN Starting ELSE Idle]
    /\ inFlight = TRUE
    /\ applied = <<>>
    /\ published = [w \in Windows |-> Never]
    /\ table = published /\ keptFrom = published
    /\ faults = 0

\* The process dies and starts again.
Crash ==
    /\ Fault
    /\ position' = committed /\ consuming' = FALSE
    /\ runs' = [r \in Runs |-> IF r = 1 THEN Starting ELSE Idle]
    /\ inFlight' = TRUE
    /\ UNCHANGED <<now, committed, redis, published, table, applied, keptFrom>>

Consume == Skip \/ Apply \/ AutoCommit
SnapshotStep(r) == Read(r) \/ Publish(r) \/ Store(r) \/ Keep(r)

Next ==
    \/ Consume \/ ApplyFails \/ Tick \/ Crash
    \/ \E r \in Runs : SnapshotStep(r) \/ ReadLoses(r) \/ RunFails(r)

Spec == Init /\ [][Next]_vars

\* The event loop serves the consumer and the snapshot loop, and time passes.
FairSpec ==
    /\ Spec
    /\ WF_vars(Consume) /\ WF_vars(Tick)
    /\ \A r \in Runs : WF_vars(SnapshotStep(r))

-----------------------------------------------------------------------------
(* Properties *)

\* The volume of topic t in bucket b of w: every story weighs as much as the
\* first of its events.
IsFirst(k, w, t, b) ==
    LET e == applied[k]
        in(j) == t \in TrackedTopics[applied[j]] /\ BucketOf(applied[j], w) = b
    IN  /\ in(k)
        /\ \/ Event[e].url = None
           \/ \A j \in 1 .. k - 1 : in(j) => Event[applied[j]].url # Event[e].url
Volume(w, t, b) ==
    SumFunctionOnSet([k \in DOMAIN applied |-> Event[applied[k]].weight],
                     {k \in DOMAIN applied : IsFirst(k, w, t, b)})

\* No counter counts a story twice while its keys are kept, over or not: a
\* message that comes again, after the script ran and its answer was lost,
\* after a crash, or when keys of smaller windows expired, finds its event in a
\* dedup set that outlives every counter the event went to.
CountedOnce ==
    \A w \in Windows, t \in Topics :
        \A b \in {BucketStart(x, w) : x \in 0 .. now} :
            now < b + Kept(w) => Count(w, t, b) <= Volume(w, t, b)

\* The bucket a snapshot reads holds every event applied to it so far: mark
\* and counters are one script, and no key of a current bucket expires.
CurrentBucketExact ==
    \A w \in Windows, t \in Topics :
        LET current == BucketStart(now, w) IN Count(w, t, current) = Volume(w, t, current)

\* What the group committed was applied, unless it is untracked or too old: a
\* failure of Redis does not let a message pass.
CommittedApplied ==
    \A k \in 1 .. committed : Tracked(Log[k]) => Log[k] \in ToSet(applied)

\* The previous counts are those of the snapshot just published and stored,
\* and never go back to an older one: a step that failed is not passed over,
\* and a run that takes longer than the interval is not overtaken by the next.
PrevNeverOlder ==
    [][\A w \in Windows : keptFrom'[w] # keptFrom[w] =>
          /\ keptFrom'[w] > keptFrom[w]
          /\ {table[w], published[w]} = {keptFrom'[w]}]_keptFrom

\* Every message is committed once faults stop, and a run of the snapshot loop
\* always ends, so that the timer is not ignored for ever.
EventuallyConsumed == <>(committed = Len(Log))
RunsEnd == inFlight ~> ~inFlight

=============================================================================
