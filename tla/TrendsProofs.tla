---------------------------- MODULE TrendsProofs ----------------------------
(***************************************************************************)
(* For any windows, topics, events, batches and faults: what the counters  *)
(* of Trends count, what it commits, and which snapshot its previous       *)
(* counts come from.                                                       *)
(***************************************************************************)
EXTENDS Trends, FiniteFacts

Steps == {"idle", "read", "publish", "store", "keep"}
Run == [step : Steps, w : Nat, at : Nat, counts : [Topics -> Nat]]

TypeOK ==
    /\ now \in Nat
    /\ committed \in Nat /\ position \in Nat /\ inFlight \in BOOLEAN
    /\ runs \in [Runs -> Run]
    /\ published \in [Windows -> Int]
    /\ table \in [Windows -> Int]
    /\ keptFrom \in [Windows -> Int]
    /\ applied \in Seq(Events)
    /\ faults \in Nat

\* A key of bucket b in w is kept for three windows from the start of b, at
\* least: from the last write, which came later.
Outlives(k, w, b) ==
    k \in DOMAIN redis => redis[k].until \in Nat /\ redis[k].until >= b + Kept(w)

\* Counters and story sets are kept that long, and a dedup set as long as the
\* counters, in every window, of the applied events it holds.
RedisOK ==
    \A w \in Windows, b \in Nat :
        /\ \A t \in Topics :
              /\ Outlives(CounterKey(w, t, b), w, b)
              /\ Outlives(StoryKey(w, t, b), w, b)
              /\ Count(w, t, b) \in Nat
        /\ \A e \in Value(DedupKey(w, b), {}) :
              /\ e \in ToSet(applied)
              /\ \A v \in Windows : Outlives(DedupKey(w, b), v, BucketOf(e, v))

Shape == TypeOK /\ RedisOK

-----------------------------------------------------------------------------
(* The inductive invariants *)

\* What was applied is not applied again while one of its buckets is kept.
AppliedMarked ==
    \A e \in ToSet(applied) :
        /\ e \in Events /\ Event[e].fetched <= now
        /\ \A w \in Windows : now < BucketOf(e, w) + Kept(w) => Duplicate(e)

\* The story set of a bucket that is kept has the urls applied to it.
In(k, w, t, b) == t \in TrackedTopics[applied[k]] /\ BucketOf(applied[k], w) = b
Urls(w, t, b) ==
    {u \in {Event[applied[k]].url : k \in 1 .. Len(applied)} :
        u # None /\ \E k \in 1 .. Len(applied) : In(k, w, t, b) /\ Event[applied[k]].url = u}
StoriesExact ==
    \A w \in Windows, t \in Topics, b \in Nat :
        now < b + Kept(w) => Value(StoryKey(w, t, b), {}) = Urls(w, t, b)

\* What was acknowledged was applied.
PositionApplied ==
    /\ committed <= position /\ position <= Len(Log)
    /\ \A k \in 1 .. position : Tracked(Log[k]) => Log[k] \in ToSet(applied)

\* There is one run at a time, its snapshot is newer than the previous counts,
\* and it keeps its counts after it published and stored them.
Active(r) == runs[r].step # "idle"
RunOK(r) ==
    /\ inFlight /\ runs[r].w \in 1 .. Len(WindowSeq)
    /\ runs[r].step # "read" => keptFrom[Window(r)] <= runs[r].at /\ runs[r].at <= now
    /\ runs[r].step \in {"store", "keep"} => published[Window(r)] = runs[r].at
    /\ runs[r].step = "keep" => table[Window(r)] = runs[r].at
RunsInOrder ==
    /\ \A w \in Windows : keptFrom[w] <= now
    /\ \A r \in Runs : Active(r) => RunOK(r) /\ \A s \in Runs \ {r} : ~Active(s)

\* The contribution of a step to the volume of a bucket.
Gain(w, t, b) ==
    IF Len(applied') > Len(applied) /\ IsFirst(Len(applied), w, t, b)'
    THEN Event[applied'[Len(applied')]].weight ELSE 0

\* The counter of a bucket that is kept counts every story once.
CountsExact ==
    \A w \in Windows, t \in Topics, b \in Nat :
        now < b + Kept(w) => Count(w, t, b) = Volume(w, t, b)

-----------------------------------------------------------------------------
(* Windows, buckets and keys *)

\* What the proofs need of the assumptions.
LEMMA Constants ==
  /\ Len(WindowSeq) \in Nat \ {0}
  /\ \A k \in 1 .. Len(WindowSeq) : WindowSeq[k] \in Windows
  /\ \A w \in Windows : Length[w] \in Nat \ {0}
  /\ \A e \in Events : Event[e].fetched \in Nat /\ Event[e].weight \in Nat
  /\ Len(Log) \in Nat /\ \A k \in 1 .. Len(Log) : Log[k] \in Events
  /\ MaxFaults \in Nat
  BY TrendsAssumption

\* A time is in its bucket.
LEMMA BucketBounds ==
  ASSUME NEW n \in Nat, NEW w \in Windows
  PROVE  /\ BucketStart(n, w) \in Nat
         /\ BucketStart(n, w) <= n /\ n < BucketStart(n, w) + Length[w]
<1> DEFINE L == Length[w]
<1>1. L \in Nat \ {0}
  BY Constants
<1> HIDE DEF L
<1>2. (n \div L) * L \in Nat /\ (n \div L) * L <= n /\ n < (n \div L) * L + L
  BY <1>1
<1> QED
  BY <1>2 DEF BucketStart, L

\* The buckets of an event.
LEMMA EventBounds ==
  ASSUME NEW e \in Events, NEW w \in Windows
  PROVE  /\ Event[e].fetched \in Nat /\ Event[e].weight \in Nat
         /\ Kept(w) \in Nat /\ Length[w] \in Nat /\ Length[w] <= Kept(w)
         /\ BucketOf(e, w) \in Nat /\ BucketOf(e, w) <= Event[e].fetched
<1>1. Event[e].fetched \in Nat /\ Event[e].weight \in Nat /\ Length[w] \in Nat \ {0}
  BY Constants
<1>2. /\ BucketStart(Event[e].fetched, w) \in Nat
      /\ BucketStart(Event[e].fetched, w) <= Event[e].fetched
  BY <1>1, BucketBounds
<1> QED
  BY <1>1, <1>2 DEF BucketOf, Kept

\* The dedup window is kept longest.
LEMMA DedupWindow ==
  /\ ChooseDedupWindow \in Windows
  /\ \A v \in Windows : Kept(v) <= Kept(ChooseDedupWindow)
<1>1. /\ ChooseDedupWindow \in Windows
      /\ \A v \in Windows : Length[v] <= Length[ChooseDedupWindow]
  BY TrendsAssumption DEF ChooseDedupWindow
<1> QED
  BY <1>1, Constants DEF Kept

\* Keys of different kinds or with different parts are different.
LEMMA KeysDiffer ==
  ASSUME NEW w, NEW t, NEW b, NEW v, NEW s, NEW c
  PROVE  /\ CounterKey(w, t, b) \notin {DedupKey(v, c), PrevKey(v, s), StoryKey(v, s, c)}
         /\ StoryKey(w, t, b) \notin {DedupKey(v, c), PrevKey(v, s)}
         /\ DedupKey(w, b) # PrevKey(v, s)
         /\ CounterKey(w, t, b) = CounterKey(v, s, c) => w = v /\ t = s /\ b = c
         /\ StoryKey(w, t, b) = StoryKey(v, s, c) => w = v /\ t = s /\ b = c
         /\ DedupKey(w, b) = DedupKey(v, c) => w = v /\ b = c
  BY DEF CounterKey, StoryKey, PrevKey, DedupKey

\* A command wrote k, or none did.
Wrote(k, entry) == k \in DOMAIN redis' /\ redis'[k] = entry
SameKey(k) ==
    /\ k \in DOMAIN redis' <=> k \in DOMAIN redis
    /\ k \in DOMAIN redis => redis'[k] = redis[k]

\* What some commands write.
LEMMA WriteIs ==
  ASSUME NEW commands, Write(commands), NEW k
  PROVE  /\ (\A c \in commands : k \notin DOMAIN c) => SameKey(k)
         /\ \A c \in commands :
               k \in DOMAIN c /\ (\A d \in commands : k \in DOMAIN d => d = c)
                  => Wrote(k, c[k])
<1> DEFINE K == UNION {DOMAIN c : c \in commands}
           val(x) == IF \E c \in commands : x \in DOMAIN c
                     THEN (CHOOSE c \in commands : x \in DOMAIN c)[x] ELSE redis[x]
<1>0. redis' = [x \in DOMAIN redis \cup K |-> val(x)]
  BY DEF Write
<1>1. ASSUME \A c \in commands : k \notin DOMAIN c
      PROVE  SameKey(k)
  <2>1. k \notin K
    BY <1>1
  <2>2. val(k) = redis[k]
    BY <1>1
  <2> HIDE DEF K, val
  <2> QED
    BY <1>0, <2>1, <2>2 DEF SameKey
<1>2. ASSUME NEW c \in commands, k \in DOMAIN c,
             \A d \in commands : k \in DOMAIN d => d = c
      PROVE  Wrote(k, c[k])
  <2>1. (CHOOSE d \in commands : k \in DOMAIN d) = c
    BY <1>2
  <2> QED
    BY <1>2, <2>1 DEF Write, Wrote
<1> QED
  BY <1>1, <1>2

Hit(e, w, t, b) == t \in TrackedTopics[e] /\ b = BucketOf(e, w)

\* The keys that the script writes for an event.
AppliedKeys(e) ==
    \A w \in Windows, b \in Nat :
        /\ LET k == DedupKey(w, b)
           IN  IF k = DedupKeyOf(e)
               THEN Wrote(k, Entry(Value(k, {}) \cup {e}, Kept(w)))
               ELSE SameKey(k)
        /\ \A t \in Topics :
              /\ LET k == CounterKey(w, t, b)
                 IN  IF ~Duplicate(e) /\ Hit(e, w, t, b) /\ NewStory(e, w, t)
                     THEN Wrote(k, Entry(Value(k, 0) + Event[e].weight, Kept(w)))
                     ELSE SameKey(k)
              /\ LET k == StoryKey(w, t, b)
                 IN  IF ~Duplicate(e) /\ Hit(e, w, t, b) /\ Event[e].url # None
                     THEN Wrote(k, Entry(Value(k, {}) \cup {Event[e].url}, Kept(w)))
                     ELSE SameKey(k)

\* A key that the script marks, counts or remembers.
LEMMA MarkedIs ==
  ASSUME NEW e, NEW k
  PROVE  /\ k \in DOMAIN Marked(e) <=> k = DedupKeyOf(e)
         /\ k = DedupKeyOf(e) =>
               Marked(e)[k] = Entry(Value(k, {}) \cup {e}, Kept(ChooseDedupWindow))
  BY DEF Marked

\* Which counters applying e writes, and what it writes there.
LEMMA CountersAre ==
  ASSUME NEW e, NEW w \in Windows, NEW t, NEW b, NEW k, k = CounterKey(w, t, b)
  PROVE  /\ k \in DOMAIN Counters(e) <=> Hit(e, w, t, b) /\ NewStory(e, w, t)
         /\ k \in DOMAIN Counters(e) =>
               Counters(e)[k] = Entry(Value(k, 0) + Event[e].weight, Kept(w))
<1> DEFINE plans == {p \in Windows \X TrackedTopics[e] : NewStory(e, p[1], p[2])}
           K == {CounterKey(p[1], p[2], BucketOf(e, p[1])) : p \in plans}
<1>1. /\ DOMAIN Counters(e) = K
      /\ \A x \in K : Counters(e)[x] = Entry(Value(x, 0) + Event[e].weight, Kept(x[2]))
  BY DEF Counters
<1>2. k[2] = w
  BY DEF CounterKey
<1>3. k \in K <=> Hit(e, w, t, b) /\ NewStory(e, w, t)
  <2>1. ASSUME k \in K
        PROVE  Hit(e, w, t, b) /\ NewStory(e, w, t)
    <3>1. PICK p \in plans : k = CounterKey(p[1], p[2], BucketOf(e, p[1]))
      BY <2>1
    <3>2. w = p[1] /\ t = p[2] /\ b = BucketOf(e, p[1])
      BY <3>1 DEF CounterKey
    <3> QED
      BY <3>1, <3>2 DEF Hit
  <2>2. ASSUME Hit(e, w, t, b), NewStory(e, w, t)
        PROVE  k \in K
    <3>1. <<w, t>> \in plans
      BY <2>2 DEF Hit
    <3>2. k = CounterKey(<<w, t>>[1], <<w, t>>[2], BucketOf(e, <<w, t>>[1]))
      BY <2>2 DEF Hit
    <3> HIDE DEF plans
    <3> QED
      BY <3>1, <3>2
  <2> QED
    BY <2>1, <2>2
<1> QED
  BY <1>1, <1>2, <1>3

\* Which story sets applying e writes, and what it writes there.
LEMMA StoriesAre ==
  ASSUME NEW e, NEW w \in Windows, NEW t, NEW b, NEW k, k = StoryKey(w, t, b)
  PROVE  /\ k \in DOMAIN Stories(e) <=> Hit(e, w, t, b) /\ Event[e].url # None
         /\ k \in DOMAIN Stories(e) =>
               Stories(e)[k] = Entry(Value(k, {}) \cup {Event[e].url}, Kept(w))
<1> DEFINE plans == {p \in Windows \X TrackedTopics[e] : Event[e].url # None}
           K == {StoryKey(p[1], p[2], BucketOf(e, p[1])) : p \in plans}
<1>1. /\ DOMAIN Stories(e) = K
      /\ \A x \in K : Stories(e)[x] = Entry(Value(x, {}) \cup {Event[e].url}, Kept(x[2]))
  BY DEF Stories
<1>2. k[2] = w
  BY DEF StoryKey
<1>3. k \in K <=> Hit(e, w, t, b) /\ Event[e].url # None
  <2>1. ASSUME k \in K
        PROVE  Hit(e, w, t, b) /\ Event[e].url # None
    <3>1. PICK p \in plans : k = StoryKey(p[1], p[2], BucketOf(e, p[1]))
      BY <2>1
    <3>2. w = p[1] /\ t = p[2] /\ b = BucketOf(e, p[1])
      BY <3>1 DEF StoryKey
    <3> QED
      BY <3>1, <3>2 DEF Hit
  <2>2. ASSUME Hit(e, w, t, b), Event[e].url # None
        PROVE  k \in K
    <3>1. <<w, t>> \in plans
      BY <2>2 DEF Hit
    <3>2. k = StoryKey(<<w, t>>[1], <<w, t>>[2], BucketOf(e, <<w, t>>[1]))
      BY <2>2 DEF Hit
    <3> HIDE DEF plans
    <3> QED
      BY <3>1, <3>2
  <2> QED
    BY <2>1, <2>2
<1> QED
  BY <1>1, <1>2, <1>3

\* No kind of key is taken for another.
LEMMA OtherKeys ==
  ASSUME NEW e, NEW w, NEW t, NEW b
  PROVE  /\ DedupKey(w, b) \notin DOMAIN Counters(e) \cup DOMAIN Stories(e)
         /\ CounterKey(w, t, b) \notin DOMAIN Marked(e) \cup DOMAIN Stories(e)
         /\ StoryKey(w, t, b) \notin DOMAIN Marked(e) \cup DOMAIN Counters(e)
  BY KeysDiffer DEF Marked, Counters, Stories, DedupKeyOf

\* The script is what AppliedKeys says.
LEMMA ApplyWrites ==
  ASSUME NEW e, ApplyEventToWindows(e)
  PROVE  AppliedKeys(e)
<1> DEFINE C == IF Duplicate(e) THEN {Marked(e)} ELSE {Marked(e), Counters(e), Stories(e)}
<1>1. Write(C)
  BY DEF ApplyEventToWindows
<1>2. ASSUME NEW k
      PROVE  /\ (\A c \in C : k \notin DOMAIN c) => SameKey(k)
             /\ \A c \in C : k \in DOMAIN c /\ (\A d \in C : k \in DOMAIN d => d = c)
                               => Wrote(k, c[k])
  <2> HIDE DEF C
  <2> QED
    BY <1>1, WriteIs
<1>3. /\ Marked(e) \in C
      /\ ~Duplicate(e) => Counters(e) \in C /\ Stories(e) \in C
      /\ \A c \in C : c = Marked(e) \/ (~Duplicate(e) /\ c \in {Counters(e), Stories(e)})
  OBVIOUS
<1> HIDE DEF C
<1>4. ASSUME NEW w \in Windows, NEW b \in Nat, NEW k, k = DedupKey(w, b)
      PROVE  IF k = DedupKeyOf(e)
             THEN Wrote(k, Entry(Value(k, {}) \cup {e}, Kept(w)))
             ELSE SameKey(k)
  <2>1. k \notin DOMAIN Counters(e) \cup DOMAIN Stories(e)
    BY <1>4, OtherKeys
  <2>2. CASE k = DedupKeyOf(e)
    <3>1. w = ChooseDedupWindow
      BY <1>4, <2>2 DEF DedupKeyOf, DedupKey
    <3>2. Marked(e)[k] = Entry(Value(k, {}) \cup {e}, Kept(w)) /\ k \in DOMAIN Marked(e)
      BY <2>2, <3>1, MarkedIs
    <3>3. \A c \in C : k \in DOMAIN c => c = Marked(e)
      BY <1>3, <2>1
    <3> QED
      BY <1>2, <1>3, <2>2, <3>2, <3>3
  <2>3. CASE k # DedupKeyOf(e)
    <3>1. k \notin DOMAIN Marked(e)
      BY <2>3, MarkedIs
    <3> QED
      BY <1>2, <1>3, <2>1, <2>3, <3>1
  <2> QED
    BY <2>2, <2>3
<1>5. ASSUME NEW w \in Windows, NEW b \in Nat, NEW t \in Topics, NEW k, k = CounterKey(w, t, b)
      PROVE  IF ~Duplicate(e) /\ Hit(e, w, t, b) /\ NewStory(e, w, t)
             THEN Wrote(k, Entry(Value(k, 0) + Event[e].weight, Kept(w)))
             ELSE SameKey(k)
  <2>1. k \notin DOMAIN Marked(e) \cup DOMAIN Stories(e)
    BY <1>5, OtherKeys
  <2>2. /\ k \in DOMAIN Counters(e) <=> Hit(e, w, t, b) /\ NewStory(e, w, t)
        /\ k \in DOMAIN Counters(e) =>
              Counters(e)[k] = Entry(Value(k, 0) + Event[e].weight, Kept(w))
    BY <1>5, CountersAre
  <2> QED
    BY <1>2, <1>3, <2>1, <2>2
<1>6. ASSUME NEW w \in Windows, NEW b \in Nat, NEW t \in Topics, NEW k, k = StoryKey(w, t, b)
      PROVE  IF ~Duplicate(e) /\ Hit(e, w, t, b) /\ Event[e].url # None
             THEN Wrote(k, Entry(Value(k, {}) \cup {Event[e].url}, Kept(w)))
             ELSE SameKey(k)
  <2>1. k \notin DOMAIN Marked(e) \cup DOMAIN Counters(e)
    BY <1>6, OtherKeys
  <2>2. /\ k \in DOMAIN Stories(e) <=> Hit(e, w, t, b) /\ Event[e].url # None
        /\ k \in DOMAIN Stories(e) =>
              Stories(e)[k] = Entry(Value(k, {}) \cup {Event[e].url}, Kept(w))
    BY <1>6, StoriesAre
  <2> QED
    BY <1>2, <1>3, <2>1, <2>2
<1> QED
  BY <1>4, <1>5, <1>6 DEF AppliedKeys
-----------------------------------------------------------------------------
(* What the steps are, of the keys that count *)

\* No counter, story set or dedup set changes.
Untouched ==
    /\ now' = now /\ applied' = applied
    /\ \A w \in Windows, b \in Nat :
          /\ SameKey(DedupKey(w, b))
          /\ \A t \in Topics : SameKey(CounterKey(w, t, b)) /\ SameKey(StoryKey(w, t, b))

\* Time passes, and keys with it.
Passes ==
    /\ now' = now + 1 /\ applied' = applied
    /\ \A k : k \in DOMAIN redis' <=> k \in DOMAIN redis /\ redis[k].until > now'
    /\ \A k \in DOMAIN redis' : redis'[k] = redis[k]

\* The script runs for e.
Applies(e) ==
    /\ Event[e].fetched <= now /\ Tracked(e)
    /\ ApplyEventToWindows(e)
    /\ now' = now

\* The message at hand is an event.
LEMMA MessageIs == ASSUME Shape, Available PROVE Message \in Events
<1>1. position + 1 \in 1 .. Len(Log)
  BY Constants DEF Shape, TypeOK, Available
<1> QED
  BY <1>1, Constants DEF Message

\* The previous counts are apart from what counts.
LEMMA KeepTouchesNothing ==
  ASSUME NEW r, NEW topics, KeepCounts(r, topics), UNCHANGED <<now, applied>>
  PROVE  Untouched
<1> DEFINE new == [k \in {PrevKey(Window(r), t) : t \in topics} |->
                      Entry(runs[r].counts[k[3]], 2 * Length[k[2]])]
<1>1. Write({new})
  BY DEF KeepCounts
<1>2. ASSUME NEW k, \A v, s : k # PrevKey(v, s)
      PROVE  SameKey(k)
  <2>1. k \notin DOMAIN new
    BY <1>2
  <2> HIDE DEF new
  <2> QED
    BY <1>1, <2>1, WriteIs
<1> QED
  BY <1>2, KeysDiffer DEF Untouched

\* Every step is one of these.
LEMMA RedisMoves ==
  ASSUME Shape, [Next]_vars
  PROVE  Untouched \/ Passes \/ \E e \in Events : Applies(e)
<1>1. CASE Apply \/ ApplyFails
  <2>1. Message \in Events /\ Available /\ Tracked(Message) /\ now' = now
    BY <1>1, MessageIs DEF Apply, ApplyFails
  <2>2. CASE ApplyEventToWindows(Message)
    BY <2>1, <2>2 DEF Applies, Available
  <2>3. CASE UNCHANGED <<redis, applied>>
    BY <2>1, <2>3 DEF Untouched, SameKey
  <2> QED
    BY <1>1, <2>2, <2>3 DEF Apply, ApplyFails
<1>2. CASE Tick
  BY <1>2 DEF Tick, Passes
<1>3. ASSUME NEW r \in Runs, Keep(r)
      PROVE  Untouched
  BY <1>3, KeepTouchesNothing DEF Keep
<1>4. ASSUME NEW r \in Runs, RunFails(r)
      PROVE  Untouched
  <2>1. CASE redis' = redis
    BY <1>4, <2>1 DEF RunFails, Untouched, SameKey
  <2>2. CASE redis' # redis
    <3>1. PICK topics \in SUBSET Topics : KeepCounts(r, topics)
      BY <1>4, <2>2 DEF RunFails
    <3> QED
      BY <1>4, <3>1, KeepTouchesNothing DEF RunFails
  <2> QED
    BY <2>1, <2>2
<1>5. CASE Skip \/ AutoCommit \/ Crash \/ UNCHANGED vars
  BY <1>5 DEF Skip, AutoCommit, Crash, vars, Untouched, SameKey
<1>6. ASSUME NEW r \in Runs, Read(r) \/ ReadLoses(r) \/ Publish(r) \/ Store(r)
      PROVE  Untouched
  BY <1>6 DEF Read, ReadLoses, ReadCounts, Publish, Store, Untouched, SameKey
<1> QED
  BY <1>1, <1>2, <1>3, <1>4, <1>5, <1>6 DEF Next, Consume, SnapshotStep

-----------------------------------------------------------------------------
(* Keys and their deadlines *)

\* A key that no command touched.
LEMMA SameKeyIs ==
  ASSUME NEW k, SameKey(k), NEW d
  PROVE  /\ Value(k, d)' = Value(k, d)
         /\ \A w, b : Outlives(k, w, b) => Outlives(k, w, b)'
  BY DEF SameKey, Value, Outlives

\* A key that time passed over, or dropped.
LEMMA PassesIs ==
  ASSUME Passes, NEW k
  PROVE  \/ SameKey(k)
         \/ /\ k \notin DOMAIN redis'
            /\ k \in DOMAIN redis /\ ~(redis[k].until > now')
  BY DEF Passes, SameKey

\* A key that a command wrote.
LEMMA WroteIs ==
  ASSUME NEW k, NEW val, NEW ticks \in Nat, Wrote(k, Entry(val, ticks)), Shape, NEW d
  PROVE  /\ Value(k, d)' = val
         /\ \A w, b : b + Kept(w) <= now + ticks => Outlives(k, w, b)'
<1>1. k \in DOMAIN redis' /\ redis'[k].val = val /\ redis'[k].until = now + ticks
  BY DEF Wrote, Entry
<1>2. now + ticks \in Nat
  BY DEF Shape, TypeOK
<1> QED
  BY <1>1, <1>2 DEF Value, Outlives

\* The events applied once the script ran for e.
LEMMA AppliedAre ==
  ASSUME Shape, NEW e \in Events, Applies(e)
  PROVE  /\ applied' = applied \/ (applied' = Append(applied, e) /\ e \notin ToSet(applied))
         /\ Duplicate(e) => applied' = applied
         /\ ToSet(applied') = ToSet(applied) \cup {e}
<1>1. applied \in Seq(Events)
  BY DEF Shape, TypeOK
<1>2. CASE Duplicate(e)
  <2>1. e \in ToSet(applied)
    <3>1. ChooseDedupWindow \in Windows /\ BucketOf(e, ChooseDedupWindow) \in Nat
      BY DedupWindow, EventBounds
    <3> QED
      BY <1>2, <3>1 DEF Duplicate, DedupKeyOf, Shape, RedisOK
  <2>2. applied' = applied
    BY <1>2 DEF Applies, ApplyEventToWindows
  <2> QED
    BY <2>1, <2>2
<1>3. CASE ~Duplicate(e)
  <2>1. applied' = IF e \in ToSet(applied) THEN applied ELSE Append(applied, e)
    BY <1>3 DEF Applies, ApplyEventToWindows
  <2>2. ToSet(Append(applied, e)) = ToSet(applied) \cup {e}
    <3>1. /\ Len(applied) \in Nat /\ Len(Append(applied, e)) = Len(applied) + 1
          /\ \A k \in 1 .. Len(applied) : Append(applied, e)[k] = applied[k]
          /\ Append(applied, e)[Len(applied) + 1] = e
          /\ Append(applied, e) \in Seq(Events)
      BY <1>1
    <3>2. 1 .. Len(applied) + 1 = 1 .. Len(applied) \cup {Len(applied) + 1}
      BY <3>1
    <3>3. /\ DOMAIN applied = 1 .. Len(applied)
          /\ DOMAIN Append(applied, e) = 1 .. Len(applied) + 1
      BY <1>1, <3>1
    <3> QED
      BY <3>1, <3>2, <3>3 DEF ToSet
  <2> QED
    BY <1>3, <2>1, <2>2
<1> QED
  BY <1>2, <1>3

\* What the script does to a counter and a story set.
LEMMA CounterIs ==
  ASSUME Shape, NEW e \in Events, Applies(e),
         NEW w \in Windows, NEW t \in Topics, NEW b \in Nat
  PROVE  IF ~Duplicate(e) /\ Hit(e, w, t, b) /\ NewStory(e, w, t)
         THEN /\ Count(w, t, b)' = Count(w, t, b) + Event[e].weight
              /\ Outlives(CounterKey(w, t, b), w, b)'
         ELSE SameKey(CounterKey(w, t, b))
<1> DEFINE k == CounterKey(w, t, b)
<1>1. AppliedKeys(e)
  BY ApplyWrites DEF Applies
<1>2. IF ~Duplicate(e) /\ Hit(e, w, t, b) /\ NewStory(e, w, t)
      THEN Wrote(k, Entry(Value(k, 0) + Event[e].weight, Kept(w)))
      ELSE SameKey(k)
  BY <1>1 DEF AppliedKeys
<1>3. CASE ~Duplicate(e) /\ Hit(e, w, t, b) /\ NewStory(e, w, t)
  <2>1. Wrote(k, Entry(Value(k, 0) + Event[e].weight, Kept(w)))
    BY <1>2, <1>3
  <2>2. /\ Kept(w) \in Nat /\ now \in Nat
        /\ Event[e].fetched \in Nat /\ BucketOf(e, w) <= Event[e].fetched
    BY EventBounds DEF Shape, TypeOK
  <2>3. b + Kept(w) <= now + Kept(w)
    BY <1>3, <2>2 DEF Hit, Applies
  <2> HIDE DEF k
  <2>4. /\ Value(k, 0)' = Value(k, 0) + Event[e].weight
        /\ Outlives(k, w, b)'
    BY <2>1, <2>2, <2>3, WroteIs
  <2> QED
    BY <1>3, <2>4 DEF Count, k
<1> QED
  BY <1>2, <1>3

\* What applying e does to one story set.
LEMMA StoryIs ==
  ASSUME Shape, NEW e \in Events, Applies(e),
         NEW w \in Windows, NEW t \in Topics, NEW b \in Nat
  PROVE  IF ~Duplicate(e) /\ Hit(e, w, t, b) /\ Event[e].url # None
         THEN /\ Value(StoryKey(w, t, b), {})' =
                    Value(StoryKey(w, t, b), {}) \cup {Event[e].url}
              /\ Outlives(StoryKey(w, t, b), w, b)'
         ELSE SameKey(StoryKey(w, t, b))
<1> DEFINE k == StoryKey(w, t, b)
<1>1. AppliedKeys(e)
  BY ApplyWrites DEF Applies
<1>2. IF ~Duplicate(e) /\ Hit(e, w, t, b) /\ Event[e].url # None
      THEN Wrote(k, Entry(Value(k, {}) \cup {Event[e].url}, Kept(w)))
      ELSE SameKey(k)
  BY <1>1 DEF AppliedKeys
<1>3. CASE ~Duplicate(e) /\ Hit(e, w, t, b) /\ Event[e].url # None
  <2>1. Wrote(k, Entry(Value(k, {}) \cup {Event[e].url}, Kept(w)))
    BY <1>2, <1>3
  <2>2. /\ Kept(w) \in Nat /\ now \in Nat
        /\ Event[e].fetched \in Nat /\ BucketOf(e, w) <= Event[e].fetched
    BY EventBounds DEF Shape, TypeOK
  <2>3. b + Kept(w) <= now + Kept(w)
    BY <1>3, <2>2 DEF Hit, Applies
  <2> HIDE DEF k
  <2>4. /\ Value(k, {})' = Value(k, {}) \cup {Event[e].url}
        /\ Outlives(k, w, b)'
    BY <2>1, <2>2, <2>3, WroteIs
  <2> QED
    BY <1>3, <2>4 DEF k
<1> QED
  BY <1>2, <1>3

\* What the script does to a dedup set.
LEMMA DedupIs ==
  ASSUME Shape, AppliedMarked, NEW e \in Events, Applies(e), NEW w \in Windows, NEW b \in Nat
  PROVE  IF DedupKey(w, b) = DedupKeyOf(e)
         THEN /\ Value(DedupKey(w, b), {})' = Value(DedupKey(w, b), {}) \cup {e}
              /\ \A i \in Value(DedupKey(w, b), {}) \cup {e} : \A v \in Windows :
                    Outlives(DedupKey(w, b), v, BucketOf(i, v))'
         ELSE SameKey(DedupKey(w, b))
<1> DEFINE k == DedupKey(w, b)
<1>1. AppliedKeys(e)
  BY ApplyWrites DEF Applies
<1>2. IF k = DedupKeyOf(e)
      THEN Wrote(k, Entry(Value(k, {}) \cup {e}, Kept(w)))
      ELSE SameKey(k)
  BY <1>1 DEF AppliedKeys
<1>3. CASE k = DedupKeyOf(e)
  <2>1. Wrote(k, Entry(Value(k, {}) \cup {e}, Kept(w)))
    BY <1>2, <1>3
  <2>2. w = ChooseDedupWindow
    BY <1>3 DEF DedupKeyOf, DedupKey
  <2>3. Kept(w) \in Nat /\ now \in Nat
    BY EventBounds DEF Shape, TypeOK
  <2>4. ASSUME NEW i \in Value(k, {}) \cup {e}, NEW v \in Windows
        PROVE  BucketOf(i, v) + Kept(v) <= now + Kept(w)
    <3>1. i \in Events /\ Event[i].fetched <= now
      <4>1. CASE i = e
        BY <4>1 DEF Applies
      <4>2. CASE i # e
        BY <2>4, <4>2 DEF Shape, RedisOK, AppliedMarked
      <4> QED
        BY <4>1, <4>2
    <3>2. /\ Kept(v) \in Nat /\ Kept(v) <= Kept(w)
          /\ Event[i].fetched \in Nat
          /\ BucketOf(i, v) \in Nat /\ BucketOf(i, v) <= Event[i].fetched
      BY <2>2, <3>1, EventBounds, DedupWindow
    <3> QED
      BY <2>3, <3>1, <3>2
  <2> HIDE DEF k
  <2>5. /\ Value(k, {})' = Value(k, {}) \cup {e}
        /\ \A i \in Value(k, {}) \cup {e} : \A v \in Windows :
              Outlives(k, v, BucketOf(i, v))'
    <3>1. /\ Value(k, {})' = Value(k, {}) \cup {e}
          /\ \A v, c : c + Kept(v) <= now + Kept(w) => Outlives(k, v, c)'
      BY <2>1, <2>3, WroteIs
    <3> QED
      BY <2>4, <3>1
  <2> QED
    BY <1>3, <2>5 DEF k
<1> QED
  BY <1>2, <1>3

\* Keys keep their deadlines.
LEMMA RedisStep ==
  ASSUME Shape, AppliedMarked, [Next]_vars
  PROVE  RedisOK'
<1> SUFFICES ASSUME NEW w \in Windows, NEW b \in Nat
             PROVE  /\ \A t \in Topics :
                          /\ Outlives(CounterKey(w, t, b), w, b)'
                          /\ Outlives(StoryKey(w, t, b), w, b)'
                          /\ Count(w, t, b)' \in Nat
                    /\ \A e \in Value(DedupKey(w, b), {})' :
                          /\ e \in ToSet(applied')
                          /\ \A v \in Windows : Outlives(DedupKey(w, b), v, BucketOf(e, v))'
  BY DEF RedisOK
<1>1. /\ \A t \in Topics :
            /\ Outlives(CounterKey(w, t, b), w, b)
            /\ Outlives(StoryKey(w, t, b), w, b)
            /\ Count(w, t, b) \in Nat
      /\ \A e \in Value(DedupKey(w, b), {}) :
            /\ e \in ToSet(applied)
            /\ \A v \in Windows : Outlives(DedupKey(w, b), v, BucketOf(e, v))
  BY DEF Shape, RedisOK
<1>2. ASSUME NEW t \in Topics, SameKey(CounterKey(w, t, b))
      PROVE  Outlives(CounterKey(w, t, b), w, b)' /\ Count(w, t, b)' = Count(w, t, b)
  BY <1>1, <1>2, SameKeyIs DEF Count
<1>3. ASSUME NEW t \in Topics, SameKey(StoryKey(w, t, b))
      PROVE  Outlives(StoryKey(w, t, b), w, b)'
  BY <1>1, <1>3, SameKeyIs
<1>4. ASSUME SameKey(DedupKey(w, b)), ToSet(applied) \subseteq ToSet(applied')
      PROVE  \A e \in Value(DedupKey(w, b), {})' :
                /\ e \in ToSet(applied')
                /\ \A v \in Windows : Outlives(DedupKey(w, b), v, BucketOf(e, v))'
  BY <1>1, <1>4, SameKeyIs
<1>5. CASE Untouched
  BY <1>1, <1>2, <1>3, <1>4, <1>5 DEF Untouched
<1>6. CASE Passes
  <2>1. ASSUME NEW k, k \notin DOMAIN redis', NEW d
        PROVE  Value(k, d)' = d /\ \A v, c : Outlives(k, v, c)'
    BY <2>1 DEF Value, Outlives
  <2>2. applied' = applied
    BY <1>6 DEF Passes
  <2>3. ASSUME NEW k
        PROVE  SameKey(k) \/ k \notin DOMAIN redis'
    BY <1>6, PassesIs
  <2>4. ASSUME NEW t \in Topics
        PROVE  Outlives(CounterKey(w, t, b), w, b)' /\ Count(w, t, b)' \in Nat
    BY <1>1, <1>2, <2>1, <2>3 DEF Count
  <2>5. ASSUME NEW t \in Topics
        PROVE  Outlives(StoryKey(w, t, b), w, b)'
    BY <1>3, <2>1, <2>3
  <2>6. CASE DedupKey(w, b) \notin DOMAIN redis'
    BY <2>1, <2>4, <2>5, <2>6
  <2>7. CASE SameKey(DedupKey(w, b))
    BY <1>4, <2>2, <2>4, <2>5, <2>7
  <2> QED
    BY <2>3, <2>6, <2>7
<1>7. ASSUME NEW e \in Events, Applies(e)
      PROVE  /\ \A t \in Topics :
                   /\ Outlives(CounterKey(w, t, b), w, b)'
                   /\ Outlives(StoryKey(w, t, b), w, b)'
                   /\ Count(w, t, b)' \in Nat
             /\ \A i \in Value(DedupKey(w, b), {})' :
                   /\ i \in ToSet(applied')
                   /\ \A v \in Windows : Outlives(DedupKey(w, b), v, BucketOf(i, v))'
  <2>1. ToSet(applied') = ToSet(applied) \cup {e}
    BY <1>7, AppliedAre
  <2>2. ASSUME NEW t \in Topics
        PROVE  Outlives(CounterKey(w, t, b), w, b)' /\ Count(w, t, b)' \in Nat
    BY <1>1, <1>2, <1>7, CounterIs, EventBounds
  <2>3. ASSUME NEW t \in Topics
        PROVE  Outlives(StoryKey(w, t, b), w, b)'
    BY <1>3, <1>7, StoryIs
  <2>4. \A i \in Value(DedupKey(w, b), {})' :
            /\ i \in ToSet(applied')
            /\ \A v \in Windows : Outlives(DedupKey(w, b), v, BucketOf(i, v))'
    BY <1>1, <1>4, <1>7, <2>1, DedupIs
  <2> QED
    BY <2>2, <2>3, <2>4
<1> QED
  BY <1>5, <1>6, <1>7, RedisMoves

-----------------------------------------------------------------------------
(* What is counted while a bucket is kept *)

\* No key of a bucket that is kept is dropped.
LEMMA PassedKey ==
  ASSUME Shape, Passes, NEW k, NEW w \in Windows, NEW b \in Nat, Outlives(k, w, b),
         now' < b + Kept(w)
  PROVE  SameKey(k) /\ now < b + Kept(w)
<1>1. now \in Nat /\ now' = now + 1 /\ Kept(w) \in Nat
  <2>1. now \in Nat /\ Kept(w) \in Nat
    BY Constants DEF Shape, TypeOK, Kept
  <2> QED
    BY <2>1 DEF Passes
<1>2. CASE k \notin DOMAIN redis'
  <2>1. SameKey(k) \/ (k \in DOMAIN redis /\ ~(redis[k].until > now'))
    BY PassesIs
  <2>2. k \in DOMAIN redis => redis[k].until \in Nat /\ redis[k].until >= b + Kept(w)
    BY DEF Outlives
  <2> QED
    BY <1>1, <2>1, <2>2
<1>3. CASE k \in DOMAIN redis'
  BY <1>1, <1>3, PassesIs
<1> QED
  BY <1>2, <1>3

\* An event that was applied is a duplicate as long as one of its buckets is
\* kept.
LEMMA MarkedStep ==
  ASSUME Shape, AppliedMarked, [Next]_vars
  PROVE  AppliedMarked'
<1>0. now \in Nat
  BY DEF Shape, TypeOK
<1>1. ASSUME NEW i \in Events
      PROVE  /\ ChooseDedupWindow \in Windows /\ BucketOf(i, ChooseDedupWindow) \in Nat
             /\ DedupKeyOf(i) = DedupKey(ChooseDedupWindow, BucketOf(i, ChooseDedupWindow))
             /\ Duplicate(i) <=> i \in Value(DedupKeyOf(i), {})
             /\ Duplicate(i)' <=> i \in Value(DedupKeyOf(i), {})'
  BY <1>1, DedupWindow, EventBounds DEF DedupKeyOf, Duplicate
<1>2. CASE Untouched
  <2>1. ASSUME NEW i \in Events, Duplicate(i)
        PROVE  Duplicate(i)'
    <3>1. SameKey(DedupKeyOf(i))
      BY <1>1, <1>2 DEF Untouched
    <3> QED
      BY <1>1, <2>1, <3>1, SameKeyIs
  <2> QED
    BY <1>2, <2>1 DEF AppliedMarked, Untouched
<1>3. CASE Passes
  <2>1. ASSUME NEW i \in ToSet(applied), NEW w \in Windows,
               now' < BucketOf(i, w) + Kept(w)
        PROVE  Duplicate(i)'
    <3>1. i \in Events /\ BucketOf(i, w) \in Nat /\ Kept(w) \in Nat
      BY EventBounds DEF AppliedMarked
    <3>2. now < BucketOf(i, w) + Kept(w)
      BY <1>0, <1>3, <2>1, <3>1 DEF Passes
    <3>3. Duplicate(i)
      BY <3>2 DEF AppliedMarked
    <3>4. Outlives(DedupKeyOf(i), w, BucketOf(i, w))
      BY <1>1, <3>1, <3>3 DEF Shape, RedisOK
    <3>5. SameKey(DedupKeyOf(i))
      BY <1>3, <2>1, <3>1, <3>4, PassedKey
    <3> QED
      BY <1>1, <3>1, <3>3, <3>5, SameKeyIs
  <2>2. ASSUME NEW i \in ToSet(applied)
        PROVE  i \in Events /\ Event[i].fetched <= now'
    <3>1. i \in Events /\ Event[i].fetched <= now /\ Event[i].fetched \in Nat
      BY Constants DEF AppliedMarked
    <3> QED
      BY <1>0, <1>3, <3>1 DEF Passes
  <2> QED
    BY <1>3, <2>1, <2>2 DEF AppliedMarked, Passes
<1>4. ASSUME NEW e \in Events, Applies(e)
      PROVE  AppliedMarked'
  <2>1. ASSUME NEW i \in Events, Duplicate(i) \/ i = e
        PROVE  Duplicate(i)'
    <3>1. IF DedupKeyOf(i) = DedupKeyOf(e)
          THEN Value(DedupKeyOf(i), {})' = Value(DedupKeyOf(i), {}) \cup {e}
          ELSE SameKey(DedupKeyOf(i))
      BY <1>1, <1>4, DedupIs
    <3>2. CASE DedupKeyOf(i) = DedupKeyOf(e)
      BY <1>1, <2>1, <3>1, <3>2
    <3>3. CASE DedupKeyOf(i) # DedupKeyOf(e)
      BY <1>1, <2>1, <3>1, <3>3, SameKeyIs
    <3> QED
      BY <3>2, <3>3
  <2>2. ToSet(applied') = ToSet(applied) \cup {e} /\ now' = now
    BY <1>4, AppliedAre DEF Applies
  <2>3. ASSUME NEW i \in ToSet(applied')
        PROVE  /\ i \in Events /\ Event[i].fetched <= now
               /\ \A w \in Windows : now < BucketOf(i, w) + Kept(w) => Duplicate(i)'
    <3>1. CASE i = e
      BY <1>4, <2>1, <3>1 DEF Applies
    <3>2. CASE i \in ToSet(applied)
      BY <2>1, <3>2 DEF AppliedMarked
    <3> QED
      BY <2>2, <3>1, <3>2
  <2> QED
    BY <2>2, <2>3 DEF AppliedMarked
<1> QED
  BY <1>2, <1>3, <1>4, RedisMoves

\* The script takes an event for a duplicate, or it is new, while its bucket is
\* kept.
LEMMA NotAgain ==
  ASSUME Shape, AppliedMarked, NEW e \in Events, Applies(e), ~Duplicate(e),
         NEW w \in Windows, NEW t, NEW b, Hit(e, w, t, b), now < b + Kept(w)
  PROVE  applied' = Append(applied, e)
<1>1. e \notin ToSet(applied)
  BY DEF AppliedMarked, Hit
<1> QED
  BY <1>1 DEF Applies, ApplyEventToWindows

\* The urls of a bucket once e was applied.
LEMMA UrlsAppend ==
  ASSUME Shape, NEW e \in Events, applied' = Append(applied, e), NEW w, NEW t, NEW b
  PROVE  /\ Urls(w, t, b)' = Urls(w, t, b) \cup
                  IF Hit(e, w, t, b) /\ Event[e].url # None THEN {Event[e].url} ELSE {}
         /\ Len(applied') = Len(applied) + 1 /\ applied'[Len(applied')] = e
         /\ Len(applied) \in Nat
         /\ \A j \in 1 .. Len(applied) : applied'[j] = applied[j]
<1>1. applied \in Seq(Events)
  BY DEF Shape, TypeOK
<1>2. /\ Len(applied) \in Nat /\ Len(applied') = Len(applied) + 1
      /\ \A j \in 1 .. Len(applied) : applied'[j] = applied[j]
      /\ applied'[Len(applied) + 1] = e
  BY <1>1
<1>3. 1 .. Len(applied') = 1 .. Len(applied) \cup {Len(applied) + 1}
  BY <1>2
<1>4. ASSUME NEW u
      PROVE  u \in Urls(w, t, b) <=>
                u # None /\ \E j \in 1 .. Len(applied) :
                               In(j, w, t, b) /\ Event[applied[j]].url = u
  BY DEF Urls
<1>5. ASSUME NEW u
      PROVE  u \in Urls(w, t, b)' <=>
                u # None /\ \E j \in 1 .. Len(applied') :
                               In(j, w, t, b)' /\ Event[applied'[j]].url = u
  BY DEF Urls
<1>6. ASSUME NEW j \in 1 .. Len(applied)
      PROVE  In(j, w, t, b)' <=> In(j, w, t, b)
  BY <1>2 DEF In
<1>7. ASSUME NEW n, n = Len(applied) + 1
      PROVE  In(n, w, t, b)' <=> Hit(e, w, t, b)
  BY <1>2, <1>7 DEF In, Hit
<1>8. ASSUME NEW u
      PROVE  u \in Urls(w, t, b)' <=>
                u \in Urls(w, t, b) \/ (u # None /\ Hit(e, w, t, b) /\ Event[e].url = u)
  <2>1. (\E j \in 1 .. Len(applied') : In(j, w, t, b)' /\ Event[applied'[j]].url = u)
        <=> \/ \E j \in 1 .. Len(applied) : In(j, w, t, b) /\ Event[applied[j]].url = u
            \/ Hit(e, w, t, b) /\ Event[e].url = u
    <3>1. ASSUME NEW j \in 1 .. Len(applied'), In(j, w, t, b)', Event[applied'[j]].url = u
          PROVE  \/ \E k \in 1 .. Len(applied) : In(k, w, t, b) /\ Event[applied[k]].url = u
                 \/ Hit(e, w, t, b) /\ Event[e].url = u
      BY <1>2, <1>3, <1>6, <1>7, <3>1
    <3>2. ASSUME NEW j \in 1 .. Len(applied), In(j, w, t, b), Event[applied[j]].url = u
          PROVE  \E k \in 1 .. Len(applied') : In(k, w, t, b)' /\ Event[applied'[k]].url = u
      BY <1>2, <1>3, <1>6, <3>2
    <3>3. ASSUME Hit(e, w, t, b), Event[e].url = u
          PROVE  \E k \in 1 .. Len(applied') : In(k, w, t, b)' /\ Event[applied'[k]].url = u
      BY <1>2, <1>3, <1>7, <3>3
    <3> QED
      BY <3>1, <3>2, <3>3
  <2> QED
    BY <1>4, <1>5, <2>1
<1> QED
  BY <1>2, <1>8

\* A story set has the urls applied to its bucket as long as that is kept.
LEMMA StoriesStep ==
  ASSUME Shape, AppliedMarked, StoriesExact, [Next]_vars
  PROVE  StoriesExact'
<1> SUFFICES ASSUME NEW w \in Windows, NEW t \in Topics, NEW b \in Nat,
                    now' < b + Kept(w)
             PROVE  Value(StoryKey(w, t, b), {})' = Urls(w, t, b)'
  BY DEF StoriesExact
<1>1. now < b + Kept(w) => Value(StoryKey(w, t, b), {}) = Urls(w, t, b)
  BY DEF StoriesExact
<1>2. ASSUME applied' = applied
      PROVE  Urls(w, t, b)' = Urls(w, t, b)
  BY <1>2 DEF Urls, In
<1>3. ASSUME SameKey(StoryKey(w, t, b))
      PROVE  Value(StoryKey(w, t, b), {})' = Value(StoryKey(w, t, b), {})
  BY <1>3, SameKeyIs
<1>4. CASE Untouched
  BY <1>1, <1>2, <1>3, <1>4 DEF Untouched
<1>5. CASE Passes
  <2>1. Outlives(StoryKey(w, t, b), w, b)
    BY DEF Shape, RedisOK
  <2>2. SameKey(StoryKey(w, t, b)) /\ now < b + Kept(w)
    BY <1>5, <2>1, PassedKey
  <2> QED
    BY <1>1, <1>2, <1>3, <1>5, <2>2 DEF Passes
<1>6. ASSUME NEW e \in Events, Applies(e)
      PROVE  Value(StoryKey(w, t, b), {})' = Urls(w, t, b)'
  <2>1. IF ~Duplicate(e) /\ Hit(e, w, t, b) /\ Event[e].url # None
        THEN Value(StoryKey(w, t, b), {})' =
                 Value(StoryKey(w, t, b), {}) \cup {Event[e].url}
        ELSE SameKey(StoryKey(w, t, b))
    BY <1>6, StoryIs
  <2>2. now < b + Kept(w)
    BY <1>6 DEF Applies
  <2>3. CASE applied' = applied
    <3>1. ~(~Duplicate(e) /\ Hit(e, w, t, b))
      <4>1. ASSUME ~Duplicate(e), Hit(e, w, t, b)
            PROVE  FALSE
        <5>1. applied' = Append(applied, e)
          BY <1>6, <2>2, <4>1, NotAgain
        <5>2. Len(applied') = Len(applied) + 1 /\ Len(applied) \in Nat
          BY <1>6, <5>1, UrlsAppend
        <5> QED
          BY <2>3, <5>2
      <4> QED
        BY <4>1
    <3> QED
      BY <1>1, <1>2, <1>3, <2>1, <2>2, <2>3, <3>1
  <2>4. CASE applied' # applied
    <3>1. applied' = Append(applied, e) /\ ~Duplicate(e)
      BY <1>6, <2>4, AppliedAre
    <3>2. Urls(w, t, b)' = Urls(w, t, b) \cup
              IF Hit(e, w, t, b) /\ Event[e].url # None THEN {Event[e].url} ELSE {}
      BY <1>6, <3>1, UrlsAppend
    <3> QED
      BY <1>1, <1>3, <2>1, <2>2, <3>1, <3>2
  <2> QED
    BY <2>3, <2>4
<1> QED
  BY <1>4, <1>5, <1>6, RedisMoves

\* The counter of a bucket that is kept gains what its volume gains.
LEMMA GainsStep ==
  ASSUME Shape, AppliedMarked, StoriesExact, [Next]_vars,
         NEW w \in Windows, NEW t \in Topics, NEW b \in Nat, now' < b + Kept(w)
  PROVE  Count(w, t, b)' = Count(w, t, b) + Gain(w, t, b)
<1>0. now \in Nat /\ applied \in Seq(Events) /\ Len(applied) \in Nat
  BY DEF Shape, TypeOK
<1>3. Count(w, t, b) \in Nat
  BY DEF Shape, RedisOK
<1>4. ASSUME SameKey(CounterKey(w, t, b))
      PROVE  Count(w, t, b)' = Count(w, t, b)
  BY <1>4, SameKeyIs DEF Count
<1>5. ASSUME applied' = applied
      PROVE  Gain(w, t, b) = 0
  BY <1>0, <1>5 DEF Gain
<1>6. CASE Untouched
  BY <1>3, <1>4, <1>5, <1>6 DEF Untouched
<1>7. CASE Passes
  <2>1. Outlives(CounterKey(w, t, b), w, b)
    BY DEF Shape, RedisOK
  <2>2. SameKey(CounterKey(w, t, b))
    BY <1>7, <2>1, PassedKey
  <2> QED
    BY <1>3, <1>4, <1>5, <1>7, <2>2 DEF Passes
<1>8. ASSUME NEW e \in Events, Applies(e)
      PROVE  Count(w, t, b)' = Count(w, t, b) + Gain(w, t, b)
  <2>1. IF ~Duplicate(e) /\ Hit(e, w, t, b) /\ NewStory(e, w, t)
        THEN Count(w, t, b)' = Count(w, t, b) + Event[e].weight
        ELSE SameKey(CounterKey(w, t, b))
    BY <1>8, CounterIs
  <2>2. now < b + Kept(w)
    BY <1>8 DEF Applies
  <2>3. CASE applied' = applied
    <3>1. ASSUME ~Duplicate(e), Hit(e, w, t, b)
          PROVE  FALSE
      <4>1. applied' = Append(applied, e)
        BY <1>8, <2>2, <3>1, NotAgain
      <4>2. Len(applied') = Len(applied) + 1
        BY <1>8, <4>1, UrlsAppend
      <4> QED
        BY <1>0, <2>3, <4>2
    <3> QED
      BY <1>3, <1>4, <1>5, <2>1, <2>3, <3>1
  <2>4. CASE applied' # applied
    <3>1. applied' = Append(applied, e) /\ ~Duplicate(e)
      BY <1>8, <2>4, AppliedAre
    <3>2. /\ Len(applied') = Len(applied) + 1 /\ applied'[Len(applied')] = e
          /\ \A j \in 1 .. Len(applied) : applied'[j] = applied[j]
      BY <1>8, <3>1, UrlsAppend
    <3>3. Hit(e, w, t, b) =>
             (NewStory(e, w, t) <=>
                \/ Event[e].url = None
                \/ \A j \in 1 .. Len(applied) :
                      In(j, w, t, b) => Event[applied[j]].url # Event[e].url)
      <4>1. Value(StoryKey(w, t, b), {}) = Urls(w, t, b)
        BY <2>2 DEF StoriesExact
      <4>2. Event[e].url # None =>
               (Event[e].url \in Urls(w, t, b) <=>
                  \E j \in 1 .. Len(applied) :
                     In(j, w, t, b) /\ Event[applied[j]].url = Event[e].url)
        BY DEF Urls
      <4> QED
        BY <4>1, <4>2 DEF NewStory, Hit
    <3>4. IsFirst(Len(applied), w, t, b)' <=>
             /\ Hit(e, w, t, b)
             /\ \/ Event[e].url = None
                \/ \A j \in 1 .. Len(applied) :
                      In(j, w, t, b) => Event[applied[j]].url # Event[e].url
      <4>1. ASSUME NEW n, n = Len(applied) + 1
            PROVE  IsFirst(n, w, t, b)' <=>
                     /\ Hit(e, w, t, b)
                     /\ \/ Event[e].url = None
                        \/ \A j \in 1 .. Len(applied) :
                              In(j, w, t, b) => Event[applied[j]].url # Event[e].url
        <5>1. n - 1 = Len(applied) /\ applied'[n] = e
          BY <1>0, <3>2, <4>1
        <5> QED
          BY <3>2, <5>1 DEF IsFirst, In, Hit
      <4> QED
        BY <3>2, <4>1 DEF IsFirst
    <3>5. Gain(w, t, b) = IF Hit(e, w, t, b) /\ NewStory(e, w, t) THEN Event[e].weight ELSE 0
      BY <1>0, <3>2, <3>3, <3>4 DEF Gain
    <3> QED
      BY <1>3, <1>4, <2>1, <3>1, <3>5
  <2> QED
    BY <2>3, <2>4
<1> QED
  BY <1>6, <1>7, <1>8, RedisMoves

\* The volume of a bucket gains what its new events weigh.
LEMMA VolumeGains ==
  ASSUME Shape, [Next]_vars, NEW w, NEW t, NEW b
  PROVE  /\ Volume(w, t, b)' = Volume(w, t, b) + Gain(w, t, b)
         /\ Volume(w, t, b) \in Int /\ Gain(w, t, b) \in Int
<1> DEFINE n == Len(applied)
           f == [k \in DOMAIN applied |-> Event[applied[k]].weight]
           S == {k \in DOMAIN applied : IsFirst(k, w, t, b)}
<1>1. applied \in Seq(Events) /\ n \in Nat /\ DOMAIN applied = 1 .. n
  BY DEF Shape, TypeOK
<1>2. IsFiniteSet(S) /\ \A k \in S : f[k] \in Int
  <2>1. IsFiniteSet(1 .. n)
    BY <1>1, FS_Interval
  <2> QED
    BY <1>1, <2>1, FS_Subset, Constants
<1>3. Volume(w, t, b) = SumFunctionOnSet(f, S)
  BY DEF Volume
<1>4. Volume(w, t, b) \in Int
  <2> HIDE DEF f, S
  <2> QED
    BY <1>2, <1>3, SumType
<1>5. CASE applied' = applied
  <2>1. Volume(w, t, b)' = Volume(w, t, b)
    BY <1>5 DEF Volume, IsFirst
  <2>2. Gain(w, t, b) = 0
    BY <1>1, <1>5 DEF Gain
  <2> QED
    BY <1>4, <2>1, <2>2
<1>6. ASSUME NEW e \in Events, applied' = Append(applied, e)
      PROVE  /\ Volume(w, t, b)' = Volume(w, t, b) + Gain(w, t, b)
             /\ Gain(w, t, b) \in Int
  <2> DEFINE g == [k \in DOMAIN applied' |-> Event[applied'[k]].weight]
             R == {k \in DOMAIN applied' : IsFirst(k, w, t, b)'}
             m == n + 1
  <2>1. /\ Len(applied') = m /\ DOMAIN applied' = 1 .. m /\ applied'[m] = e
        /\ \A k \in 1 .. n : applied'[k] = applied[k]
    BY <1>1, <1>6
  <2>2. 1 .. m = 1 .. n \cup {m} /\ m \notin 1 .. n /\ m \in 1 .. m
    BY <1>1
  <2>3. ASSUME NEW k \in 1 .. n
        PROVE  IsFirst(k, w, t, b)' <=> IsFirst(k, w, t, b)
    <3>1. \A j \in 1 .. k - 1 : j \in 1 .. n
      BY <1>1
    <3> QED
      BY <2>1, <3>1 DEF IsFirst
  <2>4. ASSUME NEW k, k = m
        PROVE  IsFirst(Len(applied), w, t, b)' <=> IsFirst(k, w, t, b)'
    BY <2>1, <2>4 DEF IsFirst
  <2>5. Volume(w, t, b)' = SumFunctionOnSet(g, R)
    BY DEF Volume
  <2>6. Event[e].weight \in Int /\ g[m] = Event[e].weight
    BY <2>1, <2>2, Constants
  <2>7. \A k \in S : f[k] = g[k]
    BY <1>1, <2>1, <2>2
  <2>8. SumFunctionOnSet(f, S) = SumFunctionOnSet(g, S)
    <3> HIDE DEF f, g, S
    <3> QED
      BY <1>2, <2>7, SumCongruent
  <2>9. CASE IsFirst(Len(applied), w, t, b)'
    <3>1. R = S \cup {m} /\ m \notin S
      BY <1>1, <2>1, <2>2, <2>3, <2>4, <2>9
    <3>2. Gain(w, t, b) = Event[e].weight
      BY <1>1, <2>1, <2>9 DEF Gain
    <3>3. SumFunctionOnSet(g, R) = g[m] + SumFunctionOnSet(g, R \ {m})
      <4>1. IsFiniteSet(R) /\ m \in R
        <5>1. IsFiniteSet(S) /\ m \in R
          BY <1>2, <3>1
        <5> HIDE DEF S, R, m
        <5> QED
          BY <3>1, <5>1, FS_AddElement
      <4>2. \A k \in R : g[k] \in Int
        BY <1>2, <2>6, <2>7, <3>1
      <4> HIDE DEF g, R, m
      <4> QED
        BY <4>1, <4>2, SumSplits
    <3>4. R \ {m} = S
      BY <3>1
    <3> HIDE DEF f, g, R, S, m
    <3>5. Volume(w, t, b)' = Event[e].weight + Volume(w, t, b)
      BY <1>3, <2>5, <2>6, <2>8, <3>3, <3>4
    <3> QED
      BY <1>4, <2>6, <3>2, <3>5
  <2>10. CASE ~IsFirst(Len(applied), w, t, b)'
    <3>1. R = S
      BY <1>1, <2>1, <2>2, <2>3, <2>4, <2>10
    <3>2. Gain(w, t, b) = 0
      BY <2>10 DEF Gain
    <3> HIDE DEF f, g, R, S
    <3> QED
      BY <1>3, <1>4, <2>5, <2>8, <3>1, <3>2
  <2> QED
    BY <2>9, <2>10
<1>7. applied' = applied \/ \E e \in Events : applied' = Append(applied, e)
  BY RedisMoves, AppliedAre DEF Untouched, Passes
<1> QED
  BY <1>4, <1>5, <1>6, <1>7

\* The counter of a bucket that is kept counts every story once.
LEMMA CountsStep ==
  ASSUME Shape, AppliedMarked, StoriesExact, CountsExact, [Next]_vars
  PROVE  CountsExact'
<1> SUFFICES ASSUME NEW w \in Windows, NEW t \in Topics, NEW b \in Nat, now' < b + Kept(w)
             PROVE  Count(w, t, b)' = Volume(w, t, b)'
  BY DEF CountsExact
<1>1. now \in Nat /\ now' \in {now, now + 1} /\ Kept(w) \in Nat
  <2>1. now \in Nat /\ Kept(w) \in Nat
    BY Constants DEF Shape, TypeOK, Kept
  <2>2. now' = now \/ now' = now + 1
    BY RedisMoves DEF Untouched, Passes, Applies
  <2> QED
    BY <2>1, <2>2
<1>2. now < b + Kept(w)
  BY <1>1
<1>3. Count(w, t, b) = Volume(w, t, b)
  BY <1>2 DEF CountsExact
<1>4. Count(w, t, b)' = Count(w, t, b) + Gain(w, t, b)
  BY GainsStep
<1> QED
  BY <1>3, <1>4, VolumeGains


-----------------------------------------------------------------------------
(* The types, the offsets and the runs *)

\* A run that reads has the counts of its topics.
LEMMA ReadIs ==
  ASSUME Shape, RunsInOrder, NEW r \in Runs, NEW lost, ReadCounts(r, lost)
  PROVE  \E counts \in [Topics -> Nat] :
            runs' = [runs EXCEPT ![r] =
                       [runs[r] EXCEPT !.step = "publish", !.at = now, !.counts = counts]]
<1>1. Window(r) \in Windows
  BY Constants DEF ReadCounts, RunsInOrder, RunOK, Active, Window
<1>2. now \in Nat
  BY DEF Shape, TypeOK
<1>3. BucketStart(now, Window(r)) \in Nat
  BY <1>1, <1>2, BucketBounds
<1>4. \A t \in Topics : Count(Window(r), t, BucketStart(now, Window(r))) \in Nat
  BY <1>1, <1>3 DEF Shape, RedisOK
<1> DEFINE counts == [t \in Topics |->
              IF t \in lost THEN 0
              ELSE Count(Window(r), t, BucketStart(now, Window(r)))]
<1>5. counts \in [Topics -> Nat]
  BY <1>4
<1>6. runs' = [runs EXCEPT ![r] =
                 [runs[r] EXCEPT !.step = "publish", !.at = now, !.counts = counts]]
  BY DEF ReadCounts, Set
<1> QED
  BY <1>5, <1>6

\* Runs begin and end as runs.
LEMMA RunTypes ==
  /\ Idle \in Run /\ Idle.step = "idle"
  /\ Starting \in Run /\ Starting.step = "read" /\ Starting.w = 1
  /\ \A n \in Nat : /\ [Starting EXCEPT !.w = n] \in Run
                    /\ [Starting EXCEPT !.w = n].step = "read"
                    /\ [Starting EXCEPT !.w = n].w = n
  BY DEF Run, Steps, Idle, Starting

\* The timer begins a run when none is active.
LEMMA TimerIs ==
  ASSUME Timer
  PROVE  \/ UNCHANGED <<runs, inFlight>>
         \/ /\ ~inFlight /\ inFlight'
            /\ \E r \in Runs : ~Active(r) /\ runs' = [runs EXCEPT ![r] = Starting]
<1>1. CASE inFlight \/ \A r \in Runs : runs[r].step # "idle"
  BY <1>1 DEF Timer
<1>2. CASE ~(inFlight \/ \A r \in Runs : runs[r].step # "idle")
  <2> DEFINE r == CHOOSE x \in Runs : runs[x].step = "idle"
  <2>1. r \in Runs /\ runs[r].step = "idle"
    BY <1>2
  <2>2. runs' = [runs EXCEPT ![r] = Starting] /\ inFlight'
    BY <1>2 DEF Timer, Set
  <2> HIDE DEF r
  <2> QED
    BY <1>2, <2>1, <2>2 DEF Active
<1> QED
  BY <1>1, <1>2

\* The window of an active run is one.
LEMMA WindowIs ==
  ASSUME RunsInOrder, NEW r \in Runs, Active(r)
  PROVE  Window(r) \in Windows /\ RunOK(r) /\ runs[r].w \in 1 .. Len(WindowSeq)
  BY Constants DEF RunsInOrder, RunOK, Window

\* Only the run that takes a step is active afterwards.
LEMMA OneRun ==
  ASSUME TypeOK, RunsInOrder, NEW r \in Runs, Active(r) \/ \A s \in Runs : ~Active(s),
         NEW x, runs' = [runs EXCEPT ![r] = x], x.step = "idle" \/ RunOK(r)',
         \A w \in Windows : keptFrom'[w] <= now'
  PROVE  RunsInOrder'
<1>1. \A s \in Runs : runs'[s] = IF s = r THEN x ELSE runs[s]
  BY DEF TypeOK
<1>2. \A s \in Runs \ {r} : ~Active(s)
  BY DEF RunsInOrder
<1>3. \A s \in Runs \ {r} : ~Active(s)'
  BY <1>1, <1>2 DEF Active
<1>4. Active(r)' => RunOK(r)'
  BY <1>1 DEF Active
<1> QED
  BY <1>3, <1>4 DEF RunsInOrder

\* The run at work goes on to its next step, to the next window, or ends.
LEMMA StepRuns ==
  ASSUME TypeOK, RunsInOrder, NEW r \in Runs, Active(r), now' = now,
         NEW x \in Run, runs' = [runs EXCEPT ![r] = x],
         published' \in {published, [published EXCEPT ![Window(r)] = runs[r].at]},
         table' \in {table, [table EXCEPT ![Window(r)] = runs[r].at]},
         \/ keptFrom' = keptFrom
         \/ runs[r].step = "keep" /\ keptFrom' = [keptFrom EXCEPT ![Window(r)] = runs[r].at],
         \/ x.step = "idle"
         \/ x.step = "read" /\ inFlight' /\ x.w \in 1 .. Len(WindowSeq)
         \/ /\ runs[r].step = "read" /\ x.step = "publish" /\ x.w = runs[r].w /\ x.at = now
            /\ UNCHANGED <<inFlight, published, table, keptFrom>>
         \/ /\ runs[r].step = "publish" /\ x.step = "store"
            /\ x.w = runs[r].w /\ x.at = runs[r].at
            /\ published' = [published EXCEPT ![Window(r)] = runs[r].at]
            /\ UNCHANGED <<inFlight, table, keptFrom>>
         \/ /\ runs[r].step = "store" /\ x.step = "keep"
            /\ x.w = runs[r].w /\ x.at = runs[r].at
            /\ table' = [table EXCEPT ![Window(r)] = runs[r].at]
            /\ UNCHANGED <<inFlight, published, keptFrom>>
  PROVE  /\ RunsInOrder' /\ runs' \in [Runs -> Run]
         /\ published' \in [Windows -> Int] /\ table' \in [Windows -> Int]
         /\ keptFrom' \in [Windows -> Int]
<1>1. /\ Window(r) \in Windows /\ RunOK(r) /\ runs[r].w \in 1 .. Len(WindowSeq)
  BY WindowIs
<1>2. /\ runs \in [Runs -> Run] /\ runs[r] \in Run /\ runs[r].at \in Nat /\ now \in Nat
      /\ published \in [Windows -> Int] /\ table \in [Windows -> Int]
      /\ keptFrom \in [Windows -> Int]
  BY DEF TypeOK, Run
<1>3. /\ runs' \in [Runs -> Run] /\ runs'[r] = x
      /\ published' \in [Windows -> Int] /\ table' \in [Windows -> Int]
      /\ keptFrom' \in [Windows -> Int]
  BY <1>1, <1>2
<1>4. \A w \in Windows : keptFrom[w] <= now
  BY DEF RunsInOrder
<1>5. runs[r].step = "keep" => runs[r].at <= now
  BY <1>1 DEF RunOK
<1>6. \A w \in Windows : keptFrom'[w] <= now'
  BY <1>1, <1>2, <1>4, <1>5
<1>7. x.step = "idle" \/ RunOK(r)'
  <2>1. CASE x.step = "read"
    BY <1>3, <2>1 DEF RunOK
  <2>2. CASE x.w = runs[r].w /\ UNCHANGED keptFrom /\ UNCHANGED inFlight
             /\ x.step \in {"publish", "store", "keep"}
    <3>1. Window(r)' = Window(r)
      BY <1>3, <2>2 DEF Window
    <3>2. inFlight' /\ runs'[r].w \in 1 .. Len(WindowSeq)
      BY <1>1, <1>3, <2>2 DEF RunOK
    <3>3. CASE runs[r].step = "read"
      <4>1. x.step = "publish" /\ x.at = now
        BY <2>2, <3>3
      <4>2. keptFrom'[Window(r)] <= x.at /\ x.at <= now'
        BY <1>1, <1>2, <1>4, <2>2, <4>1
      <4> QED
        BY <1>3, <3>1, <3>2, <4>1, <4>2 DEF RunOK
    <3>4. CASE runs[r].step = "publish"
      <4>1. /\ x.step = "store" /\ x.at = runs[r].at
            /\ published' = [published EXCEPT ![Window(r)] = runs[r].at]
        BY <2>2, <3>4
      <4>2. published'[Window(r)] = x.at
        BY <1>1, <1>2, <4>1
      <4> QED
        BY <1>1, <1>3, <2>2, <3>1, <3>2, <3>4, <4>1, <4>2 DEF RunOK
    <3>5. CASE runs[r].step = "store"
      <4>1. /\ x.step = "keep" /\ x.at = runs[r].at /\ published' = published
            /\ table' = [table EXCEPT ![Window(r)] = runs[r].at]
        BY <2>2, <3>5
      <4>2. table'[Window(r)] = x.at
        BY <1>1, <1>2, <4>1
      <4> QED
        BY <1>1, <1>3, <2>2, <3>1, <3>2, <3>5, <4>1, <4>2 DEF RunOK
    <3> QED
      BY <2>2, <3>3, <3>4, <3>5
  <2> QED
    BY <2>1, <2>2
<1>8. RunsInOrder'
  BY <1>6, <1>7, OneRun
<1> QED
  BY <1>3, <1>8

SnapTypes ==
    /\ runs \in [Runs -> Run] /\ inFlight \in BOOLEAN
    /\ published \in [Windows -> Int] /\ table \in [Windows -> Int]
    /\ keptFrom \in [Windows -> Int]

\* Runs stay in order, and one at a time.
LEMMA RunsStep ==
  ASSUME Shape, RunsInOrder, [Next]_vars
  PROVE  RunsInOrder' /\ SnapTypes'
<1>0. TypeOK /\ SnapTypes /\ now \in Nat
  BY DEF Shape, TypeOK, SnapTypes
<1>1. ASSUME UNCHANGED <<snapVars, now>>
      PROVE  RunsInOrder' /\ SnapTypes'
  BY <1>0, <1>1 DEF snapVars, RunsInOrder, RunOK, Active, Window, SnapTypes
<1>2. CASE Skip \/ Apply \/ AutoCommit \/ ApplyFails \/ UNCHANGED vars
  BY <1>1, <1>2 DEF Skip, Apply, AutoCommit, ApplyFails, vars
<1>3. CASE Tick
  <2>1. now' = now + 1 /\ UNCHANGED <<published, table, keptFrom>>
    BY <1>3 DEF Tick
  <2>2. \A w \in Windows : keptFrom'[w] <= now'
    BY <1>0, <2>1 DEF RunsInOrder, SnapTypes
  <2>3. CASE UNCHANGED <<runs, inFlight>>
    <3>1. ASSUME NEW r \in Runs, Active(r), RunOK(r)
          PROVE  RunOK(r)'
      <4>1. runs[r].at \in Nat
        BY <1>0, <3>1 DEF SnapTypes, Run
      <4> QED
        BY <1>0, <2>1, <2>3, <3>1, <4>1 DEF RunOK, Window
    <3> QED
      BY <1>0, <2>1, <2>2, <2>3, <3>1 DEF RunsInOrder, Active, SnapTypes
  <2>4. CASE ~UNCHANGED <<runs, inFlight>>
    <3>1. ~inFlight /\ inFlight' /\
          \E r \in Runs : ~Active(r) /\ runs' = [runs EXCEPT ![r] = Starting]
      BY <1>3, <2>4, TimerIs DEF Tick
    <3>2. PICK r \in Runs : runs' = [runs EXCEPT ![r] = Starting]
      BY <3>1
    <3>3. \A s \in Runs : ~Active(s)
      BY <3>1 DEF RunsInOrder, RunOK
    <3>4. runs' \in [Runs -> Run] /\ runs'[r] = Starting
      BY <1>0, <3>2, RunTypes DEF SnapTypes
    <3>5. RunOK(r)'
      BY <3>1, <3>4, RunTypes, Constants DEF RunOK
    <3>6. RunsInOrder'
      BY <1>0, <2>2, <3>2, <3>3, <3>5, OneRun
    <3>7. inFlight' \in BOOLEAN
      BY <1>3, <1>0 DEF Tick, Timer, SnapTypes
    <3> QED
      BY <1>0, <2>1, <3>4, <3>6, <3>7 DEF SnapTypes
  <2> QED
    BY <2>3, <2>4
<1>4. ASSUME NEW r \in Runs, Read(r) \/ ReadLoses(r)
      PROVE  RunsInOrder' /\ SnapTypes'
  <2>1. PICK lost : ReadCounts(r, lost)
    BY <1>4 DEF Read, ReadLoses
  <2>2. PICK counts \in [Topics -> Nat] :
           runs' = [runs EXCEPT ![r] =
                      [runs[r] EXCEPT !.step = "publish", !.at = now, !.counts = counts]]
    BY <2>1, ReadIs
  <2> DEFINE x == [runs[r] EXCEPT !.step = "publish", !.at = now, !.counts = counts]
  <2>3. /\ x \in Run /\ x.step = "publish" /\ x.w = runs[r].w /\ x.at = now
        /\ runs' = [runs EXCEPT ![r] = x]
    BY <1>0, <2>2 DEF SnapTypes, Run, Steps
  <2> HIDE DEF x
  <2>4. /\ runs[r].step = "read" /\ now' = now
        /\ UNCHANGED <<inFlight, published, table, keptFrom>>
    BY <2>1 DEF ReadCounts
  <2>5. Active(r)
    BY <2>4 DEF Active
  <2>6. RunsInOrder' /\ runs' \in [Runs -> Run]
    BY <1>0, <2>3, <2>4, <2>5, StepRuns
  <2> QED
    BY <1>0, <2>4, <2>6 DEF SnapTypes
<1>5. ASSUME NEW r \in Runs, Publish(r) \/ Store(r)
      PROVE  RunsInOrder' /\ SnapTypes'
  <2> DEFINE x == [runs[r] EXCEPT !.step = IF Publish(r) THEN "store" ELSE "keep"]
  <2>1. /\ x \in Run /\ x.w = runs[r].w /\ x.at = runs[r].at
        /\ x.step = IF Publish(r) THEN "store" ELSE "keep"
    BY <1>0 DEF SnapTypes, Run, Steps
  <2>2. /\ now' = now /\ UNCHANGED <<inFlight, keptFrom>> /\ runs' = [runs EXCEPT ![r] = x]
        /\ \/ /\ Publish(r) /\ runs[r].step = "publish" /\ table' = table
              /\ published' = [published EXCEPT ![Window(r)] = runs[r].at]
           \/ /\ ~Publish(r) /\ runs[r].step = "store" /\ published' = published
              /\ table' = [table EXCEPT ![Window(r)] = runs[r].at]
    BY <1>5 DEF Publish, Store, Set
  <2> HIDE DEF x
  <2>3. Active(r)
    BY <2>2 DEF Active
  <2>4. /\ RunsInOrder' /\ runs' \in [Runs -> Run]
        /\ published' \in [Windows -> Int] /\ table' \in [Windows -> Int]
    <3>1. CASE Publish(r)
      BY <1>0, <2>1, <2>2, <2>3, <3>1, StepRuns
    <3>2. CASE ~Publish(r)
      BY <1>0, <2>1, <2>2, <2>3, <3>2, StepRuns
    <3> QED
      BY <3>1, <3>2
  <2> QED
    BY <1>0, <2>2, <2>4 DEF SnapTypes
<1>6. ASSUME NEW r \in Runs, Keep(r)
      PROVE  RunsInOrder' /\ SnapTypes'
  <2>1. /\ runs[r].step = "keep" /\ UNCHANGED <<now, published, table>>
        /\ keptFrom' = [keptFrom EXCEPT ![Window(r)] = runs[r].at]
    BY <1>6 DEF Keep, KeepCounts
  <2>2. Active(r)
    BY <2>1 DEF Active
  <2>3. /\ runs[r].w \in 1 .. Len(WindowSeq) /\ inFlight /\ Len(WindowSeq) \in Nat
    BY <2>2, WindowIs, Constants DEF RunOK
  <2>4. PICK x \in Run : /\ runs' = [runs EXCEPT ![r] = x]
                         /\ \/ x.step = "idle" /\ inFlight' = FALSE
                            \/ /\ x.step = "read" /\ inFlight' = inFlight
                               /\ x.w \in 1 .. Len(WindowSeq)
    <3>1. CASE runs[r].w < Len(WindowSeq)
      <4>1. runs[r].w + 1 \in Nat /\ runs[r].w + 1 \in 1 .. Len(WindowSeq)
        BY <2>3, <3>1
      <4>2. /\ runs' = [runs EXCEPT ![r] = [Starting EXCEPT !.w = runs[r].w + 1]]
            /\ inFlight' = inFlight
        BY <1>6, <3>1 DEF Keep, Done, Set
      <4> QED
        BY <4>1, <4>2, RunTypes
    <3>2. CASE ~(runs[r].w < Len(WindowSeq))
      BY <1>6, <3>2, RunTypes DEF Keep, Done, Set
    <3> QED
      BY <3>1, <3>2
  <2>5. RunsInOrder' /\ runs' \in [Runs -> Run] /\ keptFrom' \in [Windows -> Int]
    BY <1>0, <2>1, <2>2, <2>3, <2>4, StepRuns
  <2> QED
    BY <1>0, <2>1, <2>4, <2>5 DEF SnapTypes
<1>7. ASSUME NEW r \in Runs, RunFails(r)
      PROVE  RunsInOrder' /\ SnapTypes'
  <2>1. /\ now' = now /\ runs' = [runs EXCEPT ![r] = Idle] /\ inFlight' = FALSE
        /\ Active(r)
        /\ published' \in {published, [published EXCEPT ![Window(r)] = runs[r].at]}
        /\ table' \in {table, [table EXCEPT ![Window(r)] = runs[r].at]}
        /\ \/ keptFrom' = keptFrom
           \/ runs[r].step = "keep" /\ keptFrom' = [keptFrom EXCEPT ![Window(r)] = runs[r].at]
    BY <1>7 DEF RunFails, Set, KeepCounts, Active
  <2>2. /\ RunsInOrder' /\ runs' \in [Runs -> Run] /\ keptFrom' \in [Windows -> Int]
        /\ published' \in [Windows -> Int] /\ table' \in [Windows -> Int]
    BY <1>0, <2>1, RunTypes, StepRuns
  <2> QED
    BY <2>1, <2>2 DEF SnapTypes
<1>8. CASE Crash
  <2>1. /\ runs' = [r \in Runs |-> IF r = 1 THEN Starting ELSE Idle] /\ inFlight'
        /\ inFlight' \in BOOLEAN /\ UNCHANGED <<now, published, table, keptFrom>>
    BY <1>8 DEF Crash
  <2>2. /\ runs' \in [Runs -> Run]
        /\ \A r \in Runs : runs'[r] = IF r = 1 THEN Starting ELSE Idle
    BY <2>1, RunTypes
  <2>3. ASSUME NEW r \in Runs, r = 1
        PROVE  RunOK(r)'
    BY <2>1, <2>2, <2>3, RunTypes, Constants DEF RunOK
  <2>4. \A r \in Runs : Active(r)' => r = 1
    BY <2>2, RunTypes DEF Active
  <2>5. RunsInOrder'
    BY <2>1, <2>3, <2>4 DEF RunsInOrder
  <2> QED
    BY <1>0, <2>1, <2>2, <2>5 DEF SnapTypes
<1> QED
  BY <1>2, <1>3, <1>4, <1>5, <1>6, <1>7, <1>8 DEF Next, Consume, SnapshotStep

\* The types are kept.
LEMMA TypeStep ==
  ASSUME Shape, RunsInOrder, [Next]_vars
  PROVE  TypeOK'
<1>0. TypeOK /\ SnapTypes'
  BY RunsStep DEF Shape
<1>1. now' \in Nat /\ applied' \in Seq(Events)
  <2>1. now \in Nat /\ applied \in Seq(Events)
    BY <1>0 DEF TypeOK
  <2>2. ASSUME NEW e \in Events, Applies(e)
        PROVE  applied' \in Seq(Events)
    BY <2>1, <2>2, AppliedAre
  <2> QED
    BY <2>1, <2>2, RedisMoves DEF Untouched, Passes, Applies
<1>2. committed' \in Nat /\ position' \in Nat /\ faults' \in Nat
  <2>1. committed \in Nat /\ position \in Nat /\ faults \in Nat
    BY <1>0 DEF TypeOK
  <2>2. faults' = faults \/ faults' = faults + 1
    BY DEF Next, Consume, SnapshotStep, Skip, Apply, AutoCommit, ApplyFails, Tick, Crash, Read,
           ReadLoses, Publish, Store, Keep, RunFails, Fault, vars
  <2>3. /\ committed' \in {committed, position}
        /\ position' \in {position, position + 1, committed}
    BY DEF Next, Consume, SnapshotStep, Skip, Apply, AutoCommit, ApplyFails, Rejoin, Tick,
           Crash, Read, ReadLoses, ReadCounts, Publish, Store, Keep, RunFails, vars, kafkaVars
  <2> QED
    BY <2>1, <2>2, <2>3
<1> QED
  BY <1>0, <1>1, <1>2 DEF TypeOK, SnapTypes

\* What was applied stays so.
LEMMA AppliedGrows == ASSUME Shape, [Next]_vars PROVE ToSet(applied) \subseteq ToSet(applied')
  BY RedisMoves, AppliedAre DEF Untouched, Passes

\* A message is acknowledged once its event was applied, or is not tracked.
LEMMA PositionStep ==
  ASSUME Shape, PositionApplied, [Next]_vars
  PROVE  PositionApplied'
<1>0. /\ committed \in Nat /\ position \in Nat /\ Len(Log) \in Nat
      /\ committed <= position /\ position <= Len(Log)
      /\ \A k \in 1 .. position : Tracked(Log[k]) => Log[k] \in ToSet(applied')
  BY AppliedGrows, Constants DEF Shape, TypeOK, PositionApplied
<1>1. CASE Skip \/ Apply
  <2>1. /\ Available /\ position' = position + 1 /\ committed' = committed
        /\ position < Len(Log)
    BY <1>1 DEF Skip, Apply, Available
  <2>2. Tracked(Message) => Message \in ToSet(applied')
    <3>1. CASE Skip
      BY <3>1 DEF Skip
    <3>2. CASE Apply
      <4>1. Message \in Events /\ Applies(Message)
        BY <2>1, <3>2, MessageIs DEF Apply, Applies, Available
      <4> QED
        BY <4>1, AppliedAre
    <3> QED
      BY <1>1, <3>1, <3>2
  <2>3. ASSUME NEW k \in 1 .. position + 1, Tracked(Log[k])
        PROVE  Log[k] \in ToSet(applied')
    <3>1. CASE k = position + 1
      BY <2>2, <2>3, <3>1 DEF Message
    <3>2. CASE k # position + 1
      BY <1>0, <2>3, <3>2
    <3> QED
      BY <3>1, <3>2
  <2> QED
    BY <1>0, <2>1, <2>3 DEF PositionApplied
<1>2. CASE /\ position' \in {position, committed} /\ committed' \in {committed, position}
           /\ committed' <= position'
  BY <1>0, <1>2 DEF PositionApplied
<1>3. CASE AutoCommit \/ ApplyFails \/ Tick \/ Crash \/ UNCHANGED vars
  BY <1>0, <1>2, <1>3 DEF AutoCommit, ApplyFails, Rejoin, Tick, Crash, vars, kafkaVars
<1>4. ASSUME NEW r \in Runs, SnapshotStep(r) \/ ReadLoses(r) \/ RunFails(r)
      PROVE  PositionApplied'
  BY <1>0, <1>2, <1>4
     DEF SnapshotStep, Read, ReadLoses, ReadCounts, Publish, Store, Keep, RunFails, kafkaVars
<1> QED
  BY <1>1, <1>3, <1>4 DEF Next, Consume

\* Previous counts are replaced by those of the snapshot that was published and
\* stored.
LEMMA PrevStep ==
  ASSUME Shape, RunsInOrder, [Next]_vars, NEW w \in Windows, keptFrom'[w] # keptFrom[w]
  PROVE  keptFrom'[w] > keptFrom[w] /\ {table[w], published[w]} = {keptFrom'[w]}
<1>1. PICK r \in Runs : /\ runs[r].step = "keep"
                        /\ keptFrom' = [keptFrom EXCEPT ![Window(r)] = runs[r].at]
  BY DEF Next, Consume, SnapshotStep, Skip, Apply, AutoCommit, ApplyFails, Tick, Crash, Read,
         ReadLoses, ReadCounts, Publish, Store, Keep, RunFails, KeepCounts, vars, snapVars
<1>2. Active(r)
  BY <1>1 DEF Active
<1>3. /\ Window(r) \in Windows
      /\ keptFrom[Window(r)] <= runs[r].at
      /\ published[Window(r)] = runs[r].at /\ table[Window(r)] = runs[r].at
  BY <1>1, <1>2, WindowIs DEF RunOK
<1>4. keptFrom \in [Windows -> Int] /\ runs[r].at \in Nat
  BY DEF Shape, TypeOK, Run
<1>5. w = Window(r) /\ keptFrom'[w] = runs[r].at /\ keptFrom[w] \in Int
  BY <1>1, <1>3, <1>4
<1> QED
  BY <1>3, <1>4, <1>5

-----------------------------------------------------------------------------
(* Theorems *)

Inv ==
    /\ Shape /\ AppliedMarked /\ StoriesExact /\ CountsExact
    /\ PositionApplied /\ RunsInOrder

\* The invariant holds when the service starts, and every step keeps it.
LEMMA InitInv == Init => Inv
<1> SUFFICES ASSUME Init
             PROVE  Inv
  OBVIOUS
<1>1. DOMAIN redis = {} /\ applied = <<>> /\ now = 0
  BY DEF Init
<1>2. ToSet(applied) = {} /\ Len(applied) = 0 /\ applied \in Seq(Events)
  BY <1>1, EmptySeq DEF ToSet
<1>3. runs \in [Runs -> Run] /\ \A r \in Runs : runs[r] = IF r = 1 THEN Starting ELSE Idle
  BY RunTypes DEF Init
<1>4. TypeOK
  BY <1>2, <1>3 DEF Init, TypeOK, Never
<1>5. RedisOK
  BY <1>1 DEF RedisOK, Outlives, Count, Value
<1>6. StoriesExact
  <2>1. \A w, t, b : Urls(w, t, b) = {}
    BY <1>2 DEF Urls
  <2> QED
    BY <1>1, <2>1 DEF StoriesExact, Value
<1>9. CountsExact
  <2>1. \A w, t, b : Volume(w, t, b) = 0
    <3>1. ASSUME NEW w, NEW t, NEW b
          PROVE  Volume(w, t, b) = 0
      <4>1. {k \in DOMAIN applied : IsFirst(k, w, t, b)} = {}
        BY <1>1
      <4> QED
        BY <4>1, SumEmpty DEF Volume
    <3> QED
      BY <3>1
  <2> QED
    BY <1>1, <2>1 DEF CountsExact, Count, Value
<1>7. PositionApplied
  BY Constants DEF Init, PositionApplied
<1>8. RunsInOrder
  <2>1. inFlight /\ \A w \in Windows : keptFrom[w] <= now
    BY DEF Init, Never
  <2>2. \A r \in Runs : Active(r) => r = 1
    BY <1>3, RunTypes DEF Active
  <2>3. \A r \in Runs : r = 1 => RunOK(r)
    BY <1>3, <2>1, RunTypes, Constants DEF RunOK
  <2> QED
    BY <2>1, <2>2, <2>3 DEF RunsInOrder
<1> QED
  BY <1>2, <1>4, <1>5, <1>6, <1>7, <1>8, <1>9 DEF Inv, Shape, AppliedMarked

\* Every step keeps the inductive invariant.
LEMMA NextInv == Inv /\ [Next]_vars => Inv'
<1> SUFFICES ASSUME Inv, [Next]_vars
             PROVE  Inv'
  OBVIOUS
<1>1. Shape /\ AppliedMarked /\ StoriesExact /\ CountsExact /\ PositionApplied /\ RunsInOrder
  BY DEF Inv
<1>2. TypeOK' /\ RedisOK' /\ RunsInOrder'
  BY <1>1, TypeStep, RedisStep, RunsStep
<1>3. AppliedMarked' /\ StoriesExact' /\ CountsExact' /\ PositionApplied'
  BY <1>1, MarkedStep, StoriesStep, CountsStep, PositionStep
<1> QED
  BY <1>2, <1>3 DEF Inv, Shape

\* The inductive invariant: deadlines outlive buckets, dedup and story sets
\* agree with what was applied, and the runs of the snapshot loop are in order.
THEOREM InvHolds == Spec => []Inv
  BY InitInv, NextInv, PTL DEF Spec

\* The types of the state, with the types and deadlines of the keys in Redis.
THEOREM TypeCorrect == Spec => []Shape
<1>1. Inv => Shape
  BY DEF Inv
<1> QED
  BY <1>1, InvHolds, PTL

\* onMessage rethrows: an offset is committed only behind messages that were
\* applied or are not tracked, whatever fails or crashes.
THEOREM CommitsWhatIsApplied == Spec => []CommittedApplied
<1>1. Inv => CommittedApplied
  BY DEF Inv, Shape, TypeOK, PositionApplied, CommittedApplied
<1> QED
  BY <1>1, InvHolds, PTL

\* writePreviousWindowCounts comes last, and one run at a time: the previous
\* counts come from the snapshot just published and stored, in order.
THEOREM KeepsInOrder == Spec => PrevNeverOlder
<1>1. Inv /\ [Next]_vars =>
        [\A w \in Windows : keptFrom'[w] # keptFrom[w] =>
            /\ keptFrom'[w] > keptFrom[w]
            /\ {table[w], published[w]} = {keptFrom'[w]}]_keptFrom
  BY PrevStep DEF Inv
<1> QED
  BY <1>1, InvHolds, PTL DEF Spec, PrevNeverOlder

\* Whatever comes again, expires, fails or crashes, no story is counted twice
\* as long as the keys of its bucket are kept ...
THEOREM CountsOnce == Spec => []CountedOnce
<1>1. ASSUME Inv, NEW w \in Windows, NEW t \in Topics, NEW x \in 0 .. now, NEW b,
             b = BucketStart(x, w), now < b + Kept(w)
      PROVE  Count(w, t, b) <= Volume(w, t, b)
  <2>1. x \in Nat
    BY <1>1 DEF Inv, Shape, TypeOK
  <2>2. b \in Nat
    BY <1>1, <2>1, BucketBounds
  <2>3. Count(w, t, b) = Volume(w, t, b) /\ Count(w, t, b) \in Nat
    BY <1>1, <2>2 DEF Inv, CountsExact, Shape, RedisOK
  <2> QED
    BY <2>3
<1>2. Inv => CountedOnce
  BY <1>1 DEF CountedOnce
<1> QED
  BY <1>2, InvHolds, PTL

\* ... and the buckets a snapshot reads hold every event applied to them.
THEOREM CountsAllWhileCurrent == Spec => []CurrentBucketExact
<1>1. ASSUME Inv, NEW w \in Windows, NEW t \in Topics, NEW b, b = BucketStart(now, w)
      PROVE  Count(w, t, b) = Volume(w, t, b)
  <2>1. now \in Nat /\ Length[w] \in Nat
    BY <1>1, Constants DEF Inv, Shape, TypeOK
  <2>2. b \in Nat /\ now < b + Length[w]
    BY <1>1, <2>1, BucketBounds
  <2>3. now < b + Kept(w)
    BY <2>1, <2>2 DEF Kept
  <2> QED
    BY <1>1, <2>2, <2>3 DEF Inv, CountsExact
<1>2. Inv => CurrentBucketExact
  BY <1>1 DEF CurrentBucketExact
<1> QED
  BY <1>2, InvHolds, PTL
=============================================================================
