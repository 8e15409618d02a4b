----------------------------- MODULE Collector -----------------------------
(***************************************************************************)
(* An adapter loop of the collector: it polls the feeds of a source, takes *)
(* the items after its checkpoint, publishes to events.raw those it has    *)
(* not seen, and keeps checkpoints and seen ids in a SQLite file that      *)
(* outlives the process.  Items of a feed are numbered in the order they   *)
(* appear; a feed shows the newest ones.  kind tells how the adapter takes *)
(* items: the RSS feeds, lobste.rs, and Hacker News by date or by rank.    *)
(***************************************************************************)
EXTENDS Integers, Sequences, FiniteSets, SequencesExt

CONSTANTS
    Kinds,        \* the adapters to look at: "rss", "lobsters", "new", "ranked"
    FeedSeq,      \* the RSS feeds; the other adapters have the first one only
    Posts,        \* Posts[f]: bound on the items of f
    Shown,        \* items a feed shows
    Cap,          \* items taken when the checkpoint is no longer shown
    MaxItems,     \* items taken at once from lobste.rs and Hacker News
    Gated,        \* items no event is made of (market gate, not a story)
    Invalid,      \* items without a text
    None,         \* no checkpoint to save
    MaxFaults     \* bound on failed calls, crashes, shutdowns and weeks

Feeds == ToSet(FeedSeq)
Items == UNION {{f} \X (1 .. Posts[f]) : f \in Feeds}
Label == {"idle", "feed", "item", "mark", "end", "beat", "stopped"}

ASSUME CollectorAssumption ==
    /\ Kinds \subseteq {"rss", "lobsters", "new", "ranked"}
    /\ FeedSeq \in Seq(Feeds) /\ Len(FeedSeq) > 0
    /\ Posts \in [Feeds -> Nat]
    /\ {Shown, Cap, MaxItems} \subseteq Nat \ {0}
    /\ MaxFaults \in Nat
    /\ None \notin Feeds \X Nat

VARIABLES
    kind,         \* the adapter
    posted,       \* posted[f]: items that appeared in f
    due,          \* feeds due for a poll (nextPollAtByFeed)
    checkpoint,   \* checkpoint[f]: item of the checkpoint, 0 if none
    seen,         \* seen_events
    old,          \* seen_events from more than 7 days ago
    open,         \* the checkpoint store is open
    shutdown,     \* shutdownRequested
    pc,           \* what the loop is about to do
    feed,         \* index of the feed being polled
    queue,        \* items still to take, in order
    cursor,       \* Hacker News: CheckpointProgressState
    last,         \* lastCheckpointKey and lastCheckpointValue
    outcome,      \* of the feeds of this poll, a subset of {"ok", "failed"}
    published,    \* history: published[i], messages of i in events.raw
    excused,      \* history: excused[i], reasons to publish i again
    passed,       \* history: items that were rejected, gated or cut off
    faults        \* faults so far

storeVars   == <<checkpoint, seen, old>>
runVars     == <<open, shutdown>>
pollVars    == <<due, pc, feed, queue, cursor, last, outcome>>
historyVars == <<published, excused, passed>>
vars == <<kind, posted, storeVars, runVars, pollVars, historyVars, faults>>

FeedsOf(k) == IF k = "rss" THEN FeedSeq ELSE SubSeq(FeedSeq, 1, 1)
HackerNews == kind \in {"new", "ranked"}
F == FeedSeq[feed]
Item == <<F, Head(queue)>>
Fault == faults < MaxFaults /\ faults' = faults + 1
Add(f, i) == [f EXCEPT ![i] = @ + 1]

Init ==
    /\ kind \in Kinds
    /\ posted = [f \in Feeds |-> 0]
    /\ due = Feeds
    /\ checkpoint = [f \in Feeds |-> 0]
    /\ seen = {} /\ old = {}
    /\ open = TRUE /\ shutdown = FALSE
    /\ pc = "idle" /\ feed = 1 /\ queue = <<>> /\ last = None /\ outcome = {}
    /\ cursor = [at |-> 0, blocked |-> FALSE]
    /\ published = [i \in Items |-> 0]
    /\ excused = [i \in Items |-> 0]
    /\ passed = {}
    /\ faults = 0

-----------------------------------------------------------------------------
(* The world *)

Post(f) ==
    /\ f \in ToSet(FeedsOf(kind))
    /\ posted[f] < Posts[f]
    /\ posted' = Add(posted, f)
    /\ UNCHANGED <<kind, storeVars, runVars, pollVars, historyVars, faults>>

\* The poll interval of a feed has passed.
FallDue(f) ==
    /\ f \in ToSet(FeedsOf(kind)) \ due
    /\ due' = due \cup {f}
    /\ UNCHANGED <<kind, posted, storeVars, runVars, pc, feed, queue, cursor, last,
                   outcome, historyVars, faults>>

Week ==
    /\ old # seen
    /\ Fault
    /\ old' = seen
    /\ UNCHANGED <<kind, posted, checkpoint, seen, runVars, pollVars, historyVars>>

-----------------------------------------------------------------------------
(* What an adapter takes *)

Greater(a, b) == IF a > b THEN a ELSE b
Lesser(a, b) == IF a < b THEN a ELSE b

\* The items from a to b, in their order.
Numbers(a, b) == [k \in 1 .. b - a + 1 |-> a + k - 1]

First(f) == Greater(posted[f] - Shown, 0) + 1
Visible(f) == First(f) .. posted[f]
After(f) == Greater(First(f), checkpoint[f] + 1)

\* The checkpoint is shown, or there is none: the items after it are new.
Found(f) == checkpoint[f] = 0 \/ checkpoint[f] \in Visible(f)
NewFrom(f) == IF Found(f) THEN After(f) ELSE First(f)

\* The newest k of the new items.
Newest(f, k) == Numbers(Greater(NewFrom(f), posted[f] - k + 1), posted[f])

\* The items after the checkpoint, or the newest ones when it is not shown.
RssQueue(f) ==
    IF Found(f) THEN Numbers(NewFrom(f), posted[f]) ELSE Newest(f, Cap)
LobstersQueue(f) == Newest(f, IF Found(f) THEN MaxItems ELSE Lesser(MaxItems, Cap))

\* Stories by date: the oldest ones after the checkpoint.
NewQueue(f) == Numbers(After(f), Lesser(posted[f], After(f) + MaxItems - 1))

\* Ranked stories come in any order, and are taken when they are newer than the
\* checkpoint or were not seen.
RankedQueues(f) ==
    LET candidates == {n \in Visible(f) : n > checkpoint[f] \/ <<f, n>> \notin seen}
    IN  {SubSeq(q, 1, Lesser(MaxItems, Len(q))) : q \in SetToSeqs(candidates)}

\* The queues the adapter may take from f.
Queues(f) ==
    CASE kind = "rss"      -> {RssQueue(f)}
      [] kind = "lobsters" -> {LobstersQueue(f)}
      [] kind = "new"      -> {NewQueue(f)}
      [] kind = "ranked"   -> RankedQueues(f)

\* What is cut off and will be behind the checkpoint: the items of RSS and
\* lobste.rs that the queue leaves out, and those no feed shows any more.
CutOff(f, q) ==
    {<<f, n>> : n \in
        {m \in 1 .. posted[f] :
            m \notin ToSet(q) /\ (m \notin Visible(f) \/ kind \in {"rss", "lobsters"})
            /\ m > checkpoint[f]}}

\* onStoryProcessed: by date, the cursor stays before a story that failed.
ProcessedUnblocked(n) ==
    IF ~HackerNews THEN cursor
    ELSE [cursor EXCEPT !.at = IF kind = "ranked" /\ n < @ THEN @ ELSE n]
Processed(n) ==
    IF ~HackerNews \/ cursor.blocked THEN cursor
    ELSE [cursor EXCEPT !.at = IF kind = "ranked" /\ n < @ THEN @ ELSE n]

CheckpointValue(n) == IF HackerNews THEN Processed(n).at ELSE n

-----------------------------------------------------------------------------
(* The poll *)

Goto(label) == pc' = label

StartPollAlways ==
    /\ pc = "idle"
    /\ Goto("feed")
    /\ feed' = 1 /\ last' = None /\ outcome' = {}
    /\ UNCHANGED <<kind, posted, storeVars, runVars, due, queue, cursor, historyVars,
                   faults>>
StartPoll ==
    /\ pc = "idle" /\ ~shutdown
    /\ Goto("feed")
    /\ feed' = 1 /\ last' = None /\ outcome' = {}
    /\ UNCHANGED <<kind, posted, storeVars, runVars, due, queue, cursor, historyVars,
                   faults>>

Stop ==
    /\ pc = "idle" /\ shutdown
    /\ Goto("stopped")
    /\ UNCHANGED <<kind, posted, storeVars, runVars, due, feed, queue, cursor, last,
                   outcome, historyVars, faults>>

NextFeed == feed' = feed + 1 /\ Goto("feed")
Polling == pc = "feed" /\ feed <= Len(FeedsOf(kind))
NotDue == kind = "rss" /\ F \notin due

SkipFeed ==
    /\ Polling /\ NotDue
    /\ NextFeed
    /\ UNCHANGED <<kind, posted, storeVars, runVars, due, queue, cursor, last, outcome,
                   historyVars, faults>>

FetchFeed ==
    /\ Polling /\ ~NotDue /\ open
    /\ \E q \in Queues(F) :
          /\ queue' = q
          /\ passed' = passed \cup CutOff(F, q)
    /\ cursor' = [at |-> checkpoint[F], blocked |-> FALSE]
    /\ outcome' = outcome \cup {"ok"}
    /\ Goto("item")
    /\ UNCHANGED <<kind, posted, storeVars, runVars, due, feed, last, published, excused,
                   faults>>

\* An error reaches runAdapter: no checkpoint is saved, and the loop goes on
\* after a heartbeat and a backoff.  Leaving the generator schedules the feed.
AbandonPoll ==
    /\ Goto("idle")
    /\ queue' = <<>>
    /\ due' = IF feed <= Len(FeedsOf(kind)) THEN due \ {F} ELSE due
    /\ feed' = 1
    /\ last' = None
    /\ outcome' = {}

\* The RSS adapter logs the failure of a feed and goes on with the next one.
FetchFails ==
    /\ Polling /\ ~NotDue
    /\ IF open THEN Fault ELSE UNCHANGED faults
    /\ IF kind = "rss"
       THEN /\ outcome' = outcome \cup {"failed"}
            /\ due' = due \ {F}
            /\ NextFeed
            /\ UNCHANGED <<queue, last>>
       ELSE AbandonPoll
    /\ UNCHANGED <<kind, posted, storeVars, runVars, cursor, historyVars>>

FeedsDone ==
    /\ pc = "feed" /\ feed > Len(FeedsOf(kind))
    /\ IF outcome = {"failed"}
       THEN AbandonPoll
       ELSE Goto("end") /\ UNCHANGED <<due, feed, queue, last, outcome>>
    /\ UNCHANGED <<kind, posted, storeVars, runVars, cursor, historyVars, faults>>

ItemsDone ==
    /\ pc = "item" /\ queue = <<>>
    /\ due' = due \ {F}
    /\ NextFeed
    /\ UNCHANGED <<kind, posted, storeVars, runVars, queue, cursor, last, outcome,
                   historyVars, faults>>

-----------------------------------------------------------------------------
(* An item *)

Taking == pc = "item" /\ queue # <<>>

\* No event is made of the item, and nothing is yielded.
Gate ==
    /\ Taking /\ Item \in Gated
    /\ cursor' = Processed(Item[2])
    /\ queue' = Tail(queue)
    /\ passed' = passed \cup {Item}
    /\ UNCHANGED <<kind, posted, storeVars, runVars, due, pc, feed, last, outcome,
                   published, excused, faults>>

\* A story could not be fetched: by date, the checkpoint may not pass it.  Of
\* lobste.rs, an item no event could be made of is left out for good.
StoryFails ==
    /\ Taking /\ kind # "rss"
    /\ Fault
    /\ cursor' = [cursor EXCEPT !.blocked = kind = "new"]
    /\ queue' = Tail(queue)
    /\ passed' = IF kind = "lobsters" THEN passed \cup {Item} ELSE passed
    /\ UNCHANGED <<kind, posted, storeVars, runVars, due, pc, feed, last, outcome,
                   published, excused>>

Break ==
    /\ Taking /\ Item \notin Gated /\ shutdown
    /\ Goto("end")
    /\ queue' = <<>>
    /\ due' = due \ {F}
    /\ UNCHANGED <<kind, posted, storeVars, runVars, feed, cursor, last, outcome,
                   historyVars, faults>>

\* The item is yielded: the loop notes its checkpoint and ingests its event.
Yielded == Taking /\ Item \notin Gated /\ ~shutdown
Note ==
    /\ cursor' = Processed(Item[2])
    /\ last' = <<F, CheckpointValue(Item[2])>>

DuplicateUnchecked == FALSE
Duplicate == Item \in seen

SkipDuplicate ==
    /\ Yielded /\ open /\ Duplicate
    /\ Note
    /\ queue' = Tail(queue)
    /\ UNCHANGED <<kind, posted, storeVars, runVars, due, pc, feed, outcome, historyVars,
                   faults>>

\* A rejected event goes to the dead letter topic and is not marked as seen.
Reject ==
    /\ Yielded /\ open /\ ~Duplicate /\ Item \in Invalid
    /\ Note
    /\ queue' = Tail(queue)
    /\ passed' = passed \cup {Item}
    /\ UNCHANGED <<kind, posted, storeVars, runVars, due, pc, feed, outcome, published,
                   excused, faults>>

Publish ==
    /\ Yielded /\ open /\ ~Duplicate /\ Item \notin Invalid
    /\ Note
    /\ published' = Add(published, Item)
    /\ Goto("mark")
    /\ UNCHANGED <<kind, posted, storeVars, runVars, due, feed, queue, outcome, excused,
                   passed, faults>>

\* Kafka fails, the message written or not.
IngestFailsSaving ==
    /\ Yielded /\ open /\ ~Duplicate
    /\ Fault
    /\ checkpoint' = [checkpoint EXCEPT ![F] = CheckpointValue(Item[2])]
    /\ UNCHANGED <<published, excused>>
    /\ AbandonPoll
    /\ UNCHANGED <<kind, posted, seen, old, runVars, cursor, passed>>
IngestFailsMarked ==
    /\ Yielded /\ open /\ ~Duplicate
    /\ Fault
    /\ seen' = seen \cup {Item}
    /\ AbandonPoll
    /\ UNCHANGED <<kind, posted, checkpoint, old, runVars, cursor, historyVars>>
IngestFails ==
    /\ Yielded /\ open /\ ~Duplicate
    /\ Fault
    /\ \/ /\ Item \notin Invalid
          /\ published' = Add(published, Item)
          /\ excused' = Add(excused, Item)
       \/ UNCHANGED <<published, excused>>
    /\ AbandonPoll
    /\ UNCHANGED <<kind, posted, storeVars, runVars, cursor, passed>>

\* markSeen, in the same turn as the end of publishAcceptedEvent; it throws
\* when the store was closed meanwhile.
Mark ==
    /\ pc = "mark" /\ open
    /\ seen' = seen \cup {Item}
    /\ Goto("item")
    /\ queue' = Tail(queue)
    /\ UNCHANGED <<kind, posted, checkpoint, old, runVars, due, feed, cursor, last,
                   outcome, historyVars, faults>>

MarkFails ==
    /\ pc = "mark" /\ ~open
    /\ excused' = Add(excused, Item)
    /\ AbandonPoll
    /\ UNCHANGED <<kind, posted, storeVars, runVars, cursor, published, passed, faults>>

-----------------------------------------------------------------------------
(* The end of a poll *)

\* Only the checkpoint of the last item is saved.
SaveCheckpoint ==
    checkpoint' = IF last = None THEN checkpoint
                  ELSE [checkpoint EXCEPT ![last[1]] = last[2]]

\* cleanupSeen, at most once an hour.
Cleanup ==
    /\ seen' = seen \ old
    /\ old' = {}
    /\ excused' = [i \in Items |-> excused[i] + IF i \in old THEN 1 ELSE 0]

EndPoll ==
    /\ pc = "end" /\ (open \/ last = None)
    /\ SaveCheckpoint
    /\ \/ open /\ Cleanup
       \/ UNCHANGED <<seen, old, excused>>
    /\ Goto("beat")
    /\ UNCHANGED <<kind, posted, runVars, due, feed, queue, cursor, last, outcome,
                   published, passed, faults>>

\* The store is closed: setCheckpoint throws.
EndPollFails ==
    /\ pc = "end" /\ ~open
    /\ AbandonPoll
    /\ UNCHANGED <<kind, posted, storeVars, runVars, cursor, historyVars, faults>>

\* The heartbeat, and a sleep; or Kafka fails, and a backoff.
Beat ==
    /\ pc = "beat"
    /\ AbandonPoll
    /\ UNCHANGED <<kind, posted, storeVars, runVars, cursor, historyVars, faults>>

-----------------------------------------------------------------------------
(* The process *)

Shutdown ==
    /\ ~shutdown
    /\ Fault
    /\ shutdown' = TRUE
    /\ UNCHANGED <<kind, posted, storeVars, open, pollVars, historyVars>>

\* gracefulShutdown closes the store, whatever the loop is doing.
CloseStore ==
    /\ shutdown /\ open
    /\ open' = FALSE
    /\ UNCHANGED <<kind, posted, storeVars, shutdown, pollVars, historyVars, faults>>

\* A new process: every feed is due, and the checkpoints are those saved.
Restart ==
    /\ due' = Feeds
    /\ open' = TRUE /\ shutdown' = FALSE
    /\ pc' = "idle" /\ feed' = 1 /\ queue' = <<>> /\ last' = None /\ outcome' = {}
    /\ excused' = IF pc = "mark" THEN Add(excused, Item) ELSE excused
    /\ UNCHANGED <<kind, posted, storeVars, cursor, published, passed>>

RestartStopped == pc = "stopped" /\ ~open /\ Restart /\ UNCHANGED faults
Crash == Fault /\ Restart

Loop ==
    \/ StartPoll \/ Stop \/ SkipFeed \/ FetchFeed \/ FeedsDone \/ ItemsDone
    \/ Gate \/ Break \/ SkipDuplicate \/ Reject \/ Publish \/ Mark \/ MarkFails
    \/ EndPoll \/ EndPollFails \/ Beat

Next ==
    \/ Loop \/ FetchFails \/ StoryFails \/ IngestFails
    \/ \E f \in Feeds : Post(f) \/ FallDue(f)
    \/ Week \/ Shutdown \/ CloseStore \/ RestartStopped \/ Crash

Spec == Init /\ [][Next]_vars

\* The loop goes on, intervals pass, and a stopped service is started again.
FairSpec ==
    /\ Spec
    /\ WF_vars(Loop) /\ WF_vars(CloseStore) /\ WF_vars(RestartStopped)
    /\ WF_vars(FetchFails /\ ~open)
    /\ \A f \in Feeds : WF_vars(Post(f)) /\ WF_vars(FallDue(f))

-----------------------------------------------------------------------------
(* Properties *)

\* A checkpoint never passes an item that is still to be published: when Kafka
\* fails in the middle of a poll, a story could not be fetched, or the service
\* stops, the next poll comes back to it.  The items passed over are the ones
\* that were rejected, gated, or cut off when the checkpoint was lost sight of.
\* Stories by rank have no such order: their ids are not a position.
CheckpointBehindPublished ==
    kind # "ranked" =>
        \A i \in Items :
            i[2] <= checkpoint[i[1]] => published[i] > 0 \/ i \in passed

\* An id is seen only when its event is in events.raw, so that skipping a
\* duplicate never loses one.
SeenWasPublished == \A i \in seen : published[i] > 0

\* An item is published again only for a reason: Kafka's answer or the mark
\* was lost, or the id was forgotten after a week.
PublishedOncePerReason == \A i \in Items : published[i] <= 1 + excused[i]

\* The newest item of every feed is published in the end, whatever failed
\* before: a feed that failed is due again, and a cut off feed has its newest
\* items taken.
EventuallyPublished ==
    <>(\A f \in ToSet(FeedsOf(kind)) :
          LET i == <<f, Posts[f]>> IN published[i] > 0 \/ i \in passed)

\* A requested shutdown ends the loop, although the store may be closed under
\* a poll that goes on.
ShutdownEnds == shutdown ~> (pc = "stopped" \/ ~shutdown)

=============================================================================
