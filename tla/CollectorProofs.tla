--------------------------- MODULE CollectorProofs ---------------------------
(***************************************************************************)
(* For any feeds, posts, page and batch sizes, gates, rejections and       *)
(* faults: what Collector publishes, marks as seen and puts behind its     *)
(* checkpoints.                                                            *)
(***************************************************************************)
EXTENDS Collector, SequenceTheorems, FiniteSetTheorems, TLAPS

\* The loop has a feed, and maybe an item, at hand.
AtFeed == pc \in {"item", "mark"}

TypeOK ==
    /\ kind \in Kinds
    /\ posted \in [Feeds -> Nat] /\ \A f \in Feeds : posted[f] <= Posts[f]
    /\ checkpoint \in [Feeds -> Nat]
    /\ seen \subseteq Items /\ old \subseteq Items
    /\ pc \in Label
    /\ feed \in Nat \ {0}
    /\ queue \in Seq(Nat)
    /\ cursor \in [at : Nat, blocked : BOOLEAN]
    /\ last \in {None} \cup (Feeds \X Nat)
    /\ published \in [Items -> Nat] /\ excused \in [Items -> Nat]
    /\ passed \subseteq Items
    /\ faults \in Nat

\* The items at hand are of the feed at hand.
QueueOK ==
    /\ AtFeed => feed <= Len(FeedsOf(kind))
    /\ AtFeed => \A k \in 1 .. Len(queue) : queue[k] \in 1 .. posted[F]
    /\ pc = "mark" => queue # <<>>

Shape == TypeOK /\ QueueOK

-----------------------------------------------------------------------------
(* The inductive invariants *)

\* Each publication but the excused ones is on record: as seen, or as the one
\* that is being marked.
Recorded(i) == i \in seen \/ (pc = "mark" /\ i = Item)
PublicationsRecorded ==
    \A i \in Items : published[i] <= excused[i] + IF Recorded(i) THEN 1 ELSE 0

RecordedWasPublished ==
    /\ SeenWasPublished
    /\ pc = "mark" => published[Item] > 0

\* Item n of f need not be taken any more; all up to n need not.
Handled(f, n) == <<f, n>> \in Items => published[<<f, n>>] > 0 \/ <<f, n>> \in passed
Behind(f, n) == \A m \in 1 .. n : Handled(f, m)

\* The queue is complete: whatever is before one of its items is before it in
\* the queue, or handled.  By date, a story that failed leaves a gap, and the
\* cursor stays.
Ordered == kind \in {"rss", "lobsters"} \/ (kind = "new" /\ ~cursor.blocked)
QueueComplete ==
    AtFeed /\ Ordered =>
        \A k \in 1 .. Len(queue) : \A m \in 1 .. queue[k] - 1 :
            Handled(F, m) \/ \E j \in 1 .. k - 1 : queue[j] = m

\* What may become the checkpoint is behind everything published.
ProgressBehind ==
    kind # "ranked" =>
        /\ \A f \in Feeds : Behind(f, checkpoint[f])
        /\ last # None => Behind(last[1], last[2])
        /\ AtFeed /\ kind = "new" => Behind(F, cursor.at)

-----------------------------------------------------------------------------
(* Feeds, items and queues *)

\* What the proofs need of the assumptions.
LEMMA Constants ==
  /\ Len(FeedSeq) \in Nat \ {0}
  /\ \A k \in 1 .. Len(FeedSeq) : FeedSeq[k] \in Feeds
  /\ \A f \in Feeds : Posts[f] \in Nat
  /\ Shown \in Nat \ {0} /\ Cap \in Nat \ {0} /\ MaxItems \in Nat \ {0}
  /\ MaxFaults \in Nat
  /\ None \notin Feeds \X Nat
  BY CollectorAssumption

\* An adapter polls feeds of FeedSeq.
LEMMA FeedsOfLength == Len(FeedsOf(kind)) \in 1 .. Len(FeedSeq)
<1>1. FeedSeq \in Seq(Feeds) /\ Len(FeedSeq) \in Nat /\ Len(FeedSeq) > 0
  BY CollectorAssumption
<1>2. Len(SubSeq(FeedSeq, 1, 1)) = 1
  BY <1>1, SubSeqProperties
<1> QED
  BY <1>1, <1>2 DEF FeedsOf

\* Items are numbered feed by feed.
LEMMA ItemsAre ==
  /\ \A f \in Feeds : \A n \in 1 .. Posts[f] : <<f, n>> \in Items
  /\ \A i \in Items : i = <<i[1], i[2]>> /\ i[1] \in Feeds /\ i[2] \in 1 .. Posts[i[1]]
  BY DEF Items

\* Numbers is an ascending sequence of the numbers of an interval.
LEMMA NumbersAre ==
  ASSUME NEW a \in Nat \ {0}, NEW b \in Nat
  PROVE  /\ Numbers(a, b) \in Seq(Nat)
         /\ \A k \in 1 .. Len(Numbers(a, b)) :
               /\ Numbers(a, b)[k] = a + k - 1
               /\ Numbers(a, b)[k] \in a .. b
<1> DEFINE n == IF b - a + 1 > 0 THEN b - a + 1 ELSE 0
<1>1. n \in Nat /\ 1 .. b - a + 1 = 1 .. n
  OBVIOUS
<1>2. Numbers(a, b) = [k \in 1 .. n |-> a + k - 1]
  BY <1>1 DEF Numbers
<1>3. \A k \in 1 .. n : a + k - 1 \in Nat /\ a + k - 1 \in a .. b
  OBVIOUS
<1> HIDE DEF n
<1>4. Numbers(a, b) \in Seq(Nat) /\ Len(Numbers(a, b)) = n
  BY <1>1, <1>2, <1>3
<1> QED
  BY <1>2, <1>3, <1>4

\* The feed at hand is a feed.
LEMMA FeedAtHand ==
  ASSUME Shape, AtFeed \/ Polling
  PROVE  F \in Feeds
<1>1. feed \in 1 .. Len(FeedSeq)
  BY FeedsOfLength, Constants DEF Shape, TypeOK, QueueOK, Polling
<1> QED
  BY <1>1, Constants DEF F

\* The item at hand, and the queue behind it.
LEMMA ItemAtHand ==
  ASSUME Shape, Taking \/ pc = "mark"
  PROVE  /\ AtFeed /\ queue # <<>> /\ F \in Feeds
         /\ Len(queue) \in Nat /\ Len(queue) >= 1
         /\ Head(queue) = queue[1] /\ Head(queue) \in 1 .. posted[F]
         /\ Head(queue) \in Nat
         /\ Item = <<F, Head(queue)>> /\ Item \in Items
         /\ Item[1] = F /\ Item[2] = Head(queue)
         /\ Tail(queue) \in Seq(Nat) /\ Len(Tail(queue)) = Len(queue) - 1
         /\ \A k \in 1 .. Len(queue) - 1 : Tail(queue)[k] = queue[k + 1]
<1>0. AtFeed /\ queue # <<>>
  BY DEF Shape, QueueOK, AtFeed, Taking
<1>1. F \in Feeds
  BY <1>0, FeedAtHand
<1>2. queue \in Seq(Nat)
  BY DEF Shape, TypeOK
<1>3. Len(queue) \in Nat /\ Len(queue) >= 1
  BY <1>0, <1>2, EmptySeq
<1>4. Head(queue) = queue[1]
  BY <1>2
<1>5. Head(queue) \in 1 .. posted[F]
  BY <1>0, <1>3, <1>4 DEF Shape, QueueOK
<1>6. posted[F] \in Nat /\ Posts[F] \in Nat /\ posted[F] <= Posts[F]
  BY <1>1, Constants DEF Shape, TypeOK
<1>7. <<F, Head(queue)>> \in Items
  BY <1>1, <1>5, <1>6, ItemsAre
<1>8. Tail(queue) \in Seq(Nat) /\ Len(Tail(queue)) = Len(queue) - 1
  BY <1>0, <1>2, HeadTailProperties
<1>9. \A k \in 1 .. Len(queue) - 1 : Tail(queue)[k] = queue[k + 1]
  BY <1>2, <1>3
<1> QED
  BY <1>0, <1>1, <1>3, <1>4, <1>5, <1>7, <1>8, <1>9 DEF Item

\* Where the items of a page, and the ones after the checkpoint, begin.
LEMMA PageAre ==
  ASSUME Shape, NEW f \in Feeds
  PROVE  /\ posted[f] \in Nat /\ checkpoint[f] \in Nat
         /\ First(f) \in Nat \ {0} /\ After(f) \in Nat \ {0}
         /\ After(f) >= First(f) /\ After(f) > checkpoint[f]
         /\ After(f) = First(f) \/ After(f) = checkpoint[f] + 1
         /\ NewFrom(f) \in Nat \ {0}
         /\ \A k \in Nat : Greater(NewFrom(f), posted[f] - k + 1) \in Nat \ {0}
         /\ \A k \in Nat \ {0} : Lesser(posted[f], After(f) + k - 1) \in 0 .. posted[f]
<1>1. posted[f] \in Nat /\ checkpoint[f] \in Nat
  BY DEF Shape, TypeOK
<1>2. First(f) \in Nat \ {0}
  BY <1>1, Constants DEF First, Greater
<1>3. /\ After(f) \in Nat \ {0}
      /\ After(f) >= First(f) /\ After(f) > checkpoint[f]
      /\ After(f) = First(f) \/ After(f) = checkpoint[f] + 1
  BY <1>1, <1>2 DEF After, Greater
<1>4. NewFrom(f) \in Nat \ {0}
  BY <1>2, <1>3 DEF NewFrom
<1>5. \A k \in Nat : Greater(NewFrom(f), posted[f] - k + 1) \in Nat \ {0}
  BY <1>1, <1>4 DEF Greater
<1>6. \A k \in Nat \ {0} : Lesser(posted[f], After(f) + k - 1) \in 0 .. posted[f]
  BY <1>1, <1>3 DEF Lesser
<1> QED
  BY <1>1, <1>2, <1>3, <1>4, <1>5, <1>6

\* Except of ranked stories, a queue is an interval of the items that are up.
LEMMA QueueIsInterval ==
  ASSUME Shape, NEW f \in Feeds, NEW q \in Queues(f), kind # "ranked"
  PROVE  \E a \in Nat \ {0} : \E b \in 0 .. posted[f] :
            q = Numbers(a, b) /\ (kind = "new" => a = After(f))
<1> USE PageAre
<1>0. ASSUME NEW k \in Nat, q = Newest(f, k), kind # "new"
      PROVE  \E a \in Nat \ {0} : \E b \in 0 .. posted[f] :
                q = Numbers(a, b) /\ (kind = "new" => a = After(f))
  BY <1>0 DEF Newest
<1>1. CASE kind = "rss"
  <2>1. q = Numbers(NewFrom(f), posted[f]) \/ q = Newest(f, Cap)
    BY <1>1 DEF Queues, RssQueue
  <2>2. CASE q = Numbers(NewFrom(f), posted[f])
    <3>1. posted[f] \in 0 .. posted[f] /\ NewFrom(f) \in Nat \ {0}
      OBVIOUS
    <3> QED
      BY <1>1, <2>2, <3>1
  <2>3. CASE q = Newest(f, Cap)
    BY <1>0, <1>1, <2>3, Constants
  <2> QED
    BY <2>1, <2>2, <2>3
<1>2. CASE kind = "lobsters"
  <2>1. \E k \in Nat : q = Newest(f, k)
    BY <1>2, Constants DEF Queues, LobstersQueue, Lesser
  <2> QED
    BY <1>0, <1>2, <2>1
<1>3. CASE kind = "new"
  BY <1>3, Constants DEF Queues, NewQueue
<1>4. kind \in {"rss", "lobsters", "new", "ranked"}
  BY CollectorAssumption DEF Shape, TypeOK
<1> QED
  BY <1>1, <1>2, <1>3, <1>4

\* A ranked queue consists of items that are up, too.
LEMMA RankedQueueIs ==
  ASSUME Shape, NEW f \in Feeds, NEW q \in RankedQueues(f)
  PROVE  q \in Seq(Nat) /\ \A k \in 1 .. Len(q) : q[k] \in 1 .. posted[f]
<1> DEFINE candidates ==
      {n \in Visible(f) : n > checkpoint[f] \/ <<f, n>> \notin seen}
<1>1. candidates \subseteq 1 .. posted[f] /\ posted[f] \in Nat
  BY PageAre DEF Visible
<1>2. IsFiniteSet(candidates)
  <2>1. IsFiniteSet(1 .. posted[f])
    BY <1>1, FS_Interval
  <2> QED
    BY <1>1, <2>1, FS_Subset
<1>3. Cardinality(candidates) \in Nat
  BY <1>2, FS_CardinalityType
<1>4. PICK s \in SetToSeqs(candidates) : q = SubSeq(s, 1, Lesser(MaxItems, Len(s)))
  BY DEF RankedQueues
<1>5. s \in [1 .. Cardinality(candidates) -> candidates]
  BY <1>4 DEF SetToSeqs
<1> HIDE DEF candidates
<1> DEFINE T == 1 .. posted[f]
<1>6. s \in [1 .. Cardinality(candidates) -> T]
  BY <1>1, <1>5
<1> HIDE DEF T
<1>7. s \in Seq(T)
  BY <1>3, <1>6
<1>8. Lesser(MaxItems, Len(s)) \in Nat /\ Lesser(MaxItems, Len(s)) <= Len(s)
  BY <1>7, Constants DEF Lesser
<1>9. \A k \in 1 .. Lesser(MaxItems, Len(s)) : s[k] \in T
  BY <1>7, <1>8
<1>10. q \in Seq(T)
  BY <1>4, <1>8, <1>9, SubSeqProperties
<1>11. \A k \in 1 .. Len(q) : q[k] \in T
  BY <1>10
<1>12. q \in Seq(Nat)
  BY <1>1, <1>10, SeqMonotonic DEF T
<1> QED
  BY <1>11, <1>12 DEF T

\* Whatever the adapter takes is up.
LEMMA QueueIsUp ==
  ASSUME Shape, NEW f \in Feeds, NEW q \in Queues(f)
  PROVE  q \in Seq(Nat) /\ \A k \in 1 .. Len(q) : q[k] \in 1 .. posted[f]
<1>1. CASE kind = "ranked"
  BY <1>1, RankedQueueIs DEF Queues
<1>2. CASE kind # "ranked"
  <2>1. PICK a \in Nat \ {0}, b \in 0 .. posted[f] : q = Numbers(a, b)
    BY <1>2, QueueIsInterval
  <2>2. posted[f] \in Nat
    BY PageAre
  <2>3. b \in Nat
    BY <2>1, <2>2
  <2>4. q \in Seq(Nat) /\ \A k \in 1 .. Len(q) : q[k] \in a .. b
    BY <2>1, <2>3, NumbersAre
  <2>5. \A n \in a .. b : n \in 1 .. posted[f]
    BY <2>1, <2>2
  <2> QED
    BY <2>4, <2>5
<1> QED
  BY <1>1, <1>2

-----------------------------------------------------------------------------
(* The types *)

\* The types hold before the first poll.
LEMMA InitShape == Init => Shape
  BY EmptySeq, Constants
     DEF Init, Shape, TypeOK, QueueOK, AtFeed, Label

\* The cursor and the checkpoint of an item are numbers.
LEMMA ProcessedType ==
  ASSUME Shape, NEW n \in Nat
  PROVE  /\ Processed(n) \in [at : Nat, blocked : BOOLEAN]
         /\ CheckpointValue(n) \in Nat
         /\ Processed(n).blocked = cursor.blocked
         /\ kind = "new" => Processed(n).at = IF cursor.blocked THEN cursor.at ELSE n
         /\ kind \in {"rss", "lobsters"} => CheckpointValue(n) = n
         /\ kind = "new" => CheckpointValue(n) = Processed(n).at
  BY DEF Shape, TypeOK, Processed, CheckpointValue, HackerNews

\* What a queue cuts off are items.
LEMMA CutOffAreItems ==
  ASSUME Shape, NEW f \in Feeds, NEW q
  PROVE  CutOff(f, q) \subseteq Items
<1>1. posted[f] \in Nat /\ Posts[f] \in Nat /\ posted[f] <= Posts[f]
  BY Constants DEF Shape, TypeOK
<1> QED
  BY <1>1, ItemsAre DEF CutOff

\* One more of something.
LEMMA AddIs ==
  ASSUME NEW S, NEW f \in [S -> Nat], NEW i \in S
  PROVE  /\ Add(f, i) \in [S -> Nat]
         /\ \A j \in S : Add(f, i)[j] = IF j = i THEN f[j] + 1 ELSE f[j]
  BY DEF Add

\* A poll that is abandoned leaves nothing at hand.
LEMMA AbandonIs ==
  ASSUME AbandonPoll
  PROVE  /\ pc' = "idle" /\ feed' = 1 /\ last' = None
         /\ queue' = <<>> /\ queue' \in Seq(Nat)
  BY EmptySeq DEF AbandonPoll, Goto

\* A fault is counted.
LEMMA FaultIs == ASSUME Shape, Fault PROVE faults' \in Nat
  BY DEF Shape, TypeOK, Fault

\* The cursor and the last checkpoint are noted with an item.
LEMMA NoteIs ==
  ASSUME Shape, Taking, Note
  PROVE  /\ cursor' \in [at : Nat, blocked : BOOLEAN]
         /\ last' \in Feeds \X Nat
         /\ last' = <<F, CheckpointValue(Head(queue))>>
         /\ cursor' = Processed(Head(queue))
<1>1. Item[2] = Head(queue) /\ Item[2] \in Nat /\ F \in Feeds
  BY ItemAtHand, Constants DEF Shape, TypeOK
<1>2. Processed(Item[2]) \in [at : Nat, blocked : BOOLEAN]
  BY <1>1, ProcessedType
<1>3. CheckpointValue(Item[2]) \in Nat
  BY <1>1, ProcessedType
<1> QED
  BY <1>1, <1>2, <1>3 DEF Note

\* A feed grows by an item, within its bound.
LEMMA PostIs ==
  ASSUME Shape, NEW f \in Feeds, Post(f)
  PROVE  /\ posted' \in [Feeds -> Nat]
         /\ \A g \in Feeds : posted'[g] <= Posts[g] /\ posted'[g] >= posted[g]
<1>1. posted \in [Feeds -> Nat] /\ \A g \in Feeds : posted[g] <= Posts[g]
  BY DEF Shape, TypeOK
<1>2. posted' = Add(posted, f) /\ posted[f] < Posts[f]
  BY DEF Post
<1>3. posted' \in [Feeds -> Nat]
  BY <1>1, <1>2, AddIs
<1>4. \A g \in Feeds : posted'[g] = IF g = f THEN posted[g] + 1 ELSE posted[g]
  BY <1>1, <1>2 DEF Add
<1>5. ASSUME NEW g \in Feeds
      PROVE  posted'[g] <= Posts[g] /\ posted'[g] >= posted[g]
  <2>1. posted[g] \in Nat /\ Posts[g] \in Nat /\ posted[g] <= Posts[g]
    BY <1>1, Constants
  <2>2. posted'[g] = posted[g] \/ (g = f /\ posted'[g] = posted[g] + 1)
    BY <1>4
  <2> QED
    BY <1>2, <2>1, <2>2
<1> QED
  BY <1>3, <1>5

\* Every step keeps the types.
LEMMA TypeStep ==
  ASSUME Shape, [Next]_vars
  PROVE  TypeOK'
<1> USE DEF Shape, TypeOK, Goto, Label, storeVars, runVars, pollVars, historyVars
<1>1. CASE StartPoll
  BY <1>1, EmptySeq DEF StartPoll
<1>2. CASE Stop
  BY <1>2, EmptySeq DEF Stop
<1>3. CASE SkipFeed
  BY <1>3, EmptySeq DEF SkipFeed, Polling, NextFeed
<1>4. CASE FetchFeed
  <2>1. F \in Feeds
    BY <1>4, FeedAtHand DEF FetchFeed
  <2>2. PICK q \in Queues(F) : queue' = q /\ passed' = passed \cup CutOff(F, q)
    BY <1>4 DEF FetchFeed
  <2>3. q \in Seq(Nat) /\ CutOff(F, q) \subseteq Items
    BY <2>1, QueueIsUp, CutOffAreItems
  <2> QED
    BY <1>4, <2>1, <2>2, <2>3 DEF FetchFeed
<1>5. CASE FeedsDone
  <2>1. CASE AbandonPoll
    <3>1. pc' = "idle" /\ feed' = 1 /\ last' = None /\ queue' \in Seq(Nat)
      BY <1>5, <2>1, AbandonIs DEF FeedsDone
    <3> QED
      BY <1>5, <2>1, <3>1 DEF FeedsDone
  <2>2. CASE ~AbandonPoll
    BY <1>5, <2>2 DEF FeedsDone
  <2> QED
    BY <1>5, <2>1, <2>2 DEF FeedsDone
<1>6. CASE ItemsDone
  BY <1>6, EmptySeq DEF ItemsDone, NextFeed
<1>7. CASE Gate
  <2>1. Item \in Items /\ Item[2] \in Nat /\ Tail(queue) \in Seq(Nat)
    BY <1>7, ItemAtHand, Constants DEF Gate
  <2>2. Processed(Item[2]) \in [at : Nat, blocked : BOOLEAN]
    BY <1>7, <2>1, ProcessedType
  <2> QED
    BY <1>7, <2>1, <2>2 DEF Gate
<1>8. CASE Break
  BY <1>8, EmptySeq DEF Break, Taking
<1>9. CASE SkipDuplicate
  <2>1. Taking
    BY <1>9 DEF SkipDuplicate, Yielded
  <2>2. Tail(queue) \in Seq(Nat)
    BY <1>9, <2>1, ItemAtHand
  <2>3. cursor' \in [at : Nat, blocked : BOOLEAN] /\ last' \in Feeds \X Nat
    BY <1>9, <2>1, NoteIs DEF SkipDuplicate
  <2> QED
    BY <1>9, <2>1, <2>2, <2>3 DEF SkipDuplicate
<1>10. CASE Reject
  <2>1. Taking
    BY <1>10 DEF Reject, Yielded
  <2>2. Item \in Items /\ Tail(queue) \in Seq(Nat)
    BY <1>10, <2>1, ItemAtHand
  <2>3. cursor' \in [at : Nat, blocked : BOOLEAN] /\ last' \in Feeds \X Nat
    BY <1>10, <2>1, NoteIs DEF Reject
  <2> QED
    BY <1>10, <2>1, <2>2, <2>3 DEF Reject
<1>11. CASE Publish
  <2>1. Taking
    BY <1>11 DEF Publish, Yielded
  <2>2. Item \in Items
    BY <1>11, <2>1, ItemAtHand
  <2>3. cursor' \in [at : Nat, blocked : BOOLEAN] /\ last' \in Feeds \X Nat
    BY <1>11, <2>1, NoteIs DEF Publish
  <2>4. published' \in [Items -> Nat]
    BY <1>11, <2>2, AddIs DEF Publish
  <2> QED
    BY <1>11, <2>1, <2>2, <2>3, <2>4 DEF Publish
<1>12. CASE Mark
  <2>1. Item \in Items /\ Tail(queue) \in Seq(Nat)
    BY <1>12, ItemAtHand DEF Mark
  <2> QED
    BY <1>12, <2>1 DEF Mark
<1>13. CASE MarkFails
  <2>1. Item \in Items
    BY <1>13, ItemAtHand DEF MarkFails
  <2>2. excused' \in [Items -> Nat]
    BY <1>13, <2>1, AddIs DEF MarkFails
  <2>3. AbandonPoll
    BY <1>13 DEF MarkFails
  <2>4. pc' = "idle" /\ feed' = 1 /\ last' = None /\ queue' \in Seq(Nat)
    BY <1>13, <2>3, AbandonIs
  <2> QED
    BY <1>13, <2>1, <2>2, <2>3, <2>4 DEF MarkFails
<1>14. CASE EndPoll
  <2>1. checkpoint' \in [Feeds -> Nat]
    BY <1>14, Constants DEF EndPoll, SaveCheckpoint
  <2>2. seen' \subseteq Items /\ old' \subseteq Items
    BY <1>14 DEF EndPoll, Cleanup
  <2>3. excused' \in [Items -> Nat]
    BY <1>14 DEF EndPoll, Cleanup
  <2> QED
    BY <1>14, <2>1, <2>2, <2>3 DEF EndPoll
<1>15. CASE EndPollFails
  <2>1. pc' = "idle" /\ feed' = 1 /\ last' = None /\ queue' \in Seq(Nat)
    BY <1>15, AbandonIs DEF EndPollFails
  <2> QED
    BY <1>15, <2>1 DEF EndPollFails
<1>16. CASE Beat
  <2>1. pc' = "idle" /\ feed' = 1 /\ last' = None /\ queue' \in Seq(Nat)
    BY <1>16, AbandonIs DEF Beat
  <2> QED
    BY <1>16, <2>1 DEF Beat
<1>17. CASE FetchFails
  <2>1. faults' \in Nat
    BY <1>17, FaultIs DEF FetchFails
  <2>2. CASE kind = "rss"
    BY <1>17, <2>2, <2>1 DEF FetchFails, NextFeed
  <2>3. CASE kind # "rss"
    <3>1. pc' = "idle" /\ feed' = 1 /\ last' = None /\ queue' \in Seq(Nat)
      BY <1>17, <2>3, AbandonIs DEF FetchFails
    <3> QED
      BY <1>17, <2>3, <3>1, <2>1 DEF FetchFails
  <2> QED
    BY <1>17, <2>1, <2>2, <2>3 DEF FetchFails
<1>18. CASE StoryFails
  <2>1. Item \in Items /\ Tail(queue) \in Seq(Nat)
    BY <1>18, ItemAtHand DEF StoryFails
  <2>2. faults' \in Nat
    BY <1>18, FaultIs DEF StoryFails
  <2>3. cursor' \in [at : Nat, blocked : BOOLEAN]
    BY <1>18 DEF StoryFails
  <2>4. passed' \subseteq Items
    BY <1>18, <2>1 DEF StoryFails
  <2> QED
    BY <1>18, <2>1, <2>2, <2>3, <2>4 DEF StoryFails
<1>19. CASE IngestFails
  <2>1. Item \in Items
    BY <1>19, ItemAtHand DEF IngestFails, Yielded
  <2>2. Add(published, Item) \in [Items -> Nat] /\ Add(excused, Item) \in [Items -> Nat]
    BY <1>19, <2>1, AddIs
  <2>3. published' \in [Items -> Nat] /\ excused' \in [Items -> Nat]
    BY <1>19, <2>2 DEF IngestFails
  <2>4. faults' \in Nat
    BY <1>19, FaultIs DEF IngestFails
  <2>5. AbandonPoll
    BY <1>19 DEF IngestFails
  <2>6. pc' = "idle" /\ feed' = 1 /\ last' = None /\ queue' \in Seq(Nat)
    BY <1>19, <2>5, AbandonIs
  <2>7. UNCHANGED <<kind, posted, storeVars, cursor, passed>>
    BY <1>19 DEF IngestFails
  <2> QED
    BY <2>1, <2>2, <2>3, <2>4, <2>5, <2>6, <2>7
<1>20. ASSUME NEW f \in Feeds, Post(f)
      PROVE  TypeOK'
  <2>1. posted' \in [Feeds -> Nat] /\ \A g \in Feeds : posted'[g] <= Posts[g]
    BY <1>20, PostIs
  <2> QED
    BY <1>20, <2>1 DEF Post
<1>21. ASSUME NEW f \in Feeds, FallDue(f)
      PROVE  TypeOK'
  BY <1>21, EmptySeq DEF FallDue
<1>22. CASE Week
  <2>1. faults' \in Nat
    BY <1>22, FaultIs DEF Week
  <2> QED
    BY <1>22, <2>1 DEF Week
<1>23. CASE Shutdown
  <2>1. faults' \in Nat
    BY <1>23, FaultIs DEF Shutdown
  <2> QED
    BY <1>23, <2>1 DEF Shutdown
<1>24. CASE CloseStore
  BY <1>24, EmptySeq DEF CloseStore
<1>25. CASE RestartStopped
  <2>1. excused' \in [Items -> Nat]
    <3>1. CASE pc = "mark"
      BY <1>25, <3>1, ItemAtHand, AddIs DEF RestartStopped, Restart
    <3>2. CASE pc # "mark"
      BY <1>25, <3>2 DEF RestartStopped, Restart
    <3> QED
      BY <3>1, <3>2
  <2>2. faults' \in Nat
    BY <1>25, FaultIs DEF RestartStopped
  <2> QED
    BY <1>25, <2>1, <2>2, EmptySeq DEF RestartStopped, Restart
<1>26. CASE Crash
  <2>1. excused' \in [Items -> Nat]
    <3>1. CASE pc = "mark"
      BY <1>26, <3>1, ItemAtHand, AddIs DEF Crash, Restart
    <3>2. CASE pc # "mark"
      BY <1>26, <3>2 DEF Crash, Restart
    <3> QED
      BY <3>1, <3>2
  <2>2. faults' \in Nat
    BY <1>26, FaultIs DEF Crash
  <2> QED
    BY <1>26, <2>1, <2>2, EmptySeq DEF Crash, Restart
<1>27. CASE UNCHANGED vars
  BY <1>27 DEF vars
<1> QED
  BY <1>1, <1>2, <1>3, <1>4, <1>5, <1>6, <1>7, <1>8, <1>9, <1>10, <1>11, <1>12, <1>13,
     <1>14, <1>15, <1>16, <1>17, <1>18, <1>19, <1>20, <1>21, <1>22, <1>23, <1>24,
     <1>25, <1>26, <1>27 DEF Next, Loop

\* The queue stays one of items that are up, until the poll is over.
LEMMA QueueStep ==
  ASSUME Shape, [Next]_vars
  PROVE  QueueOK'
<1> USE DEF Shape, TypeOK, QueueOK, AtFeed, Goto, Label, Fault, Add, storeVars, runVars,
            pollVars, historyVars, F
<1>1. CASE StartPoll
  BY <1>1 DEF StartPoll
<1>2. CASE Stop
  BY <1>2 DEF Stop
<1>3. CASE SkipFeed
  BY <1>3 DEF SkipFeed, Polling, NextFeed
<1>4. CASE FetchFeed
  <2>1. F \in Feeds
    BY <1>4, FeedAtHand DEF FetchFeed
  <2>2. PICK q \in Queues(F) : queue' = q
    BY <1>4 DEF FetchFeed
  <2>3. q \in Seq(Nat) /\ \A k \in 1 .. Len(q) : q[k] \in 1 .. posted[F]
    BY <2>1, QueueIsUp
  <2> QED
    BY <1>4, <2>2, <2>3 DEF FetchFeed, Polling
<1>5. CASE FeedsDone
  BY <1>5 DEF FeedsDone, AbandonPoll
<1>6. CASE ItemsDone
  BY <1>6 DEF ItemsDone, NextFeed
<1>7. CASE Gate
  <2>1. /\ Tail(queue) \in Seq(Nat) /\ Len(Tail(queue)) = Len(queue) - 1
        /\ \A k \in 1 .. Len(queue) - 1 : Tail(queue)[k] = queue[k + 1]
        /\ Len(queue) \in Nat
    BY <1>7, ItemAtHand DEF Gate, Taking
  <2>2. queue' = Tail(queue) /\ UNCHANGED <<kind, feed, posted>> /\ pc' = "item" /\ AtFeed
    BY <1>7 DEF Gate, Taking
  <2> QED
    BY <2>1, <2>2
<1>8. CASE Break
  BY <1>8 DEF Break, Taking
<1>9. CASE SkipDuplicate
  <2>1. /\ Tail(queue) \in Seq(Nat) /\ Len(Tail(queue)) = Len(queue) - 1
        /\ \A k \in 1 .. Len(queue) - 1 : Tail(queue)[k] = queue[k + 1]
        /\ Len(queue) \in Nat
    BY <1>9, ItemAtHand DEF SkipDuplicate, Yielded, Taking, Note
  <2>2. queue' = Tail(queue) /\ UNCHANGED <<kind, feed, posted>> /\ pc' = "item" /\ AtFeed
    BY <1>9 DEF SkipDuplicate, Yielded, Taking, Note
  <2> QED
    BY <2>1, <2>2
<1>10. CASE Reject
  <2>1. /\ Tail(queue) \in Seq(Nat) /\ Len(Tail(queue)) = Len(queue) - 1
        /\ \A k \in 1 .. Len(queue) - 1 : Tail(queue)[k] = queue[k + 1]
        /\ Len(queue) \in Nat
    BY <1>10, ItemAtHand DEF Reject, Yielded, Taking, Note
  <2>2. queue' = Tail(queue) /\ UNCHANGED <<kind, feed, posted>> /\ pc' = "item" /\ AtFeed
    BY <1>10 DEF Reject, Yielded, Taking, Note
  <2> QED
    BY <2>1, <2>2
<1>11. CASE Publish
  BY <1>11 DEF Publish, Yielded, Taking, Note
<1>12. CASE Mark
  <2>1. /\ Tail(queue) \in Seq(Nat) /\ Len(Tail(queue)) = Len(queue) - 1
        /\ \A k \in 1 .. Len(queue) - 1 : Tail(queue)[k] = queue[k + 1]
        /\ Len(queue) \in Nat
    BY <1>12, ItemAtHand DEF Mark
  <2>2. queue' = Tail(queue) /\ UNCHANGED <<kind, feed, posted>> /\ pc' = "item" /\ AtFeed
    BY <1>12 DEF Mark
  <2> QED
    BY <2>1, <2>2
<1>13. CASE MarkFails
  BY <1>13 DEF MarkFails, AbandonPoll
<1>14. CASE EndPoll
  BY <1>14 DEF EndPoll, SaveCheckpoint, Cleanup
<1>15. CASE EndPollFails
  BY <1>15 DEF EndPollFails, AbandonPoll
<1>16. CASE Beat
  BY <1>16 DEF Beat, AbandonPoll
<1>17. CASE FetchFails
  BY <1>17 DEF FetchFails, AbandonPoll, Polling, NextFeed
<1>18. CASE StoryFails
  <2>1. /\ Tail(queue) \in Seq(Nat) /\ Len(Tail(queue)) = Len(queue) - 1
        /\ \A k \in 1 .. Len(queue) - 1 : Tail(queue)[k] = queue[k + 1]
        /\ Len(queue) \in Nat
    BY <1>18, ItemAtHand DEF StoryFails, Taking
  <2>2. queue' = Tail(queue) /\ UNCHANGED <<kind, feed, posted>> /\ pc' = "item" /\ AtFeed
    BY <1>18 DEF StoryFails, Taking
  <2> QED
    BY <2>1, <2>2
<1>19. CASE IngestFails
  BY <1>19 DEF IngestFails, AbandonPoll, Yielded, Taking, Note
<1>20. ASSUME NEW f \in Feeds, Post(f)
      PROVE  QueueOK'
  <2>1. AtFeed => FeedSeq[feed] \in Feeds
    BY FeedAtHand
  <2>2. AtFeed => /\ posted[FeedSeq[feed]] \in Nat /\ posted'[FeedSeq[feed]] \in Nat
                  /\ posted'[FeedSeq[feed]] >= posted[FeedSeq[feed]]
    BY <1>20, <2>1 DEF Post
  <2> QED
    BY <1>20, <2>2 DEF Post
<1>21. ASSUME NEW f \in Feeds, FallDue(f)
      PROVE  QueueOK'
  BY <1>21 DEF FallDue
<1>22. CASE Week
  BY <1>22 DEF Week
<1>23. CASE Shutdown
  BY <1>23 DEF Shutdown
<1>24. CASE CloseStore
  BY <1>24 DEF CloseStore
<1>25. CASE RestartStopped
  BY <1>25 DEF RestartStopped, Restart
<1>26. CASE Crash
  BY <1>26 DEF Crash, Restart
<1>27. CASE UNCHANGED vars
  BY <1>27 DEF vars
<1> QED
  BY <1>1, <1>2, <1>3, <1>4, <1>5, <1>6, <1>7, <1>8, <1>9, <1>10, <1>11, <1>12, <1>13,
     <1>14, <1>15, <1>16, <1>17, <1>18, <1>19, <1>20, <1>21, <1>22, <1>23, <1>24,
     <1>25, <1>26, <1>27 DEF Next, Loop

\* The types are inductive.
LEMMA NextShape == ASSUME Shape, [Next]_vars PROVE Shape'
  BY TypeStep, QueueStep DEF Shape

-----------------------------------------------------------------------------
(* What the steps are, of what the invariants speak of *)

Leaves == ~AtFeed' /\ last' \in {last, None}

\* Nothing but the world, the stores' fate or the time changes.
Stays ==
    UNCHANGED <<checkpoint, seen, published, excused, passed, pc, feed, queue, cursor, last>>

\* The loop leaves a feed, or is between feeds.
Quits ==
    /\ pc # "mark" /\ Leaves
    /\ UNCHANGED <<checkpoint, seen, published, excused, passed>>

Fetches ==
    /\ Polling /\ pc' = "item" /\ cursor'.at = checkpoint[F]
    /\ \E q \in Queues(F) : queue' = q /\ passed' = passed \cup CutOff(F, q)
    /\ UNCHANGED <<checkpoint, seen, published, excused, feed, last>>

\* An item is done with: it has no event, was rejected, or is a duplicate.
Drops ==
    /\ Taking /\ pc' = "item" /\ queue' = Tail(queue)
    /\ passed \subseteq passed' /\ (Item \in passed' \/ Item \in seen)
    /\ cursor' = Processed(Head(queue))
    /\ last' \in {last, <<F, CheckpointValue(Head(queue))>>}
    /\ UNCHANGED <<checkpoint, seen, published, excused, feed>>

Misses ==
    /\ Taking /\ pc' = "item" /\ queue' = Tail(queue)
    /\ kind # "rss" /\ passed \subseteq passed' /\ (kind = "lobsters" => Item \in passed')
    /\ cursor'.at = cursor.at /\ (kind = "new" => cursor'.blocked)
    /\ UNCHANGED <<checkpoint, seen, published, excused, feed, last>>

Publishes ==
    /\ Taking /\ pc' = "mark" /\ Item \notin seen
    /\ published' = Add(published, Item)
    /\ cursor' = Processed(Head(queue))
    /\ last' = <<F, CheckpointValue(Head(queue))>>
    /\ UNCHANGED <<checkpoint, seen, excused, passed, feed, queue>>

\* A publication is lost sight of before it is marked.
Forgets ==
    /\ Taking \/ pc = "mark"
    /\ Leaves
    /\ excused' = Add(excused, Item)
    /\ published' = IF pc = "mark" THEN published ELSE Add(published, Item)
    /\ UNCHANGED <<checkpoint, seen, passed>>

Marks ==
    /\ pc = "mark" /\ pc' = "item" /\ queue' = Tail(queue)
    /\ seen' = seen \cup {Item}
    /\ UNCHANGED <<checkpoint, published, excused, passed, feed, cursor, last>>

Ends ==
    /\ pc # "mark" /\ ~AtFeed' /\ SaveCheckpoint
    /\ Cleanup \/ UNCHANGED <<seen, excused>>
    /\ UNCHANGED <<published, passed, last>>

\* Every step is one of these.
LEMMA StepIs ==
  ASSUME Shape, [Next]_vars
  PROVE  /\ kind' = kind
         /\ \/ Stays \/ Quits \/ Fetches \/ Drops \/ Misses \/ Publishes \/ Forgets
            \/ Marks \/ Ends
<1> DEFINE G == /\ kind' = kind
                /\ \/ Stays \/ Quits \/ Fetches \/ Drops \/ Misses \/ Publishes
                   \/ Forgets \/ Marks \/ Ends
<1> SUFFICES G
  OBVIOUS
<1> USE DEF storeVars, runVars, pollVars, historyVars
<1>1. CASE StartPoll
  BY <1>1 DEF StartPoll, Quits, Leaves, AtFeed, Goto
<1>2. CASE Stop
  BY <1>2 DEF Stop, Quits, Leaves, AtFeed, Goto
<1>3. CASE SkipFeed
  BY <1>3 DEF SkipFeed, Quits, Leaves, AtFeed, Goto, NextFeed, Polling
<1>4. CASE FetchFeed
  BY <1>4 DEF FetchFeed, Fetches, Goto
<1>5. CASE FeedsDone
  BY <1>5 DEF FeedsDone, Quits, Leaves, AtFeed, Goto, AbandonPoll
<1>6. CASE ItemsDone
  BY <1>6 DEF ItemsDone, Quits, Leaves, AtFeed, Goto, NextFeed
<1>7. CASE Gate
  <2>1. Taking /\ Item[2] = Head(queue)
    BY <1>7, ItemAtHand DEF Gate
  <2> QED
    BY <1>7, <2>1 DEF Gate, Drops, Taking
<1>8. CASE Break
  BY <1>8 DEF Break, Quits, Leaves, AtFeed, Goto, Taking
<1>9. CASE SkipDuplicate
  <2>1. Taking /\ Item[2] = Head(queue)
    BY <1>9, ItemAtHand DEF SkipDuplicate, Yielded
  <2> QED
    BY <1>9, <2>1 DEF SkipDuplicate, Yielded, Note, Duplicate, Drops, Taking
<1>10. CASE Reject
  <2>1. Taking /\ Item[2] = Head(queue)
    BY <1>10, ItemAtHand DEF Reject, Yielded
  <2> QED
    BY <1>10, <2>1 DEF Reject, Yielded, Note, Drops, Taking
<1>11. CASE Publish
  <2>1. Taking /\ Item[2] = Head(queue)
    BY <1>11, ItemAtHand DEF Publish, Yielded
  <2> QED
    BY <1>11, <2>1 DEF Publish, Yielded, Note, Duplicate, Goto, Publishes
<1>12. CASE Mark
  BY <1>12 DEF Mark, Marks, Goto
<1>13. CASE MarkFails
  BY <1>13 DEF MarkFails, AbandonPoll, Forgets, Leaves, AtFeed, Goto
<1>14. CASE EndPoll
  BY <1>14 DEF EndPoll, Ends, AtFeed, Goto
<1>15. CASE EndPollFails
  BY <1>15 DEF EndPollFails, Quits, Leaves, AtFeed, Goto, AbandonPoll
<1>16. CASE Beat
  BY <1>16 DEF Beat, Quits, Leaves, AtFeed, Goto, AbandonPoll
<1>17. CASE FetchFails
  BY <1>17 DEF FetchFails, Quits, Leaves, AtFeed, Goto, NextFeed, Polling, AbandonPoll
<1>18. CASE StoryFails
  <2>1. Taking /\ Item[2] = Head(queue)
    BY <1>18, ItemAtHand DEF StoryFails
  <2> QED
    BY <1>18, <2>1 DEF StoryFails, Shape, TypeOK, Misses, Taking
<1>19. CASE IngestFails
  BY <1>19 DEF IngestFails, Yielded, Taking, AbandonPoll, Forgets, Quits, Leaves,
     AtFeed, Goto
<1>20. ASSUME NEW f \in Feeds, Post(f)
      PROVE  G
  BY <1>20 DEF Post, Stays
<1>21. ASSUME NEW f \in Feeds, FallDue(f)
      PROVE  G
  BY <1>21 DEF FallDue, Stays
<1>22. CASE Week
  BY <1>22 DEF Week, Stays
<1>23. CASE Shutdown
  BY <1>23 DEF Shutdown, Stays
<1>24. CASE CloseStore
  BY <1>24 DEF CloseStore, Stays
<1>25. CASE RestartStopped
  BY <1>25 DEF RestartStopped, Restart, Forgets, Quits, Leaves, AtFeed
<1>26. CASE Crash
  BY <1>26 DEF Crash, Restart, Forgets, Quits, Leaves, AtFeed
<1>27. CASE UNCHANGED vars
  BY <1>27 DEF vars, Stays
<1> HIDE DEF G
<1> QED
  BY <1>1, <1>2, <1>3, <1>4, <1>5, <1>6, <1>7, <1>8, <1>9, <1>10, <1>11, <1>12, <1>13,
     <1>14, <1>15, <1>16, <1>17, <1>18, <1>19, <1>20, <1>21, <1>22, <1>23, <1>24,
     <1>25, <1>26, <1>27 DEF Next, Loop

-----------------------------------------------------------------------------
(* Publications and their records *)

\* A publication is on record unless there is an excuse.
LEMMA RecordsStep ==
  ASSUME Shape, [Next]_vars, PublicationsRecorded
  PROVE  PublicationsRecorded'
<1>0. /\ published \in [Items -> Nat] /\ excused \in [Items -> Nat]
      /\ published' \in [Items -> Nat] /\ excused' \in [Items -> Nat]
  BY NextShape DEF Shape, TypeOK
<1> SUFFICES ASSUME NEW i \in Items
             PROVE  published'[i] <= excused'[i] + IF Recorded(i)' THEN 1 ELSE 0
  BY DEF PublicationsRecorded
<1>a. /\ published[i] \in Nat /\ excused[i] \in Nat
      /\ published[i] <= excused[i] + IF Recorded(i) THEN 1 ELSE 0
  BY <1>0 DEF PublicationsRecorded
<1>1. CASE Stays
  BY <1>1, <1>a DEF Stays, Recorded, Item, F
<1>2. CASE Quits \/ Fetches \/ Drops \/ Misses
  <2>1. pc # "mark" /\ UNCHANGED <<seen, published, excused>>
    BY <1>2 DEF Quits, Fetches, Drops, Misses, Taking, Polling
  <2> QED
    BY <2>1, <1>a DEF Recorded
<1>3. CASE Publishes
  <2>1. Item \in Items /\ Item' = Item
    BY <1>3, ItemAtHand DEF Publishes, Item, F
  <2>2. published'[i] = IF i = Item THEN published[i] + 1 ELSE published[i]
    BY <1>0, <1>3, <2>1, AddIs DEF Publishes
  <2>3. CASE i = Item
    <3>1. ~Recorded(i) /\ Recorded(i)'
      BY <1>3, <2>1, <2>3 DEF Publishes, Recorded, Taking
    <3> QED
      BY <1>a, <1>3, <2>2, <2>3, <3>1 DEF Publishes
  <2>4. CASE i # Item
    <3>1. Recorded(i) => Recorded(i)'
      BY <1>3, <2>4 DEF Publishes, Recorded
    <3> QED
      BY <1>a, <1>3, <2>2, <2>4, <3>1 DEF Publishes
  <2> QED
    BY <2>3, <2>4
<1>4. CASE Forgets
  <2>1. Item \in Items
    BY <1>4, ItemAtHand DEF Forgets
  <2>2. /\ excused'[i] = IF i = Item THEN excused[i] + 1 ELSE excused[i]
        /\ pc = "mark" => published'[i] = published[i]
    BY <1>0, <1>4, <2>1, AddIs DEF Forgets
  <2>3. pc # "mark" => published'[i] = IF i = Item THEN published[i] + 1 ELSE published[i]
    BY <1>0, <1>4, <2>1, AddIs DEF Forgets
  <2>4. seen' = seen
    BY <1>4 DEF Forgets
  <2>5. CASE i = Item
    BY <1>a, <2>2, <2>3, <2>4, <2>5 DEF Recorded
  <2>6. CASE i # Item
    BY <1>a, <2>2, <2>3, <2>4, <2>6 DEF Recorded
  <2> QED
    BY <2>5, <2>6
<1>5. CASE Marks
  <2>1. Recorded(i) => Recorded(i)'
    BY <1>5 DEF Marks, Recorded
  <2> QED
    BY <1>a, <1>5, <2>1 DEF Marks
<1>6. CASE Ends
  <2>1. pc # "mark" /\ published' = published
    BY <1>6 DEF Ends
  <2>2. CASE UNCHANGED <<seen, excused>>
    BY <1>a, <2>1, <2>2 DEF Recorded
  <2>3. CASE Cleanup
    <3>1. excused'[i] = excused[i] + IF i \in old THEN 1 ELSE 0
      BY <2>3 DEF Cleanup
    <3>2. Recorded(i) => Recorded(i)' \/ i \in old
      BY <2>1, <2>3 DEF Cleanup, Recorded
    <3> QED
      BY <1>a, <2>1, <3>1, <3>2
  <2> QED
    BY <1>6, <2>2, <2>3 DEF Ends
<1> QED
  BY <1>1, <1>2, <1>3, <1>4, <1>5, <1>6, StepIs

\* Nothing published is taken back, and nothing passed over comes back.
Grows ==
    /\ \A i \in Items : published[i] > 0 => published'[i] > 0
    /\ passed \subseteq passed'

\* No step takes a publication or a passed item back.
LEMMA StepGrows == ASSUME Shape, [Next]_vars PROVE Grows
<1>1. published \in [Items -> Nat]
  BY DEF Shape, TypeOK
<1>2. CASE Publishes \/ Forgets
  <2>1. Item \in Items
    BY <1>2, ItemAtHand DEF Publishes, Forgets
  <2>2. \A i \in Items : Add(published, Item)[i] = published[i] \/
                         Add(published, Item)[i] = published[i] + 1
    BY <1>1, <2>1, AddIs
  <2>3. published' = published \/ published' = Add(published, Item)
    BY <1>2 DEF Publishes, Forgets
  <2>4. \A i \in Items : published[i] \in Nat
    BY <1>1
  <2>5. \A i \in Items : published[i] > 0 => published'[i] > 0
    BY <2>2, <2>3, <2>4
  <2> QED
    BY <1>2, <2>5 DEF Publishes, Forgets, Grows
<1>3. CASE Stays \/ Quits \/ Fetches \/ Drops \/ Misses \/ Marks \/ Ends
  BY <1>3 DEF Stays, Quits, Fetches, Drops, Misses, Marks, Ends, Grows
<1> QED
  BY <1>2, <1>3, StepIs

\* What is seen, or being marked, was published.
LEMMA SeenStep ==
  ASSUME Shape, [Next]_vars, RecordedWasPublished
  PROVE  RecordedWasPublished'
<1>0. seen \subseteq Items /\ published \in [Items -> Nat]
  BY DEF Shape, TypeOK
<1>1. CASE Stays
  BY <1>1 DEF Stays, RecordedWasPublished, SeenWasPublished, Item, F
<1>2. CASE Quits \/ Fetches \/ Drops \/ Misses
  BY <1>2 DEF Quits, Fetches, Drops, Misses, Leaves, AtFeed, RecordedWasPublished,
              SeenWasPublished
<1>3. CASE Publishes
  <2>1. Item \in Items /\ Item' = Item
    BY <1>3, ItemAtHand DEF Publishes, Item, F
  <2>2. published'[Item] > 0
    <3>1. published'[Item] = published[Item] + 1 /\ published[Item] \in Nat
      BY <1>0, <1>3, <2>1, AddIs DEF Publishes
    <3> QED
      BY <3>1
  <2>3. \A i \in seen : published'[i] > 0
    BY <1>0, StepGrows DEF Grows, RecordedWasPublished, SeenWasPublished
  <2> QED
    BY <1>3, <2>1, <2>2, <2>3 DEF Publishes, RecordedWasPublished, SeenWasPublished
<1>4. CASE Forgets
  <2>1. \A i \in seen : published'[i] > 0
    BY <1>0, StepGrows DEF Grows, RecordedWasPublished, SeenWasPublished
  <2> QED
    BY <1>4, <2>1
       DEF Forgets, Leaves, AtFeed, RecordedWasPublished, SeenWasPublished
<1>5. CASE Marks
  BY <1>5 DEF Marks, RecordedWasPublished, SeenWasPublished
<1>6. CASE Ends
  BY <1>6 DEF Ends, Cleanup, AtFeed, RecordedWasPublished, SeenWasPublished
<1> QED
  BY <1>1, <1>2, <1>3, <1>4, <1>5, <1>6, StepIs

-----------------------------------------------------------------------------
(* Checkpoints *)

\* What is behind stays behind.
LEMMA HandledStays ==
  ASSUME Shape, Grows, NEW f \in Feeds, NEW n \in Nat, Handled(f, n)
  PROVE  Handled(f, n)'
  BY DEF Grows, Handled

\* A checkpoint that is behind what was handled stays behind it.
LEMMA BehindStays ==
  ASSUME Shape, Grows, NEW f \in Feeds, NEW n \in Nat, Behind(f, n)
  PROVE  Behind(f, n)'
  BY HandledStays DEF Behind

\* A queue that was just fetched is complete.
LEMMA FetchComplete ==
  ASSUME Shape, Grows, NEW f \in Feeds, Behind(f, checkpoint[f]), kind # "ranked",
         NEW q \in Queues(f), passed' = passed \cup CutOff(f, q),
         NEW k \in 1 .. Len(q), NEW m \in 1 .. q[k] - 1
  PROVE  Handled(f, m)' \/ \E j \in 1 .. k - 1 : q[j] = m
<1>1. posted[f] \in Nat /\ checkpoint[f] \in Nat
  BY PageAre
<1>2. PICK a \in Nat \ {0}, b \in 0 .. posted[f] :
         q = Numbers(a, b) /\ (kind = "new" => a = After(f))
  BY QueueIsInterval
<1>3. b \in Nat /\ b <= posted[f]
  BY <1>1, <1>2
<1>4. /\ q \in Seq(Nat) /\ Len(q) \in Nat
      /\ \A j \in 1 .. Len(q) : q[j] = a + j - 1 /\ q[j] \in a .. b
  <2>1. /\ Numbers(a, b) \in Seq(Nat)
        /\ \A j \in 1 .. Len(Numbers(a, b)) : /\ Numbers(a, b)[j] = a + j - 1
                                              /\ Numbers(a, b)[j] \in a .. b
    BY <1>2, <1>3, NumbersAre
  <2> QED
    BY <1>2, <2>1
<1>5. m \in Nat /\ m >= 1 /\ m < a + k - 1 /\ m < b /\ k <= Len(q)
  <2>1. q[k] = a + k - 1 /\ q[k] \in a .. b
    BY <1>4
  <2>2. k \in Nat /\ k <= Len(q)
    BY <1>4
  <2>3. a \in Nat /\ b \in Nat
    BY <1>2, <1>3
  <2> QED
    BY <2>1, <2>2, <2>3
<1>6. CASE m >= a
  <2>1. m - a + 1 \in 1 .. k - 1 /\ m - a + 1 \in 1 .. Len(q)
    BY <1>4, <1>5, <1>6
  <2>2. q[m - a + 1] = a + (m - a + 1) - 1
    BY <1>4, <2>1
  <2>3. q[m - a + 1] = m
    BY <1>2, <1>5, <2>2
  <2> QED
    BY <2>1, <2>3
<1>7. CASE m < a /\ m <= checkpoint[f]
  <2>1. Handled(f, m)
    BY <1>1, <1>5, <1>7 DEF Behind
  <2> QED
    BY <1>5, <2>1, HandledStays
<1>8. CASE m < a /\ m > checkpoint[f]
  <2>1. m \in 1 .. posted[f]
    BY <1>1, <1>3, <1>5
  <2>2. m \notin ToSet(q)
    <3>1. \A j \in 1 .. Len(q) : q[j] >= a
      BY <1>3, <1>4
    <3>2. \A j \in 1 .. Len(q) : q[j] # m
      BY <1>4, <1>5, <1>8, <3>1
    <3> QED
      BY <1>4, <3>2 DEF ToSet
  <2>3. m \notin Visible(f) \/ kind \in {"rss", "lobsters"}
    <3>1. kind \in {"rss", "lobsters", "new", "ranked"}
      BY CollectorAssumption DEF Shape, TypeOK
    <3>2. CASE kind = "new"
      <4>1. a = First(f) /\ First(f) \in Nat
        <5>1. /\ a = After(f) /\ First(f) \in Nat
              /\ After(f) = First(f) \/ After(f) = checkpoint[f] + 1
          BY <1>2, <3>2, PageAre
        <5> QED
          BY <1>1, <1>5, <1>8, <5>1
      <4> QED
        BY <1>5, <1>8, <4>1 DEF Visible
    <3> QED
      BY <3>1, <3>2
  <2>4. <<f, m>> \in CutOff(f, q)
    BY <1>8, <2>1, <2>2, <2>3 DEF CutOff
  <2> QED
    BY <2>4 DEF Handled
<1> QED
  BY <1>1, <1>2, <1>5, <1>6, <1>7, <1>8

\* All items before the one at hand are handled.
LEMMA HeadBehind ==
  ASSUME Shape, Taking \/ pc = "mark", Ordered, QueueComplete
  PROVE  \A m \in 1 .. Head(queue) - 1 : Handled(F, m)
<1> SUFFICES ASSUME NEW m \in 1 .. Head(queue) - 1
             PROVE  Handled(F, m)
  OBVIOUS
<1>1. AtFeed /\ Len(queue) \in Nat /\ Len(queue) >= 1 /\ Head(queue) = queue[1]
  BY ItemAtHand
<1>2. 1 \in 1 .. Len(queue) /\ m \in 1 .. queue[1] - 1
  BY <1>1
<1>3. Handled(F, m) \/ \E j \in 1 .. 1 - 1 : queue[j] = m
  BY <1>1, <1>2 DEF QueueComplete
<1> QED
  BY <1>3

\* Handling the item at hand moves what is behind up to it.
LEMMA HeadHandled ==
  ASSUME Shape, Taking \/ pc = "mark", Ordered, QueueComplete, Grows,
         NEW f, f = F, NEW n, n = Head(queue), Handled(f, n)'
  PROVE  Behind(f, n)'
<1>1. F \in Feeds /\ n \in Nat /\ n >= 1
  BY ItemAtHand DEF Shape, TypeOK
<1>2. ASSUME NEW m \in 1 .. n
      PROVE  Handled(f, m)'
  <2>1. CASE m = n
    BY <2>1
  <2>2. CASE m # n
    <3>1. m \in 1 .. Head(queue) - 1 /\ m \in Nat
      BY <1>1, <2>2
    <3>2. Handled(f, m)
      BY <3>1, HeadBehind
    <3> QED
      BY <1>1, <3>1, <3>2, HandledStays
  <2> QED
    BY <2>1, <2>2
<1> QED
  BY <1>2 DEF Behind

\* A queue without its first item is complete once that is handled.
LEMMA TailComplete ==
  ASSUME Shape, Taking \/ pc = "mark", Ordered, QueueComplete, Grows,
         NEW f, f = F, NEW n, n = Head(queue), Handled(f, n)',
         NEW k \in 1 .. Len(Tail(queue)), NEW m \in 1 .. Tail(queue)[k] - 1
  PROVE  Handled(f, m)' \/ \E j \in 1 .. k - 1 : Tail(queue)[j] = m
<1>1. /\ AtFeed /\ F \in Feeds /\ Len(queue) \in Nat /\ Len(queue) >= 1
      /\ Head(queue) = queue[1] /\ Len(Tail(queue)) = Len(queue) - 1
      /\ \A j \in 1 .. Len(queue) - 1 : Tail(queue)[j] = queue[j + 1]
  BY ItemAtHand
<1>2. k + 1 \in 1 .. Len(queue) /\ m \in 1 .. queue[k + 1] - 1 /\ m \in Nat
  BY <1>1
<1>3. Handled(F, m) \/ \E j \in 1 .. (k + 1) - 1 : queue[j] = m
  BY <1>1, <1>2 DEF QueueComplete
<1>4. CASE Handled(F, m)
  BY <1>1, <1>2, <1>4, HandledStays
<1>5. CASE \E j \in 1 .. (k + 1) - 1 : queue[j] = m
  <2>1. PICK j \in 1 .. k : queue[j] = m
    BY <1>5
  <2>2. CASE j = 1
    BY <1>1, <2>1, <2>2
  <2>3. CASE j # 1
    <3>1. j - 1 \in 1 .. k - 1 /\ j - 1 \in 1 .. Len(queue) - 1
      BY <1>1, <2>1, <2>3
    <3>2. Tail(queue)[j - 1] = queue[(j - 1) + 1] /\ (j - 1) + 1 = j
      BY <1>1, <3>1
    <3> QED
      BY <2>1, <3>1, <3>2
  <2> QED
    BY <2>2, <2>3
<1> QED
  BY <1>3, <1>4, <1>5

\* The parts of the invariant that speak of checkpoints, and what they need.
CheckpointInv == RecordedWasPublished /\ QueueComplete /\ ProgressBehind

\* The item at hand is handled when it is dropped, published or marked.
LEMMA ItemHandled ==
  ASSUME Shape, CheckpointInv, Grows, Drops \/ Publishes \/ Marks,
         NEW f, f = F, NEW n, n = Head(queue)
  PROVE  Handled(f, n)'
<1>1. Item = <<f, n>> /\ Item \in Items
  BY ItemAtHand DEF Drops, Publishes, Marks
<1>2. published'[Item] > 0 \/ Item \in passed'
  <2>1. CASE Drops
    BY <2>1, <1>1 DEF Drops, Grows, CheckpointInv, RecordedWasPublished, SeenWasPublished
  <2>2. CASE Publishes
    <3>1. published \in [Items -> Nat]
      BY DEF Shape, TypeOK
    <3>2. published'[Item] = published[Item] + 1 /\ published[Item] \in Nat
      BY <1>1, <2>2, <3>1, AddIs DEF Publishes
    <3> QED
      BY <3>2
  <2>3. CASE Marks
    BY <2>3, <1>1 DEF Marks, Grows, CheckpointInv, RecordedWasPublished
  <2> QED
    BY <2>1, <2>2, <2>3
<1> QED
  BY <1>1, <1>2 DEF Handled

\* A story that failed leaves a gap, unless it is left out for good.
LEMMA MissHandled ==
  ASSUME Shape, Misses, Ordered', kind' = kind, NEW f, f = F, NEW n, n = Head(queue)
  PROVE  Handled(f, n)'
<1>1. kind = "lobsters"
  BY DEF Misses, Ordered
<1> QED
  BY <1>1, ItemAtHand DEF Misses, Handled

\* The queue stays complete.
LEMMA CompleteStep ==
  ASSUME Shape, [Next]_vars, CheckpointInv
  PROVE  QueueComplete'
<1>1. Grows /\ kind' = kind /\ QueueComplete
  BY StepGrows, StepIs DEF CheckpointInv
<1>2. CASE Stays \/ Publishes
  <2>1. SUFFICES ASSUME AtFeed, Ordered, UNCHANGED <<queue, F>>,
                        NEW k \in 1 .. Len(queue), NEW m \in 1 .. queue[k] - 1
                 PROVE  Handled(F, m)' \/ \E j \in 1 .. k - 1 : queue[j] = m
    <3>1. cursor'.blocked = cursor.blocked
      <4>1. CASE Stays
        BY <4>1 DEF Stays
      <4>2. CASE Publishes
        <5>1. Head(queue) \in Nat
          BY <4>2, ItemAtHand DEF Publishes, Shape, TypeOK
        <5> QED
          BY <4>2, <5>1, ProcessedType DEF Publishes
      <4> QED
        BY <1>2, <4>1, <4>2
    <3>2. UNCHANGED <<queue, F>> /\ (AtFeed' => AtFeed) /\ (Ordered' => Ordered)
      BY <1>1, <1>2, <3>1 DEF Stays, Publishes, F, AtFeed, Taking, Ordered
    <3> QED
      BY <3>2 DEF QueueComplete
  <2>2. F \in Feeds /\ m \in Nat
    BY <2>1, FeedAtHand
  <2>3. Handled(F, m) \/ \E j \in 1 .. k - 1 : queue[j] = m
    BY <1>1, <2>1 DEF QueueComplete
  <2>4. ASSUME NEW f, f = F, Handled(f, m)
        PROVE  Handled(f, m)'
    BY <1>1, <2>2, <2>4, HandledStays
  <2> QED
    BY <2>1, <2>3, <2>4 DEF Handled
<1>3. CASE Quits \/ Forgets \/ Ends
  BY <1>3 DEF Quits, Forgets, Ends, Leaves, QueueComplete
<1>4. CASE Fetches
  <2>1. PICK q \in Queues(F) : queue' = q /\ passed' = passed \cup CutOff(F, q)
    BY <1>4 DEF Fetches
  <2>2. F \in Feeds /\ F' = F
    BY <1>4, FeedAtHand DEF Fetches, F
  <2>3. SUFFICES ASSUME Ordered', NEW k \in 1 .. Len(q), NEW m \in 1 .. q[k] - 1
                 PROVE  Handled(F, m)' \/ \E j \in 1 .. k - 1 : q[j] = m
    BY <2>1 DEF QueueComplete
  <2>4. kind # "ranked"
    BY <1>1, <2>3 DEF Ordered
  <2>5. Behind(F, checkpoint[F])
    BY <2>2, <2>4 DEF CheckpointInv, ProgressBehind
  <2>6. ASSUME NEW f, f = F
        PROVE  Handled(f, m)' \/ \E j \in 1 .. k - 1 : q[j] = m
    BY <1>1, <2>1, <2>2, <2>3, <2>4, <2>5, <2>6, FetchComplete
  <2> QED
    BY <2>2, <2>6 DEF Handled
<1>5. CASE Drops \/ Marks \/ Misses
  <2>1. /\ queue' = Tail(queue) /\ F' = F
        /\ Taking \/ pc = "mark"
    BY <1>5 DEF Drops, Marks, Misses, F
  <2>2. SUFFICES ASSUME Ordered',
                        NEW k \in 1 .. Len(Tail(queue)), NEW m \in 1 .. Tail(queue)[k] - 1
                 PROVE  Handled(F, m)' \/ \E j \in 1 .. k - 1 : Tail(queue)[j] = m
    BY <2>1 DEF QueueComplete
  <2>3. Ordered
    <3>1. CASE Drops
      <4>1. Head(queue) \in Nat
        BY <2>1, ItemAtHand
      <4>2. cursor'.blocked = cursor.blocked
        BY <3>1, <4>1, ProcessedType DEF Drops
      <4> QED
        BY <1>1, <2>2, <4>2 DEF Ordered
    <3>2. CASE Marks
      BY <1>1, <2>2, <3>2 DEF Marks, Ordered
    <3>3. CASE Misses
      BY <1>1, <2>2, <3>3 DEF Misses, Ordered
    <3> QED
      BY <1>5, <3>1, <3>2, <3>3
  <2>4. ASSUME NEW f, f = F, NEW n, n = Head(queue)
        PROVE  Handled(f, n)'
    BY <1>1, <1>5, <2>2, <2>4, ItemHandled, MissHandled
  <2>5. ASSUME NEW f, f = F
        PROVE  Handled(f, m)' \/ \E j \in 1 .. k - 1 : Tail(queue)[j] = m
    BY <1>1, <2>1, <2>2, <2>3, <2>4, <2>5, TailComplete
  <2> QED
    BY <2>1, <2>5 DEF Handled
<1> QED
  BY <1>2, <1>3, <1>4, <1>5, StepIs

\* What is noted with an item is behind everything published.
LEMMA NotedBehind ==
  ASSUME Shape, CheckpointInv, Grows, Drops \/ Publishes, kind # "ranked",
         NEW f, f = F, NEW n, n = CheckpointValue(Head(queue))
  PROVE  Behind(f, n)'
<1>1. AtFeed /\ F \in Feeds /\ Head(queue) \in Nat /\ (Taking \/ pc = "mark")
  BY ItemAtHand DEF Drops, Publishes, Shape, TypeOK
<1>2. kind \in {"rss", "lobsters", "new"}
  BY CollectorAssumption DEF Shape, TypeOK
<1>3. CASE Ordered
  <2>1. n = Head(queue)
    BY <1>1, <1>3, ProcessedType DEF Ordered
  <2>2. Handled(f, n)'
    BY <2>1, ItemHandled
  <2> QED
    BY <1>1, <1>3, <2>1, <2>2, HeadHandled DEF CheckpointInv
<1>4. CASE ~Ordered
  <2>1. kind = "new" /\ cursor.blocked
    BY <1>2, <1>4 DEF Ordered
  <2>2. n = cursor.at /\ n \in Nat
    BY <1>1, <2>1, ProcessedType DEF Shape, TypeOK
  <2>3. Behind(f, n)
    BY <1>1, <2>1, <2>2 DEF CheckpointInv, ProgressBehind
  <2> QED
    BY <1>1, <2>2, <2>3, BehindStays
<1> QED
  BY <1>3, <1>4

\* What may become the checkpoint stays behind.
LEMMA ProgressStep ==
  ASSUME Shape, [Next]_vars, CheckpointInv
  PROVE  ProgressBehind'
<1>0. /\ Grows /\ kind' = kind
      /\ checkpoint \in [Feeds -> Nat] /\ cursor.at \in Nat
      /\ last \in {None} \cup (Feeds \X Nat)
  BY StepGrows, StepIs DEF Shape, TypeOK
<1>1. SUFFICES ASSUME kind # "ranked"
               PROVE  /\ \A f \in Feeds : Behind(f, checkpoint[f])'
                      /\ last' # None => Behind(last[1], last[2])'
                      /\ AtFeed' /\ kind = "new" => Behind(F, cursor.at)'
  BY <1>0 DEF ProgressBehind
<1>2. /\ \A f \in Feeds : Behind(f, checkpoint[f])
      /\ last # None => Behind(last[1], last[2])
      /\ AtFeed /\ kind = "new" => Behind(F, cursor.at)
  BY <1>1 DEF CheckpointInv, ProgressBehind
<1>3. \A f \in Feeds : Behind(f, checkpoint[f])'
  <2>1. SUFFICES ASSUME NEW f \in Feeds, NEW n, n = checkpoint'[f]
                 PROVE  Behind(f, n)'
    OBVIOUS
  <2>2. n = checkpoint[f] \/ (last # None /\ f = last[1] /\ n = last[2])
    <3>1. CASE Ends
      BY <1>0, <2>1, <3>1 DEF Ends, SaveCheckpoint
    <3>2. CASE ~Ends
      <4>1. checkpoint' = checkpoint
        BY <3>2, StepIs
           DEF Stays, Quits, Fetches, Drops, Misses, Publishes, Forgets, Marks
      <4> QED
        BY <2>1, <4>1
    <3> QED
      BY <3>1, <3>2
  <2>3. n \in Nat /\ Behind(f, n)
    BY <1>0, <1>2, <2>2
  <2> QED
    BY <1>0, <2>3, BehindStays
<1>4. last' # None => Behind(last[1], last[2])'
  <2>1. CASE last' = last
    <3>1. SUFFICES ASSUME NEW f \in Feeds, NEW n \in Nat, last = <<f, n>>, Behind(f, n)
                   PROVE  Behind(f, n)'
      BY <1>0, <1>2, <2>1 DEF Behind
    <3> QED
      BY <1>0, <3>1, BehindStays
  <2>2. CASE last' # last /\ last' # None
    <3>1. Drops \/ Publishes
      BY <2>2, StepIs DEF Stays, Quits, Fetches, Misses, Forgets, Marks, Ends, Leaves
    <3>2. last' = <<F, CheckpointValue(Head(queue))>>
      BY <2>2, <3>1 DEF Drops, Publishes
    <3>3. SUFFICES ASSUME NEW f, f = F, NEW n, n = CheckpointValue(Head(queue))
                   PROVE  Behind(f, n)'
      BY <3>2 DEF Behind
    <3> QED
      BY <1>0, <1>1, <3>1, <3>3, NotedBehind
  <2> QED
    BY <2>1, <2>2
<1>5. ASSUME AtFeed', kind = "new"
      PROVE  Behind(F, cursor.at)'
  <2>1. F' = F
    BY <1>5, StepIs DEF Stays, Quits, Fetches, Drops, Misses, Publishes, Forgets, Marks,
                        Ends, Leaves, F
  <2>2. SUFFICES ASSUME NEW f, f = F, NEW n, n = cursor'.at
                 PROVE  Behind(f, n)'
    BY <2>1 DEF Behind
  <2>3. CASE Drops \/ Publishes
    <3>1. Head(queue) \in Nat
      BY <2>3, ItemAtHand DEF Drops, Publishes, Shape, TypeOK
    <3>2. n = CheckpointValue(Head(queue))
      BY <1>5, <2>2, <2>3, <3>1, ProcessedType DEF Drops, Publishes
    <3> QED
      BY <1>0, <1>1, <2>2, <2>3, <3>2, NotedBehind
  <2>4. CASE Fetches
    <3>1. F \in Feeds
      BY <2>4, FeedAtHand DEF Fetches
    <3>2. n = checkpoint[f] /\ f \in Feeds /\ n \in Nat
      BY <1>0, <2>2, <2>4, <3>1 DEF Fetches
    <3> QED
      BY <1>0, <1>2, <3>2, BehindStays
  <2>5. CASE Stays \/ Misses \/ Marks
    <3>1. AtFeed /\ cursor'.at = cursor.at
      BY <1>5, <2>5 DEF Stays, Misses, Marks, AtFeed, Taking
    <3>2. f \in Feeds /\ n \in Nat /\ Behind(f, n)
      BY <1>0, <1>2, <1>5, <2>2, <3>1, FeedAtHand
    <3> QED
      BY <1>0, <3>2, BehindStays
  <2> QED
    BY <1>5, <2>3, <2>4, <2>5, StepIs DEF Quits, Forgets, Ends, Leaves
<1> QED
  BY <1>3, <1>4, <1>5

-----------------------------------------------------------------------------
(* Theorems *)

Inv == Shape /\ PublicationsRecorded /\ CheckpointInv

\* The invariant holds before the first poll, and every step keeps it.
LEMMA InitInv == Init => Inv
<1> SUFFICES ASSUME Init
             PROVE  Inv
  OBVIOUS
<1>1. Shape
  BY InitShape
<1>2. ~AtFeed /\ pc # "mark" /\ seen = {} /\ last = None
  BY DEF Init, AtFeed
<1>3. PublicationsRecorded
  BY DEF Init, PublicationsRecorded
<1>4. \A f \in Feeds : Behind(f, checkpoint[f])
  BY DEF Init, Behind
<1> QED
  BY <1>1, <1>2, <1>3, <1>4
     DEF Inv, CheckpointInv, RecordedWasPublished, SeenWasPublished, QueueComplete,
         ProgressBehind

\* Every step keeps the inductive invariant.
LEMMA NextInv == Inv /\ [Next]_vars => Inv'
<1> SUFFICES ASSUME Inv, [Next]_vars
             PROVE  Inv'
  OBVIOUS
<1>1. Shape /\ PublicationsRecorded /\ CheckpointInv /\ RecordedWasPublished
  BY DEF Inv, CheckpointInv
<1>2. Shape' /\ PublicationsRecorded' /\ RecordedWasPublished'
  BY <1>1, NextShape, RecordsStep, SeenStep
<1>3. QueueComplete' /\ ProgressBehind'
  BY <1>1, CompleteStep, ProgressStep
<1> QED
  BY <1>2, <1>3 DEF Inv, CheckpointInv

\* The inductive invariant: checkpoints and cursors stay behind what is
\* published or passed over, queues miss nothing, and every publication is on
\* record or excused.
THEOREM InvHolds == Spec => []Inv
  BY InitInv, NextInv, PTL DEF Spec

\* The types of the collector's state.
THEOREM TypeCorrect == Spec => []TypeOK
<1>1. Inv => TypeOK
  BY DEF Inv, Shape
<1> QED
  BY <1>1, InvHolds, PTL

\* markSeen comes after the acknowledged publication: an id in seen_events has
\* its event in events.raw, so that a skipped duplicate loses none.
THEOREM SeenIsPublished == Spec => []SeenWasPublished
<1>1. Inv => SeenWasPublished
  BY DEF Inv, CheckpointInv, RecordedWasPublished
<1> QED
  BY <1>1, InvHolds, PTL

\* An event is published once more only when its mark or Kafka's answer was lost
\* or its id was cleaned up.
THEOREM PublishesOncePerReason == Spec => []PublishedOncePerReason
<1>1. Inv => PublishedOncePerReason
  <2> SUFFICES ASSUME Inv, NEW i \in Items
               PROVE  published[i] <= 1 + excused[i]
    BY DEF PublishedOncePerReason
  <2>1. published[i] \in Nat /\ excused[i] \in Nat
    BY DEF Inv, Shape, TypeOK
  <2>2. published[i] <= excused[i] + IF Recorded(i) THEN 1 ELSE 0
    BY DEF Inv, PublicationsRecorded
  <2> QED
    BY <2>1, <2>2
<1> QED
  BY <1>1, InvHolds, PTL

\* Of RSS, lobste.rs and Hacker News by date, no saved checkpoint passes an item
\* that is still to be published, whatever failed or crashed in between.
THEOREM CheckpointStaysBehind == Spec => []CheckpointBehindPublished
<1>1. Inv => CheckpointBehindPublished
  <2> SUFFICES ASSUME Inv, kind # "ranked", NEW i \in Items, i[2] <= checkpoint[i[1]]
               PROVE  published[i] > 0 \/ i \in passed
    BY DEF CheckpointBehindPublished
  <2>1. i = <<i[1], i[2]>> /\ i[1] \in Feeds /\ i[2] \in 1 .. Posts[i[1]]
    BY ItemsAre
  <2>2. checkpoint[i[1]] \in Nat /\ Posts[i[1]] \in Nat
    BY <2>1, Constants DEF Inv, Shape, TypeOK
  <2>3. i[2] \in 1 .. checkpoint[i[1]]
    BY <2>1, <2>2
  <2>4. Handled(i[1], i[2])
    BY <2>1, <2>3 DEF Inv, CheckpointInv, ProgressBehind, Behind
  <2> QED
    BY <2>1, <2>4 DEF Handled
<1> QED
  BY <1>1, InvHolds, PTL

=============================================================================
