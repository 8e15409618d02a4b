----------------------------- MODULE QueryMode -----------------------------
(***************************************************************************)
(* A request without topics asks for what the trends of the last days were *)
(* about: topics are ranked by the stored snapshots, capped by their top   *)
(* level groups, and given evidence from the stored events.  Times are     *)
(* hours.  Snapshots map times to [topic -> score].  Events are records    *)
(* [id, source, url, published, fetched, topics, named, body, engagement,  *)
(* score, summary]; named and body tell where the terms of a topic occur   *)
(* in the texts, score and summary are what the rules of the internal      *)
(* highlights give.                                                        *)
(***************************************************************************)
EXTENDS Grounding

CONSTANTS
    DefaultLookback, MaxLookback,   \* BRIEF_DEFAULT_LOOKBACK_DAYS, ..MAX..
    MaxQueryEvents,                 \* BRIEF_MAX_QUERY_EVENTS_PER_TOPIC
    Unit,                           \* a multiple of 1 + the age of a snapshot
    Scale,                          \* a multiple of the sum of any weights of these
    Rank,                           \* Rank[x]: place of a topic or group by name
    Termless,                       \* topics without a term of their own
    Curated, Discussion             \* sources

DefaultMaxTopics == 10
Unset == 0

-----------------------------------------------------------------------------
(* resolveQueryModeParameters *)

Lookback(request) ==
    IF request.lookback = Unset THEN DefaultLookback ELSE request.lookback
MaxTopicsOf(request) ==
    IF request.maxTopics = Unset THEN DefaultMaxTopics ELSE request.maxTopics

\* Variant of MaxEventsPerTopic: the cap of the budget is a default only.
MaxEventsPerTopicUncapped(request) ==
    LET asked == IF request.maxEvents # Unset THEN request.maxEvents
                 ELSE IF request.maxEvidence # Unset THEN request.maxEvidence
                 ELSE MaxQueryEvents
    IN  Min({asked, MaxQueryEvents})

MaxEventsPerTopic(request) ==
    LET caps  == {request.maxEvidence} \ {Unset}
        asked == IF request.maxEvents # Unset THEN {request.maxEvents} ELSE {}
    IN  Min(asked \cup caps \cup {MaxQueryEvents})

\* Globs were checked when the request was parsed.
ParametersValid(request) == Lookback(request) <= MaxLookback

InWindow(request, time) ==
    time <= request.at /\ time >= request.at - 24 * Lookback(request)

-----------------------------------------------------------------------------
(* rankTopicsFromSnapshots *)

Weight(request, time) == Unit \div (1 + request.at - time)

Rows(request, snapshots) == {time \in DOMAIN snapshots : InWindow(request, time)}
RowsOf(request, snapshots, t) ==
    {time \in Rows(request, snapshots) : t \in DOMAIN snapshots[time]}

RankedTopics(request, snapshots) ==
    {t \in request.globs : RowsOf(request, snapshots, t) # {}}

\* Scores are weighted averages, in parts of Scale.
Weights(request, snapshots, t) ==
    [x \in RowsOf(request, snapshots, t) |-> Weight(request, x)]
Score(request, snapshots, t) ==
    LET weights == Weights(request, snapshots, t)
    IN  (Scale \div SumFunction(weights)) *
            SumFunction([x \in DOMAIN weights |-> snapshots[x][t] * weights[x]])
Latest(request, snapshots, t) == Max(RowsOf(request, snapshots, t))

\* Higher score first, then the latest seen, then by name.
Ahead(x, scoreX, latestX, y, scoreY, latestY) ==
    \/ scoreX > scoreY
    \/ scoreX = scoreY /\ latestX > latestY
    \/ scoreX = scoreY /\ latestX = latestY /\ Rank[x] < Rank[y]

TopicAhead(request, snapshots, t, u) ==
    Ahead(t, Score(request, snapshots, t), Latest(request, snapshots, t),
          u, Score(request, snapshots, u), Latest(request, snapshots, u))

\* The first k of S by an order, and all of S in that order.
Preceding(S, x, Before(_, _)) == {y \in S \ {x} : Before(y, x)}
First(S, k, Before(_, _)) == {x \in S : Cardinality(Preceding(S, x, Before)) < k}
InOrder(S, Before(_, _)) ==
    [i \in 1 .. Cardinality(S) |->
        CHOOSE x \in S : Cardinality(Preceding(S, x, Before)) = i - 1]

\* selectTopLevelTopicGroups: a group scores the sum of its topics.
TopLevel(t) == Group[Key[t]]
Members(request, snapshots, g) == {t \in RankedTopics(request, snapshots) : TopLevel(t) = g}
GroupScore(request, snapshots, g) ==
    SumFunction([t \in Members(request, snapshots, g) |-> Score(request, snapshots, t)])
GroupLatest(request, snapshots, g) ==
    Max({Latest(request, snapshots, t) : t \in Members(request, snapshots, g)})
GroupAhead(request, snapshots, f, g) ==
    Ahead(f, GroupScore(request, snapshots, f), GroupLatest(request, snapshots, f),
          g, GroupScore(request, snapshots, g), GroupLatest(request, snapshots, g))
SelectedGroups(request, snapshots) ==
    First({TopLevel(t) : t \in RankedTopics(request, snapshots)} \ {Absent},
          MaxTopicsOf(request),
          LAMBDA f, g : GroupAhead(request, snapshots, f, g))

\* loadRankedTopics: what is left is in the order of its rank.
SelectedTopicsUncapped(request, snapshots) ==
    InOrder(RankedTopics(request, snapshots),
            LAMBDA t, u : TopicAhead(request, snapshots, t, u))
SelectedTopics(request, snapshots) ==
    InOrder({t \in RankedTopics(request, snapshots) :
                TopLevel(t) \in SelectedGroups(request, snapshots)},
            LAMBDA t, u : TopicAhead(request, snapshots, t, u))

-----------------------------------------------------------------------------
(* hydrateTopics *)

\* The order of the query; equal times are in any order, here by id.
Newer(e, f) ==
    \/ e.published > f.published
    \/ e.published = f.published /\ e.fetched > f.fetched
    \/ e.published = f.published /\ e.fetched = f.fetched /\ e.id < f.id

\* loadRawEvents: of the events of a source with one url the newest counts,
\* whatever its topics.
Loaded(request, events, topics) ==
    LET fetched == {e \in events :
                       /\ e.topics \cap topics # {}
                       /\ e.published # Absent /\ e.url # Absent
                       /\ InWindow(request, e.published)}
        Hides(f, e) == /\ f.source = e.source /\ Newer(f, e)
                       /\ CanonicalUrl(e.url) # Absent
                       /\ CanonicalUrl(f.url) = CanonicalUrl(e.url)
    IN  {e \in fetched : \A f \in fetched \ {e} : ~Hides(f, e)}

\* isEventRelevantToTopic
Relevant(e, t) == t \in Termless \/ t \in e.named \/ e.body[t] >= 2

\* selectEvidence
MostRecent(S, k) == First(S, k, Newer)
Bucket(e) == IF e.source \in Curated THEN 1 ELSE IF e.source \in Discussion THEN 2 ELSE 3

\* sortByEngagementThenRecency; equals stay in the order they had.
Engaging(e, f) ==
    \/ e.engagement > f.engagement
    \/ e.engagement = f.engagement /\ e.published > f.published
    \/ e.engagement = f.engagement /\ e.published = f.published /\ Newer(e, f)
EngagingByBucket(e, f) ==
    \/ e.engagement > f.engagement
    \/ e.engagement = f.engagement /\ e.published > f.published
    \/ /\ e.engagement = f.engagement /\ e.published = f.published
       /\ \/ Bucket(e) < Bucket(f)
          \/ Bucket(e) = Bucket(f) /\ Newer(e, f)

Diverse(S, k) ==
    LET Newest(b) == MostRecent({e \in S : Bucket(e) = b}, 1)
        seeds == IF k = 1 /\ Newest(1) # {} THEN Newest(1) ELSE Newest(1) \cup Newest(2)
    IN  seeds \cup First(S \ seeds, k - Cardinality(seeds), EngagingByBucket)

SelectEvidence(S, strategy, k) ==
    CASE strategy = "recency"    -> MostRecent(S, k)
      [] strategy = "engagement" -> First(S, k, Engaging)
      [] strategy = "diversity"  -> Diverse(S, k)

\* buildBriefEvidenceRecord
Evidence(e) == [e EXCEPT !.url = IF @ = Absent THEN Absent ELSE CanonicalUrl(@)]

TopicOf(request, t, events) ==
    [topic    |-> t,
     evidence |-> {Evidence(e) : e \in SelectEvidence(events, request.strategy,
                                                      MaxEventsPerTopic(request))}]

\* Variant of Hydrated: the events of a topic need not be about it.
HydratedIrrelevant(request, events, topics) ==
    LET loaded == Loaded(request, events, ToSet(topics))
    IN  [i \in DOMAIN topics |->
            TopicOf(request, topics[i], {e \in loaded : topics[i] \in e.topics})]

Hydrated(request, events, topics) ==
    LET loaded == Loaded(request, events, ToSet(topics))
        About(t) == {e \in loaded : t \in e.topics /\ Relevant(e, t)}
    IN  [i \in DOMAIN topics |-> TopicOf(request, topics[i], About(topics[i]))]

\* summarizeCoverageWarnings: what the request was asked for and does not hold.
CapWarning(request, snapshots) ==
    IF Len(SelectedTopics(request, snapshots)) < Cardinality(RankedTopics(request, snapshots))
    THEN {"cap"} ELSE {}
RelevanceWarning(request, events, topics) ==
    IF \E e \in Loaded(request, events, ToSet(topics)) :
          \E t \in ToSet(topics) \cap e.topics : ~Relevant(e, t)
    THEN {"relevance"} ELSE {}
EvidenceWarnings(request, events, topics) ==
    LET hydrated == Hydrated(request, events, topics)
    IN  RelevanceWarning(request, events, topics) \cup
            IF \E i \in DOMAIN hydrated : hydrated[i].evidence = {} THEN {"evidence"} ELSE {}

\* Topics without evidence are left out of the resolved request.
TopicsWithEvidence(request, events, topics) ==
    LET hydrated == Hydrated(request, events, topics)
        kept     == InOrder({i \in DOMAIN hydrated : hydrated[i].evidence # {}},
                            LAMBDA i, j : i < j)
    IN  [n \in DOMAIN kept |-> hydrated[kept[n]]]

=============================================================================
