--------------------------- MODULE MCOperations ---------------------------
(* An instance of Operations for TLC. *)
EXTENDS Operations

CONSTANTS r, other

\* Calls of "brief trigger": the default one, explicit ones, and deviations.
Query == [mode |-> "query", id |-> r, at |-> "now", type |-> "daily", windows |-> {2},
          lookback |-> 7, maxLookback |-> 30, globs |-> None, feeds |-> None,
          zone |-> None, start |-> None, end |-> None, budget |-> 2, maxTopics |-> 5,
          maxEvidence |-> 3, maxTokens |-> 1200, maxEvents |-> None,
          strategy |-> "diversity", provider |-> None, volume |-> 100,
          source |-> "rss", timeout |-> 600, dryRun |-> FALSE, noWait |-> FALSE]
Explicit == [Query EXCEPT !.mode = "explicit", !.windows = {1, 3}]
SomeCalls ==
    {Query, Explicit, [Query EXCEPT !.mode = "half"],
     [Query EXCEPT !.at = "bad"], [Query EXCEPT !.type = "bad"],
     [Query EXCEPT !.windows = {1, 3}], [Explicit EXCEPT !.windows = {}],
     [Query EXCEPT !.windows = {0, 2}],
     [Query EXCEPT !.lookback = 31], [Query EXCEPT !.lookback = 31, !.maxLookback = 40],
     [Query EXCEPT !.lookback = 0], [Query EXCEPT !.globs = "bad"],
     [Query EXCEPT !.globs = "ai.*", !.feeds = "unreadable"],
     [Query EXCEPT !.globs = "ai.*", !.feeds = "aws.*"], [Query EXCEPT !.feeds = "empty"],
     [Query EXCEPT !.globs = "long"], [Query EXCEPT !.feeds = "long", !.noWait = TRUE],
     [Explicit EXCEPT !.zone = "bad"], [Query EXCEPT !.start = 1, !.end = 2, !.zone = "UTC"],
     [Query EXCEPT !.start = 2, !.end = 1], [Explicit EXCEPT !.start = 2],
     [Query EXCEPT !.budget = 0], [Query EXCEPT !.budget = 0 - 1],
     [Query EXCEPT !.maxTopics = 0], [Query EXCEPT !.maxEvidence = 1],
     [Explicit EXCEPT !.maxEvidence = 0], [Query EXCEPT !.maxTokens = 0],
     [Query EXCEPT !.maxEvents = 0], [Query EXCEPT !.maxEvents = 2, !.noWait = TRUE],
     [Query EXCEPT !.strategy = "bad"], [Query EXCEPT !.provider = "bad"],
     [Explicit EXCEPT !.provider = "http"], [Explicit EXCEPT !.volume = 0 - 1],
     [Explicit EXCEPT !.source = "bad"], [Query EXCEPT !.timeout = 0],
     [Query EXCEPT !.dryRun = TRUE], [Explicit EXCEPT !.dryRun = TRUE, !.noWait = TRUE]}

Brief(id)   == [id |-> id, kind |-> "brief"]
Failure(id) == [id |-> id, kind |-> "failure"]
SomeResults == {<<>>, <<Brief(other)>>, <<Failure(r)>>}

\* Calls of "events enrich" and "topics retag".
Enriching == [command |-> "enrich", steps |-> <<"retag", "quality">>, missingOnly |-> FALSE,
              source |-> None, limit |-> None, size |-> 2, dryRun |-> FALSE]
Retagging == [Enriching EXCEPT !.command = "retag", !.steps = <<"retag">>]
SomeRuns ==
    {Enriching, [Enriching EXCEPT !.size = 1, !.missingOnly = TRUE],
     [Enriching EXCEPT !.steps = <<"quality">>, !.limit = 3],
     [Enriching EXCEPT !.source = "rss", !.dryRun = TRUE],
     Retagging, [Retagging EXCEPT !.missingOnly = TRUE, !.size = 1],
     [Retagging EXCEPT !.limit = 1, !.source = "rss"]}

\* Events.
Post(title, text, kind) ==
    [title |-> title, text |-> text, kind |-> kind, url |-> "clean", site |-> "web",
     lang |-> "none", meta |-> "none", published |-> "fresh", source |-> "rss",
     tags |-> <<>>, topics |-> <<>>, quality |-> {}]
Placeholder == Post({"kafka", "the"}, {}, "comments")
Columnist   == Post({"peter kafka"}, {"peter kafka", "llm"}, "prose")
Tagged      == [Post({"llm"}, {"otel", "traces", "aws"}, "prose") EXCEPT !.tags = <<"old">>,
                   !.lang = "de", !.source = "news", !.published = "stale"]
Streams     == [Post({"redpanda"}, {"aws", "llm", "muted"}, "prose") EXCEPT !.url = "noisy",
                   !.meta = "fr"]
Link        == [Post({"opentelemetry"}, {}, "url") EXCEPT !.url = "bad"]
Broken      == [Post({}, {}, "blank") EXCEPT !.url = "blank", !.published = "none"]

\* Rows the persister wrote, and one from before it prepared them.
StoredRows == <<Prepare(Placeholder), Prepare(Columnist), Streams, Prepare(Tagged),
                Prepare(Broken)>>
ArrivingRows == [id \in {6} |-> [event |-> Link, declared |-> {"ai.llm", "misc", "none"}]]

Topic(k, p, ts) == [key |-> k, priority |-> p, terms |-> ts]
Topics == <<Topic("ai.llm", 50, {"llm"}), Topic("aws.general", 50, {"aws"}),
            Topic("data.kafka", 80, {"kafka", "peter kafka", "apache kafka", "redpanda"}),
            Topic("misc", 99, {"muted"}),
            Topic("observability.opentelemetry", 90, {"otel", "opentelemetry"})>>
Rules == <<Topic("ai.llm", 0, {"llm"}), Topic("aws.general", 0, {"aws"}),
           Topic("data.kafka", 0, {"kafka", "peter kafka", "apache kafka", "redpanda"})>>

Lag(n, old) == [lag |-> n, stale |-> old]
LagTables == {<<>>, [k \in {<<"persister", 0>>, <<"persister", 1>>} |-> Lag(60, k[2] = 1)]}

OwnTables == {"raw_events", "brief_results", "consumer_lag"}
ForTrigger ==
    {[db |-> [raw_events |-> <<>>, brief_results |-> briefs, consumer_lag |-> lag],
      expired |-> [raw_events |-> {}, brief_results |-> DOMAIN briefs,
                   consumer_lag |-> DOMAIN lag]] :
        briefs \in {<<>>, [k \in {r} |-> Failure(r)]}, lag \in LagTables}
ForEnrichment ==
    {[db |-> [raw_events |-> StoredRows, brief_results |-> <<>>, consumer_lag |-> <<>>],
      expired |-> [raw_events |-> old, brief_results |-> {}, consumer_lag |-> {}]] :
        old \in {{}, {2}, {1, 4}}}

Policy(t, d, on) == [table |-> t, days |-> d, enabled |-> on]
Policies == <<Policy("brief_results", 30, TRUE), Policy("consumer_lag", 7, TRUE),
              Policy("metrics", 1, TRUE), Policy("raw_events", 90, TRUE),
              Policy("trend_snapshots", 0, TRUE)>>

AllTables == ForTrigger \cup ForEnrichment

\* What earlier calls left matters to calls that get as far as the service.
Rich == {Query, Explicit, [Query EXCEPT !.lookback = 31, !.maxLookback = 40]}
Plain == results = <<>> /\ db["brief_results"] = <<>> /\ db["consumer_lag"] = <<>>
MCInit ==
    /\ Init
    /\ flags = None <=> Rows # <<>>
    /\ flags \in Rich \/ Plain
MCSpec == MCInit /\ [][Next]_vars /\ Fairness

=============================================================================
