-------------------------- MODULE TopicExtraction --------------------------
(***************************************************************************)
(* How the topics of an event are found in its texts: by the matchers of   *)
(* the allowlist, with two topics whose words mean other things as well,   *)
(* and, for an event the allowlist leaves without topics, by a short list  *)
(* of rules.  A title or text is the set of the terms that occur in it,    *)
(* each once; a matcher, keyword or regular expression, is the set of the  *)
(* terms it matches.                                                       *)
(***************************************************************************)
EXTENDS Naturals, Sequences, FiniteSetsExt, SequencesExt

CONSTANTS
    Allowlist,       \* sequence of [key, priority, terms], in order of keys
    Muted,           \* suppression.muted_topics
    MaxTopics,       \* defaults.max_topics_per_event
    InferenceRules,  \* sequence of [key, terms]
    MaxInferred      \* MAX_INFERRED_TOPICS

ASSUME LimitsPositive == MaxTopics \in Nat \ {0} /\ MaxInferred \in Nat \ {0}

\* Both words of "apache kafka" and "peter kafka" count as a mention.
KafkaTerms == {"kafka", "apache kafka", "peter kafka"}
Mentions(content) ==
    Cardinality(content.title \cap KafkaTerms) + Cardinality(content.text \cap KafkaTerms)
Words(content) == content.title \cup content.text
Technical(content) ==
    Words(content) \cap {"streaming", "apache kafka", "redpanda"} # {}

\* The rules in order, the first that decides wins.
KafkaRelevant(content) ==
    LET has(term) == term \in Words(content)
    IN  \/ has("redpanda") \/ has("apache kafka")
        \/ /\ Mentions(content) > 0
           /\ \/ Technical(content)
              \/ /\ ~has("peter kafka") /\ ~has("kafkaesque")
                 /\ content.site # "techmeme"
                 /\ Mentions(content) >= 2

OpenTelemetryRelevant(content) ==
    \/ "opentelemetry" \in Words(content)
    \/ {"otel", "traces"} \subseteq Words(content)

Relevant(key, content) ==
    CASE key = "data.kafka" -> KafkaRelevant(content)
      [] key = "observability.opentelemetry" -> OpenTelemetryRelevant(content)
      [] OTHER -> TRUE

Matched(content) ==
    {k \in DOMAIN Allowlist :
        /\ Allowlist[k].key \notin Muted
        /\ Allowlist[k].terms \cap Words(content) # {}
        /\ Relevant(Allowlist[k].key, content)}

\* By priority, then by key.
Precedes(j, k) ==
    \/ Allowlist[j].priority > Allowlist[k].priority
    \/ Allowlist[j].priority = Allowlist[k].priority /\ j < k

FirstOf(sequence, n) == SubSeq(sequence, 1, Min({n, Len(sequence)}))

ExtractTopics(content) ==
    LET matched == Matched(content)
        rank(k) == Cardinality({j \in matched : Precedes(j, k)}) + 1
        topics == [n \in 1..Cardinality(matched) |->
                      Allowlist[CHOOSE k \in matched : rank(k) = n].key]
    IN  FirstOf(topics, MaxTopics)

\* Topics a feed declares are added to those found, if the allowlist has them
\* and does not mute them, and all of them ordered and cut off again.
MergeDeclared(found, declared) ==
    LET keys == ToSet(found) \cup (declared \ Muted)
        ours == {k \in DOMAIN Allowlist : Allowlist[k].key \in keys}
        rank(k) == Cardinality({j \in ours : Precedes(j, k)}) + 1
        merged == [n \in 1..Cardinality(ours) |->
                      Allowlist[CHOOSE k \in ours : rank(k) = n].key]
    IN  IF keys = ToSet(found) THEN found ELSE FirstOf(merged, MaxTopics)

\* No suppression and no relevance filter here: "Peter Kafka" is data.kafka.
InferTopics(content) ==
    LET hits(rule) == rule.terms \cap Words(content) # {}
        rules == FirstOf(SelectSeq(InferenceRules, hits), MaxInferred)
    IN  [n \in DOMAIN rules |-> rules[n].key]

=============================================================================
