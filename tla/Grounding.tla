----------------------------- MODULE Grounding -----------------------------
(***************************************************************************)
(* What the highlights of a brief may cite.  A request has a sequence of   *)
(* topics, [topic, evidence]; a highlight is [topic, cites] with the urls  *)
(* it cites; texts are left out.  A highlight keeps the citations that are *)
(* evidence of one topic of the request, and takes that topic's name.      *)
(***************************************************************************)
EXTENDS Integers, Sequences, FiniteSets, FiniteSetsExt, SequencesExt

CONSTANTS
    Key,          \* Key[t]: name t trimmed, in lower case (normalizeTopicKey)
    Group,        \* Group[k]: what precedes the first dot of key k, Absent if nothing does
    Disallowed,   \* host names that are local or private
    Absent        \* no url, no topic, no group

-----------------------------------------------------------------------------
(* Urls: [scheme, host, port, path, slashes, hash]; slashes counts the       *)
(* slashes at the end, at least one when there is no path.                   *)

DefaultPorts == {<<"http", 80>>, <<"https", 443>>}

IsUrl(u) ==
    /\ u = [scheme |-> u.scheme, host |-> u.host, port |-> u.port,
            path |-> u.path, slashes |-> u.slashes, hash |-> u.hash]
    /\ u.slashes \in Nat

Public(u) == u.scheme \in {"http", "https"} /\ u.host \notin Disallowed
FewestSlashes(u) == IF u.path = Absent THEN 1 ELSE 0

\* canonicalizeBriefEvidenceUrl, applied n > 0 times: only public web addresses,
\* without fragment and default port, and each time with one slash less at the
\* end of a path.
CanonicalTimes(u, n) ==
    IF ~Public(u) THEN Absent
    ELSE [u EXCEPT !.hash = Absent,
                   !.port = IF <<u.scheme, @>> \in DefaultPorts THEN Absent ELSE @,
                   !.slashes = IF @ - n > FewestSlashes(u) THEN @ - n ELSE FewestSlashes(u)]
CanonicalUrl(u) == CanonicalTimes(u, 1)

\* dedupeCanonicalUrls
CanonicalUrls(urls) == {CanonicalUrl(u) : u \in urls \ {Absent}} \ {Absent}

-----------------------------------------------------------------------------
(* Scopes *)

UrlsOf(topic) == CanonicalUrls({e.url : e \in topic.evidence})
EvidenceUrls(request) == UNION {UrlsOf(request[i]) : i \in DOMAIN request}

\* buildTopicEvidenceScopes: of topics with one key the last one counts, at the
\* place of the first one.
ScopeKeys(request) == {Key[request[i].topic] : i \in DOMAIN request}
Indices(request, k) == {i \in DOMAIN request : Key[request[i].topic] = k}
Scope(request, k) == request[Max(Indices(request, k))]
Overlap(request, k, cites) == Cardinality(UrlsOf(Scope(request, k)) \cap cites)

\* resolveGroundedTopicScope: the topic the highlight names if it has one of
\* its citations, else the one that has most, if equal one of the same group,
\* and then the first one.
ScopeFor(request, name, cites) ==
    LET named == Key[name]
        SameGroup(k) == Group[named] # Absent /\ Group[k] = Group[named]
        candidates == {k \in ScopeKeys(request) : Overlap(request, k, cites) > 0}
        Better(k, l) ==
            LET m == Overlap(request, k, cites)
                n == Overlap(request, l, cites)
            IN  \/ m > n
                \/ m = n /\ SameGroup(k) /\ ~SameGroup(l)
                \/ /\ m = n /\ (SameGroup(k) <=> SameGroup(l))
                   /\ Min(Indices(request, k)) < Min(Indices(request, l))
    IN  CASE candidates = {} -> Absent
          [] named \in candidates -> named
          [] OTHER -> CHOOSE k \in candidates : \A l \in candidates \ {k} : Better(k, l)

-----------------------------------------------------------------------------
(* enforceGroundedHighlights; a highlight without citations is discarded. *)

\* Variant of Ground: the topic's own evidence is not asked for.
GroundGlobal(request, h) ==
    LET cites == CanonicalUrls(h.cites) \cap EvidenceUrls(request)
        k     == ScopeFor(request, h.topic, cites)
    IN  IF k = Absent THEN [topic |-> h.topic, cites |-> {}]
        ELSE [topic |-> Scope(request, k).topic, cites |-> cites]

Ground(request, h) ==
    LET cites == CanonicalUrls(h.cites) \cap EvidenceUrls(request)
        k     == ScopeFor(request, h.topic, cites)
    IN  IF k = Absent THEN [topic |-> h.topic, cites |-> {}]
        ELSE [topic |-> Scope(request, k).topic,
              cites |-> cites \cap UrlsOf(Scope(request, k))]

\* mergeHighlightsByTopic: the citations of a topic are canonicalized again with
\* each highlight that joins it, those of the first one already when it is taken.
Merge(highlights) ==
    LET kept == {i \in DOMAIN highlights : highlights[i].cites # {}}
        Of(t) == {i \in kept : highlights[i].topic = t}
        Times(t, i) == Cardinality({j \in Of(t) : j >= i})
        Cited(t, i) == {CanonicalTimes(u, Times(t, i)) : u \in highlights[i].cites}
    IN  {[topic |-> t, cites |-> UNION {Cited(t, i) : i \in Of(t)}] :
            t \in {highlights[i].topic : i \in kept}}

\* The empty set stands for the error of a brief without grounded highlights.
EnforceHighlights(request, highlights) ==
    Merge([i \in DOMAIN highlights |-> Ground(request, highlights[i])])

\* normalizeLlmHighlight
Normalized(h) == [topic |-> h.topic, cites |-> CanonicalUrls(h.cites)]

\* enforceGroundedNotes
NotesGrounded(request, urls) == CanonicalUrls(urls) \subseteq EvidenceUrls(request)

=============================================================================
