-------------------------- MODULE BriefGeneration --------------------------
(***************************************************************************)
(* How one summary request becomes a brief: its topics are taken as they   *)
(* are or found in the database while others write to it, a provider is    *)
(* asked (rules of the service, an HTTP endpoint, or the Codex CLI with    *)
(* its prompt and output files), and what it answers is held to the        *)
(* evidence.  The result is what BriefOrchestrator stores and publishes.   *)
(* Reply[a] is [highlights, notes]; notes are the urls in the notes, or in *)
(* the texts they are made of.  Output is an answer, or "empty",           *)
(* "garbage" (no JSON), "other" (JSON without title and highlights, as the *)
(* complaint about the prompt file), "invalid" (refused by the schema).    *)
(***************************************************************************)
EXTENDS QueryMode

CONSTANTS
    Requests,     \* [topics, query, provider, at, lookback, globs, maxTopics,
                  \*  maxEvents, maxEvidence, strategy]
    Snapshots,    \* what the table of trend snapshots may hold
    InitialEvents, \* raw events at first
    Arriving,     \* raw events the persister may add
    Cutoffs,      \* bound on the runs of the retention job: their cutoffs
    Answers,      \* answers of a provider
    Reply,        \* Reply[a]: what answer a says
    MaxFailures   \* bound on failed calls

Unread == {"empty", "garbage"}
Output == Answers \cup Unread \cup {"other", "invalid"}
NoResult == [kind |-> "none", code |-> "", highlights |-> {}, notes |-> {}, warnings |-> {}]

\* Rows have an id of their own, and Postgres orders them by numbers.
EventsTyped ==
    LET known == InitialEvents \cup Arriving
    IN  /\ IsFiniteSet(known) /\ Arriving \cap InitialEvents = {}
        /\ \A e \in known : /\ {e.id, e.fetched, e.engagement} \subseteq Int
                            /\ e.published \in Int \cup {Absent}
                            /\ e.url = Absent \/ IsUrl(e.url)
                            /\ {"source", "url", "published", "topics", "named", "body"}
                                  \subseteq DOMAIN e
        /\ \A e, f \in known : e.id = f.id => e = f

\* A request with topics brings finitely many pieces of evidence for each; the
\* topics a glob may match are those of the instance, in the order of their names.
RequestsTyped ==
    \A r \in Requests :
        /\ r.topics \in Seq(ToSet(r.topics))
        /\ \A i \in DOMAIN r.topics :
              /\ IsFiniteSet(r.topics[i].evidence)
              /\ \A e \in r.topics[i].evidence : e.url = Absent \/ IsUrl(e.url)
        /\ r.at \in Int
        /\ {r.lookback, r.maxTopics, r.maxEvents, r.maxEvidence} \subseteq Nat
        /\ r.strategy \in {"recency", "engagement", "diversity"}
        /\ IsFiniteSet(r.globs)
        /\ \A t, u \in r.globs :
              /\ Rank[t] \in Int
              /\ Rank[t] = Rank[u] => t = u
              /\ TopLevel(t) # Absent => Rank[TopLevel(t)] \in Int
              /\ (/\ Absent \notin {TopLevel(t), TopLevel(u)}
                  /\ Rank[TopLevel(t)] = Rank[TopLevel(u)]) => TopLevel(t) = TopLevel(u)

\* Weights and scores are exact.
SnapshotsTyped ==
    \A s \in Snapshots :
        /\ IsFiniteSet(DOMAIN s) /\ DOMAIN s \subseteq Nat
        /\ \A time \in DOMAIN s : \A t \in DOMAIN s[time] : s[time][t] \in Int
        /\ \A r \in Requests :
              /\ \A time \in Rows(r, s) : Unit % (1 + r.at - time) = 0
              /\ \A t \in RankedTopics(r, s) : Scale % SumFunction(Weights(r, s, t)) = 0

ASSUME BriefGenerationAssumption ==
    /\ EventsTyped /\ RequestsTyped /\ SnapshotsTyped
    /\ {DefaultLookback, MaxLookback} \subseteq Nat
    /\ MaxQueryEvents \in Nat \ {0} /\ Unit \in Nat \ {0} /\ Scale \in Nat \ {0}
    /\ \A a \in Answers : Reply[a].highlights \in Seq(ToSet(Reply[a].highlights))
    /\ MaxFailures \in Nat

VARIABLES
    request,      \* the request
    snapshots,    \* table brief_trend_snapshots, window of 60 minutes
    events,       \* table raw_events
    phase,        \* what the service is about to do
    selected,     \* topics of the rank, not yet given evidence
    topics,       \* topics of the resolved request
    warnings,     \* coverageWarnings
    dir,          \* temporary directory: "none", "made", "removed"
    calls,        \* calls of the CLI
    file,         \* last-message.txt, "missing" at first
    answer,       \* Output, or the error: "failed", "artifact"
    result,       \* what is handed on
    failures      \* calls that failed

dbVars  == <<snapshots, events>>
cliVars == <<dir, calls, file>>
resVars == <<selected, topics, warnings>>
generationVars == <<request, dbVars, phase, resVars, cliVars, answer, result, failures>>

InitGeneration ==
    /\ request \in Requests
    /\ snapshots \in Snapshots
    /\ events = InitialEvents
    /\ phase = "resolve"
    /\ selected = <<>> /\ topics = <<>> /\ warnings = {}
    /\ dir = "none" /\ calls = 0 /\ file = "missing"
    /\ answer = "empty"
    /\ result = NoResult
    /\ failures = {}

FailureOf(name) == /\ Cardinality(failures) < MaxFailures
                   /\ failures' = failures \cup {name}

Failure(code) == [NoResult EXCEPT !.kind = "failure", !.code = code]
Finish(r) == result' = r /\ phase' = "done"

-----------------------------------------------------------------------------
(* The database, while the request is resolved *)

QueryMode == request.topics = <<>>
Resolving == QueryMode /\ phase \in {"resolve", "hydrate"}

Persist(e) ==
    /\ Resolving
    /\ e \in Arriving \ events
    /\ events' = events \cup {e}
    /\ UNCHANGED <<request, snapshots, phase, resVars, cliVars, answer, result, failures>>

Retain(cutoff) ==
    /\ Resolving
    /\ \E e \in events : e.fetched < cutoff
    /\ events' = {e \in events : e.fetched >= cutoff}
    /\ UNCHANGED <<request, snapshots, phase, resVars, cliVars, answer, result, failures>>

-----------------------------------------------------------------------------
(* PrismaQueryModeRequestResolverFacade *)

PassThrough ==
    /\ phase = "resolve" /\ ~QueryMode
    /\ topics' = request.topics
    /\ phase' = "generate"
    /\ UNCHANGED <<request, dbVars, selected, warnings, cliVars, answer, result, failures>>

RankTopics ==
    /\ phase = "resolve" /\ QueryMode
    /\ IF ~ParametersValid(request)
       THEN Finish(Failure("invalid_request")) /\ UNCHANGED <<selected, warnings>>
       ELSE LET ranked == SelectedTopics(request, snapshots)
            IN  IF ranked = <<>>
                THEN Finish(Failure("no_coverage")) /\ UNCHANGED <<selected, warnings>>
                ELSE /\ selected' = ranked /\ phase' = "hydrate" /\ UNCHANGED result
                     /\ warnings' = CapWarning(request, snapshots)
    /\ UNCHANGED <<request, dbVars, topics, cliVars, answer, failures>>

Hydrate ==
    /\ phase = "hydrate"
    /\ LET found == TopicsWithEvidence(request, events, selected)
       IN  IF found = <<>>
           THEN Finish(Failure("no_coverage")) /\ UNCHANGED <<topics, warnings>>
           ELSE /\ topics' = found /\ phase' = "generate" /\ UNCHANGED result
                /\ warnings' = warnings \cup EvidenceWarnings(request, events, selected)
    /\ UNCHANGED <<request, dbVars, selected, cliVars, answer, failures>>

\* A query that fails is not answered: the message is delivered again.
StorageFails ==
    /\ Resolving
    /\ FailureOf("storage")
    /\ phase' = "resolve" /\ selected' = <<>> /\ warnings' = {}
    /\ UNCHANGED <<request, dbVars, topics, cliVars, answer, result>>

-----------------------------------------------------------------------------
(* Briefs *)

\* Of equal score the most recent; equals keep their order, here by id.
Recency(e) == IF e.published = Absent THEN e.fetched ELSE e.published
Stronger(e, f) ==
    \/ e.score > f.score
    \/ e.score = f.score /\ Recency(e) > Recency(f)
    \/ e.score = f.score /\ Recency(e) = Recency(f) /\ e.id < f.id

\* collectTopEvidenceInsights: of one summary the strongest counts.  (At most two
\* of a source are taken, and two are asked for.)
Insights(t) ==
    LET told == {e \in t.evidence : e.summary # Absent}
    IN  First({e \in told : \A f \in told : f.summary = e.summary => ~Stronger(f, e)},
              2, Stronger)

\* buildInternalHighlight: insights have canonical urls already; without any, all
\* evidence is cited.
InternalHighlight(t) ==
    LET cites == CanonicalUrls(CanonicalUrls({e.url : e \in Insights(t)}))
    IN  [topic |-> t.topic, cites |-> IF cites = {} THEN UrlsOf(t) ELSE cites]

\* selectInternalFallbackTopics; Unset stands for no preferred count.
Queried == QueryMode \/ request.query
InternalTopics(preferred, concise) ==
    LET cap    == IF concise \/ ~Queried THEN {request.maxTopics} ELSE {}
        limits == (cap \cup {preferred}) \ {Unset}
    IN  SubSeq(topics, 1, Min(limits \cup {Len(topics)}))

Brief(highlights, notes) ==
    IF highlights = {} \/ ~NotesGrounded(topics, notes) THEN Failure("grounding_error")
    ELSE [kind |-> "brief", code |-> "", highlights |-> highlights,
          notes |-> CanonicalUrls(notes), warnings |-> warnings]

\* buildInternalSuccessResult
InternalBrief(preferred, concise) ==
    LET chosen == InternalTopics(preferred, concise)
        highlights == [i \in DOMAIN chosen |-> InternalHighlight(chosen[i])]
    IN  Brief(EnforceHighlights(topics, highlights), {})

\* buildLlmBackedSuccessResult, with resolveHighlightLimit
LlmBrief(a) ==
    LET all   == Reply[a].highlights
        caps  == IF Queried THEN {} ELSE {request.maxTopics} \ {Unset}
        taken == SubSeq(all, 1, Min(caps \cup {Len(all)}))
        grounded == EnforceHighlights(topics, [i \in DOMAIN taken |-> Normalized(taken[i])])
    IN  IF grounded # {} THEN Brief(grounded, Reply[a].notes)
        ELSE InternalBrief(Len(taken), TRUE)

-----------------------------------------------------------------------------
(* Providers *)

Internal ==
    /\ phase = "generate" /\ request.provider = "internal"
    /\ Finish(InternalBrief(Unset, FALSE))
    /\ UNCHANGED <<request, dbVars, resVars, cliVars, answer, failures>>

\* callHttpLlm: what is no answer is an error of the provider.
Http(out) ==
    /\ phase = "generate" /\ request.provider = "http"
    /\ answer' = out /\ phase' = "build"
    /\ UNCHANGED <<request, dbVars, resVars, cliVars, result, failures>>

HttpFails ==
    /\ phase = "generate" /\ request.provider = "http"
    /\ FailureOf("http")
    /\ answer' = "failed" /\ phase' = "build"
    /\ UNCHANGED <<request, dbVars, resVars, cliVars, result>>

Build ==
    /\ phase = "build"
    /\ Finish(IF answer \in Answers THEN LlmBrief(answer)
              ELSE IF answer = "artifact" THEN InternalBrief(request.maxTopics, TRUE)
              ELSE Failure("llm_error"))
    /\ UNCHANGED <<request, dbVars, resVars, cliVars, answer, failures>>

-----------------------------------------------------------------------------
(* executeCodexCli *)

\* Ends the call; a temporary directory is removed before the answer is used.
Answered(a) == answer' = a /\ phase' = "cleanup"
AnsweredAtOnce(a) == answer' = a /\ phase' = "build"
Restart(label) == phase' = label /\ UNCHANGED answer
Called == calls' = calls + 1

\* shouldRetryWithStdinFallback
Usable(out) == out \in Answers \cup {"invalid"}

MakeDir ==
    /\ phase = "generate" /\ request.provider = "codex-cli"
    /\ dir' = "made" /\ phase' = "write"
    /\ UNCHANGED <<request, dbVars, resVars, calls, file, answer, result, failures>>

\* None of the roots can be written to.
MakeDirFails ==
    /\ phase = "generate" /\ request.provider = "codex-cli"
    /\ FailureOf("dir")
    /\ phase' = "stdinOnly"
    /\ UNCHANGED <<request, dbVars, resVars, cliVars, answer, result>>

WritePrompt ==
    /\ phase = "write"
    /\ phase' = "file"
    /\ UNCHANGED <<request, dbVars, resVars, cliVars, answer, result, failures>>

\* The directory stays: this way out is not under the finally that removes it.
WritePromptFails ==
    /\ phase = "write"
    /\ FailureOf("prompt")
    /\ phase' = "stdinOnly"
    /\ UNCHANGED <<request, dbVars, resVars, cliVars, answer, result>>

StdinOnly(out) ==
    /\ phase = "stdinOnly"
    /\ Called
    /\ AnsweredAtOnce(IF out \in Unread THEN "failed" ELSE out)
    /\ UNCHANGED <<request, dbVars, resVars, dir, file, result, failures>>

\* The CLI may write its last message to the file, or not.
FileMode(out, message) ==
    /\ phase = "file"
    /\ Called
    /\ file' = message
    /\ LET got == IF out \in Unread THEN message ELSE out
       IN  CASE Usable(got)     -> Answered(got)
             [] got = "other"   -> Restart(IF out = "other" THEN "stdin" ELSE "stdinFile")
             [] got = "missing" -> Restart("retry")
             [] OTHER           -> Answered("failed")
    /\ UNCHANGED <<request, dbVars, resVars, dir, result, failures>>

Retry(out) ==
    /\ phase = "retry"
    /\ Called
    /\ CASE Usable(out)   -> Answered(out)
         [] out = "other" -> Restart("stdinRetry")
         [] OTHER         -> Answered("artifact")
    /\ UNCHANGED <<request, dbVars, resVars, dir, file, result, failures>>

\* An error of the call after an unusable file that says ENOENT (of the file, or
\* of the command that cannot be started) is taken for the missing file, and the
\* first call is retried; so are, without another retry, all errors of the call
\* after the retry.
Enoent == {"nofile", "nocommand"}
ErrorOf(e) == CASE e = "nofile" -> "artifact" [] e = "nocommand" -> "failed" [] OTHER -> e
StdinError(e) ==
    CASE phase = "stdin"      -> Answered(ErrorOf(e))
      [] phase = "stdinFile"  -> IF e \in Enoent THEN Restart("retry") ELSE Answered(e)
      [] phase = "stdinRetry" -> Answered("artifact")

\* Calls with the prompt on stdin after an unusable stdout, an unusable file or an
\* unusable retry.  The file read may be the one of the first call.
Stdin(out, message) ==
    /\ phase \in {"stdin", "stdinFile", "stdinRetry"}
    /\ Called
    /\ file' = message
    /\ LET got == IF out \in Unread THEN message ELSE out
       IN  CASE got = "missing" -> StdinError("nofile")
             [] got \in Unread  -> StdinError("failed")
             [] OTHER           -> Answered(got)
    /\ UNCHANGED <<request, dbVars, resVars, dir, result, failures>>

\* A call cannot be started, fails or times out; what the CLI wrote to stderr may
\* name the full disk, and then counts as a missing artifact.
CliFails(e) ==
    /\ phase \in {"stdinOnly", "file", "retry", "stdin", "stdinFile", "stdinRetry"}
    /\ FailureOf("cli")
    /\ Called
    /\ CASE phase = "stdinOnly" -> AnsweredAtOnce(ErrorOf(e))
         [] phase = "file"      -> Answered(ErrorOf(e))
         [] phase = "retry"     -> Answered("artifact")
         [] OTHER               -> StdinError(e)
    /\ UNCHANGED <<request, dbVars, resVars, dir, file, result>>

\* Variant of Cleanup: the directory is removed on success only.
CleanupOnSuccess ==
    /\ phase = "cleanup"
    /\ dir' = IF answer \in Answers THEN "removed" ELSE dir
    /\ phase' = "build"
    /\ UNCHANGED <<request, dbVars, resVars, calls, file, answer, result, failures>>

Cleanup ==
    /\ phase = "cleanup"
    /\ dir' = "removed" /\ phase' = "build"
    /\ UNCHANGED <<request, dbVars, resVars, calls, file, answer, result, failures>>

\* The error of the removal takes the place of an answer.
CleanupFails(e) ==
    /\ phase = "cleanup"
    /\ FailureOf("cleanup")
    /\ AnsweredAtOnce(e)
    /\ UNCHANGED <<request, dbVars, resVars, cliVars, result>>

-----------------------------------------------------------------------------

Messages == {"missing", "garbage", "other"} \cup Answers
CleanupError == {"failed", "artifact"}
CliError == CleanupError \cup {"nocommand"}

Database == \/ \E e \in Arriving : Persist(e)
            \/ \E c \in Cutoffs : Retain(c)
Resolve  == PassThrough \/ RankTopics \/ Hydrate \/ StorageFails
Generate == \/ Internal
            \/ \E out \in Output : Http(out)
            \/ HttpFails
            \/ Build
Cli == \/ MakeDir \/ MakeDirFails \/ WritePrompt \/ WritePromptFails
       \/ \E out \in Output : StdinOnly(out) \/ Retry(out)
       \/ \E out \in Output, m \in Messages : FileMode(out, m)
       \/ \E out \in Output, m \in (Messages \ {"missing"}) \cup {file} : Stdin(out, m)
       \/ \E e \in CliError : CliFails(e)
       \/ \E e \in CleanupError : CleanupFails(e)
       \/ Cleanup

NextGeneration == Database \/ Resolve \/ Generate \/ Cli
GenerationSpec == InitGeneration /\ [][NextGeneration]_generationVars

-----------------------------------------------------------------------------

\* Every highlight of a brief is of a topic of the request and cites pages that
\* are evidence of that topic, no topic has two of them, there are no more than
\* the budget allows, and the notes link to evidence only; whatever the provider
\* answered and whichever fallback was taken.  A citation is the url of the
\* evidence itself where that is canonical; otherwise it may have lost more of the
\* slashes at its end, as each pass of the canonicalization takes one.
SamePage(c, u) == [c EXCEPT !.slashes = u.slashes] = u /\ c.slashes <= u.slashes
Traced(c, urls) ==
    \E u \in urls : SamePage(c, u) /\ (CanonicalUrl(u) = u => c = u)
Grounded(brief) ==
    /\ brief.highlights # {}
    /\ \A h \in brief.highlights :
          /\ h.cites # {}
          /\ \E i \in DOMAIN topics : /\ topics[i].topic = h.topic
                                      /\ \A c \in h.cites : Traced(c, UrlsOf(topics[i]))
    /\ \A g, h \in brief.highlights : Key[g.topic] = Key[h.topic] => g = h
    /\ (~Queried /\ request.maxTopics # Unset) =>
          Cardinality(brief.highlights) <= request.maxTopics
    /\ brief.notes \subseteq EvidenceUrls(topics)
BriefGrounded == result.kind = "brief" => Grounded(result)

\* What a query found can be used: every topic has evidence, of its own, from
\* the days asked for, no more than either cap, and tells of no page of a
\* source twice; the topics are of no more groups than asked for, and a brief
\* that leaves out a topic of the rank says so.  Raw events come and go between
\* the two reads.
Evidenced(t) ==
    /\ t.evidence # {}
    /\ Cardinality(t.evidence) <= MaxQueryEvents
    /\ request.maxEvidence # Unset => Cardinality(t.evidence) <= request.maxEvidence
    /\ \A e \in t.evidence : /\ t.topic \in e.topics
                             /\ Relevant(e, t.topic)
                             /\ InWindow(request, e.published)
QuerySound ==
    (QueryMode /\ topics # <<>>) =>
        LET all == UNION {topics[i].evidence : i \in DOMAIN topics}
        IN  /\ \A i \in DOMAIN topics : Evidenced(topics[i])
            /\ \A e, f \in all :
                  e.source = f.source /\ e.url = f.url /\ e.url # Absent => e = f
            /\ Cardinality({TopLevel(topics[i].topic) : i \in DOMAIN topics})
                  <= MaxTopicsOf(request)
            /\ (result.kind = "brief" /\ result.warnings = {}) =>
                  {topics[i].topic : i \in DOMAIN topics} = RankedTopics(request, snapshots)

\* However a run of the CLI ends, it took four calls at most, and the
\* directory with the prompt is gone unless the prompt could not be written or
\* the directory not be removed.
CliReleased ==
    phase = "done" => /\ calls <= 4
                      /\ dir = "made" => failures \cap {"prompt", "cleanup"} # {}

=============================================================================
