---------------------------- MODULE BriefTrigger ----------------------------
(***************************************************************************)
(* The command "brief trigger": its flags become a request, the lag of the *)
(* consumers is looked at, a waiter starts to read the results from their  *)
(* beginning, and only then the request is published; the first result of  *)
(* the request, a timeout or an error of the waiter ends it.  The brief    *)
(* service, on the other side, deserializes the request or skips it, and   *)
(* publishes the one result stored for its id (BriefPromise).              *)
(***************************************************************************)
EXTENDS ReadModel, Integers, Sequences, SequencesExt

CONSTANTS
    Ids,              \* request ids
    Calls,            \* flags of a call, see Valid
    EarlierResults,   \* what summary.results may hold before the call
    Groups,           \* EXPECTED_CONSUMER_GROUPS
    MaxLag,           \* MAX_LAG_MESSAGES
    ServiceLookback,  \* BRIEF_MAX_LOOKBACK_DAYS of the service
    DefaultEvents     \* maxQueryEventsPerTopic, the default of the command

\* A result on summary.results, and in the table of results.
Result == [id : Ids, kind : {"brief", "failure"}]

ASSUME BriefTriggerAssumption ==
    /\ \A call \in Calls : call.id \in Ids
    /\ EarlierResults \subseteq Seq(Result)
    /\ DefaultEvents \in Nat \ {0}

VARIABLES
    flags,       \* flags of the call, or None when another command runs
    pc,          \* where the command is
    exit,        \* "running", or the exit code: "ok" or "error"
    warnings,    \* data freshness warnings
    waiter,      \* [settled, result, timer, next]: next result it will read
    requests,    \* summary.requests
    served,      \* requests the service took
    results      \* summary.results

trigger == <<flags, pc, exit, warnings, waiter, requests, served, results>>

InitTrigger ==
    /\ flags \in Calls \cup {None}
    /\ pc = "config" /\ exit = "running" /\ warnings = {}
    /\ waiter = [settled |-> "no", result |-> None, timer |-> FALSE, next |-> 1]
    /\ requests = <<>> /\ served = 0
    /\ results \in EarlierResults

-----------------------------------------------------------------------------
(* Flags and request.  Numbers are integers; "bad" stands for what does not *)
(* parse, None for a flag that is not given.                                *)

Positive(n) == n \in Nat \ {0}

\* Globs of --topic-globs and of the topics in the --feed-config files.
GlobsValid(call) == call.globs # "bad" /\ call.feeds \notin {"bad", "unreadable"}
GlobsOf(call) ==
    LET given == ({call.globs} \cup {call.feeds}) \ {None, "empty"}
    IN  IF given = {} THEN {"*"} ELSE given

ReportValid(call) ==
    /\ call.zone # "bad"
    /\ call.start # None /\ call.end # None => call.start <= call.end

BudgetValid(call) ==
    /\ call.budget >= 0 /\ Positive(call.maxTopics)
    /\ Positive(call.maxEvidence) /\ Positive(call.maxTokens)

\* Either both of --topic-key and --evidence-url, or none; "half" is one.
ModeValid(call)    == call.mode \in {"query", "explicit"}
TypeValid(call)    == call.type \in {"daily", "threshold"}
WindowsValid(call) == call.windows # {} /\ call.windows \subseteq {1, 2, 3}
TimeoutValid(call) == Positive(call.timeout)
LookbackValid(call) == Positive(call.lookback) /\ call.lookback <= call.maxLookback
ChoicesValid(call) ==
    (call.mode = "query" => call.strategy # "bad") /\ call.provider # "bad"

QueryValid(call) ==
    /\ 2 \in call.windows /\ GlobsValid(call)
    /\ call.maxEvents # None => Positive(call.maxEvents)
ExplicitValid(call) == call.volume >= 0 /\ call.source # "bad"

\* Variant of Valid: the budget is passed on as it is given.
ValidUnchecked(call) ==
    /\ ModeValid(call) /\ call.at # "bad" /\ TypeValid(call) /\ WindowsValid(call)
    /\ LookbackValid(call) /\ ReportValid(call)
    /\ ChoicesValid(call) /\ TimeoutValid(call)
    /\ IF call.mode = "query" THEN QueryValid(call) ELSE ExplicitValid(call)

Valid(call) ==
    /\ ModeValid(call) /\ call.at # "bad" /\ TypeValid(call) /\ WindowsValid(call)
    /\ LookbackValid(call) /\ ReportValid(call) /\ BudgetValid(call)
    /\ ChoicesValid(call) /\ TimeoutValid(call)
    /\ IF call.mode = "query" THEN QueryValid(call) ELSE ExplicitValid(call)

EventsOf(call) ==
    LET asked == IF call.maxEvents = None THEN DefaultEvents ELSE call.maxEvents
    IN  IF asked < call.maxEvidence THEN asked ELSE call.maxEvidence

\* A report without a field, and fields that are None, are left out.
JobPayload(job) ==
    LET report == job.report
    IN  [job EXCEPT !.report =
            IF report.zone = None /\ report.start = None /\ report.end = None
            THEN None ELSE report]

\* One topic with one piece of evidence.
ExplicitTopics(call) ==
    <<[window |-> IF 2 \in call.windows THEN 2 ELSE CHOOSE w \in call.windows : TRUE,
       source |-> call.source]>>

Payload(call) ==
    LET explicit == call.mode = "explicit"
    IN  JobPayload(
            [id |-> call.id, at |-> call.at, type |-> call.type, provider |-> call.provider,
             windows |-> IF explicit THEN call.windows ELSE {2},
             report |-> [zone |-> call.zone, start |-> call.start, end |-> call.end],
             budget |-> [daily |-> call.budget, topics |-> call.maxTopics,
                         evidence |-> call.maxEvidence, tokens |-> call.maxTokens],
             query |-> IF explicit THEN None
                       ELSE [lookback |-> call.lookback, globs |-> GlobsOf(call),
                             events |-> EventsOf(call), strategy |-> call.strategy],
             topics |-> IF explicit THEN ExplicitTopics(call) ELSE <<>>])

\* What the service makes of the message: first the shape of the fields, ...
WireValid(request) ==
    /\ request.budget.daily >= 0 /\ Positive(request.budget.topics)
    /\ Positive(request.budget.evidence) /\ Positive(request.budget.tokens)

\* ... then their values.  A glob is "long" when it has more than the 128
\* characters the service takes.
TypeAccepted(type) == type \in {"daily", "threshold"}
WindowAccepted(window) == window \in {1, 2, 3}
GlobAccepted(glob) == glob \notin {"bad", "long"}
QueryAccepted(query) ==
    /\ Positive(query.lookback) /\ Positive(query.events)
    /\ \A glob \in query.globs : GlobAccepted(glob)
    /\ query.strategy # "bad"
ReportAccepted(report) ==
    /\ report.zone # "bad"
    /\ report.start # None /\ report.end # None => report.start <= report.end
TopicAccepted(topic) == WindowAccepted(topic.window) /\ topic.source # "bad"

Deserializes(request) ==
    /\ WireValid(request)
    /\ request.at # "bad" /\ TypeAccepted(request.type) /\ request.provider # "bad"
    /\ \A window \in request.windows : WindowAccepted(window)
    /\ request.report # None => ReportAccepted(request.report)
    /\ request.query # None => QueryAccepted(request.query)
    /\ \A k \in DOMAIN request.topics : TopicAccepted(request.topics[k])

-----------------------------------------------------------------------------
(* The waiter *)

\* Only the first call has an effect; both clear the timer.
Settle(w, how, result) ==
    IF w.settled # "no" THEN w
    ELSE [w EXCEPT !.settled = how, !.result = result, !.timer = FALSE]

\* Variant of Answers: any result that parses.
AnswersAny(result) == TRUE

Answers(result) == result.id = flags.id

\* Variant of Deliver: any message clears the timeout.
DeliverClearing ==
    LET result == results[waiter.next]
        seen   == [waiter EXCEPT !.next = @ + 1, !.timer = FALSE]
    IN  /\ waiter.timer /\ exit = "running" /\ waiter.next <= Len(results)
        /\ waiter' = IF Answers(result) THEN Settle(seen, "result", result) ELSE seen
        /\ UNCHANGED <<tables, faults, flags, pc, exit, warnings, requests, served, results>>

\* A result is delivered; once it has settled, the waiter ignores the others.
Deliver ==
    LET result == results[waiter.next]
        seen   == [waiter EXCEPT !.next = @ + 1]
    IN  /\ waiter.timer /\ exit = "running" /\ waiter.next <= Len(results)
        /\ waiter' = IF Answers(result) THEN Settle(seen, "result", result) ELSE seen
        /\ UNCHANGED <<tables, faults, flags, pc, exit, warnings, requests, served, results>>

TimesOut ==
    /\ waiter.timer /\ exit = "running"
    /\ waiter' = Settle(waiter, "error", None)
    /\ UNCHANGED <<tables, faults, flags, pc, exit, warnings, requests, served, results>>

\* consume() rejects.
ConsumeFails ==
    /\ waiter.timer /\ exit = "running" /\ Fault
    /\ waiter' = Settle(waiter, "error", None)
    /\ UNCHANGED <<tables, flags, pc, exit, warnings, requests, served, results>>

-----------------------------------------------------------------------------
(* The command *)

Commanded(step) == flags # None /\ pc = step /\ exit = "running"
Goto(step) == pc' = step /\ UNCHANGED exit
Exit(code) == pc' = "ended" /\ exit' = code

Resolve ==
    /\ Commanded("config")
    /\ CASE ~Valid(flags) -> Exit("error")
         [] Valid(flags) /\ flags.dryRun -> Exit("ok")
         [] OTHER -> Goto("freshness")
    /\ UNCHANGED <<tables, faults, flags, warnings, waiter, requests, served, results>>

\* evaluateConsumerLagFreshness: rows are [lag, stale], keys <<group, partition>>.
LagOf(rows, group) ==
    FoldSet(LAMBDA k, sum : rows[k].lag + sum, 0, {k \in DOMAIN rows : k[1] = group})
Freshness(rows) ==
    IF DOMAIN rows = {} THEN {"no records"}
    ELSE {"stale" : k \in {j \in DOMAIN rows : rows[j].stale}}
         \cup {"missing" : g \in {h \in Groups : \A k \in DOMAIN rows : k[1] # h}}
         \cup {"lag" : g \in {h \in Groups : LagOf(rows, h) > MaxLag}}

\* Warnings only: the request is published anyway.
CheckFreshness ==
    /\ Commanded("freshness")
    /\ \/ warnings' = Freshness(db["consumer_lag"]) /\ UNCHANGED faults
       \/ warnings' = {"database"} /\ Fault
    /\ Goto(IF flags.noWait THEN "publish" ELSE "listen")
    /\ UNCHANGED <<tables, flags, waiter, requests, served, results>>

Listen ==
    /\ Commanded("listen")
    /\ waiter' = [waiter EXCEPT !.timer = TRUE]
    /\ Goto("publish")
    /\ UNCHANGED <<tables, faults, flags, warnings, requests, served, results>>

ListenFails ==
    /\ Commanded("listen") /\ Fault
    /\ Exit("error")
    /\ UNCHANGED <<tables, flags, warnings, waiter, requests, served, results>>

Publish ==
    /\ Commanded("publish") /\ waiter.settled # "error"
    /\ requests' = Append(requests, Payload(flags))
    /\ IF flags.noWait THEN Exit("ok") ELSE Goto("wait")
    /\ UNCHANGED <<tables, faults, flags, warnings, waiter, served, results>>

\* The error leaves the command; without a waiter it ends, else the open
\* consumer and its timer keep the process alive.
PublishFails ==
    /\ Commanded("publish") /\ waiter.settled # "error" /\ Fault
    /\ \/ UNCHANGED requests
       \/ requests' = Append(requests, Payload(flags))
    /\ IF flags.noWait THEN Exit("error") ELSE Goto("lingering")
    /\ UNCHANGED <<tables, flags, warnings, waiter, served, results>>

\* Nobody awaits the promise of the waiter yet, or any more: its rejection is
\* not handled and ends the process.
Unhandled ==
    /\ Commanded("publish") \/ Commanded("lingering")
    /\ waiter.settled = "error"
    /\ Exit("error")
    /\ UNCHANGED <<tables, faults, flags, warnings, waiter, requests, served, results>>

\* The consumer stopped after a result, with the exit code of the error.
Lingered ==
    /\ Commanded("lingering") /\ waiter.settled = "result"
    /\ Exit("error")
    /\ UNCHANGED <<tables, faults, flags, warnings, waiter, requests, served, results>>

Report ==
    /\ Commanded("wait") /\ waiter.settled # "no"
    /\ Exit(IF waiter.settled = "result" /\ waiter.result.kind = "brief" THEN "ok" ELSE "error")
    /\ UNCHANGED <<tables, faults, flags, warnings, waiter, requests, served, results>>

TriggerStep ==
    \/ Resolve \/ CheckFreshness \/ Listen \/ Publish
    \/ Unhandled \/ Lingered \/ Report
TriggerFault == ListenFails \/ PublishFails \/ ConsumeFails

-----------------------------------------------------------------------------
(* The service *)

\* A request that does not deserialize is skipped.
SkipRequest ==
    /\ served < Len(requests) /\ ~Deserializes(requests[served + 1])
    /\ served' = served + 1
    /\ UNCHANGED <<tables, faults, flags, pc, exit, warnings, waiter, requests, results>>

\* The result stored for the id is published, or a new one.
Serve ==
    LET request == requests[served + 1]
        stored  == {db["brief_results"][k] : k \in {request.id} \cap Keys("brief_results")}
        kinds   == IF request.query # None /\ request.query.lookback > ServiceLookback
                   THEN {"failure"} ELSE {"brief", "failure"}
        fresh   == {[id |-> request.id, kind |-> k] : k \in kinds}
    IN  /\ served < Len(requests) /\ Deserializes(request)
        /\ served' = served + 1
        /\ \E result \in IF stored # {} THEN stored ELSE fresh :
              /\ results' = Append(results, result)
              /\ IF stored # {} THEN UNCHANGED tables
                 ELSE Put("brief_results", request.id, result)
        /\ UNCHANGED <<faults, flags, pc, exit, warnings, waiter, requests>>

\* The message is delivered once more: the stored result is published again.
ServeAgain ==
    /\ served > 0 /\ Fault
    /\ served' = served - 1
    /\ UNCHANGED <<tables, flags, pc, exit, warnings, waiter, requests, results>>

-----------------------------------------------------------------------------
(* Properties *)

\* The service takes every request the command publishes: what the flags let
\* pass, the wire schema and its parsers let pass too, or the operator would
\* wait in vain for a request that is skipped.  The one exception is a topic
\* glob of more than 128 characters, which only the service refuses.
RequestUnderstood ==
    \A k \in DOMAIN requests :
        \/ Deserializes(requests[k])
        \/ requests[k].query # None /\ "long" \in requests[k].query.globs

\* The exit code can be trusted: "ok" means that the request was published and,
\* unless nobody waited, that its brief was; what is reported is the first
\* result of the id, and a dry run publishes nothing.
ExitTruthful ==
    /\ exit = "ok" =>
          \/ flags.dryRun /\ requests = <<>>
          \/ /\ requests # <<>>
             /\ flags.noWait \/ [id |-> flags.id, kind |-> "brief"] \in ToSet(results)
    /\ waiter.settled = "result" =>
          LET ours == {k \in DOMAIN results : results[k].id = flags.id}
          IN  ours # {} /\ waiter.result = results[CHOOSE k \in ours : \A j \in ours : k <= j]

=============================================================================
