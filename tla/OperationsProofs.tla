-------------------------- MODULE OperationsProofs --------------------------
(***************************************************************************)
(* Proofs about the commands of an operator and the retention job: what    *)
(* the command asks for is understood, its exit code can be trusted, every *)
(* row is enriched, and the job reports what it did.                       *)
(***************************************************************************)
EXTENDS Operations, FiniteFacts

-----------------------------------------------------------------------------
(* What the flags let pass *)

\* Globs that pass the flags are of the service's language, but for length.
LEMMA GlobsPass ==
  ASSUME NEW call, GlobsValid(call), NEW glob \in GlobsOf(call), glob # "long"
  PROVE  GlobAccepted(glob)
  BY DEF GlobsValid, GlobsOf, GlobAccepted

\* The number of events asked for is positive.
LEMMA EventsPass ==
  ASSUME NEW call, Positive(call.maxEvidence),
         call.maxEvents # None => Positive(call.maxEvents)
  PROVE  Positive(EventsOf(call))
  BY BriefTriggerAssumption DEF Positive, EventsOf

\* The parts of a payload.
LEMMA PayloadIs ==
  ASSUME NEW call, NEW q, q = Payload(call)
  PROVE  /\ q.id = call.id /\ q.at = call.at /\ q.type = call.type
         /\ q.provider = call.provider
         /\ q.windows = IF call.mode = "explicit" THEN call.windows ELSE {2}
         /\ q.budget.daily = call.budget /\ q.budget.topics = call.maxTopics
         /\ q.budget.evidence = call.maxEvidence /\ q.budget.tokens = call.maxTokens
         /\ q.report # None => /\ q.report.zone = call.zone
                               /\ q.report.start = call.start /\ q.report.end = call.end
         /\ call.mode = "explicit" => q.query = None /\ q.topics = ExplicitTopics(call)
         /\ call.mode # "explicit" =>
               /\ q.query.lookback = call.lookback /\ q.query.globs = GlobsOf(call)
               /\ q.query.events = EventsOf(call) /\ q.query.strategy = call.strategy
               /\ q.topics = <<>>
  BY DEF Payload, JobPayload

\* A request whose flags were valid is understood, unless a glob is too long.
LEMMA ValidUnderstood ==
  ASSUME NEW call, Valid(call), NEW q, q = Payload(call)
  PROVE  Deserializes(q) \/ (q.query # None /\ "long" \in q.query.globs)
<1>1. /\ BudgetValid(call) /\ call.at # "bad" /\ TypeValid(call) /\ WindowsValid(call)
      /\ LookbackValid(call) /\ ReportValid(call) /\ ChoicesValid(call) /\ ModeValid(call)
      /\ call.mode = "query" => QueryValid(call)
      /\ call.mode = "explicit" => ExplicitValid(call)
  BY DEF Valid
<1>2. WireValid(q)
  BY <1>1, PayloadIs DEF WireValid, BudgetValid
<1>3. q.at # "bad" /\ TypeAccepted(q.type) /\ q.provider # "bad"
  BY <1>1, PayloadIs DEF TypeValid, TypeAccepted, ChoicesValid
<1>4. \A window \in q.windows : WindowAccepted(window)
  BY <1>1, PayloadIs DEF WindowsValid, WindowAccepted
<1>5. q.report # None => ReportAccepted(q.report)
  BY <1>1, PayloadIs DEF ReportValid, ReportAccepted
<1>6. \A k \in DOMAIN q.topics : TopicAccepted(q.topics[k])
  <2>1. CASE call.mode = "explicit"
    <3>1. q.topics = ExplicitTopics(call) /\ call.source # "bad"
      BY <1>1, <2>1, PayloadIs DEF ExplicitValid
    <3>2. \A k \in DOMAIN q.topics : k = 1
      BY <3>1 DEF ExplicitTopics
    <3>3. q.topics[1].window \in call.windows /\ q.topics[1].source = call.source
      BY <1>1, <3>1 DEF ExplicitTopics, WindowsValid
    <3> QED
      BY <1>1, <3>1, <3>2, <3>3 DEF TopicAccepted, WindowAccepted, WindowsValid
  <2> QED
    BY <2>1, PayloadIs
<1>7. q.query # None /\ "long" \notin q.query.globs => QueryAccepted(q.query)
  <2> SUFFICES ASSUME q.query # None, "long" \notin q.query.globs
               PROVE  QueryAccepted(q.query)
    OBVIOUS
  <2>1. call.mode = "query"
    BY <1>1, PayloadIs DEF ModeValid
  <2>2. /\ q.query.lookback = call.lookback /\ q.query.globs = GlobsOf(call)
        /\ q.query.events = EventsOf(call) /\ q.query.strategy = call.strategy
    BY <2>1, PayloadIs
  <2>3. Positive(q.query.lookback) /\ q.query.strategy # "bad" /\ Positive(q.query.events)
    BY <1>1, <2>1, <2>2, EventsPass DEF LookbackValid, ChoicesValid, QueryValid, BudgetValid
  <2>4. \A glob \in q.query.globs : GlobAccepted(glob)
    BY <1>1, <2>1, <2>2, GlobsPass DEF QueryValid
  <2> QED
    BY <2>3, <2>4 DEF QueryAccepted
<1> QED
  BY <1>2, <1>3, <1>4, <1>5, <1>6, <1>7 DEF Deserializes

-----------------------------------------------------------------------------
(* The tables *)

\* What every statement finds: the tables, events under numbers, results.
TablesOK ==
    /\ {"brief_results", "raw_events"} \subseteq Tables
    /\ DOMAIN db = Tables /\ DOMAIN expired = Tables
    /\ DOMAIN Rows \subseteq Nat /\ IsFiniteSet(DOMAIN Rows)
    /\ \A k \in Keys("brief_results") : db["brief_results"][k] \in Result

\* What becomes of the tables beside what is written to raw_events: rows come
\* and go, and none gets too old.
RowsMove ==
    /\ DOMAIN Rows' \subseteq DOMAIN Rows \cup DOMAIN Arriving
    /\ \A id \in DOMAIN Rows \cap DOMAIN Rows' : Rows'[id] = Rows[id]
ExpiredMoves == \A t \in Tables : expired'[t] \subseteq expired[t]

\* A row is put into a table.
LEMMA PutIs ==
  ASSUME TablesOK, NEW table \in Tables, NEW key, NEW row, Put(table, key, row)
  PROVE  /\ DOMAIN db' = Tables /\ DOMAIN expired' = Tables /\ ExpiredMoves
         /\ \A t \in Tables : t # table => db'[t] = db[t]
         /\ DOMAIN (db'[table]) = Keys(table) \cup {key}
         /\ \A k \in Keys(table) \cup {key} :
               db'[table][k] = IF k = key THEN row ELSE db[table][k]
<1>1. /\ db' = [db EXCEPT ![table] = [k \in Keys(table) \cup {key} |->
                                        IF k = key THEN row ELSE db[table][k]]]
      /\ expired' = [expired EXCEPT ![table] = expired[table] \ {key}]
  BY DEF Put
<1> QED
  BY <1>1 DEF TablesOK, ExpiredMoves

\* The rows of a table that are too old are deleted.
LEMMA DeleteIs ==
  ASSUME TablesOK, NEW table, DeleteExpired(table)
  PROVE  /\ DOMAIN db' = Tables /\ DOMAIN expired' = Tables /\ ExpiredMoves
         /\ \A t \in Tables : t # table => db'[t] = db[t]
         /\ table \in Tables =>
               /\ DOMAIN (db'[table]) \subseteq Keys(table)
               /\ \A k \in DOMAIN (db'[table]) : db'[table][k] = db[table][k]
               /\ expired'[table] = {}
<1>1. /\ db' = [db EXCEPT ![table] = Restrict(db[table], Keys(table) \ expired[table])]
      /\ expired' = [expired EXCEPT ![table] = {}]
  BY DEF DeleteExpired
<1>2. ASSUME table \in Tables
      PROVE  db'[table] = [k \in Keys(table) \ expired[table] |-> db[table][k]]
  BY <1>1, <1>2 DEF TablesOK, Restrict
<1> QED
  BY <1>1, <1>2 DEF TablesOK, ExpiredMoves

\* What the transaction makes of one row.
NextOf(id) ==
    LET u == CHOOSE v \in plan : v.id = id
    IN  Updated(run, Rows[id], u.read, u.next)

\* The planned updates are written.
LEMMA ApplyIs ==
  ASSUME TablesOK, ApplyPlan
  PROVE  /\ DOMAIN db' = Tables
         /\ \A t \in Tables : t # "raw_events" => db'[t] = db[t]
         /\ DOMAIN Rows' = DOMAIN Rows
         /\ \A id \in DOMAIN Rows :
               Rows'[id] = IF id \in Planned THEN NextOf(id) ELSE Rows[id]
<1>1. db' = [db EXCEPT !["raw_events"] =
                 [id \in DOMAIN (db["raw_events"]) |->
                     IF id \in Planned THEN NextOf(id) ELSE db["raw_events"][id]]]
  BY DEF ApplyPlan, NextOf, Rows
<1> QED
  BY <1>1 DEF TablesOK, Rows

\* A result is put into its table: nothing happens to the events.
LEMMA ResultPut ==
  ASSUME TablesOK, NEW key, NEW result \in Result, Put("brief_results", key, result)
  PROVE  TablesOK' /\ RowsMove /\ ExpiredMoves
<1>1. {"brief_results", "raw_events"} \subseteq Tables
  BY DEF TablesOK
<1>2. /\ DOMAIN db' = Tables /\ DOMAIN expired' = Tables /\ ExpiredMoves
      /\ db'["raw_events"] = db["raw_events"]
      /\ DOMAIN (db'["brief_results"]) = Keys("brief_results") \cup {key}
      /\ \A k \in Keys("brief_results") \cup {key} : db'["brief_results"][k] =
            IF k = key THEN result ELSE db["brief_results"][k]
  BY <1>1, PutIs
<1> QED
  BY <1>1, <1>2 DEF TablesOK, RowsMove, Rows, Keys

\* An event is put into its table, under an id there was not.
LEMMA EventPut ==
  ASSUME TablesOK, NEW id \in DOMAIN Arriving \ DOMAIN Rows, NEW row,
         Put("raw_events", id, row)
  PROVE  TablesOK' /\ RowsMove /\ ExpiredMoves
<1>1. {"brief_results", "raw_events"} \subseteq Tables /\ id \in Nat
  BY EnrichmentAssumption DEF TablesOK
<1>2. /\ DOMAIN db' = Tables /\ DOMAIN expired' = Tables /\ ExpiredMoves
      /\ db'["brief_results"] = db["brief_results"]
      /\ DOMAIN (db'["raw_events"]) = Keys("raw_events") \cup {id}
      /\ \A k \in Keys("raw_events") \cup {id} : db'["raw_events"][k] =
            IF k = id THEN row ELSE db["raw_events"][k]
  BY <1>1, PutIs
<1>3. IsFiniteSet(Keys("raw_events") \cup {id})
  BY FS_AddElement DEF TablesOK, Rows, Keys
<1> QED
  BY <1>1, <1>2, <1>3 DEF TablesOK, RowsMove, Rows, Keys

\* Old rows are deleted.
LEMMA OldDeleted ==
  ASSUME TablesOK, NEW table, DeleteExpired(table)
  PROVE  TablesOK' /\ RowsMove /\ ExpiredMoves
<1>1. /\ {"brief_results", "raw_events"} \subseteq Tables
      /\ DOMAIN Rows \subseteq Nat /\ IsFiniteSet(DOMAIN Rows)
  BY DEF TablesOK
<1>2. DOMAIN db' = Tables /\ DOMAIN expired' = Tables /\ ExpiredMoves
  BY DeleteIs
<1>3. \A t \in Tables :
          /\ DOMAIN (db'[t]) \subseteq DOMAIN (db[t])
          /\ \A k \in DOMAIN (db'[t]) : db'[t][k] = db[t][k]
  BY DeleteIs DEF Keys
<1>4. DOMAIN Rows' \subseteq DOMAIN Rows /\ IsFiniteSet(DOMAIN Rows')
  BY <1>1, <1>3, FS_Subset DEF Rows
<1> QED
  BY <1>1, <1>2, <1>3, <1>4 DEF TablesOK, RowsMove, Rows, Keys

\* The updates of the command are written.
LEMMA PlanApplied ==
  ASSUME TablesOK, ApplyPlan, UNCHANGED expired
  PROVE  TablesOK'
  BY ApplyIs DEF TablesOK, Keys, Rows

\* Nothing is written.
LEMMA TablesStay ==
  ASSUME TablesOK, UNCHANGED tables
  PROVE  TablesOK' /\ RowsMove /\ ExpiredMoves
  BY DEF TablesOK, RowsMove, ExpiredMoves, tables, Rows, Keys

-----------------------------------------------------------------------------
(* The command that triggers a brief *)

\* The types of the command, its waiter and the topics.
Waiter == [settled : {"no", "result", "error"}, result : Result \cup {None},
           timer : BOOLEAN, next : Nat \ {0}]
TriggerOK ==
    /\ flags \in Calls \cup {None}
    /\ pc \in {"config", "freshness", "listen", "publish", "wait", "lingering", "ended"}
    /\ exit \in {"running", "ok", "error"}
    /\ requests \in Seq({Payload(flags)})
    /\ served \in Nat /\ served <= Len(requests)
    /\ results \in Seq(Result)
    /\ waiter \in Waiter

\* Only what was found valid is published.
RequestsValid ==
    requests # <<>> \/ pc \in {"freshness", "listen", "publish"} =>
        flags # None /\ Valid(flags)

\* Before the publication there is no request, and before it listens the waiter
\* has not begun; one that waits for an answer has asked.
InOrder ==
    /\ pc \in {"config", "freshness", "listen"} =>
          /\ requests = <<>>
          /\ waiter.settled = "no" /\ ~waiter.timer /\ waiter.next = 1
    /\ pc = "wait" => requests # <<>>

\* The waiter passes over the results of other requests only, and settles with
\* the first of its own.
Theirs(n) == \A k \in 1 .. n - 1 : results[k].id # flags.id
FirstAnswer ==
    /\ waiter.next <= Len(results) + 1
    /\ waiter.timer => waiter.settled = "no"
    /\ waiter.settled = "no" => Theirs(waiter.next)
    /\ waiter.settled = "result" =>
          \E k \in 1 .. Len(results) : /\ results[k].id = flags.id /\ waiter.result = results[k]
                                       /\ Theirs(k)

\* What an exit code of 0 stands for.
OkMeans ==
    exit = "ok" =>
        \/ flags.dryRun /\ requests = <<>>
        \/ /\ requests # <<>>
           /\ flags.noWait \/ \E k \in 1 .. Len(results) :
                                  results[k] = [id |-> flags.id, kind |-> "brief"]

TriggerInv == RequestsValid /\ InOrder /\ FirstAnswer /\ OkMeans

\* One more result, of a request of the command, is published.
Answered(result) ==
    /\ results' = Append(results, result)
    /\ served' \in Nat /\ served' <= Len(requests)
    /\ UNCHANGED <<flags, pc, exit, waiter, requests>>

\* A request is that of the call.
LEMMA RequestIs ==
  ASSUME TriggerOK, RequestsValid, served < Len(requests)
  PROVE  /\ requests[served + 1] = Payload(flags) /\ requests[served + 1].id = flags.id
         /\ flags.id \in Ids /\ requests # <<>>
<1>1. served + 1 \in 1 .. Len(requests) /\ requests \in Seq({Payload(flags)})
  BY DEF TriggerOK
<1>2. requests[served + 1] = Payload(flags) /\ requests # <<>>
  BY <1>1
<1>3. flags \in Calls
  BY <1>2 DEF TriggerOK, RequestsValid
<1> QED
  BY <1>2, <1>3, PayloadIs, BriefTriggerAssumption

\* What the service publishes is a result.
LEMMA ServeIs ==
  ASSUME TablesOK, TriggerOK, RequestsValid, Serve
  PROVE  \E result \in Result :
            /\ Answered(result)
            /\ UNCHANGED tables \/ Put("brief_results", flags.id, result)
<1> DEFINE request == requests[served + 1]
           stored  == {db["brief_results"][k] : k \in {request.id} \cap Keys("brief_results")}
           kinds   == IF request.query # None /\ request.query.lookback > ServiceLookback
                      THEN {"failure"} ELSE {"brief", "failure"}
           fresh   == {[id |-> request.id, kind |-> k] : k \in kinds}
<1>1. /\ served < Len(requests) /\ served' = served + 1
      /\ \E result \in IF stored # {} THEN stored ELSE fresh :
            /\ results' = Append(results, result)
            /\ IF stored # {} THEN UNCHANGED tables
               ELSE Put("brief_results", request.id, result)
      /\ UNCHANGED <<flags, pc, exit, waiter, requests>>
  BY DEF Serve
<1>2. request.id = flags.id /\ flags.id \in Ids
  BY <1>1, RequestIs
<1>3. stored \subseteq Result
  BY DEF TablesOK
<1>4. fresh \subseteq Result
  BY <1>2 DEF Result
<1>5. served' \in Nat /\ served' <= Len(requests)
  BY <1>1 DEF TriggerOK
<1> HIDE DEF request, stored, kinds, fresh
<1> QED
  BY <1>1, <1>2, <1>3, <1>4, <1>5 DEF Answered

\* The steps of the trigger's part, with what they do to the tables.
LEMMA TriggerMoves ==
  ASSUME TablesOK, TriggerOK, RequestsValid, Trigger
  PROVE  \/ /\ UNCHANGED tables
            /\ \/ TriggerStep \/ TriggerFault \/ Deliver \/ TimesOut
               \/ SkipRequest \/ ServeAgain
               \/ \E result \in Result : Answered(result)
         \/ \E result \in Result : /\ Answered(result)
                                   /\ Put("brief_results", flags.id, result)
  BY ServeIs
     DEF Trigger, TriggerStep, TriggerFault, Deliver, TimesOut, SkipRequest, ServeAgain,
         Resolve, CheckFreshness, Listen, Publish, Unhandled, Lingered, Report,
         ListenFails, PublishFails, ConsumeFails

\* A result is added behind the others: the answer stays the first.
LEMMA AnsweredInv ==
  ASSUME TriggerOK, TriggerInv, NEW result \in Result, Answered(result)
  PROVE  TriggerOK' /\ TriggerInv'
<1>1. /\ results \in Seq(Result) /\ results' = Append(results, result)
      /\ served' \in Nat /\ served' <= Len(requests)
      /\ UNCHANGED <<flags, pc, exit, waiter, requests>>
  BY DEF TriggerOK, Answered
<1>2. /\ results' \in Seq(Result) /\ Len(results') = Len(results) + 1
      /\ \A k \in 1 .. Len(results) : results'[k] = results[k]
  BY <1>1
<1>3. Len(results) \in Nat /\ waiter.next \in Nat
  BY DEF TriggerOK, Waiter
<1>4. TriggerOK' /\ RequestsValid' /\ InOrder'
  BY <1>1, <1>2 DEF TriggerOK, TriggerInv, RequestsValid, InOrder
<1>5. FirstAnswer'
  <2>1. \A n \in Nat : n <= Len(results) + 1 /\ Theirs(n) => Theirs(n)'
    BY <1>1, <1>2, <1>3 DEF Theirs
  <2> QED
    BY <1>1, <1>2, <1>3, <2>1 DEF TriggerInv, FirstAnswer
<1>6. OkMeans'
  BY <1>1, <1>2, <1>3 DEF TriggerInv, OkMeans
<1> QED
  BY <1>4, <1>5, <1>6 DEF TriggerInv

\* The waiter reads a result, or gives up.
LEMMA WaiterInv ==
  ASSUME TriggerOK, TriggerInv, Deliver \/ TimesOut \/ ConsumeFails
  PROVE  TriggerOK' /\ TriggerInv'
<1>1. /\ results \in Seq(Result) /\ Len(results) \in Nat /\ waiter.next \in Nat \ {0}
      /\ waiter \in Waiter /\ waiter.timer
      /\ UNCHANGED <<flags, pc, exit, requests, served, results>>
  BY DEF TriggerOK, Waiter, Deliver, TimesOut, ConsumeFails
<1>2. waiter.settled = "no" /\ Theirs(waiter.next)
  BY <1>1 DEF TriggerInv, FirstAnswer
<1>3. pc \notin {"config", "freshness", "listen"}
  BY <1>1 DEF TriggerInv, InOrder
<1>4. RequestsValid' /\ InOrder' /\ OkMeans'
  BY <1>1, <1>3 DEF TriggerInv, RequestsValid, InOrder, OkMeans
<1>5. \A n \in Nat : Theirs(n) => Theirs(n)'
  BY <1>1 DEF Theirs
<1>6. ASSUME TimesOut \/ ConsumeFails
      PROVE  waiter' \in Waiter /\ FirstAnswer'
  <2>1. waiter' = [waiter EXCEPT !.settled = "error", !.result = None, !.timer = FALSE]
    BY <1>2, <1>6 DEF TimesOut, ConsumeFails, Settle
  <2>2. /\ waiter' \in Waiter /\ waiter'.settled = "error" /\ ~waiter'.timer
        /\ waiter'.next = waiter.next
    BY <1>1, <2>1 DEF Waiter
  <2> QED
    BY <1>1, <2>2 DEF FirstAnswer, TriggerInv
<1>7. ASSUME Deliver
      PROVE  waiter' \in Waiter /\ FirstAnswer'
  <2> DEFINE result == results[waiter.next]
  <2>1. waiter.next \in 1 .. Len(results) /\ result \in Result
    BY <1>1, <1>7 DEF Deliver
  <2>2. CASE Answers(result)
    <3>1. waiter' = [waiter EXCEPT !.next = waiter.next + 1, !.settled = "result",
                                   !.result = result, !.timer = FALSE]
      BY <1>1, <1>2, <1>7, <2>2 DEF Deliver, Settle, Waiter
    <3>2. /\ waiter' \in Waiter /\ waiter'.settled = "result" /\ ~waiter'.timer
          /\ waiter'.next = waiter.next + 1 /\ waiter'.result = result
      <4> HIDE DEF result
      <4>1. waiter' = [settled |-> "result", result |-> result, timer |-> FALSE,
                       next |-> waiter.next + 1]
        BY <1>1, <3>1 DEF Waiter
      <4>2. waiter.next + 1 \in Nat \ {0}
        BY <1>1
      <4> QED
        BY <2>1, <4>1, <4>2 DEF Waiter
    <3>3. result.id = flags.id
      BY <2>2 DEF Answers
    <3>4. FirstAnswer'
      BY <1>1, <1>2, <1>5, <2>1, <3>2, <3>3 DEF FirstAnswer
    <3> QED
      BY <3>2, <3>4
  <2>3. CASE ~Answers(result)
    <3>1. waiter' = [waiter EXCEPT !.next = waiter.next + 1]
      BY <1>7, <2>3 DEF Deliver
    <3>2. /\ waiter' \in Waiter /\ waiter'.settled = "no"
          /\ waiter'.next = waiter.next + 1
      BY <1>1, <1>2, <3>1 DEF Waiter
    <3>3. result.id # flags.id
      BY <2>3 DEF Answers
    <3>4. Theirs(waiter.next)'
      BY <1>1, <1>2, <2>1, <3>2, <3>3 DEF Theirs
    <3> QED
      BY <1>1, <2>1, <3>2, <3>4 DEF FirstAnswer
  <2> QED
    BY <2>2, <2>3
<1>8. waiter' \in Waiter /\ FirstAnswer'
  BY <1>6, <1>7
<1> QED
  BY <1>1, <1>4, <1>8 DEF TriggerOK, TriggerInv

\* The command takes a step, or one of its calls fails.
LEMMA CommandInv ==
  ASSUME TriggerOK, TriggerInv, TriggerStep \/ ListenFails \/ PublishFails
  PROVE  TriggerOK' /\ TriggerInv'
<1>1. /\ results \in Seq(Result) /\ Len(results) \in Nat /\ waiter \in Waiter
      /\ flags \in Calls /\ exit = "running" /\ served \in Nat /\ served <= Len(requests)
      /\ requests \in Seq({Payload(flags)})
      /\ UNCHANGED <<flags, served, results>>
  BY DEF TriggerOK, TriggerStep, ListenFails, PublishFails, Commanded,
         Resolve, CheckFreshness, Listen, Publish, Unhandled, Lingered, Report
<1>2. /\ Append(requests, Payload(flags)) \in Seq({Payload(flags)})
      /\ Append(requests, Payload(flags)) # <<>>
      /\ Len(Append(requests, Payload(flags))) = Len(requests) + 1 /\ Len(requests) \in Nat
  BY <1>1
<1>3. requests' = requests \/ requests' = Append(requests, Payload(flags))
  BY DEF TriggerStep, ListenFails, PublishFails,
         Resolve, CheckFreshness, Listen, Publish, Unhandled, Lingered, Report
<1>4. ASSUME waiter' = waiter
      PROVE  FirstAnswer'
  BY <1>1, <1>4 DEF TriggerInv, FirstAnswer, Theirs
<1>5. CASE Resolve
  <2>1. pc = "config" /\ UNCHANGED <<requests, waiter>>
    BY <1>5 DEF Resolve, Commanded
  <2>2. requests = <<>>
    BY <2>1 DEF TriggerInv, InOrder
  <2>3. CASE ~Valid(flags)
    <3>1. pc' = "ended" /\ exit' = "error"
      BY <1>5, <2>3 DEF Resolve, Exit
    <3> QED
      BY <1>1, <1>4, <2>1, <2>2, <3>1
         DEF TriggerOK, TriggerInv, RequestsValid, InOrder, OkMeans
  <2>4. CASE Valid(flags) /\ flags.dryRun
    <3>1. pc' = "ended" /\ exit' = "ok"
      BY <1>5, <2>4 DEF Resolve, Exit
    <3> QED
      BY <1>1, <1>4, <2>1, <2>2, <2>4, <3>1
         DEF TriggerOK, TriggerInv, RequestsValid, InOrder, OkMeans
  <2>5. CASE Valid(flags) /\ ~flags.dryRun
    <3>1. pc' = "freshness" /\ exit' = exit
      BY <1>5, <2>5 DEF Resolve, Goto
    <3>2. flags # None
      BY <1>5 DEF Resolve, Commanded
    <3> QED
      BY <1>1, <1>4, <2>1, <2>2, <2>5, <3>1, <3>2
         DEF TriggerOK, TriggerInv, RequestsValid, InOrder, OkMeans
  <2> QED
    BY <2>3, <2>4, <2>5
<1>6. CASE CheckFreshness
  <2>1. /\ pc = "freshness" /\ pc' \in {"publish", "listen"} /\ exit' = exit
        /\ UNCHANGED <<requests, waiter>>
    BY <1>6 DEF CheckFreshness, Commanded, Goto
  <2> QED
    BY <1>1, <1>4, <2>1 DEF TriggerOK, TriggerInv, RequestsValid, InOrder, OkMeans
<1>7. CASE Listen
  <2>1. /\ pc = "listen" /\ pc' = "publish" /\ exit' = exit
        /\ UNCHANGED requests /\ waiter' = [waiter EXCEPT !.timer = TRUE]
    BY <1>7 DEF Listen, Commanded, Goto
  <2>2. /\ waiter' \in Waiter /\ waiter'.timer /\ waiter'.settled = waiter.settled
        /\ waiter'.next = waiter.next
    BY <1>1, <2>1 DEF Waiter
  <2>3. waiter.settled = "no"
    BY <2>1 DEF TriggerInv, InOrder
  <2>4. FirstAnswer'
    BY <1>1, <2>2, <2>3 DEF TriggerInv, FirstAnswer, Theirs
  <2> QED
    BY <1>1, <2>1, <2>2, <2>4 DEF TriggerOK, TriggerInv, RequestsValid, InOrder, OkMeans
<1>8. CASE ListenFails \/ Unhandled \/ Lingered
  <2>1. pc' = "ended" /\ exit' = "error" /\ UNCHANGED <<requests, waiter>>
    BY <1>8 DEF ListenFails, Unhandled, Lingered, Exit
  <2> QED
    BY <1>1, <1>4, <2>1 DEF TriggerOK, TriggerInv, RequestsValid, InOrder, OkMeans
<1>9. CASE Publish
  <2>1. /\ pc = "publish" /\ requests' = Append(requests, Payload(flags))
        /\ UNCHANGED waiter
        /\ \/ flags.noWait /\ pc' = "ended" /\ exit' = "ok"
           \/ pc' = "wait" /\ exit' = exit
    BY <1>9 DEF Publish, Commanded, Goto, Exit
  <2> QED
    BY <1>1, <1>2, <1>4, <2>1 DEF TriggerOK, TriggerInv, RequestsValid, InOrder, OkMeans
<1>10. CASE PublishFails
  <2>1. /\ pc = "publish" /\ UNCHANGED waiter
        /\ \/ pc' = "ended" /\ exit' = "error"
           \/ pc' = "lingering" /\ exit' = exit
    BY <1>10 DEF PublishFails, Commanded, Goto, Exit
  <2>2. requests' \in Seq({Payload(flags)}) /\ Len(requests) <= Len(requests')
    BY <1>1, <1>2, <1>3
  <2>3. TriggerOK' /\ FirstAnswer'
    BY <1>1, <1>2, <1>4, <2>1, <2>2 DEF TriggerOK
  <2>4. RequestsValid' /\ InOrder' /\ OkMeans'
    BY <1>1, <2>1 DEF TriggerInv, RequestsValid, InOrder, OkMeans
  <2> QED
    BY <2>3, <2>4 DEF TriggerInv
<1>11. CASE Report
  <2>1. /\ pc = "wait" /\ pc' = "ended" /\ UNCHANGED <<requests, waiter>>
        /\ \/ exit' = "error"
           \/ exit' = "ok" /\ waiter.settled = "result" /\ waiter.result.kind = "brief"
    BY <1>11 DEF Report, Commanded, Exit
  <2>2. requests # <<>>
    BY <2>1 DEF TriggerInv, InOrder
  <2>3. waiter.settled = "result" /\ waiter.result.kind = "brief" =>
            \E k \in 1 .. Len(results) : results[k] = [id |-> flags.id, kind |-> "brief"]
    <3>1. \A k \in 1 .. Len(results) : results[k] \in Result
      BY <1>1
    <3> QED
      BY <3>1 DEF TriggerInv, FirstAnswer, Result
  <2> QED
    BY <1>1, <1>4, <2>1, <2>2, <2>3
       DEF TriggerOK, TriggerInv, RequestsValid, InOrder, OkMeans
<1> QED
  BY <1>5, <1>6, <1>7, <1>8, <1>9, <1>10, <1>11 DEF TriggerStep

\* The service skips a request, or one is delivered to it once more.
LEMMA ServiceInv ==
  ASSUME TriggerOK, TriggerInv, SkipRequest \/ ServeAgain
  PROVE  TriggerOK' /\ TriggerInv'
<1>1. /\ served' \in Nat /\ served' <= Len(requests)
      /\ UNCHANGED <<flags, pc, exit, waiter, requests, results>>
  BY DEF TriggerOK, SkipRequest, ServeAgain
<1> QED
  BY <1>1 DEF TriggerOK, TriggerInv, RequestsValid, InOrder, FirstAnswer, Theirs, OkMeans

\* Nothing happens to the command.
LEMMA TriggerStays ==
  ASSUME TriggerOK, TriggerInv, UNCHANGED trigger
  PROVE  TriggerOK' /\ TriggerInv'
  BY DEF trigger, TriggerOK, TriggerInv, RequestsValid, InOrder, FirstAnswer, Theirs, OkMeans

-----------------------------------------------------------------------------
(* The retention job *)

\* The rows of policies the job has to work on, and their tables.
DueRows == {k \in DOMAIN PolicySeq : Selected(PolicySeq[k])}
TableAt(k) == PolicySeq[k].table
DueTables == {TableAt(k) : k \in DueRows} \cap Handlers

\* The types of the job.
JobOK ==
    job \in [step : {"start", "delete", "stamp", "ended"}, queue : SUBSET DueRows,
             succeeded : SUBSET STRING, failed : SUBSET STRING,
             exit : {"running", "ok", "failed"}]

\* What was too old in a table when the job started is gone.
Clean(t) == atStart[t] \cap expired[t] = {}

\* A table that is due failed, is clean and stamped, or has its turn to come;
\* one that is stamped next is clean.
JobInv ==
    /\ job.step = "start" => job.failed = {} /\ job.exit = "running"
    /\ job.step = "stamp" =>
          job.queue # {} /\ Head1.table \in Handlers /\ Clean(Head1.table)
    /\ job.step # "start" /\ (job.step = "ended" => job.exit = "ok" \/ job.failed # {}) =>
          \A t \in DueTables \ job.failed :
              \/ Clean(t) /\ t \in stamped
              \/ job.step # "ended" /\ \E k \in job.queue : TableAt(k) = t
    /\ job.step = "ended" /\ (job.exit = "ok" \/ job.failed # {}) =>
          (job.failed # {} <=> job.exit = "failed")

\* Tables that are due exist.
LEMMA DueExist ==
  /\ DueTables \subseteq Tables /\ DOMAIN PolicySeq \subseteq Nat
  /\ IsFiniteSet(DOMAIN PolicySeq)
  /\ \A k \in DueRows : /\ TableAt(k) \in STRING
                        /\ TableAt(k) \in Handlers => TableAt(k) \in Tables
<1>1. DOMAIN PolicySeq = 1 .. Len(PolicySeq) /\ Len(PolicySeq) \in Nat
  BY RetentionAssumption
<1>2. IsFiniteSet(1 .. Len(PolicySeq))
  BY <1>1, FS_Interval
<1>3. \A k \in 1 .. Len(PolicySeq) : PolicySeq[k].table \in STRING
  <2> DEFINE P == [table : STRING, days : Int, enabled : BOOLEAN]
  <2>1. \A p \in P : p.table \in STRING
    OBVIOUS
  <2>2. PolicySeq \in Seq(P)
    BY RetentionAssumption
  <2> HIDE DEF P
  <2>3. \A k \in 1 .. Len(PolicySeq) : PolicySeq[k] \in P
    BY <1>1, <2>2
  <2> QED
    BY <2>1, <2>3
<1>4. \A k \in DueRows : TableAt(k) \in Handlers => TableAt(k) \in Tables
  BY RetentionAssumption DEF DueRows, TableAt
<1> QED
  BY <1>1, <1>2, <1>3, <1>4 DEF DueTables, DueRows, TableAt

\* The row at hand is one of those left.
LEMMA HeadIs ==
  ASSUME JobOK, job.queue # {}
  PROVE  /\ Min(job.queue) \in job.queue /\ Head1.table = TableAt(Min(job.queue))
         /\ Rest \subseteq job.queue
         /\ \A k \in job.queue : k \in Rest \/ TableAt(k) = Head1.table
<1>1. job.queue \subseteq Nat
  BY DueExist DEF JobOK, DueRows
<1>2. IsFiniteSet(job.queue)
  BY DueExist, FS_Subset DEF JobOK, DueRows
<1>3. \E k \in job.queue : \A j \in job.queue : k <= j
  <2> DEFINE S == job.queue
  <2>1. S \subseteq Nat /\ IsFiniteSet(S) /\ S # {}
    BY <1>1, <1>2
  <2> HIDE DEF S
  <2>2. S \subseteq Nat => \E k \in S : \A j \in S : k <= j
    BY <2>1, LeastMember
  <2> QED
    BY <2>1, <2>2 DEF S
<1>4. Min(job.queue) \in job.queue
  BY <1>3 DEF Min
<1> QED
  BY <1>4 DEF Rest, Head1, TableAt

\* Rows come and go in the tables, the job stays.
LEMMA JobStays ==
  ASSUME TablesOK, JobOK, JobInv, ExpiredMoves, UNCHANGED retention
  PROVE  JobOK' /\ JobInv'
<1>1. UNCHANGED <<job, stamped, atStart>>
  BY DEF retention
<1>2. \A t \in Tables : Clean(t) => Clean(t)'
  BY <1>1 DEF Clean, ExpiredMoves
<1>3. job.step = "stamp" => Head1.table \in Tables
  BY HeadIs, DueExist DEF JobInv, JobOK
<1>4. JobOK'
  BY <1>1 DEF JobOK
<1> QED
  BY <1>1, <1>2, <1>3, <1>4, DueExist DEF JobInv, Head1

\* The job starts with the rows that are due.
LEMMA FindInv ==
  ASSUME JobOK, JobInv, FindPolicies \/ FindPoliciesFails
  PROVE  JobOK' /\ JobInv'
<1>1. job.step = "start" /\ job.failed = {} /\ job.exit = "running"
  BY DEF FindPolicies, FindPoliciesFails, JobInv
<1>2. /\ job.succeeded \in SUBSET STRING /\ job.failed \in SUBSET STRING
      /\ job.queue \in SUBSET DueRows
      /\ job = [step |-> job.step, queue |-> job.queue, succeeded |-> job.succeeded,
                failed |-> job.failed, exit |-> job.exit]
  BY DEF JobOK
<1>3. ASSUME FindPolicies
      PROVE  /\ job'.step = "delete" /\ job'.queue = DueRows /\ job'.failed = {}
             /\ job'.exit = "running" /\ JobOK'
  <2>1. job' = [step |-> "delete", queue |-> DueRows, succeeded |-> job.succeeded,
                failed |-> job.failed, exit |-> job.exit]
    BY <1>2, <1>3 DEF FindPolicies, DueRows
  <2> QED
    BY <1>1, <1>2, <2>1 DEF JobOK
<1>4. ASSUME FindPoliciesFails
      PROVE  job'.step = "ended" /\ job'.failed = {} /\ job'.exit = "failed" /\ JobOK'
  <2>1. job' = [step |-> "ended", queue |-> job.queue, succeeded |-> job.succeeded,
                failed |-> job.failed, exit |-> "failed"]
    BY <1>2, <1>4 DEF FindPoliciesFails
  <2> QED
    BY <1>1, <1>2, <2>1 DEF JobOK
<1>5. ASSUME FindPolicies
      PROVE  JobInv'
  BY <1>3, <1>5 DEF JobInv, DueTables
<1>6. ASSUME FindPoliciesFails
      PROVE  JobInv'
  BY <1>4, <1>6 DEF JobInv
<1> QED
  BY <1>3, <1>4, <1>5, <1>6

\* The table at hand is done with: it failed, or it is clean and stamped.
Done(failed) ==
    /\ job' = [job EXCEPT !.step = "delete", !.queue = Rest, !.succeeded = job'.succeeded,
                          !.failed = failed]
    /\ job'.succeeded \in SUBSET STRING

\* Then what was said of it before the step is true of the rest.
LEMMA DoneInv ==
  ASSUME TablesOK, JobOK, JobInv, job.step \in {"delete", "stamp"}, job.queue # {},
         ExpiredMoves, stamped \subseteq stamped', UNCHANGED atStart,
         NEW failed \in SUBSET STRING, job.failed \subseteq failed, Done(failed),
         \/ Head1.table \in failed
         \/ Head1.table \notin Handlers
         \/ Clean(Head1.table) /\ Head1.table \in stamped'
  PROVE  JobOK' /\ JobInv'
<1>1. /\ job'.step = "delete" /\ job'.queue = Rest /\ job'.failed = failed
      /\ job'.exit = job.exit /\ JobOK'
  <2>1. Rest \in SUBSET DueRows
    BY HeadIs DEF JobOK
  <2>2. /\ job.exit \in {"running", "ok", "failed"}
        /\ job = [step |-> job.step, queue |-> job.queue, succeeded |-> job.succeeded,
                  failed |-> job.failed, exit |-> job.exit]
    BY DEF JobOK
  <2> DEFINE done == job'.succeeded
  <2>3. done \in SUBSET STRING
    BY DEF Done
  <2>4. job' = [step |-> "delete", queue |-> Rest, succeeded |-> done, failed |-> failed,
                exit |-> job.exit]
    BY <2>2 DEF Done
  <2> HIDE DEF done
  <2> QED
    BY <2>1, <2>2, <2>3, <2>4 DEF JobOK
<1>2. \A t \in DueTables : Clean(t) => Clean(t)'
  BY DueExist DEF Clean, ExpiredMoves
<1>3. \A t \in DueTables \ job.failed :
          (Clean(t) /\ t \in stamped) \/ \E k \in job.queue : TableAt(k) = t
  BY DEF JobInv
<1>4. \A k \in job.queue : k \in Rest \/ TableAt(k) = Head1.table
  BY HeadIs
<1>5. \A t \in DueTables \ failed :
          (Clean(t)' /\ t \in stamped') \/ \E k \in Rest : TableAt(k) = t
  <2> SUFFICES ASSUME NEW t \in DueTables \ failed, \A k \in Rest : TableAt(k) # t
               PROVE  Clean(t)' /\ t \in stamped'
    OBVIOUS
  <2>1. CASE Clean(t) /\ t \in stamped
    BY <1>2, <2>1
  <2>2. CASE \E k \in job.queue : TableAt(k) = t
    <3>1. t = Head1.table /\ t \in Handlers
      BY <1>4, <2>2 DEF DueTables
    <3> QED
      BY <1>2, <3>1
  <2> QED
    BY <1>3, <2>1, <2>2
<1> QED
  BY <1>1, <1>5 DEF JobInv

\* A table is cleaned, and not yet stamped.
LEMMA DeleteInv ==
  ASSUME TablesOK, JobOK, JobInv, DeleteRows
  PROVE  JobOK' /\ JobInv'
<1>1. /\ job.step = "delete" /\ job.queue # {} /\ Head1.table \in Handlers
      /\ DeleteExpired(Head1.table) /\ UNCHANGED <<stamped, atStart>>
      /\ job' = [job EXCEPT !.step = "stamp"]
  BY DEF DeleteRows
<1>2. /\ job'.step = "stamp" /\ job'.queue = job.queue /\ job'.failed = job.failed
      /\ job'.exit = job.exit /\ JobOK'
  <2>1. job' = [step |-> "stamp", queue |-> job.queue, succeeded |-> job.succeeded,
                failed |-> job.failed, exit |-> job.exit]
    BY <1>1 DEF JobOK
  <2> QED
    BY <2>1 DEF JobOK
<1>3. Head1' = Head1
  BY <1>2 DEF Head1
<1>4. Head1.table \in Tables
  BY <1>1, HeadIs, DueExist DEF JobOK
<1>5. ExpiredMoves /\ expired'[Head1.table] = {}
  BY <1>1, <1>4, DeleteIs
<1>6. Clean(Head1.table)' /\ \A t \in DueTables : Clean(t) => Clean(t)'
  BY <1>1, <1>3, <1>5, DueExist DEF Clean, ExpiredMoves
<1> QED
  BY <1>1, <1>2, <1>3, <1>6 DEF JobInv

\* Whatever the job does, its report stays true.
LEMMA JobStep ==
  ASSUME TablesOK, JobOK, JobInv, RetentionStep \/ RetentionFault
  PROVE  JobOK' /\ JobInv'
<1>1. job.failed \in SUBSET STRING /\ job.succeeded \in SUBSET STRING
  BY DEF JobOK
<1>2. CASE SkipUnknown
  <2>1. Done(job.failed) /\ UNCHANGED <<tables, stamped, atStart>>
    <3>1. job' = [job EXCEPT !.queue = Rest] /\ job.step = "delete"
      BY <1>2 DEF SkipUnknown
    <3>2. job'.succeeded = job.succeeded
      BY <3>1 DEF JobOK
    <3> QED
      BY <1>1, <1>2, <3>1, <3>2 DEF SkipUnknown, Done, JobOK
  <2>2. ExpiredMoves
    BY <2>1, TablesStay
  <2>3. job.step = "delete" /\ job.queue # {} /\ Head1.table \notin Handlers
    BY <1>2 DEF SkipUnknown
  <2> QED
    BY <1>1, <2>1, <2>2, <2>3, DoneInv
<1>3. CASE Stamp
  <2>1. /\ job.step = "stamp" /\ stamped' = stamped \cup {Head1.table}
        /\ UNCHANGED <<tables, atStart>>
        /\ job' = [job EXCEPT !.step = "delete", !.queue = Rest,
                              !.succeeded = job.succeeded \cup {Head1.table}]
    BY <1>3 DEF Stamp
  <2>2. job.queue # {} /\ Clean(Head1.table)
    BY <2>1 DEF JobInv
  <2>3. Head1.table \in STRING
    BY <2>2, HeadIs, DueExist DEF JobOK
  <2>4. job'.succeeded = job.succeeded \cup {Head1.table}
    BY <2>1 DEF JobOK
  <2>5. Done(job.failed)
    BY <1>1, <2>1, <2>3, <2>4 DEF Done, JobOK
  <2>6. ExpiredMoves
    BY <2>1, TablesStay
  <2> QED
    BY <1>1, <2>1, <2>2, <2>5, <2>6, DoneInv
<1>4. CASE TableFails
  <2> DEFINE failed == job.failed \cup {Head1.table}
  <2>1. /\ job.step \in {"delete", "stamp"} /\ job.queue # {} /\ UNCHANGED atStart
        /\ job' = [job EXCEPT !.step = "delete", !.queue = Rest, !.failed = failed]
        /\ UNCHANGED tables \/ DeleteExpired(Head1.table)
        /\ stamped \subseteq stamped'
    BY <1>4 DEF TableFails
  <2>2. failed \in SUBSET STRING /\ job.failed \subseteq failed /\ Head1.table \in failed
    BY <1>1, <2>1, HeadIs, DueExist DEF JobOK
  <2> HIDE DEF failed
  <2>3. job'.succeeded = job.succeeded
    BY <2>1 DEF JobOK
  <2>4. Done(failed)
    BY <1>1, <2>1, <2>3 DEF Done, JobOK
  <2>5. ExpiredMoves
    BY <2>1, TablesStay, OldDeleted
  <2> QED
    BY <2>1, <2>2, <2>4, <2>5, DoneInv
<1>5. CASE EndJob
  <2>1. /\ job.step = "delete" /\ job.queue = {} /\ UNCHANGED <<tables, stamped, atStart>>
        /\ job' = [job EXCEPT !.step = "ended",
                              !.exit = IF job.failed = {} THEN "ok" ELSE "failed"]
    BY <1>5 DEF EndJob
  <2>2. /\ job'.step = "ended" /\ job'.queue = {} /\ job'.failed = job.failed /\ JobOK'
        /\ job'.exit = IF job.failed = {} THEN "ok" ELSE "failed"
    <3>1. job' = [step |-> "ended", queue |-> job.queue, succeeded |-> job.succeeded,
                  failed |-> job.failed,
                  exit |-> IF job.failed = {} THEN "ok" ELSE "failed"]
      BY <2>1 DEF JobOK
    <3> QED
      BY <2>1, <3>1 DEF JobOK
  <2>3. \A t \in DueTables \ job.failed : Clean(t) /\ t \in stamped
    BY <2>1 DEF JobInv
  <2>4. \A t : Clean(t)' <=> Clean(t)
    BY <2>1 DEF Clean, tables
  <2> QED
    BY <2>1, <2>2, <2>3, <2>4 DEF JobInv
<1> QED
  BY <1>2, <1>3, <1>4, <1>5, FindInv, DeleteInv DEF RetentionStep, RetentionFault

-----------------------------------------------------------------------------
(* The command that enriches events *)

\* The types of the command; what it found at first never changes.
EnrichOK ==
    /\ run \in Runs \cup {None}
    /\ cursor \in Nat
    /\ run # None => remaining \in Int \cup {None}
    /\ run # None /\ run.limit = None => remaining = None
    /\ ended \in {"no", "ok", "failed"}
    /\ DOMAIN before \subseteq Nat \ DOMAIN Arriving
    /\ \A id \in DOMAIN before : before[id] = [f \in DOMAIN before[id] |-> before[id][f]]

\* What the command makes of a row.
NextRow(id) == Updated(run, before[id], before[id], Transformed(run, before[id]))
Asked(id) == ~run.dryRun /\ Wanted(run, before[id])

\* The plan has one update for each of some rows behind the cursor, made from
\* the row as it was at first.
PlanExact ==
    /\ ended # "no" => plan = {}
    /\ \A u, v \in plan : u.id = v.id => u = v
    /\ \A u \in plan :
          /\ u.id \in Nat /\ u.id <= cursor
          /\ u.id \in DOMAIN before =>
                /\ Asked(u.id)
                /\ u.read = before[u.id] /\ u.next = Transformed(run, before[u.id])

\* Every row ahead of the cursor, in the plan or not asked for is as at first,
\* every other one is done, unless the command failed.
RowsExact ==
    \A id \in DOMAIN before \cap DOMAIN Rows :
        IF ~Asked(id) \/ id > cursor \/ id \in Planned THEN Rows[id] = before[id]
        ELSE /\ Rows[id] \in {before[id], NextRow(id)}
             /\ ended # "failed" => Rows[id] = NextRow(id)

\* A command that ended well without a limit left none ahead of its cursor.
AllRead ==
    ended = "ok" /\ run.limit = None =>
        \A id \in DOMAIN before \cap DOMAIN Rows : Asked(id) => id <= cursor

EnrichInv == run # None => PlanExact /\ RowsExact /\ AllRead

\* Rows come and go, the command stays.
LEMMA EnrichStays ==
  ASSUME EnrichOK, EnrichInv, RowsMove, UNCHANGED enrichment
  PROVE  EnrichOK' /\ EnrichInv'
<1>1. UNCHANGED <<run, cursor, remaining, plan, ended, before>>
  BY DEF enrichment
<1>2. EnrichOK'
  BY <1>1 DEF EnrichOK
<1>3. PlanExact => PlanExact'
  BY <1>1 DEF PlanExact, Asked
<1>4. \A id \in DOMAIN before \cap DOMAIN Rows' : id \in DOMAIN Rows /\ Rows'[id] = Rows[id]
  BY DEF RowsMove, EnrichOK
<1>5. RowsExact => RowsExact'
  BY <1>1, <1>4 DEF RowsExact, Asked, NextRow, Planned
<1>6. AllRead => AllRead'
  BY <1>1, <1>4 DEF AllRead, Asked
<1> QED
  BY <1>1, <1>2, <1>3, <1>5, <1>6 DEF EnrichInv

\* How many rows a batch takes at most.
LEMMA LeftIs ==
  ASSUME EnrichOK, run # None
  PROVE  /\ Left \in Int
         /\ run.limit = None => Left \in Nat \ {0}
<1>1. run \in Runs /\ remaining \in Int \cup {None} /\ run.size \in Nat \ {0}
      /\ (run.limit = None => remaining = None)
  BY EnrichmentAssumption DEF EnrichOK
<1>2. CASE remaining = None
  BY <1>1, <1>2 DEF Left
<1>3. CASE remaining # None
  <2>1. run.size \in {run.size, remaining} /\ remaining \in {run.size, remaining}
        /\ run.size \in Int /\ remaining \in Int
    BY <1>1, <1>3
  <2>2. \E x \in {run.size, remaining} : \A y \in {run.size, remaining} : x <= y
    BY <2>1
  <2>3. Min({run.size, remaining}) \in {run.size, remaining}
    BY <2>2 DEF Min
  <2> QED
    BY <1>1, <1>3, <2>1, <2>3 DEF Left
<1> QED
  BY <1>2, <1>3

\* The rows ahead of the cursor.
LEMMA AheadIs ==
  ASSUME TablesOK, EnrichOK
  PROVE  /\ Ahead(Rows, cursor) \subseteq Nat /\ IsFiniteSet(Ahead(Rows, cursor))
         /\ Ahead(Rows, cursor) = {id \in DOMAIN Rows : id > cursor /\ Wanted(run, Rows[id])}
         /\ Batch(Rows, cursor) \subseteq Ahead(Rows, cursor)
<1>1. Ahead(Rows, cursor) \subseteq DOMAIN Rows
  BY DEF Ahead
<1>2. IsFiniteSet(Ahead(Rows, cursor))
  BY <1>1, FS_Subset DEF TablesOK
<1> QED
  BY <1>1, <1>2 DEF TablesOK, Ahead, Batch

\* A batch takes every row ahead that is below one it takes.
LEMMA BatchClosed ==
  ASSUME TablesOK, EnrichOK, run # None, NEW m \in Batch(Rows, cursor),
         NEW id \in Ahead(Rows, cursor), id <= m
  PROVE  id \in Batch(Rows, cursor)
<1> DEFINE A == Ahead(Rows, cursor)
           below(x) == {j \in A : j < x}
<1>1. A \subseteq Nat /\ IsFiniteSet(A) /\ m \in A /\ Left \in Int
  BY AheadIs, LeftIs
<1>2. Cardinality(below(m)) < Left
  BY DEF Batch
<1>3. below(id) \subseteq below(m) /\ below(m) \subseteq A
  BY <1>1
<1>4. IsFiniteSet(below(m)) /\ IsFiniteSet(below(id))
  BY <1>1, <1>3, FS_Subset
<1>5. /\ Cardinality(below(id)) <= Cardinality(below(m))
      /\ Cardinality(below(id)) \in Nat /\ Cardinality(below(m)) \in Nat
  BY <1>3, <1>4, FS_Subset, FS_CardinalityType
<1>6. Cardinality(below(id)) < Left
  BY <1>1, <1>2, <1>5
<1> QED
  BY <1>6 DEF Batch

\* Without a limit there is a batch as long as a row is ahead.
LEMMA BatchThere ==
  ASSUME TablesOK, EnrichOK, run # None, run.limit = None, Ahead(Rows, cursor) # {}
  PROVE  Batch(Rows, cursor) # {}
<1> DEFINE A == Ahead(Rows, cursor)
<1>1. A \subseteq Nat /\ IsFiniteSet(A) /\ A # {}
  BY AheadIs
<1>2. \E m \in A : \A y \in A : m <= y
  <2> HIDE DEF A
  <2> QED
    BY <1>1, LeastMember
<1>3. PICK m \in A : \A y \in A : m <= y
  BY <1>2
<1>4. {j \in A : j < m} = {}
  BY <1>1, <1>3
<1>5. Cardinality({j \in A : j < m}) = 0
  BY <1>4, FS_EmptySet
<1>6. Cardinality({j \in A : j < m}) < Left
  BY <1>5, LeftIs
<1> QED
  BY <1>6 DEF Batch

\* A row the command does not differ from is as the command makes it.
LEMMA NoChange ==
  ASSUME EnrichOK, NEW id \in DOMAIN before,
         Written(run, before[id], Transformed(run, before[id])) = {}
  PROVE  NextRow(id) = before[id]
  BY DEF EnrichOK, NextRow, Updated

\* A batch is read, and the updates it needs are planned.
LEMMA ReadInv ==
  ASSUME TablesOK, EnrichOK, EnrichInv, ReadBatch
  PROVE  EnrichOK' /\ EnrichInv'
<1> DEFINE batch == Batch(Rows, cursor)
<1>1. /\ run # None /\ ended = "no" /\ plan = {} /\ batch # {}
      /\ cursor' = Max(batch)
      /\ remaining' = IF remaining = None THEN None ELSE remaining - Cardinality(batch)
      /\ plan' = IF run.dryRun THEN {}
                 ELSE {u \in {Update(id) : id \in batch} : Changes(u)}
      /\ UNCHANGED <<tables, run, ended, before>>
  BY DEF ReadBatch, Running
<1>2. /\ batch \subseteq Ahead(Rows, cursor) /\ batch \subseteq Nat /\ IsFiniteSet(batch)
      /\ Cardinality(batch) \in Nat
  BY AheadIs, FS_Subset, FS_CardinalityType
<1>3. cursor' \in batch /\ \A id \in batch : id <= cursor'
  <2> HIDE DEF batch
  <2>1. \E m \in batch : \A y \in batch : y <= m
    BY <1>1, <1>2, GreatestMember
  <2>2. \A y \in batch : y \in Nat
    BY <1>2
  <2>3. \E m \in batch : \A y \in batch : m >= y
    BY <2>1, <2>2
  <2>4. Max(batch) \in batch /\ \A y \in batch : Max(batch) >= y
    BY <2>3 DEF Max
  <2> QED
    BY <1>1, <2>2, <2>4
<1>4. cursor \in Nat /\ cursor' \in Nat /\ cursor < cursor'
  BY <1>2, <1>3, AheadIs DEF EnrichOK
<1>5. EnrichOK'
  BY <1>1, <1>2, <1>4 DEF EnrichOK
<1>6. \A id \in DOMAIN before \cap DOMAIN Rows :
          id \in Nat /\ (id > cursor => Rows[id] = before[id])
  BY <1>1 DEF EnrichInv, RowsExact, EnrichOK
<1>7. \A id \in batch : id \in DOMAIN Rows /\ id > cursor /\ Wanted(run, Rows[id])
  BY <1>2, AheadIs
<1> DEFINE U(id) == [id |-> id, read |-> Rows[id], next |-> Transformed(run, Rows[id])]
<1>8. \A u \in plan' : ~run.dryRun /\ \E id \in batch : u = U(id)
  BY <1>1 DEF Update
<1>9. PlanExact'
  <2>1. \A u, v \in plan' : u.id = v.id => u = v
    BY <1>8
  <2>2. \A u \in plan' : /\ u.id \in batch /\ u.read = Rows[u.id]
                         /\ u.next = Transformed(run, Rows[u.id]) /\ ~run.dryRun
    BY <1>8
  <2>3. \A u \in plan' :
          /\ u.id \in Nat /\ u.id <= cursor'
          /\ u.id \in DOMAIN before =>
                /\ Asked(u.id)
                /\ u.read = before[u.id] /\ u.next = Transformed(run, before[u.id])
    BY <1>2, <1>3, <1>6, <1>7, <2>2 DEF Asked
  <2> QED
    BY <1>1, <2>1, <2>3 DEF PlanExact, Asked
<1>10. RowsExact'
  <2> SUFFICES ASSUME NEW id \in DOMAIN before \cap DOMAIN Rows
               PROVE  IF ~Asked(id) \/ id > cursor' \/ id \in Planned'
                      THEN Rows[id] = before[id]
                      ELSE Rows[id] = NextRow(id)
    BY <1>1 DEF RowsExact, Asked, NextRow, tables, Rows
  <2>1. /\ id \in Nat /\ Planned = {}
        /\ IF ~Asked(id) \/ id > cursor THEN Rows[id] = before[id]
           ELSE Rows[id] = NextRow(id)
    BY <1>1, <1>6 DEF EnrichInv, RowsExact, Planned
  <2>2. id \in Planned' => id > cursor
    BY <1>7, <1>8 DEF Planned
  <2>3. ASSUME Asked(id), id > cursor, ~(id > cursor'), id \notin Planned'
        PROVE  NextRow(id) = before[id]
    <3>1. Rows[id] = before[id]
      BY <1>6, <2>3
    <3>2. id \in Ahead(Rows, cursor) /\ id <= cursor'
      BY <1>4, <2>1, <2>3, <3>1, AheadIs DEF Asked
    <3>3. id \in batch
      BY <1>1, <1>3, <3>2, BatchClosed
    <3>4. U(id) \notin plan'
      BY <2>3 DEF Planned
    <3>5. ~Changes(U(id))
      BY <1>1, <2>3, <3>3, <3>4 DEF Update, Asked
    <3> QED
      BY <3>1, <3>5, NoChange DEF Changes
  <2> QED
    BY <1>4, <2>1, <2>2, <2>3
<1>11. AllRead'
  BY <1>1 DEF AllRead
<1> QED
  BY <1>5, <1>9, <1>10, <1>11 DEF EnrichInv

\* The planned updates are written: every planned row is as the command makes it.
LEMMA WriteInv ==
  ASSUME TablesOK, EnrichOK, EnrichInv, Running, ApplyPlan, plan' = {},
         ended' \in {"no", "failed"}, UNCHANGED <<run, cursor, remaining, before>>
  PROVE  EnrichOK' /\ EnrichInv'
<1>1. run # None /\ PlanExact /\ RowsExact /\ ended = "no"
  BY DEF Running, EnrichInv
<1>2. EnrichOK'
  BY DEF EnrichOK
<1>3. PlanExact'
  BY <1>1 DEF PlanExact
<1>4. /\ DOMAIN Rows' = DOMAIN Rows
      /\ \A id \in DOMAIN Rows : Rows'[id] = IF id \in Planned THEN NextOf(id) ELSE Rows[id]
  BY ApplyIs
<1>5. \A id \in DOMAIN before \cap DOMAIN Rows :
          id \in Planned => Rows'[id] = NextRow(id) /\ Asked(id) /\ id \in Nat /\ id <= cursor
  <2> SUFFICES ASSUME NEW id \in DOMAIN before \cap DOMAIN Rows, id \in Planned
               PROVE  Rows'[id] = NextRow(id) /\ Asked(id) /\ id \in Nat /\ id <= cursor
    OBVIOUS
  <2> DEFINE u == CHOOSE v \in plan : v.id = id
  <2>1. u \in plan /\ u.id = id
    BY DEF Planned
  <2> HIDE DEF u
  <2>2. /\ Asked(id) /\ id \in Nat /\ id <= cursor
        /\ u.read = before[id] /\ u.next = Transformed(run, before[id])
    BY <1>1, <2>1 DEF PlanExact
  <2>3. Rows[id] = before[id]
    BY <1>1 DEF RowsExact
  <2>4. NextOf(id) = Updated(run, Rows[id], u.read, u.next)
    BY DEF NextOf, u
  <2> QED
    BY <1>4, <2>2, <2>3, <2>4 DEF NextRow
<1>6. RowsExact'
  <2> SUFFICES ASSUME NEW id \in DOMAIN before \cap DOMAIN Rows
               PROVE  IF ~Asked(id) \/ id > cursor THEN Rows'[id] = before[id]
                      ELSE Rows'[id] = NextRow(id)
    BY <1>4 DEF RowsExact, Asked, NextRow, Planned
  <2>1. cursor \in Nat
    BY DEF EnrichOK
  <2>2. IF ~Asked(id) \/ id > cursor \/ id \in Planned THEN Rows[id] = before[id]
        ELSE Rows[id] = NextRow(id)
    BY <1>1 DEF RowsExact
  <2> QED
    BY <1>4, <1>5, <2>1, <2>2
<1>7. AllRead'
  BY DEF AllRead
<1> QED
  BY <1>2, <1>3, <1>6, <1>7 DEF EnrichInv

\* The command ends with the tables as they are.
LEMMA StopInv ==
  ASSUME TablesOK, EnrichOK, EnrichInv, Running, UNCHANGED tables, plan' = {},
         \/ ended' = "failed"
         \/ ended' = "ok" /\ plan = {} /\ Batch(Rows, cursor) = {},
         UNCHANGED <<run, cursor, remaining, before>>
  PROVE  EnrichOK' /\ EnrichInv'
<1>1. run # None /\ PlanExact /\ RowsExact /\ ended = "no"
  BY DEF Running, EnrichInv
<1>2. EnrichOK'
  BY DEF EnrichOK
<1>3. PlanExact'
  BY <1>1 DEF PlanExact
<1>4. Rows' = Rows
  BY DEF tables, Rows
<1>5. RowsExact'
  <2> SUFFICES ASSUME NEW id \in DOMAIN before \cap DOMAIN Rows
               PROVE  IF ~Asked(id) \/ id > cursor THEN Rows[id] = before[id]
                      ELSE /\ Rows[id] \in {before[id], NextRow(id)}
                           /\ ended' # "failed" => Rows[id] = NextRow(id)
    BY <1>4 DEF RowsExact, Asked, NextRow, Planned
  <2>1. IF ~Asked(id) \/ id > cursor \/ id \in Planned THEN Rows[id] = before[id]
        ELSE Rows[id] = NextRow(id)
    BY <1>1 DEF RowsExact
  <2>2. ended' # "failed" => Planned = {}
    BY DEF Planned
  <2> QED
    BY <2>1, <2>2
<1>6. AllRead'
  <2> SUFFICES ASSUME ended' = "ok", run.limit = None,
                      NEW id \in DOMAIN before \cap DOMAIN Rows, Asked(id), ~(id <= cursor)
               PROVE  FALSE
    BY <1>4 DEF AllRead, Asked
  <2>1. id > cursor /\ id \in DOMAIN Rows
    BY DEF EnrichOK
  <2>2. Wanted(run, Rows[id])
    BY <1>1, <2>1 DEF RowsExact, Asked
  <2>3. Ahead(Rows, cursor) # {}
    BY <2>1, <2>2, AheadIs
  <2> QED
    BY <1>1, <2>3, BatchThere
<1> QED
  BY <1>2, <1>3, <1>5, <1>6 DEF EnrichInv

\* Every step of the command.
LEMMA EnrichStepInv ==
  ASSUME TablesOK, EnrichOK, EnrichInv, EnrichStep \/ EnrichFails
  PROVE  EnrichOK' /\ EnrichInv'
<1>1. CASE Transaction
  BY <1>1, WriteInv DEF Transaction, Running
<1>2. CASE RowGone
  BY <1>2, StopInv DEF RowGone
<1>3. CASE EndEnrich
  BY <1>3, StopInv DEF EndEnrich
<1>4. CASE EnrichFails
  BY <1>4, StopInv, WriteInv DEF EnrichFails
<1> QED
  BY <1>1, <1>2, <1>3, <1>4, ReadInv DEF EnrichStep

-----------------------------------------------------------------------------
(* All together *)

\* The inductive invariant: the tables, and each part with its types.
OperationsInv ==
    /\ TablesOK
    /\ TriggerOK /\ TriggerInv
    /\ EnrichOK /\ EnrichInv
    /\ JobOK /\ JobInv

\* It holds at first.
LEMMA InitInv == Init => OperationsInv
<1> SUFFICES ASSUME Init
             PROVE  OperationsInv
  OBVIOUS
<1>1. PICK start \in InitialTables : db = start.db /\ expired = start.expired
  BY DEF Init
<1>2. TablesOK
  BY <1>1, OperationsAssumption DEF TablesOK, Rows, Keys
<1>3. TriggerOK /\ TriggerInv
  <2>1. /\ flags \in Calls \cup {None} /\ pc = "config" /\ exit = "running"
        /\ waiter = [settled |-> "no", result |-> None, timer |-> FALSE, next |-> 1]
        /\ requests = <<>> /\ served = 0 /\ results \in Seq(Result)
    BY BriefTriggerAssumption DEF Init, InitTrigger
  <2>2. waiter \in Waiter
    BY <2>1 DEF Waiter
  <2>3. Len(results) \in Nat /\ Len(requests) = 0 /\ requests \in Seq({Payload(flags)})
    BY <2>1
  <2> QED
    BY <2>1, <2>2, <2>3
       DEF TriggerOK, TriggerInv, RequestsValid, InOrder, FirstAnswer, Theirs, OkMeans
<1>4. EnrichOK /\ EnrichInv
  <2>1. /\ run \in Runs \cup {None} /\ cursor = 0 /\ plan = {} /\ before = Rows
        /\ remaining = IF run = None THEN None ELSE run.limit
        /\ ended = "no"
    BY DEF Init, InitEnrichment
  <2>2. /\ DOMAIN Rows \subseteq (Nat \ {0}) \ DOMAIN Arriving
        /\ \A id \in DOMAIN Rows : Rows[id] = [f \in DOMAIN Rows[id] |-> Rows[id][f]]
    BY <1>1, OperationsAssumption DEF Rows
  <2>3. run # None => remaining \in Nat \cup {None}
    BY <2>1, EnrichmentAssumption
  <2>4. \A id \in DOMAIN Rows : id > 0
    BY <2>2
  <2>5. EnrichOK
    BY <2>1, <2>2, <2>3 DEF EnrichOK
  <2> QED
    BY <2>1, <2>4, <2>5 DEF EnrichInv, PlanExact, RowsExact, AllRead, Planned
<1>5. JobOK /\ JobInv
  <2>1. job = [step |-> "start", queue |-> {}, succeeded |-> {}, failed |-> {},
               exit |-> "running"]
    BY DEF Init, InitRetention
  <2> QED
    BY <2>1 DEF JobOK, JobInv
<1> QED
  BY <1>2, <1>3, <1>4, <1>5 DEF OperationsInv

\* A step of the part of the trigger, of the enrichment, or of the retention.
LEMMA NextInv == OperationsInv /\ [Next]_vars => OperationsInv'
<1> SUFFICES ASSUME OperationsInv, [Next]_vars
             PROVE  OperationsInv'
  OBVIOUS
<1>1. /\ TablesOK /\ TriggerOK /\ TriggerInv
      /\ EnrichOK /\ EnrichInv /\ JobOK /\ JobInv
  BY DEF OperationsInv
<1>2. CASE Trigger
  <2>1. RequestsValid /\ UNCHANGED <<enrichment, retention>>
    BY <1>1, <1>2 DEF TriggerInv, Trigger
  <2>2. /\ TriggerOK' /\ TriggerInv'
        /\ TablesOK' /\ RowsMove /\ ExpiredMoves
    <3>1. CASE \E result \in Result : Answered(result) /\ Put("brief_results", flags.id, result)
      BY <1>1, <3>1, AnsweredInv, ResultPut
    <3>2. CASE UNCHANGED tables /\ \E result \in Result : Answered(result)
      BY <1>1, <3>2, AnsweredInv, TablesStay
    <3>3. CASE /\ UNCHANGED tables
               /\ \/ TriggerStep \/ TriggerFault \/ Deliver \/ TimesOut
                  \/ SkipRequest \/ ServeAgain
      <4>1. TablesOK' /\ RowsMove /\ ExpiredMoves
        BY <1>1, <3>3, TablesStay
      <4>2. TriggerOK' /\ TriggerInv'
        BY <1>1, <3>3, CommandInv, WaiterInv, ServiceInv DEF TriggerFault
      <4> QED
        BY <4>1, <4>2
    <3> QED
      BY <1>1, <1>2, <2>1, <3>1, <3>2, <3>3, TriggerMoves
  <2>3. EnrichOK' /\ EnrichInv'
    BY <1>1, <2>1, <2>2, EnrichStays
  <2>4. JobOK' /\ JobInv'
    BY <1>1, <2>1, <2>2, JobStays
  <2> QED
    BY <2>2, <2>3, <2>4 DEF OperationsInv
<1>3. CASE Enrich
  <2>1. UNCHANGED <<trigger, retention>>
    BY <1>3 DEF Enrich
  <2>2. TriggerOK' /\ TriggerInv'
    BY <1>1, <2>1, TriggerStays
  <2>3. TablesOK' /\ ExpiredMoves /\ EnrichOK' /\ EnrichInv'
    <3>1. CASE \E id \in DOMAIN Arriving : Persist(id)
      <4>1. PICK id \in DOMAIN Arriving : Persist(id)
        BY <3>1
      <4>2. /\ id \in DOMAIN Arriving \ DOMAIN Rows /\ UNCHANGED enrichment
            /\ Put("raw_events", id,
                   Prepare(Collected(Arriving[id].event, Arriving[id].declared)))
        BY <4>1 DEF Persist
      <4>3. TablesOK' /\ RowsMove /\ ExpiredMoves
        BY <1>1, <4>2, EventPut
      <4> QED
        BY <1>1, <4>2, <4>3, EnrichStays
    <3>2. CASE EnrichStep \/ EnrichFails
      <4>1. UNCHANGED tables \/ (ApplyPlan /\ UNCHANGED expired)
        BY <3>2 DEF EnrichStep, EnrichFails, ReadBatch, Transaction, RowGone, EndEnrich
      <4>2. TablesOK' /\ ExpiredMoves
        BY <1>1, <4>1, PlanApplied, TablesStay DEF ExpiredMoves
      <4> QED
        BY <1>1, <3>2, <4>2, EnrichStepInv
    <3> QED
      BY <1>3, <3>1, <3>2 DEF Enrich
  <2>4. JobOK' /\ JobInv'
    BY <1>1, <2>1, <2>3, JobStays
  <2> QED
    BY <2>2, <2>3, <2>4 DEF OperationsInv
<1>4. CASE Retain
  <2>1. UNCHANGED <<trigger, enrichment>> /\ (RetentionStep \/ RetentionFault)
    BY <1>4 DEF Retain
  <2>2. TriggerOK' /\ TriggerInv'
    BY <1>1, <2>1, TriggerStays
  <2>3. TablesOK' /\ RowsMove
    <3>1. UNCHANGED tables \/ DeleteExpired(Head1.table)
      BY <2>1 DEF RetentionStep, RetentionFault, FindPolicies, FindPoliciesFails, SkipUnknown,
                  DeleteRows, Stamp, TableFails, EndJob
    <3> QED
      BY <1>1, <3>1, TablesStay, OldDeleted
  <2>4. EnrichOK' /\ EnrichInv'
    BY <1>1, <2>1, <2>3, EnrichStays
  <2>5. JobOK' /\ JobInv'
    BY <1>1, <2>1, JobStep
  <2> QED
    BY <2>2, <2>3, <2>4, <2>5 DEF OperationsInv
<1>5. CASE UNCHANGED vars
  <2>1. UNCHANGED <<tables, trigger, enrichment, retention>>
    BY <1>5 DEF vars
  <2>2. TablesOK' /\ RowsMove /\ ExpiredMoves
    BY <1>1, <2>1, TablesStay
  <2> QED
    BY <1>1, <2>1, <2>2, TriggerStays, EnrichStays, JobStays DEF OperationsInv
<1> QED
  BY <1>2, <1>3, <1>4, <1>5 DEF Next

\* The tables, the commands and the job are always in a state of the invariant,
\* for any calls, tables, policies, arriving events and number of faults.
THEOREM InvHolds == Spec => []OperationsInv
  BY InitInv, NextInv, PTL DEF Spec

\* The types of the commands and the job.
THEOREM TypeCorrect == Spec => [](TablesOK /\ TriggerOK /\ EnrichOK /\ JobOK)
<1>1. OperationsInv => TablesOK /\ TriggerOK /\ EnrichOK /\ JobOK
  BY DEF OperationsInv
<1> QED
  BY <1>1, InvHolds, PTL

\* Every request a command publishes is understood by the service, whatever the
\* flags of the call, a glob that is too long aside.
THEOREM UnderstandsRequests == Spec => []RequestUnderstood
<1>1. ASSUME OperationsInv
      PROVE  RequestUnderstood
  <2> SUFFICES ASSUME NEW k \in DOMAIN requests
               PROVE  \/ Deserializes(requests[k])
                      \/ requests[k].query # None /\ "long" \in requests[k].query.globs
    BY DEF RequestUnderstood
  <2>1. requests \in Seq({Payload(flags)}) /\ RequestsValid
    BY <1>1 DEF OperationsInv, TriggerOK, TriggerInv
  <2>2. requests[k] = Payload(flags) /\ requests # <<>>
    BY <2>1
  <2>3. Valid(flags)
    BY <2>1, <2>2 DEF RequestsValid
  <2> QED
    BY <2>2, <2>3, ValidUnderstood
<1> QED
  BY <1>1, InvHolds, PTL

\* An exit code of 0 means a brief, a request nobody waits for or a dry run, and
\* what the waiter reports is the first result of its request, whichever
\* results were there before, are repeated or belong to others.
THEOREM ExitsTruthfully == Spec => []ExitTruthful
<1>1. ASSUME OperationsInv
      PROVE  ExitTruthful
  <2>1. results \in Seq(Result) /\ OkMeans /\ FirstAnswer
    BY <1>1 DEF OperationsInv, TriggerOK, TriggerInv
  <2>2. DOMAIN results = 1 .. Len(results) /\ Len(results) \in Nat
    BY <2>1
  <2>3. exit = "ok" =>
            \/ flags.dryRun /\ requests = <<>>
            \/ /\ requests # <<>>
               /\ flags.noWait \/ [id |-> flags.id, kind |-> "brief"] \in ToSet(results)
    BY <2>1, <2>2 DEF OkMeans, ToSet
  <2> DEFINE ours == {k \in DOMAIN results : results[k].id = flags.id}
  <2>4. ASSUME waiter.settled = "result"
        PROVE  ours # {} /\ waiter.result = results[CHOOSE k \in ours : \A j \in ours : k <= j]
    <3>1. PICK k \in 1 .. Len(results) : /\ results[k].id = flags.id
                                         /\ waiter.result = results[k] /\ Theirs(k)
      BY <2>1, <2>4 DEF FirstAnswer
    <3>2. k \in ours /\ \A j \in ours : j \in Nat /\ k <= j
      BY <2>2, <3>1 DEF Theirs
    <3> HIDE DEF ours
    <3>3. (CHOOSE i \in ours : \A j \in ours : i <= j) = k
      <4>1. \A i \in ours : (\A j \in ours : i <= j) => i = k
        BY <3>2
      <4> DEFINE first == CHOOSE i \in ours : \A j \in ours : i <= j
      <4>2. first \in ours /\ \A j \in ours : first <= j
        BY <3>2
      <4> HIDE DEF first
      <4>3. first = k
        BY <4>1, <4>2
      <4> QED
        BY <4>3 DEF first
    <3> QED
      BY <3>1, <3>2, <3>3
  <2> QED
    BY <2>3, <2>4 DEF ExitTruthful
<1> QED
  BY <1>1, InvHolds, PTL

\* Every row is as it was or as the command makes it, and a command that ended
\* well made every one that is still there, whatever the persister inserted and
\* the retention job deleted meanwhile.
THEOREM EnrichesAll == Spec => []EnrichedAll
<1>1. ASSUME OperationsInv
      PROVE  EnrichedAll
  <2> SUFFICES ASSUME run # None, NEW id \in DOMAIN before \cap DOMAIN Rows
               PROVE  IF run.dryRun \/ ~Wanted(run, before[id]) THEN Rows[id] = before[id]
                      ELSE /\ Rows[id] \in {before[id], NextRow(id)}
                           /\ ended = "ok" /\ run.limit = None => Rows[id] = NextRow(id)
    BY DEF EnrichedAll, NextRow
  <2>1. EnrichOK /\ PlanExact /\ RowsExact /\ AllRead
    BY <1>1 DEF OperationsInv, EnrichInv
  <2>2. id \in Nat /\ cursor \in Nat
    BY <2>1 DEF EnrichOK
  <2>3. ended = "ok" => Planned = {}
    BY <2>1 DEF PlanExact, Planned
  <2>4. ended = "ok" /\ run.limit = None /\ Asked(id) => ~(id > cursor)
    BY <2>1, <2>2 DEF AllRead
  <2> QED
    BY <2>1, <2>3, <2>4 DEF RowsExact, Asked
<1> QED
  BY <1>1, InvHolds, PTL

\* The job reports what it did: after "ok" every table that is due is clean and
\* stamped, and after a failure every one that did not fail is.
THEOREM ReportsRetention == Spec => []RetentionReports
<1>1. ASSUME OperationsInv
      PROVE  RetentionReports
  <2> DEFINE due == {p.table : p \in {q \in ToSet(PolicySeq) : Selected(q)}} \cap Handlers
  <2>1. due = DueTables
    BY DEF DueTables, DueRows, TableAt, ToSet
  <2>2. JobInv
    BY <1>1 DEF OperationsInv
  <2>3. job.step = "ended" /\ (job.exit = "ok" \/ job.failed # {}) =>
            /\ \A t \in DueTables \ job.failed : Clean(t) /\ t \in stamped
            /\ job.failed # {} <=> job.exit = "failed"
    BY <2>2 DEF JobInv
  <2> HIDE DEF due
  <2>4. job.step = "ended" /\ (job.exit = "ok" \/ job.failed # {}) =>
            /\ \A t \in due \ job.failed : atStart[t] \cap expired[t] = {} /\ t \in stamped
            /\ job.failed # {} <=> job.exit = "failed"
    BY <2>1, <2>3 DEF Clean
  <2> QED
    BY <2>4 DEF RetentionReports, due
<1> QED
  BY <1>1, InvHolds, PTL

=============================================================================
