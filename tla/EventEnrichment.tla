-------------------------- MODULE EventEnrichment --------------------------
(***************************************************************************)
(* The commands "events enrich" and "topics retag": batch by batch, in     *)
(* order of ids, rows of raw_events are read, topics and quality computed  *)
(* again, and the rows that differ written in one transaction.  Meanwhile  *)
(* the persister inserts rows, with ids that may show up out of order, and *)
(* the retention job deletes some.                                         *)
(***************************************************************************)
EXTENDS ReadModel, RawEventHydration

CONSTANTS
    Runs,        \* ways the command may be called, records [command, steps,
                 \* missingOnly, source, limit, size, dryRun]
    Arriving     \* ids the persister may insert: Arriving[id].event and .declared,
                 \* the topics its feed declares

ASSUME EnrichmentAssumption ==
    /\ \A call \in Runs : call.size \in Nat \ {0} /\ call.limit \in Nat \cup {None}
    /\ DOMAIN Arriving \subseteq Nat

VARIABLES
    run,         \* the call: a member of Runs, or None
    cursor,      \* id of the last row read
    remaining,   \* rows it may still read, or None without a limit
    plan,        \* updates of the batch at hand: records [id, read, next]
    ended,       \* "no", "ok" or "failed"
    before       \* history: the rows when the command started

enrichment == <<run, cursor, remaining, plan, ended, before>>

Rows == db["raw_events"]

InitEnrichment ==
    /\ run \in Runs \cup {None}
    /\ cursor = 0 /\ plan = {} /\ before = Rows
    /\ remaining = IF run = None THEN None ELSE run.limit
    /\ ended = "no"

-----------------------------------------------------------------------------
(* One row *)

Retagged(row) ==
    LET topics == ExtractTopics(Content(row))
    IN  [row EXCEPT !.tags = topics, !.topics = topics]

Step(name, row) == IF name = "retag" THEN Retagged(row) ELSE Prepare(row)

\* One step or both, in the order given.
Transformed(call, row) ==
    LET first == Step(call.steps[1], row)
    IN  IF Len(call.steps) = 1 THEN first ELSE Step(call.steps[2], first)

\* enrich writes the fields that differ, retag both lists when one differs.
ManagedFields == {"tags", "topics", "url", "text", "kind", "lang", "quality"}
Written(call, read, next) ==
    LET differ == {f \in ManagedFields : read[f] # next[f]}
    IN  IF call.command = "retag" /\ differ # {} THEN {"tags", "topics"} ELSE differ
Updated(call, row, read, next) ==
    [f \in DOMAIN row |-> IF f \in Written(call, read, next) THEN next[f] ELSE row[f]]

Wanted(call, row) ==
    /\ call.missingOnly => row.tags = <<>> \/ row.topics = <<>>
    /\ call.source \in {None, row.source}

-----------------------------------------------------------------------------
(* The command *)

Running == run # None /\ ended = "no"

Left == IF remaining = None THEN run.size ELSE Min({run.size, remaining})
Ahead(rows, above) == {id \in DOMAIN rows : id > above /\ Wanted(run, rows[id])}

\* Variant of Batch: findMany without orderBy, any rows above the cursor.
BatchUnordered(rows, above) ==
    LET ids == Ahead(rows, above)
    IN  {id \in ids : Cardinality({j \in ids : j > id}) < Left}

\* The rows with the lowest ids above the cursor.
Batch(rows, above) ==
    LET ids == Ahead(rows, above)
    IN  {id \in ids : Cardinality({j \in ids : j < id}) < Left}

Update(id) == [id |-> id, read |-> Rows[id], next |-> Transformed(run, Rows[id])]
Changes(u) == Written(run, u.read, u.next) # {}

ReadBatch ==
    LET batch == Batch(Rows, cursor)
    IN  /\ Running /\ plan = {} /\ batch # {}
        /\ cursor' = Max(batch)
        /\ remaining' = IF remaining = None THEN None ELSE remaining - Cardinality(batch)
        /\ plan' = IF run.dryRun THEN {} ELSE {u \in {Update(id) : id \in batch} : Changes(u)}
        /\ UNCHANGED <<tables, faults, run, ended, before>>

Planned == {u.id : u \in plan}
ApplyPlan ==
    LET update(id) == CHOOSE u \in plan : u.id = id
        written(id, row) == Updated(run, row, update(id).read, update(id).next)
    IN  db' = [db EXCEPT !["raw_events"] =
                  [id \in DOMAIN @ |-> IF id \in Planned THEN written(id, @[id]) ELSE @[id]]]

\* An update of a row that is gone fails the whole transaction.
AllThere == Planned \subseteq DOMAIN Rows

Transaction ==
    /\ Running /\ plan # {} /\ AllThere
    /\ ApplyPlan
    /\ plan' = {}
    /\ UNCHANGED <<expired, faults, run, cursor, remaining, ended, before>>

RowGone ==
    /\ Running /\ plan # {} /\ ~AllThere
    /\ ended' = "failed" /\ plan' = {}
    /\ UNCHANGED <<tables, faults, run, cursor, remaining, before>>

\* A query or a transaction fails, the latter perhaps after it was committed.
EnrichFails ==
    /\ Running /\ Fault
    /\ ended' = "failed" /\ plan' = {}
    /\ \/ UNCHANGED tables
       \/ plan # {} /\ AllThere /\ ApplyPlan /\ UNCHANGED expired
    /\ UNCHANGED <<run, cursor, remaining, before>>

EndEnrich ==
    /\ Running /\ plan = {} /\ Batch(Rows, cursor) = {}
    /\ ended' = "ok"
    /\ UNCHANGED <<tables, faults, run, cursor, remaining, plan, before>>

\* The collector adds the topics it finds to the tags of an event.
AddTags(tags, topics) == tags \o SelectSeq(topics, LAMBDA topic : topic \notin ToSet(tags))
Collected(event, declared) ==
    [event EXCEPT !.tags =
        AddTags(@, MergeDeclared(ExtractTopics(Content(event)), declared))]

\* The persister inserts a prepared event.
Persist(id) ==
    /\ run # None /\ id \in DOMAIN Arriving \ DOMAIN Rows
    /\ Put("raw_events", id, Prepare(Collected(Arriving[id].event, Arriving[id].declared)))
    /\ UNCHANGED <<faults, enrichment>>

EnrichStep == ReadBatch \/ Transaction \/ RowGone \/ EndEnrich

-----------------------------------------------------------------------------
(* Properties *)

\* A row is as it was or as the command makes it, whatever failed in between;
\* a row the filter leaves out, or any row of a dry run, is as it was.  And a
\* command that ends well, without a limit, did it to every row that was there
\* when it started and still is: none is skipped because the updates change
\* what the filter selects, or because rows come and go meanwhile.
EnrichedAll ==
    run # None =>
        \A id \in DOMAIN before \cap DOMAIN Rows :
            LET row  == before[id]
                next == Updated(run, row, row, Transformed(run, row))
            IN  IF run.dryRun \/ ~Wanted(run, row) THEN Rows[id] = row
                ELSE /\ Rows[id] \in {row, next}
                     /\ ended = "ok" /\ run.limit = None => Rows[id] = next

=============================================================================
