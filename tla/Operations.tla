----------------------------- MODULE Operations -----------------------------
(***************************************************************************)
(* What operators and schedules do beside the services: one command, to    *)
(* trigger a brief or to enrich the stored events, and the retention job,  *)
(* over the same tables.                                                   *)
(***************************************************************************)
EXTENDS BriefTrigger, EventEnrichment, RetentionJob

CONSTANTS InitialTables     \* [db, expired] to start from

\* Rows of raw_events are records under serial ids, which are never
\* used again.
ASSUME OperationsAssumption ==
    \A start \in InitialTables :
        LET stored == start.db["brief_results"]
            events == start.db["raw_events"]
        IN  /\ {"brief_results", "raw_events"} \subseteq Tables
            /\ DOMAIN start.db = Tables /\ DOMAIN start.expired = Tables
            /\ \A id \in DOMAIN stored : stored[id] \in Result
            /\ DOMAIN events \subseteq (Nat \ {0}) \ DOMAIN Arriving
            /\ IsFiniteSet(DOMAIN events)
            /\ \A id \in DOMAIN events :
                  events[id] = [field \in DOMAIN events[id] |-> events[id][field]]

vars == <<tables, faults, trigger, enrichment, retention>>

Init ==
    /\ \E start \in InitialTables : db = start.db /\ expired = start.expired
    /\ faults = 0
    /\ InitTrigger /\ InitEnrichment /\ InitRetention
    /\ flags = None <=> run # None

Trigger ==
    /\ TriggerStep \/ TriggerFault \/ Deliver \/ TimesOut
       \/ SkipRequest \/ Serve \/ ServeAgain
    /\ UNCHANGED <<enrichment, retention>>

Enrich ==
    /\ EnrichStep \/ EnrichFails \/ \E id \in DOMAIN Arriving : Persist(id)
    /\ UNCHANGED <<trigger, retention>>

Retain ==
    /\ RetentionStep \/ RetentionFault
    /\ UNCHANGED <<trigger, enrichment>>

Next == Trigger \/ Enrich \/ Retain
Spec == Init /\ [][Next]_vars

\* Calls are answered, and the timer of the waiter fires.
Fairness ==
    /\ WF_vars(TriggerStep /\ UNCHANGED <<enrichment, retention>>)
    /\ WF_vars(TimesOut /\ UNCHANGED <<enrichment, retention>>)
    /\ WF_vars(EnrichStep /\ UNCHANGED <<trigger, retention>>)
    /\ WF_vars(RetentionStep /\ UNCHANGED <<trigger, enrichment>>)

FairSpec == Spec /\ Fairness

-----------------------------------------------------------------------------
(* Properties *)

\* No command hangs: a waiter nobody answers, a publication that failed while
\* the waiter listens, rows that keep arriving or a job whose statements fail
\* all come to an end.
CommandsEnd ==
    <>(/\ flags # None => exit # "running"
       /\ run # None => ended # "no"
       /\ job.step = "ended")

=============================================================================
