---------------------------- MODULE RetentionJob ----------------------------
(***************************************************************************)
(* The daily job that deletes what is older than its retention: table by   *)
(* table, first the rows and then the time of the cleanup.  A table that   *)
(* fails is noted and the job goes on; in the end any failure makes it     *)
(* exit with an error.                                                     *)
(***************************************************************************)
EXTENDS ReadModel, Integers, Sequences, SequencesExt

CONSTANTS PolicySeq     \* rows of retention_policies, in order of their names

\* Policies whose name no handler knows are skipped.
Handlers == {"brief_results", "consumer_lag", "discovery_candidates",
             "raw_events", "trend_snapshots"}

\* Rows of policies that are enabled and keep a positive number of days.
Selected(policy) == policy.enabled /\ policy.days > 0

ASSUME RetentionAssumption ==
    /\ PolicySeq \in Seq([table : STRING, days : Int, enabled : BOOLEAN])
    /\ \A k \in DOMAIN PolicySeq :
          LET p == PolicySeq[k] IN Selected(p) /\ p.table \in Handlers => p.table \in Tables

VARIABLES
    job,         \* [step, queue, succeeded, failed, exit] of the job, the queue as
                 \* the positions in PolicySeq of the rows it has left
    stamped,     \* tables whose last_cleanup_at this run wrote
    atStart      \* history: the expired keys of each table when it started

retention == <<job, stamped, atStart>>

InitRetention ==
    /\ job = [step |-> "start", queue |-> {}, succeeded |-> {}, failed |-> {},
              exit |-> "running"]
    /\ stamped = {} /\ atStart = expired

Head1 == PolicySeq[Min(job.queue)]
Rest == job.queue \ {Min(job.queue)}

\* findMany: the policies are read once.
FindPolicies ==
    /\ job.step = "start"
    /\ job' = [job EXCEPT !.step = "delete", 
                          !.queue = {k \in DOMAIN PolicySeq : Selected(PolicySeq[k])}]
    /\ atStart' = expired
    /\ UNCHANGED <<tables, faults, stamped>>

FindPoliciesFails ==
    /\ job.step = "start" /\ Fault
    /\ job' = [job EXCEPT !.step = "ended", !.exit = "failed"]
    /\ UNCHANGED <<tables, stamped, atStart>>

SkipUnknown ==
    /\ job.step = "delete" /\ job.queue # {} /\ Head1.table \notin Handlers
    /\ job' = [job EXCEPT !.queue = Rest]
    /\ UNCHANGED <<tables, faults, stamped, atStart>>

DeleteRows ==
    /\ job.step = "delete" /\ job.queue # {} /\ Head1.table \in Handlers
    /\ DeleteExpired(Head1.table)
    /\ job' = [job EXCEPT !.step = "stamp"]
    /\ UNCHANGED <<faults, stamped, atStart>>

Stamp ==
    /\ job.step = "stamp"
    /\ stamped' = stamped \cup {Head1.table}
    /\ job' = [job EXCEPT !.step = "delete", !.queue = Rest,
                          !.succeeded = @ \cup {Head1.table}]
    /\ UNCHANGED <<tables, faults, atStart>>

\* Variant of TableFails: an error is logged, and the table counts as cleaned.
TableFailsSwallowed ==
    /\ job.step \in {"delete", "stamp"} /\ job.queue # {}
    /\ Head1.table \in Handlers /\ Fault
    /\ job' = [job EXCEPT !.step = "delete", !.queue = Rest,
                          !.succeeded = @ \cup {Head1.table}]
    /\ UNCHANGED <<tables, stamped, atStart>>

\* Either statement fails, before or after it took effect: the rows may be gone
\* of a table that counts as failed.
TableFails ==
    /\ job.step \in {"delete", "stamp"} /\ job.queue # {}
    /\ Head1.table \in Handlers /\ Fault
    /\ job' = [job EXCEPT !.step = "delete", !.queue = Rest,
                          !.failed = @ \cup {Head1.table}]
    /\ \/ UNCHANGED <<tables, stamped>>
       \/ job.step = "delete" /\ DeleteExpired(Head1.table) /\ UNCHANGED stamped
       \/ job.step = "stamp" /\ stamped' = stamped \cup {Head1.table} /\ UNCHANGED tables
    /\ UNCHANGED atStart

EndJob ==
    /\ job.step = "delete" /\ job.queue = {}
    /\ job' = [job EXCEPT !.step = "ended",
                          !.exit = IF job.failed = {} THEN "ok" ELSE "failed"]
    /\ UNCHANGED <<tables, faults, stamped, atStart>>

RetentionStep == FindPolicies \/ SkipUnknown \/ DeleteRows \/ Stamp \/ EndJob
RetentionFault == FindPoliciesFails \/ TableFails

-----------------------------------------------------------------------------
(* Properties *)

\* The exit code tells what was done: after "ok" every selected table lost the
\* rows that were too old and has its time of cleanup, and a failure is of a
\* table that failed, all others having been cleaned like on a good day.
RetentionReports ==
    LET due == {p.table : p \in {q \in ToSet(PolicySeq) : Selected(q)}} \cap Handlers
    IN  job.step = "ended" /\ (job.exit = "ok" \/ job.failed # {}) =>
            /\ \A t \in due \ job.failed : atStart[t] \cap expired[t] = {} /\ t \in stamped
            /\ job.failed # {} <=> job.exit = "failed"

=============================================================================
