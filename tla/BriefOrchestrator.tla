------------------------- MODULE BriefOrchestrator -------------------------
(***************************************************************************)
(* The brief service answering the requests of one partition of            *)
(* summary.requests.  Several service instances (Workers) share a consumer *)
(* group: a batch is redelivered from the committed offset after a failed  *)
(* call, a crash or a rebalance, and an instance that lost the partition   *)
(* goes on with the batch it already fetched.  Every remote call of        *)
(* DefaultBriefOrchestrator.execute and of the failure handlers is a step, *)
(* so that the calls of two instances interleave.                          *)
(*                                                                         *)
(* The budget is seen here through the three calls of BriefBudgetGovernor  *)
(* (authorize, rollback, settle): charge[a] is the number of reservations  *)
(* of attempt a that stand.  BudgetLedger models what is behind them.      *)
(***************************************************************************)
EXTENDS Integers, Sequences

CONSTANTS
    Requests,     \* request ids
    Malformed,    \* the requests whose message does not deserialize
    Log,          \* the partition: a sequence of requests, duplicates allowed
    Workers,      \* service instances
    None,         \* no value
    Ambiguous,    \* the calls that may take effect and still report an error
    Retention,    \* TRUE: the retention job may delete a stored result, once
    MaxAttempts,  \* bound on the number of processing attempts
    MaxFaults     \* bound on failed calls, crashes and lost partitions

Attempt == 1 .. MaxAttempts
Calls == {"authorize", "rollback", "persist", "publish"}
FailureCode == {"llm_error", "grounding_error", "budget_exceeded"}
Payload == [status : {"success"} \cup FailureCode, by : Attempt]
Cause == {"grounding_error", "llm_error", "unknown"}
Label == {"idle", "resolve", "load", "authorize", "generate", "persist", "settle",
          "rollbackDuplicate", "rollback", "reload", "emit", "publish", "ack"}

ASSUME OrchestratorAssumption ==
    /\ Log \in Seq(Requests)
    /\ Malformed \subseteq Requests
    /\ Ambiguous \subseteq Calls
    /\ Retention \in BOOLEAN
    /\ MaxAttempts \in Nat
    /\ MaxFaults \in Nat
    /\ None \notin Workers \cup Payload \cup Cause

VARIABLES
    committed,    \* offset committed by the group: Log[1 .. committed] is done
    owner,        \* the instance the partition is assigned to, or None
    next,         \* next[w]: offset w handles next
    last,         \* last[w]: end of the batch w fetched; no batch if < next[w]
    pc,           \* the call w is about to make
    attempt,      \* the attempt w is running, 0 when it runs none
    payload,      \* the result w is about to persist or publish
    cause,        \* the error that made w roll its reservation back
    stored,       \* brief_results: the stored payload of a request, or None
    expired,      \* payloads the retention job deleted
    published,    \* summary.results: what was published for a request
    charge,       \* standing reservations of an attempt
    lost,         \* attempts whose release did not happen: crash, failed call
    generated,    \* how often a brief was generated for a request
    attempts,     \* attempts started so far
    faults        \* faults so far

groupVars   == <<committed, owner, next, last>>
jobVars     == <<pc, attempt, payload, cause>>
resultVars  == <<stored, expired, published>>
budgetVars  == <<charge, lost, generated>>
boundVars   == <<attempts, faults>>
vars == <<groupVars, jobVars, resultVars, budgetVars, boundVars>>

Init ==
    /\ committed = 0
    /\ owner = None
    /\ next = [w \in Workers |-> 1]
    /\ last = [w \in Workers |-> 0]
    /\ pc = [w \in Workers |-> "idle"]
    /\ attempt = [w \in Workers |-> 0]
    /\ payload = [w \in Workers |-> None]
    /\ cause = [w \in Workers |-> None]
    /\ stored = [r \in Requests |-> None]
    /\ expired = [r \in Requests |-> {}]
    /\ published = [r \in Requests |-> {}]
    /\ charge = [a \in Attempt |-> 0]
    /\ lost = {}
    /\ generated = [r \in Requests |-> 0]
    /\ attempts = 0
    /\ faults = 0

-----------------------------------------------------------------------------
(* Helpers *)

Request(w) == Log[next[w]]
Goto(w, label) == pc' = [pc EXCEPT ![w] = label]
Result(w, status) == [status |-> status, by |-> attempt[w]]
Prepare(w, result) == payload' = [payload EXCEPT ![w] = result]

Fault == faults < MaxFaults /\ faults' = faults + 1

\* The states in which the attempt of w holds a reservation it must still
\* turn into a stored result or give back.
Holding(w) == pc[w] \in {"generate", "persist", "rollback", "rollbackDuplicate"}

\* The handler of w returns or dies: its local variables are gone.
Finish(w) ==
    /\ Goto(w, "idle")
    /\ attempt' = [attempt EXCEPT ![w] = 0]
    /\ payload' = [payload EXCEPT ![w] = None]
    /\ cause' = [cause EXCEPT ![w] = None]

\* w's batch is abandoned and its session with the group ends.
EndSession(w) ==
    /\ Finish(w)
    /\ last' = [last EXCEPT ![w] = next[w] - 1]
    /\ owner' = IF owner = w THEN None ELSE owner

\* Variant of Throw: the message that failed is acknowledged too.
ThrowAcknowledged(w) ==
    /\ EndSession(w)
    /\ \/ committed' = committed
       \/ owner = w /\ committed' = next[w]
    /\ UNCHANGED next

\* An error leaves the message handler: nothing after it in the batch runs, and
\* the consumer commits what was acknowledged before it stops, if it can.
Throw(w) ==
    /\ EndSession(w)
    /\ \/ committed' = committed
       \/ owner = w /\ committed' = next[w] - 1
    /\ UNCHANGED next

\* resultStore.persist: an INSERT under the primary key request_id.
Insert(r, result) == stored' = [stored EXCEPT ![r] = result]

ReleaseCharge(w) == charge' = [charge EXCEPT ![attempt[w]] = @ - 1]
LoseCharge(w) == lost' = lost \cup {attempt[w]}

-----------------------------------------------------------------------------
(* Delivery: the consumer group and the batch loop. *)

Assign(w) ==
    /\ owner = None
    /\ pc[w] = "idle" /\ last[w] < next[w]
    /\ owner' = w
    /\ next' = [next EXCEPT ![w] = committed + 1]
    /\ last' = [last EXCEPT ![w] = committed]
    /\ UNCHANGED <<committed, jobVars, resultVars, budgetVars, boundVars>>

\* The group takes the partition from its owner, who is not interrupted: the
\* heartbeats sent while a request is processed swallow their errors.
LoseOwnership ==
    /\ owner # None
    /\ Fault
    /\ owner' = None
    /\ UNCHANGED <<committed, next, last, jobVars, resultVars, budgetVars, attempts>>

Fetch(w) ==
    /\ owner = w
    /\ pc[w] = "idle" /\ last[w] < next[w]
    /\ committed = next[w] - 1
    /\ \E end \in next[w] .. Len(Log) : last' = [last EXCEPT ![w] = end]
    /\ UNCHANGED <<committed, owner, next, jobVars, resultVars, budgetVars, boundVars>>

\* Variant of Commit: the offset of the next message instead of the last one.
CommitNext(w) ==
    /\ owner = w
    /\ pc[w] = "idle" /\ last[w] < next[w]
    /\ committed < next[w] - 1
    /\ committed' = next[w]
    /\ UNCHANGED <<owner, next, last, jobVars, resultVars, budgetVars, boundVars>>

\* The end of a batch; the commit of an instance that lost the partition is
\* refused by the group.
Commit(w) ==
    /\ owner = w
    /\ pc[w] = "idle" /\ last[w] < next[w]
    /\ committed < next[w] - 1
    /\ committed' = next[w] - 1
    /\ UNCHANGED <<owner, next, last, jobVars, resultVars, budgetVars, boundVars>>

\* isActive is false, or a heartbeat between two messages fails.
NoticeRebalance(w) ==
    /\ owner # w
    /\ pc[w] = "idle" /\ next[w] <= last[w]
    /\ last' = [last EXCEPT ![w] = next[w] - 1]
    /\ UNCHANGED <<committed, owner, next, jobVars, resultVars, budgetVars, boundVars>>

\* The next message of the batch; one that does not deserialize is skipped.
Deliver(w) ==
    /\ pc[w] = "idle" /\ next[w] <= last[w]
    /\ Request(w) \notin Malformed
    /\ attempts < MaxAttempts
    /\ attempts' = attempts + 1
    /\ attempt' = [attempt EXCEPT ![w] = attempts + 1]
    /\ Goto(w, "resolve")
    /\ UNCHANGED <<groupVars, payload, cause, resultVars, budgetVars, faults>>

\* Variant of Skip: the error of the deserializer leaves the handler.
SkipThrowing(w) ==
    /\ pc[w] = "idle" /\ next[w] <= last[w]
    /\ Request(w) \in Malformed
    /\ Throw(w)
    /\ UNCHANGED <<resultVars, budgetVars, boundVars>>

Skip(w) ==
    /\ pc[w] = "idle" /\ next[w] <= last[w]
    /\ Request(w) \in Malformed
    /\ next' = [next EXCEPT ![w] = @ + 1]
    /\ UNCHANGED <<committed, owner, last, jobVars, resultVars, budgetVars, boundVars>>

Ack(w) ==
    /\ pc[w] = "ack"
    /\ next' = [next EXCEPT ![w] = @ + 1]
    /\ Finish(w)
    /\ UNCHANGED <<committed, owner, last, resultVars, budgetVars, boundVars>>

-----------------------------------------------------------------------------
(* One attempt. *)

\* Query-mode resolution runs before the idempotency check; when it fails for
\* good its failure result is emitted.
Resolve(w) ==
    /\ pc[w] = "resolve"
    /\ \/ Goto(w, "load") /\ UNCHANGED payload
       \/ Goto(w, "emit") /\ Prepare(w, Result(w, "grounding_error"))
    /\ UNCHANGED <<groupVars, attempt, cause, resultVars, budgetVars, boundVars>>

\* Variant of Load: a stored failure does not count as an answer.
LoadSuccess(w) ==
    /\ pc[w] = "load"
    /\ IF stored[Request(w)] # None /\ stored[Request(w)].status = "success"
         THEN Goto(w, "publish") /\ Prepare(w, stored[Request(w)])
         ELSE Goto(w, "authorize") /\ UNCHANGED payload
    /\ UNCHANGED <<groupVars, attempt, cause, resultVars, budgetVars, boundVars>>

\* Phase 1: a stored result is published again.
Load(w) ==
    /\ pc[w] = "load"
    /\ IF stored[Request(w)] # None
         THEN Goto(w, "publish") /\ Prepare(w, stored[Request(w)])
         ELSE Goto(w, "authorize") /\ UNCHANGED payload
    /\ UNCHANGED <<groupVars, attempt, cause, resultVars, budgetVars, boundVars>>

\* Phase 2: reserve the estimated cost, or emit budget_exceeded.
Authorize(w) ==
    /\ pc[w] = "authorize"
    /\ \/ /\ charge' = [charge EXCEPT ![attempt[w]] = @ + 1]
          /\ Goto(w, "generate")
          /\ UNCHANGED payload
       \/ /\ Goto(w, "emit")
          /\ Prepare(w, Result(w, "budget_exceeded"))
          /\ UNCHANGED charge
    /\ UNCHANGED <<groupVars, attempt, cause, resultVars, lost, generated, boundVars>>

\* Phase 3: generate a brief; an error of any kind first rolls back.
Generate(w) ==
    /\ pc[w] = "generate"
    /\ generated' = [generated EXCEPT ![Request(w)] = @ + 1]
    /\ \/ /\ Goto(w, "persist")
          /\ Prepare(w, Result(w, "success"))
          /\ UNCHANGED <<cause, faults>>
       \/ \E c \in Cause :
          /\ IF c = "unknown" THEN Fault ELSE UNCHANGED faults
          /\ Goto(w, "rollback")
          /\ cause' = [cause EXCEPT ![w] = c]
          /\ UNCHANGED payload
    /\ UNCHANGED <<groupVars, attempt, resultVars, charge, lost, attempts>>

\* Variant of PersistSuccess: a duplicate keeps its reservation.
PersistSuccessKeeping(w) ==
    /\ pc[w] = "persist"
    /\ IF stored[Request(w)] = None
         THEN Insert(Request(w), payload[w]) /\ Goto(w, "settle")
         ELSE Goto(w, "reload") /\ UNCHANGED stored
    /\ UNCHANGED <<groupVars, attempt, payload, cause, expired, published,
                   budgetVars, boundVars>>

\* Variant of PersistSuccess: an upsert.
PersistSuccessOver(w) ==
    /\ pc[w] = "persist"
    /\ Insert(Request(w), payload[w])
    /\ Goto(w, "settle")
    /\ UNCHANGED <<groupVars, attempt, payload, cause, expired, published,
                   budgetVars, boundVars>>

PersistSuccess(w) ==
    /\ pc[w] = "persist"
    /\ IF stored[Request(w)] = None
         THEN Insert(Request(w), payload[w]) /\ Goto(w, "settle")
         ELSE Goto(w, "rollbackDuplicate") /\ UNCHANGED stored
    /\ UNCHANGED <<groupVars, attempt, payload, cause, expired, published,
                   budgetVars, boundVars>>

\* The INSERT reports an error other than a duplicate key.
PersistSuccessFails(w) ==
    /\ pc[w] = "persist"
    /\ Fault
    /\ \/ UNCHANGED stored
       \/ /\ "persist" \in Ambiguous
          /\ stored[Request(w)] = None
          /\ Insert(Request(w), payload[w])
    /\ Goto(w, "rollback")
    /\ cause' = [cause EXCEPT ![w] = "unknown"]
    /\ UNCHANGED <<groupVars, attempt, payload, expired, published, budgetVars, attempts>>

\* Phase 4: settlement adjusts the amount, and its errors are swallowed.
Settle(w) ==
    /\ pc[w] = "settle"
    /\ Goto(w, "publish")
    /\ UNCHANGED <<groupVars, attempt, payload, cause, resultVars, budgetVars, boundVars>>

\* Another instance stored a result first: its reservation is given back and
\* the stored result published.
RollbackDuplicate(w) ==
    /\ pc[w] = "rollbackDuplicate"
    /\ ReleaseCharge(w)
    /\ Goto(w, "reload")
    /\ UNCHANGED <<groupVars, attempt, payload, cause, resultVars, lost, generated,
                   boundVars>>

\* Its error is caught by the handler of phase 6, which rolls back again.
RollbackDuplicateFails(w) ==
    /\ pc[w] = "rollbackDuplicate"
    /\ Fault
    /\ \/ UNCHANGED charge
       \/ "rollback" \in Ambiguous /\ ReleaseCharge(w)
    /\ Goto(w, "rollback")
    /\ cause' = [cause EXCEPT ![w] = "unknown"]
    /\ UNCHANGED <<groupVars, attempt, payload, resultVars, lost, generated, attempts>>

\* Phase 6: give the reservation back, then emit the failure result of the
\* error, or rethrow an error that is not understood.
Rollback(w) ==
    /\ pc[w] = "rollback"
    /\ ReleaseCharge(w)
    /\ \/ /\ cause[w] # "unknown"
          /\ Goto(w, "emit")
          /\ Prepare(w, Result(w, cause[w]))
          /\ UNCHANGED <<groupVars, attempt, cause>>
       \/ cause[w] = "unknown" /\ Throw(w)
    /\ UNCHANGED <<resultVars, lost, generated, boundVars>>

RollbackFails(w) ==
    /\ pc[w] = "rollback"
    /\ Fault
    /\ \/ UNCHANGED charge /\ LoseCharge(w)
       \/ "rollback" \in Ambiguous /\ ReleaseCharge(w) /\ UNCHANGED lost
    /\ Throw(w)
    /\ UNCHANGED <<resultVars, generated, attempts>>

\* republishPersistedResult: the stored result, or an error when it is gone.
Reload(w) ==
    /\ pc[w] = "reload"
    /\ \/ /\ stored[Request(w)] # None
          /\ Goto(w, "publish")
          /\ Prepare(w, stored[Request(w)])
          /\ UNCHANGED <<groupVars, attempt, cause>>
       \/ stored[Request(w)] = None /\ Throw(w)
    /\ UNCHANGED <<resultVars, budgetVars, boundVars>>

\* Variant of Emit: a duplicate publishes the failure it could not store.
EmitOwn(w) ==
    /\ pc[w] = "emit"
    /\ IF stored[Request(w)] = None
         THEN Insert(Request(w), payload[w])
         ELSE UNCHANGED stored
    /\ Goto(w, "publish")
    /\ UNCHANGED <<groupVars, attempt, payload, cause, expired, published,
                   budgetVars, boundVars>>

\* emitFailureResult up to its publication.
Emit(w) ==
    /\ pc[w] = "emit"
    /\ IF stored[Request(w)] = None
         THEN Insert(Request(w), payload[w]) /\ Goto(w, "publish")
         ELSE Goto(w, "reload") /\ UNCHANGED stored
    /\ UNCHANGED <<groupVars, attempt, payload, cause, expired, published,
                   budgetVars, boundVars>>

Publish(w) ==
    /\ pc[w] = "publish"
    /\ published' = [published EXCEPT ![Request(w)] = @ \cup {payload[w]}]
    /\ Goto(w, "ack")
    /\ UNCHANGED <<groupVars, attempt, payload, cause, stored, expired, budgetVars,
                   boundVars>>

-----------------------------------------------------------------------------
(* Failures. *)

\* Variant of CallFails: the failed publication of a success rolls back.
CallFailsRefunding(w) ==
    /\ pc[w] \in {"resolve", "load", "authorize", "reload", "emit", "publish"}
    /\ Fault
    /\ Throw(w)
    /\ IF pc[w] = "publish" /\ charge[attempt[w]] > 0
         THEN ReleaseCharge(w) ELSE UNCHANGED charge
    /\ UNCHANGED <<resultVars, lost, generated, attempts>>

\* A call fails without effect; its error reaches the batch loop.
CallFails(w) ==
    /\ pc[w] \in {"resolve", "load", "authorize", "reload", "emit", "publish"}
    /\ Fault
    /\ Throw(w)
    /\ UNCHANGED <<resultVars, budgetVars, attempts>>

\* A call takes effect and still fails.
AuthorizeAmbiguous(w) ==
    /\ "authorize" \in Ambiguous /\ pc[w] = "authorize"
    /\ Fault
    /\ charge' = [charge EXCEPT ![attempt[w]] = @ + 1]
    /\ LoseCharge(w)
    /\ Throw(w)
    /\ UNCHANGED <<resultVars, generated, attempts>>

EmitAmbiguous(w) ==
    /\ "persist" \in Ambiguous /\ pc[w] = "emit"
    /\ stored[Request(w)] = None
    /\ Fault
    /\ Insert(Request(w), payload[w])
    /\ Throw(w)
    /\ UNCHANGED <<expired, published, budgetVars, attempts>>

PublishAmbiguous(w) ==
    /\ "publish" \in Ambiguous /\ pc[w] = "publish"
    /\ Fault
    /\ published' = [published EXCEPT ![Request(w)] = @ \cup {payload[w]}]
    /\ Throw(w)
    /\ UNCHANGED <<stored, expired, budgetVars, attempts>>

\* The instance dies; a reservation it was holding stays in the ledger.
Crash(w) ==
    /\ pc[w] # "idle" \/ next[w] <= last[w]
    /\ Fault
    /\ EndSession(w)
    /\ IF Holding(w) THEN LoseCharge(w) ELSE UNCHANGED lost
    /\ UNCHANGED <<committed, next, resultVars, charge, generated, attempts>>

\* The retention job deletes an old brief result.
Expire(r) ==
    /\ Retention
    /\ stored[r] # None /\ expired[r] = {}
    /\ expired' = [expired EXCEPT ![r] = {stored[r]}]
    /\ stored' = [stored EXCEPT ![r] = None]
    /\ UNCHANGED <<groupVars, jobVars, published, budgetVars, boundVars>>

-----------------------------------------------------------------------------

Delivery(w) ==
    Fetch(w) \/ Commit(w) \/ NoticeRebalance(w) \/ Deliver(w) \/ Skip(w) \/ Ack(w)

Process(w) ==
    \/ Resolve(w) \/ Load(w) \/ Authorize(w) \/ Generate(w)
    \/ PersistSuccess(w) \/ Settle(w) \/ RollbackDuplicate(w) \/ Rollback(w)
    \/ Reload(w) \/ Emit(w) \/ Publish(w)

Failure(w) ==
    \/ PersistSuccessFails(w) \/ RollbackDuplicateFails(w) \/ RollbackFails(w)
    \/ CallFails(w) \/ AuthorizeAmbiguous(w) \/ EmitAmbiguous(w)
    \/ PublishAmbiguous(w) \/ Crash(w)

Next ==
    \/ \E w \in Workers : Assign(w) \/ Delivery(w) \/ Process(w) \/ Failure(w)
    \/ LoseOwnership
    \/ \E r \in Requests : Expire(r)

Spec == Init /\ [][Next]_vars

\* A running instance makes its calls and polls, and the group assigns the
\* partition to a member that keeps joining.  No fault is fair.
Fairness ==
    /\ \A w \in Workers : WF_vars(Delivery(w)) /\ WF_vars(Process(w))
    /\ WF_vars(\E w \in Workers : Assign(w))

FairSpec == Spec /\ Fairness

-----------------------------------------------------------------------------
(* Properties *)

GroupTypeOK ==
    /\ committed \in 0 .. Len(Log)
    /\ owner \in Workers \cup {None}
    /\ next \in [Workers -> 1 .. Len(Log) + 1]
    /\ last \in [Workers -> 0 .. Len(Log)]

JobTypeOK ==
    /\ pc \in [Workers -> Label]
    /\ attempt \in [Workers -> 0 .. MaxAttempts]
    /\ payload \in [Workers -> Payload \cup {None}]
    /\ cause \in [Workers -> Cause \cup {None}]

ResultTypeOK ==
    /\ stored \in [Requests -> Payload \cup {None}]
    /\ expired \in [Requests -> SUBSET Payload]
    /\ published \in [Requests -> SUBSET Payload]

BudgetTypeOK ==
    /\ charge \in [Attempt -> Int]
    /\ lost \in SUBSET Attempt
    /\ generated \in [Requests -> Nat]
    /\ attempts \in 0 .. MaxAttempts
    /\ faults \in 0 .. MaxFaults

\* Every variable has its type; charge may go below 0 when a release is
\* applied twice.
TypeOK == GroupTypeOK /\ JobTypeOK /\ ResultTypeOK /\ BudgetTypeOK

Answered(r) == r \in Malformed \/ published[r] # {}

\* Every result that reaches summary.results is the result brief_results holds
\* for that request (or held, before retention deleted it): two instances that
\* answer the same request, or an instance and its retry, never publish
\* different results.
PublishedWasStored ==
    \A r \in Requests : published[r] \subseteq {stored[r]} \cup expired[r]

\* An offset the group committed is never redelivered, so the result of its
\* request must be out, whatever failed, crashed or was rebalanced on the way.
CommittedAnswered ==
    \A o \in 1 .. committed : Answered(Log[o])

SuccessesOf(r) ==
    {p \in {stored[r]} \cup expired[r] : p # None /\ p.status = "success"}

\* A reservation that stands belongs to an attempt still deciding, to a stored
\* success, or to an attempt whose release is known to have failed: no path
\* through the error handling forgets to give one back.
ReservationsAccounted ==
    \A a \in Attempt :
        charge[a] > 0 =>
            \/ a \in lost
            \/ \E w \in Workers : attempt[w] = a /\ Holding(w)
            \/ \E r \in Requests : \E p \in SuccessesOf(r) : p.by = a

\* A stored success keeps exactly one reservation, that of its own attempt, and
\* no attempt gives back more than it took; provided the calls that persist and
\* roll back never report an error for work they did.
SuccessChargedOnce ==
    Ambiguous \cap {"persist", "rollback"} = {} =>
        /\ \A r \in Requests : \A p \in SuccessesOf(r) : charge[p.by] = 1
        /\ \A a \in Attempt : charge[a] \in {0, 1}

\* Duplicate requests do not waste LLM budget: a request is generated again
\* only when something failed or the partition moved since.
GeneratedOncePerFault ==
    \A r \in Requests : generated[r] <= 1 + faults

Promise == INSTANCE BriefPromise WITH
    answer <- stored, told <- published, done <- committed

\* The service implements its promise (as long as no result is deleted).
KeepsPromise == Promise!Spec

\* Once faults stop, every request of the partition is answered and committed:
\* neither a failed generation nor a redelivery blocks the ones behind it.
EventuallyCommitted == <>(committed = Len(Log))

=============================================================================
