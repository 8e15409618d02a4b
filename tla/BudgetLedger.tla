---------------------------- MODULE BudgetLedger ----------------------------
(***************************************************************************)
(* The daily LLM budget of the brief service, for one date: a row of       *)
(* brief_budget_tracking in Postgres, the source of truth, and a Redis key *)
(* that answers most reservations.  RedisFirstBudgetLedgerProxy reserves   *)
(* in Redis by a script and mirrors the key into the row in the            *)
(* background; when Redis refuses or fails, PostgresBudgetLedger reserves  *)
(* in the row and writes the key.  Releases and settlements go to the row. *)
(*                                                                         *)
(* Each attempt to produce a brief reserves once and then settles, gives   *)
(* back or abandons its reservation.  Every statement sent to Postgres or  *)
(* Redis is a step, and the statements of different attempts, and the      *)
(* mirrors, interleave.  Amounts are integers, a multiple of some fraction *)
(* of a dollar; the row keeps 4 decimals, and rounding is not modelled.    *)
(***************************************************************************)
EXTENDS Integers, FiniteSets, Functions

CONSTANTS
    Attempts,    \* attempts to produce a brief
    Estimate,    \* Estimate[a]: the cost attempt a reserves
    Costs,       \* what a brief may turn out to cost
    Budget,      \* LLM_DAILY_BUDGET_USD
    Modes,       \* the deployments considered, a subset of Deployment
    None,        \* no row, no key
    MaxFaults    \* bound on failed calls, crashes and losses of the key

\* "postgres":   Redis is unreachable all the time.
\* "serial":     Redis and Postgres answer, and a call starts only when no
\*               other call and no mirror is under way.
\* "concurrent": Redis answers or fails, and nothing is ordered.
Deployment == {"postgres", "serial", "concurrent"}

Label == {"reserve", "upsert", "update", "read", "sync", "granted", "adjust",
          "clamp", "unsure", "done"}
MirrorLabel == {"off", "load", "create", "reload", "update"}

ASSUME LedgerAssumption ==
    /\ IsFiniteSet(Attempts)
    /\ Estimate \in [Attempts -> Nat \ {0}]
    /\ Costs \subseteq Nat
    /\ Budget \in Nat
    /\ Modes \subseteq Deployment
    /\ None \notin Int
    /\ MaxFaults \in Nat

VARIABLES
    mode,      \* the deployment, chosen once
    row,       \* brief_budget_tracking.spent_usd, or None
    cache,     \* brief:budget:<date>, or None
    pc,        \* the statement attempt a sends next
    seen,      \* the amount a read from the row
    delta,     \* the change a settles or gives back
    then,      \* what follows the call of a: it holds a reservation, it is
               \* done, or it is done and was releasing that of a duplicate
    mirror,    \* the statement the mirror of a sends next
    cached,    \* the amount the script returned, which the mirror writes
    tracked,   \* the amount the mirror read
    charge,    \* what a has standing in the ledger, as its calls left it
    overrun,   \* by how much settled briefs exceeded their estimates
    faults     \* faults so far

storeVars  == <<row, cache>>
callVars   == <<pc, seen, delta, then>>
mirrorVars == <<mirror, cached, tracked>>
vars == <<mode, storeVars, callVars, mirrorVars, charge, overrun, faults>>

Init ==
    /\ mode \in Modes
    /\ row = None /\ cache = None
    /\ pc = [a \in Attempts |-> "reserve"]
    /\ seen = [a \in Attempts |-> 0]
    /\ delta = [a \in Attempts |-> 0]
    /\ then = [a \in Attempts |-> "done"]
    /\ mirror = [a \in Attempts |-> "off"]
    /\ cached = [a \in Attempts |-> 0]
    /\ tracked = [a \in Attempts |-> 0]
    /\ charge = [a \in Attempts |-> 0]
    /\ overrun = 0
    /\ faults = 0

-----------------------------------------------------------------------------
(* Helpers *)

Goto(a, label) == pc' = [pc EXCEPT ![a] = label]
Return(a, label) == then' = [then EXCEPT ![a] = label]
Larger(x, y) == IF x >= y THEN x ELSE y
Stored(x) == IF x = None THEN 0 ELSE x

InCall(a) == pc[a] \in {"upsert", "update", "read", "sync", "adjust", "clamp"}
Quiet == \A a \in Attempts : ~InCall(a) /\ mirror[a] = "off"
MayCall == mode = "serial" => Quiet

Fault == mode # "serial" /\ faults < MaxFaults /\ faults' = faults + 1

\* A call ends; its local variables are gone.
Leave(a, label) ==
    /\ Goto(a, label)
    /\ seen' = [seen EXCEPT ![a] = 0]
    /\ delta' = [delta EXCEPT ![a] = 0]
    /\ then' = [then EXCEPT ![a] = "done"]

\* Likewise the mirror of a.
MirrorEnds(a) ==
    /\ mirror' = [mirror EXCEPT ![a] = "off"]
    /\ cached' = [cached EXCEPT ![a] = 0]
    /\ tracked' = [tracked EXCEPT ![a] = 0]

Charge(a, amount) == charge' = [charge EXCEPT ![a] = @ + amount]

-----------------------------------------------------------------------------
(* Reserve *)

\* Variant of RedisReserve: the script compares before it adds.
RedisReserveLate(a) ==
    /\ pc[a] = "reserve" /\ MayCall
    /\ mode # "postgres"
    /\ Stored(cache) <= Budget
    /\ cache' = Stored(cache) + Estimate[a]
    /\ cached' = [cached EXCEPT ![a] = cache']
    /\ mirror' = [mirror EXCEPT ![a] = "load"]
    /\ Goto(a, "granted")
    /\ Charge(a, Estimate[a])
    /\ UNCHANGED <<mode, row, seen, delta, then, tracked, overrun, faults>>

\* The script: add the estimate to the key if it fits, else ask Postgres.
RedisReserve(a) ==
    /\ pc[a] = "reserve" /\ MayCall
    /\ mode # "postgres"
    /\ Stored(cache) + Estimate[a] <= Budget
    /\ cache' = Stored(cache) + Estimate[a]
    /\ cached' = [cached EXCEPT ![a] = cache']
    /\ mirror' = [mirror EXCEPT ![a] = "load"]
    /\ Goto(a, "granted")
    /\ Charge(a, Estimate[a])
    /\ UNCHANGED <<mode, row, seen, delta, then, tracked, overrun, faults>>

RedisRefuses(a) ==
    /\ pc[a] = "reserve" /\ MayCall
    /\ mode # "postgres"
    /\ Stored(cache) + Estimate[a] > Budget
    /\ Goto(a, "upsert")
    /\ UNCHANGED <<mode, storeVars, seen, delta, then, mirrorVars, charge, overrun,
                   faults>>

\* The script fails, perhaps after it took effect: Postgres decides.
RedisFails(a) ==
    /\ pc[a] = "reserve" /\ MayCall
    /\ \/ mode = "postgres" /\ UNCHANGED <<cache, faults>>
       \/ /\ Fault
          /\ \/ UNCHANGED cache
             \/ /\ Stored(cache) + Estimate[a] <= Budget
                /\ cache' = Stored(cache) + Estimate[a]
    /\ Goto(a, "upsert")
    /\ UNCHANGED <<mode, row, seen, delta, then, mirrorVars, charge, overrun>>

Upsert(a) ==
    /\ pc[a] = "upsert"
    /\ row' = Stored(row)
    /\ Goto(a, "update")
    /\ UNCHANGED <<mode, cache, seen, delta, then, mirrorVars, charge, overrun, faults>>

\* Variant of Update: the WHERE clause forgets the amount.
UpdateLate(a) ==
    /\ pc[a] = "update"
    /\ IF row <= Budget
         THEN /\ row' = row + Estimate[a]
              /\ Charge(a, Estimate[a])
              /\ Return(a, "granted")
         ELSE /\ Return(a, "done")
              /\ UNCHANGED <<row, charge>>
    /\ Goto(a, "read")
    /\ UNCHANGED <<mode, cache, seen, delta, mirrorVars, overrun, faults>>

\* updateMany with the remaining budget in its WHERE clause.
Update(a) ==
    /\ pc[a] = "update"
    /\ IF row <= Larger(0, Budget - Estimate[a])
         THEN /\ row' = row + Estimate[a]
              /\ Charge(a, Estimate[a])
              /\ Return(a, "granted")
         ELSE /\ Return(a, "done")
              /\ UNCHANGED <<row, charge>>
    /\ Goto(a, "read")
    /\ UNCHANGED <<mode, cache, seen, delta, mirrorVars, overrun, faults>>

\* The row is read back ...
Read(a) ==
    /\ pc[a] = "read"
    /\ seen' = [seen EXCEPT ![a] = row]
    /\ Goto(a, "sync")
    /\ UNCHANGED <<mode, storeVars, delta, then, mirrorVars, charge, overrun, faults>>

\* ... and written to the key, unless that fails.
Sync(a) ==
    /\ pc[a] = "sync"
    /\ mode # "postgres"
    /\ cache' = seen[a]
    /\ Leave(a, IF then[a] = "granted" THEN "granted" ELSE "done")
    /\ UNCHANGED <<mode, row, mirrorVars, charge, overrun, faults>>

SyncFails(a) ==
    /\ pc[a] = "sync"
    /\ \/ mode = "postgres" /\ UNCHANGED faults
       \/ Fault
    /\ Leave(a, IF then[a] = "granted" THEN "granted" ELSE "done")
    /\ UNCHANGED <<mode, storeVars, mirrorVars, charge, overrun>>

-----------------------------------------------------------------------------
(* Settle and release *)

\* The brief is stored and cost c: the difference is settled, if any.
Settle(a, c) ==
    /\ pc[a] = "granted" /\ MayCall
    /\ c # Estimate[a]
    /\ delta' = [delta EXCEPT ![a] = c - Estimate[a]]
    /\ Return(a, "done")
    /\ Goto(a, "adjust")
    /\ UNCHANGED <<mode, storeVars, seen, mirrorVars, charge, overrun, faults>>

Keep(a) ==
    /\ pc[a] = "granted"
    /\ Estimate[a] \in Costs
    /\ Goto(a, "done")
    /\ UNCHANGED <<mode, storeVars, seen, delta, then, mirrorVars, charge, overrun,
                   faults>>

\* No brief, or a duplicate of one: the reservation is released.  The release of
\* a duplicate that reported an error is made again.
Release(a) ==
    /\ pc[a] \in {"granted", "unsure"} /\ MayCall
    /\ delta' = [delta EXCEPT ![a] = -Estimate[a]]
    /\ \/ Return(a, "done")
       \/ pc[a] = "granted" /\ Return(a, "duplicate")
    /\ Goto(a, "adjust")
    /\ UNCHANGED <<mode, storeVars, seen, mirrorVars, charge, overrun, faults>>

\* updateSpentUsd: without a row, the last statement of the call writes nothing
\* and the call returns.
AdjustNothing(a) ==
    /\ (pc[a] = "adjust" /\ delta[a] > 0) \/ pc[a] = "clamp"
    /\ row = None
    /\ Charge(a, delta[a])
    /\ overrun' = overrun + Larger(0, delta[a])
    /\ Leave(a, IF then[a] = "granted" THEN "granted" ELSE "done")
    /\ UNCHANGED <<mode, storeVars, mirrorVars, faults>>

\* Variant of Adjust: the decrement is unconditional too.
AdjustAlways(a) ==
    /\ pc[a] = "adjust"
    /\ row # None
    /\ row' = row + delta[a]
    /\ Charge(a, delta[a])
    /\ overrun' = overrun + Larger(0, delta[a])
    /\ Goto(a, "read")
    /\ UNCHANGED <<mode, cache, seen, delta, then, mirrorVars, faults>>

\* An unconditional increment, or a decrement of a row that is large enough ...
Adjust(a) ==
    /\ pc[a] = "adjust"
    /\ IF row # None /\ row + delta[a] >= 0
         THEN /\ row' = row + delta[a]
              /\ Charge(a, delta[a])
              /\ overrun' = overrun + Larger(0, delta[a])
              /\ Goto(a, "read")
         ELSE /\ delta[a] < 0
              /\ Goto(a, "clamp")
              /\ UNCHANGED <<row, charge, overrun>>
    /\ UNCHANGED <<mode, cache, seen, delta, then, mirrorVars, faults>>

\* ... or else the row is set to 0, even one that appeared in between.
Clamp(a) ==
    /\ pc[a] = "clamp"
    /\ row # None
    /\ row' = 0
    /\ Charge(a, delta[a])
    /\ Goto(a, "read")
    /\ UNCHANGED <<mode, cache, seen, delta, then, mirrorVars, overrun, faults>>

-----------------------------------------------------------------------------
(* The mirror of a granted Redis reservation. *)

MirrorLoad(a) ==
    /\ mirror[a] = "load"
    /\ mirror' = [mirror EXCEPT ![a] = IF row = None THEN "create" ELSE "reload"]
    /\ UNCHANGED <<mode, storeVars, callVars, cached, tracked, charge, overrun, faults>>

\* A row that exists by now makes the INSERT fail as a duplicate.
MirrorCreate(a) ==
    /\ mirror[a] = "create"
    /\ \/ row = None /\ row' = cached[a] /\ MirrorEnds(a)
       \/ /\ row # None
          /\ mirror' = [mirror EXCEPT ![a] = "reload"]
          /\ UNCHANGED <<row, cached, tracked>>
    /\ UNCHANGED <<mode, cache, callVars, charge, overrun, faults>>

MirrorReload(a) ==
    /\ mirror[a] = "reload"
    /\ tracked' = [tracked EXCEPT ![a] = row]
    /\ mirror' = [mirror EXCEPT ![a] = "update"]
    /\ UNCHANGED <<mode, storeVars, callVars, cached, charge, overrun, faults>>

\* Variant of MirrorUpdate: the key is added to the row.
MirrorAdd(a) ==
    /\ mirror[a] = "update"
    /\ row' = tracked[a] + cached[a]
    /\ MirrorEnds(a)
    /\ UNCHANGED <<mode, cache, callVars, charge, overrun, faults>>

MirrorUpdate(a) ==
    /\ mirror[a] = "update"
    /\ row' = Larger(tracked[a], cached[a])
    /\ MirrorEnds(a)
    /\ UNCHANGED <<mode, cache, callVars, charge, overrun, faults>>

\* Its errors are logged and swallowed.
MirrorFails(a) ==
    /\ mirror[a] # "off"
    /\ Fault
    /\ MirrorEnds(a)
    /\ UNCHANGED <<mode, storeVars, callVars, charge, overrun>>

-----------------------------------------------------------------------------
(* Failures *)

\* A Postgres statement fails and the call with it.  A reservation is given up
\* and a settlement forgotten; the release of a duplicate is tried again.
PostgresFails(a) ==
    /\ pc[a] \in {"upsert", "update", "read", "adjust", "clamp"}
    /\ Fault
    /\ Leave(a, IF then[a] = "duplicate" THEN "unsure" ELSE "done")
    /\ UNCHANGED <<mode, storeVars, mirrorVars, charge, overrun>>

\* The instance dies, and its mirror with it: what it reserved stays.
Crash(a) ==
    /\ pc[a] \notin {"reserve", "done"} \/ mirror[a] # "off"
    /\ Fault
    /\ Leave(a, "done")
    /\ MirrorEnds(a)
    /\ UNCHANGED <<mode, storeVars, charge, overrun>>

\* Redis restarts or evicts the key.
LoseKey ==
    /\ cache # None
    /\ Fault
    /\ cache' = None
    /\ UNCHANGED <<mode, row, callVars, mirrorVars, charge, overrun>>

-----------------------------------------------------------------------------

Reserving(a) ==
    \/ RedisReserve(a) \/ RedisRefuses(a) \/ RedisFails(a)
    \/ Upsert(a) \/ Update(a)
Reading(a) == Read(a) \/ Sync(a) \/ SyncFails(a)
Adjusting(a) ==
    \/ \E c \in Costs : Settle(a, c)
    \/ Keep(a) \/ Release(a) \/ AdjustNothing(a) \/ Adjust(a) \/ Clamp(a)
Mirroring(a) ==
    \/ MirrorLoad(a) \/ MirrorCreate(a) \/ MirrorReload(a) \/ MirrorUpdate(a)
Failing(a) == MirrorFails(a) \/ PostgresFails(a) \/ Crash(a)

Next ==
    \/ \E a \in Attempts :
          Reserving(a) \/ Reading(a) \/ Adjusting(a) \/ Mirroring(a) \/ Failing(a)
    \/ LoseKey

Spec == Init /\ [][Next]_vars

-----------------------------------------------------------------------------
(* Properties *)

\* Every variable has its type; the row and the key never go below 0.
TypeOK ==
    /\ mode \in Modes
    /\ row \in Nat \cup {None}
    /\ cache \in Nat \cup {None}
    /\ pc \in [Attempts -> Label]
    /\ seen \in [Attempts -> Nat]
    /\ delta \in [Attempts -> Int]
    /\ then \in [Attempts -> {"granted", "duplicate", "done"}]
    /\ mirror \in [Attempts -> MirrorLabel]
    /\ cached \in [Attempts -> Nat]
    /\ tracked \in [Attempts -> Nat]
    /\ charge \in [Attempts -> Int]
    /\ overrun \in Nat
    /\ faults \in 0 .. MaxFaults

EstimatesFit == \A a \in Attempts : Estimate[a] <= Budget

\* What is reserved or spent, and what was given back once too often.
Committed == SumFunction([a \in Attempts |-> Larger(0, charge[a])])
RefundedTwice == SumFunction([a \in Attempts |-> Larger(0, -charge[a])])

\* The attempts together never commit more than the daily budget, the cost of
\* settled briefs beyond their estimates and double refunds aside.
BudgetEnforced == Committed <= Budget + overrun + RefundedTwice

\* The ledger enforces the budget when Redis is out of use, whatever is
\* interleaved and fails, and when it is in use but calls do not overlap.  Not
\* after a double refund: when it finds too little in the row, the row is set
\* to 0 in a second statement, with all that was reserved in between.
NotOversubscribed ==
    mode # "concurrent" /\ EstimatesFit /\ RefundedTwice = 0 => BudgetEnforced

\* In the same deployments the row is the sum of what the attempts have
\* standing (with Redis, between calls), and the key is the row: no grant,
\* refund or settlement is lost or counted twice.
LedgerAgrees ==
    /\ mode = "postgres" /\ RefundedTwice = 0 => Stored(row) = Committed
    /\ mode = "serial" /\ Quiet => Stored(row) = Committed /\ cache = row

\* In every deployment, with mirrors that overwrite the row, keys written
\* late, lost keys and failed calls: neither store ever shows more than the
\* budget and the settled overruns.  A race may forget spending, but it cannot
\* invent any that would refuse requests for the rest of the day.
LedgerWithinBudget ==
    EstimatesFit =>
        \A store \in {row, cache} : store # None => store <= Budget + overrun

=============================================================================
