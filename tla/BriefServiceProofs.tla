------------------------- MODULE BriefServiceProofs -------------------------
(***************************************************************************)
(* The parts of the brief service that one summary request runs through    *)
(* besides its processing.                                                 *)
(*                                                                         *)
(* The budget ledger, for any number of attempts, any estimates and costs, *)
(* any budget and any number of faults: the types of BudgetLedger, the     *)
(* bound its stores keep in every deployment, and where calls are atomic   *)
(* or ordered, that they agree with what the attempts have standing and    *)
(* enforce the budget.                                                     *)
(*                                                                         *)
(* The generation of a brief, for any requests, snapshots, events, answers *)
(* and any number of failed calls: the CLI is released, a brief holds to   *)
(* the evidence, and what a query resolves to can be used.                 *)
(***************************************************************************)
EXTENDS BudgetLedger, BriefGeneration, FiniteFacts

-----------------------------------------------------------------------------
(* The budget ledger *)

Limit == Budget + overrun

\* Statements that need the row are sent only once there is one.
RowKnown ==
    \A a \in Attempts :
        /\ pc[a] \in {"update", "read"} => row # None
        /\ mirror[a] \in {"reload", "update"} => row # None

\* Amounts on their way from one store to the other respect the bound of the
\* stores, so that writing them late does no harm.
InFlightBounded ==
    EstimatesFit =>
        \A a \in Attempts :
            seen[a] <= Limit /\ cached[a] <= Limit /\ tracked[a] <= Limit

LedgerInv == TypeOK /\ RowKnown /\ LedgerWithinBudget /\ InFlightBounded

\* An empty ledger satisfies the invariant ...
LEMMA InitInv == Init => LedgerInv
  BY LedgerAssumption
     DEF Init, LedgerInv, TypeOK, RowKnown, LedgerWithinBudget, InFlightBounded,
         Label, MirrorLabel, Limit

\* ... and every statement of every call and mirror, and every fault, keeps it.
LEMMA NextInv == LedgerInv /\ [Next]_vars => LedgerInv'
<1> SUFFICES ASSUME LedgerInv, [Next]_vars
             PROVE  LedgerInv'
  OBVIOUS
<1> USE LedgerAssumption
    DEF LedgerInv, TypeOK, RowKnown, LedgerWithinBudget, InFlightBounded,
        EstimatesFit, Limit, Label, MirrorLabel, storeVars, callVars, mirrorVars,
        Goto, Return, Larger, Stored, Fault, Leave, MirrorEnds, Charge
<1>1. ASSUME NEW a \in Attempts, RedisReserve(a)
      PROVE  LedgerInv'
  BY <1>1 DEF RedisReserve
<1>2. ASSUME NEW a \in Attempts, RedisRefuses(a)
      PROVE  LedgerInv'
  BY <1>2 DEF RedisRefuses
<1>3. ASSUME NEW a \in Attempts, RedisFails(a)
      PROVE  LedgerInv'
  BY <1>3 DEF RedisFails
<1>4. ASSUME NEW a \in Attempts, Upsert(a)
      PROVE  LedgerInv'
  BY <1>4 DEF Upsert
<1>5. ASSUME NEW a \in Attempts, Update(a)
      PROVE  LedgerInv'
  BY <1>5 DEF Update
<1>6. ASSUME NEW a \in Attempts, Read(a)
      PROVE  LedgerInv'
  BY <1>6 DEF Read
<1>7. ASSUME NEW a \in Attempts, Sync(a)
      PROVE  LedgerInv'
  BY <1>7 DEF Sync
<1>8. ASSUME NEW a \in Attempts, SyncFails(a)
      PROVE  LedgerInv'
  BY <1>8 DEF SyncFails
<1>9. ASSUME NEW a \in Attempts, Keep(a)
      PROVE  LedgerInv'
  BY <1>9 DEF Keep
<1>10. ASSUME NEW a \in Attempts, Release(a)
      PROVE  LedgerInv'
  BY <1>10 DEF Release
<1>11. ASSUME NEW a \in Attempts, AdjustNothing(a)
      PROVE  LedgerInv'
  BY <1>11 DEF AdjustNothing
<1>12. ASSUME NEW a \in Attempts, Adjust(a)
      PROVE  LedgerInv'
  BY <1>12 DEF Adjust
<1>13. ASSUME NEW a \in Attempts, Clamp(a)
      PROVE  LedgerInv'
  BY <1>13 DEF Clamp
<1>14. ASSUME NEW a \in Attempts, MirrorLoad(a)
      PROVE  LedgerInv'
  BY <1>14 DEF MirrorLoad
<1>15. ASSUME NEW a \in Attempts, MirrorCreate(a)
      PROVE  LedgerInv'
  BY <1>15 DEF MirrorCreate
<1>16. ASSUME NEW a \in Attempts, MirrorReload(a)
      PROVE  LedgerInv'
  BY <1>16 DEF MirrorReload
<1>17. ASSUME NEW a \in Attempts, MirrorUpdate(a)
      PROVE  LedgerInv'
  BY <1>17 DEF MirrorUpdate
<1>18. ASSUME NEW a \in Attempts, MirrorFails(a)
      PROVE  LedgerInv'
  BY <1>18 DEF MirrorFails
<1>19. ASSUME NEW a \in Attempts, PostgresFails(a)
      PROVE  LedgerInv'
  BY <1>19 DEF PostgresFails
<1>20. ASSUME NEW a \in Attempts, Crash(a)
      PROVE  LedgerInv'
  BY <1>20 DEF Crash
<1>21. ASSUME NEW a \in Attempts, NEW c \in Costs, Settle(a, c)
      PROVE  LedgerInv'
  BY <1>21 DEF Settle
<1>22. CASE LoseKey
  BY <1>22 DEF LoseKey
<1>23. CASE UNCHANGED vars
  BY <1>23 DEF vars
<1> QED
  BY <1>1, <1>2, <1>3, <1>4, <1>5, <1>6, <1>7, <1>8, <1>9, <1>10, <1>11, <1>12,
     <1>13, <1>14, <1>15, <1>16, <1>17, <1>18, <1>19, <1>20, <1>21, <1>22, <1>23
     DEF Next, Reserving, Reading, Adjusting, Mirroring, Failing

\* The inductive invariant: types, statements sent only when there is a row, and
\* the bound on both stores and on the amounts under way between them.
THEOREM InvHolds == Spec => []LedgerInv
  BY InitInv, NextInv, PTL DEF Spec

\* The row, the key and the local variables of the calls keep their types; in
\* particular no release or clamp takes the row below 0.
THEOREM TypeCorrect == Spec => []TypeOK
  BY InvHolds, PTL DEF LedgerInv

\* Whatever races, fails or is lost, neither the row nor the key shows more
\* than the budget plus the overruns that were settled.
THEOREM StaysWithinBudget == Spec => []LedgerWithinBudget
  BY InvHolds, PTL DEF LedgerInv

-----------------------------------------------------------------------------
(* The row and the charges *)

\* What an attempt has standing follows from how far it is: its estimate, until
\* its call gave it back or settled it.
ChargesOK ==
    \A a \in Attempts :
        /\ pc[a] \in {"reserve", "upsert", "update"} => charge[a] = 0
        /\ pc[a] = "granted" => charge[a] = Estimate[a]
        /\ pc[a] \in {"read", "sync"} /\ then[a] = "granted" => charge[a] = Estimate[a]
        /\ pc[a] \in {"read", "sync"} /\ then[a] = "duplicate" => charge[a] = 0
        /\ pc[a] \in {"adjust", "clamp"} =>
              /\ delta[a] >= -Estimate[a] /\ charge[a] \in {0, Estimate[a]}
              /\ then[a] = "duplicate" \/ delta[a] > 0 => charge[a] = Estimate[a]
              /\ then[a] \in {"duplicate", "done"}
              /\ then[a] = "duplicate" => delta[a] = -Estimate[a]
        /\ pc[a] = "clamp" => delta[a] < 0
        /\ pc[a] = "unsure" => charge[a] \in {0, Estimate[a]}

\* Postgres alone: there is a row once an attempt asked for its budget, and
\* nothing is charged without one.
PostgresRow ==
    mode = "postgres" =>
        /\ \A a \in Attempts :
              /\ mirror[a] = "off"
              /\ pc[a] \notin {"reserve", "upsert", "done"} => row # None
        /\ row = None => \A a \in Attempts : charge[a] = 0

\* The row is what the attempts have standing, until one gets more back than it
\* reserved, and only such a one clamps the row.
PostgresAgrees ==
    mode = "postgres" /\ RefundedTwice = 0 =>
        /\ Stored(row) = Committed
        /\ \A a \in Attempts : pc[a] = "clamp" => charge[a] + delta[a] < 0

\* A call of a, or the mirror write it left behind, is under way.
Busy(a) == InCall(a) \/ mirror[a] # "off"

\* Redis and Postgres without overlap: one call or mirror at a time, and what
\* the stores hold at each of its statements.
SerialAgrees ==
    mode = "serial" =>
        /\ \A a \in Attempts : pc[a] \notin {"clamp", "unsure"} /\ charge[a] >= 0
        /\ \A a, b \in Attempts : Busy(a) /\ Busy(b) => a = b
        /\ \A a \in Attempts : ~InCall(a) \/ mirror[a] = "off"
        /\ Quiet =>
              /\ row = cache /\ Stored(row) = Committed
              /\ row = None => \A a \in Attempts : pc[a] # "granted"
        /\ \A a \in Attempts :
              /\ pc[a] = "upsert" => row = cache
              /\ InCall(a) => Stored(row) = Committed
              /\ pc[a] \in {"update", "read", "sync", "adjust"} => row # None
              /\ pc[a] = "upsert" /\ row = None => \A b \in Attempts : pc[b] # "granted"
              /\ pc[a] = "sync" => seen[a] = row
              /\ pc[a] = "adjust" => charge[a] = Estimate[a]
              /\ mirror[a] # "off" =>
                    /\ cache # None /\ cache = Committed
                    /\ cached[a] = cache /\ Stored(row) <= cache
              /\ mirror[a] \in {"reload", "update"} => row # None
              /\ mirror[a] = "update" => tracked[a] = row

\* The inductive invariant of the counts.
Agreement == LedgerInv /\ ChargesOK /\ PostgresRow /\ PostgresAgrees /\ SerialAgrees

\* The sum of what has a positive part, and of what was given back too often.
Positive(c) == SumFunction([a \in Attempts |-> Larger(0, c[a])])
Negative(c) == SumFunction([a \in Attempts |-> Larger(0, -c[a])])

\* What is committed is no less than what an attempt has standing, and nothing
\* was given back too often as long as no charge is below 0.
LEMMA SumsOf ==
  ASSUME NEW c \in [Attempts -> Int]
  PROVE  /\ Positive(c) \in Nat /\ Negative(c) \in Nat
         /\ Negative(c) = 0 <=> \A a \in Attempts : c[a] >= 0
         /\ \A a \in Attempts : c[a] <= Positive(c)
         /\ (\A a \in Attempts : c[a] = 0) => Positive(c) = 0
<1> DEFINE p == [a \in Attempts |-> Larger(0, c[a])]
           n == [a \in Attempts |-> Larger(0, -c[a])]
<1>1. /\ IsFiniteSet(Attempts) /\ DOMAIN p = Attempts /\ DOMAIN n = Attempts
      /\ \A a \in Attempts : /\ c[a] \in Int
                             /\ p[a] \in Nat /\ c[a] <= p[a]
                             /\ n[a] \in Nat /\ (n[a] = 0 <=> c[a] >= 0)
                             /\ c[a] = 0 => p[a] = 0
  BY LedgerAssumption DEF Larger
<1>2. Positive(c) = SumFunctionOnSet(p, Attempts) /\ Negative(c) = SumFunctionOnSet(n, Attempts)
  BY <1>1 DEF Positive, Negative, SumFunction
<1> HIDE DEF p, n
<1>3. /\ SumFunctionOnSet(p, Attempts) \in Nat
      /\ \A a \in Attempts : p[a] <= SumFunctionOnSet(p, Attempts)
  BY <1>1, SumNat
<1>4. /\ SumFunctionOnSet(n, Attempts) \in Nat
      /\ \A a \in Attempts : n[a] <= SumFunctionOnSet(n, Attempts)
  BY <1>1, SumNat
<1>5. (\A a \in Attempts : c[a] >= 0) => SumFunctionOnSet(n, Attempts) = 0
  BY <1>1, SumZero
<1>6. (\A a \in Attempts : c[a] = 0) => SumFunctionOnSet(p, Attempts) = 0
  BY <1>1, SumZero
<1>7. SumFunctionOnSet(n, Attempts) = 0 => \A a \in Attempts : c[a] >= 0
  BY <1>1, <1>4
<1>8. \A a \in Attempts : c[a] <= SumFunctionOnSet(p, Attempts)
  BY <1>1, <1>3
<1> QED
  BY <1>2, <1>3, <1>4, <1>5, <1>6, <1>7, <1>8

\* A charge that is not below 0, before and after, changes what is committed by
\* as much as it changes.
LEMMA SumsAfter ==
  ASSUME NEW c \in [Attempts -> Int], NEW a \in Attempts, NEW x \in Int,
         NEW d, d = [c EXCEPT ![a] = @ + x], c[a] >= 0, c[a] + x >= 0
  PROVE  Positive(d) = Positive(c) + x
<1> DEFINE p == [b \in Attempts |-> Larger(0, c[b])]
           q == [b \in Attempts |-> Larger(0, d[b])]
<1>1. /\ IsFiniteSet(Attempts) /\ DOMAIN p = Attempts /\ DOMAIN q = Attempts
      /\ \A b \in Attempts : p[b] \in Int /\ q[b] \in Int
      /\ \A b \in Attempts \ {a} : p[b] = q[b]
      /\ p[a] = c[a] /\ q[a] = c[a] + x /\ c[a] \in Int
  BY LedgerAssumption DEF Larger
<1>2. Positive(c) = SumFunctionOnSet(p, Attempts) /\ Positive(d) = SumFunctionOnSet(q, Attempts)
  BY <1>1 DEF Positive, SumFunction
<1> HIDE DEF p, q
<1>3. SumFunctionOnSet(q, Attempts) = SumFunctionOnSet(p, Attempts) + q[a] - p[a]
  BY <1>1, SumChanges
<1>4. SumFunctionOnSet(p, Attempts) \in Int
  BY <1>1, SumType
<1> QED
  BY <1>1, <1>2, <1>3, <1>4

\* What a step of a does to the sums.
LEMMA ChargedIs ==
  ASSUME TypeOK, NEW a \in Attempts, NEW x \in Int, Charge(a, x)
  PROVE  /\ charge[a] \in Int /\ charge'[a] = charge[a] + x
         /\ \A b \in Attempts : b # a => charge'[b] = charge[b]
         /\ charge[a] >= 0 /\ charge[a] + x >= 0 => Committed' = Committed + x
<1>1. charge \in [Attempts -> Int] /\ charge' = [charge EXCEPT ![a] = @ + x]
  BY DEF TypeOK, Charge
<1>2. Committed = Positive(charge) /\ Committed' = Positive(charge')
  BY DEF Committed, Positive
<1>3. ASSUME charge[a] >= 0, charge[a] + x >= 0
      PROVE  Positive(charge') = Positive(charge) + x
  BY <1>1, <1>3, SumsAfter
<1> QED
  BY <1>1, <1>2, <1>3

\* The sums of a state.
LEMMA SumsAre ==
  ASSUME TypeOK
  PROVE  /\ Committed \in Nat /\ RefundedTwice \in Nat
         /\ RefundedTwice = 0 <=> \A a \in Attempts : charge[a] >= 0
         /\ \A a \in Attempts : charge[a] <= Committed
         /\ (\A a \in Attempts : charge[a] = 0) => Committed = 0
<1>1. charge \in [Attempts -> Int]
  BY DEF TypeOK
<1>2. Committed = Positive(charge) /\ RefundedTwice = Negative(charge)
  BY DEF Committed, RefundedTwice, Positive, Negative
<1> QED
  BY <1>1, <1>2, SumsOf

\* The same of the state a step leads to.
LEMMA SumsBecome ==
  ASSUME TypeOK'
  PROVE  /\ Committed' \in Nat /\ RefundedTwice' \in Nat
         /\ RefundedTwice' = 0 <=> \A a \in Attempts : charge'[a] >= 0
         /\ (\A a \in Attempts : charge'[a] = 0) => Committed' = 0
<1>1. charge' \in [Attempts -> Int]
  BY DEF TypeOK
<1>2. Committed' = Positive(charge') /\ RefundedTwice' = Negative(charge')
  BY DEF Committed, RefundedTwice, Positive, Negative
<1> QED
  BY <1>1, <1>2, SumsOf

\* Every step keeps what an attempt has standing.
LEMMA ChargesStep == LedgerInv /\ ChargesOK /\ [Next]_vars => ChargesOK'
<1> SUFFICES ASSUME LedgerInv, ChargesOK, [Next]_vars
             PROVE  ChargesOK'
  OBVIOUS
<1> USE LedgerAssumption
    DEF LedgerInv, TypeOK, ChargesOK, Label, MirrorLabel, storeVars, callVars, mirrorVars,
        Goto, Return, Leave, MirrorEnds, Charge
<1>1. ASSUME NEW a \in Attempts, RedisReserve(a)
      PROVE  ChargesOK'
  BY <1>1 DEF RedisReserve
<1>2. ASSUME NEW a \in Attempts, RedisRefuses(a)
      PROVE  ChargesOK'
  BY <1>2 DEF RedisRefuses
<1>3. ASSUME NEW a \in Attempts, RedisFails(a)
      PROVE  ChargesOK'
  BY <1>3 DEF RedisFails
<1>4. ASSUME NEW a \in Attempts, Upsert(a)
      PROVE  ChargesOK'
  BY <1>4 DEF Upsert
<1>5. ASSUME NEW a \in Attempts, Update(a)
      PROVE  ChargesOK'
  BY <1>5 DEF Update
<1>6. ASSUME NEW a \in Attempts, Read(a)
      PROVE  ChargesOK'
  BY <1>6 DEF Read
<1>7. ASSUME NEW a \in Attempts, Sync(a)
      PROVE  ChargesOK'
  BY <1>7 DEF Sync
<1>8. ASSUME NEW a \in Attempts, SyncFails(a)
      PROVE  ChargesOK'
  BY <1>8 DEF SyncFails
<1>9. ASSUME NEW a \in Attempts, Keep(a)
      PROVE  ChargesOK'
  BY <1>9 DEF Keep
<1>10. ASSUME NEW a \in Attempts, Release(a)
      PROVE  ChargesOK'
  BY <1>10 DEF Release
<1>11. ASSUME NEW a \in Attempts, AdjustNothing(a)
      PROVE  ChargesOK'
  BY <1>11 DEF AdjustNothing
<1>12. ASSUME NEW a \in Attempts, Adjust(a)
      PROVE  ChargesOK'
  BY <1>12 DEF Adjust
<1>13. ASSUME NEW a \in Attempts, Clamp(a)
      PROVE  ChargesOK'
  BY <1>13 DEF Clamp
<1>14. ASSUME NEW a \in Attempts, MirrorLoad(a)
      PROVE  ChargesOK'
  BY <1>14 DEF MirrorLoad
<1>15. ASSUME NEW a \in Attempts, MirrorCreate(a)
      PROVE  ChargesOK'
  BY <1>15 DEF MirrorCreate
<1>16. ASSUME NEW a \in Attempts, MirrorReload(a)
      PROVE  ChargesOK'
  BY <1>16 DEF MirrorReload
<1>17. ASSUME NEW a \in Attempts, MirrorUpdate(a)
      PROVE  ChargesOK'
  BY <1>17 DEF MirrorUpdate
<1>18. ASSUME NEW a \in Attempts, MirrorFails(a)
      PROVE  ChargesOK'
  BY <1>18 DEF MirrorFails
<1>19. ASSUME NEW a \in Attempts, PostgresFails(a)
      PROVE  ChargesOK'
  BY <1>19 DEF PostgresFails
<1>20. ASSUME NEW a \in Attempts, Crash(a)
      PROVE  ChargesOK'
  BY <1>20 DEF Crash
<1>21. ASSUME NEW a \in Attempts, NEW c \in Costs, Settle(a, c)
      PROVE  ChargesOK'
  BY <1>21 DEF Settle
<1>22. CASE LoseKey
  BY <1>22 DEF LoseKey
<1>23. CASE UNCHANGED vars
  BY <1>23 DEF vars
<1> QED
  BY <1>1, <1>2, <1>3, <1>4, <1>5, <1>6, <1>7, <1>8, <1>9, <1>10, <1>11, <1>12,
     <1>13, <1>14, <1>15, <1>16, <1>17, <1>18, <1>19, <1>20, <1>21, <1>22, <1>23
     DEF Next, Reserving, Reading, Adjusting, Mirroring, Failing

\* Postgres alone: the row is there when it is needed.
LEMMA PostgresRowStep == LedgerInv /\ ChargesOK /\ PostgresRow /\ [Next]_vars => PostgresRow'
<1> SUFFICES ASSUME LedgerInv, ChargesOK, PostgresRow, [Next]_vars
             PROVE  PostgresRow'
  OBVIOUS
<1> USE LedgerAssumption
    DEF LedgerInv, TypeOK, ChargesOK, PostgresRow, Label, MirrorLabel, storeVars, callVars,
        mirrorVars, Goto, Return, Leave, MirrorEnds, Charge, Stored, Fault
<1>1. ASSUME NEW a \in Attempts, RedisReserve(a)
      PROVE  PostgresRow'
  BY <1>1 DEF RedisReserve
<1>2. ASSUME NEW a \in Attempts, RedisRefuses(a)
      PROVE  PostgresRow'
  BY <1>2 DEF RedisRefuses
<1>3. ASSUME NEW a \in Attempts, RedisFails(a)
      PROVE  PostgresRow'
  BY <1>3 DEF RedisFails
<1>4. ASSUME NEW a \in Attempts, Upsert(a)
      PROVE  PostgresRow'
  BY <1>4 DEF Upsert
<1>5. ASSUME NEW a \in Attempts, Update(a)
      PROVE  PostgresRow'
  BY <1>5 DEF Update
<1>6. ASSUME NEW a \in Attempts, Read(a)
      PROVE  PostgresRow'
  BY <1>6 DEF Read
<1>7. ASSUME NEW a \in Attempts, Sync(a)
      PROVE  PostgresRow'
  BY <1>7 DEF Sync
<1>8. ASSUME NEW a \in Attempts, SyncFails(a)
      PROVE  PostgresRow'
  BY <1>8 DEF SyncFails
<1>9. ASSUME NEW a \in Attempts, Keep(a)
      PROVE  PostgresRow'
  BY <1>9 DEF Keep
<1>10. ASSUME NEW a \in Attempts, Release(a)
      PROVE  PostgresRow'
  BY <1>10 DEF Release
<1>11. ASSUME NEW a \in Attempts, AdjustNothing(a)
      PROVE  PostgresRow'
  BY <1>11 DEF AdjustNothing
<1>12. ASSUME NEW a \in Attempts, Adjust(a)
      PROVE  PostgresRow'
  BY <1>12 DEF Adjust
<1>13. ASSUME NEW a \in Attempts, Clamp(a)
      PROVE  PostgresRow'
  BY <1>13 DEF Clamp
<1>14. ASSUME NEW a \in Attempts, MirrorLoad(a)
      PROVE  PostgresRow'
  BY <1>14 DEF MirrorLoad
<1>15. ASSUME NEW a \in Attempts, MirrorCreate(a)
      PROVE  PostgresRow'
  BY <1>15 DEF MirrorCreate
<1>16. ASSUME NEW a \in Attempts, MirrorReload(a)
      PROVE  PostgresRow'
  BY <1>16 DEF MirrorReload
<1>17. ASSUME NEW a \in Attempts, MirrorUpdate(a)
      PROVE  PostgresRow'
  BY <1>17 DEF MirrorUpdate
<1>18. ASSUME NEW a \in Attempts, MirrorFails(a)
      PROVE  PostgresRow'
  BY <1>18 DEF MirrorFails
<1>19. ASSUME NEW a \in Attempts, PostgresFails(a)
      PROVE  PostgresRow'
  BY <1>19 DEF PostgresFails
<1>20. ASSUME NEW a \in Attempts, Crash(a)
      PROVE  PostgresRow'
  BY <1>20 DEF Crash
<1>21. ASSUME NEW a \in Attempts, NEW c \in Costs, Settle(a, c)
      PROVE  PostgresRow'
  BY <1>21 DEF Settle
<1>22. CASE LoseKey
  BY <1>22 DEF LoseKey
<1>23. CASE UNCHANGED vars
  BY <1>23 DEF vars
<1> QED
  BY <1>1, <1>2, <1>3, <1>4, <1>5, <1>6, <1>7, <1>8, <1>9, <1>10, <1>11, <1>12,
     <1>13, <1>14, <1>15, <1>16, <1>17, <1>18, <1>19, <1>20, <1>21, <1>22, <1>23
     DEF Next, Reserving, Reading, Adjusting, Mirroring, Failing

\* A deployment is chosen once.
LEMMA ModeStays == [Next]_vars => mode' = mode
  BY DEF Next, Reserving, Reading, Adjusting, Mirroring, Failing, RedisReserve, RedisRefuses,
         RedisFails, Upsert, Update, Read, Sync, SyncFails, Settle, Keep, Release,
         AdjustNothing, Adjust, Clamp, MirrorLoad, MirrorCreate, MirrorReload, MirrorUpdate,
         MirrorFails, PostgresFails, Crash, LoseKey, vars

\* Postgres alone: no grant, refund or settlement is lost or counted twice.
LEMMA PostgresStep ==
  LedgerInv /\ LedgerInv' /\ ChargesOK /\ PostgresRow /\ PostgresAgrees /\ [Next]_vars
     => PostgresAgrees'
<1> SUFFICES ASSUME LedgerInv, LedgerInv', ChargesOK, PostgresRow, PostgresAgrees, [Next]_vars,
                    mode = "postgres"
             PROVE  PostgresAgrees'
  BY ModeStays DEF PostgresAgrees
<1> TypeOK /\ TypeOK'
  BY DEF LedgerInv
<1>0. ASSUME Stored(row)' = Stored(row), charge' = charge,
             \A b \in Attempts : pc'[b] = "clamp" => pc[b] = "clamp" /\ delta'[b] = delta[b]
      PROVE  PostgresAgrees'
  BY <1>0 DEF PostgresAgrees, Committed, RefundedTwice
<1>1. ASSUME NEW a \in Attempts, RedisReserve(a)
      PROVE  PostgresAgrees'
  BY <1>1, <1>0 DEF RedisReserve, storeVars, callVars, mirrorVars, Goto, Return, Leave,
      Stored,
         PostgresRow, TypeOK
<1>2. ASSUME NEW a \in Attempts, RedisRefuses(a)
      PROVE  PostgresAgrees'
  BY <1>2, <1>0 DEF RedisRefuses, storeVars, callVars, mirrorVars, Goto, Return, Leave,
      Stored,
         PostgresRow, TypeOK
<1>3. ASSUME NEW a \in Attempts, RedisFails(a)
      PROVE  PostgresAgrees'
  BY <1>3, <1>0 DEF RedisFails, storeVars, callVars, mirrorVars, Goto, Return, Leave,
      Stored,
         PostgresRow, TypeOK
<1>4. ASSUME NEW a \in Attempts, Upsert(a)
      PROVE  PostgresAgrees'
  BY <1>4, <1>0 DEF Upsert, storeVars, callVars, mirrorVars, Goto, Return, Leave, Stored,
         PostgresRow, TypeOK
<1>5. ASSUME NEW a \in Attempts, Update(a)
      PROVE  PostgresAgrees'
  <2>1. CASE row <= Larger(0, Budget - Estimate[a])
    <3>1. /\ row' = row + Estimate[a] /\ Charge(a, Estimate[a]) /\ charge[a] = 0
          /\ Estimate[a] \in Nat
      BY <1>5, <2>1, LedgerAssumption DEF Update, ChargesOK
    <3>2. RefundedTwice' = 0 => RefundedTwice = 0
      BY <3>1, ChargedIs, SumsAre, SumsBecome
    <3>3. Committed' = Committed + Estimate[a]
      BY <3>1, ChargedIs
    <3>4. row # None /\ row' # None /\ row \in Nat
      BY <1>5, LedgerAssumption DEF Update, PostgresRow, TypeOK, LedgerInv, RowKnown
    <3>5. \A b \in Attempts : pc'[b] = "clamp" =>
             pc[b] = "clamp" /\ delta'[b] = delta[b] /\ charge'[b] = charge[b]
      BY <1>5, <3>1, ChargedIs DEF Update, Goto, TypeOK
    <3> QED
      BY <3>1, <3>2, <3>3, <3>4, <3>5 DEF PostgresAgrees, Stored
  <2>2. CASE ~(row <= Larger(0, Budget - Estimate[a]))
    BY <1>5, <1>0, <2>2 DEF Update, Goto, TypeOK
  <2> QED
    BY <2>1, <2>2
<1>6. ASSUME NEW a \in Attempts, Read(a)
      PROVE  PostgresAgrees'
  BY <1>6, <1>0 DEF Read, storeVars, callVars, mirrorVars, Goto, Return, Leave, Stored,
         PostgresRow, TypeOK
<1>7. ASSUME NEW a \in Attempts, Sync(a)
      PROVE  PostgresAgrees'
  BY <1>7, <1>0 DEF Sync, storeVars, callVars, mirrorVars, Goto, Return, Leave, Stored,
         PostgresRow, TypeOK
<1>8. ASSUME NEW a \in Attempts, SyncFails(a)
      PROVE  PostgresAgrees'
  BY <1>8, <1>0 DEF SyncFails, storeVars, callVars, mirrorVars, Goto, Return, Leave, Stored,
         PostgresRow, TypeOK
<1>9. ASSUME NEW a \in Attempts, Keep(a)
      PROVE  PostgresAgrees'
  BY <1>9, <1>0 DEF Keep, storeVars, callVars, mirrorVars, Goto, Return, Leave, Stored,
         PostgresRow, TypeOK
<1>10. ASSUME NEW a \in Attempts, Release(a)
      PROVE  PostgresAgrees'
  BY <1>10, <1>0 DEF Release, storeVars, callVars, mirrorVars, Goto, Return, Leave, Stored,
         PostgresRow, TypeOK
<1>11. ASSUME NEW a \in Attempts, AdjustNothing(a)
      PROVE  PostgresAgrees'
  BY <1>11 DEF AdjustNothing, PostgresRow
<1>12. ASSUME NEW a \in Attempts, Adjust(a)
      PROVE  PostgresAgrees'
  <2>0. /\ row # None /\ row \in Nat /\ delta[a] \in Int /\ charge[a] \in Int
        /\ charge[a] >= 0
    BY <1>12, LedgerAssumption DEF Adjust, PostgresRow, TypeOK, ChargesOK
  <2>1. CASE row + delta[a] >= 0
    <3>1. row' = row + delta[a] /\ Charge(a, delta[a])
      BY <1>12, <2>0, <2>1 DEF Adjust
    <3>2. ASSUME RefundedTwice' = 0
          PROVE  RefundedTwice = 0 /\ Committed' = Committed + delta[a]
      BY <2>0, <3>1, <3>2, ChargedIs, SumsAre, SumsBecome
    <3>3. row' # None
      BY <2>0, <3>1, LedgerAssumption
    <3>4. \A b \in Attempts : pc'[b] = "clamp" =>
             pc[b] = "clamp" /\ delta'[b] = delta[b] /\ charge'[b] = charge[b]
      BY <1>12, <2>0, <2>1, <3>1, ChargedIs DEF Adjust, Goto, TypeOK
    <3> QED
      BY <2>0, <3>1, <3>2, <3>3, <3>4 DEF PostgresAgrees, Stored
  <2>2. CASE ~(row + delta[a] >= 0)
    <3>1. UNCHANGED <<row, charge, mode, delta>> /\ pc' = [pc EXCEPT ![a] = "clamp"]
      BY <1>12, <2>2 DEF Adjust, Goto
    <3>2. Committed' = Committed /\ RefundedTwice' = RefundedTwice
      BY <3>1 DEF Committed, RefundedTwice
    <3>3. RefundedTwice = 0 => charge[a] <= row
      BY <2>0, SumsAre DEF PostgresAgrees, Stored
    <3>4. RefundedTwice = 0 => charge[a] + delta[a] < 0
      BY <2>0, <2>2, <3>3
    <3>5. \A b \in Attempts : pc'[b] = "clamp" => b = a \/ pc[b] = "clamp"
      BY <3>1 DEF TypeOK
    <3> QED
      BY <3>1, <3>2, <3>4, <3>5 DEF PostgresAgrees, Stored
  <2> QED
    BY <2>1, <2>2
<1>13. ASSUME NEW a \in Attempts, Clamp(a)
      PROVE  PostgresAgrees'
  <2>1. pc[a] = "clamp" /\ Charge(a, delta[a]) /\ delta[a] \in Int /\ delta[a] < 0
    BY <1>13 DEF Clamp, TypeOK, ChargesOK
  <2>2. RefundedTwice' # 0
    <3>1. ASSUME RefundedTwice' = 0
          PROVE  FALSE
      <4>1. \A b \in Attempts : charge'[b] >= 0
        BY <3>1, SumsBecome
      <4>2. \A b \in Attempts : charge[b] >= 0
        <5>1. charge[a] \in Int /\ charge'[a] = charge[a] + delta[a]
          BY <2>1, ChargedIs
        <5>2. \A b \in Attempts : b # a => charge'[b] = charge[b]
          BY <2>1, ChargedIs
        <5> QED
          BY <2>1, <4>1, <5>1, <5>2
      <4>3. charge[a] + delta[a] < 0
        BY <2>1, <4>2, SumsAre DEF PostgresAgrees
      <4> QED
        BY <2>1, <4>1, <4>3, ChargedIs
    <3> QED
      BY <3>1
  <2> QED
    BY <2>2 DEF PostgresAgrees
<1>14. ASSUME NEW a \in Attempts, MirrorLoad(a)
      PROVE  PostgresAgrees'
  BY <1>14, <1>0 DEF MirrorLoad, storeVars, callVars, mirrorVars, Goto, Return, Leave,
      Stored,
         PostgresRow, TypeOK
<1>15. ASSUME NEW a \in Attempts, MirrorCreate(a)
      PROVE  PostgresAgrees'
  BY <1>15, <1>0 DEF MirrorCreate, storeVars, callVars, mirrorVars, Goto, Return, Leave,
      Stored,
         PostgresRow, TypeOK
<1>16. ASSUME NEW a \in Attempts, MirrorReload(a)
      PROVE  PostgresAgrees'
  BY <1>16, <1>0 DEF MirrorReload, storeVars, callVars, mirrorVars, Goto, Return, Leave,
      Stored,
         PostgresRow, TypeOK
<1>17. ASSUME NEW a \in Attempts, MirrorUpdate(a)
      PROVE  PostgresAgrees'
  BY <1>17, <1>0 DEF MirrorUpdate, storeVars, callVars, mirrorVars, Goto, Return, Leave,
      Stored,
         PostgresRow, TypeOK
<1>18. ASSUME NEW a \in Attempts, MirrorFails(a)
      PROVE  PostgresAgrees'
  BY <1>18, <1>0 DEF MirrorFails, storeVars, callVars, mirrorVars, Goto, Return, Leave,
      Stored,
         PostgresRow, TypeOK
<1>19. ASSUME NEW a \in Attempts, PostgresFails(a)
      PROVE  PostgresAgrees'
  BY <1>19, <1>0 DEF PostgresFails, storeVars, callVars, mirrorVars, Goto, Return, Leave,
      Stored,
         PostgresRow, TypeOK
<1>20. ASSUME NEW a \in Attempts, Crash(a)
      PROVE  PostgresAgrees'
  BY <1>20, <1>0 DEF Crash, storeVars, callVars, mirrorVars, Goto, Return, Leave, Stored,
         PostgresRow, TypeOK
<1>21. ASSUME NEW a \in Attempts, NEW c \in Costs, Settle(a, c)
      PROVE  PostgresAgrees'
  BY <1>21, <1>0 DEF Settle, storeVars, callVars, mirrorVars, Goto, Return, Leave, Stored,
         PostgresRow, TypeOK
<1>22. CASE LoseKey
  BY <1>22, <1>0 DEF LoseKey, storeVars, callVars, mirrorVars, Goto, Return, Leave, Stored,
         PostgresRow, TypeOK
<1>23. CASE UNCHANGED vars
  BY <1>23, <1>0 DEF vars, storeVars, callVars, mirrorVars, Goto, Return, Leave, Stored,
         PostgresRow, TypeOK
<1> QED
  BY <1>1, <1>2, <1>3, <1>4, <1>5, <1>6, <1>7, <1>8, <1>9, <1>10, <1>11, <1>12,
     <1>13, <1>14, <1>15, <1>16, <1>17, <1>18, <1>19, <1>20, <1>21, <1>22, <1>23
     DEF Next, Reserving, Reading, Adjusting, Mirroring, Failing

\* Redis and Postgres without overlap: what each statement finds and leaves.
LEMMA SerialStep ==
  LedgerInv /\ LedgerInv' /\ ChargesOK /\ SerialAgrees /\ [Next]_vars => SerialAgrees'
<1> SUFFICES ASSUME LedgerInv, LedgerInv', ChargesOK, SerialAgrees, [Next]_vars,
                    mode = "serial"
             PROVE  SerialAgrees'
  BY ModeStays DEF SerialAgrees
<1> TypeOK /\ TypeOK' /\ mode' = mode
  BY ModeStays DEF LedgerInv
<1>0. charge' = charge => Committed' = Committed
  BY DEF Committed
<1>1. ASSUME NEW a \in Attempts, RedisReserve(a)
      PROVE  SerialAgrees'
  <2>1. Charge(a, Estimate[a]) /\ charge[a] = 0 /\ Estimate[a] \in Nat
    BY <1>1, LedgerAssumption DEF RedisReserve, ChargesOK
  <2>2. /\ Committed' = Committed + Estimate[a] /\ Committed \in Nat
        /\ \A b \in Attempts : charge'[b] >= 0
    BY <2>1, ChargedIs, SumsAre DEF SerialAgrees
  <2> QED
    BY <1>1, <2>1, <2>2, LedgerAssumption
       DEF RedisReserve, storeVars, callVars, mirrorVars, Goto, Return, Leave, MirrorEnds,
           Stored, Larger,
           TypeOK, SerialAgrees, Busy, InCall, Quiet, MayCall, Fault, ChargesOK
<1>2. ASSUME NEW a \in Attempts, RedisRefuses(a)
      PROVE  SerialAgrees'
  BY <1>2, <1>0, LedgerAssumption
     DEF RedisRefuses, storeVars, callVars, mirrorVars, Goto, Return, Leave, MirrorEnds,
         Stored, Larger,
         TypeOK, SerialAgrees, Busy, InCall, Quiet, MayCall, Fault, ChargesOK
<1>3. ASSUME NEW a \in Attempts, RedisFails(a)
      PROVE  SerialAgrees'
  BY <1>3 DEF RedisFails, Fault
<1>4. ASSUME NEW a \in Attempts, Upsert(a)
      PROVE  SerialAgrees'
  BY <1>4, <1>0, LedgerAssumption
     DEF Upsert, storeVars, callVars, mirrorVars, Goto, Return, Leave, MirrorEnds,
         Stored, Larger,
         TypeOK, SerialAgrees, Busy, InCall, Quiet, MayCall, Fault, ChargesOK
<1>5. ASSUME NEW a \in Attempts, Update(a)
      PROVE  SerialAgrees'
  <2>1. CASE row <= Larger(0, Budget - Estimate[a])
    <3>1. Charge(a, Estimate[a]) /\ charge[a] = 0 /\ Estimate[a] \in Nat
      BY <1>5, <2>1, LedgerAssumption DEF Update, ChargesOK
    <3>2. /\ Committed' = Committed + Estimate[a] /\ Committed \in Nat
          /\ \A b \in Attempts : charge'[b] >= 0
      BY <3>1, ChargedIs, SumsAre DEF SerialAgrees
    <3> QED
      BY <1>5, <2>1, <3>1, <3>2, LedgerAssumption
         DEF Update, storeVars, callVars, mirrorVars, Goto, Return, Leave, MirrorEnds,
             Stored, Larger,
           TypeOK, SerialAgrees, Busy, InCall, Quiet, MayCall, Fault, ChargesOK
  <2>2. CASE ~(row <= Larger(0, Budget - Estimate[a]))
    BY <1>5, <1>0, <2>2, LedgerAssumption
       DEF Update, storeVars, callVars, mirrorVars, Goto, Return, Leave, MirrorEnds,
           Stored, Larger,
           TypeOK, SerialAgrees, Busy, InCall, Quiet, MayCall, Fault, ChargesOK
  <2> QED
    BY <2>1, <2>2
<1>6. ASSUME NEW a \in Attempts, Read(a)
      PROVE  SerialAgrees'
  BY <1>6, <1>0, LedgerAssumption
     DEF Read, storeVars, callVars, mirrorVars, Goto, Return, Leave, MirrorEnds,
         Stored, Larger,
         TypeOK, SerialAgrees, Busy, InCall, Quiet, MayCall, Fault, ChargesOK
<1>7. ASSUME NEW a \in Attempts, Sync(a)
      PROVE  SerialAgrees'
  BY <1>7, <1>0, LedgerAssumption
     DEF Sync, storeVars, callVars, mirrorVars, Goto, Return, Leave, MirrorEnds,
         Stored, Larger,
         TypeOK, SerialAgrees, Busy, InCall, Quiet, MayCall, Fault, ChargesOK
<1>8. ASSUME NEW a \in Attempts, SyncFails(a)
      PROVE  SerialAgrees'
  BY <1>8, <1>0, LedgerAssumption
     DEF SyncFails, storeVars, callVars, mirrorVars, Goto, Return, Leave, MirrorEnds,
         Stored, Larger,
         TypeOK, SerialAgrees, Busy, InCall, Quiet, MayCall, Fault, ChargesOK
<1>9. ASSUME NEW a \in Attempts, Keep(a)
      PROVE  SerialAgrees'
  BY <1>9, <1>0, LedgerAssumption
     DEF Keep, storeVars, callVars, mirrorVars, Goto, Return, Leave, MirrorEnds,
         Stored, Larger,
         TypeOK, SerialAgrees, Busy, InCall, Quiet, MayCall, Fault, ChargesOK
<1>10. ASSUME NEW a \in Attempts, Release(a)
      PROVE  SerialAgrees'
  BY <1>10, <1>0, LedgerAssumption
     DEF Release, storeVars, callVars, mirrorVars, Goto, Return, Leave, MirrorEnds,
         Stored, Larger,
         TypeOK, SerialAgrees, Busy, InCall, Quiet, MayCall, Fault, ChargesOK
<1>11. ASSUME NEW a \in Attempts, AdjustNothing(a)
      PROVE  SerialAgrees'
  BY <1>11, <1>0, LedgerAssumption
     DEF AdjustNothing, storeVars, callVars, mirrorVars, Goto, Return, Leave, MirrorEnds,
         Stored, Larger,
         TypeOK, SerialAgrees, Busy, InCall, Quiet, MayCall, Fault, ChargesOK
<1>12. ASSUME NEW a \in Attempts, Adjust(a)
      PROVE  SerialAgrees'
  <2>1. /\ row # None /\ row = Committed /\ charge[a] = Estimate[a]
        /\ delta[a] >= -Estimate[a] /\ delta[a] \in Int /\ Estimate[a] \in Nat
    BY <1>12, LedgerAssumption DEF Adjust, SerialAgrees, InCall, Stored, ChargesOK, TypeOK
  <2>2. row \in Nat /\ charge[a] <= row
    BY <2>1, SumsAre
  <2>3. row' = row + delta[a] /\ Charge(a, delta[a])
    BY <1>12, <2>1, <2>2 DEF Adjust
  <2>4. Committed' = Committed + delta[a] /\ \A b \in Attempts : charge'[b] >= 0
    BY <2>1, <2>3, ChargedIs DEF SerialAgrees
  <2>5. pc' = [pc EXCEPT ![a] = "read"]
    BY <1>12, <2>1, <2>2 DEF Adjust, Goto
  <2> QED
    BY <1>12, <2>1, <2>2, <2>3, <2>4, <2>5, LedgerAssumption
       DEF Adjust, storeVars, callVars, mirrorVars, Goto, Return, Leave, MirrorEnds,
           Stored, Larger,
           TypeOK, SerialAgrees, Busy, InCall, Quiet, MayCall, Fault, ChargesOK
<1>13. ASSUME NEW a \in Attempts, Clamp(a)
      PROVE  SerialAgrees'
  BY <1>13, <1>0, LedgerAssumption
     DEF Clamp, storeVars, callVars, mirrorVars, Goto, Return, Leave, MirrorEnds,
         Stored, Larger,
         TypeOK, SerialAgrees, Busy, InCall, Quiet, MayCall, Fault, ChargesOK
<1>14. ASSUME NEW a \in Attempts, MirrorLoad(a)
      PROVE  SerialAgrees'
  BY <1>14, <1>0, LedgerAssumption
     DEF MirrorLoad, storeVars, callVars, mirrorVars, Goto, Return, Leave, MirrorEnds,
         Stored, Larger,
         TypeOK, SerialAgrees, Busy, InCall, Quiet, MayCall, Fault, ChargesOK
<1>15. ASSUME NEW a \in Attempts, MirrorCreate(a)
      PROVE  SerialAgrees'
  BY <1>15, <1>0, LedgerAssumption
     DEF MirrorCreate, storeVars, callVars, mirrorVars, Goto, Return, Leave, MirrorEnds,
         Stored, Larger,
         TypeOK, SerialAgrees, Busy, InCall, Quiet, MayCall, Fault, ChargesOK
<1>16. ASSUME NEW a \in Attempts, MirrorReload(a)
      PROVE  SerialAgrees'
  BY <1>16, <1>0, LedgerAssumption
     DEF MirrorReload, storeVars, callVars, mirrorVars, Goto, Return, Leave, MirrorEnds,
         Stored, Larger,
         TypeOK, SerialAgrees, Busy, InCall, Quiet, MayCall, Fault, ChargesOK
<1>17. ASSUME NEW a \in Attempts, MirrorUpdate(a)
      PROVE  SerialAgrees'
  BY <1>17, <1>0, LedgerAssumption
     DEF MirrorUpdate, storeVars, callVars, mirrorVars, Goto, Return, Leave, MirrorEnds,
         Stored, Larger,
         TypeOK, SerialAgrees, Busy, InCall, Quiet, MayCall, Fault, ChargesOK
<1>18. ASSUME NEW a \in Attempts, MirrorFails(a)
      PROVE  SerialAgrees'
  BY <1>18 DEF MirrorFails, Fault
<1>19. ASSUME NEW a \in Attempts, PostgresFails(a)
      PROVE  SerialAgrees'
  BY <1>19 DEF PostgresFails, Fault
<1>20. ASSUME NEW a \in Attempts, Crash(a)
      PROVE  SerialAgrees'
  BY <1>20 DEF Crash, Fault
<1>21. ASSUME NEW a \in Attempts, NEW c \in Costs, Settle(a, c)
      PROVE  SerialAgrees'
  BY <1>21, <1>0, LedgerAssumption
     DEF Settle, storeVars, callVars, mirrorVars, Goto, Return, Leave, MirrorEnds,
         Stored, Larger,
         TypeOK, SerialAgrees, Busy, InCall, Quiet, MayCall, Fault, ChargesOK
<1>22. CASE LoseKey
  BY <1>22, <1>0, LedgerAssumption
     DEF LoseKey, storeVars, callVars, mirrorVars, Goto, Return, Leave, MirrorEnds,
         Stored, Larger,
         TypeOK, SerialAgrees, Busy, InCall, Quiet, MayCall, Fault, ChargesOK
<1>23. CASE UNCHANGED vars
  BY <1>23, <1>0, LedgerAssumption
     DEF vars, storeVars, callVars, mirrorVars, Goto, Return, Leave, MirrorEnds,
         Stored, Larger,
         TypeOK, SerialAgrees, Busy, InCall, Quiet, MayCall, Fault, ChargesOK
<1> QED
  BY <1>1, <1>2, <1>3, <1>4, <1>5, <1>6, <1>7, <1>8, <1>9, <1>10, <1>11, <1>12,
     <1>13, <1>14, <1>15, <1>16, <1>17, <1>18, <1>19, <1>20, <1>21, <1>22, <1>23
     DEF Next, Reserving, Reading, Adjusting, Mirroring, Failing

-----------------------------------------------------------------------------
(* What the ledger shows and enforces *)

\* The invariant of the agreement holds of an empty ledger, and is kept.
LEMMA InitAgreement == Init => Agreement
<1> SUFFICES ASSUME Init
             PROVE  Agreement
  OBVIOUS
<1>1. LedgerInv
  BY InitInv
<1>2. Committed = 0
  BY <1>1, SumsAre DEF Init, LedgerInv
<1>3. ChargesOK /\ PostgresRow /\ PostgresAgrees
  BY <1>2 DEF Init, ChargesOK, PostgresRow, PostgresAgrees, Stored
<1>4. SerialAgrees
  BY <1>2 DEF Init, SerialAgrees, Stored, Busy, InCall
<1> QED
  BY <1>1, <1>3, <1>4 DEF Agreement

\* Every step keeps the invariant of the ledger's counts.
LEMMA NextAgreement == Agreement /\ [Next]_vars => Agreement'
  BY NextInv, ChargesStep, PostgresRowStep, PostgresStep, SerialStep DEF Agreement

\* The row, with Redis the row and the key, follow what the attempts have
\* standing, statement by statement.
THEOREM AgreementHolds == Spec => []Agreement
  BY InitAgreement, NextAgreement, PTL DEF Spec

\* Postgres alone loses no grant, refund or settlement and counts none twice,
\* whatever is interleaved and fails; nor do Redis and Postgres between calls
\* that do not overlap.
THEOREM LedgerKeepsCount == Spec => []LedgerAgrees
<1>1. Agreement => LedgerAgrees
  BY DEF Agreement, LedgerAgrees, PostgresAgrees, SerialAgrees
<1> QED
  BY <1>1, AgreementHolds, PTL

\* The attempts never commit more than the budget and the overruns that were
\* settled, unless one got more back than it reserved.
THEOREM LedgerEnforcesBudget == Spec => []NotOversubscribed
<1>1. ASSUME Agreement, mode # "concurrent", EstimatesFit, RefundedTwice = 0
      PROVE  BudgetEnforced
  <2>1. /\ TypeOK /\ Budget \in Nat /\ overrun \in Nat /\ Committed \in Nat
        /\ Stored(row) \in Nat /\ Stored(row) <= Budget + overrun
        /\ cache # None => cache <= Budget + overrun
    BY <1>1, SumsAre, LedgerAssumption
       DEF Agreement, LedgerInv, TypeOK, LedgerWithinBudget, Stored
  <2>2. mode \in {"postgres", "serial"}
    BY <1>1, <2>1, LedgerAssumption DEF TypeOK, Deployment
  <2>3. CASE mode = "postgres"
    BY <1>1, <2>1, <2>3 DEF Agreement, PostgresAgrees, BudgetEnforced
  <2>4. CASE mode = "serial"
    <3>1. CASE Quiet
      BY <1>1, <2>1, <2>4, <3>1 DEF Agreement, SerialAgrees, BudgetEnforced
    <3>2. CASE ~Quiet
      <4>1. PICK a \in Attempts : InCall(a) \/ mirror[a] # "off"
        BY <3>2 DEF Quiet
      <4>2. Committed = Stored(row) \/ (cache # None /\ Committed = cache)
        BY <1>1, <2>4, <4>1 DEF Agreement, SerialAgrees
      <4> QED
        BY <1>1, <2>1, <4>2 DEF BudgetEnforced
    <3> QED
      BY <3>1, <3>2
  <2> QED
    BY <2>2, <2>3, <2>4
<1>2. Agreement => NotOversubscribed
  BY <1>1 DEF NotOversubscribed
<1> QED
  BY <1>2, AgreementHolds, PTL

-----------------------------------------------------------------------------
(* The Codex CLI *)

\* How often the CLI was called before each of its calls.
CallsCounted ==
    /\ calls \in 0 .. 4
    /\ phase \in {"resolve", "hydrate", "generate", "write", "stdinOnly", "file"} => calls = 0
    /\ phase \in {"stdin", "stdinFile"} => calls = 1
    /\ phase = "retry" => calls \in {1, 2}
    /\ phase = "stdinRetry" => calls \in {2, 3}

\* Who holds on to the directory: only a run on its way to the removal, or one
\* that a failed call took off that way.
DirHeld ==
    /\ phase \in {"resolve", "hydrate", "generate"} => dir # "made"
    /\ phase = "stdinOnly" => (dir = "made" => "prompt" \in failures)
    /\ phase \in {"build", "done"} => (dir = "made" => failures \cap {"prompt", "cleanup"} # {})

CliInv == CallsCounted /\ DirHeld

\* At first no run holds a directory ...
LEMMA InitCli == InitGeneration => CliInv
  BY DEF InitGeneration, CliInv, CallsCounted, DirHeld

\* ... and every step of every provider keeps the invariant.
LEMMA NextCli == CliInv /\ [NextGeneration]_generationVars => CliInv'
<1> SUFFICES ASSUME CliInv, [NextGeneration]_generationVars
             PROVE  CliInv'
  OBVIOUS
<1> USE DEF CliInv, CallsCounted, DirHeld, Finish, Answered, AnsweredAtOnce, Restart, Called,
        FailureOf, cliVars
<1>1. CASE Database
  BY <1>1 DEF Database, Persist, Retain
<1>2. CASE Resolve
  BY <1>2 DEF Resolve, PassThrough, RankTopics, Hydrate, StorageFails, Resolving
<1>3. CASE Generate
  BY <1>3 DEF Generate, Internal, Http, HttpFails, Build
<1>4. CASE MakeDir \/ MakeDirFails \/ WritePrompt \/ WritePromptFails
  BY <1>4 DEF MakeDir, MakeDirFails, WritePrompt, WritePromptFails
<1>5. ASSUME NEW out \in Output, StdinOnly(out)
      PROVE  CliInv'
  BY <1>5 DEF StdinOnly
<1>6. ASSUME NEW out \in Output, Retry(out)
      PROVE  CliInv'
  BY <1>6 DEF Retry
<1>7. ASSUME NEW out \in Output, NEW m, FileMode(out, m)
      PROVE  CliInv'
  BY <1>7 DEF FileMode
<1>8. ASSUME NEW out \in Output, NEW m, Stdin(out, m)
      PROVE  CliInv'
  <2>1. CASE phase = "stdin"
    BY <1>8, <2>1 DEF Stdin, StdinError
  <2>2. CASE phase = "stdinFile"
    BY <1>8, <2>2 DEF Stdin, StdinError
  <2>3. CASE phase = "stdinRetry"
    BY <1>8, <2>3 DEF Stdin, StdinError
  <2> QED
    BY <1>8, <2>1, <2>2, <2>3 DEF Stdin
<1>9. ASSUME NEW e \in CliError, CliFails(e)
      PROVE  CliInv'
  <2>1. CASE phase = "stdinOnly"
    BY <1>9, <2>1 DEF CliFails
  <2>2. CASE phase = "file"
    BY <1>9, <2>2 DEF CliFails
  <2>3. CASE phase = "retry"
    BY <1>9, <2>3 DEF CliFails
  <2>4. CASE phase = "stdin"
    BY <1>9, <2>4 DEF CliFails, StdinError
  <2>5. CASE phase = "stdinFile"
    BY <1>9, <2>5 DEF CliFails, StdinError
  <2>6. CASE phase = "stdinRetry"
    BY <1>9, <2>6 DEF CliFails, StdinError
  <2> QED
    BY <1>9, <2>1, <2>2, <2>3, <2>4, <2>5, <2>6 DEF CliFails
<1>10. ASSUME NEW e \in CleanupError, CleanupFails(e)
       PROVE  CliInv'
  BY <1>10 DEF CleanupFails
<1>11. CASE Cleanup
  BY <1>11 DEF Cleanup
<1>12. CASE UNCHANGED generationVars
  BY <1>12 DEF generationVars
<1> QED
  BY <1>1, <1>2, <1>3, <1>4, <1>5, <1>6, <1>7, <1>8, <1>9, <1>10, <1>11, <1>12
     DEF NextGeneration, Cli

\* However a run of the Codex CLI ends, and whatever call failed, it took four
\* calls at most and left its directory only where the prompt could not be
\* written or the directory not be removed (executeCodexCli).
THEOREM CliAlwaysReleased == GenerationSpec => []CliReleased
<1>1. CliInv => CliReleased
  BY DEF CliInv, CallsCounted, DirHeld, CliReleased
<1> QED
  BY <1>1, InitCli, NextCli, PTL DEF GenerationSpec

-----------------------------------------------------------------------------
(* Grounding *)

\* A request as the grounding takes it.
IsRequest(req) ==
    /\ req \in Seq(ToSet(req))
    /\ \A i \in DOMAIN req :
          /\ IsFiniteSet(req[i].evidence)
          /\ \A e \in req[i].evidence : e.url = Absent \/ IsUrl(e.url)

\* The urls of a topic are finitely many.
LEMMA UrlsFinite ==
  ASSUME NEW topic, IsFiniteSet(topic.evidence)
  PROVE  IsFiniteSet(UrlsOf(topic))
<1> DEFINE E == topic.evidence
           f == [e \in E |-> CanonicalUrl(e.url)]
<1>1. IsFiniteSet({f[e] : e \in E})
  <2> HIDE DEF f, E
  <2> QED
    BY FiniteImage DEF E
<1>2. UrlsOf(topic) \subseteq {f[e] : e \in E}
  BY DEF UrlsOf, CanonicalUrls
<1> QED
  BY <1>1, <1>2, FS_Subset

\* The scope of a key is a topic of the request that has it; of each key there
\* is a first topic, another one for every key.
LEMMA Scopes ==
  ASSUME NEW req, IsRequest(req), NEW k \in ScopeKeys(req)
  PROVE  /\ \E i \in DOMAIN req : Scope(req, k) = req[i]
         /\ Key[Scope(req, k).topic] = k
         /\ Min(Indices(req, k)) \in Indices(req, k)
         /\ Indices(req, k) \subseteq DOMAIN req
         /\ DOMAIN req \subseteq Nat
<1> DEFINE I == Indices(req, k)
<1>1. I \subseteq 1 .. Len(req) /\ I # {} /\ DOMAIN req = 1 .. Len(req) /\ Len(req) \in Nat
  BY DEF Indices, ScopeKeys, IsRequest
<1>2. IsFiniteSet(I) /\ I \subseteq Nat
  <2>1. IsFiniteSet(1 .. Len(req))
    BY <1>1, FS_Interval
  <2> QED
    BY <1>1, <2>1, FS_Subset
<1>3. Max(I) \in I /\ Min(I) \in I
  <2> HIDE DEF I
  <2> QED
    BY <1>1, <1>2, Extremes
<1>5. \A i \in I : Key[req[i].topic] = k
  BY DEF Indices
<1>6. Scope(req, k) = req[Max(I)]
  BY DEF Scope
<1>7. I \subseteq DOMAIN req /\ DOMAIN req \subseteq Nat
  BY <1>1
<1>8. Max(I) \in DOMAIN req /\ Key[req[Max(I)].topic] = k
  BY <1>3, <1>5, <1>7
<1> QED
  BY <1>3, <1>6, <1>7, <1>8

\* resolveGroundedTopicScope finds one scope, and the highlight cites of it.
LEMMA ScopeFound ==
  ASSUME NEW req, IsRequest(req), NEW name, NEW cites
  PROVE  LET k == ScopeFor(req, name, cites)
         IN  k # Absent => /\ k \in ScopeKeys(req)
                           /\ UrlsOf(Scope(req, k)) \cap cites # {}
<1> DEFINE C == {k \in ScopeKeys(req) : Overlap(req, k, cites) > 0}
           Same(k) == Group[Key[name]] # Absent /\ Group[k] = Group[Key[name]]
           Better(k, l) ==
              LET m == Overlap(req, k, cites)
                  n == Overlap(req, l, cites)
              IN  \/ m > n
                  \/ m = n /\ Same(k) /\ ~Same(l)
                  \/ /\ m = n /\ (Same(k) <=> Same(l))
                     /\ Min(Indices(req, k)) < Min(Indices(req, l))
           before == [k \in C |-> {l \in C : Better(l, k)}]
<1>1. ASSUME NEW k \in ScopeKeys(req)
      PROVE  /\ Overlap(req, k, cites) \in Nat
             /\ Overlap(req, k, cites) > 0 => UrlsOf(Scope(req, k)) \cap cites # {}
  <2>1. IsFiniteSet(UrlsOf(Scope(req, k)))
    BY Scopes, UrlsFinite DEF IsRequest
  <2>2. IsFiniteSet(UrlsOf(Scope(req, k)) \cap cites)
    BY <2>1, FS_Intersection
  <2> QED
    BY <2>2, FS_CardinalityType, FS_EmptySet DEF Overlap
<1>2. IsFiniteSet(C)
  <2> DEFINE f == [i \in DOMAIN req |-> Key[req[i].topic]]
  <2>1. IsFiniteSet(DOMAIN req)
    <3>1. DOMAIN req = 1 .. Len(req) /\ Len(req) \in Nat
      BY DEF IsRequest
    <3> QED
      BY <3>1, FS_Interval
  <2>2. IsFiniteSet({f[i] : i \in DOMAIN req})
    <3> HIDE DEF f
    <3> QED
      BY <2>1, FiniteImage
  <2>3. C \subseteq {f[i] : i \in DOMAIN req}
    BY DEF ScopeKeys
  <2> QED
    BY <2>2, <2>3, FS_Subset
<1>3. C # {} => \E k \in C : \A l \in C \ {k} : Better(k, l)
  <2> SUFFICES ASSUME C # {}
               PROVE  \E k \in C : \A l \in C \ {k} : Better(k, l)
    OBVIOUS
  <2>1. \A k \in C : Overlap(req, k, cites) \in Nat /\ Min(Indices(req, k)) \in Nat
    BY <1>1, Scopes
  <2>2. \A k, l \in C : Min(Indices(req, k)) = Min(Indices(req, l)) => k = l
    <3>1. \A k \in C : Key[req[Min(Indices(req, k))].topic] = k
      <4> TAKE k \in C
      <4>1. Min(Indices(req, k)) \in Indices(req, k)
        BY Scopes
      <4> QED
        BY <4>1 DEF Indices
    <3> QED
      BY <3>1
  <2>3. \A x \in C : ~Better(x, x)
    BY <2>1
  <2>4. \A x, y \in C : x = y \/ Better(x, y) \/ Better(y, x)
    BY <2>1, <2>2
  <2>5. \A x, y, z \in C : Better(x, y) /\ Better(y, z) => Better(x, z)
    BY <2>1
  <2>6. Orders(before, C)
    <3> HIDE DEF Better, C
    <3> QED
      BY <2>3, <2>4, <2>5 DEF Orders
  <2>7. \E x \in C : before[x] = {}
    <3> HIDE DEF before, C
    <3> QED
      BY <1>2, <2>6, FirstOnes
  <2> HIDE DEF Better, C
  <2> QED
    BY <2>4, <2>7
<1>4. ScopeFor(req, name, cites) =
        CASE C = {} -> Absent
          [] Key[name] \in C -> Key[name]
          [] OTHER -> CHOOSE k \in C : \A l \in C \ {k} : Better(k, l)
  BY DEF ScopeFor
<1>5. ScopeFor(req, name, cites) = Absent \/ ScopeFor(req, name, cites) \in C
  <2> HIDE DEF Better, C
  <2>1. CASE C = {}
    BY <1>4, <2>1
  <2>2. CASE C # {} /\ Key[name] \in C
    BY <1>4, <2>2
  <2>3. CASE C # {} /\ Key[name] \notin C
    <3>1. ScopeFor(req, name, cites) = CHOOSE k \in C : \A l \in C \ {k} : Better(k, l)
      BY <1>4, <2>3
    <3> QED
      BY <1>3, <2>3, <3>1
  <2> QED
    BY <2>1, <2>2, <2>3
<1> QED
  BY <1>1, <1>5

\* What the canonicalization makes of a url is one, or nothing.
LEMMA CanonicalTyped ==
  ASSUME NEW u, IsUrl(u)
  PROVE  CanonicalUrl(u) = Absent \/ IsUrl(CanonicalUrl(u))
<1> DEFINE few  == FewestSlashes(u)
           port == IF <<u.scheme, u.port>> \in DefaultPorts THEN Absent ELSE u.port
           left == IF u.slashes - 1 > few THEN u.slashes - 1 ELSE few
           v    == [scheme |-> u.scheme, host |-> u.host, port |-> port,
                    path |-> u.path, slashes |-> left, hash |-> Absent]
<1>1. left \in Nat
  BY DEF IsUrl, FewestSlashes
<1>2. CanonicalUrl(u) = Absent \/ CanonicalUrl(u) = v
  BY DEF CanonicalUrl, CanonicalTimes, IsUrl
<1>3. IsUrl(v)
  <2> HIDE DEF left, port
  <2> QED
    BY <1>1 DEF IsUrl
<1> HIDE DEF v
<1> QED
  BY <1>2, <1>3

\* Canonicalizing a url of the web n times more takes slashes from its end, none
\* if one time takes none.
LEMMA CanonicalAgain ==
  ASSUME NEW u, IsUrl(u), Public(u), NEW n \in Nat \ {0}
  PROVE  /\ CanonicalTimes(CanonicalUrl(u), n) = CanonicalTimes(u, n + 1)
         /\ SamePage(CanonicalTimes(CanonicalUrl(u), n), CanonicalUrl(u))
         /\ CanonicalUrl(CanonicalUrl(u)) = CanonicalUrl(u) =>
                CanonicalTimes(CanonicalUrl(u), n) = CanonicalUrl(u)
<1> DEFINE few  == FewestSlashes(u)
           port == IF <<u.scheme, u.port>> \in DefaultPorts THEN Absent ELSE u.port
           made(s) == [scheme |-> u.scheme, host |-> u.host, port |-> port,
                       path |-> u.path, slashes |-> s, hash |-> Absent]
           v    == CanonicalUrl(u)
           less(s, m) == IF s - m > few THEN s - m ELSE few
<1>1. few \in Nat /\ u.slashes \in Nat
  BY DEF FewestSlashes, IsUrl
<1>2. \A m : CanonicalTimes(u, m) = made(less(u.slashes, m))
  BY DEF CanonicalTimes, IsUrl
<1>3. v = made(less(u.slashes, 1))
  BY <1>2 DEF CanonicalUrl
<1>4. Public(v) /\ FewestSlashes(v) = few
  BY <1>3 DEF Public, FewestSlashes
<1>5. (IF <<v.scheme, v.port>> \in DefaultPorts THEN Absent ELSE v.port) = port
  BY <1>3
<1>6. \A m : CanonicalTimes(v, m) = made(less(v.slashes, m))
  <2> TAKE m
  <2>1. CanonicalTimes(v, m) =
            [v EXCEPT !.hash = Absent, !.port = port, !.slashes = less(@, m)]
    <3>1. /\ v.port = port /\ v.scheme = u.scheme
      BY <1>3
    <3> HIDE DEF few, v
    <3> QED
      BY <1>4, <1>5, <3>1 DEF CanonicalTimes
  <2> HIDE DEF few, v, less
  <2> QED
    BY <1>3, <2>1
<1>7. v.slashes = less(u.slashes, 1) /\ v.slashes \in Nat
  BY <1>1, <1>3
<1> DEFINE c == CanonicalTimes(v, n)
<1>8. c = made(less(v.slashes, n)) /\ c.slashes = less(v.slashes, n)
  BY <1>6
<1>9. /\ less(v.slashes, n) = less(u.slashes, n + 1)
      /\ less(v.slashes, n) <= v.slashes
      /\ less(v.slashes, 1) = v.slashes => less(v.slashes, n) = v.slashes
  <2> HIDE DEF few, v
  <2> QED
    BY <1>1, <1>7
<1>10. v = made(v.slashes)
  BY <1>3
<1>11. SamePage(c, v)
  <2>1. [made(less(v.slashes, n)) EXCEPT !.slashes = v.slashes] = made(v.slashes)
    OBVIOUS
  <2> HIDE DEF made, v, c, less
  <2> QED
    BY <1>8, <1>9, <1>10, <2>1 DEF SamePage
<1>12. CanonicalUrl(v) = v => less(v.slashes, 1) = v.slashes
  <2>1. CanonicalUrl(v) = made(less(v.slashes, 1))
    BY <1>6 DEF CanonicalUrl
  <2>2. CanonicalUrl(v).slashes = less(v.slashes, 1)
    BY <2>1
  <2> QED
    BY <2>2
<1> HIDE DEF made, v, less
<1> QED
  BY <1>2, <1>8, <1>9, <1>10, <1>11, <1>12 DEF c, v

\* However often a url of a topic's evidence is canonicalized, it can be traced.
LEMMA TracedAgain ==
  ASSUME NEW topic, \A e \in topic.evidence : e.url = Absent \/ IsUrl(e.url),
         NEW v \in UrlsOf(topic), NEW n \in Nat \ {0}
  PROVE  Traced(CanonicalTimes(v, n), UrlsOf(topic))
<1>1. PICK e \in topic.evidence : e.url # Absent /\ v = CanonicalUrl(e.url) /\ v # Absent
  BY DEF UrlsOf, CanonicalUrls
<1>2. IsUrl(e.url) /\ Public(e.url)
  BY <1>1 DEF CanonicalUrl, CanonicalTimes
<1>3. /\ SamePage(CanonicalTimes(v, n), v)
      /\ CanonicalUrl(v) = v => CanonicalTimes(v, n) = v
  BY <1>1, <1>2, CanonicalAgain
<1> QED
  BY <1>3 DEF Traced

\* A highlight of a topic of the request, whose citations are held to its evidence.
OfScope(req, h) ==
    LET k == Key[h.topic]
    IN  /\ k \in ScopeKeys(req)
        /\ h.topic = Scope(req, k).topic
        /\ h.cites # {} /\ \A c \in h.cites : Traced(c, UrlsOf(Scope(req, k)))

\* A grounded highlight, if not discarded, cites evidence of its scope.
LEMMA Grounds ==
  ASSUME NEW req, IsRequest(req), NEW h, NEW g, g = Ground(req, h), g.cites # {}
  PROVE  /\ Key[g.topic] \in ScopeKeys(req)
         /\ g.topic = Scope(req, Key[g.topic]).topic
         /\ g.cites \subseteq UrlsOf(Scope(req, Key[g.topic]))
<1> DEFINE cites == CanonicalUrls(h.cites) \cap EvidenceUrls(req)
           k     == ScopeFor(req, h.topic, cites)
           found == [topic |-> Scope(req, k).topic, cites |-> cites \cap UrlsOf(Scope(req, k))]
<1>1. g = IF k = Absent THEN [topic |-> h.topic, cites |-> {}] ELSE found
  BY DEF Ground
<1> HIDE DEF cites
<1>2. k # Absent => k \in ScopeKeys(req)
  BY ScopeFound
<1> HIDE DEF k
<1>3. k # Absent => Key[Scope(req, k).topic] = k
  BY <1>2, Scopes
<1> QED
  BY <1>1, <1>2, <1>3

\* What enforceGroundedHighlights keeps: each highlight is of its scope, no two
\* are of topics with one key, and there are no more of them than before.
LEMMA Enforced ==
  ASSUME NEW req, IsRequest(req), NEW list, IsFiniteSet(DOMAIN list), DOMAIN list \subseteq Nat
  PROVE  LET E == EnforceHighlights(req, list)
         IN  /\ \A h \in E : OfScope(req, h)
             /\ \A g, h \in E : Key[g.topic] = Key[h.topic] => g = h
             /\ IsFiniteSet(E) /\ Cardinality(E) <= Cardinality(DOMAIN list)
<1> DEFINE given == [i \in DOMAIN list |-> Ground(req, list[i])]
           kept  == {i \in DOMAIN given : given[i].cites # {}}
           Of(t) == {i \in kept : given[i].topic = t}
           Times(t, i) == Cardinality({j \in Of(t) : j >= i})
           Cited(t, i) == {CanonicalTimes(u, Times(t, i)) : u \in given[i].cites}
           made(t) == [topic |-> t, cites |-> UNION {Cited(t, i) : i \in Of(t)}]
           T == {given[i].topic : i \in kept}
           E == {made(t) : t \in T}
<1>1. EnforceHighlights(req, list) = E
  BY DEF EnforceHighlights, Merge
<1>2. kept \subseteq DOMAIN list /\ DOMAIN given = DOMAIN list
  OBVIOUS
<1>3. ASSUME NEW i \in kept
      PROVE  /\ Key[given[i].topic] \in ScopeKeys(req)
             /\ given[i].topic = Scope(req, Key[given[i].topic]).topic
             /\ given[i].cites \subseteq UrlsOf(Scope(req, Key[given[i].topic]))
  <2>1. given[i] = Ground(req, list[i]) /\ given[i].cites # {}
    OBVIOUS
  <2> HIDE DEF given
  <2> QED
    BY <2>1, Grounds
<1>4. ASSUME NEW t, NEW i \in Of(t)
      PROVE  Times(t, i) \in Nat \ {0}
  <2> DEFINE S == {j \in Of(t) : j >= i}
  <2>1. S \in SUBSET DOMAIN list /\ i \in S
    BY <1>2
  <2>2. IsFiniteSet(S) /\ S # {}
    BY <2>1, FS_Subset
  <2>3. Cardinality(S) \in Nat /\ Cardinality(S) # 0
    <3> HIDE DEF S
    <3> QED
      BY <2>2, FS_CardinalityType, FS_EmptySet
  <2> QED
    BY <2>3
<1> HIDE DEF Times
<1>5. ASSUME NEW t \in T
      PROVE  OfScope(req, made(t)) /\ made(t).topic = t
  <2> DEFINE k == Key[t]
             cites == UNION {Cited(t, i) : i \in Of(t)}
  <2>1. PICK i \in Of(t) : TRUE
    OBVIOUS
  <2>2. i \in kept /\ given[i].topic = t /\ given[i].cites # {}
    OBVIOUS
  <2>3. k \in ScopeKeys(req) /\ t = Scope(req, k).topic
    BY <1>3, <2>2
  <2>4. cites # {}
    <3> HIDE DEF given, kept
    <3> QED
      BY <2>1, <2>2
  <2>5. ASSUME NEW c \in cites
        PROVE  Traced(c, UrlsOf(Scope(req, k)))
    <3>1. PICK j \in Of(t) : c \in Cited(t, j)
      OBVIOUS
    <3>2. PICK v \in given[j].cites : c = CanonicalTimes(v, Times(t, j))
      BY <3>1
    <3>3. j \in kept /\ given[j].topic = t
      OBVIOUS
    <3>4. v \in UrlsOf(Scope(req, k))
      <4> HIDE DEF given, kept
      <4> QED
        BY <1>3, <3>2, <3>3
    <3>5. \A e \in Scope(req, k).evidence : e.url = Absent \/ IsUrl(e.url)
      BY <2>3, Scopes DEF IsRequest
    <3>6. Times(t, j) \in Nat \ {0}
      BY <1>4
    <3> HIDE DEF given, k, cites
    <3> QED
      BY <3>2, <3>4, <3>5, <3>6, TracedAgain
  <2>6. made(t).topic = t /\ made(t).cites = cites
    OBVIOUS
  <2> HIDE DEF made, cites
  <2> QED
    BY <2>3, <2>4, <2>5, <2>6 DEF OfScope
<1> HIDE DEF made
<1>6. \A h \in E : OfScope(req, h)
  BY <1>5
<1>7. ASSUME NEW g \in E, NEW h \in E, Key[g.topic] = Key[h.topic]
      PROVE  g = h
  <2> HIDE DEF T
  <2>1. PICK s \in T : g = made(s)
    OBVIOUS
  <2>2. PICK t \in T : h = made(t)
    OBVIOUS
  <2>3. g.topic = s /\ h.topic = t /\ s = t
    BY <1>5, <1>7, <2>1, <2>2 DEF OfScope
  <2> QED
    BY <2>1, <2>2, <2>3
<1>8. IsFiniteSet(E) /\ Cardinality(E) <= Cardinality(DOMAIN list)
  <2> DEFINE f == [i \in kept |-> made(given[i].topic)]
  <2>1. E = {f[i] : i \in kept}
    <3> HIDE DEF given, kept
    <3> QED
      OBVIOUS
  <2>2. IsFiniteSet(kept) /\ Cardinality(kept) <= Cardinality(DOMAIN list)
    BY <1>2, FS_Subset
  <2>3. /\ IsFiniteSet({f[i] : i \in kept})
        /\ Cardinality({f[i] : i \in kept}) <= Cardinality(kept)
    <3> HIDE DEF f, kept
    <3> QED
      BY <2>2, FiniteImage
  <2> HIDE DEF E, f, kept
  <2> QED
    BY <2>1, <2>2, <2>3, FS_CardinalityType
<1> QED
  <2> HIDE DEF E
  <2> QED
    BY <1>1, <1>6, <1>7, <1>8

\* The first n of a list, and how many they are.
LEMMA FirstOf ==
  ASSUME NEW list, list \in Seq(ToSet(list)), NEW limits, limits \subseteq Nat,
         IsFiniteSet(limits)
  PROVE  LET taken == SubSeq(list, 1, Min(limits \cup {Len(list)}))
         IN  /\ taken \in Seq(ToSet(list))
             /\ Len(taken) \in Nat
             /\ \A n \in limits : Len(taken) <= n
<1> DEFINE L == limits \cup {Len(list)}
<1>1. L \subseteq Nat /\ L # {} /\ IsFiniteSet(L)
  <2>1. Len(list) \in Nat
    OBVIOUS
  <2> QED
    BY <2>1, FS_AddElement
<1>2. Min(L) \in L /\ \A y \in L : Min(L) <= y
  <2> HIDE DEF L
  <2> QED
    BY <1>1, Extremes
<1>3. Min(L) \in Nat /\ Min(L) <= Len(list) /\ \A n \in limits : Min(L) <= n
  BY <1>1, <1>2
<1>4. \A i \in 1 .. Min(L) : list[i] \in ToSet(list)
  <2> HIDE DEF L
  <2> QED
    BY <1>3
<1>5. /\ SubSeq(list, 1, Min(L)) \in Seq(ToSet(list))
      /\ Len(SubSeq(list, 1, Min(L))) = IF 1 <= Min(L) THEN Min(L) - 1 + 1 ELSE 0
  <2> HIDE DEF L
  <2> QED
    BY <1>3, <1>4, SubSeqProperties
<1> QED
  <2> HIDE DEF L
  <2>1. Len(SubSeq(list, 1, Min(L))) = Min(L)
    BY <1>3, <1>5
  <2> QED
    BY <1>3, <1>5, <2>1 DEF L

-----------------------------------------------------------------------------
(* Query mode: events *)

\* Events that the orders of the evidence tell apart.
Dated(S) ==
    /\ IsFiniteSet(S)
    /\ \A e \in S : {e.id, e.fetched, e.engagement, e.published} \subseteq Int
    /\ \A e, f \in S : e.id = f.id => e = f

\* The three orders of the evidence are strict and total.
LEMMA EventOrders ==
  ASSUME NEW S, Dated(S)
  PROVE  /\ Orders([x \in S |-> Preceding(S, x, Newer)], S)
         /\ Orders([x \in S |-> Preceding(S, x, Engaging)], S)
         /\ Orders([x \in S |-> Preceding(S, x, EngagingByBucket)], S)
<1>1. \A x, y \in S : x = y \/ Newer(x, y) \/ Newer(y, x)
  BY DEF Dated, Newer
<1>2. \A x \in S : ~Newer(x, x)
  BY DEF Dated, Newer
<1>3. \A x, y, z \in S : Newer(x, y) /\ Newer(y, z) => Newer(x, z)
  BY DEF Dated, Newer
<1>4. \A x \in S : /\ x.engagement \in Int /\ x.published \in Int /\ Bucket(x) \in Int
  BY DEF Dated, Bucket
<1>5. Orders([x \in S |-> Preceding(S, x, Newer)], S)
  BY <1>1, <1>2, <1>3 DEF Orders, Preceding
<1>6. Orders([x \in S |-> Preceding(S, x, Engaging)], S)
  <2>1. \A x, y \in S : x = y \/ Engaging(x, y) \/ Engaging(y, x)
    BY <1>1, <1>4 DEF Engaging
  <2>2. \A x \in S : ~Engaging(x, x)
    BY <1>2, <1>4 DEF Engaging
  <2>3. \A x, y, z \in S : Engaging(x, y) /\ Engaging(y, z) => Engaging(x, z)
    BY <1>3, <1>4 DEF Engaging
  <2> QED
    BY <2>1, <2>2, <2>3 DEF Orders, Preceding
<1>7. Orders([x \in S |-> Preceding(S, x, EngagingByBucket)], S)
  <2>1. \A x, y \in S : x = y \/ EngagingByBucket(x, y) \/ EngagingByBucket(y, x)
    BY <1>1, <1>4 DEF EngagingByBucket
  <2>2. \A x \in S : ~EngagingByBucket(x, x)
    BY <1>2, <1>4 DEF EngagingByBucket
  <2>3. \A x, y, z \in S :
            EngagingByBucket(x, y) /\ EngagingByBucket(y, z) => EngagingByBucket(x, z)
    BY <1>3, <1>4 DEF EngagingByBucket
  <2> QED
    BY <2>1, <2>2, <2>3 DEF Orders, Preceding
<1> QED
  BY <1>5, <1>6, <1>7

\* Of these orders the first k are no more than k.
LEMMA FirstEvents ==
  ASSUME NEW S, Dated(S), NEW k \in Nat
  PROVE  /\ Cardinality(First(S, k, Newer)) <= k
         /\ Cardinality(First(S, k, Engaging)) <= k
         /\ Cardinality(First(S, k, EngagingByBucket)) <= k
<1>1. Cardinality(First(S, k, Newer)) <= k
  <2> DEFINE b == [x \in S |-> Preceding(S, x, Newer)]
  <2>1. First(S, k, Newer) = {x \in S : Cardinality(b[x]) < k}
    BY DEF First
  <2>2. Orders(b, S)
    BY EventOrders
  <2> HIDE DEF b
  <2> QED
    BY <2>1, <2>2, RanksBelow DEF Dated
<1>2. Cardinality(First(S, k, Engaging)) <= k
  <2> DEFINE b == [x \in S |-> Preceding(S, x, Engaging)]
  <2>1. First(S, k, Engaging) = {x \in S : Cardinality(b[x]) < k}
    BY DEF First
  <2>2. Orders(b, S)
    BY EventOrders
  <2> HIDE DEF b
  <2> QED
    BY <2>1, <2>2, RanksBelow DEF Dated
<1>3. Cardinality(First(S, k, EngagingByBucket)) <= k
  <2> DEFINE b == [x \in S |-> Preceding(S, x, EngagingByBucket)]
  <2>1. First(S, k, EngagingByBucket) = {x \in S : Cardinality(b[x]) < k}
    BY DEF First
  <2>2. Orders(b, S)
    BY EventOrders
  <2> HIDE DEF b
  <2> QED
    BY <2>1, <2>2, RanksBelow DEF Dated
<1> QED
  BY <1>1, <1>2, <1>3

\* Parts of a set of such events are such sets.
LEMMA DatedSubset ==
  ASSUME NEW S, Dated(S), NEW T, T \subseteq S
  PROVE  Dated(T) /\ Cardinality(T) \in Nat
  BY FS_Subset, FS_CardinalityType DEF Dated

\* Every strategy of selectEvidence takes k of the events at most.
LEMMA EvidenceSelected ==
  ASSUME NEW S, Dated(S), NEW k \in Nat \ {0},
         NEW strategy \in {"recency", "engagement", "diversity"}
  PROVE  LET E == SelectEvidence(S, strategy, k)
         IN  E \subseteq S /\ IsFiniteSet(E) /\ Cardinality(E) <= k
<1>1. \A m \in Int : /\ First(S, m, Newer) \subseteq S
                     /\ First(S, m, Engaging) \subseteq S
  BY DEF First
<1>2. /\ Diverse(S, k) \subseteq S
      /\ Cardinality(Diverse(S, k)) <= k
  <2> DEFINE Newest(b) == MostRecent({e \in S : Bucket(e) = b}, 1)
             seeds == IF k = 1 /\ Newest(1) # {} THEN Newest(1) ELSE Newest(1) \cup Newest(2)
             rest == First(S \ seeds, k - Cardinality(seeds), EngagingByBucket)
  <2>1. Diverse(S, k) = seeds \cup rest
    BY DEF Diverse
  <2>2. \A b \in {1, 2} : /\ Newest(b) \subseteq S
                          /\ IsFiniteSet(Newest(b)) /\ Cardinality(Newest(b)) \in Nat
                          /\ Cardinality(Newest(b)) <= 1
    <3> TAKE b \in {1, 2}
    <3> DEFINE B == {e \in S : Bucket(e) = b}
    <3>1. Dated(B)
      BY DatedSubset
    <3>2. Newest(b) \subseteq B /\ Newest(b) = First(B, 1, Newer)
      BY DEF MostRecent, First
    <3> HIDE DEF B, Newest
    <3>3. IsFiniteSet(Newest(b)) /\ Cardinality(Newest(b)) \in Nat
      BY <3>1, <3>2, DatedSubset DEF Dated
    <3>4. Cardinality(Newest(b)) <= 1
      BY <3>1, <3>2, FirstEvents
    <3> QED
      BY <3>2, <3>3, <3>4 DEF B
  <2> HIDE DEF Newest
  <2>3. /\ seeds \subseteq S /\ IsFiniteSet(seeds)
        /\ Cardinality(seeds) \in Nat /\ Cardinality(seeds) <= k
    <3>1. CASE k = 1 /\ Newest(1) # {}
      BY <2>2, <3>1
    <3>2. CASE k = 1 /\ Newest(1) = {}
      <4>1. seeds = Newest(2)
        BY <3>2
      <4> QED
        BY <2>2, <3>2, <4>1
    <3>3. CASE k # 1
      <4>1. seeds = Newest(1) \cup Newest(2)
        BY <3>3
      <4> DEFINE N == Newest(1)
                 M == Newest(2)
      <4>2. /\ IsFiniteSet(N) /\ IsFiniteSet(M)
            /\ Cardinality(N) \in Nat /\ Cardinality(N) <= 1
            /\ Cardinality(M) \in Nat /\ Cardinality(M) <= 1
            /\ N \subseteq S /\ M \subseteq S
        BY <2>2
      <4> HIDE DEF N, M
      <4>3. /\ IsFiniteSet(N \cup M)
            /\ Cardinality(N \cup M) = Cardinality(N) + Cardinality(M) - Cardinality(N \cap M)
        BY <4>2, FS_Union
      <4>4. Cardinality(N \cap M) \in Nat
        BY <4>2, FS_Intersection, FS_CardinalityType
      <4>5. Cardinality(N \cup M) \in Nat
        BY <4>3, FS_CardinalityType
      <4> QED
        BY <3>3, <4>1, <4>2, <4>3, <4>4, <4>5 DEF N, M
    <3> QED
      BY <3>1, <3>2, <3>3
  <2> HIDE DEF seeds
  <2>4. /\ rest \subseteq S \ seeds /\ IsFiniteSet(rest) /\ Cardinality(rest) \in Nat
        /\ Cardinality(rest) <= k - Cardinality(seeds)
    <3>1. Dated(S \ seeds)
      BY DatedSubset
    <3>2. rest \subseteq S \ seeds
      BY DEF First
    <3>3. k - Cardinality(seeds) \in Nat
      BY <2>3
    <3>4. Cardinality(rest) <= k - Cardinality(seeds)
      BY <3>1, <3>3, FirstEvents
    <3>5. IsFiniteSet(rest) /\ Cardinality(rest) \in Nat
      <4> HIDE DEF rest
      <4> QED
        BY <3>1, <3>2, DatedSubset DEF Dated
    <3> QED
      BY <3>2, <3>4, <3>5
  <2> HIDE DEF rest
  <2>5. Cardinality(seeds \cup rest) = Cardinality(seeds) + Cardinality(rest)
                                          - Cardinality(seeds \cap rest)
    BY <2>3, <2>4, FS_Union
  <2>6. Cardinality(seeds \cap rest) = 0
    <3>1. seeds \cap rest = {}
      BY <2>4
    <3> QED
      BY <3>1, FS_EmptySet
  <2> QED
    BY <2>1, <2>3, <2>4, <2>5, <2>6
<1>3. SelectEvidence(S, strategy, k)
          \in {First(S, k, Newer), First(S, k, Engaging), Diverse(S, k)}
  BY DEF SelectEvidence, MostRecent
<1>4. SelectEvidence(S, strategy, k) \subseteq S
  BY <1>1, <1>2, <1>3
<1>5. Cardinality(SelectEvidence(S, strategy, k)) <= k
  BY <1>2, <1>3, FirstEvents
<1> QED
  BY <1>4, <1>5, DatedSubset DEF Dated

\* The caps of the budget and of the instance hold, and leave one event at least.
LEMMA EventsCapped ==
  ASSUME NEW req \in Requests
  PROVE  LET k == MaxEventsPerTopic(req)
         IN  /\ k \in Nat \ {0} /\ k <= MaxQueryEvents
             /\ req.maxEvidence # Unset => k <= req.maxEvidence
<1> DEFINE caps  == {req.maxEvidence} \ {Unset}
           asked == IF req.maxEvents # Unset THEN {req.maxEvents} ELSE {}
           L == asked \cup caps \cup {MaxQueryEvents}
<1>1. L \subseteq Nat \ {0} /\ L # {}
  BY BriefGenerationAssumption DEF RequestsTyped, Unset
<1>2. IsFiniteSet(L)
  <2>1. L \subseteq {req.maxEvidence} \cup {req.maxEvents} \cup {MaxQueryEvents}
    OBVIOUS
  <2>2. IsFiniteSet({req.maxEvidence} \cup {req.maxEvents} \cup {MaxQueryEvents})
    BY FS_Singleton, FS_Union
  <2> HIDE DEF L
  <2> QED
    BY <2>1, <2>2, FS_Subset
<1>3. Min(L) \in L /\ \A y \in L : Min(L) <= y
  <2>1. L \subseteq Nat
    BY <1>1
  <2> HIDE DEF L
  <2> QED
    BY <1>1, <1>2, <2>1, Extremes
<1>4. MaxEventsPerTopic(req) = Min(L)
  BY DEF MaxEventsPerTopic
<1> QED
  BY <1>1, <1>3, <1>4

\* Numbers, and places of their own where these are equal, make an order.
LEMMA AheadOrders ==
  ASSUME NEW S, NEW score \in [S -> Int], NEW latest \in [S -> Int],
         \A x \in S : Rank[x] \in Int,
         \A x, y \in S : Rank[x] = Rank[y] => x = y
  PROVE  Orders([x \in S |-> {y \in S \ {x} :
                    Ahead(y, score[y], latest[y], x, score[x], latest[x])}], S)
<1> DEFINE B(x, y) == Ahead(x, score[x], latest[x], y, score[y], latest[y])
<1>1. \A x, y \in S : x = y \/ B(x, y) \/ B(y, x)
  BY DEF Ahead
<1>2. \A x \in S : ~B(x, x)
  BY DEF Ahead
<1>3. \A x, y, z \in S : B(x, y) /\ B(y, z) => B(x, z)
  BY DEF Ahead
<1> HIDE DEF B
<1>4. Orders([x \in S |-> {y \in S \ {x} : B(y, x)}], S)
  BY <1>1, <1>2, <1>3 DEF Orders
<1> QED
  BY <1>4 DEF B

\* A multiple of a number takes its quotient in full.
LEMMA Quotients ==
  ASSUME NEW n \in Nat \ {0}, NEW d \in Nat \ {0}
  PROVE  /\ n \div d \in Nat
         /\ n % d = 0 => n \div d > 0
<1>1. /\ n \div d \in Int /\ n % d \in 0 .. d - 1
      /\ n = d * (n \div d) + (n % d)
  OBVIOUS
<1>2. n \div d >= 0
  OBVIOUS
<1>3. n % d = 0 => n \div d # 0
  BY <1>1
<1> QED
  BY <1>1, <1>2, <1>3

\* Of the stored snapshots those of the days asked for are finitely many, of
\* times up to the one of the request.
LEMMA RowsTyped ==
  ASSUME NEW req \in Requests, NEW s \in Snapshots, NEW t
  PROVE  /\ IsFiniteSet(RowsOf(req, s, t)) /\ RowsOf(req, s, t) \subseteq Nat
         /\ \A x \in RowsOf(req, s, t) : Weight(req, x) \in Nat /\ Weight(req, x) > 0
<1>1. /\ RowsOf(req, s, t) \in SUBSET DOMAIN s
      /\ \A x \in RowsOf(req, s, t) : x \in Rows(req, s) /\ x <= req.at
  BY DEF RowsOf, Rows, InWindow
<1>2. IsFiniteSet(DOMAIN s) /\ DOMAIN s \subseteq Nat
  BY BriefGenerationAssumption DEF SnapshotsTyped
<1>3. IsFiniteSet(RowsOf(req, s, t))
  BY <1>1, <1>2, FS_Subset
<1>4. ASSUME NEW x \in RowsOf(req, s, t)
      PROVE  Weight(req, x) \in Nat /\ Weight(req, x) > 0
  <2> DEFINE d == 1 + req.at - x
  <2>1. Unit % d = 0
    BY <1>1, BriefGenerationAssumption DEF SnapshotsTyped
  <2>2. d \in Nat \ {0}
    BY <1>1, <1>2, BriefGenerationAssumption DEF RequestsTyped
  <2>3. Weight(req, x) = Unit \div d
    BY DEF Weight
  <2> HIDE DEF d
  <2> QED
    BY <2>1, <2>2, <2>3, Quotients, BriefGenerationAssumption
<1> QED
  BY <1>1, <1>2, <1>3, <1>4

\* Topics of the rank have a score and were last seen at a time.
LEMMA TopicsScored ==
  ASSUME NEW req \in Requests, NEW s \in Snapshots, NEW t \in RankedTopics(req, s)
  PROVE  Score(req, s, t) \in Int /\ Latest(req, s, t) \in Nat
<1> DEFINE R == RowsOf(req, s, t)
           w == Weights(req, s, t)
           p == [x \in R |-> s[x][t] * w[x]]
<1>1. R # {} /\ IsFiniteSet(R) /\ R \subseteq Nat
  BY RowsTyped DEF RankedTopics
<1>2. DOMAIN w = R /\ \A x \in R : w[x] \in Nat /\ w[x] > 0
  BY RowsTyped DEF Weights
<1>3. SumFunction(w) \in Nat /\ SumFunction(w) > 0
  <2> HIDE DEF w, R
  <2> QED
    BY <1>1, <1>2, SumPositive DEF SumFunction
<1>4. \A x \in R : p[x] \in Int
  <2>1. \A x \in R : s[x][t] \in Int
    BY BriefGenerationAssumption DEF SnapshotsTyped, RowsOf, Rows
  <2> HIDE DEF w, R
  <2> QED
    BY <1>2, <2>1
<1>5. SumFunction(p) \in Int
  <2>1. DOMAIN p = R
    OBVIOUS
  <2> HIDE DEF p, R
  <2> QED
    BY <1>1, <1>4, <2>1, SumType DEF SumFunction
<1>6. Scale \div SumFunction(w) \in Int
  <2> HIDE DEF w
  <2> QED
    BY <1>3, Quotients, BriefGenerationAssumption
<1>7. Score(req, s, t) = (Scale \div SumFunction(w)) * SumFunction(p)
  BY <1>2 DEF Score
<1>8. Score(req, s, t) \in Int
  <2> HIDE DEF w, p
  <2> QED
    BY <1>5, <1>6, <1>7
<1>9. Max(R) \in Nat
  <2> HIDE DEF R
  <2> QED
    BY <1>1, Extremes
<1> QED
  BY <1>1, <1>8, <1>9 DEF Latest

\* The topics of the rank, and any of them, in the order of the rank.
LEMMA TopicOrder ==
  ASSUME NEW req \in Requests, NEW s \in Snapshots, NEW S, S \subseteq RankedTopics(req, s)
  PROVE  /\ IsFiniteSet(S)
         /\ Orders([x \in S |-> Preceding(S, x, LAMBDA t, u : TopicAhead(req, s, t, u))], S)
<1>1. S \subseteq req.globs
  BY DEF RankedTopics
<1>2. IsFiniteSet(S)
  BY <1>1, FS_Subset, BriefGenerationAssumption DEF RequestsTyped
<1> DEFINE score == [x \in S |-> Score(req, s, x)]
           latest == [x \in S |-> Latest(req, s, x)]
<1>3. score \in [S -> Int] /\ latest \in [S -> Int]
  BY TopicsScored
<1>4. /\ \A x \in S : Rank[x] \in Int
      /\ \A x, y \in S : Rank[x] = Rank[y] => x = y
  BY <1>1, BriefGenerationAssumption DEF RequestsTyped
<1>5. Orders([x \in S |-> {y \in S \ {x} :
                    Ahead(y, score[y], latest[y], x, score[x], latest[x])}], S)
  <2> HIDE DEF score, latest
  <2> QED
    BY <1>3, <1>4, AheadOrders
<1>6. [x \in S |-> {y \in S \ {x} : Ahead(y, score[y], latest[y], x, score[x], latest[x])}]
        = [x \in S |-> Preceding(S, x, LAMBDA t, u : TopicAhead(req, s, t, u))]
  BY DEF Preceding, TopicAhead
<1> QED
  BY <1>2, <1>5, <1>6

\* No more groups are selected than were asked for.
LEMMA GroupsSelected ==
  ASSUME NEW req \in Requests, NEW s \in Snapshots
  PROVE  /\ IsFiniteSet(SelectedGroups(req, s))
         /\ Cardinality(SelectedGroups(req, s)) <= MaxTopicsOf(req)
<1> DEFINE T == RankedTopics(req, s)
           G == {TopLevel(t) : t \in T} \ {Absent}
           score == [g \in G |-> GroupScore(req, s, g)]
           latest == [g \in G |-> GroupLatest(req, s, g)]
<1>1. IsFiniteSet(T) /\ T \subseteq req.globs
  BY TopicOrder DEF RankedTopics
<1>2. IsFiniteSet(G)
  <2> DEFINE f == [t \in T |-> TopLevel(t)]
  <2>1. G \in SUBSET {f[t] : t \in T}
    OBVIOUS
  <2>2. IsFiniteSet({f[t] : t \in T})
    <3> HIDE DEF f, T
    <3> QED
      BY <1>1, FiniteImage
  <2> HIDE DEF f, T, G
  <2> QED
    BY <2>1, <2>2, FS_Subset
<1>3. ASSUME NEW g \in G
      PROVE  GroupScore(req, s, g) \in Int /\ GroupLatest(req, s, g) \in Int
  <2> DEFINE M == Members(req, s, g)
             ts == [t \in M |-> Score(req, s, t)]
             tl == [t \in M |-> Latest(req, s, t)]
             L == {Latest(req, s, t) : t \in M}
  <2>1. M \subseteq T /\ M # {}
    BY DEF Members
  <2>2. IsFiniteSet(M)
    <3> HIDE DEF M, T
    <3> QED
      BY <1>1, <2>1, FS_Subset
  <2>3. \A t \in M : ts[t] \in Int /\ Latest(req, s, t) \in Nat
    BY <2>1, TopicsScored
  <2>4. SumFunction(ts) \in Int
    <3>1. DOMAIN ts = M
      OBVIOUS
    <3> HIDE DEF ts, M
    <3> QED
      BY <2>2, <2>3, <3>1, SumType DEF SumFunction
  <2>5. IsFiniteSet(L) /\ L # {} /\ L \in SUBSET Nat
    <3>1. L = {tl[t] : t \in M}
      OBVIOUS
    <3> HIDE DEF tl, M
    <3> QED
      BY <2>1, <2>2, <2>3, <3>1, FiniteImage
  <2>6. Max(L) \in Int
    <3>1. Max(L) \in Nat
      <4> HIDE DEF L
      <4> QED
        BY <2>5, Extremes
    <3> QED
      BY <3>1
  <2>7. GroupScore(req, s, g) = SumFunction(ts) /\ GroupLatest(req, s, g) = Max(L)
    BY DEF GroupScore, GroupLatest
  <2> HIDE DEF L, ts
  <2> QED
    BY <2>4, <2>6, <2>7
<1>4. score \in [G -> Int] /\ latest \in [G -> Int]
  BY <1>3
<1>5. /\ \A x \in G : Rank[x] \in Int
      /\ \A x, y \in G : Rank[x] = Rank[y] => x = y
  BY <1>1, BriefGenerationAssumption DEF RequestsTyped
<1> DEFINE b == [x \in G |-> {y \in G \ {x} :
                    Ahead(y, score[y], latest[y], x, score[x], latest[x])}]
<1>6. Orders(b, G)
  <2> HIDE DEF score, latest, G
  <2> QED
    BY <1>4, <1>5, AheadOrders
<1>7. SelectedGroups(req, s) = {x \in G : Cardinality(b[x]) < MaxTopicsOf(req)}
  <2>1. ASSUME NEW x \in G
        PROVE  b[x] = Preceding(G, x, LAMBDA f, g : GroupAhead(req, s, f, g))
    BY DEF Preceding, GroupAhead
  <2> HIDE DEF b
  <2> QED
    BY <2>1 DEF SelectedGroups, First
<1>8. MaxTopicsOf(req) \in Nat
  BY BriefGenerationAssumption DEF RequestsTyped, MaxTopicsOf, DefaultMaxTopics, Unset
<1> HIDE DEF b, G
<1> QED
  BY <1>2, <1>6, <1>7, <1>8, RanksBelow

Known == InitialEvents \cup Arriving

\* Loaded events have times, and no two of a source have one page.
LEMMA LoadedEvents ==
  ASSUME NEW req, NEW ev, ev \subseteq Known, NEW T
  PROVE  /\ Loaded(req, ev, T) \subseteq Known
         /\ Dated(Loaded(req, ev, T))
         /\ \A e \in Loaded(req, ev, T) : e.url # Absent /\ InWindow(req, e.published)
         /\ \A e, f \in Loaded(req, ev, T) :
               /\ e.source = f.source
               /\ CanonicalUrl(e.url) = CanonicalUrl(f.url) /\ CanonicalUrl(e.url) # Absent
               => e = f
<1> DEFINE L == Loaded(req, ev, T)
<1>1. L \subseteq Known /\ \A e \in L : /\ e.published # Absent /\ e.url # Absent
                                        /\ InWindow(req, e.published)
  BY DEF Loaded
<1>2. Dated(L)
  <2>1. IsFiniteSet(L)
    BY <1>1, FS_Subset, BriefGenerationAssumption DEF EventsTyped, Known
  <2> HIDE DEF L
  <2> QED
    BY <1>1, <2>1, BriefGenerationAssumption DEF EventsTyped, Dated, Known
<1>3. \A e, f \in L : e = f \/ Newer(e, f) \/ Newer(f, e)
  <2> HIDE DEF L
  <2> QED
    BY <1>2 DEF Dated, Newer
<1>4. ASSUME NEW e \in L, NEW f \in L, e # f, e.source = f.source,
             CanonicalUrl(e.url) = CanonicalUrl(f.url), CanonicalUrl(e.url) # Absent
      PROVE  FALSE
  BY <1>3, <1>4 DEF Loaded
<1> QED
  BY <1>1, <1>2, <1>4

\* Evidence keeps what an event says of itself, with the canonical url.
LEMMA EvidenceKeeps ==
  ASSUME NEW e \in Known, e.url # Absent
  PROVE  /\ Evidence(e).url = CanonicalUrl(e.url)
         /\ Evidence(e).source = e.source /\ Evidence(e).topics = e.topics
         /\ Evidence(e).published = e.published
         /\ Evidence(e).named = e.named /\ Evidence(e).body = e.body
         /\ Evidence(e).url = Absent \/ IsUrl(Evidence(e).url)
<1>1. {"source", "url", "published", "topics", "named", "body"} \subseteq DOMAIN e
  BY BriefGenerationAssumption DEF EventsTyped, Known
<1>2. IsUrl(e.url)
  BY BriefGenerationAssumption DEF EventsTyped, Known
<1>3. CanonicalUrl(e.url) = Absent \/ IsUrl(CanonicalUrl(e.url))
  BY <1>2, CanonicalTyped
<1> QED
  BY <1>1, <1>3 DEF Evidence

\* What hydrateTopics makes of every topic: evidence of its own, of the days
\* asked for, and no more than the caps allow.
LEMMA HydratedTopics ==
  ASSUME NEW req \in Requests, NEW ev, ev \subseteq Known, NEW list, NEW i \in DOMAIN list
  PROVE  LET t == Hydrated(req, ev, list)[i]
         IN  /\ t.topic = list[i]
             /\ IsFiniteSet(t.evidence)
             /\ Cardinality(t.evidence) <= MaxEventsPerTopic(req)
             /\ \A e \in t.evidence :
                   /\ list[i] \in e.topics /\ Relevant(e, list[i])
                   /\ InWindow(req, e.published)
                   /\ \E f \in Loaded(req, ev, ToSet(list)) : e = Evidence(f)
<1> DEFINE L == Loaded(req, ev, ToSet(list))
           A == {e \in L : list[i] \in e.topics /\ Relevant(e, list[i])}
           k == MaxEventsPerTopic(req)
           S == SelectEvidence(A, req.strategy, k)
           f == [e \in S |-> Evidence(e)]
           t == Hydrated(req, ev, list)[i]
<1>1. t.topic = list[i] /\ t.evidence = {f[e] : e \in S}
  BY DEF Hydrated, TopicOf
<1>2. /\ Dated(A) /\ A \subseteq L /\ L \subseteq Known
      /\ \A e \in L : e.url # Absent /\ InWindow(req, e.published)
  BY LoadedEvents, DatedSubset
<1>3. k \in Nat \ {0} /\ req.strategy \in {"recency", "engagement", "diversity"}
  BY EventsCapped, BriefGenerationAssumption DEF RequestsTyped
<1>4. S \subseteq A /\ IsFiniteSet(S) /\ Cardinality(S) <= k
  <2> HIDE DEF A, k
  <2> QED
    BY <1>2, <1>3, EvidenceSelected
<1>5. IsFiniteSet(t.evidence) /\ Cardinality(t.evidence) <= k
  <2>1. /\ IsFiniteSet({f[e] : e \in S})
        /\ Cardinality({f[e] : e \in S}) <= Cardinality(S)
    <3> HIDE DEF f, S
    <3> QED
      BY <1>4, FiniteImage
  <2>2. Cardinality(S) \in Nat /\ Cardinality({f[e] : e \in S}) \in Nat
    <3> HIDE DEF f, S
    <3> QED
      BY <1>4, <2>1, FS_CardinalityType
  <2> HIDE DEF f, S, t, k
  <2> QED
    BY <1>1, <1>3, <1>4, <2>1, <2>2
<1>6. ASSUME NEW e \in S
      PROVE  /\ list[i] \in f[e].topics /\ Relevant(f[e], list[i])
             /\ InWindow(req, f[e].published)
             /\ e \in L /\ f[e] = Evidence(e)
  <2>1. /\ e \in L /\ e \in Known /\ e.url # Absent /\ InWindow(req, e.published)
        /\ list[i] \in e.topics /\ Relevant(e, list[i])
    BY <1>2, <1>4
  <2>2. f[e] = Evidence(e)
    OBVIOUS
  <2>3. /\ f[e].topics = e.topics /\ f[e].published = e.published
        /\ f[e].named = e.named /\ f[e].body = e.body
    BY <2>1, <2>2, EvidenceKeeps
  <2> QED
    BY <2>1, <2>2, <2>3 DEF Relevant
<1> HIDE DEF f, S, t, L
<1> QED
  BY <1>1, <1>5, <1>6 DEF t, L

\* The list that InOrder makes of them.
LEMMA NumbersInOrder ==
  ASSUME NEW K, IsFiniteSet(K)
  PROVE  K \subseteq Nat => Lists(InOrder(K, LAMBDA i, j : i < j), K)
<1> DEFINE b == [x \in K |-> {y \in K \ {x} : y < x}]
           l == InOrder(K, LAMBDA i, j : i < j)
           P(x) == Preceding(K, x, LAMBDA i, j : i < j)
<1>1. K \subseteq Nat => Orders(b, K)
  BY NumbersOrder
<1>2. \A x \in K : b[x] = P(x)
  BY DEF Preceding
<1>3. l = [i \in 1 .. Cardinality(K) |-> CHOOSE x \in K : Cardinality(P(x)) = i - 1]
  BY DEF InOrder
<1> HIDE DEF P, b, l
<1>4. Orders(b, K) => ByRank(l, b, K)
  BY <1>2, <1>3, RanksFilled DEF ByRank
<1>5. Orders(b, K) => Lists(l, K)
  BY <1>4, Listed
<1> QED
  BY <1>1, <1>5 DEF l

\* The resolved request has the topics with evidence, and only these.
LEMMA KeptTopics ==
  ASSUME NEW req, NEW ev, NEW list, list \in Seq(ToSet(list))
  PROVE  LET found == TopicsWithEvidence(req, ev, list)
             all   == Hydrated(req, ev, list)
         IN  /\ found \in Seq(ToSet(found))
             /\ \A n \in DOMAIN found :
                   \E i \in DOMAIN list : found[n] = all[i] /\ all[i].evidence # {}
             /\ \A i \in DOMAIN list :
                   all[i].evidence # {} => \E n \in DOMAIN found : found[n] = all[i]
<1> DEFINE all == Hydrated(req, ev, list)
           K == {i \in DOMAIN all : all[i].evidence # {}}
           kept == InOrder(K, LAMBDA i, j : i < j)
           found == TopicsWithEvidence(req, ev, list)
<1>1. DOMAIN all = DOMAIN list /\ DOMAIN list = 1 .. Len(list) /\ Len(list) \in Nat
  BY DEF Hydrated
<1>2. IsFiniteSet(K) /\ K \subseteq Nat
  <2>1. IsFiniteSet(1 .. Len(list))
    BY <1>1, FS_Interval
  <2>2. K \in SUBSET (1 .. Len(list)) /\ K \subseteq Nat
    BY <1>1
  <2> HIDE DEF K
  <2> QED
    BY <2>1, <2>2, FS_Subset
<1>3. kept \in Seq(K) /\ \A x \in K : \E i \in DOMAIN kept : kept[i] = x
  <2> HIDE DEF K
  <2>1. Lists(kept, K)
    BY <1>2, NumbersInOrder
  <2> HIDE DEF kept
  <2> QED
    BY <2>1 DEF Lists
<1>4. found = [n \in DOMAIN kept |-> all[kept[n]]]
  BY DEF TopicsWithEvidence
<1> HIDE DEF K, kept, found, all
<1>5. found \in Seq(ToSet(found))
  <2>1. DOMAIN kept = 1 .. Len(kept) /\ Len(kept) \in Nat
    BY <1>3
  <2>2. found \in [1 .. Len(kept) -> ToSet(found)]
    BY <1>4, <2>1 DEF ToSet
  <2> QED
    BY <2>1, <2>2, SeqDef
<1>6. ASSUME NEW n \in DOMAIN found
      PROVE  \E i \in DOMAIN list : found[n] = all[i] /\ all[i].evidence # {}
  <2>1. kept[n] \in K
    BY <1>3, <1>4
  <2> QED
    BY <1>1, <1>4, <2>1 DEF K
<1>7. ASSUME NEW i \in DOMAIN list, all[i].evidence # {}
      PROVE  \E n \in DOMAIN found : found[n] = all[i]
  <2>1. i \in K
    BY <1>1, <1>7 DEF K
  <2> QED
    BY <1>3, <1>4, <2>1
<1> QED
  BY <1>5, <1>6, <1>7 DEF found, all

\* What the rank selects: every topic of a selected group, once.
LEMMA TopicsSelected ==
  ASSUME NEW req \in Requests, NEW s \in Snapshots
  PROVE  LET S == {t \in RankedTopics(req, s) : TopLevel(t) \in SelectedGroups(req, s)}
         IN  IsFiniteSet(S) /\ Lists(SelectedTopics(req, s), S)
<1> DEFINE S == {t \in RankedTopics(req, s) : TopLevel(t) \in SelectedGroups(req, s)}
           P(x) == Preceding(S, x, LAMBDA t, u : TopicAhead(req, s, t, u))
           b == [x \in S |-> P(x)]
           l == SelectedTopics(req, s)
<1>1. IsFiniteSet(S) /\ Orders(b, S)
  BY TopicOrder
<1>2. l = [i \in 1 .. Cardinality(S) |-> CHOOSE x \in S : Cardinality(P(x)) = i - 1]
  BY DEF SelectedTopics, InOrder
<1>3. \A x \in S : b[x] = P(x)
  OBVIOUS
<1> HIDE DEF S, P, b, l
<1>4. ByRank(l, b, S)
  BY <1>1, <1>2, <1>3, RanksFilled DEF ByRank
<1>5. Lists(l, S)
  BY <1>1, <1>4, Listed
<1> QED
  BY <1>1, <1>5 DEF S, l

\* What a query found, whatever events there were, can be used.
LEMMA FoundSound ==
  ASSUME request \in Requests, snapshots \in Snapshots, NEW ev, ev \subseteq Known,
         NEW list, list = SelectedTopics(request, snapshots),
         topics = TopicsWithEvidence(request, ev, list),
         result.kind = "brief" =>
            result.warnings = CapWarning(request, snapshots) \cup
                                  EvidenceWarnings(request, ev, list)
  PROVE  QuerySound
<1> DEFINE S == {t \in RankedTopics(request, snapshots) :
                    TopLevel(t) \in SelectedGroups(request, snapshots)}
           all == Hydrated(request, ev, list)
           L == Loaded(request, ev, ToSet(list))
<1>1. IsFiniteSet(S) /\ Lists(list, S)
  BY TopicsSelected
<1>2. list \in Seq(ToSet(list)) /\ list \in Seq(S)
  <2> HIDE DEF S
  <2> QED
    BY <1>1 DEF Lists, ToSet
<1>3. /\ \A n \in DOMAIN topics :
            \E i \in DOMAIN list : topics[n] = all[i] /\ all[i].evidence # {}
      /\ \A i \in DOMAIN list :
            all[i].evidence # {} => \E n \in DOMAIN topics : topics[n] = all[i]
  BY <1>2, KeptTopics
<1>4. \A i \in DOMAIN list :
         /\ all[i].topic = list[i] /\ list[i] \in S
         /\ IsFiniteSet(all[i].evidence)
         /\ Cardinality(all[i].evidence) <= MaxEventsPerTopic(request)
         /\ \A e \in all[i].evidence : /\ list[i] \in e.topics /\ Relevant(e, list[i])
                                       /\ InWindow(request, e.published)
                                       /\ \E f \in L : e = Evidence(f)
  <2> HIDE DEF S
  <2> QED
    BY <1>2, HydratedTopics
<1> HIDE DEF all
<1>5. ASSUME NEW n \in DOMAIN topics
      PROVE  Evidenced(topics[n])
  <2>1. PICK i \in DOMAIN list : topics[n] = all[i] /\ all[i].evidence # {}
    BY <1>3
  <2> DEFINE c == Cardinality(all[i].evidence)
             k == MaxEventsPerTopic(request)
  <2>2. c \in Nat /\ c <= k
    BY <1>4, FS_CardinalityType
  <2>3. /\ k \in Nat /\ k <= MaxQueryEvents
        /\ request.maxEvidence # Unset => k <= request.maxEvidence
    BY EventsCapped
  <2>4. MaxQueryEvents \in Nat /\ request.maxEvidence \in Nat
    BY BriefGenerationAssumption DEF RequestsTyped
  <2>5. c <= MaxQueryEvents /\ (request.maxEvidence # Unset => c <= request.maxEvidence)
    <3> HIDE DEF c, k
    <3> QED
      BY <2>2, <2>3, <2>4
  <2> QED
    BY <1>4, <2>1, <2>5 DEF Evidenced
<1>6. ASSUME NEW n \in DOMAIN topics, NEW m \in DOMAIN topics,
             NEW e \in topics[n].evidence, NEW f \in topics[m].evidence,
             e.source = f.source, e.url = f.url, e.url # Absent
      PROVE  e = f
  <2>1. \E x \in L : e = Evidence(x)
    BY <1>3, <1>4
  <2>2. \E y \in L : f = Evidence(y)
    BY <1>3, <1>4
  <2>3. PICK x \in L : e = Evidence(x)
    BY <2>1
  <2>4. PICK y \in L : f = Evidence(y)
    BY <2>2
  <2>5. \A z \in L : z \in Known /\ z.url # Absent
    BY LoadedEvents
  <2>6. /\ e.source = x.source /\ e.url = CanonicalUrl(x.url)
        /\ f.source = y.source /\ f.url = CanonicalUrl(y.url)
    BY <2>3, <2>4, <2>5, EvidenceKeeps
  <2>7. x = y
    BY <1>6, <2>6, LoadedEvents
  <2> QED
    BY <2>3, <2>4, <2>7
<1>7. Cardinality({TopLevel(topics[n].topic) : n \in DOMAIN topics}) <= MaxTopicsOf(request)
  <2> DEFINE G == SelectedGroups(request, snapshots)
             H == {TopLevel(topics[n].topic) : n \in DOMAIN topics}
  <2>1. \A n \in DOMAIN topics : topics[n].topic \in S
    <3> HIDE DEF S
    <3> QED
      BY <1>3, <1>4
  <2>2. H \subseteq G
    BY <2>1
  <2>3. IsFiniteSet(G) /\ Cardinality(G) <= MaxTopicsOf(request)
    BY GroupsSelected
  <2>4. MaxTopicsOf(request) \in Nat
    BY BriefGenerationAssumption DEF RequestsTyped, MaxTopicsOf, DefaultMaxTopics, Unset
  <2> HIDE DEF G, H
  <2>5. Cardinality(H) <= Cardinality(G) /\ Cardinality(H) \in Nat /\ Cardinality(G) \in Nat
    BY <2>2, <2>3, FS_Subset, FS_CardinalityType
  <2> QED
    BY <2>3, <2>4, <2>5 DEF H
<1>8. ASSUME result.kind = "brief", result.warnings = {}
      PROVE  {topics[n].topic : n \in DOMAIN topics} = RankedTopics(request, snapshots)
  <2> DEFINE R == RankedTopics(request, snapshots)
  <2>1. CapWarning(request, snapshots) = {} /\ EvidenceWarnings(request, ev, list) = {}
    BY <1>8
  <2>2. ~(Len(list) < Cardinality(R))
    BY <2>1 DEF CapWarning
  <2>3. IsFiniteSet(R) /\ S \subseteq R
    BY TopicOrder
  <2>4. S = R
    <3> HIDE DEF S, R
    <3>1. Len(list) = Cardinality(S)
      BY <1>1 DEF Lists
    <3>2. Cardinality(S) \in Nat /\ Cardinality(R) \in Nat /\ Cardinality(S) <= Cardinality(R)
      BY <1>1, <2>3, FS_Subset, FS_CardinalityType
    <3>3. Cardinality(S) = Cardinality(R)
      BY <2>2, <3>1, <3>2
    <3> QED
      BY <2>3, <3>3, FS_Subset
  <2>5. DOMAIN all = DOMAIN list
    BY DEF all, Hydrated
  <2>6. \A i \in DOMAIN list : all[i].evidence # {}
    BY <2>1, <2>5 DEF EvidenceWarnings, all
  <2> HIDE DEF S, R
  <2>7. \A n \in DOMAIN topics : topics[n].topic \in S
    BY <1>3, <1>4
  <2>8. ASSUME NEW t \in S
        PROVE  \E n \in DOMAIN topics : topics[n].topic = t
    <3>1. PICK i \in DOMAIN list : list[i] = t
      BY <1>1 DEF Lists
    <3> QED
      BY <1>3, <1>4, <2>6, <3>1
  <2> QED
    BY <2>4, <2>7, <2>8 DEF R
<1> QED
  BY <1>5, <1>6, <1>7, <1>8 DEF QuerySound

-----------------------------------------------------------------------------
(* Requests, and what they resolve to *)

\* What a query found in the events there were when it read them.
Found(ev) ==
    LET list == SelectedTopics(request, snapshots)
    IN  /\ topics = TopicsWithEvidence(request, ev, list)
        /\ warnings = CapWarning(request, snapshots) \cup EvidenceWarnings(request, ev, list)

ResolvedInv ==
    /\ request \in Requests /\ snapshots \in Snapshots /\ events \subseteq Known
    /\ IsRequest(topics)
    /\ phase \in {"resolve", "hydrate"} => topics = <<>>
    /\ phase = "hydrate" => /\ selected = SelectedTopics(request, snapshots)
                            /\ warnings = CapWarning(request, snapshots)
    /\ (QueryMode /\ topics # <<>>) => \E ev \in SUBSET Known : Found(ev)

\* Nothing is resolved at first ...
LEMMA InitResolved == InitGeneration => ResolvedInv
<1>1. <<>> \in Seq(ToSet(<<>>)) /\ DOMAIN <<>> = {}
  OBVIOUS
<1> QED
  BY <1>1 DEF InitGeneration, ResolvedInv, IsRequest, Known

\* ... hydration makes a request of what it finds ...
LEMMA FoundIsRequest ==
  ASSUME request \in Requests, snapshots \in Snapshots, NEW ev, ev \subseteq Known
  PROVE  IsRequest(TopicsWithEvidence(request, ev, SelectedTopics(request, snapshots)))
<1> DEFINE list == SelectedTopics(request, snapshots)
           found == TopicsWithEvidence(request, ev, list)
           all == Hydrated(request, ev, list)
<1>1. list \in Seq(ToSet(list))
  <2> DEFINE S == {t \in RankedTopics(request, snapshots) :
                      TopLevel(t) \in SelectedGroups(request, snapshots)}
  <2>1. Lists(list, S)
    BY TopicsSelected
  <2> HIDE DEF S, list
  <2> QED
    BY <2>1 DEF Lists, ToSet
<1> HIDE DEF list
<1> DEFINE L == Loaded(request, ev, ToSet(list))
<1>2. /\ found \in Seq(ToSet(found))
      /\ \A n \in DOMAIN found : \E i \in DOMAIN list : found[n] = all[i]
  BY <1>1, KeptTopics
<1>3. \A i \in DOMAIN list :
         /\ all[i].topic = list[i]
         /\ IsFiniteSet(all[i].evidence)
         /\ Cardinality(all[i].evidence) <= MaxEventsPerTopic(request)
         /\ \A e \in all[i].evidence : /\ list[i] \in e.topics /\ Relevant(e, list[i])
                                       /\ InWindow(request, e.published)
                                       /\ \E f \in L : e = Evidence(f)
  BY HydratedTopics
<1>4. \A f \in L :
         Evidence(f).url = Absent \/ IsUrl(Evidence(f).url)
  BY LoadedEvents, EvidenceKeeps
<1> HIDE DEF all, found, L
<1> QED
  BY <1>2, <1>3, <1>4 DEF IsRequest, found, list

\* ... and every step keeps what was found, while events come and go.
LEMMA NextResolved == ResolvedInv /\ [NextGeneration]_generationVars => ResolvedInv'
<1> SUFFICES ASSUME ResolvedInv, [NextGeneration]_generationVars
             PROVE  ResolvedInv'
  OBVIOUS
<1> USE DEF ResolvedInv
<1>1. ASSUME NEW e \in Arriving, Persist(e)
      PROVE  ResolvedInv'
  BY <1>1 DEF Persist, Known, IsRequest, Found, QueryMode, resVars
<1>2. ASSUME NEW c \in Cutoffs, Retain(c)
      PROVE  ResolvedInv'
  BY <1>2 DEF Retain, Known, IsRequest, Found, QueryMode, resVars
<1>3. CASE PassThrough
  <2>1. IsRequest(request.topics)
    BY BriefGenerationAssumption DEF RequestsTyped, IsRequest
  <2> QED
    BY <1>3, <2>1 DEF PassThrough, IsRequest, Found, QueryMode, dbVars
<1>4. CASE RankTopics
  BY <1>4 DEF RankTopics, Finish, IsRequest, Found, QueryMode, dbVars
<1>5. CASE Hydrate
  <2> DEFINE found == TopicsWithEvidence(request, events, selected)
  <2>1. IsRequest(found)
    BY <1>5, FoundIsRequest DEF Hydrate
  <2>2. UNCHANGED <<request, snapshots, events, selected>> /\ phase = "hydrate"
    BY <1>5 DEF Hydrate, dbVars
  <2>3. CASE found = <<>>
    <3>1. topics' = topics /\ phase' = "done"
      BY <1>5, <2>3 DEF Hydrate, Finish
    <3> QED
      BY <2>2, <3>1 DEF IsRequest
  <2>4. CASE found # <<>>
    <3>1. /\ topics' = found /\ phase' = "generate"
          /\ warnings' = warnings \cup EvidenceWarnings(request, events, selected)
      BY <1>5, <2>4 DEF Hydrate
    <3>2. Found(events)'
      BY <2>2, <3>1 DEF Found
    <3>3. IsRequest(topics)'
      BY <2>1, <3>1 DEF IsRequest
    <3> QED
      BY <2>2, <3>1, <3>2, <3>3
  <2> QED
    BY <2>3, <2>4
<1>6. CASE StorageFails
  BY <1>6 DEF StorageFails, Resolving, IsRequest, Found, QueryMode, dbVars
<1>7. ASSUME UNCHANGED <<request, dbVars, resVars>>,
             phase' = phase \/ phase' \notin {"resolve", "hydrate"}
      PROVE  ResolvedInv'
  BY <1>7 DEF IsRequest, Found, QueryMode, dbVars, resVars
<1>8. CASE Generate
  BY <1>7, <1>8 DEF Generate, Internal, Http, HttpFails, Build, Finish
<1>9. CASE Cli
  <2> USE DEF Answered, AnsweredAtOnce, Restart
  <2>1. CASE MakeDir \/ MakeDirFails \/ WritePrompt \/ WritePromptFails
    BY <1>7, <2>1 DEF MakeDir, MakeDirFails, WritePrompt, WritePromptFails
  <2>2. ASSUME NEW out \in Output, NEW m, StdinOnly(out) \/ Retry(out) \/ FileMode(out, m)
                                             \/ Stdin(out, m)
        PROVE  ResolvedInv'
    BY <1>7, <2>2 DEF StdinOnly, Retry, FileMode, Stdin, StdinError
  <2>3. ASSUME NEW e, CliFails(e) \/ CleanupFails(e)
        PROVE  ResolvedInv'
    BY <1>7, <2>3 DEF CliFails, CleanupFails, StdinError
  <2>4. CASE Cleanup
    BY <1>7, <2>4 DEF Cleanup
  <2> QED
    BY <1>9, <2>1, <2>2, <2>3, <2>4 DEF Cli
<1>10. CASE UNCHANGED generationVars
  BY <1>7, <1>10 DEF generationVars
<1> QED
  BY <1>1, <1>2, <1>3, <1>4, <1>5, <1>6, <1>8, <1>9, <1>10
     DEF NextGeneration, Database, Resolve

-----------------------------------------------------------------------------
(* Briefs *)

\* What the rules of grounding leave is a brief that holds to the evidence.
LEMMA BriefHolds ==
  ASSUME IsRequest(topics), NEW list, IsFiniteSet(DOMAIN list), DOMAIN list \subseteq Nat,
         NEW notes,
         (~Queried /\ request.maxTopics # Unset) =>
             Cardinality(DOMAIN list) <= request.maxTopics,
         request.maxTopics \in Nat,
         NEW brief, brief = Brief(EnforceHighlights(topics, list), notes),
         brief.kind = "brief"
  PROVE  Grounded(brief) /\ brief.warnings = warnings
<1> DEFINE E == EnforceHighlights(topics, list)
<1>1. /\ \A h \in E : OfScope(topics, h)
      /\ \A g, h \in E : Key[g.topic] = Key[h.topic] => g = h
      /\ IsFiniteSet(E) /\ Cardinality(E) <= Cardinality(DOMAIN list)
  BY Enforced
<1> HIDE DEF E
<1>2. E # {} /\ NotesGrounded(topics, notes)
  <2>1. CASE ~(E # {} /\ NotesGrounded(topics, notes))
    BY <2>1 DEF Brief, Failure, NoResult, E
  <2> QED
    BY <2>1
<1>3. /\ brief.highlights = E /\ brief.notes = CanonicalUrls(notes)
      /\ brief.warnings = warnings
  BY <1>2 DEF Brief, E
<1>4. ASSUME NEW h \in E
      PROVE  /\ h.cites # {}
             /\ \E i \in DOMAIN topics :
                   /\ topics[i].topic = h.topic
                   /\ \A c \in h.cites : Traced(c, UrlsOf(topics[i]))
  <2>1. /\ Key[h.topic] \in ScopeKeys(topics)
        /\ h.topic = Scope(topics, Key[h.topic]).topic
        /\ h.cites # {}
        /\ \A c \in h.cites : Traced(c, UrlsOf(Scope(topics, Key[h.topic])))
    BY <1>1 DEF OfScope
  <2>2. PICK i \in DOMAIN topics : Scope(topics, Key[h.topic]) = topics[i]
    BY <2>1, Scopes
  <2> QED
    BY <2>1, <2>2
<1>5. (~Queried /\ request.maxTopics # Unset) => Cardinality(E) <= request.maxTopics
  BY <1>1, FS_CardinalityType
<1>6. CanonicalUrls(notes) \subseteq EvidenceUrls(topics)
  BY <1>2 DEF NotesGrounded
<1> QED
  BY <1>1, <1>2, <1>3, <1>4, <1>5, <1>6 DEF Grounded

\* So are the brief of the rules of the service ...
LEMMA InternalHolds ==
  ASSUME request \in Requests, IsRequest(topics), NEW preferred \in Nat, NEW concise,
         NEW brief, brief = InternalBrief(preferred, concise), brief.kind = "brief"
  PROVE  Grounded(brief) /\ brief.warnings = warnings
<1> DEFINE cap    == IF concise \/ ~Queried THEN {request.maxTopics} ELSE {}
           limits == (cap \cup {preferred}) \ {Unset}
           chosen == InternalTopics(preferred, concise)
           list   == [i \in DOMAIN chosen |-> InternalHighlight(chosen[i])]
<1>1. request.maxTopics \in Nat
  BY BriefGenerationAssumption DEF RequestsTyped
<1>2. limits \subseteq Nat /\ IsFiniteSet(limits)
  <2>1. limits \in SUBSET ({request.maxTopics} \cup {preferred})
    OBVIOUS
  <2>2. IsFiniteSet({request.maxTopics} \cup {preferred})
    BY FS_Singleton, FS_Union
  <2>3. limits \subseteq Nat
    BY <1>1
  <2> HIDE DEF limits
  <2> QED
    BY <2>1, <2>2, <2>3, FS_Subset
<1>3. /\ chosen \in Seq(ToSet(topics)) /\ Len(chosen) \in Nat
      /\ \A n \in limits : Len(chosen) <= n
  <2>1. chosen = SubSeq(topics, 1, Min(limits \cup {Len(topics)}))
    BY DEF InternalTopics
  <2> HIDE DEF limits, chosen
  <2> QED
    BY <1>2, <2>1, FirstOf DEF IsRequest
<1>4. (~Queried /\ request.maxTopics # Unset) => Len(chosen) <= request.maxTopics
  BY <1>3
<1>5. /\ IsFiniteSet(DOMAIN list) /\ Cardinality(DOMAIN list) = Len(chosen)
      /\ DOMAIN list \subseteq Nat
  <2>1. DOMAIN list = 1 .. Len(chosen)
    BY <1>3
  <2> HIDE DEF list, chosen
  <2> QED
    BY <1>3, <2>1, CountTo
<1>6. brief = Brief(EnforceHighlights(topics, list), {})
  BY DEF InternalBrief
<1> HIDE DEF list, chosen
<1> QED
  BY <1>1, <1>4, <1>5, <1>6, BriefHolds

\* ... and the one made of an answer, or of the rules where it cites nothing.
LEMMA LlmHolds ==
  ASSUME request \in Requests, IsRequest(topics), NEW a \in Answers,
         NEW brief, brief = LlmBrief(a), brief.kind = "brief"
  PROVE  Grounded(brief) /\ brief.warnings = warnings
<1> DEFINE given == Reply[a].highlights
           caps  == IF Queried THEN {} ELSE {request.maxTopics} \ {Unset}
           taken == SubSeq(given, 1, Min(caps \cup {Len(given)}))
           list  == [i \in DOMAIN taken |-> Normalized(taken[i])]
           E     == EnforceHighlights(topics, list)
<1>1. request.maxTopics \in Nat /\ given \in Seq(ToSet(given))
  BY BriefGenerationAssumption DEF RequestsTyped
<1>2. caps \subseteq Nat /\ IsFiniteSet(caps)
  <2>1. caps \in SUBSET {request.maxTopics}
    OBVIOUS
  <2>2. IsFiniteSet({request.maxTopics})
    BY FS_Singleton
  <2>3. caps \subseteq Nat
    BY <1>1
  <2> HIDE DEF caps
  <2> QED
    BY <2>1, <2>2, <2>3, FS_Subset
<1>3. /\ taken \in Seq(ToSet(given)) /\ Len(taken) \in Nat
      /\ \A n \in caps : Len(taken) <= n
  <2> HIDE DEF caps, given
  <2> QED
    BY <1>1, <1>2, FirstOf
<1>4. (~Queried /\ request.maxTopics # Unset) => Len(taken) <= request.maxTopics
  BY <1>3
<1>5. /\ IsFiniteSet(DOMAIN list) /\ Cardinality(DOMAIN list) = Len(taken)
      /\ DOMAIN list \subseteq Nat
  <2> HIDE DEF taken
  <2>1. DOMAIN list = 1 .. Len(taken)
    BY <1>3
  <2> HIDE DEF list
  <2> QED
    BY <1>3, <2>1, CountTo
<1>6. brief = IF E # {} THEN Brief(E, Reply[a].notes) ELSE InternalBrief(Len(taken), TRUE)
  BY DEF LlmBrief
<1> HIDE DEF taken, list
<1>7. CASE E # {}
  BY <1>1, <1>4, <1>5, <1>6, <1>7, BriefHolds
<1>8. CASE E = {}
  BY <1>3, <1>6, <1>8, InternalHolds
<1> QED
  BY <1>7, <1>8

\* Nothing is handed on before the end, and then a brief that holds.
ResultInv ==
    /\ phase # "done" => result = NoResult
    /\ result.kind = "brief" => Grounded(result) /\ result.warnings = warnings

\* At first there is no result ...
LEMMA InitResult == InitGeneration => ResultInv
<1>1. NoResult.kind # "brief"
  BY DEF NoResult
<1> QED
  BY <1>1 DEF InitGeneration, ResultInv

\* ... every step that ends the work hands on a failure or a brief that holds, and
\* no step comes after it.
LEMMA NextResult == ResolvedInv /\ ResultInv /\ [NextGeneration]_generationVars => ResultInv'
<1> SUFFICES ASSUME ResolvedInv, ResultInv, [NextGeneration]_generationVars
             PROVE  ResultInv'
  OBVIOUS
<1> USE DEF ResultInv
<1>1. NoResult.kind # "brief"
  BY DEF NoResult
<1>2. ASSUME phase # "done", UNCHANGED result
      PROVE  ResultInv'
  BY <1>1, <1>2
<1>3. ASSUME NEW code, Finish(Failure(code))
      PROVE  ResultInv'
  BY <1>3 DEF Finish, Failure, NoResult
<1>4. ASSUME NEW brief, Finish(brief), UNCHANGED <<request, topics, warnings>>,
             brief.kind = "brief" => Grounded(brief) /\ brief.warnings = warnings
      PROVE  ResultInv'
  BY <1>4 DEF Finish, Grounded, Queried, QueryMode
<1>5. CASE Database
  BY <1>2, <1>5 DEF Database, Persist, Retain, Resolving
<1>6. CASE Resolve
  <2>1. CASE PassThrough \/ StorageFails
    BY <1>2, <2>1 DEF PassThrough, StorageFails, Resolving
  <2>2. CASE RankTopics
    BY <1>2, <1>3, <2>2 DEF RankTopics
  <2>3. CASE Hydrate
    BY <1>2, <1>3, <2>3 DEF Hydrate
  <2> QED
    BY <1>6, <2>1, <2>2, <2>3 DEF Resolve
<1>7. CASE Generate
  <2>1. CASE Internal
    <3>1. /\ Finish(InternalBrief(Unset, FALSE))
          /\ UNCHANGED <<request, topics, warnings>>
      BY <2>1 DEF Internal, resVars
    <3>2. Unset \in Nat
      BY DEF Unset
    <3> DEFINE brief == InternalBrief(Unset, FALSE)
    <3>3. brief.kind = "brief" => Grounded(brief) /\ brief.warnings = warnings
      <4> SUFFICES ASSUME brief.kind = "brief"
                   PROVE  Grounded(brief) /\ brief.warnings = warnings
        OBVIOUS
      <4> QED
        BY <3>2, InternalHolds DEF ResolvedInv
    <3> HIDE DEF brief
    <3> QED
      BY <1>4, <3>1, <3>3 DEF brief
  <2>2. CASE HttpFails
    BY <1>2, <2>2 DEF HttpFails
  <2>3. ASSUME NEW out \in Output, Http(out)
        PROVE  ResultInv'
    BY <1>2, <2>3 DEF Http
  <2>4. CASE Build
    <3>1. UNCHANGED <<request, topics, warnings>>
      BY <2>4 DEF Build, resVars
    <3>2. CASE answer \in Answers
      <4> DEFINE brief == LlmBrief(answer)
      <4>1. Finish(brief)
        BY <2>4, <3>2 DEF Build
      <4>2. brief.kind = "brief" => Grounded(brief) /\ brief.warnings = warnings
        <5> SUFFICES ASSUME brief.kind = "brief"
                     PROVE  Grounded(brief) /\ brief.warnings = warnings
          OBVIOUS
        <5> QED
          BY <3>2, LlmHolds DEF ResolvedInv
      <4> HIDE DEF brief
      <4> QED
        BY <1>4, <3>1, <4>1, <4>2
    <3>3. CASE answer \notin Answers /\ answer = "artifact"
      <4> DEFINE brief == InternalBrief(request.maxTopics, TRUE)
      <4>1. Finish(brief)
        BY <2>4, <3>3 DEF Build
      <4>2. request.maxTopics \in Nat
        BY BriefGenerationAssumption DEF RequestsTyped, ResolvedInv
      <4>3. brief.kind = "brief" => Grounded(brief) /\ brief.warnings = warnings
        <5> SUFFICES ASSUME brief.kind = "brief"
                     PROVE  Grounded(brief) /\ brief.warnings = warnings
          OBVIOUS
        <5> QED
          BY <4>2, InternalHolds DEF ResolvedInv
      <4> HIDE DEF brief
      <4> QED
        BY <1>4, <3>1, <4>1, <4>3
    <3>4. CASE answer \notin Answers /\ answer # "artifact"
      BY <1>3, <2>4, <3>4 DEF Build
    <3> QED
      BY <3>2, <3>3, <3>4
  <2> QED
    BY <1>7, <2>1, <2>2, <2>3, <2>4 DEF Generate
<1>8. CASE Cli
  <2>1. CASE MakeDir \/ MakeDirFails \/ WritePrompt \/ WritePromptFails \/ Cleanup
    BY <1>2, <2>1 DEF MakeDir, MakeDirFails, WritePrompt, WritePromptFails, Cleanup
  <2>2. ASSUME NEW out \in Output, NEW m, StdinOnly(out) \/ Retry(out) \/ FileMode(out, m)
                                             \/ Stdin(out, m)
        PROVE  ResultInv'
    BY <1>2, <2>2 DEF StdinOnly, Retry, FileMode, Stdin, StdinError
  <2>3. ASSUME NEW e, CliFails(e) \/ CleanupFails(e)
        PROVE  ResultInv'
    BY <1>2, <2>3 DEF CliFails, CleanupFails, StdinError
  <2> QED
    BY <1>8, <2>1, <2>2, <2>3 DEF Cli
<1>9. CASE UNCHANGED generationVars
  BY <1>9 DEF generationVars, resVars, Grounded, Queried, QueryMode
<1> QED
  BY <1>5, <1>6, <1>7, <1>8, <1>9 DEF NextGeneration

\* Whatever a provider answers or fails to, and whichever fallback is taken: a
\* brief has highlights of topics of its request only, each with citations of
\* pages in that topic's evidence, within the budget, and its notes link to evidence only
\* (enforceGroundedHighlights, enforceGroundedNotes, buildInternalSuccessResult).
THEOREM BriefAlwaysGrounded == GenerationSpec => []BriefGrounded
<1>1. ResultInv => BriefGrounded
  BY DEF ResultInv, BriefGrounded
<1> QED
  BY <1>1, InitResolved, NextResolved, InitResult, NextResult, PTL DEF GenerationSpec

\* Whatever raw events come and go between the reads of a query: the topics it
\* resolves to have evidence of their own, of the days asked for, within both caps
\* and of one page once; they are of no more groups than asked for, and a brief
\* without a warning leaves out no topic of the rank (rankTopicsFromSnapshots,
\* hydrateTopics, summarizeCoverageWarnings).
THEOREM QueryAlwaysSound == GenerationSpec => []QuerySound
<1>1. ResolvedInv /\ ResultInv => QuerySound
  <2> SUFFICES ASSUME ResolvedInv, ResultInv, QueryMode, topics # <<>>
               PROVE  QuerySound
    BY DEF QuerySound
  <2>1. PICK ev \in SUBSET Known : Found(ev)
    BY DEF ResolvedInv
  <2> QED
    BY <2>1, FoundSound DEF ResolvedInv, ResultInv, Found
<1> QED
  BY <1>1, InitResolved, NextResolved, InitResult, NextResult, PTL DEF GenerationSpec

=============================================================================
