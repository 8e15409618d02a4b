----------------------- MODULE BriefOrchestratorProofs -----------------------
(***************************************************************************)
(* For any partition, any number of instances, attempts and faults, and    *)
(* any set of ambiguous calls: the types of BriefOrchestrator, that        *)
(* published results are the stored ones and committed requests answered,  *)
(* that without retention it implements BriefPromise, and what its         *)
(* attempts do to the budget.                                              *)
(***************************************************************************)
EXTENDS BriefOrchestrator, FiniteSetTheorems, TLAPS

\* An instance that runs an attempt is inside its batch, and its local
\* variables hold what the label says.
JobShape ==
    \A w \in Workers :
        /\ pc[w] # "idle" => next[w] <= last[w] /\ attempt[w] \in Attempt
        /\ pc[w] \in {"persist", "settle", "emit", "publish"} => payload[w] \in Payload
        /\ pc[w] = "rollback" => cause[w] \in Cause

Shape == TypeOK /\ JobShape

Record(r) == {stored[r]} \cup expired[r]

\* What an instance is about to publish is what the table holds, or held.
PublishesStored ==
    \A w \in Workers :
        pc[w] \in {"settle", "publish"} => payload[w] \in Record(Request(w))

Done == {o \in 1 .. Len(Log) : Answered(Log[o])}

\* What an instance acknowledges is answered, and so is what is behind it.
AckedDone ==
    \A w \in Workers :
        /\ pc[w] = "ack" => next[w] \in Done
        /\ \A o \in 1 .. next[w] - 1 : o \in Done

CommittedDone == \A o \in 1 .. committed : o \in Done

-----------------------------------------------------------------------------
(* The types *)

\* What an attempt may decide by itself is a payload.
LEMMA ResultIsPayload ==
  ASSUME NEW w \in Workers, attempt[w] \in Attempt
  PROVE  /\ Result(w, "success") \in Payload
         /\ Result(w, "grounding_error") \in Payload
         /\ Result(w, "budget_exceeded") \in Payload
         /\ \A c \in Cause : c # "unknown" => Result(w, c) \in Payload
  BY DEF Result, Payload, FailureCode, Cause

\* The cause given to an error the handlers do not know.
LEMMA UnknownIsCause == "unknown" \in Cause
  BY DEF Cause

\* What the proofs need of the assumptions, without the sequence.
LEMMA Constants ==
  /\ Len(Log) \in Nat
  /\ \A o \in 1 .. Len(Log) : Log[o] \in Requests
  /\ MaxAttempts \in Nat
  /\ MaxFaults \in Nat
  /\ None \notin Workers \cup Payload \cup Cause
  BY OrchestratorAssumption

\* The types hold before anything runs.
LEMMA InitShape == Init => Shape
  BY Constants
     DEF Init, Shape, TypeOK, GroupTypeOK, JobTypeOK, ResultTypeOK, BudgetTypeOK,
         JobShape, Label, Attempt

\* The message an instance works on lies in the partition.
LEMMA Busy ==
  ASSUME Shape, NEW w \in Workers, pc[w] # "idle"
  PROVE  /\ next[w] <= last[w]
         /\ next[w] \in 1 .. Len(Log)
         /\ Request(w) \in Requests
         /\ attempt[w] \in Attempt
<1>1. next[w] <= last[w] /\ attempt[w] \in Attempt
  BY DEF Shape, JobShape
<1>2. next[w] \in 1 .. Len(Log)
  BY <1>1, Constants DEF Shape, TypeOK, GroupTypeOK
<1> QED
  BY <1>1, <1>2, Constants DEF Request

\* Offsets stay in the partition and instances in their batches.
LEMMA GroupStep ==
  ASSUME Shape, [Next]_vars
  PROVE  GroupTypeOK'
<1> USE Constants, Busy DEF Shape, TypeOK, GroupTypeOK, Throw, EndSession
<1>1. ASSUME NEW w \in Workers, Assign(w)
      PROVE  GroupTypeOK'
  BY <1>1 DEF Assign
<1>2. CASE LoseOwnership
  BY <1>2 DEF LoseOwnership
<1>3. ASSUME NEW w \in Workers, Fetch(w)
      PROVE  GroupTypeOK'
  BY <1>3 DEF Fetch
<1>4. ASSUME NEW w \in Workers, Commit(w)
      PROVE  GroupTypeOK'
  BY <1>4 DEF Commit
<1>5. ASSUME NEW w \in Workers, NoticeRebalance(w)
      PROVE  GroupTypeOK'
  BY <1>5 DEF NoticeRebalance
<1>6. ASSUME NEW w \in Workers, Skip(w)
      PROVE  GroupTypeOK'
  BY <1>6 DEF Skip
<1>7. ASSUME NEW w \in Workers, Ack(w)
      PROVE  GroupTypeOK'
  BY <1>7 DEF Ack, groupVars
<1>8. ASSUME NEW w \in Workers, Crash(w)
      PROVE  GroupTypeOK'
  BY <1>8 DEF Crash
<1>9. ASSUME NEW w \in Workers, Rollback(w)
      PROVE  GroupTypeOK'
  <2>1. UNCHANGED groupVars \/ Throw(w)
    BY <1>9 DEF Rollback
  <2>2. CASE UNCHANGED groupVars
    BY <2>2 DEF groupVars
  <2>3. CASE Throw(w)
    BY <1>9, <2>3 DEF Rollback
  <2> QED
    BY <2>1, <2>2, <2>3
<1>10. ASSUME NEW w \in Workers, RollbackFails(w)
      PROVE  GroupTypeOK'
  BY <1>10 DEF RollbackFails
<1>11. ASSUME NEW w \in Workers, Reload(w)
      PROVE  GroupTypeOK'
  BY <1>11 DEF Reload, groupVars
<1>12. ASSUME NEW w \in Workers, CallFails(w)
      PROVE  GroupTypeOK'
  BY <1>12 DEF CallFails
<1>13. ASSUME NEW w \in Workers, AuthorizeAmbiguous(w)
      PROVE  GroupTypeOK'
  BY <1>13 DEF AuthorizeAmbiguous
<1>14. ASSUME NEW w \in Workers, EmitAmbiguous(w)
      PROVE  GroupTypeOK'
  BY <1>14 DEF EmitAmbiguous
<1>15. ASSUME NEW w \in Workers, PublishAmbiguous(w)
      PROVE  GroupTypeOK'
  BY <1>15 DEF PublishAmbiguous
<1>16. CASE UNCHANGED groupVars
  BY <1>16 DEF groupVars
<1> QED
  BY <1>1, <1>2, <1>3, <1>4, <1>5, <1>6, <1>7, <1>8, <1>9, <1>10, <1>11, <1>12,
     <1>13, <1>14, <1>15, <1>16
     DEF Next, Delivery, Process, Failure, vars, Deliver, Resolve, Load,
         Authorize, Generate, PersistSuccess, PersistSuccessFails, Settle,
         RollbackDuplicate, RollbackDuplicateFails, Emit, Publish, Expire

\* An instance holds a result when it is about to write one.
LEMMA JobStep ==
  ASSUME Shape, [Next]_vars
  PROVE  JobTypeOK'
<1> USE Constants, Busy, ResultIsPayload, UnknownIsCause
    DEF Shape, TypeOK, JobTypeOK, ResultTypeOK, Throw, EndSession, Finish,
        Goto, Prepare, Label, Attempt, BudgetTypeOK, jobVars
<1>1. ASSUME NEW w \in Workers, Deliver(w)
      PROVE  JobTypeOK'
  BY <1>1 DEF Deliver
<1>2. ASSUME NEW w \in Workers, Ack(w)
      PROVE  JobTypeOK'
  BY <1>2 DEF Ack
<1>3. ASSUME NEW w \in Workers, Resolve(w)
      PROVE  JobTypeOK'
  <2>1. Result(w, "grounding_error") \in Payload
    BY <1>3 DEF Resolve
  <2>2. payload' \in [Workers -> Payload \cup {None}]
    BY <1>3, <2>1 DEF Resolve
  <2>3. pc' \in [Workers -> Label] /\ attempt' = attempt
    BY <1>3 DEF Resolve
  <2>4. cause' \in [Workers -> Cause \cup {None}]
    BY <1>3 DEF Resolve
  <2> QED
    BY <2>2, <2>3, <2>4
<1>4. ASSUME NEW w \in Workers, Load(w)
      PROVE  JobTypeOK'
  BY <1>4 DEF Load
<1>5. ASSUME NEW w \in Workers, Authorize(w)
      PROVE  JobTypeOK'
  <2>1. Result(w, "budget_exceeded") \in Payload
    BY <1>5 DEF Authorize
  <2>2. payload' \in [Workers -> Payload \cup {None}]
    BY <1>5, <2>1 DEF Authorize
  <2>3. pc' \in [Workers -> Label] /\ attempt' = attempt
    BY <1>5 DEF Authorize
  <2>4. cause' \in [Workers -> Cause \cup {None}]
    BY <1>5 DEF Authorize
  <2> QED
    BY <2>2, <2>3, <2>4
<1>6. ASSUME NEW w \in Workers, Generate(w)
      PROVE  JobTypeOK'
  <2>1. Result(w, "success") \in Payload
    BY <1>6 DEF Generate
  <2>2. payload' \in [Workers -> Payload \cup {None}]
    BY <1>6, <2>1 DEF Generate
  <2>3. pc' \in [Workers -> Label] /\ attempt' = attempt
    BY <1>6 DEF Generate
  <2>4. cause' \in [Workers -> Cause \cup {None}]
    BY <1>6 DEF Generate
  <2> QED
    BY <2>2, <2>3, <2>4
<1>7. ASSUME NEW w \in Workers, PersistSuccess(w)
      PROVE  JobTypeOK'
  BY <1>7 DEF PersistSuccess
<1>8. ASSUME NEW w \in Workers, PersistSuccessFails(w)
      PROVE  JobTypeOK'
  BY <1>8 DEF PersistSuccessFails
<1>9. ASSUME NEW w \in Workers, Settle(w)
      PROVE  JobTypeOK'
  BY <1>9 DEF Settle
<1>10. ASSUME NEW w \in Workers, RollbackDuplicate(w)
      PROVE  JobTypeOK'
  BY <1>10 DEF RollbackDuplicate
<1>11. ASSUME NEW w \in Workers, RollbackDuplicateFails(w)
      PROVE  JobTypeOK'
  BY <1>11 DEF RollbackDuplicateFails
<1>12. ASSUME NEW w \in Workers, Rollback(w)
      PROVE  JobTypeOK'
  <2>1. CASE Throw(w)
    BY <2>1
  <2>2. CASE ~Throw(w)
    <3>1. Result(w, cause[w]) \in Payload
      BY <1>12, <2>2 DEF Rollback, JobShape
    <3>2. payload' \in [Workers -> Payload \cup {None}]
      BY <1>12, <2>2, <3>1 DEF Rollback
    <3> QED
      BY <1>12, <2>2, <3>2 DEF Rollback
  <2> QED
    BY <2>1, <2>2
<1>13. ASSUME NEW w \in Workers, RollbackFails(w)
      PROVE  JobTypeOK'
  BY <1>13 DEF RollbackFails
<1>14. ASSUME NEW w \in Workers, Reload(w)
      PROVE  JobTypeOK'
  <2>1. CASE Throw(w)
    BY <2>1
  <2>2. CASE ~Throw(w)
    <3>1. stored[Request(w)] \in Payload
      BY <1>14, <2>2 DEF Reload
    <3> QED
      BY <1>14, <2>2, <3>1 DEF Reload
  <2> QED
    BY <2>1, <2>2
<1>15. ASSUME NEW w \in Workers, Emit(w)
      PROVE  JobTypeOK'
  BY <1>15 DEF Emit
<1>16. ASSUME NEW w \in Workers, Publish(w)
      PROVE  JobTypeOK'
  BY <1>16 DEF Publish
<1>17. ASSUME NEW w \in Workers, CallFails(w)
      PROVE  JobTypeOK'
  BY <1>17 DEF CallFails
<1>18. ASSUME NEW w \in Workers, AuthorizeAmbiguous(w)
      PROVE  JobTypeOK'
  BY <1>18 DEF AuthorizeAmbiguous
<1>19. ASSUME NEW w \in Workers, EmitAmbiguous(w)
      PROVE  JobTypeOK'
  BY <1>19 DEF EmitAmbiguous
<1>20. ASSUME NEW w \in Workers, PublishAmbiguous(w)
      PROVE  JobTypeOK'
  BY <1>20 DEF PublishAmbiguous
<1>21. ASSUME NEW w \in Workers, Crash(w)
      PROVE  JobTypeOK'
  BY <1>21 DEF Crash
<1>22. CASE UNCHANGED jobVars
  BY <1>22 DEF jobVars
<1> QED
  BY <1>1, <1>2, <1>3, <1>4, <1>5, <1>6, <1>7, <1>8, <1>9, <1>10, <1>11, <1>12,
     <1>13, <1>14, <1>15, <1>16, <1>17, <1>18, <1>19, <1>20, <1>21, <1>22
     DEF Next, Delivery, Process, Failure, vars, Assign, Fetch, Commit,
         NoticeRebalance, Skip, LoseOwnership, Expire

\* Tables and topics hold payloads only.
LEMMA ResultStep ==
  ASSUME Shape, [Next]_vars
  PROVE  ResultTypeOK'
<1> USE Constants, Busy DEF Shape, TypeOK, JobShape, ResultTypeOK, Insert, resultVars
<1>1. ASSUME NEW w \in Workers, PersistSuccess(w)
      PROVE  ResultTypeOK'
  BY <1>1 DEF PersistSuccess
<1>2. ASSUME NEW w \in Workers, PersistSuccessFails(w)
      PROVE  ResultTypeOK'
  BY <1>2 DEF PersistSuccessFails
<1>3. ASSUME NEW w \in Workers, Emit(w)
      PROVE  ResultTypeOK'
  BY <1>3 DEF Emit
<1>4. ASSUME NEW w \in Workers, Publish(w)
      PROVE  ResultTypeOK'
  BY <1>4 DEF Publish
<1>5. ASSUME NEW w \in Workers, EmitAmbiguous(w)
      PROVE  ResultTypeOK'
  BY <1>5 DEF EmitAmbiguous
<1>6. ASSUME NEW w \in Workers, PublishAmbiguous(w)
      PROVE  ResultTypeOK'
  BY <1>6 DEF PublishAmbiguous
<1>7. ASSUME NEW r \in Requests, Expire(r)
      PROVE  ResultTypeOK'
  BY <1>7 DEF Expire
<1>8. CASE UNCHANGED resultVars
  BY <1>8 DEF resultVars
<1> QED
  BY <1>1, <1>2, <1>3, <1>4, <1>5, <1>6, <1>7, <1>8
     DEF Next, Delivery, Process, Failure, vars, Assign, Fetch, Commit,
         NoticeRebalance, Deliver, Skip, Ack, Resolve, Load, Authorize,
         Generate, Settle, RollbackDuplicate, RollbackDuplicateFails, Rollback,
         RollbackFails, Reload, CallFails, AuthorizeAmbiguous, Crash,
         LoseOwnership

\* Attempts stay in their range, and reservations count.
LEMMA BudgetStep ==
  ASSUME Shape, [Next]_vars
  PROVE  BudgetTypeOK'
<1> USE Constants, Busy
    DEF Shape, TypeOK, BudgetTypeOK, Fault, ReleaseCharge, LoseCharge, Holding,
        budgetVars, boundVars
<1>1. CASE LoseOwnership
  BY <1>1 DEF LoseOwnership
<1>2. ASSUME NEW w \in Workers, Deliver(w)
      PROVE  BudgetTypeOK'
  BY <1>2 DEF Deliver
<1>3. ASSUME NEW w \in Workers, Authorize(w)
      PROVE  BudgetTypeOK'
  BY <1>3 DEF Authorize
<1>4. ASSUME NEW w \in Workers, Generate(w)
      PROVE  BudgetTypeOK'
  BY <1>4 DEF Generate
<1>5. ASSUME NEW w \in Workers, PersistSuccessFails(w)
      PROVE  BudgetTypeOK'
  BY <1>5 DEF PersistSuccessFails
<1>6. ASSUME NEW w \in Workers, RollbackDuplicate(w)
      PROVE  BudgetTypeOK'
  BY <1>6 DEF RollbackDuplicate
<1>7. ASSUME NEW w \in Workers, RollbackDuplicateFails(w)
      PROVE  BudgetTypeOK'
  BY <1>7 DEF RollbackDuplicateFails
<1>8. ASSUME NEW w \in Workers, Rollback(w)
      PROVE  BudgetTypeOK'
  BY <1>8 DEF Rollback
<1>9. ASSUME NEW w \in Workers, RollbackFails(w)
      PROVE  BudgetTypeOK'
  BY <1>9 DEF RollbackFails
<1>10. ASSUME NEW w \in Workers, CallFails(w)
      PROVE  BudgetTypeOK'
  BY <1>10 DEF CallFails
<1>11. ASSUME NEW w \in Workers, AuthorizeAmbiguous(w)
      PROVE  BudgetTypeOK'
  BY <1>11 DEF AuthorizeAmbiguous
<1>12. ASSUME NEW w \in Workers, EmitAmbiguous(w)
      PROVE  BudgetTypeOK'
  BY <1>12 DEF EmitAmbiguous
<1>13. ASSUME NEW w \in Workers, PublishAmbiguous(w)
      PROVE  BudgetTypeOK'
  BY <1>13 DEF PublishAmbiguous
<1>14. ASSUME NEW w \in Workers, Crash(w)
      PROVE  BudgetTypeOK'
  BY <1>14 DEF Crash
<1>15. CASE UNCHANGED <<budgetVars, boundVars>>
  BY <1>15 DEF budgetVars, boundVars
<1> QED
  BY <1>1, <1>2, <1>3, <1>4, <1>5, <1>6, <1>7, <1>8, <1>9, <1>10, <1>11, <1>12,
     <1>13, <1>14, <1>15
     DEF Next, Delivery, Process, Failure, vars, Assign, Fetch, Commit,
         NoticeRebalance, Skip, Ack, Resolve, Load, PersistSuccess, Settle,
         Reload, Emit, Publish, Expire

\* The local variables of an attempt are set before they are used.
LEMMA JobShapeStep ==
  ASSUME Shape, [Next]_vars
  PROVE  JobShape'
<1> USE Constants, Busy, ResultIsPayload, UnknownIsCause
    DEF Shape, TypeOK, GroupTypeOK, JobTypeOK, ResultTypeOK, BudgetTypeOK, JobShape,
        Throw, EndSession, Finish, Goto, Prepare, Attempt, jobVars, groupVars
<1>1. ASSUME NEW w \in Workers, Assign(w)
      PROVE  JobShape'
  BY <1>1 DEF Assign
<1>2. ASSUME NEW w \in Workers, Fetch(w)
      PROVE  JobShape'
  BY <1>2 DEF Fetch
<1>3. ASSUME NEW w \in Workers, Commit(w)
      PROVE  JobShape'
  BY <1>3 DEF Commit
<1>4. ASSUME NEW w \in Workers, NoticeRebalance(w)
      PROVE  JobShape'
  BY <1>4 DEF NoticeRebalance
<1>5. ASSUME NEW w \in Workers, Deliver(w)
      PROVE  JobShape'
  BY <1>5 DEF Deliver
<1>6. ASSUME NEW w \in Workers, Skip(w)
      PROVE  JobShape'
  BY <1>6 DEF Skip
<1>7. ASSUME NEW w \in Workers, Ack(w)
      PROVE  JobShape'
  BY <1>7 DEF Ack
<1>8. ASSUME NEW w \in Workers, Resolve(w)
      PROVE  JobShape'
  BY <1>8 DEF Resolve
<1>9. ASSUME NEW w \in Workers, Load(w)
      PROVE  JobShape'
  BY <1>9 DEF Load
<1>10. ASSUME NEW w \in Workers, Authorize(w)
      PROVE  JobShape'
  BY <1>10 DEF Authorize
<1>11. ASSUME NEW w \in Workers, Generate(w)
      PROVE  JobShape'
  BY <1>11, SMTT(30) DEF Generate
<1>12. ASSUME NEW w \in Workers, PersistSuccess(w)
      PROVE  JobShape'
  BY <1>12 DEF PersistSuccess
<1>13. ASSUME NEW w \in Workers, PersistSuccessFails(w)
      PROVE  JobShape'
  BY <1>13 DEF PersistSuccessFails
<1>14. ASSUME NEW w \in Workers, Settle(w)
      PROVE  JobShape'
  BY <1>14 DEF Settle
<1>15. ASSUME NEW w \in Workers, RollbackDuplicate(w)
      PROVE  JobShape'
  BY <1>15 DEF RollbackDuplicate
<1>16. ASSUME NEW w \in Workers, RollbackDuplicateFails(w)
      PROVE  JobShape'
  BY <1>16 DEF RollbackDuplicateFails
<1>17. ASSUME NEW w \in Workers, Rollback(w)
      PROVE  JobShape'
  <2>1. CASE Throw(w)
    BY <2>1
  <2>2. CASE ~Throw(w)
    <3>1. Result(w, cause[w]) \in Payload
      BY <1>17, <2>2 DEF Rollback
    <3> QED
      BY <1>17, <2>2, <3>1 DEF Rollback
  <2> QED
    BY <2>1, <2>2
<1>18. ASSUME NEW w \in Workers, RollbackFails(w)
      PROVE  JobShape'
  BY <1>18 DEF RollbackFails
<1>19. ASSUME NEW w \in Workers, Reload(w)
      PROVE  JobShape'
  BY <1>19, SMTT(30) DEF Reload
<1>20. ASSUME NEW w \in Workers, Emit(w)
      PROVE  JobShape'
  BY <1>20 DEF Emit
<1>21. ASSUME NEW w \in Workers, Publish(w)
      PROVE  JobShape'
  BY <1>21 DEF Publish
<1>22. ASSUME NEW w \in Workers, CallFails(w)
      PROVE  JobShape'
  BY <1>22 DEF CallFails
<1>23. ASSUME NEW w \in Workers, AuthorizeAmbiguous(w)
      PROVE  JobShape'
  BY <1>23 DEF AuthorizeAmbiguous
<1>24. ASSUME NEW w \in Workers, EmitAmbiguous(w)
      PROVE  JobShape'
  BY <1>24 DEF EmitAmbiguous
<1>25. ASSUME NEW w \in Workers, PublishAmbiguous(w)
      PROVE  JobShape'
  BY <1>25 DEF PublishAmbiguous
<1>26. ASSUME NEW w \in Workers, Crash(w)
      PROVE  JobShape'
  BY <1>26 DEF Crash
<1>27. CASE UNCHANGED <<groupVars, jobVars>>
  BY <1>27 DEF groupVars, jobVars
<1> QED
  BY <1>1, <1>2, <1>3, <1>4, <1>5, <1>6, <1>7, <1>8, <1>9, <1>10, <1>11, <1>12,
     <1>13, <1>14, <1>15, <1>16, <1>17, <1>18, <1>19, <1>20, <1>21, <1>22,
     <1>23, <1>24, <1>25, <1>26, <1>27
     DEF Next, Delivery, Process, Failure, vars, LoseOwnership, Expire

\* The types and the shape of the attempts are inductive.
LEMMA NextShape == ASSUME Shape, [Next]_vars PROVE Shape'
  BY GroupStep, JobStep, ResultStep, BudgetStep, JobShapeStep DEF Shape, TypeOK

-----------------------------------------------------------------------------
(* Published results are stored results *)

\* A stored payload stays on record: an INSERT meets an empty slot, and what the
\* retention job deletes it remembers.
LEMMA RecordGrows ==
  ASSUME Shape, NEW x \in Requests, NEW p \in Payload, p \in Record(x), [Next]_vars
  PROVE  p \in Record(x)'
<1> USE Constants, Busy DEF Shape, TypeOK, ResultTypeOK, Record, Insert
<1>1. ASSUME NEW w \in Workers, PersistSuccess(w)
      PROVE  p \in Record(x)'
  BY <1>1 DEF PersistSuccess
<1>2. ASSUME NEW w \in Workers, PersistSuccessFails(w)
      PROVE  p \in Record(x)'
  BY <1>2 DEF PersistSuccessFails
<1>3. ASSUME NEW w \in Workers, Emit(w)
      PROVE  p \in Record(x)'
  BY <1>3 DEF Emit
<1>4. ASSUME NEW w \in Workers, EmitAmbiguous(w)
      PROVE  p \in Record(x)'
  BY <1>4 DEF EmitAmbiguous
<1>5. ASSUME NEW r \in Requests, Expire(r)
      PROVE  p \in Record(x)'
  BY <1>5 DEF Expire
<1>6. CASE UNCHANGED <<stored, expired>>
  BY <1>6
<1> QED
  BY <1>1, <1>2, <1>3, <1>4, <1>5, <1>6
     DEF Next, Delivery, Process, Failure, vars, Assign, Fetch, Commit,
         NoticeRebalance, Deliver, Skip, Ack, Resolve, Load, Authorize,
         Generate, Settle, RollbackDuplicate, RollbackDuplicateFails, Rollback,
         RollbackFails, Reload, Publish, CallFails, AuthorizeAmbiguous,
         PublishAmbiguous, resultVars, Crash, LoseOwnership

\* A result ready to be published stays on record while others act.
LEMMA ReadyKept ==
  ASSUME Shape, [Next]_vars, PublishesStored, NEW v \in Workers,
         pc'[v] = pc[v], payload'[v] = payload[v], next'[v] = next[v],
         pc[v] \in {"settle", "publish"}
  PROVE  payload'[v] \in Record(Request(v))'
<1>1. Request(v) \in Requests /\ payload[v] \in Payload
  BY Busy DEF Shape, JobShape
<1>2. payload[v] \in Record(Request(v))
  BY DEF PublishesStored
<1> QED
  BY <1>1, <1>2, RecordGrows DEF Request, Record

\* An instance reaches publication only with a result it stored or loaded.
LEMMA PublishesStep ==
  ASSUME Shape, PublishesStored, [Next]_vars
  PROVE  PublishesStored'
<1> USE Constants, Busy, ReadyKept
    DEF Shape, TypeOK, GroupTypeOK, JobTypeOK, ResultTypeOK, PublishesStored, Goto,
        Prepare, Finish, EndSession, Throw, jobVars, groupVars, resultVars
<1>1. ASSUME NEW w \in Workers, Assign(w)
      PROVE  PublishesStored'
  BY <1>1 DEF Assign
<1>2. ASSUME NEW w \in Workers, Fetch(w)
      PROVE  PublishesStored'
  BY <1>2 DEF Fetch
<1>3. ASSUME NEW w \in Workers, Commit(w)
      PROVE  PublishesStored'
  BY <1>3 DEF Commit
<1>4. ASSUME NEW w \in Workers, NoticeRebalance(w)
      PROVE  PublishesStored'
  BY <1>4 DEF NoticeRebalance
<1>5. ASSUME NEW w \in Workers, Deliver(w)
      PROVE  PublishesStored'
  BY <1>5 DEF Deliver
<1>6. ASSUME NEW w \in Workers, Skip(w)
      PROVE  PublishesStored'
  BY <1>6 DEF Skip
<1>7. ASSUME NEW w \in Workers, Ack(w)
      PROVE  PublishesStored'
  BY <1>7 DEF Ack
<1>8. ASSUME NEW w \in Workers, Resolve(w)
      PROVE  PublishesStored'
  BY <1>8 DEF Resolve
<1>9. ASSUME NEW w \in Workers, Load(w)
      PROVE  PublishesStored'
  BY <1>9, SMTT(30) DEF Load, Record, Request
<1>10. ASSUME NEW w \in Workers, Authorize(w)
      PROVE  PublishesStored'
  BY <1>10 DEF Authorize
<1>11. ASSUME NEW w \in Workers, Generate(w)
      PROVE  PublishesStored'
  BY <1>11 DEF Generate
<1>12. ASSUME NEW w \in Workers, PersistSuccess(w)
      PROVE  PublishesStored'
  <2>1. pc'[w] = "settle" => payload'[w] \in Record(Request(w))'
    BY <1>12 DEF PersistSuccess, Record, Request, Insert
  <2>2. pc'[w] \in {"settle", "rollbackDuplicate"}
    BY <1>12 DEF PersistSuccess
  <2>3. \A v \in Workers : v # w => pc'[v] = pc[v]
    BY <1>12 DEF PersistSuccess
  <2>4. payload' = payload /\ next' = next
    BY <1>12 DEF PersistSuccess
  <2> QED
    BY <2>1, <2>2, <2>3, <2>4
<1>13. ASSUME NEW w \in Workers, PersistSuccessFails(w)
      PROVE  PublishesStored'
  BY <1>13 DEF PersistSuccessFails
<1>14. ASSUME NEW w \in Workers, Settle(w)
      PROVE  PublishesStored'
  BY <1>14 DEF Settle, Record, Request
<1>15. ASSUME NEW w \in Workers, RollbackDuplicate(w)
      PROVE  PublishesStored'
  BY <1>15 DEF RollbackDuplicate
<1>16. ASSUME NEW w \in Workers, RollbackDuplicateFails(w)
      PROVE  PublishesStored'
  BY <1>16 DEF RollbackDuplicateFails
<1>17. ASSUME NEW w \in Workers, Rollback(w)
      PROVE  PublishesStored'
  BY <1>17 DEF Rollback
<1>18. ASSUME NEW w \in Workers, RollbackFails(w)
      PROVE  PublishesStored'
  BY <1>18 DEF RollbackFails
<1>19. ASSUME NEW w \in Workers, Reload(w)
      PROVE  PublishesStored'
  <2>1. CASE Throw(w)
    BY <2>1
  <2>2. CASE ~Throw(w)
    BY <1>19, <2>2, SMTT(30) DEF Reload, Record, Request
  <2> QED
    BY <2>1, <2>2
<1>20. ASSUME NEW w \in Workers, Emit(w)
      PROVE  PublishesStored'
  BY <1>20, SMTT(30) DEF Emit, Record, Request, Insert
<1>21. ASSUME NEW w \in Workers, Publish(w)
      PROVE  PublishesStored'
  BY <1>21 DEF Publish
<1>22. ASSUME NEW w \in Workers, CallFails(w)
      PROVE  PublishesStored'
  BY <1>22 DEF CallFails
<1>23. ASSUME NEW w \in Workers, AuthorizeAmbiguous(w)
      PROVE  PublishesStored'
  BY <1>23 DEF AuthorizeAmbiguous
<1>24. ASSUME NEW w \in Workers, EmitAmbiguous(w)
      PROVE  PublishesStored'
  BY <1>24 DEF EmitAmbiguous
<1>25. ASSUME NEW w \in Workers, PublishAmbiguous(w)
      PROVE  PublishesStored'
  BY <1>25 DEF PublishAmbiguous
<1>26. ASSUME NEW w \in Workers, Crash(w)
      PROVE  PublishesStored'
  BY <1>26 DEF Crash
<1>27. CASE UNCHANGED <<groupVars, jobVars>>
  BY <1>27 DEF groupVars, jobVars
<1> QED
  BY <1>1, <1>2, <1>3, <1>4, <1>5, <1>6, <1>7, <1>8, <1>9, <1>10, <1>11, <1>12,
     <1>13, <1>14, <1>15, <1>16, <1>17, <1>18, <1>19, <1>20, <1>21, <1>22,
     <1>23, <1>24, <1>25, <1>26, <1>27
     DEF Next, Delivery, Process, Failure, vars, LoseOwnership, Expire

\* Nothing but a result on record is published.
LEMMA PublishedStep ==
  ASSUME Shape, PublishesStored, PublishedWasStored, [Next]_vars
  PROVE  PublishedWasStored'
<1> USE Constants, Busy, RecordGrows
    DEF Shape, TypeOK, ResultTypeOK, PublishedWasStored, PublishesStored, Record
<1>1. ASSUME NEW w \in Workers, Publish(w)
      PROVE  PublishedWasStored'
  BY <1>1 DEF Publish
<1>2. ASSUME NEW w \in Workers, PublishAmbiguous(w)
      PROVE  PublishedWasStored'
  BY <1>2 DEF PublishAmbiguous
<1>3. CASE UNCHANGED published
  BY <1>3
<1> QED
  BY <1>1, <1>2, <1>3
     DEF Next, Delivery, Process, Failure, vars, Assign, Fetch, Commit,
         NoticeRebalance, Deliver, Skip, Ack, Resolve, Load, Authorize,
         Generate, PersistSuccess, PersistSuccessFails, Settle,
         RollbackDuplicate, RollbackDuplicateFails, Rollback, RollbackFails,
         Reload, Emit, CallFails, AuthorizeAmbiguous, EmitAmbiguous, Crash, resultVars,
         LoseOwnership, Expire

-----------------------------------------------------------------------------
(* Committed requests are answered *)

\* An answered request stays answered.
LEMMA DoneGrows ==
  ASSUME Shape, [Next]_vars
  PROVE  Done \subseteq Done'
<1> USE Constants, Busy DEF Shape, TypeOK, ResultTypeOK, Done, Answered
<1>1. ASSUME NEW w \in Workers, Publish(w)
      PROVE  Done \subseteq Done'
  BY <1>1 DEF Publish
<1>2. ASSUME NEW w \in Workers, PublishAmbiguous(w)
      PROVE  Done \subseteq Done'
  BY <1>2 DEF PublishAmbiguous
<1>3. CASE UNCHANGED published
  BY <1>3
<1> QED
  BY <1>1, <1>2, <1>3
     DEF resultVars, Next, Delivery, Process, Failure, vars, Assign, Fetch, Commit,
         NoticeRebalance, Deliver, Skip, Ack, Resolve, Load, Authorize,
         Generate, PersistSuccess, PersistSuccessFails, Settle,
         RollbackDuplicate, RollbackDuplicateFails, Rollback, RollbackFails,
         Reload, Emit, CallFails, AuthorizeAmbiguous, EmitAmbiguous, Crash,
         LoseOwnership, Expire

\* A message is acknowledged only after its result is out.
LEMMA AckedStep ==
  ASSUME Shape, AckedDone, CommittedDone, [Next]_vars
  PROVE  AckedDone'
<1> USE Constants, Busy, DoneGrows
    DEF Shape, TypeOK, GroupTypeOK, JobTypeOK, AckedDone, CommittedDone, Goto, Finish,
        EndSession, Throw, jobVars, groupVars
<1>1. ASSUME NEW w \in Workers, Assign(w)
      PROVE  AckedDone'
  BY <1>1 DEF Assign
<1>2. ASSUME NEW w \in Workers, Fetch(w)
      PROVE  AckedDone'
  BY <1>2 DEF Fetch
<1>3. ASSUME NEW w \in Workers, Commit(w)
      PROVE  AckedDone'
  BY <1>3 DEF Commit
<1>4. ASSUME NEW w \in Workers, NoticeRebalance(w)
      PROVE  AckedDone'
  BY <1>4 DEF NoticeRebalance
<1>5. ASSUME NEW w \in Workers, Deliver(w)
      PROVE  AckedDone'
  BY <1>5 DEF Deliver
<1>6. ASSUME NEW w \in Workers, Skip(w)
      PROVE  AckedDone'
  <2>1. next[w] \in 1 .. Len(Log)
    BY <1>6 DEF Skip
  <2>2. next[w] \in Done
    BY <1>6, <2>1 DEF Skip, Done, Answered, Request
  <2> QED
    BY <1>6, <2>2, SMTT(30) DEF Skip
<1>7. ASSUME NEW w \in Workers, Ack(w)
      PROVE  AckedDone'
  BY <1>7, SMTT(30) DEF Ack
<1>8. ASSUME NEW w \in Workers, Resolve(w)
      PROVE  AckedDone'
  BY <1>8 DEF Resolve
<1>9. ASSUME NEW w \in Workers, Load(w)
      PROVE  AckedDone'
  BY <1>9 DEF Load
<1>10. ASSUME NEW w \in Workers, Authorize(w)
      PROVE  AckedDone'
  BY <1>10 DEF Authorize
<1>11. ASSUME NEW w \in Workers, Generate(w)
      PROVE  AckedDone'
  BY <1>11 DEF Generate
<1>12. ASSUME NEW w \in Workers, PersistSuccess(w)
      PROVE  AckedDone'
  BY <1>12 DEF PersistSuccess
<1>13. ASSUME NEW w \in Workers, PersistSuccessFails(w)
      PROVE  AckedDone'
  BY <1>13 DEF PersistSuccessFails
<1>14. ASSUME NEW w \in Workers, Settle(w)
      PROVE  AckedDone'
  BY <1>14 DEF Settle
<1>15. ASSUME NEW w \in Workers, RollbackDuplicate(w)
      PROVE  AckedDone'
  BY <1>15 DEF RollbackDuplicate
<1>16. ASSUME NEW w \in Workers, RollbackDuplicateFails(w)
      PROVE  AckedDone'
  BY <1>16 DEF RollbackDuplicateFails
<1>17. ASSUME NEW w \in Workers, Rollback(w)
      PROVE  AckedDone'
  BY <1>17 DEF Rollback
<1>18. ASSUME NEW w \in Workers, RollbackFails(w)
      PROVE  AckedDone'
  BY <1>18 DEF RollbackFails
<1>19. ASSUME NEW w \in Workers, Reload(w)
      PROVE  AckedDone'
  BY <1>19 DEF Reload
<1>20. ASSUME NEW w \in Workers, Emit(w)
      PROVE  AckedDone'
  BY <1>20 DEF Emit
<1>21. ASSUME NEW w \in Workers, Publish(w)
      PROVE  AckedDone'
  BY <1>21 DEF Publish, Done, Answered, Request, ResultTypeOK
<1>22. ASSUME NEW w \in Workers, CallFails(w)
      PROVE  AckedDone'
  BY <1>22 DEF CallFails
<1>23. ASSUME NEW w \in Workers, AuthorizeAmbiguous(w)
      PROVE  AckedDone'
  BY <1>23 DEF AuthorizeAmbiguous
<1>24. ASSUME NEW w \in Workers, EmitAmbiguous(w)
      PROVE  AckedDone'
  BY <1>24 DEF EmitAmbiguous
<1>25. ASSUME NEW w \in Workers, PublishAmbiguous(w)
      PROVE  AckedDone'
  BY <1>25 DEF PublishAmbiguous
<1>26. ASSUME NEW w \in Workers, Crash(w)
      PROVE  AckedDone'
  BY <1>26 DEF Crash
<1>27. CASE UNCHANGED <<groupVars, jobVars>>
  BY <1>27 DEF groupVars, jobVars
<1> QED
  BY <1>1, <1>2, <1>3, <1>4, <1>5, <1>6, <1>7, <1>8, <1>9, <1>10, <1>11, <1>12,
     <1>13, <1>14, <1>15, <1>16, <1>17, <1>18, <1>19, <1>20, <1>21, <1>22,
     <1>23, <1>24, <1>25, <1>26, <1>27
     DEF Next, Delivery, Process, Failure, vars, LoseOwnership, Expire

\* Only acknowledged messages are committed.
LEMMA CommittedStep ==
  ASSUME Shape, AckedDone, CommittedDone, [Next]_vars
  PROVE  CommittedDone'
<1> USE Constants, Busy, DoneGrows
    DEF Shape, TypeOK, GroupTypeOK, AckedDone, CommittedDone, Throw
<1>1. ASSUME NEW w \in Workers, Commit(w)
      PROVE  CommittedDone'
  BY <1>1 DEF Commit
<1>2. ASSUME NEW w \in Workers, Rollback(w)
      PROVE  CommittedDone'
  BY <1>2 DEF Rollback, groupVars
<1>3. ASSUME NEW w \in Workers, RollbackFails(w)
      PROVE  CommittedDone'
  BY <1>3 DEF RollbackFails
<1>4. ASSUME NEW w \in Workers, Reload(w)
      PROVE  CommittedDone'
  BY <1>4 DEF Reload, groupVars
<1>5. ASSUME NEW w \in Workers, CallFails(w)
      PROVE  CommittedDone'
  BY <1>5 DEF CallFails
<1>6. ASSUME NEW w \in Workers, AuthorizeAmbiguous(w)
      PROVE  CommittedDone'
  BY <1>6 DEF AuthorizeAmbiguous
<1>7. ASSUME NEW w \in Workers, EmitAmbiguous(w)
      PROVE  CommittedDone'
  BY <1>7 DEF EmitAmbiguous
<1>8. ASSUME NEW w \in Workers, PublishAmbiguous(w)
      PROVE  CommittedDone'
  BY <1>8 DEF PublishAmbiguous
<1>9. CASE UNCHANGED committed
  BY <1>9
<1> QED
  BY <1>1, <1>2, <1>3, <1>4, <1>5, <1>6, <1>7, <1>8, <1>9
     DEF groupVars, Next, Delivery, Process, Failure, vars, Assign, Fetch,
         NoticeRebalance, Deliver, Skip, Ack, Resolve, Load, Authorize,
         Generate, PersistSuccess, PersistSuccessFails, Settle,
         RollbackDuplicate, RollbackDuplicateFails, Emit, Publish, Crash,
         LoseOwnership, Expire

-----------------------------------------------------------------------------

OrchestratorInv ==
    Shape /\ PublishesStored /\ PublishedWasStored /\ AckedDone /\ CommittedDone

\* The invariant holds in the initial states ...
LEMMA InitInv == Init => OrchestratorInv
  BY InitShape, Constants
     DEF Init, OrchestratorInv, PublishesStored, PublishedWasStored, AckedDone,
         CommittedDone

\* ... and every step of the instances, the group and the failures keeps it.
LEMMA NextInv == OrchestratorInv /\ [Next]_vars => OrchestratorInv'
  BY NextShape, PublishesStep, PublishedStep, AckedStep, CommittedStep
     DEF OrchestratorInv

\* The inductive invariant: types, what instances are about to publish or have
\* acknowledged, and what is published and committed.
THEOREM InvHolds == Spec => []OrchestratorInv
  BY InitInv, NextInv, PTL DEF Spec

\* The variables keep their types: an instance never runs past its batch, and
\* the group never commits past the end of the partition.
THEOREM TypeCorrect == Spec => []TypeOK
  BY InvHolds, PTL DEF OrchestratorInv, Shape

\* However instances race, fail, crash and lose the partition, what is published
\* for a request is what brief_results holds or held for it.
THEOREM PublishesWhatIsStored == Spec => []PublishedWasStored
  BY InvHolds, PTL DEF OrchestratorInv

\* No request is committed, and so given up for good, before its result is out.
THEOREM CommitsWhatIsAnswered == Spec => []CommittedAnswered
<1>1. OrchestratorInv => CommittedAnswered
  BY Constants
     DEF OrchestratorInv, Shape, TypeOK, GroupTypeOK, CommittedDone, Done,
         CommittedAnswered
<1> QED
  BY InvHolds, <1>1, PTL

-----------------------------------------------------------------------------
(* The refinement: as long as no result is deleted, every step of the      *)
(* instances, the group and the failures decides, publishes and retires as *)
(* BriefPromise says, or does nothing of the kind.                         *)

NothingExpired == \A r \in Requests : expired[r] = {}

\* The owner of the partition never commits backwards.
OwnerAhead == \A w \in Workers : owner = w => committed < next[w]

RefinementInv == OrchestratorInv /\ NothingExpired /\ OwnerAhead

\* Without the retention job nothing leaves brief_results.
LEMMA ExpiredStep ==
  ASSUME ~Retention, NothingExpired, [Next]_vars
  PROVE  NothingExpired'
<1> USE DEF NothingExpired
<1>1. ASSUME NEW r \in Requests, Expire(r)
      PROVE  NothingExpired'
  BY <1>1 DEF Expire
<1>2. CASE UNCHANGED expired
  BY <1>2
<1> QED
  BY <1>1, <1>2
     DEF resultVars, Next, Delivery, Process, Failure, vars, Assign, Fetch, Commit,
         NoticeRebalance, Deliver, Skip, Ack, Resolve, Load, Authorize,
         Generate, PersistSuccess, PersistSuccessFails, Settle,
         RollbackDuplicate, RollbackDuplicateFails, Rollback, RollbackFails,
         Reload, Emit, Publish, CallFails, AuthorizeAmbiguous, EmitAmbiguous,
         PublishAmbiguous, Crash, LoseOwnership

\* An instance becomes the owner at the committed offset, and only the owner
\* commits.
LEMMA OwnerStep ==
  ASSUME Shape, OwnerAhead, [Next]_vars
  PROVE  OwnerAhead'
<1> USE Constants, Busy DEF Shape, TypeOK, GroupTypeOK, OwnerAhead, Throw, EndSession
<1>1. ASSUME NEW w \in Workers, Assign(w)
      PROVE  OwnerAhead'
  BY <1>1 DEF Assign
<1>2. CASE LoseOwnership
  BY <1>2 DEF LoseOwnership
<1>3. ASSUME NEW w \in Workers, Fetch(w)
      PROVE  OwnerAhead'
  BY <1>3 DEF Fetch
<1>4. ASSUME NEW w \in Workers, Commit(w)
      PROVE  OwnerAhead'
  BY <1>4 DEF Commit
<1>5. ASSUME NEW w \in Workers, NoticeRebalance(w)
      PROVE  OwnerAhead'
  BY <1>5 DEF NoticeRebalance
<1>6. ASSUME NEW w \in Workers, Skip(w)
      PROVE  OwnerAhead'
  BY <1>6 DEF Skip
<1>7. ASSUME NEW w \in Workers, Ack(w)
      PROVE  OwnerAhead'
  BY <1>7 DEF Ack, groupVars
<1>8. ASSUME NEW w \in Workers, Crash(w)
      PROVE  OwnerAhead'
  BY <1>8 DEF Crash
<1>9. ASSUME NEW w \in Workers, Rollback(w)
      PROVE  OwnerAhead'
  BY <1>9 DEF Rollback, groupVars
<1>10. ASSUME NEW w \in Workers, RollbackFails(w)
      PROVE  OwnerAhead'
  BY <1>10 DEF RollbackFails
<1>11. ASSUME NEW w \in Workers, Reload(w)
      PROVE  OwnerAhead'
  BY <1>11 DEF Reload, groupVars
<1>12. ASSUME NEW w \in Workers, CallFails(w)
      PROVE  OwnerAhead'
  BY <1>12 DEF CallFails
<1>13. ASSUME NEW w \in Workers, AuthorizeAmbiguous(w)
      PROVE  OwnerAhead'
  BY <1>13 DEF AuthorizeAmbiguous
<1>14. ASSUME NEW w \in Workers, EmitAmbiguous(w)
      PROVE  OwnerAhead'
  BY <1>14 DEF EmitAmbiguous
<1>15. ASSUME NEW w \in Workers, PublishAmbiguous(w)
      PROVE  OwnerAhead'
  BY <1>15 DEF PublishAmbiguous
<1>16. CASE UNCHANGED groupVars
  BY <1>16 DEF groupVars
<1> QED
  BY <1>1, <1>2, <1>3, <1>4, <1>5, <1>6, <1>7, <1>8, <1>9, <1>10, <1>11, <1>12,
     <1>13, <1>14, <1>15, <1>16
     DEF Next, Delivery, Process, Failure, vars, Deliver, Resolve, Load,
         Authorize, Generate, PersistSuccess, PersistSuccessFails, Settle,
         RollbackDuplicate, RollbackDuplicateFails, Emit, Publish, Expire

-----------------------------------------------------------------------------
(* The three kinds of progress *)

\* A result is inserted only where there is none.
LEMMA DecidesOnce ==
  ASSUME Shape, ~Retention, NEW x \in Requests, [Next]_vars
  PROVE  Promise!Decide(x)
<1> USE Constants, Busy
    DEF Shape, TypeOK, ResultTypeOK, JobShape, Insert, Promise!Decide
<1>1. ASSUME NEW w \in Workers, PersistSuccess(w)
      PROVE  Promise!Decide(x)
  BY <1>1 DEF PersistSuccess
<1>2. ASSUME NEW w \in Workers, PersistSuccessFails(w)
      PROVE  Promise!Decide(x)
  BY <1>2 DEF PersistSuccessFails
<1>3. ASSUME NEW w \in Workers, Emit(w)
      PROVE  Promise!Decide(x)
  BY <1>3 DEF Emit
<1>4. ASSUME NEW w \in Workers, EmitAmbiguous(w)
      PROVE  Promise!Decide(x)
  BY <1>4 DEF EmitAmbiguous
<1>5. ASSUME NEW r \in Requests, Expire(r)
      PROVE  Promise!Decide(x)
  BY <1>5 DEF Expire
<1>6. CASE UNCHANGED stored
  BY <1>6
<1> QED
  BY <1>1, <1>2, <1>3, <1>4, <1>5, <1>6
     DEF resultVars, Next, Delivery, Process, Failure, vars, Assign, Fetch, Commit,
         NoticeRebalance, Deliver, Skip, Ack, Resolve, Load, Authorize,
         Generate, Settle, RollbackDuplicate, RollbackDuplicateFails, Rollback,
         RollbackFails, Reload, Publish, CallFails, AuthorizeAmbiguous,
         PublishAmbiguous, Crash, LoseOwnership

\* What is published is the stored result.
LEMMA TellsDecision ==
  ASSUME Shape, PublishesStored, NothingExpired, NEW x \in Requests, [Next]_vars
  PROVE  Promise!Tell(x)
<1> USE Constants, Busy
    DEF Shape, TypeOK, ResultTypeOK, JobShape, PublishesStored, NothingExpired, Record,
        Promise!Tell
<1>1. ASSUME NEW w \in Workers, Publish(w)
      PROVE  Promise!Tell(x)
  BY <1>1 DEF Publish
<1>2. ASSUME NEW w \in Workers, PublishAmbiguous(w)
      PROVE  Promise!Tell(x)
  BY <1>2 DEF PublishAmbiguous
<1>3. CASE UNCHANGED published
  BY <1>3
<1> QED
  BY <1>1, <1>2, <1>3
     DEF resultVars, Next, Delivery, Process, Failure, vars, Assign, Fetch, Commit,
         NoticeRebalance, Deliver, Skip, Ack, Resolve, Load, Authorize,
         Generate, PersistSuccess, PersistSuccessFails, Settle,
         RollbackDuplicate, RollbackDuplicateFails, Rollback, RollbackFails,
         Reload, Emit, CallFails, AuthorizeAmbiguous, EmitAmbiguous, Crash,
         LoseOwnership, Expire

\* An instance that fails commits what it acknowledged, or nothing.
LEMMA ThrowRetires ==
  ASSUME Shape, AckedDone, OwnerAhead, NEW w \in Workers, Throw(w)
  PROVE  Promise!Retire
  BY Constants
     DEF Shape, TypeOK, GroupTypeOK, AckedDone, OwnerAhead, Throw, Promise!Retire,
         Done, Answered

\* What is committed was answered before.
LEMMA RetiresAnswered ==
  ASSUME Shape, AckedDone, OwnerAhead, [Next]_vars
  PROVE  Promise!Retire
<1> USE DEF Promise!Retire
<1>1. ASSUME NEW w \in Workers, Commit(w)
      PROVE  Promise!Retire
  <2>1. committed' \in committed + 1 .. Len(Log)
    BY <1>1, Constants DEF Commit, Shape, TypeOK, GroupTypeOK
  <2>2. \A o \in 1 .. committed' : o \in Done
    BY <1>1 DEF Commit, AckedDone
  <2> QED
    BY <2>1, <2>2 DEF Done, Answered
<1>2. ASSUME NEW w \in Workers, Rollback(w)
      PROVE  Promise!Retire
  BY <1>2, ThrowRetires DEF Rollback, groupVars
<1>3. ASSUME NEW w \in Workers, RollbackFails(w)
      PROVE  Promise!Retire
  BY <1>3, ThrowRetires DEF RollbackFails
<1>4. ASSUME NEW w \in Workers, Reload(w)
      PROVE  Promise!Retire
  BY <1>4, ThrowRetires DEF Reload, groupVars
<1>5. ASSUME NEW w \in Workers, CallFails(w)
      PROVE  Promise!Retire
  BY <1>5, ThrowRetires DEF CallFails
<1>6. ASSUME NEW w \in Workers, AuthorizeAmbiguous(w)
      PROVE  Promise!Retire
  BY <1>6, ThrowRetires DEF AuthorizeAmbiguous
<1>7. ASSUME NEW w \in Workers, EmitAmbiguous(w)
      PROVE  Promise!Retire
  BY <1>7, ThrowRetires DEF EmitAmbiguous
<1>8. ASSUME NEW w \in Workers, PublishAmbiguous(w)
      PROVE  Promise!Retire
  BY <1>8, ThrowRetires DEF PublishAmbiguous
<1>9. CASE UNCHANGED committed
  BY <1>9
<1> QED
  BY <1>1, <1>2, <1>3, <1>4, <1>5, <1>6, <1>7, <1>8, <1>9
     DEF groupVars, Next, Delivery, Process, Failure, vars, Assign, Fetch,
         NoticeRebalance, Deliver, Skip, Ack, Resolve, Load, Authorize,
         Generate, PersistSuccess, PersistSuccessFails, Settle,
         RollbackDuplicate, RollbackDuplicateFails, Emit, Publish, Crash,
         LoseOwnership, Expire

-----------------------------------------------------------------------------

\* Initial states map to initial states of the promise.
LEMMA InitRefinement == Init => RefinementInv /\ Promise!Init
  BY InitInv, Constants DEF Init, RefinementInv, NothingExpired, OwnerAhead, Promise!Init

\* The invariant the mapping needs is inductive.
LEMMA NextRefinementInv ==
  ASSUME ~Retention
  PROVE  RefinementInv /\ [Next]_vars => RefinementInv'
  BY NextInv, ExpiredStep, OwnerStep DEF RefinementInv, OrchestratorInv

\* Every step is a step of the promise.
LEMMA StepRefinement ==
  ASSUME ~Retention
  PROVE  RefinementInv /\ [Next]_vars => [Promise!Next]_(Promise!vars)
<1> SUFFICES ASSUME RefinementInv, [Next]_vars
             PROVE  Promise!Next
  OBVIOUS
<1>1. Shape /\ Shape' /\ PublishesStored /\ AckedDone /\ NothingExpired /\ OwnerAhead
  BY NextShape DEF RefinementInv, OrchestratorInv
<1>2. DOMAIN stored' = Requests /\ DOMAIN published' = Requests
  BY <1>1 DEF Shape, TypeOK, ResultTypeOK
<1>3. ASSUME NEW r \in Requests
      PROVE  Promise!Decide(r) /\ Promise!Tell(r)
  BY <1>1, DecidesOnce, TellsDecision
<1>4. Promise!Retire
  BY <1>1, RetiresAnswered
<1> QED
  BY <1>2, <1>3, <1>4 DEF Promise!Next

\* Two instances and their retries act, for whoever publishes requests and reads
\* results, as one that decides each request once and commits in order.
THEOREM ImplementsPromise == ASSUME ~Retention PROVE Spec => KeepsPromise
<1>1. Init => RefinementInv /\ Promise!Init
  BY InitRefinement
<1>2. RefinementInv /\ [Next]_vars => RefinementInv'
  BY NextRefinementInv
<1>3. RefinementInv /\ [Next]_vars => [Promise!Next]_(Promise!vars)
  BY StepRefinement
<1> QED
  BY <1>1, <1>2, <1>3, PTL DEF Spec, KeepsPromise, Promise!Spec

-----------------------------------------------------------------------------
(* The budget: every reservation that stands is accounted for, and a stored *)
(* success keeps exactly one as long as persist and rollback do not report  *)
(* errors for work they did.                                                *)

Running(w) == pc[w] # "idle"

\* An attempt of w that has not asked for its reservation yet.
Undecided(w) == pc[w] \in {"resolve", "load", "authorize"}

\* The success of attempt a is on record.
Succeeded(a) == \E r \in Requests : \E p \in SuccessesOf(r) : p.by = a

\* The proviso of SuccessChargedOnce.
Unambiguous == Ambiguous \cap {"persist", "rollback"} = {}

-----------------------------------------------------------------------------
(* The inductive invariant *)

\* No attempt is run twice, and its number was drawn from the counter.
OneEach ==
    /\ \A w \in Workers : Running(w) => attempt[w] <= attempts
    /\ \A v, w \in Workers :
          Running(v) /\ Running(w) /\ attempt[v] = attempt[w] => v = w

\* An instance about to write writes the result of its own attempt.
OwnResults ==
    \A w \in Workers :
        /\ pc[w] = "persist" => payload[w] = Result(w, "success")
        /\ pc[w] = "emit" => payload[w].status # "success"

\* A reservation is taken once, by the attempt that runs.
ChargedAtMostOnce ==
    /\ \A a \in Attempt : charge[a] <= 1
    /\ \A a \in Attempt : a > attempts => charge[a] = 0
    /\ \A w \in Workers : Undecided(w) => charge[attempt[w]] = 0

\* An attempt holds one reservation until it is decided, and then has it or has
\* given it back; its success is on record only after that.
ChargedExactly ==
    /\ \A a \in Attempt : charge[a] >= 0
    /\ \A a \in Attempt : Succeeded(a) => charge[a] = 1 /\ a <= attempts
    /\ \A w \in Workers : Holding(w) => charge[attempt[w]] = 1
    /\ \A w \in Workers : Undecided(w) \/ Holding(w) => ~Succeeded(attempt[w])

BudgetInv ==
    /\ Shape
    /\ OneEach
    /\ OwnResults
    /\ ChargedAtMostOnce
    /\ ReservationsAccounted
    /\ Unambiguous => ChargedExactly

-----------------------------------------------------------------------------
(* What a step does to the budget: one of the moves below, by one instance *)

Others(w) ==
    \A v \in Workers \ {w} : pc'[v] = pc[v] /\ attempt'[v] = attempt[v]

\* The attempt of w goes on, or is over.
GoesOn(w) == pc[w] # "idle" /\ pc'[w] # "idle" /\ attempt'[w] = attempt[w]
Ends(w) == pc'[w] = "idle"

SameSuccesses == \A a \in Attempt : Succeeded(a)' <=> Succeeded(a)
NewSuccess(b) == \A a \in Attempt : Succeeded(a)' <=> Succeeded(a) \/ a = b

\* Nothing of an attempt or of the budget changes.
Stays ==
    /\ UNCHANGED <<pc, attempt, charge, lost, attempts>>
    /\ SameSuccesses

Begins(w) ==
    /\ Others(w)
    /\ pc[w] = "idle" /\ Undecided(w)' /\ ~Holding(w)'
    /\ attempts < MaxAttempts
    /\ attempts' = attempts + 1 /\ attempt'[w] = attempts + 1
    /\ UNCHANGED <<charge, lost>>
    /\ SameSuccesses

\* A step of an attempt that holds no reservation, before or after it.
Passes(w) ==
    /\ Others(w)
    /\ ~Holding(w) /\ ~Holding(w)'
    /\ Ends(w) \/ GoesOn(w)
    /\ Undecided(w)' => Undecided(w)
    /\ UNCHANGED <<charge, lost, attempts>>
    /\ SameSuccesses

Reserves(w) ==
    /\ Others(w)
    /\ Undecided(w) /\ ~Undecided(w)'
    /\ charge' = [charge EXCEPT ![attempt[w]] = @ + 1]
    /\ \/ GoesOn(w) /\ Holding(w)' /\ lost' = lost
       \/ Ends(w) /\ ~Holding(w)' /\ lost' = lost \cup {attempt[w]}
    /\ UNCHANGED attempts
    /\ SameSuccesses

Keeps(w) ==
    /\ Others(w)
    /\ GoesOn(w) /\ Holding(w) /\ Holding(w)' /\ ~Undecided(w)'
    /\ UNCHANGED <<charge, lost, attempts>>
    /\ \/ SameSuccesses
       \/ "persist" \in Ambiguous /\ NewSuccess(attempt[w])

Stores(w) ==
    /\ Others(w)
    /\ GoesOn(w) /\ Holding(w) /\ ~Holding(w)' /\ ~Undecided(w)'
    /\ UNCHANGED <<charge, lost, attempts>>
    /\ NewSuccess(attempt[w])

GivesBack(w) ==
    /\ Others(w)
    /\ Ends(w) \/ GoesOn(w)
    /\ Holding(w) /\ ~Undecided(w)'
    /\ Holding(w)' => "rollback" \in Ambiguous
    /\ ReleaseCharge(w)
    /\ UNCHANGED <<lost, attempts>>
    /\ SameSuccesses

Loses(w) ==
    /\ Others(w)
    /\ Ends(w) /\ Holding(w) /\ ~Holding(w)' /\ ~Undecided(w)'
    /\ LoseCharge(w)
    /\ UNCHANGED <<charge, attempts>>
    /\ SameSuccesses

Moves(w) ==
    \/ Begins(w) \/ Passes(w) \/ Reserves(w) \/ Keeps(w) \/ Stores(w)
    \/ GivesBack(w) \/ Loses(w)

-----------------------------------------------------------------------------
(* Successes on record *)

\* Successes are payloads, and so belong to an attempt.
LEMMA SuccessIsPayload ==
  ASSUME Shape, NEW r \in Requests, NEW p \in SuccessesOf(r)
  PROVE  p \in Payload /\ p.by \in Attempt
  BY DEF Shape, TypeOK, ResultTypeOK, SuccessesOf, Payload

\* As long as the tables stay, so do the successes.
LEMMA KeptSuccesses ==
  ASSUME UNCHANGED <<stored, expired>>
  PROVE  SameSuccesses
  BY DEF SameSuccesses, Succeeded, SuccessesOf

\* An INSERT adds the success it writes, if it writes one.
LEMMA InsertedSuccess ==
  ASSUME Shape, NEW x \in Requests, NEW p \in Payload,
         stored[x] = None, Insert(x, p), expired' = expired
  PROVE  \A a \in Attempt :
            Succeeded(a)' <=> Succeeded(a) \/ (p.status = "success" /\ a = p.by)
<1>1. \A r \in Requests : stored'[r] = IF r = x THEN p ELSE stored[r]
  BY DEF Insert, Shape, TypeOK, ResultTypeOK
<1>2. p # None
  BY Constants
<1>3. \A r \in Requests :
         SuccessesOf(r)' =
           IF r = x /\ p.status = "success" THEN SuccessesOf(r) \cup {p}
                                            ELSE SuccessesOf(r)
  BY <1>1, <1>2 DEF SuccessesOf
<1> QED
  BY <1>3 DEF Succeeded

\* Deletion by the retention job moves a success to what it deleted.
LEMMA ExpiredSuccess ==
  ASSUME Shape, NEW x \in Requests, Expire(x)
  PROVE  SameSuccesses
<1>1. \A r \in Requests : stored'[r] = IF r = x THEN None ELSE stored[r]
  BY DEF Expire, Shape, TypeOK, ResultTypeOK
<1>2. \A r \in Requests : expired'[r] = IF r = x THEN {stored[x]} ELSE expired[r]
  BY DEF Expire, Shape, TypeOK, ResultTypeOK
<1>3. expired[x] = {}
  BY DEF Expire
<1>4. \A r \in Requests : SuccessesOf(r)' = SuccessesOf(r)
  BY <1>1, <1>2, <1>3 DEF SuccessesOf
<1> QED
  BY <1>4 DEF SameSuccesses, Succeeded

\* An instance is about to write only what its own attempt produced.
LEMMA OwnResultsStep ==
  ASSUME Shape, OwnResults, [Next]_vars
  PROVE  OwnResults'
<1> USE Constants, Busy
    DEF Shape, TypeOK, JobTypeOK, OwnResults, Result, Goto, Prepare,
        Finish, EndSession, Throw, jobVars
<1>1. ASSUME NEW w \in Workers, Deliver(w)
      PROVE  OwnResults'
  BY <1>1 DEF Deliver
<1>2. ASSUME NEW w \in Workers, Ack(w)
      PROVE  OwnResults'
  BY <1>2 DEF Ack
<1>3. ASSUME NEW w \in Workers, Resolve(w)
      PROVE  OwnResults'
  BY <1>3 DEF Resolve
<1>4. ASSUME NEW w \in Workers, Load(w)
      PROVE  OwnResults'
  BY <1>4 DEF Load
<1>5. ASSUME NEW w \in Workers, Authorize(w)
      PROVE  OwnResults'
  BY <1>5 DEF Authorize
<1>6. ASSUME NEW w \in Workers, Generate(w)
      PROVE  OwnResults'
  BY <1>6 DEF Generate
<1>7. ASSUME NEW w \in Workers, PersistSuccess(w)
      PROVE  OwnResults'
  BY <1>7 DEF PersistSuccess
<1>8. ASSUME NEW w \in Workers, PersistSuccessFails(w)
      PROVE  OwnResults'
  BY <1>8 DEF PersistSuccessFails
<1>9. ASSUME NEW w \in Workers, Settle(w)
      PROVE  OwnResults'
  BY <1>9 DEF Settle
<1>10. ASSUME NEW w \in Workers, RollbackDuplicate(w)
      PROVE  OwnResults'
  BY <1>10 DEF RollbackDuplicate
<1>11. ASSUME NEW w \in Workers, RollbackDuplicateFails(w)
      PROVE  OwnResults'
  BY <1>11 DEF RollbackDuplicateFails
<1>12. ASSUME NEW w \in Workers, Rollback(w)
      PROVE  OwnResults'
  BY <1>12 DEF Rollback, JobShape, Cause
<1>13. ASSUME NEW w \in Workers, RollbackFails(w)
      PROVE  OwnResults'
  BY <1>13 DEF RollbackFails
<1>14. ASSUME NEW w \in Workers, Reload(w)
      PROVE  OwnResults'
  BY <1>14 DEF Reload
<1>15. ASSUME NEW w \in Workers, Emit(w)
      PROVE  OwnResults'
  BY <1>15 DEF Emit
<1>16. ASSUME NEW w \in Workers, Publish(w)
      PROVE  OwnResults'
  BY <1>16 DEF Publish
<1>17. ASSUME NEW w \in Workers, CallFails(w)
      PROVE  OwnResults'
  BY <1>17 DEF CallFails
<1>18. ASSUME NEW w \in Workers, AuthorizeAmbiguous(w)
      PROVE  OwnResults'
  BY <1>18 DEF AuthorizeAmbiguous
<1>19. ASSUME NEW w \in Workers, EmitAmbiguous(w)
      PROVE  OwnResults'
  BY <1>19 DEF EmitAmbiguous
<1>20. ASSUME NEW w \in Workers, PublishAmbiguous(w)
      PROVE  OwnResults'
  BY <1>20 DEF PublishAmbiguous
<1>21. ASSUME NEW w \in Workers, Crash(w)
      PROVE  OwnResults'
  BY <1>21 DEF Crash
<1>22. CASE UNCHANGED jobVars
  BY <1>22 DEF jobVars
<1> QED
  BY <1>1, <1>2, <1>3, <1>4, <1>5, <1>6, <1>7, <1>8, <1>9, <1>10, <1>11, <1>12,
     <1>13, <1>14, <1>15, <1>16, <1>17, <1>18, <1>19, <1>20, <1>21, <1>22
     DEF Next, Delivery, Process, Failure, vars, Assign, Fetch, Commit,
         NoticeRebalance, Skip, LoseOwnership, Expire

\* Every step of the system is one of these moves.
LEMMA StepMoves ==
  ASSUME Shape, OwnResults, [Next]_vars
  PROVE  Stays \/ \E w \in Workers : Moves(w)
<1> USE Busy, KeptSuccesses
    DEF Others, GoesOn, Ends, Holding, Undecided, Goto, Finish, EndSession, Throw,
        Shape, TypeOK, JobTypeOK, groupVars, jobVars, resultVars, budgetVars, boundVars
<1>1. ASSUME NEW w \in Workers, Assign(w)
      PROVE  Stays
  BY <1>1 DEF Assign, Stays
<1>2. ASSUME NEW w \in Workers, Fetch(w)
      PROVE  Stays
  BY <1>2 DEF Fetch, Stays
<1>3. ASSUME NEW w \in Workers, Commit(w)
      PROVE  Stays
  BY <1>3 DEF Commit, Stays
<1>4. ASSUME NEW w \in Workers, NoticeRebalance(w)
      PROVE  Stays
  BY <1>4 DEF NoticeRebalance, Stays
<1>5. ASSUME NEW w \in Workers, Skip(w)
      PROVE  Stays
  BY <1>5 DEF Skip, Stays
<1>6. ASSUME NEW w \in Workers, Deliver(w)
      PROVE  Begins(w)
  BY <1>6 DEF Deliver, Begins
<1>7. ASSUME NEW w \in Workers, Ack(w)
      PROVE  Passes(w)
  BY <1>7 DEF Ack, Passes
<1>8. ASSUME NEW w \in Workers, Resolve(w)
      PROVE  Passes(w)
  BY <1>8 DEF Resolve, Passes
<1>9. ASSUME NEW w \in Workers, Load(w)
      PROVE  Passes(w)
  BY <1>9 DEF Load, Passes
<1>10. ASSUME NEW w \in Workers, Authorize(w)
      PROVE  Moves(w)
  BY <1>10 DEF Authorize, Moves, Reserves, Passes, Keeps, Stores, GivesBack, Loses
<1>11. ASSUME NEW w \in Workers, Generate(w)
      PROVE  Keeps(w)
  BY <1>11 DEF Generate, Keeps
<1>12. ASSUME NEW w \in Workers, PersistSuccess(w)
      PROVE  Moves(w)
  <2>1. CASE stored[Request(w)] = None
    <3>1. payload[w] = Result(w, "success") /\ payload[w] \in Payload
      BY <1>12 DEF PersistSuccess, OwnResults, JobShape
    <3>2. NewSuccess(attempt[w])
      BY <1>12, <2>1, <3>1, InsertedSuccess DEF PersistSuccess, NewSuccess, Result
    <3> QED
      BY <1>12, <2>1, <3>2 DEF PersistSuccess, Stores, Moves
  <2>2. CASE stored[Request(w)] # None
    BY <1>12, <2>2 DEF PersistSuccess, Keeps, Moves
  <2> QED
    BY <2>1, <2>2
<1>13. ASSUME NEW w \in Workers, PersistSuccessFails(w)
      PROVE  Keeps(w)
  <2>1. payload[w] = Result(w, "success") /\ payload[w] \in Payload
    BY <1>13 DEF PersistSuccessFails, OwnResults, JobShape
  <2>2. \/ SameSuccesses
        \/ "persist" \in Ambiguous /\ NewSuccess(attempt[w])
    <3>1. CASE UNCHANGED stored
      BY <1>13, <3>1 DEF PersistSuccessFails
    <3>2. CASE /\ "persist" \in Ambiguous
               /\ stored[Request(w)] = None
               /\ Insert(Request(w), payload[w])
      <4>1. NewSuccess(attempt[w])
        <5>1. expired' = expired
          BY <1>13 DEF PersistSuccessFails
        <5>2. Request(w) \in Requests
          BY <1>13 DEF PersistSuccessFails
        <5>3. \A a \in Attempt : Succeeded(a)' <=>
                 Succeeded(a) \/ (payload[w].status = "success" /\ a = payload[w].by)
          BY <2>1, <3>2, <5>1, <5>2, InsertedSuccess
        <5> QED
          BY <2>1, <5>3 DEF NewSuccess, Result
      <4> QED
        BY <3>2, <4>1
    <3> QED
      BY <1>13, <3>1, <3>2 DEF PersistSuccessFails
  <2> QED
    BY <1>13, <2>2 DEF PersistSuccessFails, Keeps
<1>14. ASSUME NEW w \in Workers, Settle(w)
      PROVE  Passes(w)
  BY <1>14 DEF Settle, Passes
<1>15. ASSUME NEW w \in Workers, RollbackDuplicate(w)
      PROVE  GivesBack(w)
  BY <1>15 DEF RollbackDuplicate, GivesBack
<1>16. ASSUME NEW w \in Workers, RollbackDuplicateFails(w)
      PROVE  Moves(w)
  BY <1>16 DEF RollbackDuplicateFails, Moves, Reserves, Passes, Keeps, Stores,
     GivesBack, Loses
<1>17. ASSUME NEW w \in Workers, Rollback(w)
      PROVE  GivesBack(w)
  BY <1>17 DEF Rollback, GivesBack
<1>18. ASSUME NEW w \in Workers, RollbackFails(w)
      PROVE  Moves(w)
  BY <1>18 DEF RollbackFails, Moves, Reserves, Passes, Keeps, Stores, GivesBack, Loses
<1>19. ASSUME NEW w \in Workers, Reload(w)
      PROVE  Passes(w)
  BY <1>19 DEF Reload, Passes
<1>20. ASSUME NEW w \in Workers, Emit(w)
      PROVE  Passes(w)
  <2>1. SameSuccesses
    <3>1. payload[w] \in Payload /\ payload[w].status # "success"
      BY <1>20 DEF Emit, OwnResults, JobShape
    <3>2. CASE UNCHANGED stored
      BY <1>20, <3>2 DEF Emit
    <3>3. CASE Insert(Request(w), payload[w]) /\ stored[Request(w)] = None
      BY <1>20, <3>1, <3>3, InsertedSuccess DEF Emit, SameSuccesses
    <3> QED
      BY <1>20, <3>2, <3>3 DEF Emit
  <2> QED
    BY <1>20, <2>1 DEF Emit, Passes
<1>21. ASSUME NEW w \in Workers, Publish(w)
      PROVE  Passes(w)
  BY <1>21 DEF Publish, Passes
<1>22. ASSUME NEW w \in Workers, CallFails(w)
      PROVE  Passes(w)
  BY <1>22 DEF CallFails, Passes
<1>23. ASSUME NEW w \in Workers, AuthorizeAmbiguous(w)
      PROVE  Reserves(w)
  BY <1>23 DEF AuthorizeAmbiguous, Reserves, LoseCharge
<1>24. ASSUME NEW w \in Workers, EmitAmbiguous(w)
      PROVE  Passes(w)
  <2>1. SameSuccesses
    <3>1. payload[w] \in Payload /\ payload[w].status # "success"
      BY <1>24 DEF EmitAmbiguous, OwnResults, JobShape
    <3>2. CASE UNCHANGED stored
      BY <1>24, <3>2 DEF EmitAmbiguous
    <3>3. CASE Insert(Request(w), payload[w]) /\ stored[Request(w)] = None
      BY <1>24, <3>1, <3>3, InsertedSuccess DEF EmitAmbiguous, SameSuccesses
    <3> QED
      BY <1>24, <3>2, <3>3 DEF EmitAmbiguous
  <2> QED
    BY <1>24, <2>1 DEF EmitAmbiguous, Passes
<1>25. ASSUME NEW w \in Workers, PublishAmbiguous(w)
      PROVE  Passes(w)
  BY <1>25 DEF PublishAmbiguous, Passes
<1>26. ASSUME NEW w \in Workers, Crash(w)
      PROVE  Moves(w)
  BY <1>26 DEF Crash, Moves, Reserves, Passes, Keeps, Stores, GivesBack, Loses
<1>27. CASE LoseOwnership
  BY <1>27 DEF LoseOwnership, Stays
<1>28. ASSUME NEW r \in Requests, Expire(r)
      PROVE  Stays
  BY <1>28, ExpiredSuccess DEF Expire, Stays
<1>29. CASE UNCHANGED vars
  BY <1>29 DEF vars, Stays
<1> QED
  BY <1>1, <1>2, <1>3, <1>4, <1>5, <1>6, <1>7, <1>8, <1>9, <1>10, <1>11, <1>12,
     <1>13, <1>14, <1>15, <1>16, <1>17, <1>18, <1>19, <1>20, <1>21, <1>22, <1>23,
     <1>24, <1>25, <1>26, <1>27, <1>28, <1>29
     DEF Next, Delivery, Process, Failure, Moves

-----------------------------------------------------------------------------
(* The moves keep the invariant *)

\* A new attempt has a new number.
LEMMA OneEachStep ==
  ASSUME Shape, OneEach, Stays \/ \E w \in Workers : Moves(w)
  PROVE  OneEach'
<1> USE Busy DEF OneEach, Running, Shape, TypeOK, BudgetTypeOK, Attempt
<1>1. CASE Stays
  BY <1>1 DEF Stays
<1>2. ASSUME NEW w \in Workers, Begins(w)
      PROVE  OneEach'
  BY <1>2 DEF Begins, Others
<1>3. ASSUME NEW w \in Workers, Others(w), Ends(w) \/ GoesOn(w), attempts' = attempts
      PROVE  OneEach'
  BY <1>3 DEF Others, Ends, GoesOn
<1> QED
  BY <1>1, <1>2, <1>3 DEF Moves, Passes, Reserves, Keeps, Stores, GivesBack, Loses

\* Only Reserves adds to a charge, that of an attempt that has none.
LEMMA ChargedAtMostOnceStep ==
  ASSUME Shape, OneEach, ChargedAtMostOnce, Stays \/ \E w \in Workers : Moves(w)
  PROVE  ChargedAtMostOnce'
<1> USE Constants, Busy
    DEF ChargedAtMostOnce, OneEach, Running, Undecided, Shape, TypeOK, BudgetTypeOK,
        Attempt
<1>1. CASE Stays
  BY <1>1 DEF Stays
<1>2. ASSUME NEW w \in Workers, Begins(w)
      PROVE  ChargedAtMostOnce'
  <2>1. attempts + 1 \in Attempt /\ charge[attempts + 1] = 0
    BY <1>2 DEF Begins
  <2>2. \A v \in Workers \ {w} : Undecided(v)' => Undecided(v) /\ attempt'[v] = attempt[v]
    BY <1>2 DEF Begins, Others
  <2>3. \A v \in Workers : Undecided(v)' => charge[attempt'[v]] = 0
    BY <1>2, <2>1, <2>2 DEF Begins
  <2> QED
    BY <1>2, <2>3 DEF Begins
<1>3. ASSUME NEW w \in Workers, Others(w), Ends(w) \/ GoesOn(w),
             Undecided(w)' => Undecided(w), UNCHANGED <<charge, attempts>>
      PROVE  ChargedAtMostOnce'
  <2>1. \A v \in Workers : Undecided(v)' => Undecided(v) /\ attempt'[v] = attempt[v]
    BY <1>3 DEF Others, Ends, GoesOn
  <2> QED
    BY <1>3, <2>1
<1>4. ASSUME NEW w \in Workers, Reserves(w)
      PROVE  ChargedAtMostOnce'
  <2>1. attempt[w] \in Attempt
    BY <1>4 DEF Reserves, Holding
  <2>2. \A a \in Attempt : charge'[a] = IF a = attempt[w] THEN charge[a] + 1 ELSE charge[a]
    BY <1>4, <2>1 DEF Reserves
  <2>3. \A v \in Workers : Undecided(v)' => Undecided(v) /\ attempt'[v] = attempt[v] /\ v # w
    BY <1>4 DEF Reserves, Others
  <2>4. \A v \in Workers : Undecided(v)' => charge'[attempt'[v]] = 0
    <3> SUFFICES ASSUME NEW v \in Workers, Undecided(v)'
                 PROVE  charge'[attempt'[v]] = 0
      OBVIOUS
    <3>1. Undecided(v) /\ attempt'[v] = attempt[v] /\ v # w
      BY <2>3
    <3>2. attempt[v] # attempt[w] /\ attempt[v] \in Attempt
      BY <1>4, <3>1 DEF Reserves
    <3> QED
      BY <2>2, <3>1, <3>2
  <2>5. \A a \in Attempt : charge'[a] <= 1
    BY <1>4, <2>1, <2>2 DEF Reserves
  <2>6. \A a \in Attempt : a > attempts' => charge'[a] = 0
    <3>1. attempts' = attempts /\ attempt[w] <= attempts
      BY <1>4 DEF Reserves
    <3> QED
      BY <2>1, <2>2, <3>1
  <2> QED
    BY <2>4, <2>5, <2>6
<1>5. ASSUME NEW w \in Workers, GivesBack(w)
      PROVE  ChargedAtMostOnce'
  <2>1. attempt[w] \in Attempt
    BY <1>5 DEF GivesBack, Holding
  <2>2. \A a \in Attempt : charge'[a] = IF a = attempt[w] THEN charge[a] - 1 ELSE charge[a]
    BY <1>5, <2>1 DEF GivesBack, ReleaseCharge
  <2>3. \A v \in Workers : Undecided(v)' => Undecided(v) /\ attempt'[v] = attempt[v] /\ v # w
    BY <1>5 DEF GivesBack, Others
  <2>4. \A v \in Workers : Undecided(v)' => charge'[attempt'[v]] = 0
    <3> SUFFICES ASSUME NEW v \in Workers, Undecided(v)'
                 PROVE  charge'[attempt'[v]] = 0
      OBVIOUS
    <3>1. Undecided(v) /\ attempt'[v] = attempt[v] /\ v # w
      BY <2>3
    <3>2. attempt[v] # attempt[w] /\ attempt[v] \in Attempt
      BY <1>5, <3>1 DEF GivesBack, Holding
    <3> QED
      BY <2>2, <3>1, <3>2
  <2>5. \A a \in Attempt : charge'[a] <= 1
    BY <1>5, <2>1, <2>2 DEF GivesBack
  <2>6. \A a \in Attempt : a > attempts' => charge'[a] = 0
    <3>1. attempts' = attempts /\ attempt[w] <= attempts
      BY <1>5 DEF GivesBack, Holding
    <3> QED
      BY <2>1, <2>2, <3>1
  <2> QED
    BY <2>4, <2>5, <2>6
<1> QED
  BY <1>1, <1>2, <1>3, <1>4, <1>5 DEF Moves, Passes, Keeps, Stores, Loses

\* A reservation changes hands, from the attempt to the record of its success or
\* to the lost ones, or it is given back.
LEMMA AccountedStep ==
  ASSUME Shape, ChargedAtMostOnce, ReservationsAccounted,
         Stays \/ \E w \in Workers : Moves(w)
  PROVE  ReservationsAccounted'
<1> DEFINE Accounted(a) ==
      a \in lost \/ (\E w \in Workers : attempt[w] = a /\ Holding(w)) \/ Succeeded(a)
<1>1. ReservationsAccounted <=> \A a \in Attempt : charge[a] > 0 => Accounted(a)
  BY DEF ReservationsAccounted, Succeeded
<1>2. ReservationsAccounted' <=> \A a \in Attempt : charge'[a] > 0 => Accounted(a)'
  BY DEF ReservationsAccounted, Succeeded
<1>3. SUFFICES ASSUME NEW a \in Attempt, charge'[a] > 0
               PROVE  Accounted(a)'
  BY <1>2
<1>4. charge[a] > 0 => Accounted(a)
  BY <1>1
<1> HIDE <1>1, <1>2
<1> USE Busy DEF Holding, SameSuccesses, NewSuccess
<1>5. CASE Stays
  BY <1>3, <1>4, <1>5 DEF Stays
<1>6. ASSUME NEW w \in Workers, Begins(w) \/ Passes(w)
      PROVE  Accounted(a)'
  BY <1>3, <1>4, <1>6 DEF Begins, Passes, Others
<1>7. ASSUME NEW w \in Workers, Reserves(w)
      PROVE  Accounted(a)'
  BY <1>3, <1>4, <1>7
     DEF Reserves, Others, Undecided, GoesOn, Shape, TypeOK, BudgetTypeOK
<1>8. ASSUME NEW w \in Workers, Keeps(w) \/ Stores(w) \/ Loses(w)
      PROVE  Accounted(a)'
  BY <1>3, <1>4, <1>8 DEF Keeps, Stores, Loses, Others, GoesOn, LoseCharge
<1>9. ASSUME NEW w \in Workers, GivesBack(w)
      PROVE  Accounted(a)'
  <2>1. a # attempt[w]
    BY <1>3, <1>9
       DEF GivesBack, ReleaseCharge, ChargedAtMostOnce, Shape, TypeOK, BudgetTypeOK
  <2>2. charge'[a] = charge[a]
    BY <1>9, <2>1 DEF GivesBack, ReleaseCharge, Shape, TypeOK, BudgetTypeOK
  <2> QED
    BY <1>3, <1>4, <1>9, <2>1, <2>2 DEF GivesBack, Others
<1> QED
  BY <1>5, <1>6, <1>7, <1>8, <1>9 DEF Moves

\* With calls that tell the truth a success is stored by the attempt that holds
\* its reservation, and what is given back was held and is held no more.
LEMMA ChargedExactlyStep ==
  ASSUME Shape, OneEach, ChargedAtMostOnce, ChargedExactly, Unambiguous,
         Stays \/ \E w \in Workers : Moves(w)
  PROVE  ChargedExactly'
<1>0. /\ charge \in [Attempt -> Int]
      /\ attempts \in Nat
      /\ \A a \in Attempt : a \in Nat
  BY Constants DEF Shape, TypeOK, BudgetTypeOK, Attempt
<1> USE <1>0, Busy
    DEF ChargedExactly, OneEach, Running, Undecided, Holding, Others, SameSuccesses,
        NewSuccess
<1>1. CASE Stays
  BY <1>1 DEF Stays
<1>2. ASSUME NEW w \in Workers, Begins(w)
      PROVE  ChargedExactly'
  <2>1. attempts + 1 \in Attempt /\ ~Succeeded(attempts + 1)
    BY <1>2, Constants DEF Begins, Attempt
  <2>2. ASSUME NEW v \in Workers \ {w}
        PROVE  pc'[v] = pc[v] /\ attempt'[v] = attempt[v]
    BY <1>2 DEF Begins
  <2>3. \A v \in Workers : Holding(v)' => charge'[attempt'[v]] = 1
    BY <1>2, <2>2 DEF Begins
  <2>4. \A v \in Workers : Undecided(v)' \/ Holding(v)' => ~Succeeded(attempt[v])'
    BY <1>2, <2>1, <2>2 DEF Begins
  <2>5. \A a \in Attempt : charge'[a] >= 0
    BY <1>2 DEF Begins
  <2>6. \A a \in Attempt : Succeeded(a)' => charge'[a] = 1 /\ a <= attempts'
    BY <1>2 DEF Begins
  <2> QED
    BY <2>3, <2>4, <2>5, <2>6
<1>3. ASSUME NEW w \in Workers, Passes(w)
      PROVE  ChargedExactly'
  BY <1>3 DEF Passes, Ends, GoesOn
<1>4. ASSUME NEW w \in Workers, Reserves(w)
      PROVE  ChargedExactly'
  <2>1. attempt[w] \in Attempt /\ charge[attempt[w]] = 0
    BY <1>4 DEF Reserves, ChargedAtMostOnce
  <2>2. \A a \in Attempt : charge'[a] = IF a = attempt[w] THEN charge[a] + 1 ELSE charge[a]
    BY <1>4, <2>1 DEF Reserves
  <2>3. ~Succeeded(attempt[w])
    BY <1>4 DEF Reserves
  <2>4. ASSUME NEW v \in Workers, v # w, Undecided(v)' \/ Holding(v)'
        PROVE  /\ Undecided(v) \/ Holding(v)
               /\ attempt'[v] = attempt[v] /\ attempt[v] \in Attempt
               /\ attempt[v] # attempt[w]
               /\ Holding(v)' => Holding(v)
    BY <1>4, <2>4 DEF Reserves
  <2>5. \A a \in Attempt : charge'[a] >= 0
    <3> SUFFICES ASSUME NEW a \in Attempt PROVE charge'[a] >= 0
      OBVIOUS
    <3>1. CASE a = attempt[w]
      BY <2>1, <2>2, <3>1
    <3>2. CASE a # attempt[w]
      BY <2>2, <3>2
    <3> QED
      BY <3>1, <3>2
  <2>6. \A a \in Attempt : Succeeded(a)' => charge'[a] = 1 /\ a <= attempts'
    BY <1>4, <2>2, <2>3 DEF Reserves
  <2>7. \A v \in Workers : Holding(v)' => charge'[attempt'[v]] = 1
    BY <1>4, <2>1, <2>2, <2>4 DEF Reserves, GoesOn, Ends
  <2>8. \A v \in Workers : Undecided(v)' \/ Holding(v)' => ~Succeeded(attempt[v])'
    BY <1>4, <2>1, <2>3, <2>4 DEF Reserves, GoesOn, Ends
  <2> QED
    BY <2>5, <2>6, <2>7, <2>8
<1>5. ASSUME NEW w \in Workers, Keeps(w)
      PROVE  ChargedExactly'
  <2>1. \A a \in Attempt : Succeeded(a)' <=> Succeeded(a)
    BY <1>5 DEF Keeps, Unambiguous
  <2>2. \A v \in Workers : Undecided(v)' \/ Holding(v)' =>
           attempt'[v] = attempt[v] /\ (Undecided(v) \/ Holding(v))
    BY <1>5 DEF Keeps, GoesOn
  <2>3. \A v \in Workers : Holding(v)' => Holding(v)
    BY <1>5 DEF Keeps, GoesOn
  <2>4. charge' = charge /\ attempts' = attempts
    BY <1>5 DEF Keeps
  <2>5. \A v \in Workers : Undecided(v)' \/ Holding(v)' => ~Succeeded(attempt[v])'
    BY <2>1, <2>2
  <2> QED
    BY <2>1, <2>2, <2>3, <2>4, <2>5
<1>6. ASSUME NEW w \in Workers, Stores(w)
      PROVE  ChargedExactly'
  BY <1>6 DEF Stores, GoesOn
<1>7. ASSUME NEW w \in Workers, GivesBack(w)
      PROVE  ChargedExactly'
  <2>1. /\ attempt[w] \in Attempt
        /\ charge[attempt[w]] = 1
        /\ ~Succeeded(attempt[w])
    BY <1>7 DEF GivesBack
  <2>2. \A a \in Attempt : charge'[a] = IF a = attempt[w] THEN charge[a] - 1 ELSE charge[a]
    BY <1>7, <2>1 DEF GivesBack, ReleaseCharge
  <2>3. ~Undecided(w)' /\ ~Holding(w)'
    BY <1>7 DEF GivesBack, Unambiguous
  <2>4. ASSUME NEW v \in Workers, v # w, Undecided(v)' \/ Holding(v)'
        PROVE  /\ Undecided(v) \/ Holding(v)
               /\ attempt'[v] = attempt[v] /\ attempt[v] \in Attempt
               /\ attempt[v] # attempt[w]
               /\ Holding(v)' => Holding(v)
    BY <1>7, <2>4 DEF GivesBack
  <2>5. \A a \in Attempt : charge'[a] >= 0
    <3> SUFFICES ASSUME NEW a \in Attempt PROVE charge'[a] >= 0
      OBVIOUS
    <3>1. CASE a = attempt[w]
      BY <2>1, <2>2, <3>1
    <3>2. CASE a # attempt[w]
      BY <2>2, <3>2
    <3> QED
      BY <3>1, <3>2
  <2>6. \A a \in Attempt : Succeeded(a)' => charge'[a] = 1 /\ a <= attempts'
    BY <1>7, <2>1, <2>2 DEF GivesBack
  <2>7. \A v \in Workers : Holding(v)' => charge'[attempt'[v]] = 1
    BY <2>2, <2>3, <2>4
  <2>8. \A v \in Workers : Undecided(v)' \/ Holding(v)' => ~Succeeded(attempt[v])'
    BY <1>7, <2>3, <2>4 DEF GivesBack
  <2> QED
    BY <2>5, <2>6, <2>7, <2>8
<1>8. ASSUME NEW w \in Workers, Loses(w)
      PROVE  ChargedExactly'
  BY <1>8 DEF Loses, Ends
<1> QED
  BY <1>1, <1>2, <1>3, <1>4, <1>5, <1>6, <1>7, <1>8 DEF Moves

-----------------------------------------------------------------------------

\* The invariant holds in the initial states ...
LEMMA InitBudget == Init => BudgetInv
<1> SUFFICES ASSUME Init PROVE BudgetInv
  OBVIOUS
<1>1. Shape
  BY InitShape
<1>2. \A w \in Workers : pc[w] = "idle"
  BY DEF Init
<1>3. \A a \in Attempt : charge[a] = 0
  BY DEF Init
<1>4. \A a \in Attempt : ~Succeeded(a)
  BY DEF Init, Succeeded, SuccessesOf
<1> QED
  BY <1>1, <1>2, <1>3, <1>4
     DEF BudgetInv, OneEach, OwnResults, ChargedAtMostOnce, ReservationsAccounted,
         ChargedExactly, Running, Undecided, Holding

\* ... and every step keeps it.
LEMMA NextBudget == BudgetInv /\ [Next]_vars => BudgetInv'
  BY NextShape, OwnResultsStep, StepMoves, OneEachStep, ChargedAtMostOnceStep,
     AccountedStep, ChargedExactlyStep
     DEF BudgetInv, Unambiguous

\* The inductive invariant: who holds which reservation, and what was stored
\* for it.
THEOREM BudgetHolds == Spec => []BudgetInv
  BY InitBudget, NextBudget, PTL DEF Spec

\* Whatever fails or is ambiguous, a reservation that stands belongs to an
\* attempt that is still deciding, to a stored success, or to an attempt whose
\* release is known to have failed.
THEOREM AccountsForReservations == Spec => []ReservationsAccounted
  BY BudgetHolds, PTL DEF BudgetInv

\* A stored success keeps exactly the reservation of its own attempt and no
\* reservation is given back twice, unless a persist or a rollback reports an
\* error after it took effect.
THEOREM ChargesSuccessesOnce == Spec => []SuccessChargedOnce
<1>1. BudgetInv => SuccessChargedOnce
  <2> SUFFICES ASSUME BudgetInv, Unambiguous
               PROVE  /\ \A r \in Requests : \A p \in SuccessesOf(r) : charge[p.by] = 1
                      /\ \A a \in Attempt : charge[a] \in {0, 1}
    BY DEF SuccessChargedOnce, Unambiguous
  <2>1. ASSUME NEW r \in Requests, NEW p \in SuccessesOf(r)
        PROVE  charge[p.by] = 1
    BY <2>1, SuccessIsPayload DEF BudgetInv, ChargedExactly, Succeeded
  <2>2. \A a \in Attempt : charge[a] \in {0, 1}
    BY DEF BudgetInv, ChargedExactly, ChargedAtMostOnce, Shape, TypeOK, BudgetTypeOK
  <2> QED
    BY <2>1, <2>2
<1> QED
  BY BudgetHolds, <1>1, PTL

-----------------------------------------------------------------------------
(* Duplicates do not waste generations *)

\* w is a member with the partition, or goes on with the batch it fetched.
Session(w) == owner = w \/ next[w] <= last[w]

\* The generation for the message at hand is over, or was refused, and no error
\* is going to end the session.
Generated(w) ==
    \/ pc[w] \in {"persist", "emit"}
    \/ pc[w] = "rollback" /\ cause[w] # "unknown"

\* The instances that may still generate a result for r in their session: all
\* that have not done so, and when a result is stored those that did not see it.
Entitled(r) ==
    {w \in Workers :
        IF stored[r] = None THEN Session(w) /\ ~(Generated(w) /\ Request(w) = r)
        ELSE pc[w] \in {"authorize", "generate"} /\ Request(w) = r}

\* A partition without owner entitles the next one.
Vacancy(r) == IF owner = None /\ stored[r] = None THEN 1 ELSE 0

\* The generations r has left.
Room(r) == 1 + faults - generated[r] - Vacancy(r)

RoomForEntitled ==
    \A r \in Requests :
        IsFiniteSet(Entitled(r)) /\ Cardinality(Entitled(r)) <= Room(r)

\* What a step does to the entitled instances and the generations left.
Narrows(r) == Entitled(r)' \subseteq Entitled(r) /\ Room(r)' >= Room(r)
Spends(r, w) ==
    /\ w \in Entitled(r)
    /\ Entitled(r)' \subseteq Entitled(r) \ {w}
    /\ Room(r)' >= Room(r) - 1
Earns(r, w) ==
    /\ Entitled(r)' \subseteq Entitled(r) \cup {w}
    /\ Room(r)' >= Room(r) + 1

\* Only w acts, and nothing is deleted.
ActsAlone(w) ==
    /\ \A v \in Workers \ {w} :
          /\ pc'[v] = pc[v] /\ cause'[v] = cause[v]
          /\ next'[v] = next[v] /\ last'[v] = last[v]
    /\ owner' \in {owner, None, w}
    /\ \A r \in Requests : stored[r] # None => stored'[r] # None

\* The action of one instance does not entitle another.
LEMMA OthersEntitled ==
  ASSUME Shape, NEW w \in Workers, ActsAlone(w), NEW r \in Requests,
         NEW v \in Entitled(r)', v # w
  PROVE  v \in Entitled(r)
<1>1. /\ v \in Workers \ {w}
      /\ Session(v)' => Session(v)
      /\ Generated(v)' <=> Generated(v)
      /\ Request(v)' = Request(v)
      /\ pc'[v] = pc[v]
  BY Constants DEF Entitled, ActsAlone, Session, Generated, Request
<1>2. pc[v] # "idle" => Session(v)
  BY <1>1 DEF Shape, JobShape, Session
<1> QED
  BY <1>1, <1>2 DEF Entitled, ActsAlone, Generated

\* The types of what is counted.
LEMMA RoomTypes ==
  ASSUME Shape, NEW r \in Requests
  PROVE  generated[r] \in Nat /\ faults \in Nat /\ Vacancy(r) \in {0, 1}
  BY Constants DEF Shape, TypeOK, BudgetTypeOK, Vacancy

\* A step inside a session that generates nothing.
LEMMA Working ==
  ASSUME Shape, NEW w \in Workers, NEW r \in Requests, ActsAlone(w),
         owner' = owner, UNCHANGED <<generated, faults>>,
         w \in Entitled(r)' => w \in Entitled(r)
  PROVE  Narrows(r)
<1>1. Entitled(r)' \subseteq Entitled(r)
  BY OthersEntitled
<1>2. Vacancy(r)' <= Vacancy(r)
  BY DEF Vacancy, ActsAlone
<1> QED
  BY <1>1, <1>2, RoomTypes DEF Narrows, Room, Vacancy

\* An instance whose session ended is entitled to nothing.
LEMMA Ended ==
  ASSUME Shape, NEW w \in Workers, NEW r \in Requests, ActsAlone(w), EndSession(w),
         next' = next
  PROVE  w \notin Entitled(r)'
<1>1. pc'[w] = "idle" /\ last'[w] = next[w] - 1 /\ owner' # w
  BY Constants
     DEF EndSession, Finish, Goto, Shape, TypeOK, GroupTypeOK, JobTypeOK
<1>2. next'[w] \in Nat
  BY Constants DEF Shape, TypeOK, GroupTypeOK
<1> QED
  BY <1>1, <1>2 DEF Entitled, Session

\* A fault ends a session: the vacancy is what the fault pays for.
LEMMA FaultEnds ==
  ASSUME Shape, NEW w \in Workers, NEW r \in Requests, ActsAlone(w), EndSession(w),
         next' = next, Fault, generated' = generated
  PROVE  Narrows(r)
<1>1. Entitled(r)' \subseteq Entitled(r)
  BY OthersEntitled, Ended
<1>2. Vacancy(r)' \in {0, 1}
  BY DEF Vacancy
<1> QED
  BY <1>1, <1>2, RoomTypes DEF Narrows, Room, Fault

\* A session that ends without a fault was entitled, unless a result is stored.
LEMMA ErrorEnds ==
  ASSUME Shape, NEW w \in Workers, NEW r \in Requests, ActsAlone(w), EndSession(w),
         next' = next, UNCHANGED <<generated, faults>>,
         pc[w] # "idle", ~Generated(w)
  PROVE  Narrows(r) \/ Spends(r, w)
<1>1. Entitled(r)' \subseteq Entitled(r) \ {w}
  BY OthersEntitled, Ended
<1>2. CASE stored[r] = None
  <2>1. w \in Entitled(r)
    BY <1>2 DEF Entitled, Session, Shape, JobShape
  <2>2. Vacancy(r)' \in {0, 1}
    BY DEF Vacancy
  <2> QED
    BY <1>1, <2>1, <2>2, RoomTypes DEF Spends, Room
<1>3. CASE stored[r] # None
  <2>1. Vacancy(r)' = 0
    BY <1>3 DEF Vacancy, ActsAlone
  <2> QED
    BY <1>1, <2>1, RoomTypes DEF Narrows, Room
<1> QED
  BY <1>2, <1>3

\* The INSERT of a payload leaves a result where there is one.
LEMMA InsertsResult ==
  ASSUME Shape, NEW x \in Requests, NEW p \in Payload, Insert(x, p)
  PROVE  \A r \in Requests : stored'[r] = IF r = x THEN p ELSE stored[r]
  BY DEF Insert, Shape, TypeOK, ResultTypeOK

\* Only the retention job empties a slot of brief_results, and only w acts.
LEMMA OneActs ==
  ASSUME Shape, NEW w \in Workers,
         Assign(w) \/ Delivery(w) \/ Process(w) \/ Failure(w)
  PROVE  ActsAlone(w)
<1> USE Constants, Busy
    DEF ActsAlone, Goto, Prepare, Finish, EndSession, Throw, Shape, TypeOK, GroupTypeOK,
        JobTypeOK, groupVars, jobVars, resultVars
<1>1. CASE Assign(w)
  BY <1>1 DEF Assign
<1>2. CASE Fetch(w)
  BY <1>2 DEF Fetch
<1>3. CASE Commit(w)
  BY <1>3 DEF Commit
<1>4. CASE NoticeRebalance(w)
  BY <1>4 DEF NoticeRebalance
<1>5. CASE Deliver(w)
  BY <1>5 DEF Deliver
<1>6. CASE Skip(w)
  BY <1>6 DEF Skip
<1>7. CASE Ack(w)
  BY <1>7 DEF Ack
<1>8. CASE Resolve(w)
  BY <1>8 DEF Resolve
<1>9. CASE Load(w)
  BY <1>9 DEF Load
<1>10. CASE Authorize(w)
  BY <1>10 DEF Authorize
<1>11. CASE Generate(w)
  BY <1>11 DEF Generate
<1>12. CASE PersistSuccess(w)
  <2>1. payload[w] \in Payload /\ Request(w) \in Requests
    BY <1>12 DEF PersistSuccess, JobShape
  <2>2. \A r \in Requests : stored[r] # None => stored'[r] # None
    <3>1. CASE UNCHANGED stored
      BY <3>1
    <3>2. CASE Insert(Request(w), payload[w])
      BY <2>1, <3>2, InsertsResult
    <3> QED
      BY <1>12, <3>1, <3>2 DEF PersistSuccess
  <2> QED
    BY <1>12, <2>2 DEF PersistSuccess
<1>13. CASE PersistSuccessFails(w)
  <2>1. payload[w] \in Payload /\ Request(w) \in Requests
    BY <1>13 DEF PersistSuccessFails, JobShape
  <2>2. \A r \in Requests : stored[r] # None => stored'[r] # None
    <3>1. CASE UNCHANGED stored
      BY <3>1
    <3>2. CASE Insert(Request(w), payload[w])
      BY <2>1, <3>2, InsertsResult
    <3> QED
      BY <1>13, <3>1, <3>2 DEF PersistSuccessFails
  <2> QED
    BY <1>13, <2>2 DEF PersistSuccessFails
<1>14. CASE Settle(w)
  BY <1>14 DEF Settle
<1>15. CASE RollbackDuplicate(w)
  BY <1>15 DEF RollbackDuplicate
<1>16. CASE RollbackDuplicateFails(w)
  BY <1>16 DEF RollbackDuplicateFails
<1>17. CASE Rollback(w)
  BY <1>17 DEF Rollback
<1>18. CASE RollbackFails(w)
  BY <1>18 DEF RollbackFails
<1>19. CASE Reload(w)
  BY <1>19 DEF Reload
<1>20. CASE Emit(w)
  <2>1. payload[w] \in Payload /\ Request(w) \in Requests
    BY <1>20 DEF Emit, JobShape
  <2>2. \A r \in Requests : stored[r] # None => stored'[r] # None
    <3>1. CASE UNCHANGED stored
      BY <3>1
    <3>2. CASE Insert(Request(w), payload[w])
      BY <2>1, <3>2, InsertsResult
    <3> QED
      BY <1>20, <3>1, <3>2 DEF Emit
  <2> QED
    BY <1>20, <2>2 DEF Emit
<1>21. CASE Publish(w)
  BY <1>21 DEF Publish
<1>22. CASE CallFails(w)
  BY <1>22 DEF CallFails
<1>23. CASE AuthorizeAmbiguous(w)
  BY <1>23 DEF AuthorizeAmbiguous
<1>24. CASE EmitAmbiguous(w)
  <2>1. payload[w] \in Payload /\ Request(w) \in Requests
    BY <1>24 DEF EmitAmbiguous, JobShape
  <2>2. \A r \in Requests : stored[r] # None => stored'[r] # None
    <3>1. CASE UNCHANGED stored
      BY <3>1
    <3>2. CASE Insert(Request(w), payload[w])
      BY <2>1, <3>2, InsertsResult
    <3> QED
      BY <1>24, <3>1, <3>2 DEF EmitAmbiguous
  <2> QED
    BY <1>24, <2>2 DEF EmitAmbiguous
<1>25. CASE PublishAmbiguous(w)
  BY <1>25 DEF PublishAmbiguous
<1>26. CASE Crash(w)
  BY <1>26 DEF Crash
<1> QED
  BY <1>1, <1>2, <1>3, <1>4, <1>5, <1>6, <1>7, <1>8, <1>9, <1>10, <1>11, <1>12, <1>13,
     <1>14, <1>15, <1>16, <1>17, <1>18, <1>19, <1>20, <1>21, <1>22, <1>23, <1>24,
     <1>25, <1>26
     DEF Delivery, Process, Failure

\* The same types after a step, and what the step did to the room.
LEMMA RoomNext ==
  ASSUME Shape, [Next]_vars, NEW r \in Requests
  PROVE  /\ generated[r] \in Nat /\ generated'[r] \in Nat
         /\ faults \in Nat /\ faults' \in Nat
         /\ Vacancy(r) \in {0, 1} /\ Vacancy(r)' \in {0, 1}
         /\ Room(r) = 1 + faults - generated[r] - Vacancy(r)
         /\ Room(r)' = 1 + faults' - generated'[r] - Vacancy(r)'
<1>1. Shape'
  BY NextShape
<1> QED
  BY <1>1, RoomTypes, Constants DEF Shape, TypeOK, BudgetTypeOK, Vacancy, Room

\* Every step pays for the entitlement it creates with a fault.
LEMMA EntitledStep ==
  ASSUME Shape, ~Retention, [Next]_vars, NEW r \in Requests
  PROVE  Narrows(r) \/ \E w \in Workers : Spends(r, w) \/ Earns(r, w)
<1>0. /\ generated[r] \in Nat /\ generated'[r] \in Nat
      /\ faults \in Nat /\ faults' \in Nat
      /\ Vacancy(r) \in {0, 1} /\ Vacancy(r)' \in {0, 1}
      /\ Room(r) = 1 + faults - generated[r] - Vacancy(r)
      /\ Room(r)' = 1 + faults' - generated'[r] - Vacancy(r)'
  BY RoomNext
<1> USE DEF Goto, Finish, Prepare, Throw, groupVars, jobVars, resultVars, budgetVars, boundVars
<1>1. ASSUME NEW w \in Workers, Fetch(w)
      PROVE  Narrows(r)
  <2>1. ActsAlone(w)
    BY <1>1, OneActs DEF Delivery
  <2>2. w \in Entitled(r)' => w \in Entitled(r)
    BY Busy, <1>1, <2>1
       DEF Fetch, ActsAlone, Entitled, Session, Generated, Request,
           Shape, TypeOK, GroupTypeOK, JobTypeOK, JobShape
  <2> QED
    BY <1>1, <2>1, <2>2, Working DEF Fetch
<1>2. ASSUME NEW w \in Workers, Commit(w)
      PROVE  Narrows(r)
  <2>1. ActsAlone(w)
    BY <1>2, OneActs DEF Delivery
  <2>2. w \in Entitled(r)' => w \in Entitled(r)
    BY Busy, <1>2, <2>1
       DEF Commit, ActsAlone, Entitled, Session, Generated, Request,
           Shape, TypeOK, GroupTypeOK, JobTypeOK, JobShape
  <2> QED
    BY <1>2, <2>1, <2>2, Working DEF Commit
<1>3. ASSUME NEW w \in Workers, NoticeRebalance(w)
      PROVE  Narrows(r)
  <2>1. ActsAlone(w)
    BY <1>3, OneActs DEF Delivery
  <2>2. w \in Entitled(r)' => w \in Entitled(r)
    BY Busy, <1>3, <2>1
       DEF NoticeRebalance, ActsAlone, Entitled, Session, Generated, Request,
           Shape, TypeOK, GroupTypeOK, JobTypeOK, JobShape
  <2> QED
    BY <1>3, <2>1, <2>2, Working DEF NoticeRebalance
<1>4. ASSUME NEW w \in Workers, Deliver(w)
      PROVE  Narrows(r)
  <2>1. ActsAlone(w)
    BY <1>4, OneActs DEF Delivery
  <2>2. w \in Entitled(r)' => w \in Entitled(r)
    BY Busy, <1>4, <2>1
       DEF Deliver, ActsAlone, Entitled, Session, Generated, Request,
           Shape, TypeOK, GroupTypeOK, JobTypeOK, JobShape
  <2> QED
    BY <1>4, <2>1, <2>2, Working DEF Deliver
<1>5. ASSUME NEW w \in Workers, Skip(w)
      PROVE  Narrows(r)
  <2>1. ActsAlone(w)
    BY <1>5, OneActs DEF Delivery
  <2>2. w \in Entitled(r)' => w \in Entitled(r)
    BY Busy, <1>5, <2>1
       DEF Skip, ActsAlone, Entitled, Session, Generated, Request,
           Shape, TypeOK, GroupTypeOK, JobTypeOK, JobShape
  <2> QED
    BY <1>5, <2>1, <2>2, Working DEF Skip
<1>6. ASSUME NEW w \in Workers, Ack(w)
      PROVE  Narrows(r)
  <2>1. ActsAlone(w)
    BY <1>6, OneActs DEF Delivery
  <2>2. w \in Entitled(r)' => w \in Entitled(r)
    BY Busy, <1>6, <2>1
       DEF Ack, ActsAlone, Entitled, Session, Generated, Request,
           Shape, TypeOK, GroupTypeOK, JobTypeOK, JobShape
  <2> QED
    BY <1>6, <2>1, <2>2, Working DEF Ack
<1>7. ASSUME NEW w \in Workers, Resolve(w)
      PROVE  Narrows(r)
  <2>1. ActsAlone(w)
    BY <1>7, OneActs DEF Process
  <2>2. w \in Entitled(r)' => w \in Entitled(r)
    BY Busy, <1>7, <2>1
       DEF Resolve, ActsAlone, Entitled, Session, Generated, Request,
           Shape, TypeOK, GroupTypeOK, JobTypeOK, JobShape
  <2> QED
    BY <1>7, <2>1, <2>2, Working DEF Resolve
<1>8. ASSUME NEW w \in Workers, Load(w)
      PROVE  Narrows(r)
  <2>1. ActsAlone(w)
    BY <1>8, OneActs DEF Process
  <2>2. w \in Entitled(r)' => w \in Entitled(r)
    BY Busy, <1>8, <2>1
       DEF Load, ActsAlone, Entitled, Session, Generated, Request,
           Shape, TypeOK, GroupTypeOK, JobTypeOK, JobShape
  <2> QED
    BY <1>8, <2>1, <2>2, Working DEF Load
<1>9. ASSUME NEW w \in Workers, Authorize(w)
      PROVE  Narrows(r)
  <2>1. ActsAlone(w)
    BY <1>9, OneActs DEF Process
  <2>2. w \in Entitled(r)' => w \in Entitled(r)
    BY Busy, <1>9, <2>1
       DEF Authorize, ActsAlone, Entitled, Session, Generated, Request,
           Shape, TypeOK, GroupTypeOK, JobTypeOK, JobShape
  <2> QED
    BY <1>9, <2>1, <2>2, Working DEF Authorize
<1>10. ASSUME NEW w \in Workers, PersistSuccess(w)
      PROVE  Narrows(r)
  <2>1. ActsAlone(w)
    BY <1>10, OneActs DEF Process
  <2>2. w \in Entitled(r)' => w \in Entitled(r)
    <3>1. CASE r # Request(w)
      BY Busy, <1>10, <2>1, <3>1
         DEF PersistSuccess, ActsAlone, Entitled, Session, Generated, Request,
           Shape, TypeOK, GroupTypeOK, JobTypeOK, JobShape
    <3>2. CASE r = Request(w)
      <4>1. stored'[r] # None
        BY <1>10, <2>1, <3>2, InsertsResult, Constants, Busy
           DEF PersistSuccess, ActsAlone, Shape, JobShape
      <4> QED
        BY <1>10, <4>1 DEF PersistSuccess, Entitled, Shape, TypeOK, JobTypeOK
    <3> QED
      BY <3>1, <3>2
  <2> QED
    BY <1>10, <2>1, <2>2, Working DEF PersistSuccess
<1>11. ASSUME NEW w \in Workers, Settle(w)
      PROVE  Narrows(r)
  <2>1. ActsAlone(w)
    BY <1>11, OneActs DEF Process
  <2>2. w \in Entitled(r)' => w \in Entitled(r)
    BY Busy, <1>11, <2>1
       DEF Settle, ActsAlone, Entitled, Session, Generated, Request,
           Shape, TypeOK, GroupTypeOK, JobTypeOK, JobShape
  <2> QED
    BY <1>11, <2>1, <2>2, Working DEF Settle
<1>12. ASSUME NEW w \in Workers, RollbackDuplicate(w)
      PROVE  Narrows(r)
  <2>1. ActsAlone(w)
    BY <1>12, OneActs DEF Process
  <2>2. w \in Entitled(r)' => w \in Entitled(r)
    BY Busy, <1>12, <2>1
       DEF RollbackDuplicate, ActsAlone, Entitled, Session, Generated, Request,
           Shape, TypeOK, GroupTypeOK, JobTypeOK, JobShape
  <2> QED
    BY <1>12, <2>1, <2>2, Working DEF RollbackDuplicate
<1>13. ASSUME NEW w \in Workers, Emit(w)
      PROVE  Narrows(r)
  <2>1. ActsAlone(w)
    BY <1>13, OneActs DEF Process
  <2>2. w \in Entitled(r)' => w \in Entitled(r)
    <3>1. CASE r # Request(w)
      BY Busy, <1>13, <2>1, <3>1
         DEF Emit, ActsAlone, Entitled, Session, Generated, Request,
           Shape, TypeOK, GroupTypeOK, JobTypeOK, JobShape
    <3>2. CASE r = Request(w)
      <4>1. stored'[r] # None
        BY <1>13, <2>1, <3>2, InsertsResult, Constants, Busy
           DEF Emit, ActsAlone, Shape, JobShape
      <4> QED
        BY <1>13, <4>1 DEF Emit, Entitled, Shape, TypeOK, JobTypeOK
    <3> QED
      BY <3>1, <3>2
  <2> QED
    BY <1>13, <2>1, <2>2, Working DEF Emit
<1>14. ASSUME NEW w \in Workers, Publish(w)
      PROVE  Narrows(r)
  <2>1. ActsAlone(w)
    BY <1>14, OneActs DEF Process
  <2>2. w \in Entitled(r)' => w \in Entitled(r)
    BY Busy, <1>14, <2>1
       DEF Publish, ActsAlone, Entitled, Session, Generated, Request,
           Shape, TypeOK, GroupTypeOK, JobTypeOK, JobShape
  <2> QED
    BY <1>14, <2>1, <2>2, Working DEF Publish
<1>15. ASSUME NEW w \in Workers, RollbackFails(w)
      PROVE  Narrows(r)
  <2>1. ActsAlone(w)
    BY <1>15, OneActs DEF Failure
  <2> QED
    BY <1>15, <2>1, FaultEnds DEF RollbackFails
<1>16. ASSUME NEW w \in Workers, CallFails(w)
      PROVE  Narrows(r)
  <2>1. ActsAlone(w)
    BY <1>16, OneActs DEF Failure
  <2> QED
    BY <1>16, <2>1, FaultEnds DEF CallFails
<1>17. ASSUME NEW w \in Workers, AuthorizeAmbiguous(w)
      PROVE  Narrows(r)
  <2>1. ActsAlone(w)
    BY <1>17, OneActs DEF Failure
  <2> QED
    BY <1>17, <2>1, FaultEnds DEF AuthorizeAmbiguous
<1>18. ASSUME NEW w \in Workers, EmitAmbiguous(w)
      PROVE  Narrows(r)
  <2>1. ActsAlone(w)
    BY <1>18, OneActs DEF Failure
  <2> QED
    BY <1>18, <2>1, FaultEnds DEF EmitAmbiguous
<1>19. ASSUME NEW w \in Workers, PublishAmbiguous(w)
      PROVE  Narrows(r)
  <2>1. ActsAlone(w)
    BY <1>19, OneActs DEF Failure
  <2> QED
    BY <1>19, <2>1, FaultEnds DEF PublishAmbiguous
<1>20. ASSUME NEW w \in Workers, Crash(w)
      PROVE  Narrows(r)
  <2>1. ActsAlone(w)
    BY <1>20, OneActs DEF Failure
  <2> QED
    BY <1>20, <2>1, FaultEnds DEF Crash
<1>21. ASSUME NEW w \in Workers, Assign(w)
      PROVE  Narrows(r) \/ Earns(r, w)
  <2>1. ActsAlone(w)
    BY <1>21, OneActs
  <2>2. CASE stored[r] = None
    <3>1. Entitled(r)' \subseteq Entitled(r) \cup {w}
      BY <2>1, OthersEntitled
    <3>2. Vacancy(r) = 1 /\ Vacancy(r)' = 0
      BY <1>21, <2>2, Constants DEF Assign, Vacancy
    <3>3. generated' = generated /\ faults' = faults
      BY <1>21 DEF Assign
    <3> QED
      BY <3>1, <3>2, <3>3, <1>0 DEF Earns
  <2>3. CASE stored[r] # None
    <3>1. Entitled(r)' \subseteq Entitled(r)
      BY <1>21, <2>1, <2>3, OthersEntitled DEF Assign, Entitled
    <3>2. Room(r)' = Room(r)
      BY <1>0, <1>21, <2>3 DEF Assign, Vacancy
    <3>3. Room(r)' >= Room(r)
      BY <3>2, <1>0
    <3> QED
      BY <3>1, <3>3 DEF Narrows
  <2> QED
    BY <2>2, <2>3
<1>22. ASSUME NEW w \in Workers, Generate(w)
      PROVE  Narrows(r) \/ Spends(r, w)
  <2>1. ActsAlone(w)
    BY <1>22, OneActs DEF Process
  <2>2. \A x \in Requests : 
        generated'[x] = IF x = Request(w) THEN generated[x] + 1 ELSE generated[x]
    BY <1>22 DEF Generate, Shape, TypeOK, BudgetTypeOK
  <2>3. Entitled(r)' \subseteq Entitled(r)
    <3>1. w \in Entitled(r)' => w \in Entitled(r)
      BY <1>22, Busy DEF Generate, Entitled, Session, Generated, Request,
           Shape, TypeOK, GroupTypeOK, JobTypeOK, JobShape
    <3> QED
      BY <2>1, <3>1, OthersEntitled
  <2>4. Vacancy(r)' = Vacancy(r) /\ faults' >= faults
    BY <1>0, <1>22 DEF Generate, Vacancy, Fault
  <2>5. CASE r # Request(w)
    BY <2>2, <2>3, <2>4, <2>5, <1>0 DEF Narrows
  <2>6. CASE r = Request(w) /\ Fault
    <3>1. generated'[r] = generated[r] + 1 /\ faults' = faults + 1
      BY <2>2, <2>6 DEF Fault
    <3>2. Room(r)' >= Room(r)
      BY <2>4, <3>1, <1>0
    <3> QED
      BY <2>3, <3>2 DEF Narrows
  <2>7. CASE r = Request(w) /\ ~Fault
    <3>1. w \in Entitled(r) /\ w \notin Entitled(r)'
      BY <1>22, <2>7, Busy DEF Generate, Entitled, Session, Generated, Request,
           Shape, TypeOK, GroupTypeOK, JobTypeOK, JobShape
    <3> QED
      <4>1. generated'[r] = generated[r] + 1
        BY <2>2, <2>7
      <4>2. faults' = faults
        BY <1>22, <2>7 DEF Generate
      <4>3. Room(r)' = Room(r) - 1
        BY <2>4, <4>1, <4>2, <1>0
      <4>4. Room(r)' >= Room(r) - 1
        BY <4>3, <1>0
      <4> QED
        BY <2>3, <3>1, <4>4 DEF Spends
  <2> QED
    BY <2>5, <2>6, <2>7
<1>23. ASSUME NEW w \in Workers, PersistSuccessFails(w)
      PROVE  Earns(r, w)
  <2>1. ActsAlone(w)
    BY <1>23, OneActs DEF Failure
  <2>2. Vacancy(r)' <= Vacancy(r)
    BY <1>23, <2>1 DEF PersistSuccessFails, Vacancy, ActsAlone
  <2>3. Vacancy(r)' \in {0, 1} /\ faults' = faults + 1 /\ generated' = generated
    BY <1>23 DEF PersistSuccessFails, Fault, Vacancy
  <2>4. Entitled(r)' \subseteq Entitled(r) \cup {w}
    BY <2>1, OthersEntitled
  <2> QED
    BY <2>2, <2>3, <2>4, <1>0 DEF Earns
<1>24. ASSUME NEW w \in Workers, RollbackDuplicateFails(w)
      PROVE  Earns(r, w)
  <2>1. ActsAlone(w)
    BY <1>24, OneActs DEF Failure
  <2>2. Vacancy(r)' <= Vacancy(r)
    BY <1>24, <2>1 DEF RollbackDuplicateFails, Vacancy, ActsAlone
  <2>3. Vacancy(r)' \in {0, 1} /\ faults' = faults + 1 /\ generated' = generated
    BY <1>24 DEF RollbackDuplicateFails, Fault, Vacancy
  <2>4. Entitled(r)' \subseteq Entitled(r) \cup {w}
    BY <2>1, OthersEntitled
  <2> QED
    BY <2>2, <2>3, <2>4, <1>0 DEF Earns
<1>25. ASSUME NEW w \in Workers, Rollback(w)
      PROVE  Narrows(r) \/ Spends(r, w)
  <2>1. ActsAlone(w)
    BY <1>25, OneActs DEF Process
  <2>2. CASE Throw(w)
    <3>1. ~Generated(w)
      BY <1>25, <2>2 DEF Rollback, Generated, EndSession, Shape, TypeOK, JobTypeOK
    <3> QED
      BY <1>25, <2>1, <2>2, <3>1, ErrorEnds DEF Rollback
  <2>3. CASE ~Throw(w)
    <3>1. w \in Entitled(r)' => w \in Entitled(r)
      BY Busy, <1>25, <2>1, <2>3
        DEF Rollback, ActsAlone, Entitled, Session, Generated, Request,
           Shape, TypeOK, GroupTypeOK, JobTypeOK, JobShape
    <3> QED
      BY <1>25, <2>1, <2>3, <3>1, Working DEF Rollback
  <2> QED
    BY <2>2, <2>3
<1>26. ASSUME NEW w \in Workers, Reload(w)
      PROVE  Narrows(r) \/ Spends(r, w)
  <2>1. ActsAlone(w)
    BY <1>26, OneActs DEF Process
  <2>2. CASE Throw(w)
    <3>1. ~Generated(w)
      BY <1>26, <2>2 DEF Reload, Generated, EndSession, Shape, TypeOK, JobTypeOK
    <3> QED
      BY <1>26, <2>1, <2>2, <3>1, ErrorEnds DEF Reload
  <2>3. CASE ~Throw(w)
    <3>1. w \in Entitled(r)' => w \in Entitled(r)
      BY Busy, <1>26, <2>1, <2>3
        DEF Reload, ActsAlone, Entitled, Session, Generated, Request,
           Shape, TypeOK, GroupTypeOK, JobTypeOK, JobShape
    <3> QED
      BY <1>26, <2>1, <2>3, <3>1, Working DEF Reload
  <2> QED
    BY <2>2, <2>3
<1>27. CASE LoseOwnership
  <2>1. Entitled(r)' \subseteq Entitled(r)
    BY <1>27, Constants DEF LoseOwnership, Entitled, Session, Generated, Request
  <2>2. Vacancy(r)' \in {0, 1} /\ faults' = faults + 1 /\ generated' = generated
    BY <1>27 DEF LoseOwnership, Fault, Vacancy
  <2> QED
    BY <2>1, <2>2, <1>0 DEF Narrows
<1>28. CASE UNCHANGED vars
  BY <1>28, RoomTypes
     DEF vars, Narrows, Entitled, Room, Vacancy, Session, Generated, Request
<1> QED
  BY <1>1, <1>2, <1>3, <1>4, <1>5, <1>6, <1>7, <1>8, <1>9, <1>10, <1>11, <1>12, <1>13,
     <1>14, <1>15, <1>16, <1>17, <1>18, <1>19, <1>20, <1>21, <1>22, <1>23, <1>24,
     <1>25, <1>26, <1>27, <1>28
     DEF Next, Delivery, Process, Failure, Expire

\* The instances entitled to a generation are no more than the generations left.
LEMMA RoomStep ==
  ASSUME Shape, ~Retention, RoomForEntitled, [Next]_vars
  PROVE  RoomForEntitled'
<1> SUFFICES ASSUME NEW r \in Requests
             PROVE  IsFiniteSet(Entitled(r)') /\ Cardinality(Entitled(r)') <= Room(r)'
  BY DEF RoomForEntitled
<1>1. IsFiniteSet(Entitled(r)) /\ Cardinality(Entitled(r)) <= Room(r)
  BY DEF RoomForEntitled
<1>2. Room(r) \in Int /\ Room(r)' \in Int
  BY RoomNext
<1>3. Cardinality(Entitled(r)) \in Nat
  BY <1>1, FS_CardinalityType
<1>4. CASE Narrows(r)
  <2>1. IsFiniteSet(Entitled(r)') /\ Cardinality(Entitled(r)') <= Cardinality(Entitled(r))
    BY <1>1, <1>4, FS_Subset DEF Narrows
  <2>2. Cardinality(Entitled(r)') \in Nat
    BY <2>1, FS_CardinalityType
  <2> QED
    BY <1>1, <1>2, <1>3, <1>4, <2>1, <2>2 DEF Narrows
<1>5. ASSUME NEW w \in Workers, Spends(r, w)
      PROVE  IsFiniteSet(Entitled(r)') /\ Cardinality(Entitled(r)') <= Room(r)'
  <2> DEFINE S == Entitled(r) \ {w}
  <2>1. IsFiniteSet(S) /\ Cardinality(S) = Cardinality(Entitled(r)) - 1
    BY <1>1, <1>5, FS_RemoveElement DEF Spends
  <2>2. IsFiniteSet(Entitled(r)') /\ Cardinality(Entitled(r)') <= Cardinality(S)
    BY <1>5, <2>1, FS_Subset DEF Spends
  <2>3. Cardinality(Entitled(r)') \in Nat
    BY <2>2, FS_CardinalityType
  <2> HIDE DEF S
  <2> QED
    BY <1>1, <1>2, <1>3, <1>5, <2>1, <2>2, <2>3 DEF Spends
<1>6. ASSUME NEW w \in Workers, Earns(r, w)
      PROVE  IsFiniteSet(Entitled(r)') /\ Cardinality(Entitled(r)') <= Room(r)'
  <2> DEFINE S == Entitled(r) \cup {w}
  <2>1. IsFiniteSet(S) /\ Cardinality(S) <= Cardinality(Entitled(r)) + 1
    BY <1>1, <1>3, FS_AddElement
  <2>2. IsFiniteSet(Entitled(r)') /\ Cardinality(Entitled(r)') <= Cardinality(S)
    BY <1>6, <2>1, FS_Subset DEF Earns
  <2>3. Cardinality(Entitled(r)') \in Nat /\ Cardinality(S) \in Nat
    BY <2>1, <2>2, FS_CardinalityType
  <2> HIDE DEF S
  <2> QED
    BY <1>1, <1>2, <1>3, <1>6, <2>1, <2>2, <2>3 DEF Earns
<1> QED
  BY <1>4, <1>5, <1>6, EntitledStep

\* The first owner of the partition is entitled to one generation.
LEMMA InitRoom == Init => RoomForEntitled
<1> SUFFICES ASSUME Init, NEW r \in Requests
             PROVE  IsFiniteSet(Entitled(r)) /\ Cardinality(Entitled(r)) <= Room(r)
  BY DEF RoomForEntitled
<1>1. Entitled(r) = {}
  BY Constants DEF Init, Entitled, Session
<1>2. Room(r) = 0
  BY DEF Init, Room, Vacancy
<1> QED
  BY <1>1, <1>2, FS_EmptySet

\* As long as no result is deleted, a request is generated again only after a
\* fault: duplicate messages, retries and racing instances come out of the same
\* allowance, one generation for the first owner and one per fault.
THEOREM GeneratesOncePerFault ==
  ASSUME ~Retention
  PROVE  Spec => []GeneratedOncePerFault
<1>1. Init => Shape /\ RoomForEntitled
  BY InitShape, InitRoom
<1>2. Shape /\ RoomForEntitled /\ [Next]_vars => (Shape /\ RoomForEntitled)'
  BY NextShape, RoomStep
<1>3. Shape /\ RoomForEntitled => GeneratedOncePerFault
  <2> SUFFICES ASSUME Shape, RoomForEntitled, NEW r \in Requests
               PROVE  generated[r] <= 1 + faults
    BY DEF GeneratedOncePerFault
  <2>1. IsFiniteSet(Entitled(r)) /\ Cardinality(Entitled(r)) <= Room(r)
    BY DEF RoomForEntitled
  <2>2. Cardinality(Entitled(r)) \in Nat
    BY <2>1, FS_CardinalityType
  <2> QED
    BY <2>1, <2>2, RoomTypes DEF Room
<1> QED
  BY <1>1, <1>2, <1>3, PTL DEF Spec

=============================================================================
