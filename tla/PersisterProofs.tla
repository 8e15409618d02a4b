--------------------------- MODULE PersisterProofs ---------------------------
(***************************************************************************)
(* For any number of instances, partitions, messages and faults, and any   *)
(* threshold of the circuit breaker: the types of Persister, that nothing  *)
(* is marked, reported or committed that is not stored, that only Postgres *)
(* opens the circuit, and that it implements ReliableCopy.                 *)
(***************************************************************************)
EXTENDS Persister, TLAPS

\* No offset is past the end of its partition.
InLog ==
    \A p \in Partitions :
        /\ committed[p] <= Len(Log[p])
        /\ \A i \in Instances : position[i][p] <= Len(Log[p])

\* A batch lies in its partition, and what is left to insert in the batch.
InBatch(i) ==
    pc[i] # "idle" => /\ part[i] \in Partitions
                      /\ end[i] <= Len(Log[part[i]])
                      /\ pc[i] = "insert" => todo[i] \subseteq Batch(i)
JobShape == \A i \in Instances : InBatch(i)

Shape == GroupTypeOK /\ InLog /\ JobTypeOK /\ JobShape

\* The events of the first n messages of p are in S.
Kept(p, n, S) == \A o \in 1 .. n : Log[p][o] \notin Malformed => Log[p][o] \in S

\* How far the batch of i got.
Progress(i) ==
    /\ pc[i] = "insert" => \A o \in Batch(i) \ todo[i] : Log[part[i]][o] \in stored
    /\ pc[i] = "mark"   => \A o \in Batch(i) : Log[part[i]][o] \in stored
    /\ pc[i] \in {"commit", "lag"} => Kept(part[i], end[i], stored \cap seen)

\* What an instance acknowledged is stored and marked, like what was committed.
CommittedKept == \A p \in Partitions : Kept(p, committed[p], stored \cap seen)
LagKept       == \A p \in Partitions : Kept(p, lagRow[p], stored \cap seen)
AckedKept     == \A i \in Instances, p \in Partitions : Kept(p, position[i][p], stored \cap seen)
PersistInv ==
    /\ CommittedKept /\ LagKept /\ AckedKept
    /\ \A i \in Instances : Progress(i)
    /\ SeenWasStored

\* The circuit counts no more failures than there were; from the last insert
\* of a batch to its marks it may still be half-open although Postgres took it.
\* A circuit that opened is open or lets one probe through.
Counts(b, n) ==
    /\ b.failures <= n
    /\ (b.until # "closed" \/ b.halfOpen) => n >= Threshold
Circuit(i) ==
    /\ pc[i] # "mark" => Counts(breaker[i], failing[i])
    /\ pc[i] = "mark" => ~tripped[i]
    /\ pc[i] \in {"insert", "mark"} =>
          breaker[i].until # "open" /\ (breaker[i].until = "expired" => breaker[i].halfOpen)
    /\ tripped[i] => breaker[i].until # "closed"
BreakerInv == BreakerTypeOK /\ \A i \in Instances : Circuit(i)

-----------------------------------------------------------------------------
(* The types *)

\* What the proofs need of the assumptions, without the sequences.
LEMMA LengthsAreNaturals == \A p \in Partitions : Len(Log[p]) \in Nat
<1> SUFFICES ASSUME NEW p \in Partitions
             PROVE  Len(Log[p]) \in Nat
  OBVIOUS
<1>1. Log[p] \in Seq(Events \cup Malformed)
  BY PersisterAssumption
<1> QED
  BY <1>1

\* Before anything runs.
LEMMA InitShape == Init => Shape
  BY LengthsAreNaturals
     DEF Init, Shape, GroupTypeOK, InLog, JobTypeOK, JobShape, InBatch, Label

\* The batch of an instance lies in its partition.
LEMMA Busy ==
  ASSUME Shape, NEW i \in Instances, pc[i] # "idle"
  PROVE  /\ part[i] \in Partitions
         /\ end[i] \in Nat /\ end[i] <= Len(Log[part[i]])
         /\ Batch(i) \subseteq Nat
  BY LengthsAreNaturals
     DEF Shape, GroupTypeOK, JobTypeOK, JobShape, InBatch, Batch, Collected

\* Offsets move to the end of a batch, or back to what was committed.
LEMMA GroupStep ==
  ASSUME Shape, [Next]_vars
  PROVE  (GroupTypeOK /\ InLog)'
<1> USE LengthsAreNaturals, Busy DEF Shape, GroupTypeOK, InLog, Throw, LeaveGroup
<1>1. ASSUME NEW i \in Instances, NEW p \in Partitions, Assign(i, p)
      PROVE  (GroupTypeOK /\ InLog)'
  BY <1>1 DEF Assign
<1>2. ASSUME NEW i \in Instances, NEW p \in Partitions, AutoCommit(i, p)
      PROVE  (GroupTypeOK /\ InLog)'
  BY <1>2 DEF AutoCommit
<1>3. ASSUME NEW i \in Instances, GatePause(i)
      PROVE  (GroupTypeOK /\ InLog)'
  BY <1>3 DEF GatePause
<1>4. ASSUME NEW i \in Instances, Resume(i)
      PROVE  (GroupTypeOK /\ InLog)'
  BY <1>4 DEF Resume
<1>5. ASSUME NEW i \in Instances, HeartbeatFails(i)
      PROVE  (GroupTypeOK /\ InLog)'
  BY <1>5 DEF HeartbeatFails
<1>6. ASSUME NEW i \in Instances, Commit(i)
      PROVE  (GroupTypeOK /\ InLog)'
  BY <1>6 DEF Commit
<1>7. ASSUME NEW i \in Instances, InsertFails(i)
      PROVE  (GroupTypeOK /\ InLog)'
  BY <1>7 DEF InsertFails
<1>8. ASSUME NEW i \in Instances, MarkFails(i)
      PROVE  (GroupTypeOK /\ InLog)'
  BY <1>8 DEF MarkFails
<1>9. ASSUME NEW i \in Instances, CommitFails(i)
      PROVE  (GroupTypeOK /\ InLog)'
  BY <1>9 DEF CommitFails
<1>10. ASSUME NEW i \in Instances, Crash(i)
      PROVE  (GroupTypeOK /\ InLog)'
  BY <1>10 DEF Crash
<1>11. ASSUME NEW p \in Partitions, LosePartition(p)
      PROVE  (GroupTypeOK /\ InLog)'
  BY <1>11 DEF LosePartition
<1>12. CASE UNCHANGED groupVars
  BY <1>12 DEF groupVars
<1> QED
  BY <1>1, <1>2, <1>3, <1>4, <1>5, <1>6, <1>7, <1>8, <1>9, <1>10, <1>11, <1>12
     DEF Next, Work, Failure, vars, groupVars, jobVars, storeVars, historyVars, Fetch,
         GateInactive, GatePass, InsertGroup, Mark, UpdateLag, Elapse

\* A batch starts where the instance is, and ends or goes on.
LEMMA JobStep ==
  ASSUME Shape, [Next]_vars
  PROVE  JobTypeOK'
<1> USE LengthsAreNaturals, Busy DEF Shape, JobTypeOK, Label, Goto, EndBatch, Throw
<1>1. ASSUME NEW i \in Instances, NEW p \in Partitions, Fetch(i, p)
      PROVE  JobTypeOK'
  BY <1>1 DEF Fetch, GroupTypeOK
<1>2. ASSUME NEW i \in Instances, GateInactive(i)
      PROVE  JobTypeOK'
  BY <1>2 DEF GateInactive
<1>3. ASSUME NEW i \in Instances, GatePause(i)
      PROVE  JobTypeOK'
  BY <1>3 DEF GatePause
<1>4. ASSUME NEW i \in Instances, GatePass(i)
      PROVE  JobTypeOK'
  BY <1>4 DEF GatePass
<1>5. ASSUME NEW i \in Instances, Resume(i)
      PROVE  JobTypeOK'
  BY <1>5 DEF Resume
<1>6. ASSUME NEW i \in Instances, HeartbeatFails(i)
      PROVE  JobTypeOK'
  BY <1>6 DEF HeartbeatFails
<1>7. ASSUME NEW i \in Instances, InsertGroup(i)
      PROVE  JobTypeOK'
  BY <1>7 DEF InsertGroup
<1>8. ASSUME NEW i \in Instances, Mark(i)
      PROVE  JobTypeOK'
  BY <1>8 DEF Mark
<1>9. ASSUME NEW i \in Instances, Commit(i)
      PROVE  JobTypeOK'
  <2>1. CASE Goto(i, "lag") /\ UNCHANGED <<part, end, todo>>
    BY <2>1
  <2>2. CASE EndBatch(i)
    BY <2>2
  <2> QED
    BY <1>9, <2>1, <2>2 DEF Commit
<1>10. ASSUME NEW i \in Instances, UpdateLag(i)
      PROVE  JobTypeOK'
  BY <1>10 DEF UpdateLag
<1>11. ASSUME NEW i \in Instances, InsertFails(i)
      PROVE  JobTypeOK'
  BY <1>11 DEF InsertFails
<1>12. ASSUME NEW i \in Instances, MarkFails(i)
      PROVE  JobTypeOK'
  BY <1>12 DEF MarkFails
<1>13. ASSUME NEW i \in Instances, CommitFails(i)
      PROVE  JobTypeOK'
  BY <1>13 DEF CommitFails
<1>14. ASSUME NEW i \in Instances, Crash(i)
      PROVE  JobTypeOK'
  BY <1>14 DEF Crash
<1>15. CASE UNCHANGED jobVars
  BY <1>15 DEF jobVars
<1> QED
  BY <1>1, <1>2, <1>3, <1>4, <1>5, <1>6, <1>7, <1>8, <1>9, <1>10, <1>11, <1>12,
     <1>13, <1>14, <1>15
     DEF Next, Work, Failure, vars, groupVars, jobVars, storeVars, historyVars, Assign,
         AutoCommit, Elapse, LosePartition

\* A step leaves j as it was, or idle, unless it is one of these of j.
Same(j) == /\ pc'[j] = pc[j] /\ part'[j] = part[j] /\ end'[j] = end[j] /\ todo'[j] = todo[j]
           /\ position'[j] = position[j]
Moves(j) == \/ \E p \in Partitions : Fetch(j, p)
            \/ GatePause(j) \/ GatePass(j) \/ InsertGroup(j) \/ Mark(j) \/ Commit(j)

\* Every step leaves j alone, makes it idle or is one of its moves.
LEMMA MovesOfOne ==
  ASSUME Shape, [Next]_vars, NEW j \in Instances
  PROVE  Same(j) \/ pc'[j] = "idle" \/ Moves(j)
<1> DEFINE Goal == Same(j) \/ pc'[j] = "idle" \/ Moves(j)
<1> USE DEF Shape, GroupTypeOK, JobTypeOK, Same, Goto, EndBatch, Throw, groupVars, jobVars
<1>1. ASSUME NEW i \in Instances, NEW p \in Partitions, Assign(i, p)
      PROVE  Goal
  BY <1>1 DEF Assign
<1>2. ASSUME NEW i \in Instances, NEW p \in Partitions, AutoCommit(i, p)
      PROVE  Goal
  BY <1>2 DEF AutoCommit
<1>3. ASSUME NEW i \in Instances, NEW p \in Partitions, Fetch(i, p)
      PROVE  Goal
  BY <1>3 DEF Fetch, Moves
<1>4. ASSUME NEW i \in Instances, GateInactive(i)
      PROVE  Goal
  BY <1>4 DEF GateInactive
<1>5. ASSUME NEW i \in Instances, GatePause(i)
      PROVE  Goal
  BY <1>5 DEF GatePause, Moves
<1>6. ASSUME NEW i \in Instances, GatePass(i)
      PROVE  Goal
  BY <1>6 DEF GatePass, Moves
<1>7. ASSUME NEW i \in Instances, Resume(i)
      PROVE  Goal
  BY <1>7 DEF Resume
<1>8. ASSUME NEW i \in Instances, HeartbeatFails(i)
      PROVE  Goal
  BY <1>8 DEF HeartbeatFails
<1>9. ASSUME NEW i \in Instances, InsertGroup(i)
      PROVE  Goal
  <2>1. CASE i = j
    BY <1>9, <2>1 DEF Moves
  <2>2. CASE i # j
    BY <1>9, <2>2 DEF InsertGroup
  <2> QED
    BY <2>1, <2>2
<1>10. ASSUME NEW i \in Instances, Mark(i)
      PROVE  Goal
  BY <1>10 DEF Mark, Moves
<1>11. ASSUME NEW i \in Instances, Commit(i)
      PROVE  Goal
  <2>1. CASE i = j
    BY <1>11, <2>1 DEF Moves
  <2>2. CASE i # j
    BY <1>11, <2>2 DEF Commit
  <2> QED
    BY <2>1, <2>2
<1>12. ASSUME NEW i \in Instances, UpdateLag(i)
      PROVE  Goal
  BY <1>12 DEF UpdateLag
<1>13. ASSUME NEW i \in Instances, InsertFails(i)
      PROVE  Goal
  BY <1>13 DEF InsertFails
<1>14. ASSUME NEW i \in Instances, MarkFails(i)
      PROVE  Goal
  BY <1>14 DEF MarkFails
<1>15. ASSUME NEW i \in Instances, CommitFails(i)
      PROVE  Goal
  BY <1>15 DEF CommitFails
<1>16. ASSUME NEW i \in Instances, Crash(i)
      PROVE  Goal
  BY <1>16 DEF Crash
<1>17. ASSUME NEW p \in Partitions, LosePartition(p)
      PROVE  Goal
  BY <1>17 DEF LosePartition
<1>18. CASE UNCHANGED <<groupVars, jobVars>>
  BY <1>18
<1> QED
  BY <1>1, <1>2, <1>3, <1>4, <1>5, <1>6, <1>7, <1>8, <1>9, <1>10, <1>11, <1>12,
     <1>13, <1>14, <1>15, <1>16, <1>17, <1>18
     DEF Next, Work, Failure, vars, groupVars, jobVars, storeVars, historyVars, Elapse

\* An instance that is busy keeps its batch, and inserts what it has to.
LEMMA InBatchStep ==
  ASSUME Shape, [Next]_vars, NEW j \in Instances
  PROVE  InBatch(j)'
<1> USE DEF Shape, GroupTypeOK, JobTypeOK, JobShape, InBatch, Batch, Collected, Goto
<1>1. CASE Same(j)
  BY <1>1 DEF Same
<1>2. CASE pc'[j] = "idle"
  BY <1>2
<1>3. ASSUME NEW p \in Partitions, Fetch(j, p)
      PROVE  InBatch(j)'
  BY <1>3, LengthsAreNaturals DEF Fetch
<1>4. CASE GatePause(j)
  BY <1>4 DEF GatePause
<1>5. CASE GatePass(j)
  BY <1>5 DEF GatePass, groupVars
<1>6. CASE InsertGroup(j)
  BY <1>6 DEF InsertGroup, groupVars
<1>7. CASE Mark(j)
  BY <1>7 DEF Mark
<1>8. CASE Commit(j)
  <2>1. CASE Goto(j, "lag") /\ UNCHANGED <<part, end, todo>>
    BY <1>8, <2>1 DEF Commit
  <2>2. CASE EndBatch(j)
    BY <2>2 DEF EndBatch
  <2> QED
    BY <1>8, <2>1, <2>2 DEF Commit
<1> QED
  BY <1>1, <1>2, <1>3, <1>4, <1>5, <1>6, <1>7, <1>8, MovesOfOne DEF Moves

\* Every step keeps types and batches.
LEMMA ShapeStep ==
  ASSUME Shape, [Next]_vars
  PROVE  Shape'
  BY GroupStep, JobStep, InBatchStep DEF Shape, JobShape

-----------------------------------------------------------------------------
(* What is acknowledged is stored *)

\* The stores only grow.
LEMMA StoresGrow ==
  ASSUME [Next]_vars
  PROVE  stored \subseteq stored' /\ seen \subseteq seen'
  BY DEF Next, Work, Failure, vars, storeVars, Assign, Fetch, AutoCommit, GateInactive,
         GatePause, GatePass, Resume, HeartbeatFails, InsertGroup, Mark, Commit, UpdateLag,
         InsertFails, MarkFails, CommitFails, Crash, Elapse, LosePartition, Insert

\* A mark is set for a stored event.
LEMMA SeenStep ==
  ASSUME Shape, PersistInv, [Next]_vars
  PROVE  SeenWasStored'
<1> USE StoresGrow DEF PersistInv, Progress, SeenWasStored, EventsAt
<1>1. ASSUME NEW i \in Instances, Mark(i)
      PROVE  SeenWasStored'
  BY <1>1 DEF Mark
<1>2. ASSUME NEW i \in Instances, MarkFails(i)
      PROVE  SeenWasStored'
  BY <1>2 DEF MarkFails
<1>3. CASE UNCHANGED seen
  BY <1>3
<1> QED
  BY <1>1, <1>2, <1>3
     DEF Next, Work, Failure, vars, groupVars, jobVars, storeVars, historyVars, Assign,
         Fetch, AutoCommit, GateInactive, GatePause, GatePass, Resume, HeartbeatFails,
         InsertGroup, Commit, UpdateLag, InsertFails, CommitFails, Crash, Elapse,
         LosePartition

\* Offsets and positions move to where everything before is kept.
LEMMA AckedStep ==
  ASSUME Shape, PersistInv, [Next]_vars
  PROVE  (CommittedKept /\ AckedKept)'
<1> USE StoresGrow, Busy
    DEF PersistInv, Progress, CommittedKept, AckedKept, Kept, Shape, GroupTypeOK, Throw
<1>1. ASSUME NEW i \in Instances, NEW p \in Partitions, Assign(i, p)
      PROVE  (CommittedKept /\ AckedKept)'
  BY <1>1 DEF Assign
<1>2. ASSUME NEW i \in Instances, NEW p \in Partitions, AutoCommit(i, p)
      PROVE  (CommittedKept /\ AckedKept)'
  BY <1>2 DEF AutoCommit
<1>3. ASSUME NEW i \in Instances, HeartbeatFails(i)
      PROVE  (CommittedKept /\ AckedKept)'
  BY <1>3 DEF HeartbeatFails
<1>4. ASSUME NEW i \in Instances, Commit(i)
      PROVE  (CommittedKept /\ AckedKept)'
  <2>1. Kept(part[i], end[i], stored \cap seen) /\ part[i] \in Partitions /\ end[i] \in Nat
    BY <1>4 DEF Commit
  <2>2. \A k \in Instances, p \in Partitions :
           position'[k][p] = IF k = i /\ p = part[i] THEN end[i] ELSE position[k][p]
    BY <1>4, <2>1 DEF Commit
  <2>3. \A p \in Partitions : \/ committed'[p] = committed[p]
                              \/ p = part[i] /\ committed'[p] = end[i]
    BY <1>4, <2>1 DEF Commit
  <2>4. UNCHANGED <<stored, seen>>
    BY <1>4 DEF Commit, storeVars
  <2>5. CommittedKept'
    BY <2>1, <2>3, <2>4
  <2>6. ASSUME NEW k \in Instances, NEW p \in Partitions
        PROVE  Kept(p, position[k][p], stored \cap seen)'
    <3>1. Kept(p, position'[k][p], stored \cap seen)
      BY <2>1, <2>2
    <3> QED
      BY <3>1, <2>4
  <2>7. AckedKept'
    BY <2>6
  <2> QED
    BY <2>5, <2>7
<1>5. ASSUME NEW i \in Instances, InsertFails(i)
      PROVE  (CommittedKept /\ AckedKept)'
  BY <1>5 DEF InsertFails
<1>6. ASSUME NEW i \in Instances, MarkFails(i)
      PROVE  (CommittedKept /\ AckedKept)'
  BY <1>6 DEF MarkFails
<1>7. ASSUME NEW i \in Instances, CommitFails(i)
      PROVE  (CommittedKept /\ AckedKept)'
  BY <1>7 DEF CommitFails
<1>8. ASSUME NEW i \in Instances, Crash(i)
      PROVE  (CommittedKept /\ AckedKept)'
  BY <1>8 DEF Crash
<1>9. CASE UNCHANGED <<committed, position>>
  BY <1>9
<1> QED
  BY <1>1, <1>2, <1>3, <1>4, <1>5, <1>6, <1>7, <1>8, <1>9
     DEF Next, Work, Failure, vars, groupVars, jobVars, storeVars, historyVars, Fetch,
         GateInactive, GatePause, GatePass, Resume, InsertGroup, Mark, UpdateLag,
         Elapse, LosePartition

\* The lag is reported from what is acknowledged.
LEMMA LagStep ==
  ASSUME Shape, StoreTypeOK, PersistInv, [Next]_vars
  PROVE  LagKept'
<1> USE StoresGrow, Busy DEF PersistInv, Progress, LagKept, Kept, StoreTypeOK
<1>1. ASSUME NEW i \in Instances, UpdateLag(i)
      PROVE  LagKept'
  BY <1>1 DEF UpdateLag
<1>2. CASE UNCHANGED lagRow
  BY <1>2
<1> QED
  BY <1>1, <1>2
     DEF Next, Work, Failure, vars, groupVars, jobVars, storeVars, historyVars, Assign,
         Fetch, AutoCommit, GateInactive, GatePause, GatePass, Resume, HeartbeatFails,
         InsertGroup, Mark, Commit, InsertFails, MarkFails, CommitFails, Crash, Elapse,
         LosePartition

\* A batch starts behind what its instance acknowledged.
LEMMA BatchKept ==
  ASSUME Shape, PersistInv, NEW i \in Instances, pc[i] # "idle", NEW S, NEW T,
         stored \cap seen \subseteq S \cap T,
         \A o \in Batch(i) : Log[part[i]][o] \in S \cap T
  PROVE  Kept(part[i], end[i], S \cap T)
<1>1. part[i] \in Partitions /\ end[i] \in Nat
  BY Busy
<1>2. position[i][part[i]] \in Nat
  BY <1>1 DEF Shape, GroupTypeOK
<1>3. Kept(part[i], position[i][part[i]], stored \cap seen)
  BY <1>1 DEF PersistInv, AckedKept
<1> QED
  BY <1>1, <1>2, <1>3 DEF Kept, Batch, Collected

\* What a batch inserted, marked and acknowledged is in the stores.
LEMMA ProgressStep ==
  ASSUME Shape, PersistInv, [Next]_vars, NEW j \in Instances
  PROVE  Progress(j)'
<1> USE StoresGrow DEF Progress, Kept, Batch, Collected
<1> USE DEF Shape, GroupTypeOK, JobTypeOK, Goto
<1>0. Progress(j)
  BY DEF PersistInv
<1>1. CASE Same(j)
  BY <1>0, <1>1 DEF Same
<1>2. CASE pc'[j] = "idle"
  BY <1>2
<1>3. ASSUME NEW p \in Partitions, Fetch(j, p)
      PROVE  Progress(j)'
  BY <1>3 DEF Fetch
<1>4. CASE GatePause(j)
  BY <1>4 DEF GatePause
<1>5. CASE GatePass(j)
  <2>1. CASE Batch(j) = {}
    <3>1. Kept(part[j], end[j], stored \cap seen)
      BY <1>5, <2>1, BatchKept DEF GatePass
    <3>2. pc'[j] = "commit" /\ UNCHANGED <<part, end, stored, seen>>
      BY <1>5, <2>1 DEF GatePass, storeVars
    <3> QED
      BY <3>1, <3>2
  <2>2. CASE Batch(j) # {}
    BY <1>5, <2>2 DEF GatePass, groupVars
  <2> QED
    BY <2>1, <2>2
<1>6. CASE InsertGroup(j)
  BY <1>0, <1>6 DEF InsertGroup, groupVars, Insert, EventsAt
<1>7. CASE Mark(j)
  <2>1. \A o \in Batch(j) : Log[part[j]][o] \in stored' \cap seen'
    BY <1>0, <1>7 DEF Mark, EventsAt
  <2>2. Kept(part[j], end[j], stored' \cap seen')
    BY <1>7, <2>1, BatchKept DEF Mark
  <2>3. pc'[j] = "commit" /\ UNCHANGED <<part, end>>
    BY <1>7 DEF Mark
  <2> QED
    BY <2>2, <2>3
<1>8. CASE Commit(j)
  BY <1>0, <1>8 DEF Commit, EndBatch
<1> QED
  BY <1>1, <1>2, <1>3, <1>4, <1>5, <1>6, <1>7, <1>8, MovesOfOne DEF Moves

\* Every step keeps what persisting relies on.
LEMMA PersistStep ==
  ASSUME Shape, StoreTypeOK, PersistInv, [Next]_vars
  PROVE  PersistInv'
  BY SeenStep, AckedStep, LagStep, ProgressStep DEF PersistInv

\* At the start nothing is acknowledged.
LEMMA InitPersist == Init => PersistInv
  BY DEF Init, PersistInv, CommittedKept, LagKept, AckedKept, Kept, Progress, SeenWasStored

-----------------------------------------------------------------------------
(* The circuit *)

\* What the operations of the breaker return.
LEMMA NewFields ==
  /\ NewBreaker \in Breaker
  /\ NewBreaker.failures = 0 /\ NewBreaker.until = "closed" /\ ~NewBreaker.halfOpen
  BY ThresholdAssumption DEF Breaker, NewBreaker

\* What isOpen returns, and leaves behind.
LEMMA AfterFields ==
  ASSUME NEW b \in Breaker
  PROVE  /\ AfterIsOpen(b) \in Breaker
         /\ AfterIsOpen(b).failures = b.failures /\ AfterIsOpen(b).until = b.until
         /\ AfterIsOpen(b).halfOpen <=> (b.halfOpen \/ b.until = "expired")
  BY DEF Breaker, AfterIsOpen

\* When the timeout has elapsed, the next probe passes.
LEMMA ElapsedFields ==
  ASSUME NEW b \in Breaker, IsOpen(b)
  PROVE  /\ Elapsed(b) \in Breaker
         /\ Elapsed(b).failures = b.failures /\ Elapsed(b).until = "expired"
  BY DEF Breaker, Elapsed, IsOpen

\* A failure recorded.
LEMMA FailureFields ==
  ASSUME NEW b \in Breaker
  PROVE  /\ RecordFailure(b) \in Breaker
         /\ \/ /\ b.halfOpen \/ b.failures + 1 >= Threshold
               /\ RecordFailure(b).failures = 0 /\ RecordFailure(b).until = "open"
               /\ ~RecordFailure(b).halfOpen
            \/ /\ ~b.halfOpen
               /\ RecordFailure(b).failures = b.failures + 1
               /\ RecordFailure(b).until = b.until /\ ~RecordFailure(b).halfOpen
  BY ThresholdAssumption DEF Breaker, RecordFailure, Opened

\* A batch Postgres refused: the circuit opens, or counts one failure more.
LEMMA AfterFailure ==
  ASSUME NEW b \in Breaker, b.until = "expired" => b.halfOpen, b.until # "open"
  PROVE  LET c == AfterIsOpen(RecordFailure(b))
         IN  /\ c \in Breaker
             /\ \/ /\ b.halfOpen \/ b.failures + 1 >= Threshold
                   /\ c.failures = 0 /\ c.until = "open"
                \/ /\ ~b.halfOpen /\ b.until = "closed"
                   /\ c.failures = b.failures + 1 /\ c.until = "closed" /\ ~c.halfOpen
<1>1. RecordFailure(b) \in Breaker /\ b.until \in {"closed", "open", "expired"}
  BY FailureFields DEF Breaker
<1> QED
  BY <1>1, FailureFields, AfterFields

\* A success closes the circuit for good.
LEMMA AfterSuccess ==
  ASSUME NEW b \in Breaker
  PROVE  LET c == AfterIsOpen(RecordSuccess(b))
         IN  c \in Breaker /\ c.failures = 0 /\ c.until = "closed" /\ ~c.halfOpen
  BY NewFields, AfterFields DEF RecordSuccess

\* At the start the circuit is closed.
LEMMA InitBreaker == Init => BreakerInv
  BY ThresholdAssumption
     DEF Init, BreakerInv, BreakerTypeOK, Circuit, Counts, NewBreaker, Breaker

\* Every step keeps the types of the circuit.
LEMMA BreakerTypes ==
  ASSUME BreakerTypeOK, [Next]_vars
  PROVE  BreakerTypeOK'
<1> USE NewFields, AfterFields, ElapsedFields, AfterSuccess
     DEF BreakerTypeOK, PostgresTook, historyVars
<1>1. ASSUME NEW i \in Instances, GateInactive(i)
      PROVE  BreakerTypeOK'
  BY <1>1 DEF GateInactive
<1>2. ASSUME NEW i \in Instances, GatePass(i)
      PROVE  BreakerTypeOK'
  BY <1>2 DEF GatePass
<1>3. ASSUME NEW i \in Instances, InsertGroup(i)
      PROVE  BreakerTypeOK'
  <2>1. CASE UNCHANGED historyVars
    BY <1>3, <2>1 DEF InsertGroup
  <2>2. CASE PostgresTook(i)
    BY <1>3, <2>2 DEF InsertGroup
  <2> QED
    BY <1>3, <2>1, <2>2 DEF InsertGroup
<1>4. ASSUME NEW i \in Instances, Mark(i)
      PROVE  BreakerTypeOK'
  BY <1>4 DEF Mark
<1>5. ASSUME NEW i \in Instances, InsertFails(i)
      PROVE  BreakerTypeOK'
  BY <1>5, FailureFields DEF InsertFails
<1>6. ASSUME NEW i \in Instances, MarkFails(i)
      PROVE  BreakerTypeOK'
  BY <1>6 DEF MarkFails
<1>7. ASSUME NEW i \in Instances, Crash(i)
      PROVE  BreakerTypeOK'
  BY <1>7 DEF Crash
<1>8. ASSUME NEW i \in Instances, Elapse(i)
      PROVE  BreakerTypeOK'
  BY <1>8 DEF Elapse
<1>9. CASE UNCHANGED <<breaker, historyVars>>
  BY <1>9 DEF historyVars
<1> QED
  BY <1>1, <1>2, <1>3, <1>4, <1>5, <1>6, <1>7, <1>8, <1>9
     DEF Next, Work, Failure, vars, groupVars, jobVars, storeVars, historyVars, Assign,
         Fetch, AutoCommit, GatePause, Resume, HeartbeatFails, Commit, UpdateLag,
         CommitFails, LosePartition

\* A step leaves the circuit of j as it is, unless it is one of these of j.
SameCircuit(j) == breaker'[j] = breaker[j] /\ failing'[j] = failing[j] /\ tripped'[j] = tripped[j]
SamePlace(j)   == pc'[j] = pc[j] \/ (pc[j] # "mark" /\ pc'[j] \notin {"insert", "mark"})
CircuitMoves(j) == \/ GateInactive(j) \/ GatePass(j) \/ InsertGroup(j) \/ Mark(j)
                   \/ InsertFails(j) \/ MarkFails(j) \/ Crash(j) \/ Elapse(j)

\* Every step leaves the circuit of j alone or is one of its moves.
LEMMA CircuitMovesOfOne ==
  ASSUME Shape, BreakerTypeOK, [Next]_vars, NEW j \in Instances
  PROVE  (SameCircuit(j) /\ SamePlace(j)) \/ CircuitMoves(j)
<1> DEFINE Goal == (SameCircuit(j) /\ SamePlace(j)) \/ CircuitMoves(j)
<1> USE DEF Shape, JobTypeOK, BreakerTypeOK, SameCircuit, SamePlace, Goto, EndBatch, Throw,
            PostgresTook, jobVars
<1>1. ASSUME NEW i \in Instances, NEW p \in Partitions, Fetch(i, p)
      PROVE  Goal
  BY <1>1 DEF Fetch, historyVars
<1>2. ASSUME NEW i \in Instances, GateInactive(i)
      PROVE  Goal
  <2>1. CASE i = j
    BY <1>2, <2>1 DEF CircuitMoves
  <2>2. CASE i # j
    BY <1>2, <2>2 DEF GateInactive, historyVars
  <2> QED
    BY <2>1, <2>2
<1>3. ASSUME NEW i \in Instances, GatePause(i)
      PROVE  Goal
  BY <1>3 DEF GatePause, historyVars
<1>4. ASSUME NEW i \in Instances, GatePass(i)
      PROVE  Goal
  <2>1. CASE i = j
    BY <1>4, <2>1 DEF CircuitMoves
  <2>2. CASE i # j
    BY <1>4, <2>2 DEF GatePass, historyVars
  <2> QED
    BY <2>1, <2>2
<1>5. ASSUME NEW i \in Instances, Resume(i)
      PROVE  Goal
  BY <1>5 DEF Resume, historyVars
<1>6. ASSUME NEW i \in Instances, HeartbeatFails(i)
      PROVE  Goal
  BY <1>6 DEF HeartbeatFails, historyVars
<1>7. ASSUME NEW i \in Instances, InsertGroup(i)
      PROVE  Goal
  <2>1. CASE i = j
    BY <1>7, <2>1 DEF CircuitMoves
  <2>2. CASE i # j
    BY <1>7, <2>2 DEF InsertGroup, historyVars
  <2> QED
    BY <2>1, <2>2
<1>8. ASSUME NEW i \in Instances, Mark(i)
      PROVE  Goal
  <2>1. CASE i = j
    BY <1>8, <2>1 DEF CircuitMoves
  <2>2. CASE i # j
    BY <1>8, <2>2 DEF Mark, historyVars
  <2> QED
    BY <2>1, <2>2
<1>9. ASSUME NEW i \in Instances, Commit(i)
      PROVE  Goal
  BY <1>9 DEF Commit, historyVars
<1>10. ASSUME NEW i \in Instances, UpdateLag(i)
      PROVE  Goal
  BY <1>10 DEF UpdateLag, historyVars
<1>11. ASSUME NEW i \in Instances, InsertFails(i)
      PROVE  Goal
  <2>1. CASE i = j
    BY <1>11, <2>1 DEF CircuitMoves
  <2>2. CASE i # j
    BY <1>11, <2>2 DEF InsertFails, historyVars
  <2> QED
    BY <2>1, <2>2
<1>12. ASSUME NEW i \in Instances, MarkFails(i)
      PROVE  Goal
  <2>1. CASE i = j
    BY <1>12, <2>1 DEF CircuitMoves
  <2>2. CASE i # j
    BY <1>12, <2>2 DEF MarkFails, historyVars
  <2> QED
    BY <2>1, <2>2
<1>13. ASSUME NEW i \in Instances, CommitFails(i)
      PROVE  Goal
  BY <1>13 DEF CommitFails, historyVars
<1>14. ASSUME NEW i \in Instances, Crash(i)
      PROVE  Goal
  <2>1. CASE i = j
    BY <1>14, <2>1 DEF CircuitMoves
  <2>2. CASE i # j
    BY <1>14, <2>2 DEF Crash, historyVars
  <2> QED
    BY <2>1, <2>2
<1>15. ASSUME NEW i \in Instances, Elapse(i)
      PROVE  Goal
  <2>1. CASE i = j
    BY <1>15, <2>1 DEF CircuitMoves
  <2>2. CASE i # j
    BY <1>15, <2>2 DEF Elapse, historyVars
  <2> QED
    BY <2>1, <2>2
<1>16. CASE UNCHANGED <<pc, breaker, historyVars>>
  BY <1>16 DEF historyVars
<1> QED
  BY <1>1, <1>2, <1>3, <1>4, <1>5, <1>6, <1>7, <1>8, <1>9, <1>10, <1>11, <1>12,
     <1>13, <1>14, <1>15, <1>16
     DEF Next, Work, Failure, vars, groupVars, jobVars, storeVars, historyVars, Assign,
         AutoCommit, LosePartition

\* Every step keeps what the circuit remembers.
LEMMA CircuitStep ==
  ASSUME Shape, BreakerInv, [Next]_vars, NEW j \in Instances
  PROVE  Circuit(j)'
<1> USE ThresholdAssumption DEF Shape, JobTypeOK, BreakerTypeOK, BreakerInv, Circuit, Counts, IsOpen
<1>0. Circuit(j) /\ breaker[j] \in Breaker /\ breaker[j].failures \in Nat /\ failing[j] \in Nat
  BY DEF Breaker
<1>1. CASE SameCircuit(j) /\ SamePlace(j)
  BY <1>0, <1>1 DEF SameCircuit, SamePlace
<1>2. CASE GateInactive(j)
  BY <1>0, <1>2, AfterFields DEF GateInactive, EndBatch, Goto, historyVars
<1>3. CASE GatePass(j)
  <2>1. breaker'[j] = AfterIsOpen(breaker[j]) /\ breaker[j].until # "open"
    BY <1>3 DEF GatePass
  <2>2. failing'[j] = failing[j] /\ tripped'[j] = tripped[j] /\ pc[j] # "mark" /\ pc'[j] # "mark"
    BY <1>3 DEF GatePass, Goto, historyVars
  <2> QED
    BY <1>0, <2>1, <2>2, AfterFields
<1>4. CASE InsertGroup(j)
  <2>1. breaker'[j] = breaker[j] /\ pc[j] = "insert"
    BY <1>4 DEF InsertGroup
  <2>2. \/ pc'[j] = "mark" /\ ~tripped'[j]
        \/ pc'[j] = "insert" /\ failing'[j] = failing[j] /\ tripped'[j] = tripped[j]
    BY <1>4 DEF InsertGroup, Goto, PostgresTook, historyVars
  <2> QED
    BY <1>0, <2>1, <2>2
<1>5. CASE Mark(j)
  <2>1. breaker'[j] = AfterIsOpen(RecordSuccess(breaker[j])) /\ pc[j] = "mark" /\ pc'[j] = "commit"
    BY <1>5 DEF Mark, Goto
  <2>2. failing'[j] = failing[j] /\ tripped'[j] = tripped[j]
    BY <1>5 DEF Mark, historyVars
  <2> QED
    BY <1>0, <2>1, <2>2, AfterSuccess
<1>6. CASE InsertFails(j)
  <2>1. breaker'[j] = AfterIsOpen(RecordFailure(breaker[j])) /\ pc[j] = "insert" /\ pc'[j] = "idle"
    BY <1>6 DEF InsertFails, Throw, EndBatch, Goto
  <2>2. failing'[j] = failing[j] + 1 /\ (tripped'[j] <=> tripped[j] \/ IsOpen(breaker'[j]))
    BY <1>6 DEF InsertFails
  <2> QED
    BY <1>0, <2>1, <2>2, AfterFailure
<1>7. CASE MarkFails(j)
  <2>1. breaker'[j] = AfterIsOpen(RecordSuccess(breaker[j])) /\ pc[j] = "mark" /\ pc'[j] = "idle"
    BY <1>7 DEF MarkFails, Throw, EndBatch, Goto
  <2>2. failing'[j] = failing[j] /\ tripped'[j] = tripped[j]
    BY <1>7 DEF MarkFails, historyVars
  <2> QED
    BY <1>0, <2>1, <2>2, AfterSuccess
<1>8. CASE Crash(j)
  <2>1. breaker'[j] = NewBreaker /\ pc'[j] = "idle" /\ failing'[j] = 0 /\ ~tripped'[j]
    BY <1>8 DEF Crash, EndBatch, Goto, PostgresTook
  <2> QED
    BY <2>1, NewFields
<1>9. CASE Elapse(j)
  BY <1>0, <1>9, ElapsedFields DEF Elapse, jobVars, historyVars
<1> QED
  BY <1>1, <1>2, <1>3, <1>4, <1>5, <1>6, <1>7, <1>8, <1>9, CircuitMovesOfOne
     DEF CircuitMoves


-----------------------------------------------------------------------------
(* The theorems *)

\* Messages that are no events are malformed.
LEMMA LogHoldsEvents ==
  ASSUME NEW p \in Partitions, NEW o \in 1 .. Len(Log[p]), Log[p][o] \notin Malformed
  PROVE  Log[p][o] \in Events
<1>1. Log[p] \in Seq(Events \cup Malformed)
  BY PersisterAssumption
<1> QED
  BY <1>1

\* So a batch inserts events.
LEMMA BatchHoldsEvents ==
  ASSUME Shape, NEW i \in Instances, pc[i] # "idle"
  PROVE  /\ EventsAt(part[i], Batch(i)) \subseteq Events
         /\ pc[i] = "insert" => EventsAt(part[i], FirstGroup(i)) \subseteq Events
<1>1. part[i] \in Partitions /\ Batch(i) \subseteq 1 .. Len(Log[part[i]])
  BY Busy, LengthsAreNaturals DEF Shape, GroupTypeOK, Batch, Collected
<1>2. \A o \in Batch(i) : Log[part[i]][o] \in Events
  BY <1>1, LogHoldsEvents DEF Batch, Collected
<1>3. pc[i] = "insert" => FirstGroup(i) \subseteq Batch(i)
  BY DEF FirstGroup, Shape, JobShape, InBatch
<1> QED
  BY <1>2, <1>3 DEF EventsAt

\* The stores hold events.
LEMMA StoreStep ==
  ASSUME Shape, StoreTypeOK, [Next]_vars
  PROVE  StoreTypeOK'
<1> USE BatchHoldsEvents, Busy, PersisterAssumption DEF StoreTypeOK, Fault, Insert
<1>1. ASSUME NEW i \in Instances, InsertGroup(i)
      PROVE  StoreTypeOK'
  BY <1>1 DEF InsertGroup
<1>2. ASSUME NEW i \in Instances, Mark(i)
      PROVE  StoreTypeOK'
  BY <1>2 DEF Mark
<1>3. ASSUME NEW i \in Instances, UpdateLag(i)
      PROVE  StoreTypeOK'
  BY <1>3 DEF UpdateLag, storeVars
<1>4. ASSUME NEW i \in Instances, InsertFails(i)
      PROVE  StoreTypeOK'
  BY <1>4 DEF InsertFails
<1>5. ASSUME NEW i \in Instances, MarkFails(i)
      PROVE  StoreTypeOK'
  BY <1>5 DEF MarkFails
<1>6. ASSUME NEW i \in Instances, CommitFails(i)
      PROVE  StoreTypeOK'
  BY <1>6 DEF CommitFails, storeVars
<1>7. ASSUME NEW i \in Instances, Crash(i)
      PROVE  StoreTypeOK'
  BY <1>7 DEF Crash, storeVars
<1>8. ASSUME NEW p \in Partitions, LosePartition(p)
      PROVE  StoreTypeOK'
  BY <1>8 DEF LosePartition, storeVars
<1>9. CASE UNCHANGED <<storeVars, lagRow, faults>>
  BY <1>9 DEF storeVars
<1> QED
  BY <1>1, <1>2, <1>3, <1>4, <1>5, <1>6, <1>7, <1>8, <1>9
     DEF Next, Work, Failure, vars, groupVars, jobVars, storeVars, historyVars, Assign,
         Fetch, AutoCommit, GateInactive, GatePause, GatePass, Resume, HeartbeatFails,
         Commit, Elapse

PersisterInv == Shape /\ StoreTypeOK /\ PersistInv /\ BreakerInv

\* The inductive invariant: types, batches inside their partitions, what each
\* step of a batch may rely on, and what the circuit remembers.
THEOREM InvHolds == Spec => []PersisterInv
<1>1. Init => PersisterInv
  <2>1. Init => StoreTypeOK
    BY PersisterAssumption DEF Init, StoreTypeOK
  <2> QED
    BY <2>1, InitShape, InitPersist, InitBreaker DEF PersisterInv
<1>2. PersisterInv /\ [Next]_vars => PersisterInv'
  BY ShapeStep, StoreStep, PersistStep, BreakerTypes, CircuitStep DEF PersisterInv, BreakerInv
<1> QED
  BY <1>1, <1>2, PTL DEF Spec

\* Offsets, batches, circuits and stores keep their types.
THEOREM TypeCorrect == Spec => []TypeOK
<1>1. PersisterInv => TypeOK
  BY DEF PersisterInv, Shape, BreakerInv, TypeOK
<1> QED
  BY <1>1, InvHolds, PTL

\* markEventsSeen comes after persistBatch on every path: a seen key vouches
\* for a row.
THEOREM MarksWhatIsStored == Spec => []SeenWasStored
<1>1. PersisterInv => SeenWasStored
  BY DEF PersisterInv, PersistInv
<1> QED
  BY <1>1, InvHolds, PTL

\* Whatever fails, crashes or is rebalanced, the events behind a committed
\* offset are stored and marked.
THEOREM CommitsWhatIsPersisted == Spec => []CommittedPersisted
<1>1. PersisterInv => CommittedPersisted
  BY DEF PersisterInv, PersistInv, CommittedKept, Kept, CommittedPersisted, EventsUpTo,
         EventsAt, Collected
<1> QED
  BY <1>1, InvHolds, PTL

LagReportsPersisted ==
    \A p \in Partitions : EventsUpTo(p, lagRow[p]) \subseteq stored \cap seen

\* consumer_lag never reports a position whose events are not stored and marked.
THEOREM ReportsWhatIsPersisted == Spec => []LagReportsPersisted
<1>1. PersisterInv => LagReportsPersisted
  BY DEF PersisterInv, PersistInv, LagKept, Kept, LagReportsPersisted, EventsUpTo, EventsAt,
         Collected
<1> QED
  BY <1>1, InvHolds, PTL

\* For any threshold the circuit is open only after as many batches in a row
\* that Postgres refused.
THEOREM OpensForPostgresOnly == Spec => []OpensOnPostgresFailures
<1>1. PersisterInv => OpensOnPostgresFailures
  BY DEF PersisterInv, BreakerInv, Circuit, Counts, OpensOnPostgresFailures, IsOpen
<1> QED
  BY <1>1, InvHolds, PTL

\* A circuit that opened stays so, a probe at a time, until Postgres takes a
\* batch.
THEOREM ReopensForEveryProbe == Spec => ReopensUntilSuccess
<1>1. ASSUME PersisterInv, [Next]_vars, NEW i \in Instances, tripped[i], failing'[i] > failing[i]
      PROVE  IsOpen(breaker'[i])
  <2> USE <1>1 DEF PersisterInv, Shape, JobTypeOK, BreakerInv, BreakerTypeOK
  <2>1. CASE SameCircuit(i)
    BY <2>1 DEF SameCircuit
  <2>2. CASE InsertFails(i)
    <3>1. breaker'[i] = AfterIsOpen(RecordFailure(breaker[i])) /\ pc[i] = "insert"
      BY <2>2 DEF InsertFails
    <3>2. breaker[i] \in Breaker /\ breaker[i].until = "expired" /\ breaker[i].halfOpen
      BY <3>1 DEF Circuit, IsOpen, Breaker
    <3> QED
      BY <3>1, <3>2, AfterFailure DEF IsOpen
  <2>3. ASSUME \/ GateInactive(i) \/ GatePass(i) \/ InsertGroup(i) \/ Mark(i) \/ MarkFails(i)
               \/ Crash(i) \/ Elapse(i)
        PROVE  failing'[i] \in {failing[i], 0}
    BY <2>3 DEF GateInactive, GatePass, InsertGroup, Mark, MarkFails, Crash, Elapse, historyVars,
                PostgresTook
  <2> QED
    BY <2>1, <2>2, <2>3, CircuitMovesOfOne DEF CircuitMoves
<1>2. PersisterInv /\ [Next]_vars =>
         [\A i \in Instances :
             tripped[i] /\ failing'[i] > failing[i] => IsOpen(breaker'[i])]_vars
  BY <1>1
<1> QED
  BY <1>2, InvHolds, PTL DEF Spec, ReopensUntilSuccess

-----------------------------------------------------------------------------
(* The refinement: every step of the instances, the group and the failures *)
(* keeps, marks, retires or reports as ReliableCopy says, or does nothing  *)
(* of the kind.                                                            *)

\* The owner of a partition is never behind what the group committed.
OwnerAhead == \A i \in Instances, p \in Partitions : owner[p] = i => committed[p] <= position[i][p]

\* A batch that is not acknowledged ends after what its instance acknowledged.
BatchAhead(i) == pc[i] \notin {"idle", "lag"} => position[i][part[i]] < end[i]

LagInLog == \A p \in Partitions : lagRow[p] <= Len(Log[p])

CopyInv == OwnerAhead /\ (\A i \in Instances : BatchAhead(i)) /\ LagInLog

\* An instance gets a partition at the committed offset, nobody else commits
\* while it owns it, and it does not get one back with a batch in its hands.
LEMMA OwnerStep ==
  ASSUME Shape, CopyInv, [Next]_vars
  PROVE  OwnerAhead'
<1> USE LengthsAreNaturals, Busy, PersisterAssumption
    DEF CopyInv, Shape, GroupTypeOK, OwnerAhead, Throw, LeaveGroup
<1>1. ASSUME NEW i \in Instances, NEW p \in Partitions, Assign(i, p)
      PROVE  OwnerAhead'
  BY <1>1 DEF Assign
<1>2. ASSUME NEW i \in Instances, NEW p \in Partitions, AutoCommit(i, p)
      PROVE  OwnerAhead'
  BY <1>2 DEF AutoCommit
<1>3. ASSUME NEW i \in Instances, HeartbeatFails(i)
      PROVE  OwnerAhead'
  BY <1>3 DEF HeartbeatFails
<1>4. ASSUME NEW i \in Instances, Commit(i)
      PROVE  OwnerAhead'
  <2>1. /\ part[i] \in Partitions /\ end[i] \in Nat /\ position[i][part[i]] < end[i]
        /\ UNCHANGED owner
    BY <1>4 DEF Commit, BatchAhead
  <2>2. \A k \in Instances, p \in Partitions :
           position'[k][p] = IF k = i /\ p = part[i] THEN end[i] ELSE position[k][p]
    BY <1>4, <2>1 DEF Commit
  <2>3. \A p \in Partitions : \/ committed'[p] = committed[p]
                              \/ p = part[i] /\ owner[p] = i /\ committed'[p] = end[i]
    BY <1>4, <2>1 DEF Commit
  <2>4. ASSUME NEW k \in Instances, NEW p \in Partitions, owner[p] = k
        PROVE  committed'[p] <= position'[k][p]
    <3>1. committed[p] <= position[k][p] /\ committed[p] \in Nat /\ position[k][p] \in Nat
      BY <2>4
    <3> QED
      BY <2>1, <2>2, <2>3, <2>4, <3>1
  <2> QED
    BY <2>1, <2>4
<1>5. ASSUME NEW i \in Instances, InsertFails(i)
      PROVE  OwnerAhead'
  BY <1>5 DEF InsertFails
<1>6. ASSUME NEW i \in Instances, MarkFails(i)
      PROVE  OwnerAhead'
  BY <1>6 DEF MarkFails
<1>7. ASSUME NEW i \in Instances, CommitFails(i)
      PROVE  OwnerAhead'
  BY <1>7 DEF CommitFails
<1>8. ASSUME NEW i \in Instances, Crash(i)
      PROVE  OwnerAhead'
  BY <1>8 DEF Crash
<1>9. ASSUME NEW p \in Partitions, LosePartition(p)
      PROVE  OwnerAhead'
  BY <1>9 DEF LosePartition
<1>10. CASE UNCHANGED <<committed, owner, position>>
  BY <1>10
<1> QED
  BY <1>1, <1>2, <1>3, <1>4, <1>5, <1>6, <1>7, <1>8, <1>9, <1>10
     DEF Next, Work, Failure, vars, groupVars, jobVars, storeVars, historyVars, Fetch,
         GateInactive, GatePause, GatePass, Resume, InsertGroup, Mark, UpdateLag, Elapse

\* A batch is fetched from behind what was acknowledged, and acknowledged once.
LEMMA BatchAheadStep ==
  ASSUME Shape, CopyInv, [Next]_vars, NEW j \in Instances
  PROVE  BatchAhead(j)'
<1> USE DEF CopyInv, BatchAhead, Shape, GroupTypeOK, JobTypeOK, Goto, groupVars
<1>1. CASE Same(j)
  BY <1>1 DEF Same
<1>2. CASE pc'[j] = "idle"
  BY <1>2
<1>3. ASSUME NEW p \in Partitions, Fetch(j, p)
      PROVE  BatchAhead(j)'
  BY <1>3, LengthsAreNaturals DEF Fetch
<1>4. CASE GatePause(j)
  BY <1>4 DEF GatePause
<1>5. CASE GatePass(j)
  BY <1>5 DEF GatePass
<1>6. CASE InsertGroup(j)
  BY <1>6 DEF InsertGroup
<1>7. CASE Mark(j)
  BY <1>7 DEF Mark
<1>8. CASE Commit(j)
  BY <1>8 DEF Commit, EndBatch
<1> QED
  BY <1>1, <1>2, <1>3, <1>4, <1>5, <1>6, <1>7, <1>8, MovesOfOne DEF Moves

\* A batch in the log is reported.
LEMMA LagInLogStep ==
  ASSUME Shape, StoreTypeOK, CopyInv, [Next]_vars
  PROVE  LagInLog'
<1> USE Busy DEF CopyInv, LagInLog, StoreTypeOK
<1>1. ASSUME NEW i \in Instances, UpdateLag(i)
      PROVE  LagInLog'
  BY <1>1 DEF UpdateLag
<1>2. CASE UNCHANGED lagRow
  BY <1>2
<1> QED
  BY <1>1, <1>2
     DEF Next, Work, Failure, vars, groupVars, jobVars, storeVars, historyVars, Assign,
         Fetch, AutoCommit, GateInactive, GatePause, GatePass, Resume, HeartbeatFails,
         InsertGroup, Mark, Commit, InsertFails, MarkFails, CommitFails, Crash, Elapse,
         LosePartition

\* What a step of one partition has to show to retire or report it.
LEMMA CopiedWhenKept ==
  ASSUME NEW p \in Partitions, NEW n \in Nat, Kept(p, n, stored \cap seen)
  PROVE  Copy!Copied(p, n)
  BY DEF Kept, Copy!Copied

\* The owner commits what is stored and marked, and never backwards.
LEMMA CommitRetires ==
  ASSUME Shape, PersistInv, CopyInv, NEW p \in Partitions, NEW n \in Nat,
         committed[p] < n, n <= Len(Log[p]), Kept(p, n, stored \cap seen),
         committed' = [committed EXCEPT ![p] = n], UNCHANGED <<stored, seen, lagRow>>
  PROVE  Copy!Retire(p)
<1>1. n \in committed[p] + 1 .. Len(Log[p])
  BY LengthsAreNaturals DEF Shape, GroupTypeOK
<1> QED
  BY <1>1, CopiedWhenKept DEF Copy!Retire

Stands == UNCHANGED <<stored, seen, committed, lagRow>>

\* Every step is a step of the copy, or leaves what it is about alone.
LEMMA StepRefinement ==
  ASSUME PersisterInv, CopyInv, [Next]_vars
  PROVE  Copy!Next \/ Stands
<1> DEFINE Goal == Copy!Next \/ Stands
<1> USE DEF PersisterInv, Stands, storeVars, Throw
<1>1. ASSUME NEW i \in Instances, NEW p \in Partitions, AutoCommit(i, p)
      PROVE  Goal
  <2>1. Kept(p, position[i][p], stored \cap seen)
    BY DEF PersistInv, AckedKept
  <2>2. position[i][p] \in Nat /\ position[i][p] <= Len(Log[p])
    BY DEF Shape, GroupTypeOK, InLog
  <2>3. Copy!Retire(p)
    BY <1>1, <2>1, <2>2, CommitRetires DEF AutoCommit
  <2> QED
    BY <2>3 DEF Copy!Next
<1>2. ASSUME NEW i \in Instances, Commit(i)
      PROVE  Goal
  <2>1. part[i] \in Partitions /\ end[i] \in Nat /\ end[i] <= Len(Log[part[i]])
    BY <1>2, Busy DEF Commit
  <2>2. Kept(part[i], end[i], stored \cap seen) /\ position[i][part[i]] < end[i]
    BY <1>2 DEF Commit, PersistInv, Progress, CopyInv, BatchAhead
  <2>3. CASE UNCHANGED committed
    BY <1>2, <2>3 DEF Commit
  <2>4. CASE owner[part[i]] = i /\ committed' = [committed EXCEPT ![part[i]] = end[i]]
    <3>1. committed[part[i]] < end[i]
      BY <2>1, <2>2, <2>4 DEF CopyInv, OwnerAhead, Shape, GroupTypeOK
    <3>2. Copy!Retire(part[i])
      BY <1>2, <2>1, <2>2, <2>4, <3>1, CommitRetires DEF Commit
    <3> QED
      BY <2>1, <3>2 DEF Copy!Next
  <2> QED
    BY <1>2, <2>3, <2>4 DEF Commit
<1>3. ASSUME NEW i \in Instances, UpdateLag(i)
      PROVE  Goal
  <2>1. part[i] \in Partitions /\ end[i] \in Nat /\ end[i] \in 0 .. Len(Log[part[i]])
    BY <1>3, Busy, LengthsAreNaturals DEF UpdateLag
  <2>2. Copy!Copied(part[i], end[i])
    <3>1. Kept(part[i], end[i], stored \cap seen)
      BY <1>3 DEF UpdateLag, PersistInv, Progress
    <3> QED
      BY <2>1, <3>1, CopiedWhenKept
  <2>3. UNCHANGED <<stored, seen, committed>>
    BY <1>3 DEF UpdateLag, groupVars
  <2>4. Copy!Report(part[i]) \/ UNCHANGED lagRow
    BY <1>3, <2>1, <2>2, <2>3 DEF UpdateLag, Copy!Report
  <2> QED
    BY <2>1, <2>3, <2>4 DEF Copy!Next
<1>4. CASE UNCHANGED <<committed, lagRow, seen>>
  <2>1. stored' \in SUBSET Events
    BY StoreStep DEF StoreTypeOK
  <2>2. Copy!Keep
    BY <1>4, <2>1, StoresGrow DEF Copy!Keep
  <2> QED
    BY <2>2 DEF Copy!Next
<1>5. CASE UNCHANGED <<committed, lagRow, stored>>
  <2>1. seen' \in SUBSET stored
    BY <1>5, SeenStep DEF SeenWasStored
  <2>2. Copy!Mark
    BY <1>5, <2>1, StoresGrow DEF Copy!Mark
  <2> QED
    BY <2>2 DEF Copy!Next
<1> QED
  BY <1>1, <1>2, <1>3, <1>4, <1>5
     DEF Next, Work, Failure, vars, groupVars, jobVars, historyVars, Assign, Fetch,
         GateInactive, GatePause, GatePass, Resume, HeartbeatFails, InsertGroup, Mark,
         InsertFails, MarkFails, CommitFails, Crash, Elapse, LosePartition

\* Instances that fail, restart and take over from each other act, for whoever
\* reads the stores, the offsets or the lag, as one that copies in order and
\* takes nothing back.
THEOREM CopiesAsPromised == Spec => CopiesReliably
<1>1. Init => CopyInv /\ Copy!Init
  BY PersisterAssumption
     DEF Init, CopyInv, OwnerAhead, BatchAhead, LagInLog, Copy!Init
<1>2. PersisterInv /\ CopyInv /\ [Next]_vars => CopyInv'
  BY OwnerStep, BatchAheadStep, LagInLogStep DEF PersisterInv, CopyInv
<1>3. PersisterInv /\ CopyInv /\ [Next]_vars => [Copy!Next]_(Copy!vars)
  BY StepRefinement DEF Stands, Copy!vars
<1> QED
  BY <1>1, <1>2, <1>3, InvHolds, PTL DEF Spec, CopiesReliably, Copy!Spec

=============================================================================
