---------------------- MODULE ServiceLifecycleProofs ----------------------
(***************************************************************************)
(* What the shutdown of a process guarantees, for every service, and any   *)
(* number of signals, errors, and failing or hanging calls: the types, that*)
(* no store is closed under a batch, and that all is released once.        *)
(***************************************************************************)
EXTENDS ServiceLifecycle, SequenceTheorems, TLAPS

\* A batch runs while the service does.  Stores are closed by the rollback, or
\* after the consumer, which then fetches no more.
WorkInv ==
    /\ batch => phase \in {"running", "failed"} /\ service # "collector"
    /\ phase \in {"init", "rollback"} => ~context
    /\ ~context \/ ~shuttingDown => \A k \in Flow : step[k] = 0
    /\ phase # "rollback" /\ service # "collector" =>
          \A r \in Stores : calls[r] # 0 => \E k \in Flow : step[k] > 1
    /\ service # "collector" /\ "consumer" \notin broken /\ ~revived =>
          \A k \in Flow : step[k] > 1 => "consumer" \notin open /\ ~batch

\* What is connected, and what the first steps of the shutdown closed.
Connected == {Startup[service][m] : m \in 1 .. next - 1} \ Loads
Closed(n) == {Shutdown[service][m] : m \in 1 .. n - 1}
Distinct(s) == \A m, n \in 1 .. Len(s) : s[m] = s[n] => m = n

\* A failed start closes what is left in rollback, a shutdown what is left of
\* its steps, and each asks a resource once unless a close hangs before.
ClosesOnce ==
    \A r \in Resources : calls[r] = IF r \in Connected \ ToSet(rollback) THEN 1 ELSE 0
StopsOnce ==
    \A r \in Resources :
        calls[r] = IF step[1] # 0 /\ r \in Closed(step[1]) THEN 1 ELSE 0
ReleaseInv ==
    /\ step[2] = 0
    /\ Distinct(rollback)
    /\ phase = "init" =>
          /\ ToSet(rollback) = Connected /\ open = Connected
          /\ \A r \in Resources : calls[r] = 0
          /\ hung = {}
    /\ phase = "rollback" =>
          /\ ToSet(rollback) \subseteq open \cap Connected
          /\ IF hung = {} THEN ClosesOnce ELSE rollback # <<>>
    /\ phase \notin {"init", "rollback"} =>
          /\ context /\ next = Len(Startup[service]) + 1
          /\ IF hung = {} THEN exit = None => StopsOnce ELSE step[1] <= Len(Shutdown[service])
    /\ ReleasedOnce

-----------------------------------------------------------------------------
(* The services *)

\* What is connected or closed by some service.
LEMMA SomeResources ==
  {"health", "postgres", "redis", "consumer", "producer", "checkpoints", "adapters"}
     \subseteq Resources
<1>0. DOMAIN Startup = {"persister", "trends", "brief", "collector"}
  BY DEF Startup
<1>1. ToSet(PersisterStartup) = {"health", "postgres", "redis", "consumer"}
  BY DEF ToSet, PersisterStartup
<1>2. "producer" \in ToSet(TrendsStartup)
  BY DEF ToSet, TrendsStartup
<1>3. {"checkpoints", "adapters"} \subseteq ToSet(CollectorStartup)
  BY DEF ToSet, CollectorStartup
<1>4. /\ Startup["persister"] = PersisterStartup /\ Startup["trends"] = TrendsStartup
        /\ Startup["collector"] = CollectorStartup
  BY DEF Startup
<1>5. UNION {ToSet(Startup[t]) : t \in DOMAIN Startup}
         = UNION {ToSet(Startup["persister"]), ToSet(Startup["trends"]),
                  ToSet(Startup["brief"]), ToSet(Startup["collector"])}
  BY <1>0
<1> QED
  BY <1>1, <1>2, <1>3, <1>4, <1>5 DEF Resources, Loads

\* What the types need of the sequences.
LEMMA Sequences ==
  ASSUME NEW s \in DOMAIN Startup
  PROVE  /\ Len(Startup[s]) \in Nat /\ Len(Shutdown[s]) \in Nat
         /\ \A n \in 1 .. Len(Startup[s]) : Startup[s][n] \in Resources \cup Loads
         /\ \A n \in 1 .. Len(Shutdown[s]) : Shutdown[s][n] \in Resources
<1>1. DOMAIN Startup = {"persister", "trends", "brief", "collector"}
  BY DEF Startup
<1>2. Len(Startup[s]) \in Nat /\ Len(Shutdown[s]) \in Nat
  BY DEF Startup, Shutdown, PersisterStartup, TrendsStartup, BriefStartup, CollectorStartup,
         PersisterShutdown, TrendsShutdown, BriefShutdown, CollectorShutdown
<1>3. \A n \in 1 .. Len(Startup[s]) : Startup[s][n] \in Resources \cup Loads
  BY <1>1, SomeResources DEF Loads, Startup, PersisterStartup, TrendsStartup, BriefStartup,
                    CollectorStartup
<1>4. \A n \in 1 .. Len(Shutdown[s]) : Shutdown[s][n] \in Resources
  BY <1>1, SomeResources DEF Shutdown, PersisterShutdown, TrendsShutdown, BriefShutdown,
                    CollectorShutdown
<1> QED
  BY <1>2, <1>3, <1>4

\* The consumer is the first to close.
LEMMA ConsumerFirst ==
  ASSUME NEW s \in DOMAIN Startup, s # "collector"
  PROVE  Shutdown[s][1] = "consumer" /\ Len(Shutdown[s]) >= 1
  BY DEF Startup, Shutdown, PersisterShutdown, TrendsShutdown, BriefShutdown

-----------------------------------------------------------------------------
(* The types *)

\* At the start everything has its type.
LEMMA InitTypes == Init => TypeOK
<1> SUFFICES ASSUME Init PROVE TypeOK
  OBVIOUS
<1>1. service \in DOMAIN Startup
  BY LifecycleAssumption DEF Init
<1>2. next \in 1 .. Len(Startup[service]) + 1
  BY <1>1, Sequences DEF Init
<1>3. \A k \in Flow : step[k] <= Len(Shutdown[service]) + 1
  BY <1>1, Sequences DEF Init
<1>4. step \in [Flow -> Nat] /\ code \in [Flow -> {0, 1}] /\ rollback \in Seq(Resources)
  BY DEF Init
<1> QED
  <2>1. calls \in [Resources -> Nat] /\ faults \in 0 .. MaxFaults
    BY LifecycleAssumption DEF Init
  <2>2. /\ service \in Services /\ phase = "init" /\ open \in SUBSET Resources
        /\ context \in BOOLEAN /\ shuttingDown \in BOOLEAN /\ exit \in {None, 0, 1}
        /\ batch \in BOOLEAN /\ snapshot \in BOOLEAN /\ timer \in BOOLEAN
        /\ cut \in BOOLEAN /\ revived \in BOOLEAN
        /\ broken \in SUBSET Resources /\ hung \in SUBSET Resources
    BY DEF Init
  <2> QED
    BY <1>2, <1>3, <1>4, <2>1, <2>2 DEF TypeOK

\* What a request for shutdown leaves.
LEMMA RequestTypes ==
  ASSUME TypeOK, NEW c \in {0, 1}, RequestShutdown(c)
  PROVE  /\ shuttingDown' \in BOOLEAN /\ exit' \in {None, 0, 1} /\ cut' \in BOOLEAN
         /\ step' \in [Flow -> Nat] /\ code' \in [Flow -> {0, 1}]
         /\ \A k \in Flow : step'[k] <= Len(Shutdown[service]) + 1
<1>1. Len(Shutdown[service]) \in Nat
  BY Sequences, LifecycleAssumption DEF TypeOK
<1>2. CASE UNCHANGED <<step, code>>
  BY <1>1, <1>2 DEF RequestShutdown, Exit, TypeOK, stopVars
<1>3. CASE step' = [step EXCEPT ![1] = 1] /\ code' = [code EXCEPT ![1] = c]
  <2>1. step' \in [Flow -> Nat] /\ code' \in [Flow -> {0, 1}]
    BY <1>3 DEF TypeOK
  <2>2. \A k \in Flow : step'[k] = IF k = 1 THEN 1 ELSE step[k]
    BY <1>3 DEF TypeOK
  <2>3. \A k \in Flow : step'[k] <= Len(Shutdown[service]) + 1
    BY <1>1, <2>2 DEF TypeOK
  <2> QED
    BY <2>1, <2>3 DEF RequestShutdown, Exit, TypeOK, stopVars
<1> QED
  BY <1>2, <1>3 DEF RequestShutdown, stopVars

\* What a close leaves.
LEMMA CloseTypes ==
  ASSUME TypeOK, NEW r \in Resources, Close(r) \/ CloseFails(r) \/ CloseHangs(r)
  PROVE  /\ open' \in SUBSET Resources /\ calls' \in [Resources -> Nat]
         /\ broken' \in SUBSET Resources /\ hung' \in SUBSET Resources
         /\ faults' \in 0 .. MaxFaults
<1>1. calls' \in [Resources -> Nat]
  <2>1. calls' = [calls EXCEPT ![r] = calls[r] + 1]
    BY DEF Close, CloseFails, CloseHangs
  <2>2. calls[r] + 1 \in Nat
    BY DEF TypeOK
  <2> QED
    BY <2>1, <2>2 DEF TypeOK
<1>2. faults' \in 0 .. MaxFaults
  BY LifecycleAssumption DEF TypeOK, Close, CloseFails, CloseHangs, Fault
<1>3. open' \in SUBSET Resources /\ broken' \in SUBSET Resources /\ hung' \in SUBSET Resources
  BY DEF TypeOK, Close, CloseFails, CloseHangs
<1> QED
  BY <1>1, <1>2, <1>3

\* A shutdown closes a resource.
LEMMA ClosesResources ==
  ASSUME TypeOK, NEW k \in Flow, Stopping(k)
  PROVE  step[k] >= 1 /\ Closing(k) \in Resources
<1>1. service \in DOMAIN Startup /\ step[k] \in 1 .. Len(Shutdown[service])
  BY LifecycleAssumption, Sequences DEF TypeOK, Stopping
<1> QED
  BY <1>1, Sequences DEF Closing

\* Every step keeps the types.
LEMMA TypeStep ==
  ASSUME TypeOK, [Next]_vars
  PROVE  TypeOK'
<1> USE LifecycleAssumption, Sequences
    DEF TypeOK, Fault, Exit, startVars, stopVars, workVars, closeVars
<1>1. ASSUME Connect
       PROVE  TypeOK'
  <2>1. Item \in Resources \cup Loads /\ next + 1 \in 1 .. Len(Startup[service]) + 1
    BY <1>1 DEF Connect, Item
  <2>2. CASE Item \in Loads
    BY <1>1, <2>1, <2>2 DEF Connect
  <2>3. CASE Item \notin Loads
    <3>1. Item \in Resources /\ <<Item>> \in Seq(Resources)
      BY <2>1, <2>3
    <3>2. rollback' = <<Item>> \o rollback
      BY <1>1, <2>3 DEF Connect
    <3>3. rollback' \in Seq(Resources)
      BY <3>1, <3>2, ConcatProperties
    <3>4. open' \in SUBSET Resources
      BY <1>1, <2>3, <3>1 DEF Connect
    <3> QED
      BY <1>1, <2>1, <3>3, <3>4 DEF Connect
  <2> QED
    BY <2>2, <2>3
<1>2. ASSUME RollbackStep
       PROVE  TypeOK'
  <2>1. Head(rollback) \in Resources /\ Tail(rollback) \in Seq(Resources)
    BY <1>2 DEF RollbackStep
  <2>2. rollback' \in Seq(Resources)
    BY <1>2, <2>1 DEF RollbackStep
  <2> QED
    BY <1>2, <2>1, <2>2, CloseTypes DEF RollbackStep
<1>3. ASSUME RolledBack
       PROVE  TypeOK'
  BY <1>3 DEF RolledBack
<1>4. ASSUME Initialized
       PROVE  TypeOK'
  BY <1>4 DEF Initialized
<1>5. ASSUME Consume
       PROVE  TypeOK'
  BY <1>5, SomeResources DEF Consume
<1>6. ASSUME ConnectFails
       PROVE  TypeOK'
  BY <1>6 DEF ConnectFails
<1>7. ASSUME RollbackHangs
       PROVE  TypeOK'
  BY <1>7, CloseTypes DEF RollbackHangs
<1>8. ASSUME RunFails
       PROVE  TypeOK'
  BY <1>8, RequestTypes DEF RunFails
<1>9. ASSUME StartBatch
       PROVE  TypeOK'
  BY <1>9 DEF StartBatch
<1>10. ASSUME EndBatch
       PROVE  TypeOK'
  BY <1>10 DEF EndBatch
<1>11. ASSUME StartSnapshot
       PROVE  TypeOK'
  BY <1>11 DEF StartSnapshot
<1>12. ASSUME EndSnapshot
       PROVE  TypeOK'
  BY <1>12 DEF EndSnapshot
<1>13. ASSUME Signal
       PROVE  TypeOK'
  BY <1>13, RequestTypes DEF Signal
<1>14. ASSUME Uncaught
       PROVE  TypeOK'
  BY <1>14, RequestTypes DEF Uncaught
<1>15. ASSUME NEW k \in Flow, StopStep(k)
       PROVE  TypeOK'
  <2>1. Closing(k) \in Resources
    BY <1>15, ClosesResources DEF StopStep
  <2>2. /\ step' \in [Flow -> Nat]
        /\ \A j \in Flow : step'[j] <= Len(Shutdown[service]) + 1
    BY <1>15 DEF StopStep, Stopping
  <2> QED
    BY <1>15, <2>1, <2>2, CloseTypes DEF StopStep, ClearTimer
<1>16. ASSUME NEW k \in Flow, Stopped(k)
       PROVE  TypeOK'
  BY <1>16 DEF Stopped
<1>17. ASSUME NEW k \in Flow, CheckpointsFail(k)
       PROVE  TypeOK'
  BY <1>17, CloseTypes DEF CheckpointsFail, Stopping, Closing
<1>18. ASSUME NEW k \in Flow, StopHangs(k)
       PROVE  TypeOK'
  BY <1>18, CloseTypes DEF StopHangs, Stopping, Closing, ClearTimer
<1>19. ASSUME NEW k \in Flow, Timeout(k)
       PROVE  TypeOK'
  BY <1>19 DEF Timeout, Stopping
<1>20. CASE UNCHANGED vars
  BY <1>20 DEF vars
<1> QED
  BY <1>1, <1>2, <1>3, <1>4, <1>5, <1>6, <1>7, <1>8, <1>9, <1>10,
     <1>11, <1>12, <1>13, <1>14, <1>15, <1>16, <1>17, <1>18, <1>19, <1>20
     DEF Next, Starting, Work, Stop

\* Every variable keeps its type, for every service and any number of faults.
THEOREM TypeCorrect == Spec => []TypeOK
<1> QED
  BY InitTypes, TypeStep, PTL DEF Spec

-----------------------------------------------------------------------------
(* Stores outlive batches *)

\* At the start nothing runs.
LEMMA InitWork == Init => WorkInv
  BY SomeResources DEF Init, WorkInv, Stores, Flow

\* Every step keeps what runs and what it needs.
LEMMA WorkStep ==
  ASSUME TypeOK, WorkInv, [Next]_vars
  PROVE  WorkInv'
<1> USE LifecycleAssumption, Sequences, ConsumerFirst, SomeResources
    DEF TypeOK, WorkInv, Fault, Close, CloseFails, CloseHangs, Exit,
        RequestShutdown, startVars, stopVars, workVars, closeVars, Flow, Stores
<1>1. ASSUME Connect
       PROVE  WorkInv'
  BY <1>1 DEF Connect, Item
<1>2. ASSUME RollbackStep
       PROVE  WorkInv'
  BY <1>2 DEF RollbackStep
<1>3. ASSUME RolledBack
       PROVE  WorkInv'
  BY <1>3 DEF RolledBack
<1>4. ASSUME Initialized
       PROVE  WorkInv'
  BY <1>4 DEF Initialized
<1>5. ASSUME Consume
       PROVE  WorkInv'
  BY <1>5 DEF Consume
<1>6. ASSUME ConnectFails
       PROVE  WorkInv'
  BY <1>6 DEF ConnectFails
<1>7. ASSUME RollbackHangs
       PROVE  WorkInv'
  BY <1>7 DEF RollbackHangs
<1>8. ASSUME RunFails
       PROVE  WorkInv'
  BY <1>8 DEF RunFails
<1>9. ASSUME StartBatch
       PROVE  WorkInv'
  BY <1>9 DEF StartBatch
<1>10. ASSUME EndBatch
       PROVE  WorkInv'
  BY <1>10 DEF EndBatch
<1>11. ASSUME StartSnapshot
       PROVE  WorkInv'
  BY <1>11 DEF StartSnapshot
<1>12. ASSUME EndSnapshot
       PROVE  WorkInv'
  BY <1>12 DEF EndSnapshot
<1>13. ASSUME Signal
       PROVE  WorkInv'
  BY <1>13 DEF Signal
<1>14. ASSUME Uncaught
       PROVE  WorkInv'
  BY <1>14 DEF Uncaught
<1>15. ASSUME NEW k \in Flow, StopStep(k)
       PROVE  WorkInv'
  <2>1. service # "collector" /\ step[k] = 1 => Closing(k) = "consumer"
    BY DEF Closing
  <2>2. \A j \in Flow : step'[j] = IF j = k THEN step[k] + 1 ELSE step[j]
    BY <1>15 DEF StopStep
  <2>3. /\ Closing(k) \in Resources /\ step[k] >= 1
        /\ \A r \in Resources : calls'[r] # 0 => calls[r] # 0 \/ r = Closing(k)
    <3>1. step[k] >= 1 /\ Closing(k) \in Resources
      BY <1>15, ClosesResources DEF StopStep
    <3>2. calls' = [calls EXCEPT ![Closing(k)] = calls[Closing(k)] + 1]
      BY <1>15 DEF StopStep
    <3> QED
      BY <3>1, <3>2
  <2>4. service # "collector" => \A r \in Stores : calls'[r] # 0 => calls[r] # 0 \/ step[k] > 1
    BY <2>1, <2>3
  <2>5. UNCHANGED <<phase, service, context, shuttingDown, batch, revived>>
    BY <1>15 DEF StopStep
  <2>6. \/ "consumer" \in broken'
        \/ service = "collector" \/ step[k] # 1
        \/ "consumer" \notin open' /\ ~batch
    BY <1>15, <2>1 DEF StopStep
  <2>7. open' \subseteq open /\ broken \subseteq broken'
    BY <1>15 DEF StopStep
  <2>8. context /\ shuttingDown
    BY <2>3
  <2> QED
    BY <2>2, <2>3, <2>4, <2>5, <2>6, <2>7, <2>8
<1>16. ASSUME NEW k \in Flow, Stopped(k)
       PROVE  WorkInv'
  BY <1>16 DEF Stopped
<1>17. ASSUME NEW k \in Flow, CheckpointsFail(k)
       PROVE  WorkInv'
  BY <1>17 DEF CheckpointsFail, Stopping, Closing
<1>18. ASSUME NEW k \in Flow, StopHangs(k)
       PROVE  WorkInv'
  <2>1. service # "collector" /\ step[k] = 1 => Closing(k) = "consumer"
    BY DEF Closing
  <2>2. /\ Closing(k) \in Resources /\ step[k] >= 1
        /\ \A r \in Resources : calls'[r] # 0 => calls[r] # 0 \/ r = Closing(k)
    <3>1. step[k] >= 1 /\ Closing(k) \in Resources
      BY <1>18, ClosesResources DEF StopHangs
    <3>2. calls' = [calls EXCEPT ![Closing(k)] = calls[Closing(k)] + 1]
      BY <1>18 DEF StopHangs
    <3> QED
      BY <3>1, <3>2
  <2>3. service # "collector" => \A r \in Stores : calls'[r] # 0 => calls[r] # 0 \/ step[k] > 1
    BY <2>1, <2>2
  <2>4. UNCHANGED <<phase, service, context, shuttingDown, step, batch, revived, open, broken>>
    BY <1>18 DEF StopHangs
  <2> QED
    BY <2>2, <2>3, <2>4
<1>19. ASSUME NEW k \in Flow, Timeout(k)
       PROVE  WorkInv'
  BY <1>19 DEF Timeout, Stopping
<1>20. CASE UNCHANGED vars
  BY <1>20 DEF vars
<1> QED
  BY <1>1, <1>2, <1>3, <1>4, <1>5, <1>6, <1>7, <1>8, <1>9, <1>10,
     <1>11, <1>12, <1>13, <1>14, <1>15, <1>16, <1>17, <1>18, <1>19, <1>20
     DEF Next, Starting, Work, Stop

\* Whatever fails, hangs or is signalled, a batch ends before a store it
\* writes to is closed, as long as the consumer was disconnected for good.
THEOREM NothingClosesUnderBatch == Spec => []StoresOutliveBatch
<1>1. TypeOK /\ WorkInv => StoresOutliveBatch
  BY DEF TypeOK, WorkInv, StoresOutliveBatch, Stores
<1>2. Spec => []WorkInv
  BY InitWork, WorkStep, TypeCorrect, PTL DEF Spec
<1> QED
  BY <1>1, <1>2, TypeCorrect, PTL

-----------------------------------------------------------------------------
(* Everything is released once *)

\* No resource is connected or closed twice, and what is connected is closed.
LEMMA DistinctSteps ==
  ASSUME NEW s \in DOMAIN Startup
  PROVE  /\ Distinct(Startup[s]) /\ Distinct(Shutdown[s]) /\ Len(Shutdown[s]) >= 1
         /\ \A r \in Resources :
               (\E m \in 1 .. Len(Shutdown[s]) : Shutdown[s][m] = r)
                  <=> \E m \in 1 .. Len(Startup[s]) : Startup[s][m] = r
<1>1. s \in {"persister", "trends", "brief", "collector"}
  BY DEF Startup
<1>2. CASE s = "persister"
  BY <1>2 DEF Distinct, Startup, Shutdown, PersisterStartup, PersisterShutdown
<1>3. CASE s = "trends"
  <2>1. "allowlist" \notin Resources
    BY DEF Resources, Loads
  <2> QED
    BY <1>3, <2>1 DEF Distinct, Startup, Shutdown, TrendsStartup, TrendsShutdown
<1>4. CASE s = "brief"
  BY <1>4 DEF Distinct, Startup, Shutdown, BriefStartup, BriefShutdown
<1>5. CASE s = "collector"
  <2>1. "allowlist" \notin Resources /\ "filters" \notin Resources
    BY DEF Resources, Loads
  <2> QED
    BY <1>5, <2>1 DEF Distinct, Startup, Shutdown, CollectorStartup, CollectorShutdown
<1> QED
  BY <1>1, <1>2, <1>3, <1>4, <1>5

\* A step registered.
LEMMA Registered ==
  ASSUME NEW s \in Seq(Resources), Distinct(s), NEW r \in Resources, r \notin ToSet(s)
  PROVE  Distinct(<<r>> \o s) /\ ToSet(<<r>> \o s) = ToSet(s) \cup {r}
<1> DEFINE t == <<r>> \o s
<1>1. /\ t \in Seq(Resources) /\ Len(t) = Len(s) + 1 /\ Len(s) \in Nat
      /\ t[1] = r /\ \A m \in 1 .. Len(s) : t[m + 1] = s[m]
  <2>1. <<r>> \in Seq(Resources) /\ Len(<<r>>) = 1 /\ <<r>>[1] = r /\ Len(s) \in Nat
    OBVIOUS
  <2> QED
    BY <2>1, ConcatProperties
<1> HIDE DEF t
<1>2. \A m \in 1 .. Len(s) : s[m] # r
  BY DEF ToSet
<1>3. \A m \in 2 .. Len(t) : t[m] = s[m - 1] /\ m - 1 \in 1 .. Len(s)
  <2>1. TAKE m \in 2 .. Len(t)
  <2>2. m - 1 \in 1 .. Len(s) /\ (m - 1) + 1 = m
    BY <1>1
  <2> QED
    BY <1>1, <2>2
<1>4. Distinct(t)
  <2> SUFFICES ASSUME NEW m \in 1 .. Len(t), NEW n \in 1 .. Len(t), t[m] = t[n]
               PROVE  m = n
    BY DEF Distinct
  <2>1. CASE m = 1 \/ n = 1
    BY <1>1, <1>2, <1>3, <2>1
  <2>2. CASE m # 1 /\ n # 1
    BY <1>1, <1>3, <2>2 DEF Distinct
  <2> QED
    BY <2>1, <2>2
<1>5. ToSet(t) = ToSet(s) \cup {r}
  <2>1. DOMAIN t = 1 .. Len(t) /\ DOMAIN s = 1 .. Len(s)
    BY <1>1
  <2>2. ASSUME NEW x PROVE x \in ToSet(t) <=> x \in ToSet(s) \cup {r}
    <3>1. ASSUME x \in ToSet(t) PROVE x \in ToSet(s) \cup {r}
      <4>1. PICK m \in 1 .. Len(t) : x = t[m]
        BY <2>1, <3>1 DEF ToSet
      <4>2. m = 1 \/ m \in 2 .. Len(t)
        BY <1>1
      <4>3. m = 1 => x = r
        BY <1>1, <4>1
      <4>4. m \in 2 .. Len(t) => x = s[m - 1] /\ m - 1 \in 1 .. Len(s)
        BY <1>3, <4>1
      <4> QED
        BY <2>1, <4>2, <4>3, <4>4 DEF ToSet
    <3>2. ASSUME x \in ToSet(s) PROVE x \in ToSet(t)
      <4>1. PICK m \in 1 .. Len(s) : x = s[m]
        BY <2>1, <3>2 DEF ToSet
      <4>2. m + 1 \in 1 .. Len(t) /\ t[m + 1] = x
        BY <1>1, <4>1
      <4> QED
        BY <2>1, <4>2 DEF ToSet
    <3>3. r \in ToSet(t)
      BY <1>1, <2>1 DEF ToSet
    <3> QED
      BY <3>1, <3>2, <3>3
  <2> QED
    BY <2>2
<1> QED
  BY <1>4, <1>5 DEF t

\* A step taken.
LEMMA Taken ==
  ASSUME NEW s \in Seq(Resources), Distinct(s), s # <<>>
  PROVE  /\ Head(s) \in ToSet(s) /\ Tail(s) \in Seq(Resources) /\ Distinct(Tail(s))
         /\ ToSet(Tail(s)) = ToSet(s) \ {Head(s)}
<1> DEFINE t == Tail(s)
<1>1. /\ t \in Seq(Resources) /\ Len(s) \in Nat /\ Len(s) >= 1 /\ Len(t) = Len(s) - 1
      /\ \A m \in 1 .. Len(t) : t[m] = s[m + 1]
      /\ Head(s) = s[1]
  BY HeadTailProperties
<1> HIDE DEF t
<1>2. DOMAIN t = 1 .. Len(t) /\ DOMAIN s = 1 .. Len(s)
  BY <1>1
<1>3. Head(s) \in ToSet(s)
  BY <1>1, <1>2 DEF ToSet
<1>4. Distinct(t)
  <2> SUFFICES ASSUME NEW m \in 1 .. Len(t), NEW n \in 1 .. Len(t), t[m] = t[n]
               PROVE  m = n
    BY DEF Distinct
  <2>1. m + 1 \in 1 .. Len(s) /\ n + 1 \in 1 .. Len(s) /\ s[m + 1] = s[n + 1]
    BY <1>1
  <2>2. m + 1 = n + 1
    BY <2>1 DEF Distinct
  <2> QED
    BY <2>2
<1>5. ASSUME NEW x PROVE x \in ToSet(t) <=> x \in ToSet(s) \ {Head(s)}
  <2>1. ASSUME x \in ToSet(t) PROVE x \in ToSet(s) \ {Head(s)}
    <3>1. PICK m \in 1 .. Len(t) : x = t[m]
      BY <1>2, <2>1 DEF ToSet
    <3>2. m + 1 \in 1 .. Len(s) /\ x = s[m + 1] /\ m + 1 # 1 /\ 1 \in 1 .. Len(s)
      BY <1>1, <3>1
    <3>3. s[m + 1] # s[1]
      BY <3>2 DEF Distinct
    <3> QED
      BY <1>1, <1>2, <3>2, <3>3 DEF ToSet
  <2>2. ASSUME x \in ToSet(s) \ {Head(s)} PROVE x \in ToSet(t)
    <3>1. PICK m \in 1 .. Len(s) : x = s[m] /\ m # 1
      BY <1>1, <1>2, <2>2 DEF ToSet
    <3>2. m - 1 \in 1 .. Len(t) /\ (m - 1) + 1 = m
      BY <1>1, <3>1
    <3>3. t[m - 1] = x
      BY <1>1, <3>1, <3>2
    <3> QED
      BY <1>2, <3>2, <3>3 DEF ToSet
  <2> QED
    BY <2>1, <2>2
<1>6. ToSet(t) = ToSet(s) \ {Head(s)}
  BY <1>5
<1> QED
  BY <1>1, <1>3, <1>4, <1>6 DEF t

\* Nothing is registered in an empty rollback.
LEMMA NothingLeft == ToSet(<<>>) = {} /\ \A s \in Seq(Resources) : ToSet(s) = {} => s = <<>>
<1>1. ToSet(<<>>) = {}
  BY DEF ToSet
<1>2. ASSUME NEW s \in Seq(Resources), s # <<>> PROVE ToSet(s) # {}
  <2>1. Len(s) \in Nat /\ Len(s) # 0 /\ DOMAIN s = 1 .. Len(s)
    BY <1>2, EmptySeq
  <2>2. 1 \in DOMAIN s
    BY <2>1
  <2> QED
    BY <2>2 DEF ToSet
<1> QED
  BY <1>1, <1>2

\* What ReleasedOnce compares with.
LEMMA Asked ==
  ASSUME TypeOK, NEW r \in Resources
  PROVE  r \in ToSet(SubSeq(Startup[service], 1, next - 1)) <=> r \in Connected
<1> DEFINE s == Startup[service]
           t == SubSeq(s, 1, next - 1)
<1>1. /\ service \in DOMAIN Startup /\ Len(s) \in Nat /\ next \in 1 .. Len(s) + 1
      /\ \A n \in 1 .. Len(s) : s[n] \in Resources \cup Loads
  BY LifecycleAssumption, Sequences DEF TypeOK
<1>2. s \in Seq(Resources \cup Loads)
  <2>1. DOMAIN s = 1 .. Len(s)
    BY <1>1 DEF Startup, PersisterStartup, TrendsStartup, BriefStartup, CollectorStartup
  <2>2. s \in [1 .. Len(s) -> Resources \cup Loads]
    BY <1>1, <2>1 DEF Startup, PersisterStartup, TrendsStartup, BriefStartup, CollectorStartup
  <2> QED
    BY <1>1, <2>2
<1> HIDE DEF s
<1>3. Len(t) = next - 1 /\ DOMAIN t = 1 .. next - 1 /\ \A m \in 1 .. next - 1 : t[m] = s[m]
  BY <1>1, <1>2
<1> HIDE DEF t
<1>4. ToSet(t) = {s[m] : m \in 1 .. next - 1}
  BY <1>3 DEF ToSet
<1>5. r \notin Loads
  BY DEF Resources
<1> QED
  BY <1>4, <1>5 DEF Connected, s, t

\* At the start nothing is connected.
LEMMA InitRelease == Init => ReleaseInv
<1> SUFFICES ASSUME Init PROVE ReleaseInv
  OBVIOUS
<1>1. Connected = {} /\ ToSet(rollback) = {}
  BY NothingLeft DEF Init, Connected
<1>2. Distinct(rollback)
  BY DEF Init, Distinct
<1>3. step[2] = 0 /\ \A r \in Resources : calls[r] = 0
  BY DEF Init, Flow
<1> QED
  BY <1>1, <1>2, <1>3 DEF Init, ReleaseInv, ReleasedOnce

\* A process that is not cut short by a request has nothing left to close.
LEMMA RequestReleases ==
  ASSUME TypeOK, WorkInv, ReleaseInv, Alive, NEW c \in {0, 1}, RequestShutdown(c),
         UNCHANGED <<service, next, context, rollback, closeVars>>,
         phase' = phase \/ (phase \in {"run", "running"} /\ phase' = "failed")
  PROVE  ReleaseInv'
<1> USE DEF TypeOK
<1>1. UNCHANGED <<Connected, ToSet(rollback)>> /\ Distinct(rollback)'
  BY DEF Connected, ReleaseInv
<1>2. step'[2] = 0
  BY DEF RequestShutdown, stopVars, ReleaseInv, Flow
<1>3. CASE ~context /\ ~shuttingDown
  <2>1. phase' = phase /\ phase \in {"init", "rollback"} /\ UNCHANGED step
    BY <1>3 DEF ReleaseInv, RequestShutdown
  <2>2. ASSUME open = {} PROVE \A r \in Resources : calls[r] = IF r \in Connected THEN 1 ELSE 0
    <3>1. CASE phase = "init"
      BY <2>2, <3>1 DEF ReleaseInv
    <3>2. CASE phase = "rollback"
      <4>1. ToSet(rollback) = {}
        BY <2>2, <3>2 DEF ReleaseInv
      <4>2. rollback = <<>>
        BY <4>1, NothingLeft
      <4> QED
        BY <3>2, <4>1, <4>2 DEF ReleaseInv, ClosesOnce
    <3> QED
      BY <2>1, <3>1, <3>2
  <2>3. exit' # None => cut' = (open # {})
    BY <1>3 DEF RequestShutdown, Exit
  <2>4. ReleasedOnce'
    <3> SUFFICES ASSUME exit' # None, ~cut', NEW r \in Resources
                 PROVE  calls[r] = IF r \in Connected THEN 1 ELSE 0
      BY Asked DEF ReleasedOnce, closeVars
    <3> QED
      BY <2>2, <2>3
  <2> QED
    BY <1>1, <1>2, <2>1, <2>4 DEF ReleaseInv, ClosesOnce, closeVars
<1>4. CASE context \/ shuttingDown
  <2>1. exit' = None /\ UNCHANGED <<exit, cut>>
    BY <1>4 DEF Alive, RequestShutdown, stopVars
  <2>2. ReleasedOnce'
    BY <2>1 DEF ReleasedOnce
  <2>3. CASE phase \in {"init", "rollback"}
    BY <1>1, <1>2, <2>2, <2>3 DEF ReleaseInv, ClosesOnce, closeVars
  <2>4. CASE phase \notin {"init", "rollback"}
    <3>1. context /\ (shuttingDown \/ step[1] = 0)
      BY <2>4 DEF ReleaseInv, WorkInv, Flow
    <3>2. UNCHANGED step \/ (step[1] = 0 /\ step'[1] = 1)
      BY <3>1 DEF RequestShutdown, stopVars, Flow
    <3>3. Closed(1) = {} /\ \A n : Closed(n)' = Closed(n)
      BY DEF Closed
    <3>4. StopsOnce' <=> StopsOnce
      BY <3>2, <3>3 DEF StopsOnce, closeVars
    <3>5. Len(Shutdown[service]) >= 1
      BY DistinctSteps, LifecycleAssumption
    <3>6. (step[1] <= Len(Shutdown[service]))' \/ ~(step[1] <= Len(Shutdown[service]))
      BY <3>2, <3>5
    <3> QED
      BY <1>1, <1>2, <2>1, <2>2, <2>4, <3>1, <3>4, <3>6 DEF ReleaseInv, closeVars, Alive
  <2> QED
    BY <2>3, <2>4
<1> QED
  BY <1>3, <1>4

\* A step that connects, closes and exits nothing.
LEMMA NothingReleased ==
  ASSUME TypeOK, ReleaseInv,
         UNCHANGED <<service, next, rollback, step, calls, hung, open, context, exit, cut>>,
         phase' = phase \/ {phase, phase'} \cap {"init", "rollback"} = {}
  PROVE  ReleaseInv'
<1>1. UNCHANGED <<Connected, ToSet(rollback)>> /\ Distinct(rollback)'
  BY DEF Connected, ReleaseInv
<1>2. \A n : Closed(n)' = Closed(n)
  BY DEF Closed
<1>3. ReleasedOnce'
  BY DEF ReleaseInv, ReleasedOnce
<1>4. (ClosesOnce' <=> ClosesOnce) /\ (StopsOnce' <=> StopsOnce)
  BY <1>1, <1>2 DEF ClosesOnce, StopsOnce
<1> QED
  BY <1>1, <1>3, <1>4 DEF ReleaseInv

\* Every step keeps what was asked to close.
LEMMA ReleaseStep ==
  ASSUME TypeOK, WorkInv, ReleaseInv, [Next]_vars
  PROVE  ReleaseInv'
<1> USE DEF startVars, stopVars, workVars, closeVars
<1>1. ASSUME Connect
       PROVE  ReleaseInv'
  <2> DEFINE n == next
  <2>1. /\ phase = "init" /\ phase' = "init" /\ n \in 1 .. Len(Startup[service])
        /\ next' = n + 1 /\ Len(Startup[service]) \in Nat
    BY <1>1, Sequences, LifecycleAssumption DEF Connect, TypeOK
  <2>2. /\ Item \in Resources \cup Loads
        /\ \A m \in 1 .. n - 1 : Startup[service][m] # Item
    BY <2>1, Sequences, DistinctSteps, LifecycleAssumption DEF Item, Distinct, TypeOK
  <2>3. Connected' = (Connected \cup {Item}) \ Loads /\ Item \notin Connected
    <3>1. 1 .. next' - 1 = (1 .. n - 1) \cup {n}
      BY <2>1
    <3>2. UNCHANGED service
      BY <1>1 DEF Connect
    <3> QED
      BY <2>2, <3>1, <3>2 DEF Connected, Item
  <2>4. CASE Item \in Loads
    <3>1. Connected' = Connected /\ UNCHANGED <<open, rollback>>
      BY <1>1, <2>3, <2>4 DEF Connect, Connected
    <3> QED
      BY <1>1, <2>1, <3>1 DEF Connect, Alive, ReleaseInv, ReleasedOnce
  <2>5. CASE Item \notin Loads
    <3>1. /\ Connected' = Connected \cup {Item} /\ open' = open \cup {Item}
          /\ rollback' = <<Item>> \o rollback
      BY <1>1, <2>3, <2>5 DEF Connect, Connected
    <3>2. Distinct(rollback') /\ ToSet(rollback') = ToSet(rollback) \cup {Item}
      BY <2>1, <2>2, <2>3, <2>5, <3>1, Registered DEF ReleaseInv, TypeOK
    <3> QED
      BY <1>1, <2>1, <3>1, <3>2 DEF Connect, Alive, ReleaseInv, ReleasedOnce, Distinct
  <2> QED
    BY <2>4, <2>5
<1>2. ASSUME RollbackStep
       PROVE  ReleaseInv'
  <2> DEFINE r == Head(rollback)
  <2>1. /\ phase = "rollback" /\ rollback # <<>> /\ hung = {} /\ exit' = None
        /\ rollback' = Tail(rollback) /\ open \ {r} \subseteq open'
        /\ calls' = [calls EXCEPT ![r] = @ + 1]
        /\ UNCHANGED <<phase, service, next, step, hung>>
    BY <1>2 DEF RollbackStep, Alive, Close, CloseFails
  <2>2. /\ r \in ToSet(rollback) /\ Distinct(rollback')
        /\ ToSet(rollback') = ToSet(rollback) \ {r}
    BY <2>1, Taken DEF ReleaseInv, TypeOK
  <2>3. Connected' = Connected /\ ToSet(rollback) \subseteq open \cap Connected /\ ClosesOnce
    BY <2>1 DEF Connected, ReleaseInv
  <2>4. ClosesOnce'
    <3> SUFFICES ASSUME NEW x \in Resources
                 PROVE  calls'[x] = IF x \in Connected \ ToSet(rollback') THEN 1 ELSE 0
      BY <2>3 DEF ClosesOnce
    <3>1. calls[x] = IF x \in Connected \ ToSet(rollback) THEN 1 ELSE 0
      BY <2>3 DEF ClosesOnce
    <3>2. calls'[x] = IF x = r THEN calls[x] + 1 ELSE calls[x]
      BY <2>1 DEF TypeOK
    <3> QED
      BY <2>2, <2>3, <3>1, <3>2
  <2>5. ToSet(rollback') \subseteq open' \cap Connected'
    BY <2>1, <2>2, <2>3
  <2> QED
    BY <2>1, <2>2, <2>4, <2>5 DEF ReleaseInv, ReleasedOnce, Distinct
<1>3. ASSUME RolledBack
       PROVE  ReleaseInv'
  <2>1. /\ phase = "rollback" /\ rollback = <<>>
        /\ UNCHANGED <<phase, service, next, rollback, step, calls, hung, open>>
    BY <1>3 DEF RolledBack
  <2>2. UNCHANGED Connected /\ ClosesOnce /\ hung = {} /\ ToSet(rollback) = {}
    BY <2>1, NothingLeft DEF Connected, ReleaseInv
  <2>3. ReleasedOnce'
    BY <2>1, <2>2, Asked DEF ReleasedOnce, ClosesOnce
  <2> QED
    BY <2>1, <2>2, <2>3 DEF ReleaseInv, ClosesOnce, Distinct
<1>4. ASSUME Initialized
       PROVE  ReleaseInv'
  <2>1. /\ phase = "init" /\ phase' \notin {"init", "rollback"} /\ context' /\ exit' = None
        /\ next > Len(Startup[service])
        /\ UNCHANGED <<service, next, rollback, step, calls, hung>>
    BY <1>4 DEF Initialized, Alive
  <2>2. next = Len(Startup[service]) + 1
    BY <2>1, Sequences, LifecycleAssumption DEF TypeOK
  <2>3. step[1] = 0
    BY <2>1 DEF WorkInv, Flow
  <2>4. StopsOnce'
    BY <2>1, <2>3 DEF StopsOnce, ReleaseInv
  <2> QED
    BY <2>1, <2>2, <2>4 DEF ReleaseInv, ReleasedOnce, Distinct
<1>5. ASSUME Consume
       PROVE  ReleaseInv'
  <2>1. /\ {phase, phase'} \cap {"init", "rollback"} = {} /\ exit' = None
        /\ UNCHANGED <<service, next, rollback, context, step, calls, hung>>
    BY <1>5 DEF Consume, Alive
  <2>2. StopsOnce' <=> StopsOnce
    BY <2>1 DEF StopsOnce, Closed
  <2> QED
    BY <1>5, <2>1, <2>2 DEF ReleaseInv, ReleasedOnce, Distinct, Consume, Alive
<1>6. ASSUME ConnectFails
       PROVE  ReleaseInv'
  <2>1. /\ phase = "init" /\ phase' = "rollback" /\ exit' = None
        /\ UNCHANGED <<service, next, rollback, step, calls, hung, open>>
    BY <1>6 DEF ConnectFails, Alive
  <2>2. UNCHANGED Connected /\ ClosesOnce'
    BY <2>1 DEF Connected, ClosesOnce, ReleaseInv
  <2> QED
    BY <2>1, <2>2 DEF ReleaseInv, ReleasedOnce, Distinct
<1>7. ASSUME RollbackHangs
       PROVE  ReleaseInv'
  <2>1. /\ phase = "rollback" /\ rollback # <<>> /\ exit' = None /\ hung' # {}
        /\ UNCHANGED <<phase, service, next, rollback, step, open>>
    BY <1>7 DEF RollbackHangs, Alive, CloseHangs
  <2>2. UNCHANGED Connected
    BY <2>1 DEF Connected
  <2> QED
    BY <2>1, <2>2 DEF ReleaseInv, ReleasedOnce, Distinct
<1>8. ASSUME RunFails
       PROVE  ReleaseInv'
  BY <1>8, RequestReleases DEF RunFails
<1>9. ASSUME StartBatch
       PROVE  ReleaseInv'
  BY <1>9, NothingReleased DEF StartBatch
<1>10. ASSUME EndBatch
       PROVE  ReleaseInv'
  BY <1>10, NothingReleased DEF EndBatch
<1>11. ASSUME StartSnapshot
       PROVE  ReleaseInv'
  BY <1>11, NothingReleased DEF StartSnapshot
<1>12. ASSUME EndSnapshot
       PROVE  ReleaseInv'
  <2>1. phase' = phase \/ {phase, phase'} \cap {"init", "rollback"} = {}
    BY <1>12 DEF EndSnapshot
  <2> QED
    BY <1>12, <2>1, NothingReleased DEF EndSnapshot
<1>13. ASSUME Signal
       PROVE  ReleaseInv'
  BY <1>13, RequestReleases DEF Signal
<1>14. ASSUME Uncaught
       PROVE  ReleaseInv'
  BY <1>14, RequestReleases DEF Uncaught
<1>15. ASSUME NEW k \in Flow, StopStep(k)
       PROVE  ReleaseInv'
  <2> DEFINE n == step[k]
             r == Closing(k)
  <2>1. /\ k = 1 /\ n \in 1 .. Len(Shutdown[service]) /\ r \in Resources
        /\ phase \notin {"init", "rollback"}
    BY <1>15, ClosesResources, Sequences, LifecycleAssumption
       DEF StopStep, Stopping, ReleaseInv, WorkInv, Flow, TypeOK
  <2>2. /\ exit' = None /\ hung' = {} /\ hung = {}
        /\ UNCHANGED <<phase, service, next, rollback, context>>
        /\ calls' = [calls EXCEPT ![r] = @ + 1]
        /\ step' = [step EXCEPT ![k] = @ + 1]
    BY <1>15 DEF StopStep, Stopping, Alive, Close, CloseFails
  <2>3. step'[1] = n + 1 /\ step'[2] = 0
    BY <2>1, <2>2 DEF TypeOK, ReleaseInv, Flow
  <2>4. Closed(step[1])' = Closed(n) \cup {r} /\ r \notin Closed(n)
    <3>1. 1 .. step'[1] - 1 = (1 .. n - 1) \cup {n}
      BY <2>1, <2>3
    <3>2. \A m \in 1 .. n - 1 : Shutdown[service][m] # r
      BY <2>1, DistinctSteps, Sequences, LifecycleAssumption DEF Distinct, Closing, TypeOK
    <3> QED
      BY <2>2, <3>1, <3>2 DEF Closed, Closing
  <2>5. StopsOnce'
    <3> SUFFICES ASSUME NEW x \in Resources
                 PROVE  calls'[x] = IF x \in Closed(step[1])' THEN 1 ELSE 0
      BY <2>1, <2>3 DEF StopsOnce
    <3>1. calls[x] = IF x \in Closed(n) THEN 1 ELSE 0
      BY <1>15, <2>1, <2>2 DEF StopsOnce, ReleaseInv, StopStep, Stopping, Alive
    <3>2. calls'[x] = IF x = r THEN calls[x] + 1 ELSE calls[x]
      BY <2>2 DEF TypeOK
    <3> QED
      BY <2>4, <3>1, <3>2
  <2> QED
    BY <2>1, <2>2, <2>3, <2>5 DEF ReleaseInv, ReleasedOnce, Distinct
<1>16. ASSUME NEW k \in Flow, Stopped(k)
       PROVE  ReleaseInv'
  <2>1. /\ k = 1 /\ step[1] = Len(Shutdown[service]) + 1
        /\ phase \notin {"init", "rollback"} /\ Len(Shutdown[service]) \in Nat
    BY <1>16, Sequences, LifecycleAssumption
       DEF Stopped, ReleaseInv, WorkInv, Flow, TypeOK
  <2>2. UNCHANGED <<phase, service, next, rollback, context, step, calls, hung, open>>
    BY <1>16 DEF Stopped
  <2>3. hung = {} /\ StopsOnce /\ next = Len(Startup[service]) + 1
    BY <1>16, <2>1 DEF ReleaseInv, Stopped, Alive
  <2>4. \A r \in Resources : r \in Closed(step[1]) <=> r \in Connected
    <3>1. step[1] - 1 = Len(Shutdown[service]) /\ next - 1 = Len(Startup[service])
      BY <2>1, <2>3, Sequences, LifecycleAssumption DEF TypeOK
    <3>2. \A r \in Resources : r \notin Loads
      BY DEF Resources
    <3>3. \A r : r \in Closed(step[1])
                     <=> \E m \in 1 .. Len(Shutdown[service]) : Shutdown[service][m] = r
      BY <3>1 DEF Closed
    <3>4. \A r \in Resources : r \in Connected
                     <=> \E m \in 1 .. Len(Startup[service]) : Startup[service][m] = r
      BY <3>1, <3>2 DEF Connected
    <3>5. service \in DOMAIN Startup
      BY LifecycleAssumption DEF TypeOK
    <3> QED
      BY <3>3, <3>4, <3>5, DistinctSteps
  <2>5. \A r \in Resources : calls[r] = IF r \in Connected THEN 1 ELSE 0
    BY <2>1, <2>3, <2>4 DEF StopsOnce
  <2>6. ReleasedOnce'
    BY <2>2, <2>5, Asked DEF ReleasedOnce
  <2>7. StopsOnce'
    BY <2>2, <2>3 DEF StopsOnce, Closed
  <2> QED
    BY <2>1, <2>2, <2>3, <2>6, <2>7 DEF ReleaseInv, Distinct
<1>17. ASSUME NEW k \in Flow, CheckpointsFail(k)
       PROVE  ReleaseInv'
  <2>1. /\ phase \notin {"init", "rollback"} /\ cut' /\ exit' # None /\ hung = {} /\ hung' = {}
        /\ UNCHANGED <<phase, service, next, rollback, context, step>>
    BY <1>17, LifecycleAssumption
       DEF CheckpointsFail, Stopping, CloseFails, Exit, ReleaseInv, WorkInv, Flow
  <2> QED
    BY <2>1 DEF ReleaseInv, ReleasedOnce, Distinct
<1>18. ASSUME NEW k \in Flow, StopHangs(k)
       PROVE  ReleaseInv'
  <2>1. /\ exit' = None /\ hung' # {} /\ k = 1 /\ step[1] <= Len(Shutdown[service])
        /\ phase \notin {"init", "rollback"}
        /\ UNCHANGED <<phase, service, next, rollback, context, step>>
    BY <1>18, ClosesResources
       DEF StopHangs, Stopping, Alive, CloseHangs, ReleaseInv, WorkInv, Flow
  <2> QED
    BY <2>1 DEF ReleaseInv, ReleasedOnce, Distinct
<1>19. ASSUME NEW k \in Flow, Timeout(k)
       PROVE  ReleaseInv'
  <2>1. /\ cut' /\ exit' # None
        /\ UNCHANGED <<phase, service, next, rollback, context, step, calls, hung, open>>
    BY <1>19, LifecycleAssumption DEF Timeout, Exit
  <2>2. UNCHANGED Connected /\ (ClosesOnce' <=> ClosesOnce) /\ (StopsOnce' <=> StopsOnce)
    BY <2>1 DEF Connected, ClosesOnce, StopsOnce, Closed
  <2> QED
    BY <2>1, <2>2 DEF ReleaseInv, ReleasedOnce, Distinct
<1>20. CASE UNCHANGED vars
  BY <1>20, NothingReleased DEF vars
<1> QED
  BY <1>1, <1>2, <1>3, <1>4, <1>5, <1>6, <1>7, <1>8, <1>9, <1>10,
     <1>11, <1>12, <1>13, <1>14, <1>15, <1>16, <1>17, <1>18, <1>19, <1>20
     DEF Next, Starting, Work, Stop

\* A process that ended by itself asked everything it connected to close once,
\* after a start that failed or a shutdown, whatever signals came meanwhile.
THEOREM ReleasesOnce == Spec => []ReleasedOnce
<1>1. Spec => []WorkInv
  BY InitWork, WorkStep, TypeCorrect, PTL DEF Spec
<1>2. Spec => []ReleaseInv
  BY <1>1, InitRelease, ReleaseStep, TypeCorrect, PTL DEF Spec
<1>3. ReleaseInv => ReleasedOnce
  BY DEF ReleaseInv
<1> QED
  BY <1>2, <1>3, PTL

=============================================================================
