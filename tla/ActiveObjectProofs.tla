------------------------- MODULE ActiveObjectProofs -------------------------
(***************************************************************************)
(* Safety of ActiveObject for every set of callers and of tasks.           *)
(***************************************************************************)
EXTENDS ActiveObject, DataLemmas

-----------------------------------------------------------------------------
LEMMA InitInv == Init => IInv
<1> SUFFICES ASSUME Init PROVE IInv
  OBVIOUS
<1>1. <<>> \in Seq(Tasks) /\ Len(<<>>) = 0
  BY EmptySeq
<1>2. TypeOK
  BY <1>1, TasksAssumption DEF Init, TypeOK
<1>3. FifoExactlyOnce
  BY <1>1, ConcatEmptySeq DEF Init, FifoExactlyOnce, InHand
<1>4. NoLostWakeup /\ StopDrains /\ Joining /\ Draining /\ ExitedDrained
  BY <1>1 DEF Init, NoLostWakeup, StopDrains, Joining, Draining, ExitedDrained,
              InHand
<1>. QED  BY <1>2, <1>3, <1>4 DEF IInv

\* The number of tasks pushed is the number executed, in hand and queued.
LEMMA Count ==
  ASSUME TypeOK, FifoExactlyOnce
  PROVE  /\ InHand \in Seq(Tasks)
         /\ Len(pushed) = Len(executed) + Len(InHand) + Len(queue)
         /\ Len(executed) \in Nat /\ Len(InHand) \in Nat /\ Len(queue) \in Nat
<1>1. InHand \in Seq(Tasks)
  BY EmptySeq, SingletonSeq DEF InHand, TypeOK
<1>2. executed \o InHand \in Seq(Tasks)
      /\ Len(executed \o InHand) = Len(executed) + Len(InHand)
  BY <1>1, ConcatProperties DEF TypeOK
<1>3. Len((executed \o InHand) \o queue) = Len(executed \o InHand) + Len(queue)
  BY <1>2, ConcatProperties DEF TypeOK
<1>. QED
  BY <1>1, <1>2, <1>3, LenProperties DEF TypeOK, FifoExactlyOnce

LEMMA NextInv == IInv /\ [Next]_vars => IInv'
<1> SUFFICES ASSUME IInv, [Next]_vars
             PROVE  IInv'
  OBVIOUS
<1> USE TasksAssumption
<1>a. /\ TypeOK /\ FifoExactlyOnce /\ NoLostWakeup /\ StopDrains
      /\ Joining /\ Draining /\ ExitedDrained
  BY DEF IInv
<1>b. /\ InHand \in Seq(Tasks)
      /\ Len(pushed) = Len(executed) + Len(InHand) + Len(queue)
      /\ Len(executed) \in Nat /\ Len(InHand) \in Nat /\ Len(queue) \in Nat
  BY <1>a, Count
<1>c. Len(<<>>) = 0
  BY EmptySeq
<1>1. ASSUME NEW c \in Callers, NEW t \in Tasks, EnqueuePush(c, t)
      PROVE  IInv'
  <2>1. TypeOK'
    BY <1>1, <1>a, AppendProperties DEF EnqueuePush, TypeOK
  <2>2. FifoExactlyOnce'
    <3>1. executed \o InHand \in Seq(Tasks)
      BY <1>a, <1>b, ConcatProperties DEF TypeOK
    <3>2. pushed' = pushed \o <<t>> /\ queue' = queue \o <<t>>
      BY <1>1, <1>a, AppendIsConcat DEF EnqueuePush, TypeOK
    <3>4. pushed \o <<t>> = (executed \o InHand) \o (queue \o <<t>>)
      BY <3>1, <1>a, PushConcat, SMTT(30) DEF TypeOK, FifoExactlyOnce
    <3>3. InHand' = InHand
      BY <1>1 DEF EnqueuePush, InHand
    <3>. QED
      BY <3>2, <3>3, <3>4, <1>1 DEF EnqueuePush, FifoExactlyOnce
  <2>3. Len(queue') = Len(queue) + 1 /\ InHand' = InHand
    BY <1>1, <1>a, AppendProperties DEF EnqueuePush, TypeOK, InHand
  <2>4. NoLostWakeup' /\ StopDrains' /\ Joining' /\ ExitedDrained'
    BY <1>1, <1>a DEF EnqueuePush, NoLostWakeup, StopDrains, Joining,
                      ExitedDrained, TypeOK
  <2>5. Draining'
    BY <2>3, <1>1, <1>a, <1>b DEF EnqueuePush, Draining, TypeOK
  <2>. QED  BY <2>1, <2>2, <2>4, <2>5 DEF IInv
<1>2. ASSUME NEW c \in Callers, EnqueueNotify(c)
      PROVE  IInv'
  <2>1. TypeOK' /\ InHand' = InHand
    BY <1>2, <1>a DEF EnqueueNotify, Notified, TypeOK, InHand
  <2>2. FifoExactlyOnce' /\ Draining'
    BY <2>1, <1>2, <1>a DEF EnqueueNotify, FifoExactlyOnce, Draining
  <2>3. NoLostWakeup' /\ StopDrains' /\ Joining' /\ ExitedDrained'
    BY <1>2, <1>a DEF EnqueueNotify, Notified, NoLostWakeup, StopDrains, Joining,
                      ExitedDrained
  <2>. QED  BY <2>1, <2>2, <2>3 DEF IInv
<1>3. CASE StartSetRunning
  <2>1. TypeOK' /\ InHand' = InHand
    BY <1>3, <1>a DEF StartSetRunning, TypeOK, InHand, Joining
  <2>2. FifoExactlyOnce' /\ Draining'
    BY <2>1, <1>3, <1>a DEF StartSetRunning, FifoExactlyOnce, Draining
  <2>3. NoLostWakeup' /\ StopDrains' /\ Joining' /\ ExitedDrained'
    BY <1>3, <1>a DEF StartSetRunning, NoLostWakeup, StopDrains, Joining, ExitedDrained
  <2>. QED  BY <2>1, <2>2, <2>3 DEF IInv
<1>4. CASE StartSpawnWorker
  <2>1. TypeOK' /\ InHand' = InHand
    BY <1>4, <1>a DEF StartSpawnWorker, TypeOK, InHand, Joining
  <2>2. FifoExactlyOnce' /\ Draining'
    BY <2>1, <1>4, <1>a DEF StartSpawnWorker, FifoExactlyOnce, Draining
  <2>3. NoLostWakeup' /\ StopDrains' /\ Joining' /\ ExitedDrained'
    BY <1>4, <1>a DEF StartSpawnWorker, NoLostWakeup, StopDrains, Joining, ExitedDrained
  <2>. QED  BY <2>1, <2>2, <2>3 DEF IInv
<1>5. CASE StopJoin
  <2>1. TypeOK' /\ InHand' = InHand
    BY <1>5, <1>a DEF StopJoin, TypeOK, InHand, Joining
  <2>2. FifoExactlyOnce' /\ Draining'
    BY <2>1, <1>5, <1>a DEF StopJoin, FifoExactlyOnce, Draining
  <2>3. NoLostWakeup' /\ StopDrains' /\ Joining' /\ ExitedDrained'
    BY <1>5, <1>a DEF StopJoin, NoLostWakeup, StopDrains, Joining, ExitedDrained
  <2>. QED  BY <2>1, <2>2, <2>3 DEF IInv
<1>6. CASE Destroy
  <2>1. TypeOK' /\ InHand' = InHand
    BY <1>6, <1>a DEF Destroy, TypeOK, InHand, Joining
  <2>2. FifoExactlyOnce' /\ Draining'
    BY <2>1, <1>6, <1>a DEF Destroy, FifoExactlyOnce, Draining
  <2>3. NoLostWakeup' /\ StopDrains' /\ Joining' /\ ExitedDrained'
    BY <1>6, <1>a DEF Destroy, NoLostWakeup, StopDrains, Joining, ExitedDrained
  <2>. QED  BY <2>1, <2>2, <2>3 DEF IInv
<1>7. CASE WorkerWait
  <2>1. TypeOK' /\ InHand' = InHand
    BY <1>7, <1>a DEF WorkerWait, TypeOK, InHand, Joining
  <2>2. FifoExactlyOnce' /\ Draining'
    BY <2>1, <1>7, <1>a DEF WorkerWait, FifoExactlyOnce, Draining
  <2>3. NoLostWakeup' /\ StopDrains' /\ Joining' /\ ExitedDrained'
    BY <1>7, <1>a DEF WorkerWait, NoLostWakeup, StopDrains, Joining, ExitedDrained
  <2>. QED  BY <2>1, <2>2, <2>3 DEF IInv
<1>8. CASE WorkerWakeSpuriously
  <2>1. TypeOK' /\ InHand' = InHand
    BY <1>8, <1>a DEF WorkerWakeSpuriously, TypeOK, InHand, Joining
  <2>2. FifoExactlyOnce' /\ Draining'
    BY <2>1, <1>8, <1>a DEF WorkerWakeSpuriously, FifoExactlyOnce, Draining
  <2>3. NoLostWakeup' /\ StopDrains' /\ Joining' /\ ExitedDrained'
    BY <1>8, <1>a DEF WorkerWakeSpuriously, NoLostWakeup, StopDrains, Joining, ExitedDrained
  <2>. QED  BY <2>1, <2>2, <2>3 DEF IInv
<1>9. CASE StopRequest
  <2>1. TypeOK' /\ InHand' = InHand
    BY <1>9, <1>a, LenProperties DEF StopRequest, Notified, TypeOK, InHand
  <2>2. FifoExactlyOnce'
    BY <2>1, <1>9, <1>a DEF StopRequest, FifoExactlyOnce
  <2>3. Draining'
    BY <2>1, <1>9, <1>b DEF StopRequest, Draining
  <2>4. NoLostWakeup' /\ StopDrains' /\ Joining' /\ ExitedDrained'
    BY <1>9, <1>a DEF StopRequest, Notified, NoLostWakeup, StopDrains, Joining,
                      ExitedDrained, TypeOK
  <2>. QED  BY <2>1, <2>2, <2>3, <2>4 DEF IInv
<1>10. CASE WorkerTake
  <2>1. Head(queue) \in Tasks /\ Tail(queue) \in Seq(Tasks)
        /\ Len(Tail(queue)) = Len(queue) - 1
    BY <1>10, <1>a, HeadTailProperties DEF WorkerTake, TypeOK
  <2>2. TypeOK'
    BY <2>1, <1>10, <1>a DEF WorkerTake, TypeOK
  <2>3. InHand = <<>> /\ InHand' = <<Head(queue)>>
    BY <1>10 DEF WorkerTake, InHand
  <2>4. FifoExactlyOnce'
    <3>1. (executed \o <<>>) \o queue
            = (executed \o <<Head(queue)>>) \o Tail(queue)
      BY <1>10, <1>a, PopIdentity DEF WorkerTake, TypeOK
    <3>. QED
      BY <3>1, <2>3, <1>10, <1>a DEF WorkerTake, FifoExactlyOnce
  <2>5. Draining'
    BY <2>1, <2>3, <1>10, <1>a, <1>b, <1>c DEF WorkerTake, Draining, TypeOK
  <2>6. NoLostWakeup' /\ StopDrains' /\ Joining' /\ ExitedDrained'
    BY <1>10, <1>a DEF WorkerTake, NoLostWakeup, StopDrains, Joining, ExitedDrained
  <2>. QED  BY <2>2, <2>4, <2>5, <2>6 DEF IInv
<1>11. CASE WorkerFinish
  <2>1. current \in Tasks
    BY <1>11, <1>a DEF WorkerFinish, TypeOK
  <2>2. Append(executed, current) \in Seq(Tasks)
        /\ Len(Append(executed, current)) = Len(executed) + 1
    BY <2>1, <1>a, AppendProperties DEF TypeOK
  <2>3. TypeOK'
    BY <2>2, <1>11, <1>a DEF WorkerFinish, TypeOK
  <2>4. InHand = <<current>> /\ InHand' = <<>>
    BY <1>11 DEF WorkerFinish, InHand
  <2>5. FifoExactlyOnce'
    <3>1. executed' = executed \o <<current>>
      BY <2>1, <1>11, <1>a, AppendIsConcat DEF WorkerFinish, TypeOK
    <3>2. executed \o <<current>> = (executed \o <<current>>) \o <<>>
      BY <2>1, <1>a, FinishIdentity DEF TypeOK
    <3>. QED
      BY <3>1, <3>2, <2>4, <1>11, <1>a DEF WorkerFinish, FifoExactlyOnce
  <2>6. Draining'
    BY <2>2, <2>4, <1>11, <1>a, <1>b, <1>c DEF WorkerFinish, Draining, TypeOK
  <2>7. NoLostWakeup' /\ StopDrains' /\ Joining' /\ ExitedDrained'
    BY <2>2, <1>11, <1>a, <1>b DEF WorkerFinish, NoLostWakeup, StopDrains, Joining,
                             ExitedDrained, TypeOK
  <2>. QED  BY <2>3, <2>5, <2>6, <2>7 DEF IInv
<1>12. CASE WorkerExit
  <2>1. TypeOK' /\ InHand' = <<>> /\ InHand = <<>>
    BY <1>12, <1>a DEF WorkerExit, TypeOK, InHand
  <2>2. FifoExactlyOnce' /\ Draining'
    BY <2>1, <1>12, <1>a DEF WorkerExit, FifoExactlyOnce, Draining
  <2>3. NoLostWakeup' /\ StopDrains' /\ Joining'
    BY <1>12, <1>a DEF WorkerExit, NoLostWakeup, StopDrains, Joining, TypeOK
  <2>4. ExitedDrained'
    BY <2>1, <1>12, <1>a, <1>b, <1>c DEF WorkerExit, Draining, ExitedDrained
  <2>. QED  BY <2>1, <2>2, <2>3, <2>4 DEF IInv
<1>13. CASE UNCHANGED vars
  BY <1>13 DEF vars, IInv, TypeOK, FifoExactlyOnce, NoLostWakeup, StopDrains,
               Joining, Draining, ExitedDrained, InHand
<1>. QED
  BY <1>1, <1>2, <1>3, <1>4, <1>5, <1>6, <1>7, <1>8, <1>9, <1>10, <1>11,
     <1>12, <1>13 DEF Next, Worker, Terminated

-----------------------------------------------------------------------------
(* The inductive invariant holds in every reachable state of one object,   *)
(* whatever the callers and the tasks (ActiveObject.cpp:16-105).           *)
THEOREM InvariantHolds == SafetySpec => []IInv
BY InitInv, NextInv, PTL DEF SafetySpec

(* The state keeps the types ActiveObject.hpp:19-23 declares, and the local *)
(* task of run() is set exactly while it executes.                         *)
THEOREM TypeCorrect == SafetySpec => []TypeOK
<1>. IInv => TypeOK
  BY DEF IInv
<1>. QED  BY InvariantHolds, PTL

(* Tasks are executed in the order of the pushes, each exactly once        *)
(* (ActiveObject.cpp:20,81-82).                                            *)
THEOREM FifoOrder == SafetySpec => []FifoExactlyOnce
<1>. IInv => FifoExactlyOnce
  BY DEF IInv
<1>. QED  BY InvariantHolds, PTL

(* The worker never sleeps on a true predicate with no notification on its *)
(* way (ActiveObject.cpp:22,49,69).                                        *)
THEOREM WakeupNeverLost == SafetySpec => []NoLostWakeup
<1>. IInv => NoLostWakeup
  BY DEF IInv
<1>. QED  BY InvariantHolds, PTL

(* When stop() has returned, every task pushed before it was called has    *)
(* been executed (ActiveObject.cpp:73-76).                                 *)
THEOREM StopDrainsQueue == SafetySpec => []StopDrains
<1>. IInv => StopDrains
  BY DEF IInv
<1>. QED  BY InvariantHolds, PTL

(* No joinable std::thread is overwritten or destroyed                     *)
(* (ActiveObject.cpp:36,51-54,12).                                         *)
THEOREM ThreadNeverOverwritten == SafetySpec => []NeverOverwritesThread
<1>. IInv => NeverOverwritesThread
  BY DEF IInv, Joining, NeverOverwritesThread
<1>. QED  BY InvariantHolds, PTL
=============================================================================
