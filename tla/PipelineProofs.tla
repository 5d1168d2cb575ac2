--------------------------- MODULE PipelineProofs ---------------------------
(***************************************************************************)
(* Safety of the pipeline for every number of stages, its refinement of    *)
(* the abstract service, and that each stage refines ActiveObject.         *)
(***************************************************************************)
EXTENDS PipelineStages, DataLemmas

(* The steps of the owner move to a neighbouring stage. *)
LEMMA NextStage ==
  ASSUME NEW s \in Stages
  PROVE  /\ s \in Int /\ s >= 0 /\ s <= Last
         /\ s # Last => s + 1 \in Stages
         /\ s + 1 \in 0 .. NumStages /\ s \in 0 .. NumStages /\ s # s + 1
         /\ 0 \in Stages /\ Last \in Stages /\ Last # 0 /\ Last + 1 = NumStages
BY NumStagesAssumption DEF Stages, Last

LEMMA NextTypes ==
  ASSUME PInv, [Next]_vars
  PROVE  Types'
<1> USE NumStagesAssumption, JobsAssumption DEF Stages, Last
<1>a. Types /\ JobsInHand
  BY DEF PInv, TypeOK
<1>1. CASE StartStage
  BY <1>1, <1>a DEF StartStage, Types, Workers, Owners
<1>2. CASE SpawnWorker
  <2>1. at = Last \/ at + 1 \in Stages
    BY <1>a, NextStage DEF Types
  <2>2. worker' \in [Stages -> Workers]
    BY <1>2, <1>a DEF SpawnWorker, Types, Workers
  <2>. QED
    BY <2>1, <2>2, <1>2, <1>a DEF SpawnWorker, Types, Owners
<1>3. CASE BeginStop
  BY <1>3, <1>a DEF BeginStop, Types, Workers, Owners
<1>4. CASE StopStage
  <2>1. Notified(at) \in Workers
    BY <1>a DEF Types, Notified, Workers
  <2>2. worker' \in [Stages -> Workers]
    BY <2>1, <1>4, <1>a DEF StopStage, Types
  <2>. QED
    BY <2>2, <1>4, <1>a DEF StopStage, Types, Owners
<1>5. CASE JoinStage
  <2>1. at = Last \/ at + 1 \in Stages
    BY <1>a, NextStage DEF Types
  <2>2. worker' \in [Stages -> Workers]
    BY <1>5, <1>a DEF JoinStage, Types, Workers
  <2>. QED
    BY <2>1, <2>2, <1>5, <1>a DEF JoinStage, Types, Owners
<1>6. ASSUME NEW h \in Handlers, NEW j \in Jobs, CalculateMetrics(h, j)
      PROVE  Types'
  BY <1>6, <1>a, AppendProperties DEF CalculateMetrics, Types, Workers, Owners
<1>7. ASSUME NEW h \in Handlers, NotifyFirst(h)
      PROVE  Types'
  BY <1>7, <1>a DEF NotifyFirst, Types, Workers, Owners, Notified
<1>8. ASSUME NEW s \in Stages, WorkerWait(s)
      PROVE  Types'
  BY <1>8, <1>a DEF WorkerWait, Types, Workers, Owners
<1>9. ASSUME NEW s \in Stages, WorkerWakeSpuriously(s)
      PROVE  Types'
  BY <1>9, <1>a DEF WorkerWakeSpuriously, Types, Workers, Owners
<1>10. ASSUME NEW s \in Stages, WorkerTake(s)
      PROVE  Types'
  BY <1>10, <1>a, HeadTailProperties DEF WorkerTake, Types, Workers, Owners
<1>11. ASSUME NEW s \in Stages, WorkerExit(s)
      PROVE  Types'
  BY <1>11, <1>a DEF WorkerExit, Types, Workers, Owners
<1>12. ASSUME NEW s \in Stages, Forward(s)
      PROVE  Types'
  <2>1. current[s] \in Jobs /\ s + 1 \in Stages
    BY <1>12, <1>a, NextStage DEF Forward, JobsInHand
  <2>2. Append(queue[s + 1], current[s]) \in Seq(Jobs)
        /\ Append(log[s + 1], current[s]) \in Seq(Jobs)
    BY <2>1, <1>a, NextStage, AppendProperties DEF Types
  <2>3. queue' \in [Stages -> Seq(Jobs)] /\ log' \in [0 .. NumStages -> Seq(Jobs)]
    BY <2>1, <2>2, <1>12, <1>a DEF Forward, Types
  <2>4. worker' \in [Stages -> Workers] /\ current' \in [Stages -> Jobs \cup {NoJob}]
    BY <1>12, <1>a DEF Forward, Types, Workers
  <2>. QED
    BY <2>3, <2>4, <1>12, <1>a DEF Forward, Types
<1>13. ASSUME NEW s \in Stages, NotifyNext(s)
      PROVE  Types'
  BY <1>13, <1>a DEF NotifyNext, Types, Workers, Owners, Notified
<1>14. CASE ReportEmptyMst
  BY <1>14, <1>a DEF ReportEmptyMst, Types, Workers, Owners
<1>15. CASE Answer
  BY <1>15, <1>a, AppendProperties DEF Answer, JobsInHand, Types, Workers,
     Owners
<1>16. CASE UNCHANGED vars
  BY <1>16, <1>a DEF vars, Types
<1>. QED
  BY <1>1, <1>2, <1>3, <1>4, <1>5, <1>6, <1>7, <1>8,
     <1>9, <1>10, <1>11, <1>12, <1>13, <1>14, <1>15, <1>16
     DEF Next, OwnerStep, StageStep, Terminated

LEMMA SameHands ==
  ASSUME JobsInHand, current' = current,
         \A r \in Stages :
           /\ worker'[r] \in {"executing", "blocked"}
                <=> worker[r] \in {"executing", "blocked"}
           /\ worker'[r] \in {"blocked", "notifying"} => worker'[r] = worker[r]
  PROVE  JobsInHand'
<1>1. Last \in Stages
  BY NumStagesAssumption DEF Stages, Last
<1>. QED  BY <1>1 DEF JobsInHand

LEMMA NextJobsInHand ==
  ASSUME PInv, [Next]_vars
  PROVE  JobsInHand'
<1> USE NumStagesAssumption, JobsAssumption DEF Stages, Last
<1>a. Types /\ JobsInHand /\ Lifecycle
  BY DEF PInv, TypeOK
<1>1. CASE StartStage
  BY <1>1, <1>a DEF StartStage, Types, JobsInHand
<1>2. CASE SpawnWorker
  BY <1>2, <1>a DEF SpawnWorker, Lifecycle, Unspawned, Joined, Types,
     JobsInHand
<1>3. CASE BeginStop
  BY <1>3, <1>a DEF BeginStop, Types, JobsInHand
<1>4. CASE StopStage
  <2>1. \A r \in Stages : r # at => worker'[r] = worker[r]
    BY <1>4, <1>a DEF StopStage, Types
  <2>2. worker'[at] = Notified(at) /\ current' = current
    BY <1>4, <1>a DEF StopStage, Types
  <2>3. \A r \in Stages :
          /\ worker'[r] \in {"executing", "blocked"}
               <=> worker[r] \in {"executing", "blocked"}
          /\ worker'[r] \in {"blocked", "notifying"} => worker'[r] = worker[r]
    BY <2>1, <2>2 DEF Notified
  <2>. QED
    BY <2>2, <2>3, <1>a, SameHands
<1>5. CASE JoinStage
  BY <1>5, <1>a DEF JoinStage, Lifecycle, Unspawned, Joined, Types, JobsInHand
<1>6. ASSUME NEW h \in Handlers, NEW j \in Jobs, CalculateMetrics(h, j)
      PROVE  JobsInHand'
  BY <1>6, <1>a DEF CalculateMetrics, Types, JobsInHand
<1>7. ASSUME NEW h \in Handlers, NotifyFirst(h)
      PROVE  JobsInHand'
  BY <1>7, <1>a DEF NotifyFirst, Types, JobsInHand, Notified
<1>8. ASSUME NEW s \in Stages, WorkerWait(s)
      PROVE  JobsInHand'
  <2>1. \A r \in Stages : r # s => worker'[r] = worker[r]
    BY <1>8, <1>a DEF WorkerWait, Types
  <2>2. worker'[s] = "waiting" /\ worker[s] = "awake" /\ current' = current
    BY <1>8, <1>a DEF WorkerWait, Types
  <2>3. \A r \in Stages :
          /\ worker'[r] \in {"executing", "blocked"}
               <=> worker[r] \in {"executing", "blocked"}
          /\ worker'[r] \in {"blocked", "notifying"} => worker'[r] = worker[r]
    BY <2>1, <2>2
  <2>. QED
    BY <2>2, <2>3, <1>a, SameHands
<1>9. ASSUME NEW s \in Stages, WorkerWakeSpuriously(s)
      PROVE  JobsInHand'
  <2>1. \A r \in Stages : r # s => worker'[r] = worker[r]
    BY <1>9, <1>a DEF WorkerWakeSpuriously, Types
  <2>2. worker'[s] = "awake" /\ worker[s] = "waiting" /\ current' = current
    BY <1>9, <1>a DEF WorkerWakeSpuriously, Types
  <2>3. \A r \in Stages :
          /\ worker'[r] \in {"executing", "blocked"}
               <=> worker[r] \in {"executing", "blocked"}
          /\ worker'[r] \in {"blocked", "notifying"} => worker'[r] = worker[r]
    BY <2>1, <2>2
  <2>. QED
    BY <2>2, <2>3, <1>a, SameHands
<1>10. ASSUME NEW s \in Stages, WorkerTake(s)
      PROVE  JobsInHand'
  BY <1>10, <1>a, HeadTailProperties DEF WorkerTake, Types, JobsInHand
<1>11. ASSUME NEW s \in Stages, WorkerExit(s)
      PROVE  JobsInHand'
  <2>1. \A r \in Stages : r # s => worker'[r] = worker[r]
    BY <1>11, <1>a DEF WorkerExit, Types
  <2>2. worker'[s] = "exited" /\ worker[s] = "awake" /\ current' = current
    BY <1>11, <1>a DEF WorkerExit, Types
  <2>3. \A r \in Stages :
          /\ worker'[r] \in {"executing", "blocked"}
               <=> worker[r] \in {"executing", "blocked"}
          /\ worker'[r] \in {"blocked", "notifying"} => worker'[r] = worker[r]
    BY <2>1, <2>2
  <2>. QED
    BY <2>2, <2>3, <1>a, SameHands
<1>12. ASSUME NEW s \in Stages, Forward(s)
      PROVE  JobsInHand'
  <2>1. \A r \in Stages : r # s => worker'[r] = worker[r] /\ current'[r] = current[r]
    BY <1>12, <1>a DEF Forward, Types
  <2>2. worker'[s] = "notifying" /\ current'[s] = NoJob /\ s # Last
    BY <1>12, <1>a DEF Forward, Types
  <2>3. worker'[Last] # "notifying" /\ current'[s] \notin Jobs
    BY <2>1, <2>2, <1>a, NextStage DEF JobsInHand
  <2>. QED
    BY <2>1, <2>2, <2>3, <1>a DEF JobsInHand
<1>13. ASSUME NEW s \in Stages, NotifyNext(s)
      PROVE  JobsInHand'
  <2>1. s + 1 \in Stages
    BY <1>13, <1>a, NextStage DEF NotifyNext, JobsInHand
  <2>2. \A r \in Stages \ {s, s + 1} : worker'[r] = worker[r]
    BY <1>13, <1>a DEF NotifyNext, Types
  <2>3. /\ worker[s] = "notifying" /\ worker'[s] = "awake"
        /\ worker'[s + 1] = Notified(s + 1)
        /\ current' = current
    BY <2>1, <1>13, <1>a, NextStage DEF NotifyNext, Types
  <2>4. \A r \in Stages :
           \/ worker'[r] = worker[r]
           \/ worker'[r] = "awake" /\ worker[r] \in {"notifying", "waiting"}
    BY <2>2, <2>3 DEF Notified
  <2>5. \A r \in Stages :
          /\ worker'[r] \in {"executing", "blocked"}
               <=> worker[r] \in {"executing", "blocked"}
          /\ worker'[r] \in {"blocked", "notifying"} => worker'[r] = worker[r]
    BY <2>4
  <2>. QED
    BY <2>3, <2>5, <1>a, SameHands
<1>14. CASE ReportEmptyMst
  BY <1>14, <1>a DEF ReportEmptyMst, Types, JobsInHand
<1>15. CASE Answer
  BY <1>15, <1>a DEF Answer, Types, JobsInHand
<1>16. CASE UNCHANGED vars
  BY <1>16, <1>a DEF vars, JobsInHand
<1>. QED
  BY <1>1, <1>2, <1>3, <1>4, <1>5, <1>6, <1>7, <1>8,
     <1>9, <1>10, <1>11, <1>12, <1>13, <1>14, <1>15, <1>16
     DEF Next, OwnerStep, StageStep, Terminated

LEMMA NextLifecycle ==
  ASSUME PInv, [Next]_vars
  PROVE  Lifecycle'
<1> USE NumStagesAssumption, JobsAssumption DEF Stages, Last
<1>a. Types /\ JobsInHand /\ Lifecycle
  BY DEF PInv, TypeOK
<1>1. CASE StartStage
  BY <1>1, <1>a DEF StartStage, Lifecycle, Types, Unspawned, Joined,
     StopRequested
<1>2. CASE SpawnWorker
  <2>1. /\ \A r \in Stages : r # at => worker'[r] = worker[r]
        /\ worker'[at] = "awake" /\ owner = "spawning" /\ at \in Stages
        /\ running' = running /\ notifying' = notifying
    BY <1>2, <1>a DEF SpawnWorker, Types
  <2>2. CASE at = Last
    <3>1. owner' = "serving" /\ at' = 0
      BY <2>2, <1>2 DEF SpawnWorker
    <3>2. \A r \in Stages : r # at => r < at
      BY <2>2
    <3>. QED
      BY <2>1, <2>2, <3>1, <3>2, <1>a
      DEF Lifecycle, Unspawned, Joined, StopRequested
  <2>3. CASE at # Last
    <3>1. owner' = "starting" /\ at' = at + 1
      BY <2>3, <1>2 DEF SpawnWorker
    <3>2. \A r \in Stages : (r >= at + 1 <=> r >= at /\ r # at)
                           /\ (r < at + 1 <=> r < at \/ r = at)
      BY <2>1
    <3>. QED
      BY <2>1, <3>1, <3>2, <1>a
      DEF Lifecycle, Unspawned, Joined, StopRequested
  <2>. QED  BY <2>2, <2>3
<1>3. CASE BeginStop
  BY <1>3, <1>a DEF BeginStop, Lifecycle, Types, Unspawned, Joined,
     StopRequested
<1>4. CASE StopStage
  BY <1>4, <1>a DEF StopStage, Lifecycle, Types, Unspawned, Joined,
     StopRequested, Notified
<1>5. CASE JoinStage
  <2>1. /\ \A r \in Stages : r # at => worker'[r] = worker[r]
        /\ worker'[at] = "none" /\ owner = "joining" /\ at \in Stages
        /\ running' = running /\ notifying' = notifying
    BY <1>5, <1>a DEF JoinStage, Types
  <2>2. CASE at = Last
    <3>1. owner' = "stopped" /\ at' = at
      BY <2>2, <1>5 DEF JoinStage
    <3>2. \A r \in Stages : r # at => r < at
      BY <2>2
    <3>. QED
      BY <2>1, <2>2, <3>1, <3>2, <1>a
      DEF Lifecycle, Unspawned, Joined, StopRequested
  <2>3. CASE at # Last
    <3>1. owner' = "stopping" /\ at' = at + 1
      BY <2>3, <1>5 DEF JoinStage
    <3>2. \A r \in Stages : (r >= at + 1 <=> r >= at /\ r # at)
                           /\ (r < at + 1 <=> r < at \/ r = at)
      BY <2>1
    <3>. QED
      BY <2>1, <3>1, <3>2, <1>a
      DEF Lifecycle, Unspawned, Joined, StopRequested
  <2>. QED  BY <2>2, <2>3
<1>6. ASSUME NEW h \in Handlers, NEW j \in Jobs, CalculateMetrics(h, j)
      PROVE  Lifecycle'
  BY <1>6, <1>a DEF CalculateMetrics, Lifecycle, Types, Unspawned, Joined,
     StopRequested
<1>7. ASSUME NEW h \in Handlers, NotifyFirst(h)
      PROVE  Lifecycle'
  BY <1>7, <1>a DEF NotifyFirst, Lifecycle, Types, Unspawned, Joined,
     StopRequested, Notified
<1>8. ASSUME NEW s \in Stages, WorkerWait(s)
      PROVE  Lifecycle'
  BY <1>8, <1>a DEF WorkerWait, Lifecycle, Types, Unspawned, Joined,
     StopRequested
<1>9. ASSUME NEW s \in Stages, WorkerWakeSpuriously(s)
      PROVE  Lifecycle'
  BY <1>9, <1>a DEF WorkerWakeSpuriously, Lifecycle, Types, Unspawned, Joined,
     StopRequested
<1>10. ASSUME NEW s \in Stages, WorkerTake(s)
      PROVE  Lifecycle'
  BY <1>10, <1>a DEF WorkerTake, Lifecycle, Types, Unspawned, Joined,
     StopRequested
<1>11. ASSUME NEW s \in Stages, WorkerExit(s)
      PROVE  Lifecycle'
  BY <1>11, <1>a DEF WorkerExit, Lifecycle, Types, Unspawned, Joined,
     StopRequested
<1>12. ASSUME NEW s \in Stages, Forward(s)
      PROVE  Lifecycle'
  BY <1>12, <1>a DEF Forward, Lifecycle, Types, Unspawned, Joined,
     StopRequested
<1>13. ASSUME NEW s \in Stages, NotifyNext(s)
      PROVE  Lifecycle'
  BY <1>13, <1>a DEF NotifyNext, Lifecycle, Types, Unspawned, Joined,
     StopRequested, Notified
<1>14. CASE ReportEmptyMst
  BY <1>14, <1>a DEF ReportEmptyMst, Lifecycle, Types, Unspawned, Joined,
     StopRequested
<1>15. CASE Answer
  BY <1>15, <1>a DEF Answer, Lifecycle, Types, Unspawned, Joined,
     StopRequested
<1>16. CASE UNCHANGED vars
  BY <1>16, <1>a DEF vars, Lifecycle, Unspawned, Joined, StopRequested
<1>. QED
  BY <1>1, <1>2, <1>3, <1>4, <1>5, <1>6, <1>7, <1>8,
     <1>9, <1>10, <1>11, <1>12, <1>13, <1>14, <1>15, <1>16
     DEF Next, OwnerStep, StageStep, Terminated

(* The first job of a queue that follows a is also the first that follows  *)
(* a in any sequence the whole is a prefix of.                             *)
LEMMA PrefixExtends ==
  ASSUME NEW S, NEW a \in Seq(S), NEW x \in S, NEW q \in Seq(S),
         NEW acc \in Seq(S), Prefix((a \o <<x>>) \o q, acc)
  PROVE  /\ Prefix(a \o <<x>>, acc)
         /\ Len(a) < Len(acc) /\ x = acc[Len(a) + 1]
<1> DEFINE b == a \o <<x>>
           p == b \o q
<1>1. b \in Seq(S) /\ Len(b) = Len(a) + 1 /\ b[Len(a) + 1] = x
  BY SingletonSeq, ConcatProperties, LenProperties
<1>. HIDE DEF b
<1>2. /\ Len(p) = Len(b) + Len(q)
      /\ \A k \in 1 .. Len(b) : p[k] = b[k]
  <2>1. Len(p) = Len(b) + Len(q)
    BY <1>1, ConcatProperties
  <2>2. \A k \in 1 .. Len(b) + Len(q) :
          p[k] = IF k <= Len(b) THEN b[k] ELSE q[k - Len(b)]
    BY <1>1, ConcatProperties
  <2>. QED  BY <1>1, <2>1, <2>2, LenProperties
<1>3. Len(a) \in Nat /\ Len(q) \in Nat /\ Len(acc) \in Nat
  BY LenProperties
<1>4. Prefix(p, acc)
  BY DEF b
<1>. HIDE DEF p
<1>5. Len(b) <= Len(acc) /\ \A k \in 1 .. Len(b) : b[k] = acc[k]
  BY <1>1, <1>2, <1>3, <1>4 DEF Prefix
<1>6. Len(a) + 1 \in 1 .. Len(b)
  BY <1>1, <1>3
<1>7. Prefix(b, acc) /\ Len(a) < Len(acc) /\ x = acc[Len(a) + 1]
  BY <1>1, <1>3, <1>5, <1>6 DEF Prefix
<1>. QED  BY <1>7 DEF b

LEMMA InHandType ==
  ASSUME Types, JobsInHand, NEW s \in Stages
  PROVE  InHand(s) \in Seq(Jobs)
BY EmptySeq, SingletonSeq DEF InHand, JobsInHand, Types

LEMMA NextStageFifo ==
  ASSUME PInv, [Next]_vars
  PROVE  StageFifo'
<1> USE NumStagesAssumption, JobsAssumption DEF Stages, Last
<1>a. Types /\ JobsInHand /\ Lifecycle /\ StageFifo
  BY DEF PInv, TypeOK
<1>1. CASE StartStage
  <2>1. \A r \in Stages : InHand(r)' = InHand(r)
    BY <1>1, <1>a DEF StartStage, InHand, Types, Notified
  <2>. QED
    BY <2>1, <1>1, <1>a DEF StartStage, StageFifo
<1>2. CASE SpawnWorker
  <2>1. worker[at] = "none"
    BY <1>2, <1>a DEF SpawnWorker, Lifecycle, Unspawned, Joined, Types
  <2>2. /\ current' = current /\ queue' = queue /\ log' = log
        /\ \A r \in Stages : r # at => worker'[r] = worker[r]
        /\ worker'[at] = "awake"
    BY <1>2, <1>a DEF SpawnWorker, Types
  <2>3. \A r \in Stages : InHand(r)' = InHand(r)
    BY <2>1, <2>2 DEF InHand
  <2>. QED
    BY <2>2, <2>3, <1>a DEF StageFifo
<1>3. CASE BeginStop
  <2>1. \A r \in Stages : InHand(r)' = InHand(r)
    BY <1>3, <1>a DEF BeginStop, InHand, Types, Notified
  <2>. QED
    BY <2>1, <1>3, <1>a DEF BeginStop, StageFifo
<1>4. CASE StopStage
  <2>1. \A r \in Stages : InHand(r)' = InHand(r)
    BY <1>4, <1>a DEF StopStage, InHand, Types, Notified
  <2>. QED
    BY <2>1, <1>4, <1>a DEF StopStage, StageFifo
<1>5. CASE JoinStage
  <2>1. \A r \in Stages : InHand(r)' = InHand(r)
    BY <1>5, <1>a DEF JoinStage, InHand, Types, Notified
  <2>. QED
    BY <2>1, <1>5, <1>a DEF JoinStage, StageFifo
<1>6. ASSUME NEW h \in Handlers, NEW j \in Jobs, CalculateMetrics(h, j)
      PROVE  StageFifo'
  <2>1. \A r \in Stages : InHand(r)' = InHand(r) /\ log'[r + 1] = log[r + 1]
    BY <1>6, <1>a DEF CalculateMetrics, InHand, Types
  <2>2. \A r \in Stages : r # 0 => log'[r] = log[r] /\ queue'[r] = queue[r]
    BY <1>6, <1>a DEF CalculateMetrics, Types
  <2>0. 0 \in Stages
    BY NextStage
  <2>3. /\ log[0] \in Seq(Jobs) /\ queue[0] \in Seq(Jobs)
        /\ log[0 + 1] \in Seq(Jobs) /\ InHand(0) \in Seq(Jobs)
    BY <1>a, NextStage, InHandType DEF Types
  <2>4. log'[0] = Append(log[0], j) /\ queue'[0] = Append(queue[0], j)
    BY <1>6, <1>a DEF CalculateMetrics, Types
  <2>5. log'[0] = log[0] \o <<j>> /\ queue'[0] = queue[0] \o <<j>>
    BY <2>3, <2>4, AppendIsConcat
  <2>6. log[0] \o <<j>> = (log[0 + 1] \o InHand(0)) \o (queue[0] \o <<j>>)
    <3>1. log[0 + 1] \o InHand(0) \in Seq(Jobs)
      BY <2>3, ConcatProperties
    <3>2. log[0] = (log[0 + 1] \o InHand(0)) \o queue[0]
      BY <1>a, <2>0, Zenon DEF StageFifo
    <3>3. <<j>> \in Seq(Jobs)
      BY SingletonSeq
    <3>4. ((log[0 + 1] \o InHand(0)) \o queue[0]) \o <<j>>
            = (log[0 + 1] \o InHand(0)) \o (queue[0] \o <<j>>)
      <4>1. \A a, b, c \in Seq(Jobs) : (a \o b) \o c = a \o (b \o c)
        BY ConcatAssociative, SMTT(30)
      <4>2. queue[0] \in Seq(Jobs)
        BY <2>3
      <4>. QED  BY <4>1, <4>2, <3>1, <3>3, Zenon
    <3>. QED  BY <3>2, <3>4, Zenon
  <2>. QED
    BY <2>1, <2>2, <2>5, <2>6, <1>a DEF StageFifo
<1>7. ASSUME NEW h \in Handlers, NotifyFirst(h)
      PROVE  StageFifo'
  <2>1. \A r \in Stages : InHand(r)' = InHand(r)
    BY <1>7, <1>a DEF NotifyFirst, InHand, Types, Notified
  <2>. QED
    BY <2>1, <1>7, <1>a DEF NotifyFirst, StageFifo
<1>8. ASSUME NEW s \in Stages, WorkerWait(s)
      PROVE  StageFifo'
  <2>1. \A r \in Stages : InHand(r)' = InHand(r)
    BY <1>8, <1>a DEF WorkerWait, InHand, Types, Notified
  <2>. QED
    BY <2>1, <1>8, <1>a DEF WorkerWait, StageFifo
<1>9. ASSUME NEW s \in Stages, WorkerWakeSpuriously(s)
      PROVE  StageFifo'
  <2>1. \A r \in Stages : InHand(r)' = InHand(r)
    BY <1>9, <1>a DEF WorkerWakeSpuriously, InHand, Types, Notified
  <2>. QED
    BY <2>1, <1>9, <1>a DEF WorkerWakeSpuriously, StageFifo
<1>10. ASSUME NEW s \in Stages, WorkerTake(s)
      PROVE  StageFifo'
  <2>1. \A r \in Stages : r # s => InHand(r)' = InHand(r) /\ queue'[r] = queue[r]
    BY <1>10, <1>a DEF WorkerTake, InHand, Types
  <2>2. /\ InHand(s) = <<>> /\ InHand(s)' = <<Head(queue[s])>>
        /\ queue'[s] = Tail(queue[s])
    BY <1>10, <1>a DEF WorkerTake, InHand, Types
  <2>3. log[s] = (log[s + 1] \o InHand(s)') \o queue'[s]
    <3>1. log[s + 1] \in Seq(Jobs) /\ queue[s] \in Seq(Jobs)
      BY <1>a, NextStage DEF Types
    <3>2. log[s] = (log[s + 1] \o <<>>) \o queue[s]
      BY <2>2, <1>a DEF StageFifo
    <3>3. \A a, q \in Seq(Jobs) :
            q # <<>> => (a \o <<>>) \o q = (a \o <<Head(q)>>) \o Tail(q)
      BY PopIdentity
    <3>4. queue[s] # <<>>
      BY <1>10 DEF WorkerTake
    <3>. QED  BY <2>2, <3>1, <3>2, <3>3, <3>4, Zenon
  <2>. QED
    BY <2>1, <2>3, <1>10, <1>a DEF WorkerTake, StageFifo
<1>11. ASSUME NEW s \in Stages, WorkerExit(s)
      PROVE  StageFifo'
  <2>1. \A r \in Stages : InHand(r)' = InHand(r)
    BY <1>11, <1>a DEF WorkerExit, InHand, Types, Notified
  <2>. QED
    BY <2>1, <1>11, <1>a DEF WorkerExit, StageFifo
<1>12. ASSUME NEW s \in Stages, Forward(s)
      PROVE  StageFifo'
  <2>1. /\ current[s] \in Jobs /\ s + 1 \in Stages
        /\ InHand(s) = <<current[s]>> /\ InHand(s)' = <<>>
    BY <1>12, <1>a, NextStage DEF Forward, JobsInHand, InHand, Types
  <2>2. \A r \in Stages : r # s => InHand(r)' = InHand(r)
    BY <1>12, <1>a DEF Forward, InHand, Types
  <2>3. /\ \A r \in 0 .. NumStages : r # s + 1 => log'[r] = log[r]
        /\ log'[s + 1] = Append(log[s + 1], current[s])
        /\ \A r \in Stages : r # s + 1 => queue'[r] = queue[r]
        /\ queue'[s + 1] = Append(queue[s + 1], current[s])
    BY <1>12, <2>1, <1>a, NextStage DEF Forward, Types
  <2>a. /\ log[s] \in Seq(Jobs) /\ log[s + 1] \in Seq(Jobs)
        /\ log[(s + 1) + 1] \in Seq(Jobs)
        /\ queue[s + 1] \in Seq(Jobs) /\ InHand(s + 1) \in Seq(Jobs)
    BY <2>1, <1>a, NextStage, InHandType DEF Types
  <2>b. /\ log'[s + 1] = log[s + 1] \o <<current[s]>>
        /\ queue'[s + 1] = queue[s + 1] \o <<current[s]>>
    BY <2>1, <2>3, <2>a, AppendIsConcat
  <2>4. log'[s] = (log'[s + 1] \o InHand(s)') \o queue'[s]
    <3>1. log[s] = (log[s + 1] \o <<current[s]>>) \o queue[s]
      BY <2>1, <1>a DEF StageFifo
    <3>2. log[s + 1] \o <<current[s]>> = (log[s + 1] \o <<current[s]>>) \o <<>>
      BY <2>1, <2>a, FinishIdentity
    <3>3. log'[s] = log[s] /\ queue'[s] = queue[s]
      BY <2>3, NextStage
    <3>. QED  BY <2>1, <2>b, <3>1, <3>2, <3>3
  <2>5. log'[s + 1] = (log'[(s + 1) + 1] \o InHand(s + 1)') \o queue'[s + 1]
    <3>1. log[(s + 1) + 1] \o InHand(s + 1) \in Seq(Jobs)
      BY <2>a, ConcatProperties
    <3>2. log[s + 1] = (log[(s + 1) + 1] \o InHand(s + 1)) \o queue[s + 1]
      BY <2>1, <1>a DEF StageFifo
    <3>3. log[s + 1] \o <<current[s]>>
            = (log[(s + 1) + 1] \o InHand(s + 1)) \o (queue[s + 1] \o <<current[s]>>)
      <4>1. <<current[s]>> \in Seq(Jobs)
        BY <2>1, SingletonSeq
      <4>2. ((log[(s + 1) + 1] \o InHand(s + 1)) \o queue[s + 1]) \o <<current[s]>>
            = (log[(s + 1) + 1] \o InHand(s + 1)) \o (queue[s + 1] \o <<current[s]>>)
        <5>1. \A a, b, c \in Seq(Jobs) : (a \o b) \o c = a \o (b \o c)
          BY ConcatAssociative, SMTT(30)
        <5>2. queue[s + 1] \in Seq(Jobs)
          BY <2>a
        <5>. QED  BY <5>1, <5>2, <4>1, <3>1, ZenonT(30)
      <4>. QED  BY <3>2, <4>2, Zenon
    <3>4. log'[(s + 1) + 1] = log[(s + 1) + 1] /\ InHand(s + 1)' = InHand(s + 1)
      BY <2>1, <2>2, <2>3, NextStage
    <3>. QED  BY <2>b, <3>3, <3>4
  <2>6. ASSUME NEW r \in Stages, r # s, r # s + 1
        PROVE  log'[r] = (log'[r + 1] \o InHand(r)') \o queue'[r]
    <3>1. log'[r] = log[r] /\ log'[r + 1] = log[r + 1]
      BY <2>3, <2>6, NextStage
    <3>. QED  BY <2>2, <2>3, <2>6, <3>1, <1>a DEF StageFifo
  <2>. QED
    BY <2>4, <2>5, <2>6 DEF StageFifo
<1>13. ASSUME NEW s \in Stages, NotifyNext(s)
      PROVE  StageFifo'
  <2>1. \A r \in Stages : InHand(r)' = InHand(r)
    BY <1>13, <1>a DEF NotifyNext, InHand, Types, Notified
  <2>. QED
    BY <2>1, <1>13, <1>a DEF NotifyNext, StageFifo
<1>14. CASE ReportEmptyMst
  <2>1. \A r \in Stages : InHand(r)' = InHand(r)
    BY <1>14, <1>a DEF ReportEmptyMst, InHand, Types, Notified
  <2>. QED
    BY <2>1, <1>14, <1>a DEF ReportEmptyMst, StageFifo
<1>15. CASE Answer
  <2>1. /\ current[Last] \in Jobs /\ Last \in Stages
        /\ InHand(Last) = <<current[Last]>> /\ InHand(Last)' = <<>>
    BY <1>15, <1>a DEF Answer, JobsInHand, InHand, Types
  <2>2. \A r \in Stages : r # Last => InHand(r)' = InHand(r) /\ log'[r + 1] = log[r + 1]
    BY <1>15, <1>a DEF Answer, InHand, Types
  <2>3. /\ \A r \in Stages : log'[r] = log[r] /\ queue'[r] = queue[r]
        /\ log'[Last + 1] = Append(log[Last + 1], current[Last])
    BY <1>15, <1>a DEF Answer, Types
  <2>4. log'[Last + 1] = log[Last + 1] \o <<current[Last]>>
    <3>1. log[Last + 1] \in Seq(Jobs)
      BY <1>a, NextStage DEF Types
    <3>. QED  BY <3>1, <2>1, <2>3, AppendIsConcat
  <2>5. log'[Last] = (log'[Last + 1] \o InHand(Last)') \o queue'[Last]
    <3>1. log[Last + 1] \o <<current[Last]>>
            = (log[Last + 1] \o <<current[Last]>>) \o <<>>
      BY <2>1, <1>a, NextStage, FinishIdentity DEF Types
    <3>2. log[Last] = (log[Last + 1] \o <<current[Last]>>) \o queue[Last]
      BY <2>1, <1>a DEF StageFifo
    <3>. QED  BY <2>1, <2>3, <2>4, <3>1, <3>2
  <2>. QED
    BY <2>2, <2>3, <2>5, <1>a DEF StageFifo
<1>16. CASE UNCHANGED vars
  BY <1>16, <1>a DEF vars, StageFifo, InHand
<1>. QED
  BY <1>1, <1>2, <1>3, <1>4, <1>5, <1>6, <1>7, <1>8,
     <1>9, <1>10, <1>11, <1>12, <1>13, <1>14, <1>15, <1>16
     DEF Next, OwnerStep, StageStep, Terminated

(* What stage s is executing is the next job accepted, after those it has  *)
(* passed on.                                                              *)
LEMMA PassOn ==
  ASSUME Types, JobsInHand, StageFifo, AcceptanceOrder,
         NEW s \in Stages, worker[s] = "executing"
  PROVE  /\ current[s] \in Jobs
         /\ log[s + 1] \in Seq(Jobs)
         /\ Prefix(log[s + 1] \o <<current[s]>>, accepted)
         /\ Len(log[s + 1]) < Len(accepted)
         /\ current[s] = accepted[Len(log[s + 1]) + 1]
<1>1. /\ current[s] \in Jobs /\ log[s + 1] \in Seq(Jobs) /\ queue[s] \in Seq(Jobs)
      /\ accepted \in Seq(Jobs)
  BY NextStage, NumStagesAssumption DEF JobsInHand, Types, accepted
<1>2. log[s] = (log[s + 1] \o <<current[s]>>) \o queue[s]
  BY DEF StageFifo, InHand
<1>3. Prefix((log[s + 1] \o <<current[s]>>) \o queue[s], accepted)
  BY <1>2, NextStage, Zenon DEF AcceptanceOrder
<1>4. ASSUME NEW a \in Seq(Jobs), NEW x \in Jobs, NEW q \in Seq(Jobs),
             NEW acc \in Seq(Jobs), Prefix((a \o <<x>>) \o q, acc)
      PROVE  /\ Prefix(a \o <<x>>, acc)
             /\ Len(a) < Len(acc) /\ x = acc[Len(a) + 1]
  BY <1>4, PrefixExtends
<1>. QED  BY <1>1, <1>3, <1>4, Zenon

LEMMA NextAcceptanceOrder ==
  ASSUME PInv, [Next]_vars
  PROVE  AcceptanceOrder'
<1> USE NumStagesAssumption, JobsAssumption DEF Stages, Last
<1>a. Types /\ JobsInHand /\ StageFifo /\ AcceptanceOrder
  BY DEF PInv, TypeOK
<1>1. CASE StartStage
  <2>1. log' = log
    BY <1>1 DEF StartStage
  <2>. QED  BY <2>1, <1>a DEF AcceptanceOrder, accepted
<1>2. CASE SpawnWorker
  <2>1. log' = log
    BY <1>2 DEF SpawnWorker
  <2>. QED  BY <2>1, <1>a DEF AcceptanceOrder, accepted
<1>3. CASE BeginStop
  <2>1. log' = log
    BY <1>3 DEF BeginStop
  <2>. QED  BY <2>1, <1>a DEF AcceptanceOrder, accepted
<1>4. CASE StopStage
  <2>1. log' = log
    BY <1>4 DEF StopStage
  <2>. QED  BY <2>1, <1>a DEF AcceptanceOrder, accepted
<1>5. CASE JoinStage
  <2>1. log' = log
    BY <1>5 DEF JoinStage
  <2>. QED  BY <2>1, <1>a DEF AcceptanceOrder, accepted
<1>6. ASSUME NEW h \in Handlers, NEW j \in Jobs, CalculateMetrics(h, j)
      PROVE  AcceptanceOrder'
  <2>1. /\ \A r \in 0 .. NumStages : r # 0 => log'[r] = log[r]
        /\ log'[0] = Append(log[0], j)
    BY <1>6, <1>a DEF CalculateMetrics, Types
  <2>2. /\ log[0] \in Seq(Jobs) /\ Len(log[0]) \in Nat
        /\ Len(log'[0]) = Len(log[0]) + 1
        /\ \A k \in 1 .. Len(log[0]) : log'[0][k] = log[0][k]
    BY <2>1, <1>a, AppendProperties, LenProperties DEF Types
  <2>3. ASSUME NEW r \in 0 .. NumStages
        PROVE  Prefix(log'[r], log'[0])
    <3>1. CASE r = 0
      BY <3>1, <2>2 DEF Prefix
    <3>2. CASE r # 0
      <4>1. Prefix(log[r], log[0]) /\ log'[r] = log[r]
        BY <3>2, <2>1, <1>a DEF AcceptanceOrder, accepted
      <4>2. Len(log[r]) \in Nat
        BY <1>a, LenProperties DEF Types
      <4>. QED  BY <4>1, <4>2, <2>2 DEF Prefix
    <3>. QED  BY <3>1, <3>2
  <2>. QED  BY <2>3 DEF AcceptanceOrder, accepted
<1>7. ASSUME NEW h \in Handlers, NotifyFirst(h)
      PROVE  AcceptanceOrder'
  <2>1. log' = log
    BY <1>7 DEF NotifyFirst
  <2>. QED  BY <2>1, <1>a DEF AcceptanceOrder, accepted
<1>8. ASSUME NEW s \in Stages, WorkerWait(s)
      PROVE  AcceptanceOrder'
  <2>1. log' = log
    BY <1>8 DEF WorkerWait
  <2>. QED  BY <2>1, <1>a DEF AcceptanceOrder, accepted
<1>9. ASSUME NEW s \in Stages, WorkerWakeSpuriously(s)
      PROVE  AcceptanceOrder'
  <2>1. log' = log
    BY <1>9 DEF WorkerWakeSpuriously
  <2>. QED  BY <2>1, <1>a DEF AcceptanceOrder, accepted
<1>10. ASSUME NEW s \in Stages, WorkerTake(s)
      PROVE  AcceptanceOrder'
  <2>1. log' = log
    BY <1>10 DEF WorkerTake
  <2>. QED  BY <2>1, <1>a DEF AcceptanceOrder, accepted
<1>11. ASSUME NEW s \in Stages, WorkerExit(s)
      PROVE  AcceptanceOrder'
  <2>1. log' = log
    BY <1>11 DEF WorkerExit
  <2>. QED  BY <2>1, <1>a DEF AcceptanceOrder, accepted
<1>12. ASSUME NEW s \in Stages, Forward(s)
      PROVE  AcceptanceOrder'
  <2>0. s + 1 \in 0 .. NumStages /\ s + 1 # 0
    BY NextStage
  <2>1. /\ \A r \in 0 .. NumStages : r # s + 1 => log'[r] = log[r]
        /\ log'[s + 1] = Append(log[s + 1], current[s])
    BY <1>12, <2>0, <1>a DEF Forward, Types
  <2>2. /\ current[s] \in Jobs /\ log[s + 1] \in Seq(Jobs)
        /\ Prefix(log[s + 1] \o <<current[s]>>, accepted)
    BY <1>12, <1>a, PassOn DEF Forward
  <2>3. log'[s + 1] = log[s + 1] \o <<current[s]>>
    BY <2>1, <2>2, AppendIsConcat
  <2>4. accepted' = accepted
    BY <2>0, <2>1 DEF accepted
  <2>. QED
    BY <2>1, <2>2, <2>3, <2>4, <1>a DEF AcceptanceOrder
<1>13. ASSUME NEW s \in Stages, NotifyNext(s)
      PROVE  AcceptanceOrder'
  <2>1. log' = log
    BY <1>13 DEF NotifyNext
  <2>. QED  BY <2>1, <1>a DEF AcceptanceOrder, accepted
<1>14. CASE ReportEmptyMst
  <2>1. log' = log
    BY <1>14 DEF ReportEmptyMst
  <2>. QED  BY <2>1, <1>a DEF AcceptanceOrder, accepted
<1>15. CASE Answer
  <2>1. /\ NumStages # 0
        /\ \A r \in 0 .. NumStages : r # NumStages => log'[r] = log[r]
        /\ log'[NumStages] = Append(log[NumStages], current[Last])
    BY <1>15, <1>a DEF Answer, Types
  <2>2. /\ current[Last] \in Jobs /\ log[NumStages] \in Seq(Jobs)
        /\ Prefix(log[NumStages] \o <<current[Last]>>, accepted)
    <3>1. Last \in Stages /\ Last + 1 = NumStages /\ worker[Last] = "executing"
      BY <1>15, <1>a DEF Answer
    <3>. HIDE DEF Last
    <3>. QED  BY <3>1, <1>a, PassOn
  <2>3. log'[NumStages] = log[NumStages] \o <<current[Last]>>
    BY <2>1, <2>2, AppendIsConcat
  <2>4. accepted' = accepted
    BY <2>1 DEF accepted
  <2>. QED
    BY <2>1, <2>2, <2>3, <2>4, <1>a DEF AcceptanceOrder
<1>16. CASE UNCHANGED vars
  BY <1>16, <1>a DEF vars, AcceptanceOrder, accepted
<1>. QED
  BY <1>1, <1>2, <1>3, <1>4, <1>5, <1>6, <1>7, <1>8,
     <1>9, <1>10, <1>11, <1>12, <1>13, <1>14, <1>15, <1>16
     DEF Next, OwnerStep, StageStep, Terminated

LEMMA NextWakeup ==
  ASSUME PInv, [Next]_vars
  PROVE  NoLostWakeup'
<1> USE NumStagesAssumption, JobsAssumption DEF Stages, Last
<1>a. Types /\ JobsInHand /\ Lifecycle /\ NoLostWakeup
  BY DEF PInv, TypeOK
<1>1. CASE StartStage
  BY <1>1, <1>a DEF StartStage, Types, NoLostWakeup, NotificationComing
<1>2. CASE SpawnWorker
  <2>1. \A r \in Stages : worker[r] = "notifying" => worker'[r] = "notifying"
    BY <1>2, <1>a DEF SpawnWorker, Types, Lifecycle, Unspawned,
                       Joined
  <2>2. ASSUME NEW r \in Stages, worker'[r] = "waiting",
               queue'[r] # <<>> \/ ~running'[r]
        PROVE  worker[r] = "waiting" /\ (queue[r] # <<>> \/ ~running[r])
    BY <2>2, <1>2, <1>a DEF SpawnWorker, Types, Lifecycle, Unspawned,
                       Joined
  <2>3. ASSUME NEW r \in Stages, NotificationComing(r)
        PROVE  NotificationComing(r)'
    <3>1. r # 0 => r - 1 \in Stages
      OBVIOUS
    <3>. QED  BY <3>1, <2>1, <2>3, <1>2 DEF SpawnWorker, NotificationComing
  <2>. QED  BY <2>2, <2>3, <1>a DEF NoLostWakeup
<1>3. CASE BeginStop
  BY <1>3, <1>a DEF BeginStop, Types, NoLostWakeup, NotificationComing
<1>4. CASE StopStage
  <2>1. \A r \in Stages : worker[r] = "notifying" => worker'[r] = "notifying"
    BY <1>4, <1>a DEF StopStage, Types, Notified
  <2>2. ASSUME NEW r \in Stages, worker'[r] = "waiting",
               queue'[r] # <<>> \/ ~running'[r]
        PROVE  worker[r] = "waiting" /\ (queue[r] # <<>> \/ ~running[r])
    BY <2>2, <1>4, <1>a DEF StopStage, Types, Notified
  <2>3. ASSUME NEW r \in Stages, NotificationComing(r)
        PROVE  NotificationComing(r)'
    <3>1. r # 0 => r - 1 \in Stages
      OBVIOUS
    <3>. QED  BY <3>1, <2>1, <2>3, <1>4 DEF StopStage, NotificationComing
  <2>. QED  BY <2>2, <2>3, <1>a DEF NoLostWakeup
<1>5. CASE JoinStage
  <2>1. \A r \in Stages : worker[r] = "notifying" => worker'[r] = "notifying"
    BY <1>5, <1>a DEF JoinStage, Types
  <2>2. ASSUME NEW r \in Stages, worker'[r] = "waiting",
               queue'[r] # <<>> \/ ~running'[r]
        PROVE  worker[r] = "waiting" /\ (queue[r] # <<>> \/ ~running[r])
    BY <2>2, <1>5, <1>a DEF JoinStage, Types
  <2>3. ASSUME NEW r \in Stages, NotificationComing(r)
        PROVE  NotificationComing(r)'
    <3>1. r # 0 => r - 1 \in Stages
      OBVIOUS
    <3>. QED  BY <3>1, <2>1, <2>3, <1>5 DEF JoinStage, NotificationComing
  <2>. QED  BY <2>2, <2>3, <1>a DEF NoLostWakeup
<1>6. ASSUME NEW h \in Handlers, NEW j \in Jobs, CalculateMetrics(h, j)
      PROVE  NoLostWakeup'
  <2>1. NotificationComing(0)'
    BY <1>6 DEF CalculateMetrics, NotificationComing
  <2>2. worker' = worker /\ running' = running
        /\ \A r \in Stages : r # 0 => queue'[r] = queue[r]
    BY <1>6, <1>a DEF CalculateMetrics, Types
  <2>. QED  BY <2>1, <2>2, <1>a DEF NoLostWakeup, NotificationComing
<1>7. ASSUME NEW h \in Handlers, NotifyFirst(h)
      PROVE  NoLostWakeup'
  BY <1>7, <1>a DEF NotifyFirst, Types, NoLostWakeup, NotificationComing,
     Notified
<1>8. ASSUME NEW s \in Stages, WorkerWait(s)
      PROVE  NoLostWakeup'
  <2>1. \A r \in Stages : worker[r] = "notifying" => worker'[r] = "notifying"
    BY <1>8, <1>a DEF WorkerWait, Types
  <2>2. ASSUME NEW r \in Stages, worker'[r] = "waiting",
               queue'[r] # <<>> \/ ~running'[r]
        PROVE  worker[r] = "waiting" /\ (queue[r] # <<>> \/ ~running[r])
    BY <2>2, <1>8, <1>a DEF WorkerWait, Types
  <2>3. ASSUME NEW r \in Stages, NotificationComing(r)
        PROVE  NotificationComing(r)'
    <3>1. r # 0 => r - 1 \in Stages
      OBVIOUS
    <3>. QED  BY <3>1, <2>1, <2>3, <1>8 DEF WorkerWait, NotificationComing
  <2>. QED  BY <2>2, <2>3, <1>a DEF NoLostWakeup
<1>9. ASSUME NEW s \in Stages, WorkerWakeSpuriously(s)
      PROVE  NoLostWakeup'
  <2>1. \A r \in Stages : worker[r] = "notifying" => worker'[r] = "notifying"
    BY <1>9, <1>a DEF WorkerWakeSpuriously, Types
  <2>2. ASSUME NEW r \in Stages, worker'[r] = "waiting",
               queue'[r] # <<>> \/ ~running'[r]
        PROVE  worker[r] = "waiting" /\ (queue[r] # <<>> \/ ~running[r])
    BY <2>2, <1>9, <1>a DEF WorkerWakeSpuriously, Types
  <2>3. ASSUME NEW r \in Stages, NotificationComing(r)
        PROVE  NotificationComing(r)'
    <3>1. r # 0 => r - 1 \in Stages
      OBVIOUS
    <3>. QED  BY <3>1, <2>1, <2>3, <1>9 DEF WorkerWakeSpuriously, NotificationComing
  <2>. QED  BY <2>2, <2>3, <1>a DEF NoLostWakeup
<1>10. ASSUME NEW s \in Stages, WorkerTake(s)
      PROVE  NoLostWakeup'
  <2>1. \A r \in Stages : worker[r] = "notifying" => worker'[r] = "notifying"
    BY <1>10, <1>a DEF WorkerTake, Types
  <2>2. ASSUME NEW r \in Stages, worker'[r] = "waiting",
               queue'[r] # <<>> \/ ~running'[r]
        PROVE  worker[r] = "waiting" /\ (queue[r] # <<>> \/ ~running[r])
    BY <2>2, <1>10, <1>a DEF WorkerTake, Types
  <2>3. ASSUME NEW r \in Stages, NotificationComing(r)
        PROVE  NotificationComing(r)'
    <3>1. r # 0 => r - 1 \in Stages
      OBVIOUS
    <3>. QED  BY <3>1, <2>1, <2>3, <1>10 DEF WorkerTake, NotificationComing
  <2>. QED  BY <2>2, <2>3, <1>a DEF NoLostWakeup
<1>11. ASSUME NEW s \in Stages, WorkerExit(s)
      PROVE  NoLostWakeup'
  <2>1. \A r \in Stages : worker[r] = "notifying" => worker'[r] = "notifying"
    BY <1>11, <1>a DEF WorkerExit, Types
  <2>2. ASSUME NEW r \in Stages, worker'[r] = "waiting",
               queue'[r] # <<>> \/ ~running'[r]
        PROVE  worker[r] = "waiting" /\ (queue[r] # <<>> \/ ~running[r])
    BY <2>2, <1>11, <1>a DEF WorkerExit, Types
  <2>3. ASSUME NEW r \in Stages, NotificationComing(r)
        PROVE  NotificationComing(r)'
    <3>1. r # 0 => r - 1 \in Stages
      OBVIOUS
    <3>. QED  BY <3>1, <2>1, <2>3, <1>11 DEF WorkerExit, NotificationComing
  <2>. QED  BY <2>2, <2>3, <1>a DEF NoLostWakeup
<1>12. ASSUME NEW s \in Stages, Forward(s)
      PROVE  NoLostWakeup'
  <2>1. s + 1 \in Stages /\ (s + 1) - 1 = s /\ s + 1 # 0
    BY <1>12, NextStage DEF Forward
  <2>2. /\ worker'[s] = "notifying"
        /\ \A r \in Stages : worker[r] = "notifying" => worker'[r] = "notifying"
    BY <1>12, <1>a DEF Forward, Types
  <2>3. ASSUME NEW r \in Stages, worker'[r] = "waiting",
               queue'[r] # <<>> \/ ~running'[r], r # s + 1
        PROVE  worker[r] = "waiting" /\ (queue[r] # <<>> \/ ~running[r])
    BY <2>1, <2>3, <1>12, <1>a DEF Forward, Types
  <2>4. ASSUME NEW r \in Stages, NotificationComing(r)
        PROVE  NotificationComing(r)'
    <3>1. r # 0 => r - 1 \in Stages
      OBVIOUS
    <3>. QED  BY <3>1, <2>2, <2>4, <1>12 DEF Forward, NotificationComing
  <2>5. NotificationComing(s + 1)'
    BY <2>1, <2>2 DEF NotificationComing
  <2>. QED  BY <2>3, <2>4, <2>5, <1>a DEF NoLostWakeup
<1>13. ASSUME NEW s \in Stages, NotifyNext(s)
      PROVE  NoLostWakeup'
  <2>1. s + 1 \in Stages
    BY <1>13, <1>a, NextStage DEF NotifyNext, JobsInHand
  <2>2. /\ \A r \in Stages \ {s, s + 1} : worker'[r] = worker[r]
        /\ worker'[s] = "awake" /\ worker'[s + 1] = Notified(s + 1)
        /\ worker[s] = "notifying"
    BY <2>1, <1>13, <1>a, NextStage DEF NotifyNext, Types
  <2>3. \A r \in Stages : r # s /\ worker[r] = "notifying" => worker'[r] = "notifying"
    BY <2>2 DEF Notified
  <2>4. \A r \in Stages : worker'[r] = "waiting" => worker[r] = "waiting" /\ r # s + 1
    BY <2>2 DEF Notified
  <2>5. ASSUME NEW r \in Stages, worker'[r] = "waiting",
               queue'[r] # <<>> \/ ~running'[r]
        PROVE  NotificationComing(r)'
    <3>1. worker[r] = "waiting" /\ r # s + 1 /\ (queue[r] # <<>> \/ ~running[r])
      BY <2>4, <2>5, <1>13 DEF NotifyNext
    <3>2. NotificationComing(r)
      BY <3>1, <1>a DEF NoLostWakeup
    <3>3. r # 0 => r - 1 \in Stages /\ r - 1 # s
      BY <3>1, NumStagesAssumption
    <3>. QED  BY <2>3, <3>2, <3>3, <1>13 DEF NotificationComing, NotifyNext
  <2>. QED  BY <2>5 DEF NoLostWakeup
<1>14. CASE ReportEmptyMst
  <2>1. \A r \in Stages : worker[r] = "notifying" => worker'[r] = "notifying"
    BY <1>14, <1>a DEF ReportEmptyMst, Types
  <2>2. ASSUME NEW r \in Stages, worker'[r] = "waiting",
               queue'[r] # <<>> \/ ~running'[r]
        PROVE  worker[r] = "waiting" /\ (queue[r] # <<>> \/ ~running[r])
    BY <2>2, <1>14, <1>a DEF ReportEmptyMst, Types
  <2>3. ASSUME NEW r \in Stages, NotificationComing(r)
        PROVE  NotificationComing(r)'
    <3>1. r # 0 => r - 1 \in Stages
      OBVIOUS
    <3>. QED  BY <3>1, <2>1, <2>3, <1>14 DEF ReportEmptyMst, NotificationComing
  <2>. QED  BY <2>2, <2>3, <1>a DEF NoLostWakeup
<1>15. CASE Answer
  <2>1. \A r \in Stages : worker[r] = "notifying" => worker'[r] = "notifying"
    BY <1>15, <1>a DEF Answer, Types
  <2>2. ASSUME NEW r \in Stages, worker'[r] = "waiting",
               queue'[r] # <<>> \/ ~running'[r]
        PROVE  worker[r] = "waiting" /\ (queue[r] # <<>> \/ ~running[r])
    BY <2>2, <1>15, <1>a DEF Answer, Types
  <2>3. ASSUME NEW r \in Stages, NotificationComing(r)
        PROVE  NotificationComing(r)'
    <3>1. r # 0 => r - 1 \in Stages
      OBVIOUS
    <3>. QED  BY <3>1, <2>1, <2>3, <1>15 DEF Answer, NotificationComing
  <2>. QED  BY <2>2, <2>3, <1>a DEF NoLostWakeup
<1>16. CASE UNCHANGED vars
  BY <1>16, <1>a DEF vars, NoLostWakeup, NotificationComing
<1>. QED
  BY <1>1, <1>2, <1>3, <1>4, <1>5, <1>6, <1>7, <1>8,
     <1>9, <1>10, <1>11, <1>12, <1>13, <1>14, <1>15, <1>16
     DEF Next, OwnerStep, StageStep, Terminated

LEMMA NextDrains ==
  ASSUME PInv, [Next]_vars
  PROVE  StopDrainsInOrder'
<1> USE NumStagesAssumption, JobsAssumption DEF Stages, Last
<1>a. /\ Types /\ JobsInHand /\ Lifecycle
      /\ StageFifo /\ NoTaskAfterStop /\ StopDrainsInOrder
  BY DEF PInv, TypeOK
<1>1. CASE StartStage
  <2>1. log' = log /\ \A r \in Stages : Joined(r)' => Joined(r)
    BY <1>1, <1>a DEF StartStage, Types, Joined, Lifecycle
  <2>. QED  BY <2>1, <1>a DEF StopDrainsInOrder, accepted
<1>2. CASE SpawnWorker
  <2>1. log' = log /\ \A r \in Stages : Joined(r)' => Joined(r)
    BY <1>2, <1>a DEF SpawnWorker, Types, Joined, Lifecycle
  <2>. QED  BY <2>1, <1>a DEF StopDrainsInOrder, accepted
<1>3. CASE BeginStop
  <2>1. log' = log /\ \A r \in Stages : Joined(r)' => Joined(r)
    BY <1>3, <1>a DEF BeginStop, Types, Joined, Lifecycle
  <2>. QED  BY <2>1, <1>a DEF StopDrainsInOrder, accepted
<1>4. CASE StopStage
  <2>1. log' = log /\ \A r \in Stages : Joined(r)' => Joined(r)
    BY <1>4, <1>a DEF StopStage, Types, Joined, Lifecycle
  <2>. QED  BY <2>1, <1>a DEF StopDrainsInOrder, accepted
<1>5. CASE JoinStage
  <2>1. \A r \in Stages : Joined(r)' => Joined(r) \/ r = at
    BY <1>5, <1>a DEF JoinStage, Types, Joined
  <2>2. log[at + 1] = accepted
    <3>1. log[at] = accepted
      <4>1. CASE at = 0
        BY <4>1 DEF accepted
      <4>2. CASE at # 0
        <5>1. at - 1 \in Stages /\ Joined(at - 1) /\ (at - 1) + 1 = at
          BY <4>2, <1>5, <1>a DEF JoinStage, Types, Joined
        <5>. QED  BY <5>1, <1>a DEF StopDrainsInOrder
      <4>. QED  BY <4>1, <4>2
    <3>2. queue[at] = <<>> /\ InHand(at) = <<>>
      BY <1>5, <1>a DEF JoinStage, Types, NoTaskAfterStop, InHand
    <3>3. log[at + 1] \in Seq(Jobs) /\ log[at] = (log[at + 1] \o <<>>) \o <<>>
      BY <3>2, <1>a, NextStage DEF StageFifo, Types
    <3>. QED  BY <3>1, <3>3, ConcatEmptySeq
  <2>. QED
    BY <2>1, <2>2, <1>5, <1>a DEF JoinStage, StopDrainsInOrder, accepted
<1>6. ASSUME NEW h \in Handlers, NEW j \in Jobs, CalculateMetrics(h, j)
      PROVE  StopDrainsInOrder'
  <2>1. \A r \in Stages : ~Joined(r)'
    BY <1>6 DEF CalculateMetrics, Joined
  <2>. QED  BY <2>1 DEF StopDrainsInOrder
<1>7. ASSUME NEW h \in Handlers, NotifyFirst(h)
      PROVE  StopDrainsInOrder'
  <2>1. log' = log /\ \A r \in Stages : Joined(r)' => Joined(r)
    BY <1>7, <1>a DEF NotifyFirst, Types, Joined, Lifecycle
  <2>. QED  BY <2>1, <1>a DEF StopDrainsInOrder, accepted
<1>8. ASSUME NEW s \in Stages, WorkerWait(s)
      PROVE  StopDrainsInOrder'
  <2>1. log' = log /\ \A r \in Stages : Joined(r)' => Joined(r)
    BY <1>8, <1>a DEF WorkerWait, Types, Joined, Lifecycle
  <2>. QED  BY <2>1, <1>a DEF StopDrainsInOrder, accepted
<1>9. ASSUME NEW s \in Stages, WorkerWakeSpuriously(s)
      PROVE  StopDrainsInOrder'
  <2>1. log' = log /\ \A r \in Stages : Joined(r)' => Joined(r)
    BY <1>9, <1>a DEF WorkerWakeSpuriously, Types, Joined, Lifecycle
  <2>. QED  BY <2>1, <1>a DEF StopDrainsInOrder, accepted
<1>10. ASSUME NEW s \in Stages, WorkerTake(s)
      PROVE  StopDrainsInOrder'
  <2>1. log' = log /\ \A r \in Stages : Joined(r)' => Joined(r)
    BY <1>10, <1>a DEF WorkerTake, Types, Joined, Lifecycle
  <2>. QED  BY <2>1, <1>a DEF StopDrainsInOrder, accepted
<1>11. ASSUME NEW s \in Stages, WorkerExit(s)
      PROVE  StopDrainsInOrder'
  <2>1. log' = log /\ \A r \in Stages : Joined(r)' => Joined(r)
    BY <1>11, <1>a DEF WorkerExit, Types, Joined, Lifecycle
  <2>. QED  BY <2>1, <1>a DEF StopDrainsInOrder, accepted
<1>12. ASSUME NEW s \in Stages, Forward(s)
      PROVE  StopDrainsInOrder'
  <2>1. \A r \in Stages : Joined(r)' => Joined(r) /\ r # s
    BY <1>12, <1>a DEF Forward, Joined, Lifecycle
  <2>2. \A r \in Stages : r # s => log'[r + 1] = log[r + 1]
    BY <1>12, <1>a DEF Forward, Types
  <2>3. log'[0] = log[0]
    BY <1>12, <1>a DEF Forward, Types
  <2>. QED  BY <2>1, <2>2, <2>3, <1>a DEF StopDrainsInOrder, accepted
<1>13. ASSUME NEW s \in Stages, NotifyNext(s)
      PROVE  StopDrainsInOrder'
  <2>1. log' = log /\ \A r \in Stages : Joined(r)' => Joined(r)
    BY <1>13, <1>a DEF NotifyNext, Types, Joined, Lifecycle
  <2>. QED  BY <2>1, <1>a DEF StopDrainsInOrder, accepted
<1>14. CASE ReportEmptyMst
  <2>1. log' = log /\ \A r \in Stages : Joined(r)' => Joined(r)
    BY <1>14, <1>a DEF ReportEmptyMst, Types, Joined, Lifecycle
  <2>. QED  BY <2>1, <1>a DEF StopDrainsInOrder, accepted
<1>15. CASE Answer
  <2>1. \A r \in Stages : Joined(r)' => Joined(r) /\ r # Last
    BY <1>15, <1>a DEF Answer, Joined, Lifecycle
  <2>2. \A r \in Stages : r # Last => log'[r + 1] = log[r + 1]
    BY <1>15, <1>a DEF Answer, Types
  <2>3. log'[0] = log[0]
    BY <1>15, <1>a DEF Answer, Types
  <2>. QED  BY <2>1, <2>2, <2>3, <1>a DEF StopDrainsInOrder, accepted
<1>16. CASE UNCHANGED vars
  BY <1>16, <1>a DEF vars, StopDrainsInOrder, Joined, accepted
<1>. QED
  BY <1>1, <1>2, <1>3, <1>4, <1>5, <1>6, <1>7, <1>8,
     <1>9, <1>10, <1>11, <1>12, <1>13, <1>14, <1>15, <1>16
     DEF Next, OwnerStep, StageStep, Terminated

LEMMA NextNoTask ==
  ASSUME PInv, [Next]_vars
  PROVE  NoTaskAfterStop'
<1> USE NumStagesAssumption, JobsAssumption DEF Stages, Last
<1>a. Types /\ JobsInHand /\ Lifecycle /\ QuietStart /\ NoTaskAfterStop
  BY DEF PInv, TypeOK
<1>1. CASE StartStage
  BY <1>1, <1>a DEF StartStage, Types, NoTaskAfterStop
<1>2. CASE SpawnWorker
  BY <1>2, <1>a DEF SpawnWorker, Types, NoTaskAfterStop
<1>3. CASE BeginStop
  BY <1>3, <1>a DEF BeginStop, Types, NoTaskAfterStop
<1>4. CASE StopStage
  BY <1>4, <1>a DEF StopStage, Types, NoTaskAfterStop, Notified
<1>5. CASE JoinStage
  BY <1>5, <1>a DEF JoinStage, Types, NoTaskAfterStop
<1>6. ASSUME NEW h \in Handlers, NEW j \in Jobs, CalculateMetrics(h, j)
      PROVE  NoTaskAfterStop'
  BY <1>6, <1>a DEF CalculateMetrics, Lifecycle, Unspawned, Joined, Types,
     NoTaskAfterStop
<1>7. ASSUME NEW h \in Handlers, NotifyFirst(h)
      PROVE  NoTaskAfterStop'
  BY <1>7, <1>a DEF NotifyFirst, Types, NoTaskAfterStop, Notified
<1>8. ASSUME NEW s \in Stages, WorkerWait(s)
      PROVE  NoTaskAfterStop'
  BY <1>8, <1>a DEF WorkerWait, Types, NoTaskAfterStop
<1>9. ASSUME NEW s \in Stages, WorkerWakeSpuriously(s)
      PROVE  NoTaskAfterStop'
  BY <1>9, <1>a DEF WorkerWakeSpuriously, Types, NoTaskAfterStop
<1>10. ASSUME NEW s \in Stages, WorkerTake(s)
      PROVE  NoTaskAfterStop'
  BY <1>10, <1>a DEF WorkerTake, Types, NoTaskAfterStop
<1>11. ASSUME NEW s \in Stages, WorkerExit(s)
      PROVE  NoTaskAfterStop'
  BY <1>11, <1>a DEF WorkerExit, Types, NoTaskAfterStop
<1>12. ASSUME NEW s \in Stages, Forward(s)
      PROVE  NoTaskAfterStop'
  <2>1. s + 1 \in Stages /\ s # s + 1
    BY <1>12, NextStage DEF Forward
  <2>2. owner \notin {"starting", "spawning"} /\ ~Joined(s)
    BY <1>12, <1>a DEF Forward, QuietStart, Lifecycle
  <2>3. worker[s + 1] \notin {"none", "exited"}
    BY <2>1, <2>2, <1>a DEF Lifecycle, Unspawned, Joined, Types, Owners
  <2>4. /\ \A r \in Stages : r # s => worker'[r] = worker[r]
        /\ worker'[s] = "notifying"
        /\ \A r \in Stages : r # s + 1 => queue'[r] = queue[r]
    BY <2>1, <1>12, <1>a DEF Forward, Types
  <2>. QED  BY <2>1, <2>3, <2>4, <1>a DEF NoTaskAfterStop
<1>13. ASSUME NEW s \in Stages, NotifyNext(s)
      PROVE  NoTaskAfterStop'
  BY <1>13, <1>a DEF NotifyNext, Types, NoTaskAfterStop, Notified
<1>14. CASE ReportEmptyMst
  BY <1>14, <1>a DEF ReportEmptyMst, Types, NoTaskAfterStop
<1>15. CASE Answer
  BY <1>15, <1>a DEF Answer, Types, NoTaskAfterStop
<1>16. CASE UNCHANGED vars
  BY <1>16, <1>a DEF vars, NoTaskAfterStop
<1>. QED
  BY <1>1, <1>2, <1>3, <1>4, <1>5, <1>6, <1>7, <1>8,
     <1>9, <1>10, <1>11, <1>12, <1>13, <1>14, <1>15, <1>16
     DEF Next, OwnerStep, StageStep, Terminated

LEMMA NextQuiet ==
  ASSUME PInv, [Next]_vars
  PROVE  QuietStart'
<1> USE NumStagesAssumption, JobsAssumption DEF Stages, Last
<1>a. Types /\ JobsInHand /\ Lifecycle /\ QuietStart
  BY DEF PInv, TypeOK
<1>1. CASE StartStage
  BY <1>1, <1>a DEF StartStage, Types, QuietStart, accepted
<1>2. CASE SpawnWorker
  BY <1>2, <1>a DEF SpawnWorker, Types, QuietStart, accepted
<1>3. CASE BeginStop
  BY <1>3, <1>a DEF BeginStop, Types, QuietStart, accepted
<1>4. CASE StopStage
  BY <1>4, <1>a DEF StopStage, Types, QuietStart, accepted, Notified
<1>5. CASE JoinStage
  BY <1>5, <1>a DEF JoinStage, Types, QuietStart, accepted
<1>6. ASSUME NEW h \in Handlers, NEW j \in Jobs, CalculateMetrics(h, j)
      PROVE  QuietStart'
  BY <1>6, <1>a DEF CalculateMetrics, Types, QuietStart, accepted
<1>7. ASSUME NEW h \in Handlers, NotifyFirst(h)
      PROVE  QuietStart'
  BY <1>7, <1>a DEF NotifyFirst, Types, QuietStart, accepted, Notified
<1>8. ASSUME NEW s \in Stages, WorkerWait(s)
      PROVE  QuietStart'
  BY <1>8, <1>a DEF WorkerWait, Types, QuietStart, accepted
<1>9. ASSUME NEW s \in Stages, WorkerWakeSpuriously(s)
      PROVE  QuietStart'
  BY <1>9, <1>a DEF WorkerWakeSpuriously, Types, QuietStart, accepted
<1>10. ASSUME NEW s \in Stages, WorkerTake(s)
      PROVE  QuietStart'
  BY <1>10, <1>a DEF WorkerTake, Types, QuietStart, accepted
<1>11. ASSUME NEW s \in Stages, WorkerExit(s)
      PROVE  QuietStart'
  <2>1. owner \notin {"starting", "spawning"}
    BY <1>11, <1>a DEF WorkerExit, QuietStart, Lifecycle, Unspawned, Joined,
                    StopRequested
  <2>. QED  BY <2>1, <1>11 DEF WorkerExit, QuietStart
<1>12. ASSUME NEW s \in Stages, Forward(s)
      PROVE  QuietStart'
  BY <1>12, <1>a DEF Forward, Types, QuietStart, accepted
<1>13. ASSUME NEW s \in Stages, NotifyNext(s)
      PROVE  QuietStart'
  BY <1>13, <1>a DEF NotifyNext, Types, QuietStart, accepted, Notified
<1>14. CASE ReportEmptyMst
  BY <1>14, <1>a DEF ReportEmptyMst, Types, QuietStart, accepted
<1>15. CASE Answer
  <2>1. owner \notin {"starting", "spawning"}
    BY <1>15, <1>a, NextStage DEF Answer, QuietStart
  <2>. QED  BY <2>1, <1>15 DEF Answer, QuietStart
<1>16. CASE UNCHANGED vars
  BY <1>16, <1>a DEF vars, QuietStart, accepted
<1>. QED
  BY <1>1, <1>2, <1>3, <1>4, <1>5, <1>6, <1>7, <1>8,
     <1>9, <1>10, <1>11, <1>12, <1>13, <1>14, <1>15, <1>16
     DEF Next, OwnerStep, StageStep, Terminated

LEMMA InitPInv == Init => PInv
<1> SUFFICES ASSUME Init PROVE PInv
  OBVIOUS
<1> USE NumStagesAssumption, JobsAssumption DEF Init
<1>1. <<>> \in Seq(Jobs) /\ Len(<<>>) = 0
  BY EmptySeq
<1>2. Types /\ JobsInHand
  BY <1>1 DEF Types, JobsInHand, Stages, Last, Workers, Owners
<1>3. StageFifo
  <2>1. \A s \in Stages : /\ log[s] = <<>> /\ log[s + 1] = <<>>
                          /\ InHand(s) = <<>> /\ queue[s] = <<>>
    BY DEF Stages, InHand
  <2>2. <<>> = (<<>> \o <<>>) \o <<>>
    BY <1>1, ConcatEmptySeq
  <2>. QED  BY <2>1, <2>2, Zenon DEF StageFifo
<1>4. AcceptanceOrder
  BY <1>1 DEF AcceptanceOrder, Prefix, accepted
<1>5. NoLostWakeup /\ StopDrainsInOrder /\ NoTaskAfterStop
  BY DEF NoLostWakeup, StopDrainsInOrder, NoTaskAfterStop, Joined, Stages
<1>6. Lifecycle /\ QuietStart
  BY DEF Lifecycle, QuietStart, Unspawned, Joined, StopRequested, Stages, accepted
<1>. QED  BY <1>2, <1>3, <1>4, <1>5, <1>6 DEF PInv, TypeOK

-----------------------------------------------------------------------------
(* The inductive invariant of the pipeline, for every number of stages,    *)
(* handlers and jobs (Pipeline.cpp:14-130).                                *)
THEOREM PipelineInvariant == SafetySpec => []PInv
<1>1. PInv /\ [Next]_vars => PInv'
  BY NextTypes, NextJobsInHand, NextStageFifo, NextAcceptanceOrder, NextWakeup,
     NextDrains, NextNoTask, NextLifecycle, NextQuiet DEF PInv, TypeOK
<1>. QED  BY <1>1, InitPInv, PTL DEF SafetySpec

(* No job is lost, duplicated or overtaken at any stage                    *)
(* (Pipeline.cpp:49,80,87,92,97).                                          *)
THEOREM JobsKeptAtEveryStage == SafetySpec => []StageFifo
<1>. PInv => StageFifo
  BY DEF PInv
<1>. QED  BY PipelineInvariant, PTL

(* The callbacks are called in the order in which the jobs were accepted,  *)
(* however many stages there are (Pipeline.cpp:49,115).                    *)
THEOREM AnswersInOrder == SafetySpec => []AcceptanceOrder
<1>. PInv => AcceptanceOrder
  BY DEF PInv
<1>. QED  BY PipelineInvariant, PTL

(* No stage sleeps through a task or through stop().                       *)
THEOREM StagesNeverMissWakeup == SafetySpec => []NoLostWakeup
<1>. PInv => NoLostWakeup
  BY DEF PInv
<1>. QED  BY PipelineInvariant, PTL

(* stop() drains the chain stage by stage: when a stage has been joined,   *)
(* every job accepted has left it (Pipeline.cpp:38-44).                    *)
THEOREM StopDrainsChain == SafetySpec => []StopDrainsInOrder
<1>. PInv => StopDrainsInOrder
  BY DEF PInv
<1>. QED  BY PipelineInvariant, PTL

(* No task is pushed onto a stage whose worker has ended: it would never   *)
(* run (Pipeline.cpp:38-44,80).                                            *)
THEOREM NoTaskLeftBehind == SafetySpec => []NoTaskAfterStop
<1>. PInv => NoTaskAfterStop
  BY DEF PInv
<1>. QED  BY PipelineInvariant, PTL

(* The state of the chain is well typed, and a worker has a job in hand    *)
(* exactly while it executes its task (ActiveObject.cpp:78-104).           *)
THEOREM ChainTypeCorrect == SafetySpec => []TypeOK
<1>. PInv => TypeOK
  BY DEF PInv
<1>. QED  BY PipelineInvariant, PTL

-----------------------------------------------------------------------------
LEMMA StepRefines ==
  ASSUME PInv, PInv', [Next]_vars
  PROVE  [Service!Next]_Service!svars
<1> USE NumStagesAssumption DEF Stages, Last
<1>a. /\ Types /\ JobsInHand /\ StageFifo /\ AcceptanceOrder
      /\ StopDrainsInOrder' /\ Types'
  BY DEF PInv, TypeOK
<1>b. 0 # NumStages /\ 0 \in 0 .. NumStages /\ NumStages \in 0 .. NumStages
  OBVIOUS
<1>1. ASSUME NEW h \in Handlers, NEW j \in Jobs, CalculateMetrics(h, j)
      PROVE  Service!Accept(j)
  BY <1>1, <1>a, <1>b DEF CalculateMetrics, Types, Service!Accept, accepted, answered
<1>2. CASE JoinStage /\ at = Last
  <2>1. accepted' = accepted /\ answered' = answered /\ owner # "stopped"
        /\ owner' = "stopped"
    BY <1>2 DEF JoinStage, accepted, answered
  <2>2. answered' = accepted'
    <3>1. Joined(Last)' /\ Last \in Stages /\ Last + 1 = NumStages
      BY <2>1 DEF Joined
    <3>. HIDE DEF Last, Stages
    <3>. QED  BY <3>1, <1>a DEF StopDrainsInOrder, answered
  <2>. QED  BY <2>1, <2>2 DEF Service!Next, Service!Close
<1>3. CASE Answer
  <2>1. /\ accepted' = accepted /\ owner' = owner
        /\ answered' = Append(answered, current[Last])
    BY <1>3, <1>a, <1>b DEF Answer, Types, accepted, answered
  <2>2. /\ Len(answered) < Len(accepted)
        /\ current[Last] = accepted[Len(answered) + 1]
    <3>1. Last \in Stages /\ Last + 1 = NumStages /\ worker[Last] = "executing"
      BY <1>3 DEF Answer
    <3>. HIDE DEF Last
    <3>. QED  BY <3>1, <1>a, PassOn DEF answered
  <2>3. owner # "stopped"
    <3>1. Lifecycle /\ worker[Last] = "executing" /\ Last \in Stages
      BY <1>3 DEF Answer, PInv
    <3>. QED  BY <3>1 DEF Lifecycle, Joined
  <2>. QED  BY <2>1, <2>2, <2>3 DEF Service!Next, Service!Answer
<1>4. ASSUME log' = log, (owner = "stopped") = (owner' = "stopped")
      PROVE  UNCHANGED Service!svars
  BY <1>4 DEF Service!svars, accepted, answered
<1>5. ASSUME NEW s \in Stages, Forward(s)
      PROVE  UNCHANGED Service!svars
  <2>1. s + 1 \in 1 .. NumStages - 1
    BY <1>5 DEF Forward
  <2>. QED  BY <2>1, <1>5, <1>a DEF Forward, Types, Service!svars, accepted, answered
<1>6. CASE StartStage \/ SpawnWorker \/ BeginStop \/ StopStage
  BY <1>4, <1>6 DEF StartStage, SpawnWorker, BeginStop, StopStage
<1>7. CASE JoinStage /\ at # Last
  BY <1>4, <1>7 DEF JoinStage
<1>8. ASSUME NEW s \in Stages,
             \/ WorkerWait(s) \/ WorkerTake(s) \/ WorkerExit(s) \/ NotifyNext(s)
             \/ WorkerWakeSpuriously(s) \/ ReportEmptyMst
      PROVE  UNCHANGED Service!svars
  BY <1>4, <1>8 DEF WorkerWait, WorkerTake, WorkerExit, NotifyNext,
     WorkerWakeSpuriously, ReportEmptyMst
<1>9. ASSUME NEW h \in Handlers, NotifyFirst(h)
      PROVE  UNCHANGED Service!svars
  BY <1>4, <1>9 DEF NotifyFirst
<1>10. CASE UNCHANGED vars
  BY <1>4, <1>10 DEF vars
<1>. QED
  BY <1>1, <1>2, <1>3, <1>5, <1>6, <1>7, <1>8, <1>9, <1>10
     DEF Next, OwnerStep, StageStep, Terminated, Service!Next

(* The pipeline implements the service the handlers rely on: answers in    *)
(* the order of acceptance, each once, and all of them before stop()       *)
(* returns.                                                                *)
THEOREM RefinesService == SafetySpec => ImplementsService
<1>1. Init => Service!Init
  BY NumStagesAssumption DEF Init, Service!Init, accepted, answered
<1>2. PInv /\ PInv' /\ [Next]_vars => [Service!Next]_Service!svars
  BY StepRefines
<1>. QED
  BY <1>1, <1>2, PipelineInvariant, PTL DEF SafetySpec, ImplementsService, Service!SafetySpec

-----------------------------------------------------------------------------
(* The stages as active objects.                                            *)

\* No job is accepted twice.
AcceptedOnce ==
  \A i, k \in DOMAIN accepted : accepted[i] = accepted[k] => i = k

LEMMA NextAcceptedOnce ==
  ASSUME PInv, AcceptedOnce, [Next]_vars
  PROVE  AcceptedOnce'
<1>a. Types /\ accepted \in Seq(Jobs) /\ 0 # NumStages
  BY NumStagesAssumption DEF PInv, TypeOK, Types, accepted
<1>1. CASE accepted' = accepted
  BY <1>1 DEF AcceptedOnce
<1>2. ASSUME NEW h \in Handlers, NEW j \in Jobs, CalculateMetrics(h, j)
      PROVE  AcceptedOnce'
  <2>1. accepted' = Append(accepted, j) /\ j \notin Elems(accepted)
    BY <1>2, <1>a, NumStagesAssumption DEF CalculateMetrics, Types, accepted
  <2>2. \A i \in DOMAIN accepted : accepted[i] # j
    BY <2>1 DEF Elems
  <2>. QED  BY <1>a, <2>1, <2>2 DEF AcceptedOnce
<1>3. ASSUME NEW s \in Stages, Forward(s)
      PROVE  accepted' = accepted
  <2>1. s + 1 \in 0 .. NumStages /\ s + 1 # 0
    BY NumStagesAssumption DEF Stages
  <2>. QED  BY <2>1, <1>3, <1>a DEF Forward, Types, accepted
<1>4. ASSUME Answer PROVE accepted' = accepted
  BY <1>4, <1>a, NumStagesAssumption DEF Answer, Types, accepted
<1>5. CASE log' = log
  BY <1>1, <1>5 DEF accepted
<1>6. CASE OwnerStep \/ BeginStop \/ UNCHANGED vars
  BY <1>5, <1>6 DEF OwnerStep, StartStage, SpawnWorker, BeginStop, StopStage,
     JoinStage, vars
<1>7. ASSUME NEW s \in Stages,
             \/ WorkerWait(s) \/ WorkerTake(s) \/ WorkerExit(s) \/ NotifyNext(s)
             \/ WorkerWakeSpuriously(s) \/ ReportEmptyMst
      PROVE  AcceptedOnce'
  BY <1>5, <1>7 DEF WorkerWait, WorkerTake, WorkerExit, NotifyNext,
     WorkerWakeSpuriously, ReportEmptyMst
<1>8. ASSUME NEW h \in Handlers, NotifyFirst(h) PROVE AcceptedOnce'
  BY <1>5, <1>8 DEF NotifyFirst
<1>. QED
  BY <1>1, <1>2, <1>3, <1>4, <1>6, <1>7, <1>8
     DEF Next, StageStep, Terminated

\* What a step leaves of a stage it has no part in.
Same(t) ==
  /\ queue'[t] = queue[t] /\ running'[t] = running[t]
  /\ WorkerOf(t)' = WorkerOf(t) /\ current'[t] = current[t]
  /\ OwnerOf(t)' = OwnerOf(t) /\ NotifyingOf(t)' = NotifyingOf(t)
  /\ log'[t] = log[t] /\ log'[t + 1] = log[t + 1]
  /\ StopMarkOf(t)' = StopMarkOf(t)

AsActiveObject(t) == Stage(t)!Next \/ UNCHANGED Stage(t)!vars

LEMMA SameStutters == ASSUME NEW t, Same(t) PROVE AsActiveObject(t)
  BY DEF Same, AsActiveObject, Stage!vars

LEMMA InitStages == ASSUME Init PROVE \A s \in Stages : Stage(s)!Init
<1> SUFFICES ASSUME NEW s \in Stages PROVE Stage(s)!Init
  OBVIOUS
<1>1. s + 1 \in 0 .. NumStages /\ s \in 0 .. NumStages /\ s - 1 # s
      /\ (s # 0 => s - 1 \in Stages)
  BY NumStagesAssumption DEF Stages
<1>2. WorkerOf(s) = "none" /\ OwnerOf(s) = "idle" /\ NotifyingOf(s) = {}
      /\ StopMarkOf(s) = 0
  BY <1>1 DEF Init, WorkerOf, OwnerOf, NotifyingOf, StopMarkOf, StopRequested, Joined
<1> QED
  BY <1>1, <1>2 DEF Init, Stage!Init

\* The steps in which the owner or a worker changes its state and no task
\* moves.
Still == UNCHANGED <<queue, current, log>>

LEMMA OwnerStepsOfStage ==
  ASSUME PInv, OwnerStep \/ BeginStop, NEW t \in Stages
  PROVE  AsActiveObject(t)
<1>a. Types /\ Lifecycle /\ at \in Stages
  BY DEF PInv, TypeOK, Types
<1>b. t \in Int /\ at \in Int /\ Last \in Int /\ t <= Last /\ 0 <= t /\ 0 \in Stages
      /\ (t # 0 => t - 1 \in Stages) /\ t - 1 # t
  BY <1>a, NumStagesAssumption DEF Stages, Last
<1>1. CASE StartStage
  <2>1. Still /\ worker' = worker /\ notifying' = notifying /\ at' = at
        /\ owner = "starting" /\ owner' = "spawning"
        /\ running' = [running EXCEPT ![at] = TRUE]
    BY <1>1 DEF StartStage, Still
  <2>2. WorkerOf(t)' = WorkerOf(t) /\ NotifyingOf(t)' = NotifyingOf(t)
        /\ StopMarkOf(t)' = StopMarkOf(t)
    BY <2>1 DEF WorkerOf, NotifyingOf, StopMarkOf, StopRequested, Joined, Still
  <2>3. CASE t = at
    <3>1. OwnerOf(t) = "idle" /\ OwnerOf(t)' = "starting" /\ ~running[t] /\ running'[t] = TRUE
      BY <2>1, <2>3, <1>a, <1>b DEF OwnerOf, Types, Lifecycle, Unspawned
    <3> QED
      BY <2>1, <2>2, <3>1, <1>a DEF AsActiveObject, Stage!Next, Stage!StartSetRunning,
         Still, Types
  <2>4. CASE t # at
    <3>1. OwnerOf(t)' = OwnerOf(t) /\ running'[t] = running[t]
      BY <2>1, <2>4, <1>a DEF OwnerOf, Types
    <3> QED
      BY <2>1, <2>2, <3>1, SameStutters DEF Same, Still
  <2> QED
    BY <2>3, <2>4
<1>2. CASE SpawnWorker
  <2>1. Still /\ running' = running /\ notifying' = notifying
        /\ owner = "spawning" /\ owner' \in {"starting", "serving"}
        /\ worker' = [worker EXCEPT ![at] = "awake"]
    BY <1>2 DEF SpawnWorker, Still
  <2>2. worker[at] = "none"
    BY <2>1, <1>a, <1>b DEF Lifecycle, Unspawned
  <2>3. NotifyingOf(t)' = NotifyingOf(t) /\ StopMarkOf(t)' = StopMarkOf(t)
    <3>1. StopMarkOf(t)' = StopMarkOf(t)
      BY <2>1 DEF StopMarkOf, StopRequested, Joined, Still
    <3>2. \A r \in Stages : worker'[r] = "notifying" <=> worker[r] = "notifying"
      BY <2>1, <2>2, <1>a DEF Types
    <3> QED
      BY <3>1, <3>2, <2>1, <1>b DEF NotifyingOf
  <2>4. CASE t = at
    <3>1. OwnerOf(t) = "starting" /\ OwnerOf(t)' = "idle" /\ WorkerOf(t)' = "awake"
      BY <2>1, <2>4, <1>a DEF OwnerOf, WorkerOf, Types
    <3> QED
      BY <2>1, <2>3, <3>1 DEF AsActiveObject, Stage!Next, Stage!StartSpawnWorker, Still
  <2>5. CASE t # at
    <3>1. OwnerOf(t)' = OwnerOf(t) /\ WorkerOf(t)' = WorkerOf(t)
      BY <2>1, <2>5, <1>a DEF OwnerOf, WorkerOf, Types
    <3> QED
      BY <2>1, <2>3, <3>1, SameStutters DEF Same, Still
  <2> QED
    BY <2>4, <2>5
<1>3. CASE BeginStop
  <2>1. Still /\ running' = running /\ worker' = worker /\ notifying' = notifying
        /\ owner = "serving" /\ owner' = "stopping" /\ at' = at /\ at = 0
    BY <1>3, <1>a DEF BeginStop, Still, Lifecycle
  <2>2. WorkerOf(t)' = WorkerOf(t) /\ NotifyingOf(t)' = NotifyingOf(t)
        /\ OwnerOf(t)' = OwnerOf(t)
    BY <2>1 DEF WorkerOf, NotifyingOf, OwnerOf
  <2>3. StopMarkOf(t)' = StopMarkOf(t)
    BY <2>1, <1>b DEF StopMarkOf, StopRequested, Joined, Still
  <2> QED
    BY <2>1, <2>2, <2>3, SameStutters DEF Same, Still
<1>4. CASE StopStage
  <2>1. Still /\ notifying' = notifying /\ at' = at
        /\ owner = "stopping" /\ owner' = "joining"
        /\ running' = [running EXCEPT ![at] = FALSE]
        /\ worker' = [worker EXCEPT ![at] = Notified(at)]
    BY <1>4 DEF StopStage, Still
  <2>2. NotifyingOf(t)' = NotifyingOf(t)
    <3>1. \A r \in Stages : worker'[r] = "notifying" <=> worker[r] = "notifying"
      BY <2>1, <1>a DEF Types, Notified
    <3> QED
      BY <3>1, <2>1, <1>b DEF NotifyingOf
  <2>3. CASE t = at
    <3>1. OwnerOf(t) = "idle" /\ OwnerOf(t)' = "joining"
          /\ WorkerOf(t)' = (IF WorkerOf(t) = "waiting" THEN "awake" ELSE WorkerOf(t))
          /\ running[t] /\ running'[t] = FALSE
      BY <2>1, <2>3, <1>a, <1>b DEF OwnerOf, WorkerOf, Types, Notified, Lifecycle,
         Unspawned, StopRequested, Joined
    <3>2. StopMarkOf(t)' = Len(log[t])
      BY <2>1, <2>3 DEF StopMarkOf, StopRequested, Still
    <3> QED
      BY <2>1, <2>2, <3>1, <3>2 DEF AsActiveObject, Stage!Next, Stage!StopRequest,
         Stage!Notified, Still
  <2>4. CASE t # at
    <3>1. OwnerOf(t)' = OwnerOf(t) /\ WorkerOf(t)' = WorkerOf(t)
          /\ running'[t] = running[t] /\ StopMarkOf(t)' = StopMarkOf(t)
      BY <2>1, <2>4, <1>a DEF OwnerOf, WorkerOf, Types, StopMarkOf, StopRequested,
         Joined, Still
    <3> QED
      BY <2>1, <2>2, <3>1, SameStutters DEF Same, Still
  <2> QED
    BY <2>3, <2>4
<1>5. CASE JoinStage
  <2>1. Still /\ notifying' = notifying /\ running' = running
        /\ owner = "joining" /\ worker[at] = "exited"
        /\ worker' = [worker EXCEPT ![at] = "none"]
        /\ IF at = Last
           THEN owner' = "stopped" /\ at' = at
           ELSE owner' = "stopping" /\ at' = at + 1
    BY <1>5 DEF JoinStage, Still
  <2>2. NotifyingOf(t)' = NotifyingOf(t)
    <3>1. \A r \in Stages : worker'[r] = "notifying" <=> worker[r] = "notifying"
      BY <2>1, <1>a DEF Types
    <3> QED
      BY <3>1, <2>1, <1>b DEF NotifyingOf
  <2>3. StopMarkOf(t)' = StopMarkOf(t)
    <3>1. StopRequested(t)' <=> StopRequested(t)
      BY <2>1, <1>b DEF StopRequested, Joined
    <3> QED
      BY <3>1, <2>1 DEF StopMarkOf, Still
  <2>4. CASE t = at
    <3>1. OwnerOf(t) = "joining" /\ OwnerOf(t)' = "idle"
          /\ WorkerOf(t) = "exited" /\ WorkerOf(t)' = "none"
      BY <2>1, <2>4, <1>a DEF OwnerOf, WorkerOf, Types
    <3> QED
      BY <2>1, <2>2, <2>3, <3>1 DEF AsActiveObject, Stage!Next, Stage!StopJoin, Still
  <2>5. CASE t # at
    <3>1. OwnerOf(t)' = OwnerOf(t) /\ WorkerOf(t)' = WorkerOf(t)
      BY <2>1, <2>5, <1>a DEF OwnerOf, WorkerOf, Types
    <3> QED
      BY <2>1, <2>2, <2>3, <3>1, SameStutters DEF Same, Still
  <2> QED
    BY <2>4, <2>5
<1> QED
  BY <1>1, <1>2, <1>3, <1>4, <1>5 DEF OwnerStep

LEMMA HandlerStepsOfStage ==
  ASSUME PInv, NEW h \in Handlers, NEW t \in Stages,
         (\E j \in Jobs : CalculateMetrics(h, j)) \/ NotifyFirst(h)
  PROVE  AsActiveObject(t)
<1>a. Types /\ Lifecycle
  BY DEF PInv, TypeOK
<1>b. t \in Nat /\ t + 1 \in 0 .. NumStages /\ t + 1 # 0 /\ t \in 0 .. NumStages
      /\ 0 \in Stages /\ 0 \in 0 .. NumStages
  BY NumStagesAssumption DEF Stages
<1>1. ASSUME NEW j \in Jobs, CalculateMetrics(h, j)
      PROVE  AsActiveObject(t)
  <2>1. /\ owner = "serving" /\ h \notin notifying /\ j \notin Elems(log[0])
        /\ queue' = [queue EXCEPT ![0] = Append(queue[0], j)]
        /\ log' = [log EXCEPT ![0] = Append(log[0], j)]
        /\ notifying' = notifying \cup {h}
        /\ UNCHANGED <<running, worker, current, owner, at>>
    BY <1>1 DEF CalculateMetrics, accepted
  <2>2. WorkerOf(t)' = WorkerOf(t) /\ OwnerOf(t)' = OwnerOf(t)
        /\ OwnerOf(t) # "destroyed"
        /\ StopMarkOf(t) = 0 /\ StopMarkOf(t)' = 0
    BY <2>1 DEF WorkerOf, OwnerOf, StopMarkOf, StopRequested, Joined
  <2>3. log'[t + 1] = log[t + 1]
    BY <2>1, <1>a, <1>b DEF Types
  <2>4. CASE t = 0
    <3>1. NotifyingOf(t) = notifying /\ NotifyingOf(t)' = notifying'
      BY <2>4 DEF NotifyingOf
    <3>2. queue'[t] = Append(queue[t], j) /\ log'[t] = Append(log[t], j)
      BY <2>1, <2>4, <1>a, <1>b DEF Types
    <3>3. Stage(t)!EnqueuePush(h, j)
      BY <2>1, <2>2, <2>3, <2>4, <3>1, <3>2 DEF Stage!EnqueuePush, Stage!Elems, Elems
    <3> QED
      BY <3>3 DEF AsActiveObject, Stage!Next
  <2>5. CASE t # 0
    <3>1. NotifyingOf(t)' = NotifyingOf(t)
      BY <2>1, <2>5 DEF NotifyingOf
    <3>2. queue'[t] = queue[t] /\ log'[t] = log[t]
      BY <2>1, <2>5, <1>a, <1>b DEF Types
    <3> QED
      BY <2>1, <2>2, <2>3, <3>1, <3>2, SameStutters DEF Same
  <2> QED
    BY <2>4, <2>5
<1>2. CASE NotifyFirst(h)
  <2>1. /\ h \in notifying /\ notifying' = notifying \ {h}
        /\ worker' = [worker EXCEPT ![0] = Notified(0)]
        /\ UNCHANGED <<queue, running, current, owner, at, log>>
    BY <1>2 DEF NotifyFirst
  <2>2. OwnerOf(t)' = OwnerOf(t) /\ StopMarkOf(t)' = StopMarkOf(t)
    BY <2>1 DEF OwnerOf, StopMarkOf, StopRequested, Joined
  <2>3. CASE t = 0
    <3>1. NotifyingOf(t) = notifying /\ NotifyingOf(t)' = notifying'
      BY <2>3 DEF NotifyingOf
    <3>2. WorkerOf(t)' = (IF WorkerOf(t) = "waiting" THEN "awake" ELSE WorkerOf(t))
      BY <2>1, <2>3, <1>a, <1>b DEF WorkerOf, Notified, Types
    <3>3. Stage(t)!EnqueueNotify(h)
      BY <2>1, <2>2, <3>1, <3>2 DEF Stage!EnqueueNotify, Stage!Notified
    <3> QED
      BY <3>3 DEF AsActiveObject, Stage!Next
  <2>4. CASE t # 0
    <3>1. WorkerOf(t)' = WorkerOf(t)
      BY <2>1, <2>4, <1>a DEF WorkerOf, Types
    <3>2. \A r \in Stages : worker'[r] = "notifying" <=> worker[r] = "notifying"
      BY <2>1, <1>a DEF Types, Notified
    <3>3. t - 1 \in Stages
      BY <2>4, NumStagesAssumption DEF Stages
    <3>4. NotifyingOf(t)' = NotifyingOf(t)
      BY <2>4, <3>2, <3>3 DEF NotifyingOf
    <3> QED
      BY <2>1, <2>2, <3>1, <3>4, SameStutters DEF Same
  <2> QED
    BY <2>3, <2>4
<1> QED
  BY <1>1, <1>2

\* What the steps of a worker need of the owner.
SameOwner == UNCHANGED <<owner, at>>

LEMMA OwnerOfKept ==
  ASSUME SameOwner, NEW t, log'[t] = log[t] \/ ~StopRequested(t)
  PROVE  OwnerOf(t)' = OwnerOf(t) /\ StopMarkOf(t)' = StopMarkOf(t)
  BY DEF SameOwner, OwnerOf, StopMarkOf, StopRequested, Joined

\* Steps of the worker of s that leave the queues alone.
LEMMA QuietStepsOfStage ==
  ASSUME PInv, NEW s \in Stages, NEW t \in Stages,
         \/ WorkerWait(s) \/ WorkerTake(s) \/ WorkerExit(s)
         \/ WorkerWakeSpuriously(s) \/ (s = 0 /\ ReportEmptyMst)
  PROVE  AsActiveObject(t)
<1>a. Types
  BY DEF PInv, TypeOK
<1>b. t \in Int /\ (t # 0 => t - 1 \in Stages)
  BY NumStagesAssumption DEF Stages
<1>1. \E v \in Workers \ {"notifying"} : worker' = [worker EXCEPT ![s] = v]
  BY DEF WorkerWait, WorkerTake, WorkerExit, WorkerWakeSpuriously, ReportEmptyMst, Workers
<1>2. worker[s] # "notifying" /\ UNCHANGED <<running, notifying, owner, at, log>>
  BY DEF WorkerWait, WorkerTake, WorkerExit, WorkerWakeSpuriously, ReportEmptyMst
<1>3. OwnerOf(t)' = OwnerOf(t) /\ StopMarkOf(t)' = StopMarkOf(t)
  BY <1>2, OwnerOfKept DEF SameOwner
<1>4. NotifyingOf(t)' = NotifyingOf(t)
  <2>1. \A r \in Stages : worker'[r] = "notifying" <=> worker[r] = "notifying"
    BY <1>1, <1>2, <1>a DEF Types
  <2> QED
    BY <2>1, <1>2, <1>b DEF NotifyingOf
<1>5. CASE t # s
  <2>1. WorkerOf(t)' = WorkerOf(t)
    BY <1>1, <1>5, <1>a DEF WorkerOf, Types
  <2>2. queue'[t] = queue[t] /\ current'[t] = current[t]
    BY <1>5, <1>a DEF WorkerWait, WorkerTake, WorkerExit, WorkerWakeSpuriously,
       ReportEmptyMst, Types
  <2> QED
    BY <1>2, <1>3, <1>4, <2>1, <2>2, SameStutters DEF Same
<1>6. CASE t = s /\ WorkerWait(s)
  <2>1. WorkerOf(s) = "awake" /\ WorkerOf(s)' = "waiting" /\ queue' = queue
        /\ current' = current /\ queue[s] = <<>> /\ running[s]
    BY <1>6, <1>a DEF WorkerWait, WorkerOf, Types
  <2>2. Stage(s)!WorkerWait
    BY <1>2, <1>3, <1>4, <1>6, <2>1 DEF Stage!WorkerWait
  <2> QED
    BY <1>6, <2>2 DEF AsActiveObject, Stage!Next, Stage!Worker
<1>7. CASE t = s /\ WorkerTake(s)
  <2>1. WorkerOf(s) = "awake" /\ WorkerOf(s)' = "executing" /\ queue[s] # <<>>
        /\ current'[s] = Head(queue[s]) /\ queue'[s] = Tail(queue[s])
    BY <1>7, <1>a DEF WorkerTake, WorkerOf, Types
  <2>2. Stage(s)!WorkerTake
    BY <1>2, <1>3, <1>4, <1>7, <2>1 DEF Stage!WorkerTake
  <2> QED
    BY <1>7, <2>2 DEF AsActiveObject, Stage!Next, Stage!Worker
<1>8. CASE t = s /\ WorkerExit(s)
  <2>1. WorkerOf(s) = "awake" /\ WorkerOf(s)' = "exited" /\ queue' = queue
        /\ current' = current /\ queue[s] = <<>> /\ ~running[s]
    BY <1>8, <1>a DEF WorkerExit, WorkerOf, Types
  <2>2. Stage(s)!WorkerExit
    BY <1>2, <1>3, <1>4, <1>8, <2>1 DEF Stage!WorkerExit
  <2> QED
    BY <1>8, <2>2 DEF AsActiveObject, Stage!Next, Stage!Worker
<1>9. CASE t = s /\ WorkerWakeSpuriously(s)
  <2>1. WorkerOf(s) = "waiting" /\ WorkerOf(s)' = "awake" /\ queue' = queue
        /\ current' = current
    BY <1>9, <1>a DEF WorkerWakeSpuriously, WorkerOf, Types
  <2>2. Stage(s)!WorkerWakeSpuriously
    BY <1>2, <1>3, <1>4, <1>9, <2>1 DEF Stage!WorkerWakeSpuriously
  <2> QED
    BY <1>9, <2>2 DEF AsActiveObject, Stage!Next
<1>10. CASE t = s /\ s = 0 /\ ReportEmptyMst
  <2>1. WorkerOf(t)' = WorkerOf(t) /\ queue' = queue /\ current' = current
    BY <1>10, <1>a DEF ReportEmptyMst, WorkerOf, Types
  <2> QED
    BY <1>2, <1>3, <1>4, <2>1, SameStutters DEF Same
<1> QED
  BY <1>5, <1>6, <1>7, <1>8, <1>9, <1>10

\* The job in hand has not passed before.
LEMMA JobIsNew ==
  ASSUME PInv, AcceptedOnce, NEW s \in Stages, worker[s] = "executing"
  PROVE  current[s] \in Jobs /\ current[s] \notin Elems(log[s + 1])
<1>1. /\ Len(log[s + 1]) < Len(accepted)
      /\ current[s] = accepted[Len(log[s + 1]) + 1]
  BY PassOn DEF PInv, TypeOK
<1>2. Prefix(log[s + 1], accepted) /\ Types /\ JobsInHand
  BY NumStagesAssumption DEF PInv, AcceptanceOrder, TypeOK, Stages
<1>3. log[s + 1] \in Seq(Jobs) /\ accepted \in Seq(Jobs)
  BY <1>2, NumStagesAssumption DEF Types, Stages, accepted
<1>4. ASSUME NEW k \in DOMAIN log[s + 1], log[s + 1][k] = current[s]
      PROVE  FALSE
  <2>1. k \in 1 .. Len(log[s + 1]) /\ log[s + 1][k] = accepted[k]
    BY <1>2, <1>3, <1>4 DEF Prefix
  <2>2. k \in DOMAIN accepted /\ Len(log[s + 1]) + 1 \in DOMAIN accepted
        /\ k # Len(log[s + 1]) + 1
    BY <1>1, <1>3, <2>1
  <2> QED
    BY <1>1, <1>4, <2>1, <2>2 DEF AcceptedOnce
<1> QED
  BY <1>2, <1>4 DEF JobsInHand, Elems

\* Steps of the worker of s that pass a job or a notification on.
LEMMA PassingStepsOfStage ==
  ASSUME PInv, AcceptedOnce, NEW s \in Stages, NEW t \in Stages,
         Forward(s) \/ NotifyNext(s) \/ (s = Last /\ Answer)
  PROVE  AsActiveObject(t)
<1>a. Types /\ JobsInHand /\ Lifecycle
  BY DEF PInv, TypeOK
<1>b. /\ t \in Int /\ s \in Int /\ t + 1 \in 0 .. NumStages /\ s + 1 \in 0 .. NumStages
      /\ t \in 0 .. NumStages /\ s # s + 1 /\ s + 1 # 0 /\ s + 1 - 1 = s
      /\ (t # 0 => t - 1 \in Stages) /\ (s # Last => s + 1 \in Stages)
      /\ (t # s => t + 1 # s + 1) /\ (t # s + 1 => t - 1 # s)
      /\ Last + 1 = NumStages /\ NumStages \notin Stages /\ t # NumStages
      /\ (s < Last => s # Last)
  BY NumStagesAssumption DEF Stages, Last
<1>1. ASSUME Forward(s) PROVE AsActiveObject(t)
  <2>1. /\ s < Last /\ worker[s] = "executing" /\ s + 1 \in Stages
        /\ queue' = [queue EXCEPT ![s + 1] = Append(queue[s + 1], current[s])]
        /\ log' = [log EXCEPT ![s + 1] = Append(log[s + 1], current[s])]
        /\ worker' = [worker EXCEPT ![s] = "notifying"]
        /\ current' = [current EXCEPT ![s] = NoJob]
        /\ UNCHANGED <<running, notifying, owner, at>>
    BY <1>1, <1>b DEF Forward
  <2>2. ~StopRequested(s + 1)
    <3>1. ~Joined(s)
      BY <2>1, <1>a DEF Lifecycle
    <3> QED
      BY <3>1, <1>a, <1>b DEF Joined, StopRequested, Types, Stages
  <2>3. OwnerOf(t)' = OwnerOf(t) /\ StopMarkOf(t)' = StopMarkOf(t)
        /\ OwnerOf(t) # "destroyed"
    <3>1. SameOwner /\ (log'[t] = log[t] \/ ~StopRequested(t))
      BY <2>1, <2>2, <1>a, <1>b DEF SameOwner, Types
    <3> QED
      BY <3>1, OwnerOfKept DEF OwnerOf
  <2>7. \A r \in Stages \ {s} : worker'[r] = "notifying" <=> worker[r] = "notifying"
    BY <2>1, <1>a DEF Types
  <2>4. CASE t = s
    <3>1. NotifyingOf(t)' = NotifyingOf(t)
      BY <2>1, <2>7, <2>4, <1>b DEF NotifyingOf
    <3>2. WorkerOf(t) = "executing" /\ WorkerOf(t)' = "awake"
      BY <2>1, <2>4, <1>a DEF WorkerOf, Types
    <3>3. /\ queue'[t] = queue[t] /\ log'[t] = log[t] /\ current'[t] = NoJob
          /\ log'[t + 1] = Append(log[t + 1], current[t])
      BY <2>1, <2>4, <1>a, <1>b DEF Types
    <3>4. Stage(t)!WorkerFinish
      BY <2>1, <2>3, <3>1, <3>2, <3>3 DEF Stage!WorkerFinish
    <3> QED
      BY <3>4 DEF AsActiveObject, Stage!Next, Stage!Worker
  <2>5. CASE t = s + 1
    <3>1. NotifyingOf(t) = {} /\ NotifyingOf(t)' = {s}
      BY <2>1, <2>5, <1>a, <1>b DEF NotifyingOf, Types
    <3>2. WorkerOf(t)' = WorkerOf(t) /\ current'[t] = current[t]
      BY <2>1, <2>5, <1>a, <1>b DEF WorkerOf, Types
    <3>3. /\ queue'[t] = Append(queue[t], current[s])
          /\ log'[t] = Append(log[t], current[s])
          /\ log'[t + 1] = log[t + 1]
      BY <2>1, <2>5, <1>a, <1>b DEF Types
    <3>4. current[s] \in Jobs /\ current[s] \notin Elems(log[t])
      BY <2>1, <2>5, JobIsNew
    <3>5. Stage(t)!EnqueuePush(s, current[s])
      BY <2>1, <2>3, <3>1, <3>2, <3>3, <3>4 DEF Stage!EnqueuePush, Stage!Elems, Elems
    <3> QED
      BY <3>4, <3>5 DEF AsActiveObject, Stage!Next
  <2>6. CASE t # s /\ t # s + 1
    <3>1. NotifyingOf(t)' = NotifyingOf(t)
      BY <2>1, <2>7, <2>6, <1>b DEF NotifyingOf
    <3>2. WorkerOf(t)' = WorkerOf(t) /\ current'[t] = current[t]
      BY <2>1, <2>6, <1>a, <1>b DEF WorkerOf, Types
    <3>3. queue'[t] = queue[t] /\ log'[t] = log[t] /\ log'[t + 1] = log[t + 1]
      BY <2>1, <2>6, <1>a, <1>b DEF Types
    <3> QED
      BY <2>1, <2>3, <3>1, <3>2, <3>3, SameStutters DEF Same
  <2> QED
    BY <2>4, <2>5, <2>6
<1>2. ASSUME NotifyNext(s) PROVE AsActiveObject(t)
  <2>1. /\ worker[s] = "notifying" /\ s # Last /\ s + 1 \in Stages
        /\ worker' = [worker EXCEPT ![s] = "awake", ![s + 1] = Notified(s + 1)]
        /\ UNCHANGED <<queue, running, current, notifying, owner, at, log>>
    BY <1>2, <1>a, <1>b DEF NotifyNext, JobsInHand
  <2>2. OwnerOf(t)' = OwnerOf(t) /\ StopMarkOf(t)' = StopMarkOf(t)
    BY <2>1, OwnerOfKept DEF SameOwner
  <2>3. \A r \in Stages \ {s} : worker'[r] = "notifying" <=> worker[r] = "notifying"
    BY <2>1, <1>a DEF Types, Notified
  <2>4. CASE t # s + 1
    <3>1. NotifyingOf(t)' = NotifyingOf(t)
      BY <2>1, <2>3, <2>4, <1>b DEF NotifyingOf
    <3>2. WorkerOf(t)' = WorkerOf(t)
      BY <2>1, <2>4, <1>a, <1>b DEF WorkerOf, Types
    <3> QED
      BY <2>1, <2>2, <3>1, <3>2, SameStutters DEF Same
  <2>5. CASE t = s + 1
    <3>1. NotifyingOf(t) = {s} /\ NotifyingOf(t)' = {}
      BY <2>1, <2>5, <1>a, <1>b DEF NotifyingOf, Types
    <3>2. WorkerOf(t)' = (IF WorkerOf(t) = "waiting" THEN "awake" ELSE WorkerOf(t))
      BY <2>1, <2>5, <1>a, <1>b DEF WorkerOf, Types, Notified
    <3>3. Stage(t)!EnqueueNotify(s)
      BY <2>1, <2>2, <3>1, <3>2 DEF Stage!EnqueueNotify, Stage!Notified
    <3> QED
      BY <3>3 DEF AsActiveObject, Stage!Next
  <2> QED
    BY <2>4, <2>5
<1>3. ASSUME s = Last, Answer PROVE AsActiveObject(t)
  <2>1. /\ worker[s] = "executing"
        /\ log' = [log EXCEPT ![NumStages] = Append(log[NumStages], current[s])]
        /\ worker' = [worker EXCEPT ![s] = "awake"]
        /\ current' = [current EXCEPT ![s] = NoJob]
        /\ UNCHANGED <<queue, running, notifying, owner, at>>
    BY <1>3 DEF Answer
  <2>2. log'[t] = log[t]
    BY <2>1, <1>a, <1>b DEF Types
  <2>3. OwnerOf(t)' = OwnerOf(t) /\ StopMarkOf(t)' = StopMarkOf(t)
    BY <2>1, <2>2, OwnerOfKept DEF SameOwner
  <2>4. NotifyingOf(t)' = NotifyingOf(t)
    <3>1. \A r \in Stages : worker'[r] = "notifying" <=> worker[r] = "notifying"
      BY <2>1, <1>a DEF Types
    <3> QED
      BY <3>1, <2>1, <1>b DEF NotifyingOf
  <2>5. CASE t = s
    <3>1. WorkerOf(t) = "executing" /\ WorkerOf(t)' = "awake"
      BY <2>1, <2>5, <1>a DEF WorkerOf, Types
    <3>2. current'[t] = NoJob /\ log'[t + 1] = Append(log[t + 1], current[t])
      BY <2>1, <2>5, <1>3, <1>a, <1>b DEF Types
    <3>3. Stage(t)!WorkerFinish
      BY <2>1, <2>2, <2>3, <2>4, <3>1, <3>2 DEF Stage!WorkerFinish
    <3> QED
      BY <3>3 DEF AsActiveObject, Stage!Next, Stage!Worker
  <2>6. CASE t # s
    <3>1. WorkerOf(t)' = WorkerOf(t) /\ current'[t] = current[t]
      BY <2>1, <2>6, <1>a DEF WorkerOf, Types
    <3>2. log'[t + 1] = log[t + 1]
      BY <2>1, <2>6, <1>3, <1>a, <1>b DEF Types
    <3> QED
      BY <2>1, <2>2, <2>3, <2>4, <3>1, <3>2, SameStutters DEF Same
  <2> QED
    BY <2>5, <2>6
<1> QED
  BY <1>1, <1>2, <1>3

LEMMA StepOfStage ==
  ASSUME PInv, AcceptedOnce, [Next]_vars, NEW t \in Stages
  PROVE  AsActiveObject(t)
<1>1. ASSUME NEW s \in Stages, StageStep(s) \/ WorkerWakeSpuriously(s)
      PROVE  AsActiveObject(t)
  <2>1. CASE \/ WorkerWait(s) \/ WorkerTake(s) \/ WorkerExit(s)
             \/ WorkerWakeSpuriously(s) \/ (s = 0 /\ ReportEmptyMst)
    BY <2>1, QuietStepsOfStage
  <2>2. CASE Forward(s) \/ NotifyNext(s) \/ (s = Last /\ Answer)
    BY <2>2, PassingStepsOfStage
  <2> QED
    BY <1>1, <2>1, <2>2 DEF StageStep
<1>2. CASE UNCHANGED vars
  <2>1. Same(t)
    BY <1>2 DEF vars, Same, WorkerOf, OwnerOf, NotifyingOf, StopMarkOf,
       StopRequested, Joined
  <2> QED
    BY <2>1, SameStutters
<1> QED
  BY <1>1, <1>2, OwnerStepsOfStage, HandlerStepsOfStage DEF Next, Terminated

(* Every stage of the pipeline behaves as one ActiveObject, whose callers  *)
(* are the handlers or the worker of the stage before it, as Pipeline.hpp  *)
(* and Pipeline.cpp:32-49,80-97 build it: what is shown of one             *)
(* ActiveObject holds of every stage.                                      *)
THEOREM StagesImplementActiveObject == SafetySpec => StagesAreActiveObjects
<1>1. Init => AcceptedOnce
  BY NumStagesAssumption DEF Init, AcceptedOnce, accepted
<1>2. SafetySpec => [](PInv /\ AcceptedOnce)
  BY <1>1, NextAcceptedOnce, PipelineInvariant, PTL DEF SafetySpec
<1>3. Init => \A s \in Stages : Stage(s)!Init
  BY InitStages
<1>4. PInv /\ AcceptedOnce /\ [Next]_vars
        => [\A s \in Stages : Stage(s)!Next \/ UNCHANGED Stage(s)!vars]_vars
  BY StepOfStage DEF AsActiveObject
<1> QED
  BY <1>2, <1>3, <1>4, PTL DEF SafetySpec, StagesAreActiveObjects
=============================================================================
