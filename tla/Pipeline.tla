------------------------------ MODULE Pipeline ------------------------------
(***************************************************************************)
(* The metrics pipeline (server/src/Pipeline.cpp): a chain of active       *)
(* objects.  A job accepted by calculateMetrics() is a task on stage 0,    *)
(* whose closure enqueues the task of stage 1, and so on; the last stage   *)
(* calls the job's responseCallback.                                       *)
(*                                                                         *)
(* The object's owner (main, through Server::start and Server::stop)       *)
(* starts and stops the stages in index order; the handlers, one thread    *)
(* per client, call calculateMetrics() while the server serves and have    *)
(* been joined when Pipeline::stop() begins (Server.cpp:193-207).          *)
(* Each stage is the ActiveObject of ActiveObject.tla, see Stage below.    *)
(* Allocation failures are not modelled.                                   *)
(***************************************************************************)
EXTENDS Naturals, Sequences

CONSTANTS
  NumStages,    \* number of active objects, 5 in the code
  Handlers,     \* client handler threads
  Jobs,         \* calls of calculateMetrics(), each with its own callback
  EmptyMstJobs, \* those with an empty MST or a graph of one vertex
  NoJob         \* no job in hand

ASSUME NumStagesAssumption == NumStages \in Nat /\ NumStages >= 2
ASSUME JobsAssumption == EmptyMstJobs \subseteq Jobs /\ NoJob \notin Jobs

Stages == 0 .. NumStages - 1
Last == NumStages - 1

VARIABLES
  queue,     \* taskQueue of each stage
  running,   \* running flag of each stage
  worker,    \* worker of each stage: none, awake, waiting, executing its
             \*   task, blocked on coutMutex, notifying the next stage, exited
  current,   \* the job whose task each stage is executing
  notifying, \* handlers between the push and the notify of stage 0
  owner,     \* the owner's position: starting, spawning, serving, stopping,
             \*   joining, stopped
  at,        \* the stage the owner's loop has reached
  log        \* history: log[s] the jobs pushed on stage s, in order;
             \*   log[NumStages] the jobs whose callback was called

vars == <<queue, running, worker, current, notifying, owner, at, log>>

accepted == log[0]
answered == log[NumStages]

Elems(q) == {q[k] : k \in DOMAIN q}

\* Every logging block takes and releases coutMutex at once; only stage 0
\* blocked inside one (see ReportEmptyMst) keeps it.
CoutFree == worker[0] # "blocked"

Notified(s) == IF worker[s] = "waiting" THEN "awake" ELSE worker[s]

-----------------------------------------------------------------------------
Init ==
  /\ queue = [s \in Stages |-> <<>>]
  /\ running = [s \in Stages |-> FALSE]
  /\ worker = [s \in Stages |-> "none"]
  /\ current = [s \in Stages |-> NoJob]
  /\ notifying = {}
  /\ owner = "starting"
  /\ at = 0
  /\ log = [s \in 0 .. NumStages |-> <<>>]

-----------------------------------------------------------------------------
(* Pipeline::start(): for each stage, set its flag, then create its thread. *)

StartStage ==
  /\ owner = "starting"
  /\ running' = [running EXCEPT ![at] = TRUE]
  /\ owner' = "spawning"
  /\ UNCHANGED <<queue, worker, current, notifying, at, log>>

SpawnWorker ==
  /\ owner = "spawning"
  /\ worker' = [worker EXCEPT ![at] = "awake"]
  /\ IF at = Last
     THEN owner' = "serving" /\ at' = 0
     ELSE owner' = "starting" /\ at' = at + 1
  /\ UNCHANGED <<queue, running, current, notifying, log>>

-----------------------------------------------------------------------------
(* calculateMetrics(): a handler enqueues the task of stage 0. *)

CalculateMetrics(h, j) ==
  /\ owner = "serving"
  /\ h \notin notifying
  /\ j \notin Elems(accepted)
  /\ queue' = [queue EXCEPT ![0] = Append(@, j)]
  /\ log' = [log EXCEPT ![0] = Append(@, j)]
  /\ notifying' = notifying \cup {h}
  /\ UNCHANGED <<running, worker, current, owner, at>>

NotifyFirst(h) ==
  /\ h \in notifying
  /\ notifying' = notifying \ {h}
  /\ worker' = [worker EXCEPT ![0] = Notified(0)]
  /\ UNCHANGED <<queue, running, current, owner, at, log>>

-----------------------------------------------------------------------------
(* Pipeline::stop(): for each stage in turn, reset its flag, join it. *)

\* A variant of BeginStop whose loop skips the first stage.
BeginStopSkippingFirst ==
  /\ owner = "serving"
  /\ notifying = {}
  /\ owner' = "stopping"
  /\ at' = 1
  /\ UNCHANGED <<queue, running, worker, current, notifying, log>>

BeginStop ==
  /\ owner = "serving"
  /\ notifying = {}
  /\ owner' = "stopping"
  /\ UNCHANGED <<queue, running, worker, current, notifying, at, log>>

\* A variant of StopStage that resets the flag but wakes nobody.
StopStageSilently ==
  /\ owner = "stopping"
  /\ running' = [running EXCEPT ![at] = FALSE]
  /\ owner' = "joining"
  /\ UNCHANGED <<queue, worker, current, notifying, at, log>>

StopStage ==
  /\ owner = "stopping"
  /\ running' = [running EXCEPT ![at] = FALSE]
  /\ worker' = [worker EXCEPT ![at] = Notified(at)]
  /\ owner' = "joining"
  /\ UNCHANGED <<queue, current, notifying, at, log>>

\* A variant of JoinStage that goes on without waiting for the worker.
JoinStageDetached ==
  /\ owner = "joining"
  /\ IF at = Last
     THEN owner' = "stopped" /\ at' = at
     ELSE owner' = "stopping" /\ at' = at + 1
  /\ UNCHANGED <<queue, running, worker, current, notifying, log>>

JoinStage ==
  /\ owner = "joining"
  /\ worker[at] = "exited"
  /\ worker' = [worker EXCEPT ![at] = "none"]
  /\ IF at = Last
     THEN owner' = "stopped" /\ at' = at
     ELSE owner' = "stopping" /\ at' = at + 1
  /\ UNCHANGED <<queue, running, current, notifying, log>>

-----------------------------------------------------------------------------
(* ActiveObject::run() of stage s, around its task. *)

WorkerWait(s) ==
  /\ worker[s] = "awake"
  /\ queue[s] = <<>>
  /\ running[s]
  /\ worker' = [worker EXCEPT ![s] = "waiting"]
  /\ UNCHANGED <<queue, running, current, notifying, owner, at, log>>

WorkerWakeSpuriously(s) ==
  /\ worker[s] = "waiting"
  /\ worker' = [worker EXCEPT ![s] = "awake"]
  /\ UNCHANGED <<queue, running, current, notifying, owner, at, log>>

WorkerTake(s) ==
  /\ worker[s] = "awake"
  /\ queue[s] # <<>>
  /\ current' = [current EXCEPT ![s] = Head(queue[s])]
  /\ queue' = [queue EXCEPT ![s] = Tail(@)]
  /\ worker' = [worker EXCEPT ![s] = "executing"]
  /\ UNCHANGED <<running, notifying, owner, at, log>>

\* A variant of WorkerExit that leaves its queue behind.
WorkerExitEagerly(s) ==
  /\ worker[s] = "awake"
  /\ ~running[s]
  /\ worker' = [worker EXCEPT ![s] = "exited"]
  /\ UNCHANGED <<queue, running, current, notifying, owner, at, log>>

WorkerExit(s) ==
  /\ worker[s] = "awake"
  /\ ~running[s]
  /\ queue[s] = <<>>
  /\ worker' = [worker EXCEPT ![s] = "exited"]
  /\ UNCHANGED <<queue, running, current, notifying, owner, at, log>>

-----------------------------------------------------------------------------
(* The tasks.  A job's data is computed by its stage and kept in the       *)
(* closure; it does not influence the control.                             *)

\* A variant of Forward that puts the job in front of those that wait.
ForwardToFront(s) ==
  /\ s < Last
  /\ worker[s] = "executing"
  /\ s = 0 => CoutFree /\ current[s] \notin EmptyMstJobs
  /\ queue' = [queue EXCEPT ![s + 1] = <<current[s]>> \o @]
  /\ log' = [log EXCEPT ![s + 1] = Append(@, current[s])]
  /\ worker' = [worker EXCEPT ![s] = "notifying"]
  /\ current' = [current EXCEPT ![s] = NoJob]
  /\ UNCHANGED <<running, notifying, owner, at>>

\* Stage s is done with the job and pushes the task of stage s + 1.  Stage 0
\* logs twice before, and forwards only jobs with an MST.
Forward(s) ==
  /\ s < Last
  /\ worker[s] = "executing"
  /\ s = 0 => CoutFree /\ current[s] \notin EmptyMstJobs
  /\ queue' = [queue EXCEPT ![s + 1] = Append(@, current[s])]
  /\ log' = [log EXCEPT ![s + 1] = Append(@, current[s])]
  /\ worker' = [worker EXCEPT ![s] = "notifying"]
  /\ current' = [current EXCEPT ![s] = NoJob]
  /\ UNCHANGED <<running, notifying, owner, at>>

\* A variant of NotifyNext that forgets notify_one().
NotifyNextLost(s) ==
  /\ worker[s] = "notifying"
  /\ worker' = [worker EXCEPT ![s] = "awake"]
  /\ UNCHANGED <<queue, running, current, notifying, owner, at, log>>

\* The notify_one() of the enqueue inside the task; then the task returns.
NotifyNext(s) ==
  /\ worker[s] = "notifying"
  /\ worker' = [worker EXCEPT ![s] = "awake", ![s + 1] = Notified(s + 1)]
  /\ UNCHANGED <<queue, running, current, notifying, owner, at, log>>

\* Stage 0 finds the MST empty: it locks coutMutex and calls the callback
\* while it holds it.  The callback is Server's sendResponse, which locks
\* coutMutex too (Server.cpp:257): the thread waits for itself.
ReportEmptyMst ==
  /\ worker[0] = "executing"
  /\ CoutFree
  /\ current[0] \in EmptyMstJobs
  /\ worker' = [worker EXCEPT ![0] = "blocked"]
  /\ UNCHANGED <<queue, running, current, notifying, owner, at, log>>

\* A variant of Answer whose closure outlives the task.
AnswerKeepJob ==
  /\ worker[Last] = "executing"
  /\ CoutFree
  /\ log' = [log EXCEPT ![NumStages] = Append(@, current[Last])]
  /\ worker' = [worker EXCEPT ![Last] = "awake"]
  /\ UNCHANGED <<queue, running, current, notifying, owner, at>>

\* The last stage logs and calls the job's callback, which logs and sends.
Answer ==
  /\ worker[Last] = "executing"
  /\ CoutFree
  /\ log' = [log EXCEPT ![NumStages] = Append(@, current[Last])]
  /\ current' = [current EXCEPT ![Last] = NoJob]
  /\ worker' = [worker EXCEPT ![Last] = "awake"]
  /\ UNCHANGED <<queue, running, notifying, owner, at>>

-----------------------------------------------------------------------------
StageStep(s) ==
  \/ WorkerWait(s)
  \/ WorkerTake(s)
  \/ WorkerExit(s)
  \/ Forward(s)
  \/ NotifyNext(s)
  \/ s = 0 /\ ReportEmptyMst
  \/ s = Last /\ Answer

OwnerStep == StartStage \/ SpawnWorker \/ StopStage \/ JoinStage

Terminated == owner = "stopped" /\ UNCHANGED vars

Next ==
  \/ OwnerStep
  \/ BeginStop
  \/ \E h \in Handlers, j \in Jobs : CalculateMetrics(h, j)
  \/ \E h \in Handlers : NotifyFirst(h)
  \/ \E s \in Stages : StageStep(s) \/ WorkerWakeSpuriously(s)
  \/ Terminated

\* Threads are scheduled; nobody has to submit jobs or to stop the server.
Fairness ==
  /\ WF_vars(OwnerStep)
  /\ \A h \in Handlers : WF_vars(NotifyFirst(h))
  /\ \A s \in Stages : WF_vars(StageStep(s))

SafetySpec == Init /\ [][Next]_vars
Spec == SafetySpec /\ Fairness

-----------------------------------------------------------------------------
Owners == {"starting", "spawning", "serving", "stopping", "joining", "stopped"}
Workers == {"none", "awake", "waiting", "executing", "blocked", "notifying",
            "exited"}

Types ==
  /\ queue \in [Stages -> Seq(Jobs)]
  /\ running \in [Stages -> BOOLEAN]
  /\ worker \in [Stages -> Workers]
  /\ current \in [Stages -> Jobs \cup {NoJob}]
  /\ notifying \in SUBSET Handlers
  /\ owner \in Owners
  /\ at \in Stages
  /\ log \in [0 .. NumStages -> Seq(Jobs)]

\* A worker has a job exactly while its task runs; only stage 0 reports an
\* empty MST, and the last stage has nobody to notify.
JobsInHand ==
  /\ \A s \in Stages :
       current[s] \in Jobs <=> worker[s] \in {"executing", "blocked"}
  /\ \A s \in Stages : worker[s] = "blocked" => s = 0
  /\ worker[Last] # "notifying"

TypeOK == Types /\ JobsInHand

InHand(s) ==
  IF worker[s] \in {"executing", "blocked"} THEN <<current[s]>> ELSE <<>>

\* No job is lost, duplicated or overtaken at a stage: what was pushed on it
\* is what it passed on, then the job in hand, then its queue.
StageFifo ==
  \A s \in Stages : log[s] = (log[s + 1] \o InHand(s)) \o queue[s]

Prefix(p, q) == Len(p) <= Len(q) /\ \A k \in 1 .. Len(p) : p[k] = q[k]

\* Every stage, and the callbacks at the end, see the jobs in the order in
\* which calculateMetrics() accepted them (Pipeline.cpp:49,80,87,92,97,115).
AcceptanceOrder == \A s \in 0 .. NumStages : Prefix(log[s], accepted)

\* No stage sleeps on work or on a stop request with no notification coming.
NotificationComing(s) ==
  IF s = 0 THEN notifying # {} ELSE worker[s - 1] = "notifying"

NoLostWakeup ==
  \A s \in Stages :
    worker[s] = "waiting" /\ (queue[s] # <<>> \/ ~running[s])
      => NotificationComing(s)

Joined(s) == owner = "stopped" \/ (owner \in {"stopping", "joining"} /\ s < at)

StopRequested(s) == Joined(s) \/ (owner = "joining" /\ at = s)

\* stop() joins the stages in the order of the chain, so that jobs in flight
\* reach the stages that still run: when stage s has been joined, every
\* accepted job has left it (Pipeline.cpp:40-43); after the last, every
\* accepted job has been answered.
StopDrainsInOrder == \A s \in Stages : Joined(s) => log[s + 1] = accepted

\* A stage that no longer runs gets no task: it would never execute it.
NoTaskAfterStop ==
  \A s \in Stages : worker[s] \in {"none", "exited"} => queue[s] = <<>>

\* Every accepted job is answered ("a lambda function to send the calculated
\* metrics back to the client", Server.cpp:433).
EveryJobAnswered ==
  \A j \in Jobs : (j \in Elems(accepted)) ~> (j \in Elems(answered))

\* Pipeline::stop() returns, unless a job has blocked stage 0 for good.
StopReturns == (owner = "stopping") ~> (owner = "stopped" \/ ~CoutFree)

-----------------------------------------------------------------------------
\* The inductive invariant behind the properties above: where the owner is
\* tells which stages have a thread, and which of them may still get tasks.
Unspawned(s) == owner \in {"starting", "spawning"} /\ s >= at

Lifecycle ==
  /\ \A s \in Stages :
       /\ (worker[s] = "none") <=> (Unspawned(s) \/ Joined(s))
       /\ worker[s] = "exited" => owner = "joining" /\ s = at
       /\ running[s] <=> ((owner = "spawning" /\ s = at)
                           \/ ~(Unspawned(s) \/ StopRequested(s)))
  /\ owner = "serving" => at = 0
  /\ notifying # {} => owner = "serving"

QuietStart ==
  owner \in {"starting", "spawning"} =>
    /\ accepted = <<>>
    /\ \A s \in Stages :
         queue[s] = <<>> /\ worker[s] \in {"none", "awake", "waiting"}

PInv ==
  /\ TypeOK
  /\ StageFifo
  /\ AcceptanceOrder
  /\ NoLostWakeup
  /\ StopDrainsInOrder
  /\ NoTaskAfterStop
  /\ Lifecycle
  /\ QuietStart

-----------------------------------------------------------------------------
(* Refinements. *)

Service == INSTANCE MetricsService WITH
  accepted <- accepted, answered <- answered, closed <- (owner = "stopped")

\* The pipeline implements the service its callers rely on.
ImplementsService == Service!SafetySpec

\* With the progress of the service as long as no job blocks stage 0: every
\* accepted job is answered.
AnsweredUnlessBlocked == []CoutFree => Service!Progress
=============================================================================
