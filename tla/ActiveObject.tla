---------------------------- MODULE ActiveObject ----------------------------
(***************************************************************************)
(* One ActiveObject (server/src/ActiveObject.cpp): a task queue guarded by *)
(* queueMutex, a condition variable, and a worker thread running run().    *)
(*                                                                         *)
(* A critical section under queueMutex is one step; what the code does     *)
(* outside it (notify_one after the push, the thread creation in start(),  *)
(* the join in stop(), the task itself) is a step of its own.  Callers are *)
(* the threads that call enqueue(); start(), stop() and the destructor are *)
(* called by the one thread that owns the object, as Pipeline does.        *)
(***************************************************************************)
EXTENDS Naturals, Sequences

CONSTANTS
  Callers,   \* threads that call enqueue()
  Tasks,     \* task closures, each a distinct object
  NoTask     \* the empty std::function

ASSUME TasksAssumption == NoTask \notin Tasks

VARIABLES
  queue,     \* taskQueue
  running,   \* the running flag
  worker,    \* workerThread: none (not joinable), awake (about to test the
             \*   predicate), waiting (in condition.wait), executing, exited
  current,   \* run()'s local task
  owner,     \* where the owner is: idle, starting, joining, destroyed
  notifying, \* callers between the push and the notify_one of enqueue()
  pushed,    \* history: every task pushed, in order
  executed,  \* history: every task whose execution has ended, in order
  stopMark   \* history: Len(pushed) when running was last reset

vars == <<queue, running, worker, current, owner, notifying,
          pushed, executed, stopMark>>

Elems(s) == {s[k] : k \in DOMAIN s}

-----------------------------------------------------------------------------
Init ==
  /\ queue = <<>>
  /\ running = FALSE
  /\ worker = "none"
  /\ current = NoTask
  /\ owner = "idle"
  /\ notifying = {}
  /\ pushed = <<>>
  /\ executed = <<>>
  /\ stopMark = 0

\* The worker state after condition.notify_one(): lost unless it waits.
Notified == IF worker = "waiting" THEN "awake" ELSE worker

-----------------------------------------------------------------------------
(* enqueue(): push under the mutex, notify after releasing it. *)

EnqueuePush(c, t) ==
  /\ owner # "destroyed"
  /\ c \notin notifying
  /\ t \notin Elems(pushed)
  /\ queue' = Append(queue, t)
  /\ pushed' = Append(pushed, t)
  /\ notifying' = notifying \cup {c}
  /\ UNCHANGED <<running, worker, current, owner, executed, stopMark>>

EnqueueNotify(c) ==
  /\ c \in notifying
  /\ worker' = Notified
  /\ notifying' = notifying \ {c}
  /\ UNCHANGED <<queue, running, current, owner, pushed, executed, stopMark>>

-----------------------------------------------------------------------------
(* start(), stop() and the destructor.  start() on a running object and    *)
(* stop() on a stopped one return at once and change nothing.              *)

StartSetRunning ==
  /\ owner = "idle"
  /\ ~running
  /\ running' = TRUE
  /\ owner' = "starting"
  /\ UNCHANGED <<queue, worker, current, notifying, pushed, executed, stopMark>>

StartSpawnWorker ==
  /\ owner = "starting"
  /\ worker' = "awake"
  /\ owner' = "idle"
  /\ UNCHANGED <<queue, running, current, notifying, pushed, executed, stopMark>>

\* A variant of StopRequest that resets the flag but wakes nobody.
StopRequestSilently ==
  /\ owner = "idle"
  /\ running
  /\ running' = FALSE
  /\ owner' = "joining"
  /\ stopMark' = Len(pushed)
  /\ UNCHANGED <<queue, worker, current, notifying, pushed, executed>>

\* A variant of StopRequest that never joins the worker.
StopRequestDetached ==
  /\ owner = "idle"
  /\ running
  /\ running' = FALSE
  /\ worker' = Notified
  /\ stopMark' = Len(pushed)
  /\ UNCHANGED <<queue, current, owner, notifying, pushed, executed>>

StopRequest ==
  /\ owner = "idle"
  /\ running
  /\ running' = FALSE
  /\ worker' = Notified
  /\ owner' = "joining"
  /\ stopMark' = Len(pushed)
  /\ UNCHANGED <<queue, current, notifying, pushed, executed>>

StopJoin ==
  /\ owner = "joining"
  /\ worker = "exited"
  /\ worker' = "none"
  /\ owner' = "idle"
  /\ UNCHANGED <<queue, running, current, notifying, pushed, executed, stopMark>>

\* ~ActiveObject() once its stop() has returned.  The threads that enqueue
\* are gone by then; tasks still queued are discarded with the queue.
Destroy ==
  /\ owner = "idle"
  /\ ~running
  /\ notifying = {}
  /\ owner' = "destroyed"
  /\ UNCHANGED <<queue, running, worker, current, notifying,
                 pushed, executed, stopMark>>

-----------------------------------------------------------------------------
(* run(): the worker's loop. *)

\* condition.wait() finds its predicate false and blocks.
WorkerWait ==
  /\ worker = "awake"
  /\ queue = <<>>
  /\ running
  /\ worker' = "waiting"
  /\ UNCHANGED <<queue, running, current, owner, notifying,
                 pushed, executed, stopMark>>

\* A condition variable may also return without a notification.
WorkerWakeSpuriously ==
  /\ worker = "waiting"
  /\ worker' = "awake"
  /\ UNCHANGED <<queue, running, current, owner, notifying,
                 pushed, executed, stopMark>>

\* A variant of WorkerTake that copies the front and forgets the pop.
WorkerTakeNoPop ==
  /\ worker = "awake"
  /\ queue # <<>>
  /\ current' = Head(queue)
  /\ worker' = "executing"
  /\ UNCHANGED <<queue, running, owner, notifying, pushed, executed, stopMark>>

WorkerTake ==
  /\ worker = "awake"
  /\ queue # <<>>
  /\ current' = Head(queue)
  /\ queue' = Tail(queue)
  /\ worker' = "executing"
  /\ UNCHANGED <<running, owner, notifying, pushed, executed, stopMark>>

\* A variant of WorkerFinish whose task outlives the iteration.
WorkerFinishKeepTask ==
  /\ worker = "executing"
  /\ executed' = Append(executed, current)
  /\ worker' = "awake"
  /\ UNCHANGED <<queue, running, current, owner, notifying, pushed, stopMark>>

\* The task returns or throws: both catch handlers only log, and the next
\* iteration starts with an empty task.
WorkerFinish ==
  /\ worker = "executing"
  /\ executed' = Append(executed, current)
  /\ current' = NoTask
  /\ worker' = "awake"
  /\ UNCHANGED <<queue, running, owner, notifying, pushed, stopMark>>

\* A variant of WorkerExit that leaves the loop as soon as running is reset.
WorkerExitEagerly ==
  /\ worker = "awake"
  /\ ~running
  /\ worker' = "exited"
  /\ UNCHANGED <<queue, running, current, owner, notifying,
                 pushed, executed, stopMark>>

WorkerExit ==
  /\ worker = "awake"
  /\ ~running
  /\ queue = <<>>
  /\ worker' = "exited"
  /\ UNCHANGED <<queue, running, current, owner, notifying,
                 pushed, executed, stopMark>>

Worker == WorkerWait \/ WorkerTake \/ WorkerFinish \/ WorkerExit

-----------------------------------------------------------------------------
Terminated == owner = "destroyed" /\ UNCHANGED vars

Next ==
  \/ \E c \in Callers, t \in Tasks : EnqueuePush(c, t)
  \/ \E c \in Callers : EnqueueNotify(c)
  \/ StartSetRunning
  \/ StartSpawnWorker
  \/ StopRequest
  \/ StopJoin
  \/ Destroy
  \/ Worker
  \/ WorkerWakeSpuriously
  \/ Terminated

\* Threads are scheduled and tasks end; nobody is obliged to call the object.
Fairness ==
  /\ \A c \in Callers : WF_vars(EnqueueNotify(c))
  /\ WF_vars(StartSpawnWorker)
  /\ WF_vars(StopJoin)
  /\ WF_vars(Worker)

SafetySpec == Init /\ [][Next]_vars
Spec == SafetySpec /\ Fairness

-----------------------------------------------------------------------------
TypeOK ==
  /\ queue \in Seq(Tasks)
  /\ running \in BOOLEAN
  /\ worker \in {"none", "awake", "waiting", "executing", "exited"}
  /\ current \in Tasks \cup {NoTask}
  /\ (current \in Tasks) <=> (worker = "executing")
  /\ owner \in {"idle", "starting", "joining", "destroyed"}
  /\ notifying \in SUBSET Callers
  /\ pushed \in Seq(Tasks)
  /\ executed \in Seq(Tasks)
  /\ stopMark \in Nat

\* The task the worker has popped and not finished, as a sequence.
InHand == IF worker = "executing" THEN <<current>> ELSE <<>>

\* Tasks are executed in the order of the pushes, each once: what was pushed
\* is what was executed, then what is in hand, then what is queued
\* (taskQueue push, front and pop; ActiveObject.cpp:20,81-82).
FifoExactlyOnce == pushed = executed \o InHand \o queue

\* The worker never sleeps on a true predicate unless a notification is on
\* its way, although enqueue() notifies after releasing the mutex
\* (ActiveObject.cpp:22,49,69).
NoLostWakeup ==
  worker = "waiting" /\ (queue # <<>> \/ ~running) => notifying # {}

\* stop() drains: once it has returned, every task pushed before it was
\* called has been executed, even those still queued (ActiveObject.cpp:73).
StopDrains ==
  owner \in {"idle", "destroyed"} /\ ~running => stopMark <= Len(executed)

\* Neither assigning a new thread in start() nor destroying the object meets
\* a joinable workerThread, which would call std::terminate
\* (ActiveObject.cpp:36,51-54,12).
NeverOverwritesThread ==
  owner \in {"starting", "destroyed"} => worker = "none"

\* A task queued while the object runs is executed, even if stop() follows.
EveryTaskRuns ==
  \A t \in Tasks :
    (running /\ t \in Elems(queue)) ~> (t \in Elems(executed))

\* stop() returns: the join ends (ActiveObject.cpp:53).
StopReturns == (owner = "joining") ~> (owner = "idle")

-----------------------------------------------------------------------------
\* The inductive invariant behind the properties above.
Joining ==
  /\ owner \in {"starting", "joining"} => (running <=> owner = "starting")
  /\ owner = "destroyed" => ~running
  /\ worker = "none" <=> (owner = "starting"
                            \/ (owner \in {"idle", "destroyed"} /\ ~running))
  /\ worker = "exited" => owner = "joining"

Draining ==
  ~running => stopMark <= Len(executed) + Len(InHand) + Len(queue)

ExitedDrained == worker = "exited" => stopMark <= Len(executed)

IInv ==
  /\ TypeOK
  /\ FifoExactlyOnce
  /\ NoLostWakeup
  /\ StopDrains
  /\ Joining
  /\ Draining
  /\ ExitedDrained
=============================================================================
