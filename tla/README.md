# Verification of the MST server

TLA+ models of the graph server in this repository and its client, the TLC runs
that check them, and TLAPS proofs of what matters most. Read it beside the
source; line numbers are those of the files named.

## 1. The system

A TCP server (`server/src`) keeps one shared graph (`common/Graph.cpp`).
Clients (`client/src`) change it, ask for a minimum spanning tree, and for
metrics of it, which a pipeline of active objects computes.

| Component | State | Operations | Used by |
|---|---|---|---|
| ActiveObject | task queue and `running` under `queueMutex`, condition variable, worker thread | enqueue, start, stop, run, destructor | Pipeline |
| Pipeline | five active objects | start, stop, calculateMetrics and its five nested tasks | Server; calls Server's callback |
| Server | `running`, listening socket, accept thread, `clientSockets`, `clientThreads` and their mutexes | start, stop, acceptClients, handleClient | main, signal handler |
| main | `shutdownRequested`, `serverPtr`, `coutMutex` | main loop, signalHandler | the process |
| GraphManager, Graph | adjacency lists, next vertex id, a mutex | add/remove vertex and edge, changeWeight, queries, getGraphString | the handlers |
| KruskalMST, PrimMST, MSTFactory | none | findMST | the handlers |
| MSTMetrics | none | total weight; longest, shortest, average distance | the pipeline's tasks |
| Client | a socket | connect, sendRequest, disconnect | the user |
| CommandQueue | a queue and a mutex | push, pop | nothing in the repository |

How they interact:

- main creates the server, installs the signal handler and polls. Server::start
  creates the accept thread; that creates one handler thread per connection.
- A handler reads a request, works on the graph through GraphManager, answers on
  its descriptor. For `metrics_mst` it gives the pipeline a closure with a
  callback that answers later, from the last stage's thread.
- Stage s of the pipeline enqueues the task of stage s + 1.
- Server::stop runs on the main thread, either at the end of main or inside the
  signal handler on top of whatever main was doing.
- Every part logs under the one `coutMutex`.

Hard behaviours: a notification sent after the unlock; draining a chain of
queues while it is stopped; descriptors closed, reused and closed again by
number by several threads; threads blocked in accept() and read() that must be
woken; a callback that refers to a dead stack frame; a signal handler that takes
locks and runs the whole shutdown; a mutex held around a callback; undirected
edges kept as two half-edges that must agree; a graph read without its lock
while others change it; one read per answer where there may be two answers;
arrays of as many entries as there are vertices, indexed by ids that have gaps.
`PROJECT.json` lists each at its line, with the properties that cover it or the
reason why none does.

What makes each component correct:

- ActiveObject: tasks run once, in order; nobody sleeps on work; stop drains,
  joins and returns; a thread object is never overwritten while joinable.
- Pipeline: each accepted job is answered once, in the order of acceptance, all
  of them before stop returns.
- Server: a handler works on its own connection only; the pipeline outlives the
  handlers; stop wakes and joins everybody; the object is destroyed stopped; a
  signal ends the process; answers reach the client that asked.
- Graph: both halves of an edge agree, no half-edge names a missing vertex, ids
  are not reused; each operation is that of an undirected multigraph.
- MST and metrics: what they return is a minimum spanning forest and its
  metrics, and no array is indexed outside its bounds. The code falls short of
  the last: findMST() leaves its arrays where the ids of the graph have gaps,
  getShortestDistance() also where the graph is disconnected.
- Requests and client: what a client reads answers what it has just asked; as
  long as the server is up every request is answered; no client brings the
  server down for the others. The code falls short of each; `Session` says where
  it does and shows that it does nowhere else.

## 2. Modules

| Module | Models | Uses |
|---|---|---|
| `ActiveObject` | one active object, its callers and its owner | |
| `MetricsService` | what Pipeline promises: accept, answer in order, close | |
| `Pipeline` | the chain of stages, the handlers that submit, the owner that starts and stops; refinement of `MetricsService` | instance of `MetricsService` |
| `PipelineStages` | each stage is an `ActiveObject` | `Pipeline`, instances of `ActiveObject` |
| `UndirectedMultigraph` | what Graph promises: vertices, and a number of edges of each kind | |
| `Graph` | the adjacency lists; refinement of `UndirectedMultigraph` | instance of it |
| `Server` | main thread, signal handler, accept thread, handlers, descriptors; the pipeline as a part that is up, holds jobs, and drains | |
| `SpanningForest` | reference definitions: reachability, forests, minimality, distances in a tree | |
| `KruskalMST`, `PrimMST` | findMST of each, an iteration of the main loop at a time | |
| `MSTFactory` | a call of either on any graph, and what the caller gets | instances of both, `SpanningForest` |
| `MSTMetrics` | the four metrics and the printed tree, on the result of such a call | `MSTFactory` |
| `Session` | clients and handlers over byte streams, the shared graph, the queue of metrics jobs | `SpanningForest` |
| `DataLemmas` | induction on numbers, sequences and finite sets; sums, counts, queues | |
| `ForestProofs` | lemmas about reachability, forests and their total weight | `SpanningForest`, `DataLemmas` |
| `ActiveObjectProofs`, `GraphProofs` | theorems about the module named | `DataLemmas` |
| `PipelineProofs` | theorems about `Pipeline` and `PipelineStages` | `DataLemmas` |
| `MSTProofs` | theorems about `MSTFactory` and `MSTMetrics` | `ForestProofs` |
| `ServerProofs`, `SessionProofs` | theorems about `Server` and `Session` | |
| `MC...` | values for the constants | |

Operators called "a variant of X" are mistakes a maintainer could make in X;
`PROJECT.json` says which property each one breaks. They are in no
specification.

### ActiveObject

`queue`, `running`, `worker`, `current` are taskQueue, running, the worker
thread's position and run()'s local task. A critical section under queueMutex is
one step; the notify_one after the unlock in enqueue(), the thread creation in
start() and the join in stop() are steps of their own. notify_one is lost unless
the worker waits; a waiting worker may wake spuriously. `owner` is the one
thread that starts, stops and destroys the object. `pushed`, `executed` and
`stopMark` are history. Calls that return without a change are not steps. A
task that throws ends like one that returns: both catch blocks only log. start
may be called again after stop.

### Pipeline

The state of ActiveObject, once per stage. `log[s]` is the history of the
pushes on stage s, `log[NumStages]` that of the callbacks. A job is an opaque
value; what its stage computes does not influence the control, except whether
its MST is empty (`EmptyMstJobs`). `Forward` is the task of a stage but the
last up to the push on the next one, `NotifyNext` the notification after it.
`coutMutex` matters in one place: `ReportEmptyMst` takes it and never comes
back, because the callback locks it again; from then on no task can log
(`CoutFree`). The owner enters Pipeline::stop when the handlers have been
joined, as Server::stop does; `Server` checks that it does.

### Server

`main` is the position in main() and Server::start(), `stop` the position in
Server::stop(), whichever of main() and the signal handler called it. A signal
suspends main() (`InMain`). The main thread's sections under coutMutex are
labels, since the signal handler may find the mutex held by the very thread it
interrupts (`signal = "stuck"`); sections under the other mutexes are single
steps. `fdTable` is the process's descriptor table: accept() takes the lowest
free number, close() frees one, whoever calls it. `clientSockets` is a set: the
vector may hold a number twice, but erasing by value drops both and stop()
closes both, so that the multiplicity cannot be observed. A read() in progress
ends when the client hangs up or the connection is shut down, not when its
descriptor is closed. A request is opaque; one of a client in `MetricsClients`
may leave a job with the pipeline, which answers at any later time through the
descriptor the callback finds. While the handler lives its frame still holds
clientSocket there; afterwards the callback may find any descriptor, or crash
the process. That the pipeline drains before it stops is `MetricsService`,
which `Pipeline` implements. Each client connects once; clients are symmetric,
and one that connects again behaves like another one.

### Graph

One action per operation; GraphManager runs each under its mutex. `RemoveEdge`
follows the two remove_if and two erase calls on one vector that a self-loop
leads to (libstdc++ semantics: elements behind the kept ones keep their value).
An operation that returns false, and addEdge when it throws, change nothing and
are not steps.

### MST and metrics

A graph is a set of edges here, not lists of halves: `Graph` shows that the
halves agree where there are no loops, and two edges that agree in everything
are one to both algorithms. Kruskal's loop considers an edge once, in either
direction; its order among equal weights, which std::sort leaves open, is a
choice, and so is the order of the priority queue's equal entries and of an
adjacency list. The first index outside an array ends the run with the status
`outOfBounds`, since anything may follow.

The metrics are functions of the result. Floyd-Warshall is one recursive
function over the combinations of its three loops, in place, as the code has
it. `int` has the width the run gives it: a sum that overflows wraps around,
INT_MAX stands for no path. `MetricsOfTree` asks for the right value only where
no sum can overflow and no weight is negative (`Tame`).

### Session

One client and one handler for each connection, while the server runs; how
connections come and go is in `Server`. A stream to the server is a sequence of
requests, one to the client a sequence of the pieces of at most 1024 bytes that
an answer is read in. A read() takes any positive number of what has arrived:
requests read together are parsed as one message (`Message`), and the client
takes whatever one read returns for the answer. `at` is where the handler is;
each section under graphMutex is a step, and findMST and the copy of the graph,
which hold no lock, begin and end in different steps. A change in between puts
the reader in `raced`: then the walk may return any of the edges that were there
at some moment of it, those removed since included (`tree` keeps them
meanwhile), or crash the process, as it may where an edge leads out of the
arrays. So does a job whose tree is outside its matrices, and a callback whose
handler has ended; these are the steps of `Crash`. An exception in a handler
ends the process, and so does SIGPIPE, at the second send to a client that has
gone.

The pipeline is one queue: that five stages keep the order and lose nothing is
what `Pipeline` shows. A job with an empty tree or a copy of fewer than two
vertices makes coutMutex unavailable for ever (`coutStuck`), as soon as stage 0
reaches it, when jobs before it may still be in later stages. Then a handler
stops at its next log line (`logging`, where that is the one after read()); what
takes no coutMutex goes on: a change of the graph, the throw of addEdge, the
copy and the enqueue, and the computation of stages 1 to 4, which may still
crash. Weights play no part. `misread`, `lost`, `extra`, `stray` and `broken` are
history: the clients that read something else than the answer to their last
request, that lost a request, whose own answers came in more pieces than
requests, that were sent metrics of another client, and the write to which
raised SIGPIPE.

## 3. Runs

All passing runs together fire every action. Deadlock is checked except where
stated.

| Run | Bounds | Shows |
|---|---|---|
| `active_object` | 2 callers, 3 tasks; restarts unbounded | type, FIFO exactly once, no lost wakeup, stop drains, no joinable thread overwritten; every task runs, stop returns |
| `pipeline` | 5 stages, 2 handlers, 3 jobs, one with an empty MST | conservation and order at every stage, draining by the stop order, no task on an ended stage, refinement of `MetricsService` and of five `ActiveObject`s; unless the empty MST is met, every job is answered and stop returns. Deadlock off: the empty MST stops stage 0 for good |
| `pipeline_empty_mst` | 1 job | violation: the job is never answered |
| `graph` | 3 vertex ids, 6 half-edges, 2 weights, no loops | halves agree, no dangling half-edge, edge count, ids not reused, refinement of `UndirectedMultigraph`. Deadlock off: ids run out |
| `graph_loops` | 2 vertices, loops allowed | violation: removing a loop corrupts another edge |
| `server` | 2 clients, 2 descriptors, 1 metrics client, 1 signal | own descriptor, pipeline outlives handlers, no leak, destroyed stopped, connections forgotten only by reuse; a signal ends the process and so stop returns, a hang-up releases the descriptor |
| `server_forgets` | 2 clients | violation: stop() leaves a connection open and joins its handler |
| `server_metrics` | 2 clients | violation: metrics are sent to another client |
| `server_early_signal` | signal during start() only | violation: the object is destroyed with a joinable thread |
| `server_stuck_signal` | signal inside the main thread's sections under coutMutex only | violation: the process never ends. Deadlock off: the main thread waits for itself |
| `mst` | every graph of up to 4 edges on some of 4 vertex ids, out of 12 edges; 6-bit int | Kruskal returns a minimum spanning forest, Prim one of what vertex 0 reaches, findMST() leaves its arrays only where ids have gaps; with tame distances the longest and average metrics are those of the tree, the total where it fits an int, the shortest where it stays in its matrix, as on a connected graph; a connected tree is printed whole. Deadlock off: the algorithms end |
| `session` | 2 clients, 3 and 1 requests, a path of 3 vertices to start with | a client falls out of step only by an answer of its own in two pieces or by the metrics of a client that has left; SIGPIPE comes only from a write to such a client; while the server is up and coutMutex not stuck, every request is answered unless its client is killed. Deadlock off: clients stop asking |

Why the bounds are enough. Three tasks let one be in hand, one queued and one
being pushed; three jobs let one be blocked with others before and behind it. A
property of a stage involves that stage and its neighbours, and three stages
have a first, an inner and a last one; the safety run has the code's five. The
theorems hold for any number of callers, tasks, stages and jobs. Three vertex
ids allow one to be removed between two others, three edges allow two parallel
ones beside a third. Two clients are enough to take over a descriptor; the
properties of `Server` are about a handler and one other. Four vertices and four
edges give trees of three edges, cycles, two
components, loops, parallel edges and every gap; a path of three edges is the
shortest on which the in-place sums meet a detour, and the weights 31 and -1
make them overflow. In `session` the first client asks for metrics, removes a
vertex (a long answer) and sends empty lines, in any order, so that it may be
two answers behind; the second asks once, which is enough to change the graph
under a walk, to name a vertex that has gone, and to be the connection that a
dangling callback writes to. The theorems about both properties hold for any
clients and requests.

The signal labels. A signal can arrive anywhere; `SignalAt` says where it does
in a run. `server` takes every label outside the printing sections and outside
the part of start() between the running flag and the accept thread.
`server_early_signal` takes that part, `server_stuck_signal` the printing
sections: there the handler waits for ever for the mutex of the thread it
interrupted, and `SignalEndsProcess` fails.

The exceptions in the liveness of `Server`. `SignalEndsProcess` allows for a
handler that reads from a connection which the vector has lost
(`server_forgets`) and whose client stays, and for a process brought down by the
dangling callback. `ForgottenOnlyByReuse` says that nothing else makes stop()
forget a connection.

The exceptions in the liveness of `Session`. `WaitingEnds` asks that a client
which has sent a request is back at its prompt while the server is up. It allows
for the user killing the client, for coutMutex being stuck, and for a server
that is down, by an exception, by SIGPIPE or by undefined behaviour: then the
client reads the end of the stream, which is no answer. It does not say that
these are rare: `BrokenPipeOutOfStep` narrows down the second cause only. A
client that has sent an empty line has sent nothing, and may wait for ever. A
client that lost a request still reads something, sent for another one.

The exceptions in the safety of `Session`. `InStep` leaves out the clients whose
own answers came in more pieces than they had sent requests (`extra`), and must:
after one metrics_mst a client reads the metrics as the answer to its next
request, and stays one answer behind. It also leaves out those that were sent
the metrics of another client (`stray`), and says what that takes: a client in `extra` whose handler has ended. `BrokenPipeOutOfStep` is
about the very client the fatal write went to (`broken`); what other clients
were sent is no excuse.

Fairness. Weak fairness of each thread: the operating system schedules it, and
the mutexes are held for bounded sections. The last needs an argument for the
tasks: those of the pipeline are finite computations. No fairness for calls from
outside: nobody has to enqueue, connect, send, hang up or signal. Strong
fairness is never needed, since a thread that can take a step keeps being able
to until it does. Liveness of the pipeline assumes that no job has an empty MST,
liveness of `Server` that a request that is being handled ends; both fail
otherwise, by the deadlock of `pipeline_empty_mst`. `Session` has that deadlock
itself. There the pipeline, each handler and each client's read() are fair;
nobody has to ask or to leave, and undefined behaviour need not crash the process
(`Crash` is not fair).

## 4. Findings

Six disagreements between what the code says and what it does, each the
counterexample of one run; `PROJECT.json` quotes the lines.

1. `pipeline_empty_mst`: the empty-MST error path calls the callback under
   coutMutex, which the callback locks (Pipeline.cpp:63-65, Server.cpp:257).
2. `graph_loops`: removeEdge(v, v) works twice on one vector (Graph.cpp:54-70).
3. `server_forgets`: close before erase by value (Server.cpp:462,471).
4. `server_metrics`: the callback captures a local by reference
   (Server.cpp:434).
5. `server_early_signal`: stop() inside start() (main.cpp:25-27).
6. `server_stuck_signal`: signalHandler locks the coutMutex that the thread it
   interrupts may hold (main.cpp:21).

Others that the models contain without a run of their own. The first is in no
module (the text of an answer is not modelled); for each of the others a checked
property says where it is confined to.

- getGraphString counts ids from 0 (GraphManager.cpp:84): after a removal it
  leaves out the last vertex.
- findMST() indexes arrays of as many entries as there are vertices by id
  (KruskalMST.cpp:38, PrimMST.cpp:65): `FaultOnlyWithGaps`.
- getShortestDistance() sizes its matrix by the number of tree edges and indexes
  it by id (MSTMetrics.cpp:162): `MetricsOfTree`.
- Only the component of the first edge of a forest is shown (Server.cpp:538):
  `TreePrinted`.
- findMST() walks the shared graph without its lock (Server.cpp:418), and the
  graph is copied after the tree has been found and sent (Server.cpp:434): among
  the exceptions of `WaitingEnds`.
- sendRequest() reads once for what may be two answers (Client.cpp:68):
  `InStep`.

## 5. Proofs

TLAPS checks them for every value of the constants, from the named assumptions
only (`TasksAssumption`; `NumStagesAssumption`, `JobsAssumption`;
`ClientsAssumption`, `BoundsAssumption`; `RequestsAssumption`,
`StartAssumption`; `InputsAssumption`; `EdgeInputsAssumption`) and the hypotheses that a theorem states. The
assumptions give the constants their types, and `EdgeInputsAssumption` says that
the greatest int is positive and of the edges a graph may have that they join
ids and have an int for a weight.

`ActiveObjectProofs`. The invariant is `IInv`: the checked properties, and three
facts they need. `Joining` ties the worker's existence to the owner's position
and the running flag: without it nothing says that a worker has ended only while
stop() waits for it. `Draining` bounds what was pushed before the stop by what
has run, is in hand or queued; `ExitedDrained` is what is left of it when the
worker leaves with an empty queue. `FifoExactlyOnce` is inductive by two facts on
sequences (`PushConcat`, `PopIdentity`). From `InvariantHolds` follow
`TypeCorrect`, `FifoOrder`, `WakeupNeverLost`, `StopDrainsQueue` and
`ThreadNeverOverwritten`.

`PipelineProofs`, for any `NumStages >= 2`. The invariant is `PInv`: the checked
properties with `Lifecycle` (the owner's position tells which stages have a
thread and which have been asked to stop) and `QuietStart` (no job before all
stages run: a stage must not push onto one that has not started). One lemma per
conjunct, one step per action in each. The heart is `NextDrains`: when the
worker of stage s exits, its queue is empty and the stages before it have been
joined, so by `StageFifo` everything accepted has left it. `RefinesService`:
every step of the pipeline is a step of `MetricsService` or leaves it unchanged.
`StagesImplementActiveObject`: the same of every stage and `ActiveObject`, so
that what is proved of one active object holds of each of the chain. From
`PipelineInvariant` follow also `JobsKeptAtEveryStage`, `AnswersInOrder`,
`StagesNeverMissWakeup`, `StopDrainsChain`, `NoTaskLeftBehind` and
`ChainTypeCorrect`.

`ServerProofs`, for any clients, descriptors and labels at which signals arrive.
The invariant joins six checked properties with three facts. `Lifecycle` ties
the positions of main and stop() to the running flag, the accept thread and the
pipeline: it is why stop() finds no accept thread when it closes descriptors,
and why the pipeline is up under every handler. `Connections`: a connection
between accept() and its handler is nobody else's. `OpenWhileAccepting`: as long
as the accept thread lives, nobody closes a handler's descriptor but the
handler, so a number that accept() hands out is in nobody's hands.
`OwnDescriptor` then survives stop() closing by number, since after that no
number is handed out. Theorems: `TypeCorrect`, `HandlersKeepToTheirClient`,
`DescriptorsHaveOwners`, `PipelineServesHandlers`,
`ConnectionsAreForgottenByReuse`. `StoppedWhenDestroyed` assumes in its
statement that no signal arrives between the running flag and the accept thread
(`NoHalfwaySignal`); `server_early_signal` shows what happens otherwise.

`SessionProofs`. `TypeCorrect` has an invariant of its own (`Typed`), in four
parts by who changes them. On top of it, `IInv` has four more. `Exchanges`: for a
client that is neither in `extra` nor in `stray`, the one request or answer of its
exchange is in one place, a stream or its handler, and nowhere else; and, if it
has left, at most one write to it is still to come. `MetricsSecond`: whose
handler is past the tree of a metrics_mst, or has a job in the pipeline, is in
`extra`, since the metrics will be its second answer. `StrayNeedsLeaver`: whoever
is in `stray` got the metrics of a client in `extra` whose handler has ended.
`BrokenAreOutOfStep`: SIGPIPE has a culprit, which is in `extra` or `stray`.
`PairedAnswers` (`InStep`) and `SigpipeNeedsExtraAnswer` (`BrokenPipeOutOfStep`)
follow. `MaxVertices` bounds the ids that requests name only: ids of the graph
grow.

`GraphProofs`. The invariant joins the checked properties with `Numbered`, that
every id in use is below the next one. Theorems: `TypeCorrect`,
`NoDanglingHalfEdge`, `ListsAgree`, `EdgeCountCorrect` (half the sum of the lists'
lengths is the number of edges), `RemovedIdsStayUnused`, and
`RefinesMultigraph`: every operation on the lists is the operation of the same
name on an undirected multigraph, or a stutter. They rest on lemmas about
SelectSeq (what is left of a list after a filter, and how often), proved by
induction on sequences. `ListsAgree`, `RefinesMultigraph` and `EdgeCountCorrect` assume in their
statements that no edge is a loop (`Loopless`): with one, removeEdge leaves
half-edges of other edges behind, as `graph_loops` shows. `EdgeCountCorrect`
also assumes that there are finitely many weights, as there are ints.

`ForestProofs`, for the reference definitions of `SpanningForest`. `Reach` is
a recursive function; `ReachIsClosure` says that what it computes is the least
set that contains v and is closed under the edges, and all else follows from
that: it is an equivalence, an edge merges two classes (`ReachWith`), an edge
between two trees of a forest makes a forest, a path out of a set crosses it on
a bridge, and replacing that bridge by another edge across keeps a spanning
forest spanning (`Exchange`). A set of edges is `Cheap` if every spanning forest
can be replaced by one that contains it and weighs no more. `CheapWith` is the
cut property: a cheap set stays cheap with a lightest edge out of a union of its
trees. A cheap forest that spans is minimal (`CheapMinimal`).
The way between two vertices of a tree is the set of edges that part them, which
leave them unconnected if removed (`Parting`): no sequence of edges is needed.
The edges that part a from c are those that part a from b or b from c, but not
both (`PartingOfThree`); so the distance adds up over a vertex in between
(`DistanceAdds`) and is no shorter over any other (`DistanceTriangle`).

`MSTProofs`, for graphs of any vertices and edges, with gaps, loops, parallel
edges and negative weights. The invariant is that of the algorithm's comments,
made precise. For Kruskal: what has been found is a cheap forest; the parents
in the disjoint sets lead to a root without a cycle, and the same root for two
vertices if and only if the tree connects them; the edges considered so far are
within the sets; and there are as many roots as vertices less the edges found,
so that the loop may end with the last one. For Prim: the visited vertices are
those the tree reaches from 0; a key is the least weight of an edge from a
visited vertex, and the parent its other end; the queue has an entry for every
key. Theorems: `TypeCorrect`, `KruskalCorrect`, `PrimCorrect`,
`NoFaultWithoutGaps` (every index of findMST() is within its array if the ids
have no gaps), `WholeTreePrinted`, `MetricsCorrect` and
`AllMetricsOfConnectedGraph`.

`MetricsCorrect` is as strong as the code: where distances are tame it gives the
longest and the average metric without more ado, the total weight if it fits an
int (tame distances do not imply that: a star), and the shortest if the tree is
inside the matrix of getShortestDistance (on a disconnected graph it may not be,
even without gaps). `AllMetricsOfConnectedGraph` draws from it that all four
are right on a connected graph without gaps whose total fits. The proof is about Floyd-Warshall in place. `Correct` is its invariant: after t
iterations the entry of two different vertices is their distance if every vertex
between them has had its turn with them (`Settled`), and INT_MAX otherwise. It
is inductive because of the order of the loops (`TurnOrder`): when k is the last
of the vertices between a and b to have its turn, the ways from a to k and from
k to b are settled (`SettledParts`); when one is still to come, one of those ways
is not (`Unsettled`), its entry is INT_MAX, and the code tests for that. A k that
is not between them never makes their entry less (`Detour`, `DistanceTriangle`).
The diagonal is not what one
expects: it starts at INT_MAX and becomes the way to a neighbour and back, which
is why sums of four distances must not overflow, and no metric reads it. After
the last iteration everything is settled. A connected graph's tree has one edge
less than vertices, which bounds the smaller matrix of getShortestDistance.

`DataLemmas`. The library's induction theorems take an operator for a parameter,
which no installed prover can instantiate. The lemmas here take a set of
elements in its place (`Induction`, `SeqInduction`, `SetInduction`), and
`Recursion` says that a recursive function over 0 .. n exists; that is how a
fact about a sequence, a fold or a recursive function becomes one for every
length.

Only model-checked: liveness (`EveryTaskRuns`, `StopReturns`,
`AnsweredUnlessBlocked`, `SignalEndsProcess`, `HangUpReleases`, `WaitingEnds`),
because the prover knows nothing of fairness and ENABLED. Every invariant and
every action property that a passing run checks is a theorem.

## 6. Not modelled

- Failure to allocate memory or to create a thread; the catch blocks only such
  failures reach.
- The text of messages and answers, but for the pieces they come in; logging
  other than its mutex; a message that fills the 1024 bytes of the buffer; a
  number that does not parse and is read as garbage.
- Freeing the port with `fuser` (Server.cpp:73-106): a failing or succeeding
  bind().
- A signal delivered to another thread than main's.
- `Server` and `Session` together: a shutdown while requests are handled is in
  `Server`, with opaque requests; the requests themselves in `Session`, without
  a shutdown.
- CommandQueue (unused), shell scripts, generated reports.

## 7. Plan

Done, in the order of importance: ActiveObject, Pipeline, their refinements and
proofs; Graph; Server's life cycle and its proofs; the algorithms and metrics;
the session of clients and handlers and its proofs.

What is left:

1. The part of the liveness properties that is safety, as theorems: in every
   state in which a call has yet to return or a job to be answered, and no named
   deadlock holds, some fair action's guard is true.
2. Signals to other threads than main's, which would run stop() on a handler
   that then joins itself.
