------------------------------- MODULE Server -------------------------------
(***************************************************************************)
(* The life of the server process (server/src/Server.cpp, server/src/      *)
(* main.cpp): the main thread with the signal handler that interrupts it,  *)
(* the accept thread, one handler thread per client, the table of file     *)
(* descriptors they share, and the pipeline as a part that is started,     *)
(* given jobs and stopped (what happens inside it is Pipeline.tla).        *)
(*                                                                         *)
(* Signals are delivered to the main thread.  A section under coutMutex is *)
(* a label only on the main thread, where the signal handler can find the  *)
(* mutex held by the thread it interrupts; the sections under              *)
(* clientSocketsMutex, clientThreadsMutex and runningMutex are one step.   *)
(* A request is data the handler answers; a handler thread is named by the *)
(* client it serves, and each client connects at most once.                *)
(***************************************************************************)
EXTENDS Naturals

CONSTANTS
  Clients,        \* the clients that may connect
  MetricsClients, \* those that may ask for metrics_mst
  NoClient,       \* no connection
  MaxFds,         \* bound on the descriptors open at a time
  SignalAt,       \* the labels of the main thread a signal may arrive at
  MaxSignals      \* bound on the signals sent to the process

ASSUME ClientsAssumption ==
  MetricsClients \subseteq Clients /\ NoClient \notin Clients
ASSUME BoundsAssumption == MaxFds \in Nat /\ MaxSignals \in Nat

Fds == 1 .. MaxFds
NoFd == 0

VARIABLES
  main,       \* main()'s position, with the positions of Server::start()
  stop,       \* Server::stop()'s position, "none" when it is not running
  signal,     \* the signal handler: idle, active (it calls stop()), stuck
  signals,    \* signals received so far
  shutdownRequested,
  running,
  listening,  \* serverSocket is open and listening
  pipeline,   \* down, up, stopped
  accept,     \* acceptThread: none, check, accepting, accepted, exited
  incoming,   \* the connection acceptClients() has accepted and not yet
              \*   handed over: its client and descriptor
  backlog,    \* connections the listening socket holds
  hungUp,     \* clients that have closed their end
  fdTable,    \* the connection open under each descriptor
  shut,       \* connections whose reads return 0 after shutdown()
  clientSockets, \* the vector, as the set of its descriptors
  handler,    \* clientThreads: the position of each client's handleClient()
  fdOf,       \* its clientSocket
  inFlight,   \* clients whose metrics job the pipeline has not answered
  delivered   \* history: <<c, d>> when the metrics c asked for went to d

mainVars == <<main, stop, signal, signals, shutdownRequested>>
connVars == <<listening, backlog, hungUp>>
sockVars == <<fdTable, shut, clientSockets>>
threadVars == <<accept, incoming, handler, fdOf>>
jobVars == <<pipeline, inFlight, delivered>>
vars == <<mainVars, running, connVars, sockVars, threadVars, jobVars>>

Nobody == [client |-> NoClient, fd |-> NoFd]

\* The main thread holds coutMutex at these labels.
PrintLabels == {"sayStarting", "sayListening", "sayStarted",
                "sayStopping", "sayStopped"}

StartLabels == {"sayStarting", "bind", "sayListening", "setRunning",
                "startPipeline", "spawnAccept", "sayStarted"}
StopLabels == {"sayStopping", "closeListener", "joinAccept", "closeClients",
               "joinClients", "stopPipeline", "sayStopped"}
MainLabels == StartLabels \cup {"loop", "leave", "destroy"}
Over == main \in {"ended", "terminated", "crashed"}

\* Where the main thread is, the call of stop() on top of its stack included.
Here == IF stop # "none" THEN stop ELSE main

\* The main thread runs main() itself.
InMain == stop = "none" /\ signal = "idle"

-----------------------------------------------------------------------------
Init ==
  /\ main = "sayStarting"
  /\ stop = "none"
  /\ signal = "idle"
  /\ signals = 0
  /\ shutdownRequested = FALSE
  /\ running = FALSE
  /\ listening = FALSE
  /\ pipeline = "down"
  /\ accept = "none"
  /\ incoming = Nobody
  /\ backlog = {}
  /\ hungUp = {}
  /\ fdTable = [f \in Fds |-> NoClient]
  /\ shut = {}
  /\ clientSockets = {}
  /\ handler = [c \in Clients |-> "none"]
  /\ fdOf = [c \in Clients |-> NoFd]
  /\ inFlight = {}
  /\ delivered = {}

-----------------------------------------------------------------------------
(* Server::start() and main(). *)

MainGoes(from, to) == InMain /\ main = from /\ main' = to

StartPrinted ==
  /\ \/ MainGoes("sayStarting", "bind")
     \/ MainGoes("sayListening", "setRunning")
     \/ MainGoes("sayStarted", "loop")
  /\ UNCHANGED <<stop, signal, signals, shutdownRequested, running, connVars,
                 sockVars, threadVars, jobVars>>

\* socket(), bind() and listen() succeed.
StartListening ==
  /\ MainGoes("bind", "sayListening")
  /\ listening' = TRUE
  /\ UNCHANGED <<stop, signal, signals, shutdownRequested, running, backlog,
                 hungUp, sockVars, threadVars, jobVars>>

\* One of them fails: start() closes the socket and returns.
StartFails ==
  /\ MainGoes("bind", "loop")
  /\ UNCHANGED <<stop, signal, signals, shutdownRequested, running, connVars,
                 sockVars, threadVars, jobVars>>

StartSetRunning ==
  /\ MainGoes("setRunning", "startPipeline")
  /\ running' = TRUE
  /\ UNCHANGED <<stop, signal, signals, shutdownRequested, connVars, sockVars,
                 threadVars, jobVars>>

StartPipeline ==
  /\ MainGoes("startPipeline", "spawnAccept")
  /\ pipeline' = "up"
  /\ UNCHANGED <<stop, signal, signals, shutdownRequested, running, connVars,
                 sockVars, threadVars, inFlight, delivered>>

StartSpawnAccept ==
  /\ MainGoes("spawnAccept", "sayStarted")
  /\ accept' = "check"
  /\ UNCHANGED <<stop, signal, signals, shutdownRequested, running, connVars,
                 sockVars, incoming, handler, fdOf, jobVars>>

\* main()'s polling loop ends.
MainLeavesLoop ==
  /\ shutdownRequested \/ ~running
  /\ MainGoes("loop", "leave")
  /\ UNCHANGED <<stop, signal, signals, shutdownRequested, running, connVars,
                 sockVars, threadVars, jobVars>>

\* stop() is not needed or has returned; serverPtr is reset.
MainDropsServer ==
  /\ ~running
  /\ MainGoes("leave", "destroy")
  /\ UNCHANGED <<stop, signal, signals, shutdownRequested, running, connVars,
                 sockVars, threadVars, jobVars>>

\* ~Server(): its stop() finds running false; then the members go, and the
\* destructor of a std::thread that is still joinable calls std::terminate.
MainDestroys ==
  /\ MainGoes("destroy", IF accept = "none"
                              /\ \A c \in Clients : handler[c] \in {"none", "joined"}
                            THEN "ended" ELSE "terminated")
  /\ UNCHANGED <<stop, signal, signals, shutdownRequested, running, connVars,
                 sockVars, threadVars, jobVars>>

-----------------------------------------------------------------------------
(* signalHandler(), on top of whatever the main thread was doing.  It waits *)
(* for ever if that holds coutMutex; isRunning() tells whether to stop.     *)

\* A variant of SignalArrives that only stops a server that runs.
SignalStopsOnly ==
  /\ signals < MaxSignals
  /\ ~Over
  /\ signal # "stuck"
  /\ Here \in SignalAt
  /\ signals' = signals + 1
  /\ signal' = IF Here \in PrintLabels THEN "stuck"
               ELSE IF running THEN "active" ELSE signal
  /\ UNCHANGED <<main, stop, shutdownRequested, running, connVars, sockVars,
                 threadVars, jobVars>>

SignalArrives ==
  /\ signals < MaxSignals
  /\ ~Over
  /\ signal # "stuck"
  /\ Here \in SignalAt
  /\ signals' = signals + 1
  /\ IF Here \in PrintLabels
     THEN signal' = "stuck" /\ UNCHANGED shutdownRequested
     ELSE /\ shutdownRequested' = TRUE
          /\ signal' = IF running THEN "active" ELSE signal
  /\ UNCHANGED <<main, stop, running, connVars, sockVars, threadVars, jobVars>>

-----------------------------------------------------------------------------
(* Server::stop(), called by the signal handler or at the end of main(). *)

StopGoes(from, to) ==
  /\ ~Over
  /\ signal # "stuck"
  /\ stop = from
  /\ stop' = to

\* The flag is tested and reset under runningMutex.
StopBegin ==
  /\ running
  /\ signal = "active" \/ (signal = "idle" /\ main = "leave")
  /\ StopGoes("none", "sayStopping")
  /\ running' = FALSE
  /\ UNCHANGED <<main, signal, signals, shutdownRequested, connVars, sockVars,
                 threadVars, jobVars>>

\* A variant of StopPrinted that closes the clients before the listener.
StopClientsFirst ==
  /\ StopGoes("sayStopping", "closeListener")
  /\ shut' = shut \cup ({fdTable[f] : f \in clientSockets} \ {NoClient})
  /\ fdTable' = [f \in Fds |-> IF f \in clientSockets THEN NoClient ELSE fdTable[f]]
  /\ clientSockets' = {}
  /\ UNCHANGED <<main, signal, signals, shutdownRequested, running, connVars,
                 threadVars, jobVars>>

StopPrinted ==
  /\ StopGoes("sayStopping", "closeListener")
  /\ UNCHANGED <<main, signal, signals, shutdownRequested, running, connVars,
                 sockVars, threadVars, jobVars>>

\* shutdown() makes the accept() in progress fail, close() the later ones;
\* connections not accepted yet are reset.
StopCloseListener ==
  /\ StopGoes("closeListener", "joinAccept")
  /\ listening' = FALSE
  /\ backlog' = {}
  /\ UNCHANGED <<main, signal, signals, shutdownRequested, running, hungUp,
                 sockVars, threadVars, jobVars>>

\* A variant of StopJoinAccept that leaves the accept thread alone.
StopSkipsAccept ==
  /\ StopGoes("joinAccept", "closeClients")
  /\ UNCHANGED <<main, signal, signals, shutdownRequested, running, connVars,
                 sockVars, threadVars, jobVars>>

\* acceptThread is not joinable before start() has created it.
StopJoinAccept ==
  /\ StopGoes("joinAccept", "closeClients")
  /\ accept \in {"none", "exited"}
  /\ accept' = "none"
  /\ UNCHANGED <<main, signal, signals, shutdownRequested, running, connVars,
                 sockVars, incoming, handler, fdOf, jobVars>>

\* A variant of StopCloseClients without the shutdown(): a read() in
\* progress goes on waiting for the client.
StopCloseOnly ==
  /\ StopGoes("closeClients", "joinClients")
  /\ fdTable' = [f \in Fds |-> IF f \in clientSockets THEN NoClient ELSE fdTable[f]]
  /\ clientSockets' = {}
  /\ UNCHANGED <<main, signal, signals, shutdownRequested, running, connVars,
                 shut, threadVars, jobVars>>

\* shutdown() and close() of every descriptor in the vector.
StopCloseClients ==
  /\ StopGoes("closeClients", "joinClients")
  /\ shut' = shut \cup ({fdTable[f] : f \in clientSockets} \ {NoClient})
  /\ fdTable' = [f \in Fds |-> IF f \in clientSockets THEN NoClient ELSE fdTable[f]]
  /\ clientSockets' = {}
  /\ UNCHANGED <<main, signal, signals, shutdownRequested, running, connVars,
                 threadVars, jobVars>>

\* A variant of StopJoinClients that waits for nobody.
StopSkipsClients ==
  /\ StopGoes("joinClients", "stopPipeline")
  /\ UNCHANGED <<main, signal, signals, shutdownRequested, running, connVars,
                 sockVars, threadVars, jobVars>>

StopJoinClients ==
  /\ StopGoes("joinClients", "stopPipeline")
  /\ \A c \in Clients : handler[c] \in {"none", "done"}
  /\ handler' = [c \in Clients |-> IF handler[c] = "done" THEN "joined" ELSE handler[c]]
  /\ UNCHANGED <<main, signal, signals, shutdownRequested, running, connVars,
                 sockVars, accept, incoming, fdOf, jobVars>>

\* Pipeline::stop() returns when every job has been answered; on a pipeline
\* that was never started it returns at once.
StopPipeline ==
  /\ StopGoes("stopPipeline", "sayStopped")
  /\ inFlight = {}
  /\ pipeline' = IF pipeline = "up" THEN "stopped" ELSE pipeline
  /\ UNCHANGED <<main, signal, signals, shutdownRequested, running, connVars,
                 sockVars, threadVars, inFlight, delivered>>

StopReturn ==
  /\ StopGoes("sayStopped", "none")
  /\ signal' = "idle"
  /\ UNCHANGED <<main, signals, shutdownRequested, running, connVars, sockVars,
                 threadVars, jobVars>>

-----------------------------------------------------------------------------
(* acceptClients(). *)

AcceptGoes(from, to) == ~Over /\ accept = from /\ accept' = to

AcceptCheck ==
  /\ AcceptGoes("check", IF running THEN "accepting" ELSE "exited")
  /\ UNCHANGED <<mainVars, running, connVars, sockVars, incoming, handler,
                 fdOf, jobVars>>

\* accept() returns the lowest descriptor that is free.
AcceptOne(c, f) ==
  /\ AcceptGoes("accepting", "accepted")
  /\ listening
  /\ c \in backlog
  /\ fdTable[f] = NoClient
  /\ \A g \in 1 .. f - 1 : fdTable[g] # NoClient
  /\ backlog' = backlog \ {c}
  /\ fdTable' = [fdTable EXCEPT ![f] = c]
  /\ incoming' = [client |-> c, fd |-> f]
  /\ UNCHANGED <<mainVars, running, listening, hungUp, shut, clientSockets,
                 handler, fdOf, jobVars>>

\* accept() fails, on a closed listener or for want of a descriptor.
AcceptFails ==
  /\ AcceptGoes("accepting", "check")
  /\ ~listening \/ \A f \in Fds : fdTable[f] # NoClient
  /\ UNCHANGED <<mainVars, running, connVars, sockVars, incoming, handler,
                 fdOf, jobVars>>

\* A variant of AcceptHandOver that keeps the accepted descriptor.
AcceptHandOverStale ==
  /\ AcceptGoes("accepted", "check")
  /\ clientSockets' = clientSockets \cup {incoming.fd}
  /\ handler' = [handler EXCEPT ![incoming.client] = "check"]
  /\ fdOf' = [fdOf EXCEPT ![incoming.client] = incoming.fd]
  /\ UNCHANGED <<mainVars, running, connVars, fdTable, shut, incoming, jobVars>>

\* A variant of AcceptHandOver that does not list the descriptor.
AcceptHandOverUnlisted ==
  /\ AcceptGoes("accepted", "check")
  /\ handler' = [handler EXCEPT ![incoming.client] = "check"]
  /\ fdOf' = [fdOf EXCEPT ![incoming.client] = incoming.fd]
  /\ incoming' = Nobody
  /\ UNCHANGED <<mainVars, running, connVars, sockVars, jobVars>>

\* The descriptor is listed and its handler thread created.
AcceptHandOver ==
  /\ AcceptGoes("accepted", "check")
  /\ clientSockets' = clientSockets \cup {incoming.fd}
  /\ handler' = [handler EXCEPT ![incoming.client] = "check"]
  /\ fdOf' = [fdOf EXCEPT ![incoming.client] = incoming.fd]
  /\ incoming' = Nobody
  /\ UNCHANGED <<mainVars, running, connVars, fdTable, shut, jobVars>>

-----------------------------------------------------------------------------
(* handleClient(). *)

HandlerGoes(c, from, to) ==
  /\ ~Over
  /\ handler[c] = from
  /\ handler' = [handler EXCEPT ![c] = to]

HandlerCheck(c) ==
  /\ HandlerGoes(c, "check", IF running THEN "read" ELSE "close")
  /\ UNCHANGED <<mainVars, running, connVars, sockVars, accept, incoming, fdOf,
                 jobVars>>

\* read() on a descriptor that is closed fails, on an open one it blocks.
HandlerRead(c) ==
  /\ HandlerGoes(c, "read",
                 IF fdTable[fdOf[c]] = NoClient THEN "close" ELSE "reading")
  /\ UNCHANGED <<mainVars, running, connVars, sockVars, accept, incoming, fdOf,
                 jobVars>>

\* The client sends a request and read() returns it.  One sent just before
\* the client hangs up is a request followed by the hang-up.
HandlerRequest(c) ==
  /\ c \notin hungUp
  /\ HandlerGoes(c, "reading", "handling")
  /\ UNCHANGED <<mainVars, running, connVars, sockVars, accept, incoming, fdOf,
                 jobVars>>

\* A variant of HandlerEof that takes 0 for an empty message.
HandlerEofIgnored(c) ==
  /\ c \in hungUp \cup shut
  /\ HandlerGoes(c, "reading", "check")
  /\ UNCHANGED <<mainVars, running, connVars, sockVars, accept, incoming, fdOf,
                 jobVars>>

\* read() returns 0.
HandlerEof(c) ==
  /\ c \in hungUp \cup shut
  /\ HandlerGoes(c, "reading", "close")
  /\ UNCHANGED <<mainVars, running, connVars, sockVars, accept, incoming, fdOf,
                 jobVars>>

\* The request is answered and the loop goes on; metrics_mst leaves a job
\* with the pipeline.
HandlerAnswer(c) ==
  /\ HandlerGoes(c, "handling", "check")
  /\ \/ UNCHANGED inFlight
     \/ c \in MetricsClients \ inFlight /\ inFlight' = inFlight \cup {c}
  /\ UNCHANGED <<mainVars, running, connVars, sockVars, accept, incoming, fdOf,
                 pipeline, delivered>>

\* A variant of HandlerClose that leaves its descriptor open.
HandlerLeak(c) ==
  /\ HandlerGoes(c, "close", "erase")
  /\ UNCHANGED <<mainVars, running, connVars, sockVars, accept, incoming, fdOf,
                 jobVars>>

HandlerClose(c) ==
  /\ HandlerGoes(c, "close", "erase")
  /\ fdTable' = [fdTable EXCEPT ![fdOf[c]] = NoClient]
  /\ UNCHANGED <<mainVars, running, connVars, shut, clientSockets, accept,
                 incoming, fdOf, jobVars>>

\* std::remove drops every entry equal to the descriptor.
HandlerErase(c) ==
  /\ HandlerGoes(c, "erase", "done")
  /\ clientSockets' = clientSockets \ {fdOf[c]}
  /\ UNCHANGED <<mainVars, running, connVars, fdTable, shut, accept, incoming,
                 fdOf, jobVars>>

-----------------------------------------------------------------------------
(* The last stage of the pipeline calls the callback of c's job, which      *)
(* refers to the lambda sendResponse of the handler's iteration.  While the *)
(* handler lives its stack still holds clientSocket there; afterwards the   *)
(* memory is the stack of another thread, or unmapped.                      *)

SendMetrics(c, f) ==
  /\ inFlight' = inFlight \ {c}
  /\ delivered' = delivered \cup ({<<c, fdTable[f]>>} \ {<<c, NoClient>>})
  /\ UNCHANGED <<mainVars, running, connVars, sockVars, threadVars, pipeline>>

PipelineAnswer(c) ==
  /\ ~Over
  /\ c \in inFlight
  /\ handler[c] \notin {"done", "joined"}
  /\ SendMetrics(c, fdOf[c])

PipelineAnswerDangling(c) ==
  /\ ~Over
  /\ c \in inFlight
  /\ handler[c] \in {"done", "joined"}
  /\ \/ \E f \in Fds : SendMetrics(c, f)
     \/ /\ main' = "crashed"
        /\ UNCHANGED <<stop, signal, signals, shutdownRequested, running,
                       connVars, sockVars, threadVars, jobVars>>

-----------------------------------------------------------------------------
(* The clients. *)

Served(c) == handler[c] # "none" \/ incoming.client = c

Connect(c) ==
  /\ ~Over
  /\ listening
  /\ c \notin backlog \cup hungUp
  /\ ~Served(c)
  /\ backlog' = backlog \cup {c}
  /\ UNCHANGED <<mainVars, running, listening, hungUp, sockVars, threadVars,
                 jobVars>>

HangUp(c) ==
  /\ ~Over
  /\ c \in backlog \/ Served(c)
  /\ c \notin hungUp
  /\ hungUp' = hungUp \cup {c}
  /\ UNCHANGED <<mainVars, running, listening, backlog, sockVars, threadVars,
                 jobVars>>

-----------------------------------------------------------------------------
MainThread ==
  \/ StartPrinted \/ StartListening \/ StartFails \/ StartSetRunning
  \/ StartPipeline \/ StartSpawnAccept
  \/ MainLeavesLoop \/ MainDropsServer \/ MainDestroys
  \/ StopBegin \/ StopPrinted \/ StopCloseListener \/ StopJoinAccept
  \/ StopCloseClients \/ StopJoinClients \/ StopPipeline \/ StopReturn

AcceptThread ==
  \/ AcceptCheck
  \/ \E c \in Clients, f \in Fds : AcceptOne(c, f)
  \/ AcceptFails
  \/ AcceptHandOver

HandlerThread(c) ==
  \/ HandlerCheck(c) \/ HandlerRead(c) \/ HandlerEof(c) \/ HandlerAnswer(c)
  \/ HandlerClose(c) \/ HandlerErase(c)

PipelineThread(c) == PipelineAnswer(c) \/ PipelineAnswerDangling(c)

Client(c) == Connect(c) \/ HandlerRequest(c) \/ HangUp(c)

Terminated == Over /\ UNCHANGED vars

Next ==
  \/ MainThread
  \/ AcceptThread
  \/ SignalArrives
  \/ \E c \in Clients : HandlerThread(c) \/ PipelineThread(c) \/ Client(c)
  \/ Terminated

\* Threads are scheduled and a client that has hung up is noticed; clients
\* need not connect, ask, or hang up, and no signal has to arrive.
Fairness ==
  /\ WF_vars(MainThread)
  /\ WF_vars(AcceptThread)
  /\ \A c \in Clients :
       /\ WF_vars(HandlerThread(c))
       /\ WF_vars(PipelineThread(c))

SafetySpec == Init /\ [][Next]_vars
Spec == SafetySpec /\ Fairness

-----------------------------------------------------------------------------
ProcessTypes ==
  /\ main \in MainLabels \cup {"ended", "terminated", "crashed"}
  /\ stop \in StopLabels \cup {"none"}
  /\ signal \in {"idle", "active", "stuck"}
  /\ signals \in 0 .. MaxSignals
  /\ shutdownRequested \in BOOLEAN
  /\ running \in BOOLEAN
  /\ pipeline \in {"down", "up", "stopped"}

SocketTypes ==
  /\ listening \in BOOLEAN
  /\ backlog \in SUBSET Clients
  /\ hungUp \in SUBSET Clients
  /\ fdTable \in [Fds -> Clients \cup {NoClient}]
  /\ shut \in SUBSET Clients
  /\ clientSockets \in SUBSET Fds

ThreadTypes ==
  /\ accept \in {"none", "check", "accepting", "accepted", "exited"}
  /\ incoming \in [client : Clients, fd : Fds] \cup {Nobody}
  /\ (incoming # Nobody) <=> (accept = "accepted")
  /\ handler \in [Clients -> {"none", "check", "read", "reading", "handling",
                              "close", "erase", "done", "joined"}]
  /\ fdOf \in [Clients -> Fds \cup {NoFd}]
  /\ inFlight \in SUBSET MetricsClients
  /\ delivered \in SUBSET (MetricsClients \X Clients)

\* The types of the state; a connection is being handed over exactly while
\* the accept thread has one.
TypeOK == ProcessTypes /\ SocketTypes /\ ThreadTypes

Holding == {"check", "read", "reading", "handling", "close"}

\* Until it has closed its descriptor, a handler finds its own client under
\* it, or nothing once stop() has closed it: it never reads, answers or
\* closes the connection of another handler, although descriptors are reused
\* as soon as they are closed (Server.cpp:188,227,260,462,550).
OwnDescriptor ==
  \A c \in Clients :
    handler[c] \in Holding => fdTable[fdOf[c]] \in {c, NoClient}

\* A handler that may submit a job finds the pipeline running: stop() stops
\* it after the handlers, start() starts it before them
\* (Server.cpp:137,142,194-207).
PipelineOutlivesHandlers ==
  (\E c \in Clients : handler[c] \in Holding) => pipeline = "up"

\* Descriptors do not leak: one is open only for a connection being handed
\* over or for a handler that has yet to close it (Server.cpp:462).
NoDescriptorLeak ==
  \A f \in Fds : fdTable[f] # NoClient =>
    LET c == fdTable[f]
    IN  incoming = [client |-> c, fd |-> f] \/ (handler[c] \in Holding /\ fdOf[c] = f)

\* "Ensure the server is stopped when the object is destroyed" (Server.cpp:31):
\* no thread of it is left, and so its destructor does not call terminate.
DestroyedStopped ==
  main = "destroy" =>
    /\ accept = "none"
    /\ \A c \in Clients : handler[c] \in {"none", "joined"}
    /\ pipeline # "up"

\* The vector has lost the descriptor of a connection that is still open.
Forgotten(c) ==
  /\ handler[c] \in Holding
  /\ fdTable[fdOf[c]] = c
  /\ fdOf[c] \notin clientSockets

\* "Close all client sockets and clear the vector" (Server.cpp:182): stop()
\* does not go on to join a handler whose connection it has not shut down.
StopClosesEveryClient ==
  stop = "joinClients" =>
    \A c \in Clients : ~(handler[c] = "reading" /\ Forgotten(c))

\* While the server runs, a connection is forgotten only because an earlier
\* handler that had its descriptor has erased it since (Server.cpp:462,471).
ForgottenOnlyByReuse ==
  \A c \in Clients : Forgotten(c) =>
    \E d \in Clients \ {c} : handler[d] \in {"done", "joined"} /\ fdOf[d] = fdOf[c]

\* "send the calculated metrics back to the client" (Server.cpp:433).
MetricsReachTheirClient == \A p \in delivered : p[1] = p[2]

\* A signal that meets main(), start() or stop() at a label of SignalAt ends the
\* process, and so stop() returns ("Stop the server if it's running",
\* main.cpp:24-27,50-59), unless stop() joins a handler that reads from a
\* forgotten connection; a dangling callback that brings the process down ends
\* it too.  It holds for signals outside the sections under coutMutex only: in
\* one of them signalHandler() waits for the mutex that the thread it
\* interrupts holds (main.cpp:21), and the process never ends.
SignalEndsProcess ==
  signals > 0 ~>
    (Over \/ \E c \in Clients : handler[c] = "reading" /\ Forgotten(c))

\* The connection of a client that has hung up is closed.
HangUpReleases ==
  \A c \in Clients :
    (c \in hungUp /\ Served(c)) ~>
      (Over \/ handler[c] \in {"erase", "done", "joined"})
=============================================================================
