---------------------------- MODULE ServerProofs ----------------------------
(***************************************************************************)
(* Theorems about Server, for any clients, descriptors and signals.        *)
(***************************************************************************)
EXTENDS Server, TLAPS

Unstarted == {"sayStarting", "bind", "sayListening", "setRunning"}

\* What start() and stop() have done when they are where they are.
Lifecycle ==
  /\ main \in Unstarted => ~running /\ stop = "none" /\ pipeline = "down"
  /\ main \in Unstarted \cup {"startPipeline", "spawnAccept"} =>
       accept = "none" /\ \A c \in Clients : handler[c] = "none"
  /\ stop # "none" => ~running
  /\ running /\ main # "startPipeline" => pipeline = "up"
  /\ accept \in {"accepting", "accepted"} => pipeline = "up"
  /\ stop \in {"closeClients", "joinClients", "stopPipeline", "sayStopped"} =>
       accept = "none"
  /\ stop \in {"stopPipeline", "sayStopped"} =>
       \A c \in Clients : handler[c] \in {"none", "joined"}

\* A connection on its way to its handler.
Connections ==
  /\ \A c \in Clients : handler[c] # "none" => fdOf[c] \in Fds
  /\ \A c \in inFlight : handler[c] # "none"
  /\ \A c \in backlog : handler[c] = "none" /\ incoming.client # c
  /\ accept = "accepted" =>
       /\ handler[incoming.client] = "none"
       /\ fdTable[incoming.fd] = incoming.client

\* As long as connections are accepted, only the handlers close any.
OpenWhileAccepting ==
  accept # "none" =>
    \A c \in Clients : handler[c] \in Holding => fdTable[fdOf[c]] = c

IInv ==
  /\ TypeOK
  /\ Lifecycle
  /\ Connections
  /\ OpenWhileAccepting
  /\ OwnDescriptor
  /\ NoDescriptorLeak
  /\ PipelineOutlivesHandlers
  /\ ForgottenOnlyByReuse

-----------------------------------------------------------------------------
LEMMA InitIInv == Init => IInv
  <1> SUFFICES ASSUME Init PROVE IInv
    OBVIOUS
  <1> USE DEF Init
  <1>1. ProcessTypes
    <2>1. signals \in 0 .. MaxSignals
      BY BoundsAssumption
    <2> QED
      BY <2>1 DEF ProcessTypes, MainLabels, StartLabels
  <1>2. SocketTypes
    BY DEF SocketTypes
  <1>3. ThreadTypes
    BY DEF ThreadTypes
  <1>4. Lifecycle /\ Connections /\ OpenWhileAccepting /\ OwnDescriptor
    BY DEF Lifecycle, Connections, OpenWhileAccepting, OwnDescriptor, Holding,
       Unstarted
  <1>5. NoDescriptorLeak /\ PipelineOutlivesHandlers /\ ForgottenOnlyByReuse
    BY DEF NoDescriptorLeak, PipelineOutlivesHandlers, ForgottenOnlyByReuse,
       Forgotten, Holding
  <1> QED
    BY <1>1, <1>2, <1>3, <1>4, <1>5 DEF IInv, TypeOK

-----------------------------------------------------------------------------
(* Which thread writes what.                                                *)

\* The accept thread, the handlers, the clients and the answers on time
\* leave the main thread's state alone.
LEMMA OtherThreads ==
  ASSUME [Next]_vars
  PROVE  \/ MainThread \/ SignalArrives
         \/ \E c \in Clients : PipelineAnswerDangling(c)
         \/ UNCHANGED <<mainVars, running, pipeline>>
  <1>1. CASE AcceptThread
    BY <1>1 DEF AcceptThread, AcceptCheck, AcceptOne, AcceptFails,
       AcceptHandOver, jobVars
  <1>2. ASSUME NEW c \in Clients, HandlerThread(c)
        PROVE  UNCHANGED <<mainVars, running, pipeline>>
    BY <1>2 DEF HandlerThread, HandlerCheck, HandlerRead, HandlerEof,
       HandlerAnswer, HandlerClose, HandlerErase, jobVars
  <1>3. ASSUME NEW c \in Clients, Client(c)
        PROVE  UNCHANGED <<mainVars, running, pipeline>>
    BY <1>3 DEF Client, Connect, HandlerRequest, HangUp, jobVars
  <1>4. ASSUME NEW c \in Clients, PipelineAnswer(c)
        PROVE  UNCHANGED <<mainVars, running, pipeline>>
    BY <1>4 DEF PipelineAnswer, SendMetrics
  <1>5. CASE Terminated \/ UNCHANGED vars
    BY <1>5 DEF Terminated, vars, jobVars
  <1> QED
    BY <1>1, <1>2, <1>3, <1>4, <1>5 DEF Next, PipelineThread

-----------------------------------------------------------------------------
(* The state is well typed.                                                 *)

LEMMA ProcessTyping == ProcessTypes /\ [Next]_vars => ProcessTypes'
  <1> SUFFICES ASSUME ProcessTypes, [Next]_vars PROVE ProcessTypes'
    OBVIOUS
  <1> USE BoundsAssumption DEF ProcessTypes, vars, mainVars, jobVars
  <1>1. CASE UNCHANGED <<mainVars, running, pipeline>>
    BY <1>1
  <1>2. CASE SignalArrives
    <2> USE DEF SignalArrives
    <2>1. signals' \in 0 .. MaxSignals
      BY <1>2
    <2>2. signal' \in {"idle", "active", "stuck"}
      BY <1>2
    <2>3. shutdownRequested' \in BOOLEAN
      BY <1>2
    <2> QED
      BY <1>2, <2>1, <2>2, <2>3
  <1>3. CASE MainThread
    <2> USE DEF MainGoes, StopGoes, MainLabels, StartLabels, StopLabels
    <2>1. CASE StartPrinted \/ StartListening \/ StartFails \/ StartSetRunning
               \/ StartPipeline \/ StartSpawnAccept
      BY <2>1 DEF StartPrinted, StartListening, StartFails, StartSetRunning,
         StartPipeline, StartSpawnAccept
    <2>2. CASE MainLeavesLoop \/ MainDropsServer \/ MainDestroys
      BY <2>2 DEF MainLeavesLoop, MainDropsServer, MainDestroys
    <2>3. CASE StopBegin \/ StopPrinted \/ StopCloseListener \/ StopJoinAccept
      BY <2>3 DEF StopBegin, StopPrinted, StopCloseListener, StopJoinAccept
    <2>4. CASE StopCloseClients \/ StopJoinClients \/ StopPipeline \/ StopReturn
      BY <2>4 DEF StopCloseClients, StopJoinClients, StopPipeline, StopReturn
    <2> QED
      BY <1>3, <2>1, <2>2, <2>3, <2>4 DEF MainThread
  <1>4. ASSUME NEW c \in Clients, PipelineAnswerDangling(c) PROVE ProcessTypes'
    BY <1>4 DEF PipelineAnswerDangling, SendMetrics
  <1> QED
    BY <1>1, <1>2, <1>3, <1>4, OtherThreads

LEMMA SocketTyping ==
  SocketTypes /\ ThreadTypes /\ Connections /\ [Next]_vars => SocketTypes'
  <1> SUFFICES ASSUME SocketTypes, ThreadTypes, Connections, [Next]_vars
               PROVE  SocketTypes'
    OBVIOUS
  <1> USE DEF SocketTypes, connVars, sockVars
  <1>1. CASE MainThread
    <2>1. CASE StartListening
      BY <2>1 DEF StartListening
    <2>2. CASE StopCloseListener
      BY <2>2 DEF StopCloseListener
    <2>3. CASE StopCloseClients
      BY <2>3 DEF StopCloseClients
    <2>4. CASE UNCHANGED <<connVars, sockVars>>
      BY <2>4
    <2> QED
      BY <1>1, <2>1, <2>2, <2>3, <2>4 DEF MainThread, StartPrinted, StartFails,
         StartSetRunning, StartPipeline, StartSpawnAccept, MainLeavesLoop,
         MainDropsServer, MainDestroys, StopBegin, StopPrinted, StopJoinAccept,
         StopJoinClients, StopPipeline, StopReturn
  <1>2. CASE AcceptThread
    <2>1. ASSUME NEW c \in Clients, NEW f \in Fds, AcceptOne(c, f)
          PROVE  SocketTypes'
      BY <2>1 DEF AcceptOne
    <2>2. CASE AcceptHandOver
      <3>1. incoming.fd \in Fds
        BY <2>2 DEF ThreadTypes, AcceptHandOver, AcceptGoes
      <3> QED
        BY <2>2, <3>1 DEF AcceptHandOver
    <2>3. CASE AcceptCheck \/ AcceptFails
      BY <2>3 DEF AcceptCheck, AcceptFails
    <2> QED
      BY <1>2, <2>1, <2>2, <2>3 DEF AcceptThread
  <1>3. ASSUME NEW c \in Clients, HandlerThread(c) PROVE SocketTypes'
    <2>1. CASE HandlerClose(c)
      BY <2>1 DEF HandlerClose
    <2>2. CASE HandlerErase(c)
      BY <2>2 DEF HandlerErase
    <2> QED
      BY <1>3, <2>1, <2>2 DEF HandlerThread, HandlerCheck, HandlerRead,
         HandlerEof, HandlerAnswer
  <1>4. ASSUME NEW c \in Clients, Client(c) PROVE SocketTypes'
    BY <1>4 DEF Client, Connect, HandlerRequest, HangUp
  <1>5. CASE SignalArrives \/ Terminated \/ UNCHANGED vars
               \/ \E c \in Clients : PipelineThread(c)
    BY <1>5 DEF SignalArrives, Terminated, vars, PipelineThread, PipelineAnswer,
       PipelineAnswerDangling, SendMetrics
  <1> QED
    BY <1>1, <1>2, <1>3, <1>4, <1>5 DEF Next

LEMMA ThreadTyping ==
  ThreadTypes /\ SocketTypes /\ Lifecycle /\ Connections /\ [Next]_vars => ThreadTypes'
  <1> SUFFICES ASSUME ThreadTypes, SocketTypes, Lifecycle, Connections, [Next]_vars
               PROVE  ThreadTypes'
    OBVIOUS
  <1> USE DEF ThreadTypes, threadVars, jobVars
  <1>1. CASE MainThread
    <2>1. CASE StartSpawnAccept
      BY <2>1 DEF StartSpawnAccept, MainGoes, Lifecycle
    <2>2. CASE StopJoinAccept
      BY <2>2 DEF StopJoinAccept
    <2>3. CASE StopJoinClients
      BY <2>3 DEF StopJoinClients
    <2>4. CASE UNCHANGED <<threadVars, inFlight, delivered>>
      BY <2>4
    <2> QED
      BY <1>1, <2>1, <2>2, <2>3, <2>4 DEF MainThread, StartPrinted, StartFails,
         StartListening, StartSetRunning, StartPipeline, MainLeavesLoop,
         MainDropsServer, MainDestroys, StopBegin, StopPrinted,
         StopCloseListener, StopCloseClients, StopPipeline, StopReturn
  <1>2. CASE AcceptThread
    <2> USE DEF AcceptGoes
    <2>1. ASSUME NEW c \in Clients, NEW f \in Fds, AcceptOne(c, f)
          PROVE  ThreadTypes'
      <3>1. incoming' \in [client : Clients, fd : Fds] /\ incoming' # Nobody
        BY <2>1, ClientsAssumption DEF AcceptOne, Nobody
      <3> QED
        BY <2>1, <3>1 DEF AcceptOne
    <2>2. CASE AcceptHandOver
      <3>1. incoming \in [client : Clients, fd : Fds]
        BY <2>2 DEF AcceptHandOver
      <3> QED
        BY <2>2, <3>1 DEF AcceptHandOver
    <2>3. CASE AcceptCheck \/ AcceptFails
      BY <2>3 DEF AcceptCheck, AcceptFails
    <2> QED
      BY <1>2, <2>1, <2>2, <2>3 DEF AcceptThread
  <1>3. ASSUME NEW c \in Clients, HandlerThread(c) PROVE ThreadTypes'
    BY <1>3 DEF HandlerThread, HandlerCheck, HandlerRead, HandlerEof,
       HandlerAnswer, HandlerClose, HandlerErase, HandlerGoes
  <1>4. ASSUME NEW c \in Clients, Client(c) PROVE ThreadTypes'
    BY <1>4 DEF Client, Connect, HandlerRequest, HangUp, HandlerGoes
  <1>5. ASSUME NEW c \in Clients, PipelineThread(c) PROVE ThreadTypes'
    <2>1. ASSUME NEW f \in Fds, c \in inFlight, SendMetrics(c, f)
          PROVE  ThreadTypes'
      <3>1. fdTable[f] \in Clients \cup {NoClient}
        BY DEF SocketTypes
      <3>2. delivered' \in SUBSET (MetricsClients \X Clients)
        BY <2>1, <3>1 DEF SendMetrics
      <3> QED
        BY <2>1, <3>2 DEF SendMetrics
    <2>2. c \in inFlight => fdOf[c] \in Fds
      BY DEF Connections
    <2> QED
      BY <1>5, <2>1, <2>2 DEF PipelineThread, PipelineAnswer,
         PipelineAnswerDangling
  <1>6. CASE SignalArrives \/ Terminated \/ UNCHANGED vars
    BY <1>6 DEF SignalArrives, Terminated, vars
  <1> QED
    BY <1>1, <1>2, <1>3, <1>4, <1>5, <1>6 DEF Next
-----------------------------------------------------------------------------
(* The order of start() and stop().                                         *)

LEMMA LifecycleStep == TypeOK /\ Lifecycle /\ [Next]_vars => Lifecycle'
  <1> SUFFICES ASSUME TypeOK, Lifecycle, [Next]_vars PROVE Lifecycle'
    OBVIOUS
  <1> USE DEF Lifecycle, Unstarted, mainVars
  <1>1. CASE MainThread
    <2> USE DEF MainGoes, InMain, StopGoes, threadVars, jobVars
    <2>1. CASE StartPrinted \/ StartListening \/ StartFails
      BY <2>1 DEF StartPrinted, StartListening, StartFails
    <2>2. CASE StartSetRunning
      BY <2>2 DEF StartSetRunning
    <2>3. CASE StartPipeline
      BY <2>3 DEF StartPipeline
    <2>4. CASE StartSpawnAccept
      BY <2>4 DEF StartSpawnAccept
    <2>5. CASE MainLeavesLoop \/ MainDropsServer \/ MainDestroys
      BY <2>5 DEF MainLeavesLoop, MainDropsServer, MainDestroys
    <2>6. CASE StopBegin
      BY <2>6 DEF StopBegin
    <2>7. CASE StopPrinted \/ StopCloseListener \/ StopReturn
      BY <2>7 DEF StopPrinted, StopCloseListener, StopReturn
    <2>8. CASE StopJoinAccept
      BY <2>8 DEF StopJoinAccept
    <2>9. CASE StopCloseClients
      BY <2>9 DEF StopCloseClients
    <2>10. CASE StopJoinClients
      BY <2>10 DEF StopJoinClients, TypeOK, ThreadTypes
    <2>11. CASE StopPipeline
      BY <2>11 DEF StopPipeline
    <2> QED
      BY <1>1, <2>1, <2>2, <2>3, <2>4, <2>5, <2>6, <2>7, <2>8, <2>9, <2>10,
         <2>11 DEF MainThread
  <1>2. CASE AcceptThread
    <2> USE DEF AcceptGoes, jobVars
    <2>1. CASE AcceptCheck
      BY <2>1 DEF AcceptCheck
    <2>2. ASSUME NEW c \in Clients, NEW f \in Fds, AcceptOne(c, f)
          PROVE  Lifecycle'
      BY <2>2 DEF AcceptOne
    <2>3. CASE AcceptFails
      BY <2>3 DEF AcceptFails
    <2>4. CASE AcceptHandOver
      BY <2>4 DEF AcceptHandOver
    <2> QED
      BY <1>2, <2>1, <2>2, <2>3, <2>4 DEF AcceptThread
  <1>3. ASSUME NEW c \in Clients, NEW from \in Holding \cup {"erase"}, NEW to,
               HandlerGoes(c, from, to),
               UNCHANGED <<mainVars, running, pipeline, accept>>
        PROVE  Lifecycle'
    BY <1>3 DEF HandlerGoes, Holding, TypeOK, ThreadTypes
  <1>4. ASSUME NEW c \in Clients, HandlerThread(c) PROVE Lifecycle'
    BY <1>3, <1>4 DEF HandlerThread, HandlerCheck, HandlerRead, HandlerEof,
       HandlerAnswer, HandlerClose, HandlerErase, Holding, jobVars
  <1>5. ASSUME NEW c \in Clients, Client(c) PROVE Lifecycle'
    <2>1. CASE HandlerRequest(c)
      BY <1>3, <2>1 DEF HandlerRequest, Holding, jobVars
    <2>2. CASE Connect(c) \/ HangUp(c)
      BY <2>2 DEF Connect, HangUp, threadVars, jobVars
    <2> QED
      BY <1>5, <2>1, <2>2 DEF Client
  <1>6. ASSUME NEW c \in Clients, PipelineThread(c) PROVE Lifecycle'
    BY <1>6 DEF PipelineThread, PipelineAnswer, PipelineAnswerDangling,
       SendMetrics, threadVars, jobVars
  <1>7. CASE SignalArrives \/ Terminated \/ UNCHANGED vars
    BY <1>7 DEF SignalArrives, Terminated, vars, threadVars, jobVars
  <1> QED
    BY <1>1, <1>2, <1>4, <1>5, <1>6, <1>7 DEF Next

-----------------------------------------------------------------------------
(* Connections on their way to a handler.                                   *)

LEMMA ConnectionsStep ==
  TypeOK /\ Lifecycle /\ Connections /\ OwnDescriptor /\ [Next]_vars => Connections'
  <1> SUFFICES ASSUME TypeOK, Lifecycle, Connections, OwnDescriptor, [Next]_vars
               PROVE  Connections'
    OBVIOUS
  <1> USE DEF Connections, connVars, sockVars, threadVars, jobVars
  <1>1. CASE MainThread
    <2> USE DEF StopGoes
    <2>1. CASE StopCloseListener
      BY <2>1 DEF StopCloseListener
    <2>2. CASE StopJoinAccept
      BY <2>2 DEF StopJoinAccept
    <2>3. CASE StopCloseClients
      BY <2>3 DEF StopCloseClients, Lifecycle
    <2>4. CASE StopJoinClients
      <3>1. \A c \in Clients : handler'[c] = "none" <=> handler[c] = "none"
        BY <2>4 DEF StopJoinClients
      <3>2. inFlight \subseteq Clients /\ backlog \subseteq Clients
        BY ClientsAssumption DEF TypeOK, SocketTypes, ThreadTypes
      <3>3. accept' # "accepted"
        BY <2>4 DEF StopJoinClients, Lifecycle
      <3> QED
        BY <2>4, <3>1, <3>2, <3>3 DEF StopJoinClients
    <2>5. CASE StartSpawnAccept
      BY <2>5 DEF StartSpawnAccept
    <2>6. CASE UNCHANGED <<backlog, fdTable, threadVars, inFlight>>
      BY <2>6
    <2> QED
      BY <1>1, <2>1, <2>2, <2>3, <2>4, <2>5, <2>6 DEF MainThread, StartPrinted,
         StartFails, StartListening, StartSetRunning, StartPipeline,
         MainLeavesLoop, MainDropsServer, MainDestroys, StopBegin, StopPrinted,
         StopPipeline, StopReturn
  <1>2. CASE AcceptThread
    <2> USE DEF AcceptGoes
    <2>1. ASSUME NEW c \in Clients, NEW f \in Fds, AcceptOne(c, f)
          PROVE  Connections'
      BY <2>1 DEF AcceptOne, TypeOK, SocketTypes
    <2>2. CASE AcceptHandOver
      <3>1. incoming \in [client : Clients, fd : Fds]
        BY <2>2 DEF AcceptHandOver, TypeOK, ThreadTypes
      <3>2. incoming.client \notin backlog
        BY <2>2, <3>1 DEF AcceptHandOver
      <3>3. incoming'.client \notin Clients
        BY <2>2, ClientsAssumption DEF AcceptHandOver, Nobody
      <3> QED
        BY <2>2, <3>1, <3>2, <3>3
           DEF AcceptHandOver, TypeOK, ThreadTypes, SocketTypes
    <2>3. CASE AcceptCheck \/ AcceptFails
      BY <2>3 DEF AcceptCheck, AcceptFails
    <2> QED
      BY <1>2, <2>1, <2>2, <2>3 DEF AcceptThread
  <1>3. ASSUME NEW c \in Clients, NEW from, NEW to \in Holding \cup {"erase", "done"},
               HandlerGoes(c, from, to), from # "none",
               inFlight' \subseteq inFlight \cup {c},
               UNCHANGED <<backlog, accept, incoming, fdOf>>,
               accept = "accepted" => fdTable'[incoming.fd] = fdTable[incoming.fd]
        PROVE  Connections'
    BY <1>3 DEF HandlerGoes, Holding, TypeOK, ThreadTypes
  <1>4. ASSUME NEW c \in Clients, HandlerThread(c) PROVE Connections'
    <2>1. CASE HandlerClose(c)
      <3>1. fdTable[fdOf[c]] \in {c, NoClient}
        BY <2>1 DEF HandlerClose, HandlerGoes, OwnDescriptor, Holding
      <3>2. ASSUME accept = "accepted" PROVE incoming.fd # fdOf[c]
        <4>1. handler[c] # "none"
          BY <2>1 DEF HandlerClose, HandlerGoes
        <4>2. incoming.client \in Clients
          BY <3>2 DEF TypeOK, ThreadTypes
        <4> QED
          BY <3>1, <3>2, <4>1, <4>2, ClientsAssumption
      <3>3. accept = "accepted" => incoming.fd \in Fds
        BY DEF TypeOK, ThreadTypes
      <3> QED
        BY <1>3, <2>1, <3>2, <3>3
           DEF HandlerClose, Holding, TypeOK, SocketTypes
    <2>2. CASE HandlerErase(c)
      BY <1>3, <2>2 DEF HandlerErase, Holding
    <2>3. CASE HandlerCheck(c) \/ HandlerRead(c) \/ HandlerEof(c)
      BY <1>3, <2>3 DEF HandlerCheck, HandlerRead, HandlerEof, Holding
    <2>4. CASE HandlerAnswer(c)
      BY <1>3, <2>4 DEF HandlerAnswer, Holding
    <2> QED
      BY <1>4, <2>1, <2>2, <2>3, <2>4 DEF HandlerThread
  <1>5. ASSUME NEW c \in Clients, Client(c) PROVE Connections'
    <2>1. CASE HandlerRequest(c)
      BY <1>3, <2>1 DEF HandlerRequest, Holding
    <2>2. CASE Connect(c)
      BY <2>2 DEF Connect, Served
    <2>3. CASE HangUp(c)
      BY <2>3 DEF HangUp
    <2> QED
      BY <1>5, <2>1, <2>2, <2>3 DEF Client
  <1>6. ASSUME NEW c \in Clients, PipelineThread(c) PROVE Connections'
    BY <1>6 DEF PipelineThread, PipelineAnswer, PipelineAnswerDangling,
       SendMetrics
  <1>7. CASE SignalArrives \/ Terminated \/ UNCHANGED vars
    BY <1>7 DEF SignalArrives, Terminated, vars
  <1> QED
    BY <1>1, <1>2, <1>4, <1>5, <1>6, <1>7 DEF Next
-----------------------------------------------------------------------------
(* What the threads do to the handlers, the descriptors and the vector.     *)

\* A step of a handler thread moves that handler on, never back from the
\* closing of its descriptor, and leaves the accept thread alone.
LEMMA HandlerMoves ==
  ASSUME TypeOK, NEW c \in Clients, HandlerThread(c) \/ HandlerRequest(c)
  PROVE  /\ \A d \in Clients \ {c} : handler'[d] = handler[d]
         /\ handler[c] \notin {"none", "done", "joined"}
         /\ handler'[c] \in Holding => handler[c] \in Holding
         /\ handler[c] \in Holding => handler'[c] \in Holding \/ HandlerClose(c)
         /\ handler' \in [Clients -> Holding \cup {"none", "erase", "done", "joined"}]
         /\ UNCHANGED <<mainVars, running, accept, incoming, fdOf, pipeline>>
         /\ HandlerClose(c) \/ UNCHANGED fdTable
         /\ HandlerErase(c) \/ UNCHANGED clientSockets
  <1> USE DEF Holding, HandlerGoes, TypeOK, ThreadTypes, jobVars, sockVars
  <1>1. CASE HandlerCheck(c) \/ HandlerRead(c) \/ HandlerEof(c) \/ HandlerRequest(c)
    BY <1>1 DEF HandlerCheck, HandlerRead, HandlerEof, HandlerRequest
  <1>2. CASE HandlerAnswer(c)
    BY <1>2 DEF HandlerAnswer
  <1>3. CASE HandlerClose(c)
    BY <1>3 DEF HandlerClose
  <1>4. CASE HandlerErase(c)
    BY <1>4 DEF HandlerErase
  <1> QED
    BY <1>1, <1>2, <1>3, <1>4 DEF HandlerThread

\* The other steps that concern a handler or a descriptor.
LEMMA OtherSteps ==
  ASSUME [Next]_vars
  PROVE  \/ \E c \in Clients : HandlerThread(c) \/ HandlerRequest(c)
         \/ \E c \in Clients, f \in Fds : AcceptOne(c, f)
         \/ AcceptHandOver
         \/ StopCloseClients
         \/ StopJoinClients
         \/ UNCHANGED <<handler, fdOf, sockVars, incoming>>
  <1>1. CASE MainThread
    BY <1>1 DEF MainThread, StartPrinted, StartFails, StartListening,
       StartSetRunning, StartPipeline, StartSpawnAccept, MainLeavesLoop,
       MainDropsServer, MainDestroys, StopBegin, StopPrinted,
       StopCloseListener, StopJoinAccept, StopPipeline, StopReturn, threadVars
  <1>2. CASE AcceptThread
    BY <1>2 DEF AcceptThread, AcceptCheck, AcceptFails
  <1>3. ASSUME NEW c \in Clients, Client(c)
        PROVE  HandlerRequest(c) \/ UNCHANGED <<handler, fdOf, sockVars, incoming>>
    BY <1>3 DEF Client, Connect, HangUp, threadVars
  <1>4. ASSUME NEW c \in Clients, PipelineThread(c)
        PROVE  UNCHANGED <<handler, fdOf, sockVars, incoming>>
    BY <1>4 DEF PipelineThread, PipelineAnswer, PipelineAnswerDangling,
       SendMetrics, threadVars
  <1>5. CASE SignalArrives \/ Terminated \/ UNCHANGED vars
    BY <1>5 DEF SignalArrives, Terminated, vars, threadVars
  <1> QED
    BY <1>1, <1>2, <1>3, <1>4, <1>5 DEF Next

LEMMA OwnDescriptorStep ==
  IInv /\ [Next]_vars => OwnDescriptor'
  <1> SUFFICES ASSUME IInv, [Next]_vars PROVE OwnDescriptor'
    OBVIOUS
  <1> USE DEF OwnDescriptor
  <1>0. TypeOK /\ Connections /\ OpenWhileAccepting /\ OwnDescriptor
    BY DEF IInv
  <1>1. ASSUME NEW c \in Clients, HandlerThread(c) \/ HandlerRequest(c)
        PROVE  OwnDescriptor'
    <2>1. fdTable' = fdTable \/ fdTable' = [fdTable EXCEPT ![fdOf[c]] = NoClient]
      BY <1>0, <1>1, HandlerMoves DEF HandlerClose
    <2> QED
      BY <1>0, <1>1, <2>1, HandlerMoves
         DEF TypeOK, SocketTypes, Connections, Holding
  <1>2. ASSUME NEW c \in Clients, NEW f \in Fds, AcceptOne(c, f)
        PROVE  OwnDescriptor'
    BY <1>0, <1>2, ClientsAssumption
       DEF AcceptOne, AcceptGoes, OpenWhileAccepting, TypeOK, SocketTypes
  <1>3. CASE AcceptHandOver
    <2>1. incoming \in [client : Clients, fd : Fds]
      BY <1>0, <1>3 DEF AcceptHandOver, AcceptGoes, TypeOK, ThreadTypes
    <2> QED
      BY <1>0, <1>3, <2>1
         DEF AcceptHandOver, AcceptGoes, Connections, TypeOK, ThreadTypes
  <1>4. CASE StopCloseClients
    <2>1. \A f \in Fds : fdTable'[f] \in {fdTable[f], NoClient}
      BY <1>4 DEF StopCloseClients
    <2>2. UNCHANGED <<handler, fdOf>>
      BY <1>4 DEF StopCloseClients, threadVars
    <2>3. \A c \in Clients : handler[c] \in Holding => fdOf[c] \in Fds
      BY <1>0 DEF Connections, Holding
    <2> QED
      BY <1>0, <2>1, <2>2, <2>3
  <1>5. CASE StopJoinClients
    BY <1>0, <1>5 DEF StopJoinClients, Holding, sockVars
  <1>6. CASE UNCHANGED <<handler, fdOf, sockVars, incoming>>
    BY <1>0, <1>6 DEF sockVars
  <1> QED
    BY <1>1, <1>2, <1>3, <1>4, <1>5, <1>6, OtherSteps

LEMMA OpenWhileAcceptingStep ==
  IInv /\ [Next]_vars => OpenWhileAccepting'
  <1> SUFFICES ASSUME IInv, [Next]_vars, accept' # "none" PROVE OpenWhileAccepting'
    BY DEF OpenWhileAccepting
  <1> USE DEF OpenWhileAccepting
  <1>0. TypeOK /\ Connections /\ OpenWhileAccepting /\ Lifecycle
    BY DEF IInv
  <1>1. ASSUME NEW c \in Clients, HandlerThread(c) \/ HandlerRequest(c)
        PROVE  OpenWhileAccepting'
    <2>1. CASE HandlerClose(c)
      <3>1. handler[c] \in Holding /\ accept # "none"
        BY <1>1, <2>1 DEF HandlerClose, HandlerGoes, Holding
      <3>2. fdTable[fdOf[c]] = c
        BY <1>0, <3>1
      <3>3. handler'[c] \notin Holding
        BY <1>0, <2>1 DEF HandlerClose, HandlerGoes, Holding, TypeOK, ThreadTypes
      <3> QED
        BY <1>0, <1>1, <2>1, <3>1, <3>2, <3>3, HandlerMoves
           DEF HandlerClose, TypeOK, SocketTypes
    <2>2. CASE UNCHANGED fdTable
      BY <1>0, <1>1, <2>2, HandlerMoves
    <2> QED
      BY <1>0, <1>1, <2>1, <2>2, HandlerMoves
  <1>2. ASSUME NEW c \in Clients, NEW f \in Fds, AcceptOne(c, f)
        PROVE  OpenWhileAccepting'
    BY <1>0, <1>2, ClientsAssumption
       DEF AcceptOne, AcceptGoes, TypeOK, SocketTypes
  <1>3. CASE AcceptHandOver
    <2>1. incoming \in [client : Clients, fd : Fds]
      BY <1>0, <1>3 DEF AcceptHandOver, AcceptGoes, TypeOK, ThreadTypes
    <2> QED
      BY <1>0, <1>3, <2>1
         DEF AcceptHandOver, AcceptGoes, Connections, TypeOK, ThreadTypes
  <1>4. CASE StopCloseClients \/ StopJoinClients
    BY <1>0, <1>4 DEF StopCloseClients, StopJoinClients, StopGoes, Lifecycle,
       threadVars
  <1>5. CASE UNCHANGED <<handler, fdOf, sockVars, incoming>>
    <2>1. accept = "none" => \A c \in Clients : handler[c] \notin Holding
      <3>1. CASE MainThread
        BY <1>0, <3>1
           DEF MainThread, StartPrinted, StartFails, StartListening,
           StartSetRunning, StartPipeline, StartSpawnAccept, MainLeavesLoop,
           MainDropsServer, MainDestroys, StopBegin, StopPrinted,
           StopCloseListener, StopCloseClients, StopJoinClients,
           StopJoinAccept, StopPipeline, StopReturn, threadVars, MainGoes,
           Lifecycle, Holding
      <3>2. CASE AcceptThread
        BY <3>2 DEF AcceptThread, AcceptCheck, AcceptOne, AcceptFails,
           AcceptHandOver, AcceptGoes
      <3>3. CASE UNCHANGED accept
        BY <3>3
      <3>4. ASSUME NEW c \in Clients, HandlerThread(c) \/ HandlerRequest(c)
            PROVE  UNCHANGED accept
        BY <1>0, <3>4, HandlerMoves
      <3>5. ASSUME NEW c \in Clients, PipelineThread(c) \/ Connect(c) \/ HangUp(c)
            PROVE  UNCHANGED accept
        BY <3>5 DEF PipelineThread, PipelineAnswer, PipelineAnswerDangling,
           SendMetrics, Connect, HangUp, threadVars
      <3>6. CASE SignalArrives \/ Terminated \/ UNCHANGED vars
        BY <3>6 DEF SignalArrives, Terminated, vars, threadVars
      <3> QED
        BY <3>1, <3>2, <3>3, <3>4, <3>5, <3>6 DEF Next, Client
    <2> QED
      BY <1>0, <1>5, <2>1 DEF sockVars
  <1> QED
    BY <1>1, <1>2, <1>3, <1>4, <1>5, OtherSteps
LEMMA NoDescriptorLeakStep ==
  IInv /\ [Next]_vars => NoDescriptorLeak'
  <1> SUFFICES ASSUME IInv, [Next]_vars,
                      NEW f \in Fds, fdTable'[f] # NoClient
               PROVE  \/ incoming' = [client |-> fdTable'[f], fd |-> f]
                      \/ /\ handler'[fdTable'[f]] \in Holding
                         /\ fdOf'[fdTable'[f]] = f
    BY DEF NoDescriptorLeak
  <1> USE DEF NoDescriptorLeak
  <1>0. TypeOK /\ Connections /\ NoDescriptorLeak
    BY DEF IInv
  <1>1. ASSUME NEW c \in Clients, HandlerThread(c) \/ HandlerRequest(c)
        PROVE  \/ incoming' = [client |-> fdTable'[f], fd |-> f]
               \/ /\ handler'[fdTable'[f]] \in Holding
                  /\ fdOf'[fdTable'[f]] = f
    <2>1. CASE HandlerClose(c)
      <3>1. handler[c] # "none" /\ fdTable' = [fdTable EXCEPT ![fdOf[c]] = NoClient]
        BY <2>1 DEF HandlerClose, HandlerGoes
      <3>2. f # fdOf[c] /\ fdTable'[f] = fdTable[f] /\ fdTable[f] \in Clients
        BY <1>0, <3>1 DEF TypeOK, SocketTypes
      <3>3. CASE incoming = [client |-> fdTable[f], fd |-> f]
        BY <1>1, <3>2, <3>3, <1>0, HandlerMoves
      <3>4. CASE handler[fdTable[f]] \in Holding /\ fdOf[fdTable[f]] = f
        BY <1>1, <3>2, <3>4, <1>0, HandlerMoves
      <3> QED
        BY <1>0, <3>2, <3>3, <3>4
    <2>2. CASE ~HandlerClose(c)
      <3>1. fdTable'[f] = fdTable[f] /\ fdTable[f] \in Clients
        BY <1>0, <1>1, <2>2, HandlerMoves DEF TypeOK, SocketTypes
      <3> QED
        BY <1>0, <1>1, <2>2, <3>1, HandlerMoves
    <2> QED
      BY <2>1, <2>2
  <1>2. ASSUME NEW c \in Clients, NEW g \in Fds, AcceptOne(c, g)
        PROVE  \/ incoming' = [client |-> fdTable'[f], fd |-> f]
               \/ /\ handler'[fdTable'[f]] \in Holding
                  /\ fdOf'[fdTable'[f]] = f
    <2>1. incoming = Nobody /\ incoming' = [client |-> c, fd |-> g]
      BY <1>0, <1>2 DEF AcceptOne, AcceptGoes, TypeOK, ThreadTypes
    <2>2. CASE f = g
      BY <1>0, <1>2, <2>1, <2>2 DEF AcceptOne, TypeOK, SocketTypes
    <2>3. CASE f # g
      BY <1>0, <1>2, <2>1, <2>3 DEF AcceptOne, TypeOK, SocketTypes, Nobody
    <2> QED
      BY <2>2, <2>3
  <1>3. CASE AcceptHandOver
    <2>1. /\ incoming \in [client : Clients, fd : Fds]
          /\ fdTable' = fdTable
          /\ fdTable[incoming.fd] = incoming.client
          /\ handler[incoming.client] = "none"
      BY <1>0, <1>3
         DEF AcceptHandOver, AcceptGoes, Connections, TypeOK, ThreadTypes
    <2>2. fdTable[f] \in Clients
      BY <1>0, <2>1 DEF TypeOK, SocketTypes
    <2>3. handler'[incoming.client] \in Holding /\ fdOf'[incoming.client] = incoming.fd
      BY <1>0, <1>3, <2>1 DEF AcceptHandOver, TypeOK, ThreadTypes, Holding
    <2>4. CASE incoming = [client |-> fdTable[f], fd |-> f]
      BY <2>1, <2>3, <2>4
    <2>5. CASE handler[fdTable[f]] \in Holding /\ fdOf[fdTable[f]] = f
      <3>1. fdTable[f] # incoming.client
        BY <2>1, <2>5 DEF Holding
      <3> QED
        BY <1>0, <1>3, <2>1, <2>2, <2>5, <3>1
           DEF AcceptHandOver, TypeOK, ThreadTypes
    <2> QED
      BY <1>0, <2>1, <2>2, <2>4, <2>5
  <1>4. CASE StopCloseClients
    BY <1>0, <1>4 DEF StopCloseClients, threadVars
  <1>5. CASE StopJoinClients
    <2>1. fdTable' = fdTable /\ incoming' = incoming /\ fdOf' = fdOf
      BY <1>5 DEF StopJoinClients, sockVars
    <2>2. fdTable[f] \in Clients
      BY <1>0, <2>1 DEF TypeOK, SocketTypes
    <2>3. \A c \in Clients : handler[c] \notin Holding
      BY <1>5 DEF StopJoinClients, Holding
    <2> QED
      BY <1>0, <2>1, <2>2, <2>3
  <1>6. CASE UNCHANGED <<handler, fdOf, sockVars, incoming>>
    BY <1>0, <1>6 DEF sockVars
  <1> QED
    BY <1>1, <1>2, <1>3, <1>4, <1>5, <1>6, OtherSteps

LEMMA PipelineOutlivesHandlersStep ==
  IInv /\ [Next]_vars => PipelineOutlivesHandlers'
  <1> SUFFICES ASSUME IInv, [Next]_vars PROVE PipelineOutlivesHandlers'
    OBVIOUS
  <1> USE DEF PipelineOutlivesHandlers
  <1>0. TypeOK /\ Lifecycle /\ PipelineOutlivesHandlers
    BY DEF IInv
  <1>1. ASSUME NEW c \in Clients, HandlerThread(c) \/ HandlerRequest(c)
        PROVE  PipelineOutlivesHandlers'
    BY <1>0, <1>1, HandlerMoves
  <1>2. CASE AcceptHandOver
    BY <1>0, <1>2 DEF AcceptHandOver, AcceptGoes, Lifecycle, jobVars
  <1>3. CASE StartPipeline
    BY <1>0, <1>3 DEF StartPipeline
  <1>4. CASE StopPipeline
    BY <1>0, <1>4 DEF StopPipeline, StopGoes, Lifecycle, Holding, threadVars
  <1>5. CASE StopJoinClients
    BY <1>0, <1>5 DEF StopJoinClients, Holding
  <1>6. CASE UNCHANGED <<handler, pipeline>>
    BY <1>0, <1>6
  <1>7. CASE MainThread
    BY <1>3, <1>4, <1>5, <1>6, <1>7
       DEF MainThread, StartPrinted, StartFails, StartListening,
       StartSetRunning, StartSpawnAccept, MainLeavesLoop, MainDropsServer,
       MainDestroys, StopBegin, StopPrinted, StopCloseListener, StopJoinAccept,
       StopCloseClients, StopReturn, threadVars, jobVars
  <1>8. CASE AcceptThread
    BY <1>2, <1>6, <1>8 DEF AcceptThread, AcceptCheck, AcceptOne, AcceptFails,
       jobVars
  <1>9. ASSUME NEW c \in Clients, PipelineThread(c) \/ Connect(c) \/ HangUp(c)
        PROVE  PipelineOutlivesHandlers'
    BY <1>6, <1>9 DEF PipelineThread, PipelineAnswer, PipelineAnswerDangling,
       SendMetrics, Connect, HangUp, threadVars, jobVars
  <1>10. CASE SignalArrives \/ Terminated \/ UNCHANGED vars
    BY <1>6, <1>10 DEF SignalArrives, Terminated, vars, threadVars, jobVars
  <1> QED
    BY <1>1, <1>7, <1>8, <1>9, <1>10 DEF Next, Client

LEMMA ForgottenOnlyByReuseStep ==
  IInv /\ [Next]_vars => ForgottenOnlyByReuse'
  <1> SUFFICES ASSUME IInv, [Next]_vars, NEW c \in Clients, Forgotten(c)'
               PROVE  \E d \in Clients \ {c} :
                        handler'[d] \in {"done", "joined"} /\ fdOf'[d] = fdOf'[c]
    BY DEF ForgottenOnlyByReuse
  <1> USE DEF Forgotten
  <1>0. TypeOK /\ Connections /\ OwnDescriptor /\ ForgottenOnlyByReuse
    BY DEF IInv
  <1>1. ASSUME NEW e \in Clients, HandlerThread(e) \/ HandlerRequest(e)
        PROVE  \E d \in Clients \ {c} :
                 handler'[d] \in {"done", "joined"} /\ fdOf'[d] = fdOf'[c]
    <2>1. handler[c] \in Holding /\ fdOf' = fdOf
      BY <1>0, <1>1, HandlerMoves
    <2>2. fdOf[c] \in Fds
      BY <1>0, <2>1 DEF Connections, Holding
    <2>3. fdTable[fdOf[c]] = c
      <3>1. CASE HandlerClose(e)
        BY <1>0, <2>1, <2>2, <3>1, ClientsAssumption
           DEF HandlerClose, TypeOK, SocketTypes
      <3> QED
        BY <1>0, <1>1, <2>1, <3>1, HandlerMoves
    <2>4. CASE HandlerErase(e)
      <3>1. handler'[e] = "done" /\ e # c
        BY <1>0, <2>1, <2>4
           DEF HandlerErase, HandlerGoes, TypeOK, ThreadTypes, Holding
      <3>2. CASE fdOf[c] = fdOf[e]
        BY <2>1, <3>1, <3>2
      <3>3. CASE fdOf[c] # fdOf[e]
        <4>1. fdOf[c] \notin clientSockets
          BY <2>1, <2>4, <3>3 DEF HandlerErase
        <4>2. PICK d \in Clients \ {c} :
                handler[d] \in {"done", "joined"} /\ fdOf[d] = fdOf[c]
          BY <1>0, <2>1, <2>3, <4>1 DEF ForgottenOnlyByReuse
        <4> QED
          BY <1>0, <1>1, <2>1, <4>2, HandlerMoves
      <3> QED
        BY <3>2, <3>3
    <2>5. CASE UNCHANGED clientSockets
      <3>1. PICK d \in Clients \ {c} :
              handler[d] \in {"done", "joined"} /\ fdOf[d] = fdOf[c]
        BY <1>0, <2>1, <2>3, <2>5 DEF ForgottenOnlyByReuse
      <3> QED
        BY <1>0, <1>1, <2>1, <3>1, HandlerMoves
    <2> QED
      BY <1>0, <1>1, <2>4, <2>5, HandlerMoves
  <1>2. ASSUME NEW e \in Clients, NEW f \in Fds, AcceptOne(e, f)
        PROVE  \E d \in Clients \ {c} :
                 handler'[d] \in {"done", "joined"} /\ fdOf'[d] = fdOf'[c]
    <2>1. handler[e] = "none"
      BY <1>0, <1>2 DEF AcceptOne, Connections
    <2>2. Forgotten(c)
      BY <1>0, <1>2, <2>1 DEF AcceptOne, TypeOK, SocketTypes, Holding
    <2> QED
      BY <1>0, <1>2, <2>2 DEF AcceptOne, ForgottenOnlyByReuse
  <1>3. CASE AcceptHandOver
    <2>1. /\ incoming \in [client : Clients, fd : Fds]
          /\ handler[incoming.client] = "none"
      BY <1>0, <1>3
         DEF AcceptHandOver, AcceptGoes, Connections, TypeOK, ThreadTypes
    <2>2. c # incoming.client
      BY <1>0, <1>3, <2>1 DEF AcceptHandOver, TypeOK, ThreadTypes
    <2>3. Forgotten(c)
      BY <1>0, <1>3, <2>1, <2>2 DEF AcceptHandOver, TypeOK, ThreadTypes
    <2>4. PICK d \in Clients \ {c} :
            handler[d] \in {"done", "joined"} /\ fdOf[d] = fdOf[c]
      BY <1>0, <2>3 DEF ForgottenOnlyByReuse
    <2>5. d # incoming.client
      BY <2>1, <2>4
    <2> QED
      BY <1>0, <1>3, <2>2, <2>4, <2>5 DEF AcceptHandOver, TypeOK, ThreadTypes
  <1>4. CASE StopCloseClients
    <2>1. UNCHANGED <<handler, fdOf>> /\ fdOf[c] \in Fds
      BY <1>0, <1>4 DEF StopCloseClients, threadVars, Connections, Holding
    <2>2. Forgotten(c)
      BY <1>0, <1>4, <2>1, ClientsAssumption DEF StopCloseClients
    <2> QED
      BY <1>0, <2>1, <2>2 DEF ForgottenOnlyByReuse
  <1>5. CASE StopJoinClients
    BY <1>0, <1>5 DEF StopJoinClients, Holding
  <1>6. CASE UNCHANGED <<handler, fdOf, sockVars, incoming>>
    BY <1>0, <1>6 DEF sockVars, ForgottenOnlyByReuse
  <1> QED
    BY <1>1, <1>2, <1>3, <1>4, <1>5, <1>6, OtherSteps
-----------------------------------------------------------------------------
(* The theorems.                                                            *)

LEMMA InductiveIInv == IInv /\ [Next]_vars => IInv'
  <1> SUFFICES ASSUME IInv, [Next]_vars PROVE IInv'
    OBVIOUS
  <1>1. TypeOK'
    BY ProcessTyping, SocketTyping, ThreadTyping DEF TypeOK, IInv
  <1>2. Lifecycle' /\ Connections' /\ OpenWhileAccepting'
    BY LifecycleStep, ConnectionsStep, OpenWhileAcceptingStep DEF IInv
  <1>3. OwnDescriptor' /\ NoDescriptorLeak'
    BY OwnDescriptorStep, NoDescriptorLeakStep
  <1>4. PipelineOutlivesHandlers' /\ ForgottenOnlyByReuse'
    BY PipelineOutlivesHandlersStep, ForgottenOnlyByReuseStep
  <1> QED
    BY <1>1, <1>2, <1>3, <1>4 DEF IInv

LEMMA Invariance == Spec => []IInv
  BY InitIInv, InductiveIInv, PTL DEF Spec, SafetySpec

\* The state of the server is well typed, and a connection is in the accept
\* thread's hands exactly while it has accepted one and not handed it over
\* (Server.cpp:217-237).
THEOREM TypeCorrect == Spec => []TypeOK
  <1>1. IInv => TypeOK
    BY DEF IInv
  <1> QED
    BY <1>1, Invariance, PTL

\* However descriptors are reused, a handler only ever reads from, answers
\* to and closes the connection of its own client, until it has closed it
\* (Server.cpp:188,227,260,462).
THEOREM HandlersKeepToTheirClient == Spec => []OwnDescriptor
  <1>1. IInv => OwnDescriptor
    BY DEF IInv
  <1> QED
    BY <1>1, Invariance, PTL

\* Every descriptor that is open has an owner that will close it
\* (Server.cpp:462).
THEOREM DescriptorsHaveOwners == Spec => []NoDescriptorLeak
  <1>1. IInv => NoDescriptorLeak
    BY DEF IInv
  <1> QED
    BY <1>1, Invariance, PTL

\* Wherever a signal arrives, the pipeline runs as long as a handler may
\* give it a job (Server.cpp:137,142,194-207).
THEOREM PipelineServesHandlers == Spec => []PipelineOutlivesHandlers
  <1>1. IInv => PipelineOutlivesHandlers
    BY DEF IInv
  <1> QED
    BY <1>1, Invariance, PTL

\* The vector of descriptors loses an open connection only to a handler that
\* erased the number it was given after the number had been given out again
\* (Server.cpp:462,471).
THEOREM ConnectionsAreForgottenByReuse == Spec => []ForgottenOnlyByReuse
  <1>1. IInv => ForgottenOnlyByReuse
    BY DEF IInv
  <1> QED
    BY <1>1, Invariance, PTL
-----------------------------------------------------------------------------
(* A server that is destroyed has been stopped, provided no signal arrives  *)
(* in the middle of start().                                                *)

HalfStartedLabels == {"startPipeline", "spawnAccept"}
NoHalfwaySignal == SignalAt \cap HalfStartedLabels = {}

\* Between start() and stop() the server runs, and nothing is left after.
Stopped ==
  /\ accept = "none"
  /\ \A c \in Clients : handler[c] \in {"none", "joined"}
  /\ pipeline # "up"

Finishing ==
  /\ main \in Unstarted \cup HalfStartedLabels => signal # "active"
  /\ main \in HalfStartedLabels => running /\ stop = "none"
  /\ stop = "sayStopped" => pipeline # "up"
  /\ ~running /\ stop = "none" => main \in Unstarted \/ Stopped
  /\ main = "destroy" => ~running /\ stop = "none"

LEMMA InitFinishing == Init => Finishing
  BY DEF Init, Finishing, Stopped, Unstarted, HalfStartedLabels

LEMMA FinishingStep ==
  ASSUME NoHalfwaySignal, IInv, Finishing, [Next]_vars
  PROVE  Finishing'
  <1> USE DEF Finishing, Stopped, Unstarted, HalfStartedLabels, mainVars
  <1>0. TypeOK /\ Lifecycle
    BY DEF IInv
  <1>1. CASE MainThread
    <2> USE DEF MainGoes, InMain, StopGoes, threadVars, jobVars, Lifecycle
    <2>1. CASE StartPrinted \/ StartListening \/ StartFails
      BY <1>0, <2>1 DEF StartPrinted, StartListening, StartFails
    <2>2. CASE StartSetRunning \/ StartPipeline \/ StartSpawnAccept
      BY <1>0, <2>2 DEF StartSetRunning, StartPipeline, StartSpawnAccept
    <2>3. CASE MainLeavesLoop \/ MainDropsServer \/ MainDestroys
      BY <1>0, <2>3 DEF MainLeavesLoop, MainDropsServer, MainDestroys
    <2>4. CASE StopBegin
      BY <1>0, <2>4 DEF StopBegin
    <2>5. CASE StopPrinted \/ StopCloseListener \/ StopJoinAccept \/ StopCloseClients
      BY <1>0, <2>5 DEF StopPrinted, StopCloseListener, StopJoinAccept,
         StopCloseClients
    <2>6. CASE StopJoinClients \/ StopPipeline
      BY <1>0, <2>6 DEF StopJoinClients, StopPipeline
    <2>7. CASE StopReturn
      BY <1>0, <2>7 DEF StopReturn
    <2> QED
      BY <1>1, <2>1, <2>2, <2>3, <2>4, <2>5, <2>6, <2>7 DEF MainThread
  <1>2. CASE SignalArrives
    BY <1>0, <1>2 DEF SignalArrives, Here, PrintLabels, NoHalfwaySignal,
       Lifecycle, threadVars, jobVars
  <1>3. CASE AcceptThread
    BY <1>0, <1>3 DEF AcceptThread, AcceptCheck, AcceptOne, AcceptFails,
       AcceptHandOver, AcceptGoes, jobVars, Lifecycle
  <1>4. ASSUME NEW c \in Clients, HandlerThread(c) \/ HandlerRequest(c)
        PROVE  Finishing'
    BY <1>0, <1>4, HandlerMoves
  <1>5. ASSUME NEW c \in Clients, PipelineThread(c) \/ Connect(c) \/ HangUp(c)
        PROVE  Finishing'
    BY <1>0, <1>5 DEF PipelineThread, PipelineAnswer, PipelineAnswerDangling,
       SendMetrics, Connect, HangUp, threadVars, jobVars, Lifecycle
  <1>6. CASE Terminated \/ UNCHANGED vars
    BY <1>6 DEF Terminated, vars, threadVars, jobVars
  <1> QED
    BY <1>1, <1>2, <1>3, <1>4, <1>5, <1>6 DEF Next, Client

\* "Ensure the server is stopped when the object is destroyed" (Server.cpp:31)
\* holds unless a signal finds start() between setting running and creating
\* the accept thread: then stop() runs before what it has to stop.
THEOREM StoppedWhenDestroyed ==
  ASSUME NoHalfwaySignal
  PROVE  Spec => []DestroyedStopped
  <1>1. Finishing => DestroyedStopped
    BY DEF Finishing, Stopped, Unstarted, DestroyedStopped
  <1>2. IInv /\ Finishing /\ [Next]_vars => Finishing'
    BY FinishingStep
  <1> QED
    BY <1>1, <1>2, Invariance, InitFinishing, PTL DEF Spec, SafetySpec
=============================================================================
