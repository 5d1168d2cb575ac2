------------------------------- MODULE Session -------------------------------
(***************************************************************************)
(* What the clients (client/src/Client.cpp, client/src/main.cpp) and the   *)
(* handlers (Server::handleClient) say to each other over their byte       *)
(* streams, and what the handlers do with the one graph they share, while  *)
(* the server runs.                                                        *)
(*                                                                         *)
(* A stream is a sequence of requests, or of the pieces of at most 1024    *)
(* bytes that answers are read in; each read takes what has arrived, at    *)
(* least one of them and maybe several.  Connecting, descriptors and the   *)
(* shutdown are in Server.tla, the five stages of the pipeline in          *)
(* Pipeline.tla: here it is the queue of its jobs.  What findMST() returns *)
(* is what MSTFactory.tla shows of it; weights play no part.               *)
(***************************************************************************)
EXTENDS SpanningForest, Sequences, SequencesExt

CONSTANTS
  Clients,      \* the clients connected
  MaxVertices,  \* bound on the vertex ids that a request names
  Requests,     \* Requests[c]: what the user of client c may type
  MaxRequests,  \* MaxRequests[c]: bound on their number
  StartGraphs,  \* the graph that earlier clients have left
  MaxPieces     \* MaxPieces[k]: pieces the answer to a command k may take

Ids == 0 .. MaxVertices - 1
Pairs == {{u, v} : u, v \in Ids}
Edges == [ends : Pairs, weight : {1}]

ChangeCommands == {"add_vertex", "add_edge", "remove_vertex", "remove_edge"}
NumberCommands == {"add_edge", "remove_vertex", "remove_edge"}

\* "unknown" is any request that is refused without a look at the graph,
\* "empty" an empty line; ends are the vertices a request names.
Commands == ChangeCommands
              \cup {"calculate_mst", "metrics_mst", "unknown", "empty"}

ASSUME RequestsAssumption ==
  /\ Requests \in [Clients -> SUBSET [command : Commands, ends : SUBSET Ids]]
  /\ \A c \in Clients : \A r \in Requests[c] :
       r.command = "add_edge" => r.ends \in Pairs
  /\ MaxRequests \in [Clients -> Nat]
  /\ MaxPieces \in [Commands -> Nat \ {0}]

\* What the commands can have built.
ASSUME StartAssumption ==
  \A g \in StartGraphs :
    /\ g.nextVertexId \in Nat
    /\ g.vertices \subseteq 0 .. g.nextVertexId - 1
    /\ g.edges \subseteq Edges
    /\ Covered(g.edges) \subseteq g.vertices

VARIABLES
  vertices, edges, nextVertexId, \* the graph
  status,      \* of the server: up, or what brought it down: exception,
               \*   brokenPipe (SIGPIPE), undefined (behaviour)
  coutStuck,   \* a stage of the pipeline holds coutMutex for ever
  jobs,        \* the metrics jobs, in the order of the pipeline
  at,          \* where each handler is in its loop: reading, logging (the
               \*   request, when coutMutex is stuck), start, listing,
               \*   walking (in findMST), copy, copying (the graph), closed
  request,     \* the message it has read, as the request executed
  raced,       \* handlers whose unlocked read of the graph met a change
  tree,        \* while walking, the edges that findMST() may have met; then
               \*   what it has returned for metrics_mst
  toServer, toClient, \* bytes on their way, per client
  reset,       \* connections whose client has answered data with a reset
  client,      \* ready (at the prompt), waiting (in read()), silent (in read()
               \*   after an empty line), gone
  asked,       \* requests the client has sent
  misread,     \* history: clients that took something else for the answer to
               \*   their last request
  extra,       \* history: clients whose own answers came in more pieces than
               \*   they had sent requests
  stray,       \* history: clients that were sent the metrics of another one
  lost,        \* history: clients of which a request was dropped
  broken       \* history: clients the write to which raised SIGPIPE

graphVars == <<vertices, edges, nextVertexId>>
processVars == <<status, coutStuck>>
handlerVars == <<at, request, raced, tree>>
wires == <<toServer, toClient, reset>>
clientVars == <<client, asked>>
history == <<misread, extra, stray, lost, broken>>
vars == <<graphVars, processVars, jobs, handlerVars, wires, clientVars, history>>

NoRequest == [command |-> "empty", ends |-> {}, index |-> 0]

-----------------------------------------------------------------------------
Init ==
  /\ \E g \in StartGraphs :
       /\ vertices = g.vertices
       /\ edges = g.edges
       /\ nextVertexId = g.nextVertexId
  /\ status = "up"
  /\ coutStuck = FALSE
  /\ jobs = <<>>
  /\ at = [c \in Clients |-> "reading"]
  /\ request = [c \in Clients |-> NoRequest]
  /\ raced = {}
  /\ tree = [c \in Clients |-> {}]
  /\ toServer = [c \in Clients |-> <<>>]
  /\ toClient = [c \in Clients |-> <<>>]
  /\ reset = {}
  /\ client = [c \in Clients |-> "ready"]
  /\ asked = [c \in Clients |-> 0]
  /\ misread = {}
  /\ extra = {}
  /\ stray = {}
  /\ lost = {}
  /\ broken = {}

-----------------------------------------------------------------------------
(* The client: sendRequest() sends a line and reads once.                   *)

\* Sending an empty line sends nothing; the client reads all the same.
Ask(c, r) ==
  /\ status = "up"
  /\ client[c] = "ready"
  /\ asked[c] < MaxRequests[c]
  /\ asked' = [asked EXCEPT ![c] = @ + 1]
  /\ client' = [client EXCEPT ![c] =
                   IF r.command = "empty" THEN "silent" ELSE "waiting"]
  /\ toServer' =
       IF r.command = "empty" THEN toServer
       ELSE [toServer EXCEPT ![c] =
               Append(@, [command |-> r.command, ends |-> r.ends,
                          index |-> asked'[c]])]
  /\ UNCHANGED <<graphVars, processVars, jobs, handlerVars, toClient, reset,
                 history>>

\* read() returns the pieces that have arrived, or the first of them.
Receive(c) ==
  /\ client[c] \in {"waiting", "silent"}
  /\ \E k \in 1 .. Len(toClient[c]) :
       /\ misread' = IF \A i \in 1 .. k : toClient[c][i] = <<c, asked[c]>>
                     THEN misread ELSE misread \cup {c}
       /\ toClient' = [toClient EXCEPT ![c] = SubSeq(@, k + 1, Len(@))]
  /\ client' = [client EXCEPT ![c] = "ready"]
  /\ UNCHANGED <<graphVars, processVars, jobs, handlerVars, toServer, reset,
                 asked, extra, stray, lost, broken>>

\* The server is down: read() returns 0, which prints an empty answer, or
\* -1, with which std::string throws and main() ends.
ReceiveEnd(c) ==
  /\ status # "up"
  /\ client[c] \in {"waiting", "silent"}
  /\ toClient[c] = <<>>
  /\ \E to \in {"ready", "gone"} : client' = [client EXCEPT ![c] = to]
  /\ UNCHANGED <<graphVars, processVars, jobs, handlerVars, wires, asked,
                 history>>

\* The user quits, or kills the client while it waits.  Closing a socket
\* with unread data resets the connection.  It makes no difference once the
\* server is down.
Leave(c) ==
  /\ status = "up"
  /\ client[c] # "gone"
  /\ client' = [client EXCEPT ![c] = "gone"]
  /\ toClient' = [toClient EXCEPT ![c] = <<>>]
  /\ reset' = IF toClient[c] = <<>> THEN reset ELSE reset \cup {c}
  /\ UNCHANGED <<graphVars, processVars, jobs, handlerVars, toServer, asked,
                 history>>

-----------------------------------------------------------------------------
(* Most steps of a handler and of the pipeline log under coutMutex, and     *)
(* cannot be taken once it is stuck.  A handler at start has logged the     *)
(* request; changing the graph and copying it take no coutMutex.            *)

CoutFree == ~coutStuck

HandlerGoes(c, from, to) ==
  status = "up" /\ at[c] = from /\ at' = [at EXCEPT ![c] = to]

\* One send() to d of n pieces in answer to c's request with this index.
\* The first one that finds d gone provokes the reset.
Send(c, d, index, n) ==
  /\ IF client[d] # "gone"
     THEN /\ toClient' = [toClient EXCEPT ![d] = @ \o [k \in 1 .. n |-> <<c, index>>]]
          /\ UNCHANGED <<status, reset, broken>>
     ELSE /\ reset' = reset \cup {d}
          /\ status' = IF d \in reset THEN "brokenPipe" ELSE status
          /\ broken' = IF d \in reset THEN broken \cup {d} ELSE broken
          /\ UNCHANGED toClient
  /\ UNCHANGED <<coutStuck, toServer>>

\* ... by the handler itself, once in an iteration unless there is more.
Answer(c, n, more) ==
  /\ CoutFree
  /\ Send(c, c, request[c].index, n)
  /\ request' = IF more THEN request ELSE [request EXCEPT ![c] = NoRequest]
  /\ extra' = IF n > 1 \/ more THEN extra \cup {c} ELSE extra

Lengths(c) == 1 .. MaxPieces[request[c].command]

\* Several requests read at once are one string with no separator: numbers
\* end where the next word begins, any other command becomes an unknown one.
Message(q) ==
  IF Len(q) = 1 \/ q[1].command \in NumberCommands THEN q[1]
  ELSE [q[1] EXCEPT !.command = "unknown"]

\* A variant of HandlerRead that leaves what it has read in the stream.
HandlerReadAgain(c) ==
  /\ HandlerGoes(c, "reading", IF CoutFree THEN "start" ELSE "logging")
  /\ \E k \in 1 .. Len(toServer[c]) :
       /\ request' = [request EXCEPT ![c] = Message(SubSeq(toServer[c], 1, k))]
       /\ lost' = IF k > 1 THEN lost \cup {c} ELSE lost
  /\ UNCHANGED <<graphVars, processVars, jobs, raced, tree, wires, clientVars,
                 misread, extra, stray, broken>>

HandlerRead(c) ==
  /\ HandlerGoes(c, "reading", IF CoutFree THEN "start" ELSE "logging")
  /\ \E k \in 1 .. Len(toServer[c]) :
       /\ request' = [request EXCEPT ![c] = Message(SubSeq(toServer[c], 1, k))]
       /\ toServer' = [toServer EXCEPT ![c] = SubSeq(@, k + 1, Len(@))]
       /\ lost' = IF k > 1 THEN lost \cup {c} ELSE lost
  /\ UNCHANGED <<graphVars, processVars, jobs, raced, tree, toClient, reset,
                 clientVars, misread, extra, stray, broken>>

\* A variant of HandlerEof that takes 0 for an empty message.
HandlerEofIgnored(c) ==
  /\ HandlerGoes(c, "reading", "start")
  /\ CoutFree
  /\ client[c] = "gone"
  /\ toServer[c] = <<>>
  /\ request' = [request EXCEPT ![c].command = "unknown"]
  /\ UNCHANGED <<graphVars, processVars, jobs, raced, tree, wires, clientVars,
                 history>>

\* read() returns 0 or fails.
HandlerEof(c) ==
  /\ HandlerGoes(c, "reading", "closed")
  /\ CoutFree
  /\ client[c] = "gone"
  /\ toServer[c] = <<>>
  /\ UNCHANGED <<graphVars, processVars, jobs, request, raced, tree, wires,
                 clientVars, history>>

\* An error text, also for metrics_mst on an empty graph.
HandlerRefuse(c) ==
  /\ HandlerGoes(c, "start", "reading")
  /\ \/ request[c].command = "unknown"
     \/ request[c].command = "metrics_mst" /\ vertices = {}
  /\ Answer(c, 1, FALSE)
  /\ UNCHANGED <<graphVars, jobs, raced, tree, clientVars, misread, stray, lost>>

-----------------------------------------------------------------------------
(* Commands that change the graph: under graphMutex, and its string under   *)
(* the mutex again.  Those that read the graph through getGraph() hold no   *)
(* mutex.                                                                   *)

Reading == {c \in Clients : at[c] \in {"walking", "copying"}}

AddVertex(c) ==
  /\ HandlerGoes(c, "start", "listing")
  /\ request[c].command = "add_vertex"
  /\ vertices' = vertices \cup {nextVertexId}
  /\ nextVertexId' = nextVertexId + 1
  /\ raced' = raced \cup Reading
  /\ UNCHANGED <<edges, processVars, jobs, request, tree, wires, clientVars,
                 history>>

\* findMST() in another thread may still meet the new edge.
AddEdge(c) ==
  /\ HandlerGoes(c, "start", "listing")
  /\ request[c].command = "add_edge"
  /\ request[c].ends \subseteq vertices
  /\ LET new == [ends |-> request[c].ends, weight |-> 1]
     IN  /\ edges' = edges \cup {new}
         /\ tree' = [d \in Clients |-> IF at[d] = "walking" THEN tree[d] \cup {new}
                                       ELSE tree[d]]
  /\ raced' = raced \cup Reading
  /\ UNCHANGED <<vertices, nextVertexId, processVars, jobs, request, wires,
                 clientVars, history>>

\* addEdge() throws, and nothing catches it in the handler's thread.
AddEdgeThrows(c) ==
  /\ HandlerGoes(c, "start", "start")
  /\ request[c].command = "add_edge"
  /\ ~(request[c].ends \subseteq vertices)
  /\ status' = "exception"
  /\ UNCHANGED <<graphVars, coutStuck, jobs, request, raced, tree, wires,
                 clientVars, history>>

\* A variant of TakeOut that leaves the edges to a removed vertex.
TakeOutVertexOnly(c) ==
  /\ HandlerGoes(c, "start", "listing")
  /\ request[c].command \in {"remove_vertex", "remove_edge"}
  /\ IF request[c].command = "remove_vertex"
     THEN /\ vertices' = vertices \ request[c].ends
          /\ UNCHANGED edges
     ELSE /\ edges' = {e \in edges : e.ends # request[c].ends}
          /\ UNCHANGED vertices
  /\ raced' = raced \cup Reading
  /\ UNCHANGED <<nextVertexId, processVars, jobs, request, tree, wires,
                 clientVars, history>>

\* What is not there cannot be removed; the answer is the same.
TakeOut(c) ==
  /\ HandlerGoes(c, "start", "listing")
  /\ request[c].command \in {"remove_vertex", "remove_edge"}
  /\ IF request[c].command = "remove_vertex"
     THEN /\ vertices' = vertices \ request[c].ends
          /\ edges' = {e \in edges : e.ends \cap request[c].ends = {}}
     ELSE /\ edges' = {e \in edges : e.ends # request[c].ends}
          /\ UNCHANGED vertices
  /\ raced' = raced \cup Reading
  /\ UNCHANGED <<nextVertexId, processVars, jobs, request, tree, wires,
                 clientVars, history>>

\* A variant of HandlerList that sends nothing.
HandlerListSilently(c) ==
  /\ HandlerGoes(c, "listing", "reading")
  /\ CoutFree
  /\ request' = [request EXCEPT ![c] = NoRequest]
  /\ UNCHANGED <<graphVars, processVars, jobs, raced, tree, wires, clientVars,
                 history>>

HandlerList(c) ==
  /\ HandlerGoes(c, "listing", "reading")
  /\ \E n \in Lengths(c) : Answer(c, n, FALSE)
  /\ UNCHANGED <<graphVars, jobs, raced, tree, clientVars, misread, stray, lost>>

-----------------------------------------------------------------------------
(* calculate_mst and metrics_mst.                                           *)

\* From the last log line before findMST().
BeginWalk(c) ==
  /\ HandlerGoes(c, "start", "walking")
  /\ CoutFree
  /\ \/ request[c].command = "calculate_mst"
     \/ request[c].command = "metrics_mst" /\ vertices # {}
  /\ tree' = [tree EXCEPT ![c] = edges]
  /\ UNCHANGED <<graphVars, processVars, jobs, request, raced, wires,
                 clientVars, history>>

Indices == 0 .. Cardinality(vertices) - 1

\* The behaviour of findMST() is undefined if the graph changes meanwhile, or
\* an edge it meets leads out of its arrays.
WalkUndefined(c) ==
  c \in raced \/ \E e \in edges : e.ends \cap Indices # {} /\ ~(e.ends \subseteq Indices)

\* It may have copied any of the edges that were there at some moment of it,
\* those that have been removed since included.
WalkResults(c) ==
  IF WalkUndefined(c) THEN SUBSET tree[c]
  ELSE {F \in SUBSET edges :
          IsSpanningForest(F, {e \in edges : e.ends \subseteq Indices})}

\* The tree is sent; metrics_mst goes on.
EndWalk(c) ==
  /\ HandlerGoes(c, "walking",
                 IF request[c].command = "metrics_mst" THEN "copy" ELSE "reading")
  /\ \E F \in WalkResults(c) :
       tree' = [tree EXCEPT ![c] =
                  IF request[c].command = "metrics_mst" THEN F ELSE {}]
  /\ \E n \in Lengths(c) : Answer(c, n, request[c].command = "metrics_mst")
  /\ raced' = raced \ {c}
  /\ UNCHANGED <<graphVars, jobs, clientVars, misread, stray, lost>>

BeginCopy(c) ==
  /\ HandlerGoes(c, "copy", "copying")
  /\ UNCHANGED <<graphVars, processVars, jobs, request, raced, tree, wires,
                 clientVars, history>>

\* calculateMetrics() enqueues the job with the copy, of which the number of
\* vertices matters.
EndCopy(c) ==
  /\ HandlerGoes(c, "copying", "reading")
  /\ jobs' = Append(jobs, [client |-> c, index |-> request[c].index,
                           tree |-> tree[c], size |-> Cardinality(vertices)])
  /\ tree' = [tree EXCEPT ![c] = {}]
  /\ raced' = raced \ {c}
  /\ request' = [request EXCEPT ![c] = NoRequest]
  /\ UNCHANGED <<graphVars, processVars, wires, clientVars, history>>

\* Where the process does not survive what is undefined.
ReadCrashes(c) ==
  /\ status = "up"
  /\ \/ at[c] = "walking" /\ WalkUndefined(c)
     \/ at[c] = "copying" /\ c \in raced
  /\ status' = "undefined"
  /\ UNCHANGED <<graphVars, coutStuck, jobs, handlerVars, wires, clientVars,
                 history>>

-----------------------------------------------------------------------------
(* The pipeline answers its jobs in order, but its stages work on several.  *)

Blocks(job) == job.tree = {} \/ job.size < 2

\* The matrices of MSTMetrics are too small for the tree.
Outside(job) ==
  \/ ~(Covered(job.tree) \subseteq 0 .. job.size - 1)
  \/ ~(Covered(job.tree) \subseteq 0 .. Cardinality(job.tree))

\* The callback sends to the client that asked or, once the handler's frame
\* is gone, to whichever connection its memory now names, or to none.
Targets(job) ==
  IF at[job.client] # "closed" THEN {job.client}
  ELSE {d \in Clients : at[d] # "closed"}

Deliver ==
  /\ status = "up"
  /\ CoutFree
  /\ jobs # <<>>
  /\ ~Blocks(Head(jobs))
  /\ jobs' = Tail(jobs)
  /\ \/ \E d \in Targets(Head(jobs)) :
          /\ Send(Head(jobs).client, d, Head(jobs).index, 1)
          /\ stray' = stray \cup ({d} \ {Head(jobs).client})
     \/ /\ at[Head(jobs).client] = "closed"
        /\ UNCHANGED <<processVars, wires, stray, broken>>
  /\ UNCHANGED <<graphVars, handlerVars, clientVars, misread, extra, lost>>

\* The error path of stage 0 waits for coutMutex, which it holds; the jobs
\* before may still be in later stages.
Block ==
  /\ status = "up"
  /\ CoutFree
  /\ \E i \in DOMAIN jobs : Blocks(jobs[i])
  /\ coutStuck' = TRUE
  /\ UNCHANGED <<graphVars, status, jobs, handlerVars, wires, clientVars, history>>

\* Stages 1 to 4 take no coutMutex before the callback.
DeliverCrashes ==
  /\ status = "up"
  /\ \/ \E i \in DOMAIN jobs :
          /\ Outside(jobs[i])
          /\ \A k \in 1 .. i : ~Blocks(jobs[k])
     \/ /\ CoutFree
        /\ jobs # <<>>
        /\ at[Head(jobs).client] = "closed"
  /\ status' = "undefined"
  /\ UNCHANGED <<graphVars, coutStuck, jobs, handlerVars, wires, clientVars,
                 history>>

-----------------------------------------------------------------------------
Handler(c) ==
  \/ HandlerRead(c) \/ HandlerEof(c) \/ HandlerRefuse(c)
  \/ AddVertex(c) \/ AddEdge(c) \/ AddEdgeThrows(c) \/ TakeOut(c) \/ HandlerList(c)
  \/ BeginWalk(c) \/ EndWalk(c) \/ BeginCopy(c) \/ EndCopy(c)

Pipeline == Deliver \/ Block

\* What undefined behaviour may do, and need not.
Crash == DeliverCrashes \/ \E c \in Clients : ReadCrashes(c)

Client(c) ==
  \/ \E r \in Requests[c] : Ask(c, r)
  \/ Receive(c) \/ ReceiveEnd(c) \/ Leave(c)

Next == Pipeline \/ Crash \/ \E c \in Clients : Handler(c) \/ Client(c)

\* Threads are scheduled and what has arrived is read; nobody has to ask or
\* to leave.
Fairness ==
  /\ WF_vars(Pipeline)
  /\ \A c \in Clients : WF_vars(Handler(c)) /\ WF_vars(Receive(c) \/ ReceiveEnd(c))

Spec == Init /\ [][Next]_vars /\ Fairness

-----------------------------------------------------------------------------
\* Requests as they are sent, counted by their client.
Messages ==
  {m \in [command : Commands, ends : SUBSET Ids, index : Nat] :
     m.command = "add_edge" => m.ends \in Pairs}

TypeOK ==
  /\ nextVertexId \in Nat
  /\ vertices \subseteq 0 .. nextVertexId - 1
  /\ edges \subseteq Edges
  /\ Covered(edges) \subseteq vertices
  /\ status \in {"up", "exception", "brokenPipe", "undefined"}
  /\ coutStuck \in BOOLEAN
  /\ jobs \in Seq([client : Clients, index : Nat, tree : SUBSET Edges, size : Nat])
  /\ at \in [Clients -> {"reading", "logging", "start", "listing", "walking",
                         "copy", "copying", "closed"}]
  /\ request \in [Clients -> Messages]
  /\ raced \subseteq Reading
  /\ tree \in [Clients -> SUBSET Edges]
  /\ toServer \in [Clients -> Seq(Messages)]
  /\ toClient \in [Clients -> Seq(Clients \X Nat)]
  /\ reset \subseteq {c \in Clients : client[c] = "gone"}
  /\ client \in [Clients -> {"ready", "waiting", "silent", "gone"}]
  /\ \A c \in Clients : asked[c] \in 0 .. MaxRequests[c]
  /\ misread \cup extra \cup stray \cup lost \cup broken \subseteq Clients

\* "Sends a request to the server and receives the response" (Client.cpp:54):
\* what a client reads is the answer to the request it has just sent, and no
\* request of it is lost, unless an answer to it came in two pieces, as every
\* metrics_mst does, or it was sent the metrics of another client by the
\* callback that outlives its handler (Server.cpp:434).  The latter takes a
\* client that has asked for metrics and left.
InStep ==
  /\ misread \cup lost \subseteq extra \cup stray
  /\ stray # {} => \E c \in extra : at[c] = "closed"

\* A client that leaves brings the server down with SIGPIPE (Server.cpp:260)
\* only if that client was itself sent more than it asked for, or the metrics
\* of another one: the handler of a client in step writes once and then finds
\* the connection closed, whatever the others have been sent.
BrokenPipeOutOfStep ==
  status = "brokenPipe" => broken # {} /\ broken \subseteq extra \cup stray

\* A client that has sent a request is answered: it goes back to its prompt
\* while the server is up.  There are three exceptions: its user kills it,
\* stage 0 has blocked coutMutex, or the server has been brought down, by an
\* exception in a handler, by SIGPIPE or by undefined behaviour.  After an
\* empty line a client may wait for ever (Client.cpp:63-69).
WaitingEnds ==
  \A c \in Clients :
    client[c] = "waiting" ~>
      \/ client[c] = "ready" /\ status = "up"
      \/ client[c] = "gone" \/ coutStuck \/ status # "up"
=============================================================================
