---------------------------- MODULE SessionProofs ----------------------------
(***************************************************************************)
(* Theorems about Session, for any clients, requests, graphs and lengths   *)
(* of answers.                                                             *)
(***************************************************************************)
EXTENDS Session, SequenceTheorems, FiniteSetTheorems, TLAPS

-----------------------------------------------------------------------------
(* Types.  The state in four parts, by who changes it.                      *)

GraphTyped ==
  /\ nextVertexId \in Nat
  /\ vertices \subseteq 0 .. nextVertexId - 1
  /\ edges \subseteq Edges
  /\ Covered(edges) \subseteq vertices

Positions == {"reading", "logging", "start", "listing", "walking", "copy", "copying",
              "closed"}

HandlersTyped ==
  /\ at \in [Clients -> Positions]
  /\ request \in [Clients -> Messages]
  /\ raced \subseteq Reading
  /\ tree \in [Clients -> SUBSET Edges]

JobType == [client : Clients, index : Nat, tree : SUBSET Edges, size : Nat]

ProcessTyped ==
  /\ status \in {"up", "exception", "brokenPipe", "undefined"}
  /\ coutStuck \in BOOLEAN
  /\ jobs \in Seq(JobType)

ClientsTyped ==
  /\ toServer \in [Clients -> Seq(Messages)]
  /\ toClient \in [Clients -> Seq(Clients \X Nat)]
  /\ client \in [Clients -> {"ready", "waiting", "silent", "gone"}]
  /\ reset \subseteq {c \in Clients : client[c] = "gone"}
  /\ asked \in [Clients -> Nat]
  /\ \A c \in Clients : asked[c] \in 0 .. MaxRequests[c]
  /\ misread \cup extra \cup stray \cup lost \cup broken \subseteq Clients

Typed == GraphTyped /\ HandlersTyped /\ ProcessTyped /\ ClientsTyped

LEMMA TypedTypeOK == Typed => TypeOK
  BY DEF Typed, GraphTyped, HandlersTyped, ProcessTyped, ClientsTyped, TypeOK,
     Positions, JobType

LEMMA MessageFields ==
  ASSUME NEW m \in Messages
  PROVE  /\ m.command \in Commands /\ m.ends \subseteq Ids /\ m.index \in Nat
         /\ m.command = "add_edge" => m.ends \in Pairs
         /\ [m EXCEPT !.command = "unknown"] \in Messages
  BY DEF Messages, Commands

LEMMA NoRequestTyped == NoRequest \in Messages
  BY DEF NoRequest, Messages, Commands

LEMMA InitTyped == Init => Typed
  <1> SUFFICES ASSUME Init PROVE Typed
    OBVIOUS
  <1>1. GraphTyped
    BY StartAssumption DEF Init, GraphTyped
  <1>2. HandlersTyped
    BY NoRequestTyped DEF Init, HandlersTyped, Positions
  <1>3. ProcessTyped
    <2>1. <<>> \in Seq(JobType)
      OBVIOUS
    <2> QED
      BY <2>1 DEF Init, ProcessTyped
  <1>4. ClientsTyped
    BY RequestsAssumption DEF Init, ClientsTyped
  <1> QED
    BY <1>1, <1>2, <1>3, <1>4 DEF Typed

\* One vertex or edge more, or fewer.
LEMMA GraphStep ==
  ASSUME Typed, NEW c \in Clients,
         AddVertex(c) \/ AddEdge(c) \/ TakeOut(c) \/ UNCHANGED graphVars
  PROVE  GraphTyped'
  <1> USE DEF GraphTyped
  <1>a. GraphTyped /\ request[c] \in Messages
    BY DEF Typed, HandlersTyped
  <1>1. CASE AddVertex(c)
    BY <1>1, <1>a DEF AddVertex
  <1>2. CASE AddEdge(c)
    <2>1. /\ request[c].ends \subseteq vertices /\ request[c].ends \in Pairs
          /\ edges' = edges \cup {[ends |-> request[c].ends, weight |-> 1]}
          /\ UNCHANGED <<vertices, nextVertexId>>
      BY <1>2, <1>a, MessageFields DEF AddEdge
    <2>2. edges' \subseteq Edges
      BY <2>1, <1>a DEF Edges
    <2>3. Covered(edges') \subseteq vertices'
      BY <2>1, <1>a DEF Covered
    <2> QED
      BY <2>1, <2>2, <2>3, <1>a
  <1>3. CASE TakeOut(c)
    <2>1. \/ /\ vertices' = vertices \ request[c].ends
             /\ edges' = {e \in edges : e.ends \cap request[c].ends = {}}
             /\ nextVertexId' = nextVertexId
          \/ /\ edges' \subseteq edges
             /\ UNCHANGED <<vertices, nextVertexId>>
      BY <1>3 DEF TakeOut
    <2> QED
      BY <2>1, <1>a DEF Covered
  <1>4. CASE UNCHANGED graphVars
    BY <1>4, <1>a DEF graphVars, Covered
  <1> QED
    BY <1>1, <1>2, <1>3, <1>4

\* What a send writes, and to whom.
LEMMA SendTyped ==
  ASSUME ClientsTyped, ProcessTyped, NEW c \in Clients, NEW d \in Clients,
         NEW i \in Nat, NEW n \in Nat,
         Send(c, d, i, n), UNCHANGED <<client, asked, misread, lost, jobs>>,
         extra' \cup stray' \subseteq Clients
  PROVE  ClientsTyped' /\ ProcessTyped'
  <1> USE DEF ClientsTyped, ProcessTyped
  <1>1. CASE client[d] # "gone"
    <2>1. [k \in 1 .. n |-> <<c, i>>] \in Seq(Clients \X Nat)
      OBVIOUS
    <2>2. toClient[d] \o [k \in 1 .. n |-> <<c, i>>] \in Seq(Clients \X Nat)
      BY <2>1, ConcatProperties
    <2> QED
      BY <1>1, <2>2 DEF Send
  <1>2. CASE client[d] = "gone"
    BY <1>2 DEF Send
  <1> QED
    BY <1>1, <1>2

LEMMA AnswerTyped ==
  ASSUME Typed, NEW c \in Clients, NEW n \in Lengths(c) \cup {1}, NEW more \in BOOLEAN,
         Answer(c, n, more),
         UNCHANGED <<client, asked, misread, stray, lost, jobs>>
  PROVE  ClientsTyped' /\ ProcessTyped' /\ request' \in [Clients -> Messages]
  <1>1. request[c] \in Messages /\ request[c].index \in Nat /\ request[c].command \in Commands
    BY MessageFields DEF Typed, HandlersTyped
  <1>2. n \in Nat
    BY <1>1, RequestsAssumption DEF Lengths
  <1>3. extra' \cup stray' \subseteq Clients
    BY DEF Answer, Typed, ClientsTyped
  <1>4. ClientsTyped' /\ ProcessTyped'
    BY <1>1, <1>2, <1>3, SendTyped DEF Answer, Typed
  <1>5. request' \in [Clients -> Messages]
    BY NoRequestTyped DEF Answer, Typed, HandlersTyped
  <1> QED
    BY <1>4, <1>5

\* A handler moves on, and its request with it.
LEMMA MoveTyped ==
  ASSUME Typed, NEW c \in Clients, NEW to \in Positions,
         at' = [at EXCEPT ![c] = to],
         request' \in [Clients -> Messages],
         tree' \in [Clients -> SUBSET Edges],
         raced' \subseteq raced \cup Reading,
         c \in raced' => to \in {"walking", "copying"}
  PROVE  HandlersTyped'
  BY DEF Typed, HandlersTyped, Reading

LEMMA ClientsSame ==
  ASSUME Typed, UNCHANGED <<toServer, toClient, client, reset, asked, misread,
                            extra, stray, lost, broken>>
  PROVE  ClientsTyped'
  BY DEF Typed, ClientsTyped

LEMMA HandlersSame ==
  ASSUME Typed, UNCHANGED <<at, request, raced, tree>>
  PROVE  HandlersTyped'
  BY DEF Typed, HandlersTyped, Reading

LEMMA ProcessSame ==
  ASSUME Typed, UNCHANGED <<coutStuck, jobs>>,
         status' \in {status, "exception", "undefined"}
  PROVE  ProcessTyped'
  BY DEF Typed, ProcessTyped

LEMMA TreeCase ==
  ASSUME Typed, NEW c \in Clients, NEW F \in SUBSET (edges \cup tree[c])
  PROVE  [tree EXCEPT ![c] = F] \in [Clients -> SUBSET Edges]
  BY DEF Typed, HandlersTyped, GraphTyped

LEMMA ResultsAreEdges ==
  ASSUME NEW c, NEW F \in WalkResults(c)
  PROVE  F \in SUBSET (edges \cup tree[c])
  BY DEF WalkResults

LEMMA HandlerTyped ==
  ASSUME Typed, NEW c \in Clients, Handler(c)
  PROVE  Typed'
  <1> USE DEF HandlerGoes, processVars, handlerVars, wires, clientVars, history
  <1>a. HandlersTyped /\ ClientsTyped /\ ProcessTyped /\ GraphTyped /\ request[c] \in Messages
        /\ request \in [Clients -> Messages]
    BY DEF Typed, HandlersTyped
  <1>1. CASE HandlerRead(c)
    <2>1. PICK k \in 1 .. Len(toServer[c]) :
            /\ request' = [request EXCEPT ![c] = Message(SubSeq(toServer[c], 1, k))]
            /\ toServer' = [toServer EXCEPT ![c] = SubSeq(toServer[c], k + 1, Len(toServer[c]))]
            /\ lost' = IF k > 1 THEN lost \cup {c} ELSE lost
      BY <1>1 DEF HandlerRead
    <2>2. toServer[c] \in Seq(Messages) /\ Len(toServer[c]) \in Nat
      BY <1>a DEF ClientsTyped
    <2>3. SubSeq(toServer[c], k + 1, Len(toServer[c])) \in Seq(Messages)
      BY <2>2
    <2>4. Message(SubSeq(toServer[c], 1, k)) \in Messages
      <3> DEFINE q == SubSeq(toServer[c], 1, k)
      <3>1. q[1] \in Messages
        BY <2>2
      <3> HIDE DEF q
      <3>2. [q[1] EXCEPT !.command = "unknown"] \in Messages
        BY <3>1, MessageFields
      <3>3. Message(q) \in {q[1], [q[1] EXCEPT !.command = "unknown"]}
        BY DEF Message
      <3>4. Message(q) \in Messages
        BY <3>1, <3>2, <3>3
      <3> QED
        BY <3>4 DEF q
    <2>5. HandlersTyped'
      <3>1. request' \in [Clients -> Messages]
        BY <2>1, <2>4, <1>a
      <3> QED
        BY <3>1, <1>1, <1>a, MoveTyped DEF HandlerRead, Positions, Reading, HandlersTyped
    <2>6. ClientsTyped'
      BY <2>1, <2>3, <1>1, <1>a DEF HandlerRead, ClientsTyped
    <2> QED
      BY <2>5, <2>6, <1>1, GraphStep, ProcessSame DEF HandlerRead, Typed
  <1>2. CASE HandlerEof(c)
    <2>1. HandlersTyped'
      BY <1>2, <1>a, MoveTyped DEF HandlerEof, Positions, Reading, HandlersTyped
    <2> QED
      BY <2>1, <1>2, GraphStep, ProcessSame, ClientsSame DEF HandlerEof, Typed
  <1>3. CASE HandlerRefuse(c)
    <2>1. ClientsTyped' /\ ProcessTyped' /\ request' \in [Clients -> Messages]
      BY <1>3, AnswerTyped DEF HandlerRefuse
    <2>2. HandlersTyped'
      BY <2>1, <1>3, <1>a, MoveTyped DEF HandlerRefuse, Positions, Reading, HandlersTyped
    <2> QED
      BY <2>1, <2>2, <1>3, GraphStep DEF HandlerRefuse, Typed
  <1>4. CASE AddVertex(c) \/ AddEdge(c) \/ TakeOut(c)
    <2>1. at[c] = "start" /\ at' = [at EXCEPT ![c] = "listing"]
          /\ raced' = raced \cup Reading
          /\ UNCHANGED <<processVars, jobs, request, wires, clientVars, history>>
      BY <1>4 DEF AddVertex, AddEdge, TakeOut
    <2>2. tree' \in [Clients -> SUBSET Edges]
      <3>1. CASE AddEdge(c)
        <4>1. [ends |-> request[c].ends, weight |-> 1] \in Edges
          BY <3>1, <1>a, MessageFields DEF AddEdge, Edges
        <4> QED
          BY <3>1, <4>1, <1>a DEF AddEdge, HandlersTyped
      <3>2. CASE tree' = tree
        BY <3>2, <1>a DEF HandlersTyped
      <3> QED
        BY <1>4, <3>1, <3>2 DEF AddVertex, TakeOut
    <2>3. HandlersTyped'
      BY <2>1, <2>2, <1>a, MoveTyped DEF Positions, Reading, HandlersTyped
    <2> QED
      BY <2>1, <2>3, <1>4, GraphStep, ProcessSame, ClientsSame DEF Typed
  <1>5. CASE AddEdgeThrows(c)
    <2>1. HandlersTyped'
      BY <1>5, <1>a, MoveTyped DEF AddEdgeThrows, Positions, Reading, HandlersTyped
    <2> QED
      BY <2>1, <1>5, GraphStep, ProcessSame, ClientsSame DEF AddEdgeThrows, Typed
  <1>6. CASE HandlerList(c)
    <2>1. PICK n \in Lengths(c) : Answer(c, n, FALSE)
      BY <1>6 DEF HandlerList
    <2>2. ClientsTyped' /\ ProcessTyped' /\ request' \in [Clients -> Messages]
      BY <1>6, <2>1, AnswerTyped DEF HandlerList
    <2>3. HandlersTyped'
      BY <2>2, <1>6, <1>a, MoveTyped DEF HandlerList, Positions, Reading, HandlersTyped
    <2> QED
      BY <2>2, <2>3, <1>6, GraphStep DEF HandlerList, Typed
  <1>7. CASE BeginWalk(c) \/ BeginCopy(c)
    <2>1. /\ at[c] \in {"start", "copy"}
          /\ \E to \in {"walking", "copying"} : at' = [at EXCEPT ![c] = to]
          /\ tree' \in {tree, [tree EXCEPT ![c] = edges]}
          /\ UNCHANGED <<graphVars, processVars, jobs, request, raced, wires,
                         clientVars, history>>
      BY <1>7 DEF BeginWalk, BeginCopy
    <2>2. tree' \in [Clients -> SUBSET Edges]
      <3>1. [tree EXCEPT ![c] = edges] \in [Clients -> SUBSET Edges]
        BY TreeCase
      <3> QED
        BY <2>1, <3>1, <1>a DEF HandlersTyped
    <2>3. HandlersTyped'
      BY <2>1, <2>2, <1>a, MoveTyped DEF Positions, Reading, HandlersTyped
    <2> QED
      BY <2>1, <2>3, GraphStep, ProcessSame, ClientsSame DEF Typed
  <1>8. CASE EndWalk(c)
    <2>1. PICK n \in Lengths(c) : Answer(c, n, request[c].command = "metrics_mst")
      BY <1>8 DEF EndWalk
    <2>2. PICK F \in WalkResults(c) :
            tree' = [tree EXCEPT ![c] =
                       IF request[c].command = "metrics_mst" THEN F ELSE {}]
      BY <1>8 DEF EndWalk
    <2>3. ClientsTyped' /\ ProcessTyped' /\ request' \in [Clients -> Messages]
      BY <1>8, <2>1, AnswerTyped DEF EndWalk
    <2>4. tree' \in [Clients -> SUBSET Edges]
      <3>1. F \in SUBSET (edges \cup tree[c]) /\ {} \in SUBSET (edges \cup tree[c])
        BY <2>2, ResultsAreEdges
      <3> QED
        BY <2>2, <3>1, TreeCase
    <2>5. HandlersTyped'
      <3>1. PICK to \in {"copy", "reading"} : at' = [at EXCEPT ![c] = to]
        BY <1>8 DEF EndWalk
      <3>2. raced' = raced \ {c}
        BY <1>8 DEF EndWalk
      <3> QED
        BY <2>3, <2>4, <3>1, <3>2, MoveTyped DEF Positions
    <2> QED
      BY <2>3, <2>5, <1>8, GraphStep DEF EndWalk, Typed
  <1>9. CASE EndCopy(c)
    <2>1. Cardinality(vertices) \in Nat
      <3>1. IsFiniteSet(0 .. nextVertexId - 1) /\ vertices \subseteq 0 .. nextVertexId - 1
        BY <1>a, FS_Interval DEF GraphTyped
      <3> QED
        BY <3>1, FS_Subset, FS_CardinalityType
    <2>2. [client |-> c, index |-> request[c].index,
           tree |-> tree[c], size |-> Cardinality(vertices)] \in JobType
      BY <1>a, <2>1, MessageFields DEF JobType, HandlersTyped
    <2>3. jobs' \in Seq(JobType)
      BY <1>9, <1>a, <2>2 DEF EndCopy, ProcessTyped
    <2>4. ProcessTyped'
      BY <1>9, <1>a, <2>3 DEF EndCopy, ProcessTyped
    <2>5. HandlersTyped'
      <3>1. tree' \in [Clients -> SUBSET Edges]
        BY <1>9, TreeCase DEF EndCopy
      <3>2. request' \in [Clients -> Messages]
        BY <1>9, <1>a, NoRequestTyped DEF EndCopy
      <3>3. at' = [at EXCEPT ![c] = "reading"] /\ raced' = raced \ {c}
        BY <1>9 DEF EndCopy
      <3> QED
        BY <3>1, <3>2, <3>3, MoveTyped DEF Positions
    <2> QED
      BY <2>4, <2>5, <1>9, GraphStep, ClientsSame DEF EndCopy, Typed
  <1> QED
    BY <1>1, <1>2, <1>3, <1>4, <1>5, <1>6, <1>7, <1>8, <1>9 DEF Handler

LEMMA ClientTyped ==
  ASSUME Typed, NEW c \in Clients, Client(c)
  PROVE  Typed'
  <1> USE DEF processVars, handlerVars, wires, clientVars, history
  <1>a. ClientsTyped /\ Typed
    BY DEF Typed
  <1>b. UNCHANGED <<graphVars, processVars, jobs, handlerVars>>
    BY DEF Client, Ask, Receive, ReceiveEnd, Leave
  <1>c. GraphTyped' /\ HandlersTyped' /\ ProcessTyped'
    BY <1>b, GraphStep, HandlersSame, ProcessSame
  <1>1. ASSUME NEW r \in Requests[c], Ask(c, r) PROVE ClientsTyped'
    <2>1. /\ asked[c] < MaxRequests[c] /\ asked' = [asked EXCEPT ![c] = asked[c] + 1]
          /\ client' = [client EXCEPT ![c] =
                          IF r.command = "empty" THEN "silent" ELSE "waiting"]
          /\ client[c] = "ready"
          /\ UNCHANGED <<toClient, reset, misread, extra, stray, lost, broken>>
      BY <1>1 DEF Ask
    <2>2. asked'[c] = asked[c] + 1 /\ asked[c] + 1 \in 0 .. MaxRequests[c]
          /\ asked[c] + 1 \in Nat
      BY <2>1, <1>a, RequestsAssumption DEF ClientsTyped
    <2> DEFINE m == [command |-> r.command, ends |-> r.ends, index |-> asked'[c]]
    <2>3. m \in Messages
      <3>1. r \in [command : Commands, ends : SUBSET Ids]
            /\ (r.command = "add_edge" => r.ends \in Pairs)
        BY RequestsAssumption
      <3> QED
        BY <3>1, <2>2 DEF Messages
    <2>4. toServer' \in {toServer, [toServer EXCEPT ![c] = Append(toServer[c], m)]}
      BY <1>1 DEF Ask
    <2> HIDE DEF m
    <2>5. toServer' \in [Clients -> Seq(Messages)]
      <3>1. Append(toServer[c], m) \in Seq(Messages)
        BY <2>3, <1>a DEF ClientsTyped
      <3> QED
        BY <3>1, <2>4, <1>a DEF ClientsTyped
    <2> QED
      BY <2>1, <2>2, <2>5, <1>a DEF ClientsTyped
  <1>2. ASSUME Receive(c) PROVE ClientsTyped'
    <2>1. PICK k \in 1 .. Len(toClient[c]) :
            /\ misread' \subseteq misread \cup {c}
            /\ toClient' = [toClient EXCEPT ![c] = SubSeq(toClient[c], k + 1, Len(toClient[c]))]
      BY <1>2 DEF Receive
    <2>2. toClient[c] \in Seq(Clients \X Nat) /\ Len(toClient[c]) \in Nat
      BY <1>a DEF ClientsTyped
    <2>3. SubSeq(toClient[c], k + 1, Len(toClient[c])) \in Seq(Clients \X Nat)
      BY <2>2
    <2> QED
      BY <1>2, <2>1, <2>3, <1>a DEF Receive, ClientsTyped
  <1>3. ASSUME ReceiveEnd(c) PROVE ClientsTyped'
    BY <1>3, <1>a DEF ReceiveEnd, ClientsTyped
  <1>4. ASSUME Leave(c) PROVE ClientsTyped'
    <2>1. <<>> \in Seq(Clients \X Nat)
      OBVIOUS
    <2> QED
      BY <1>4, <2>1, <1>a DEF Leave, ClientsTyped
  <1> QED
    BY <1>c, <1>1, <1>2, <1>3, <1>4 DEF Client, Typed

LEMMA PipelineTyped ==
  ASSUME Typed, Pipeline
  PROVE  Typed'
  <1> USE DEF processVars, handlerVars, wires, clientVars, history
  <1>a. ClientsTyped /\ ProcessTyped
    BY DEF Typed
  <1>b. UNCHANGED <<graphVars, handlerVars>>
    BY DEF Pipeline, Deliver, Block
  <1>c. GraphTyped' /\ HandlersTyped'
    BY <1>b, HandlersSame DEF Typed, GraphTyped, Covered, graphVars
  <1>1. CASE Deliver
    <2>1. jobs # <<>> /\ jobs' = Tail(jobs)
          /\ UNCHANGED <<client, asked, misread, extra, lost>>
      BY <1>1 DEF Deliver
    <2>2. Head(jobs) \in JobType /\ jobs' \in Seq(JobType)
      BY <2>1, <1>a DEF ProcessTyped
    <2>3. Head(jobs).client \in Clients /\ Head(jobs).index \in Nat
      BY <2>2 DEF JobType
    <2>4. CASE UNCHANGED <<processVars, wires, stray, broken>>
      BY <2>1, <2>2, <2>4, <1>a, <1>c DEF ClientsTyped, ProcessTyped, Typed
    <2>5. ASSUME NEW d \in Targets(Head(jobs)),
                 Send(Head(jobs).client, d, Head(jobs).index, 1),
                 stray' = stray \cup ({d} \ {Head(jobs).client})
          PROVE  Typed'
      <3>1. d \in Clients
        BY <2>3 DEF Targets
      <3>2. toClient[d] \o [k \in 1 .. 1 |-> <<Head(jobs).client, Head(jobs).index>>]
              \in Seq(Clients \X Nat)
        <4>1. [k \in 1 .. 1 |-> <<Head(jobs).client, Head(jobs).index>>] \in Seq(Clients \X Nat)
          BY <2>3
        <4> QED
          BY <4>1, <3>1, <1>a, ConcatProperties DEF ClientsTyped
      <3>3. ClientsTyped'
        BY <2>1, <2>5, <3>1, <3>2, <1>a DEF Send, ClientsTyped
      <3>4. ProcessTyped'
        BY <2>2, <2>5, <1>a DEF Send, ProcessTyped
      <3> QED
        BY <3>3, <3>4, <1>c DEF Typed
    <2> QED
      BY <1>1, <2>4, <2>5 DEF Deliver
  <1>2. CASE Block
    BY <1>2, <1>a, <1>c, ClientsSame DEF Block, ProcessTyped, Typed
  <1> QED
    BY <1>1, <1>2 DEF Pipeline

LEMMA CrashTyped ==
  ASSUME Typed, Crash
  PROVE  Typed'
  <1>1. /\ UNCHANGED <<graphVars, coutStuck, jobs, handlerVars, wires, clientVars,
                      history>>
        /\ status' = "undefined"
    BY DEF Crash, DeliverCrashes, ReadCrashes
  <1>2. GraphTyped'
    BY <1>1 DEF Typed, GraphTyped, graphVars, Covered
  <1> QED
    BY <1>1, <1>2, HandlersSame, ProcessSame, ClientsSame
       DEF handlerVars, wires, clientVars, history, Typed

LEMMA StepTyped == Typed /\ [Next]_vars => Typed'
  <1> SUFFICES ASSUME Typed, [Next]_vars PROVE Typed'
    OBVIOUS
  <1>1. CASE UNCHANGED vars
    <2>1. GraphTyped'
      BY <1>1 DEF vars, Typed, GraphTyped, Covered, graphVars
    <2> QED
      BY <1>1, <2>1, HandlersSame, ProcessSame, ClientsSame
         DEF vars, processVars, handlerVars, wires, clientVars, history, Typed
  <1> QED
    BY <1>1, HandlerTyped, ClientTyped, PipelineTyped, CrashTyped DEF Next

\* No edge outlives its vertices, nobody reads the graph without being in
\* findMST() or copying, only connections of clients that have left are reset
\* and every message, job and piece is of its type, for any clients, requests
\* and graphs (Server.cpp:224-460, Graph.cpp:62-119).
THEOREM TypeCorrect == Spec => []TypeOK
  BY InitTyped, StepTyped, TypedTypeOK, PTL DEF Spec

-----------------------------------------------------------------------------
(* The exchanges.                                                           *)

InHand == {"logging", "start", "listing", "walking"}

\* Where the request of a client that waits is, or its answer.
OnItsWay(c) ==
  \/ /\ at[c] = "reading" /\ toClient[c] = <<>>
     /\ \E m : toServer[c] = <<m>> /\ m.index = asked[c]
  \/ /\ at[c] \in InHand /\ toServer[c] = <<>> /\ toClient[c] = <<>>
     /\ request[c].index = asked[c]
  \/ /\ at[c] = "reading" /\ toServer[c] = <<>>
     /\ toClient[c] = <<<<c, asked[c]>>>>

\* A client that has left has at most one write coming.
LastWrite(c) ==
  \/ at[c] \in {"reading", "closed"} /\ toServer[c] = <<>>
  \/ at[c] = "reading" /\ c \notin reset /\ \E m : toServer[c] = <<m>>
  \/ at[c] \in InHand /\ c \notin reset /\ toServer[c] = <<>>

\* The state of the exchange with a client in step.
Exchange(c) ==
  /\ c \notin misread \cup lost
  /\ client[c] \in {"ready", "waiting", "silent", "gone"}
  /\ client[c] # "gone" => c \notin reset
  /\ client[c] \in {"ready", "silent"} =>
       /\ toClient[c] = <<>>
       /\ status = "up" => at[c] = "reading" /\ toServer[c] = <<>>
  /\ client[c] = "waiting" => OnItsWay(c)
  /\ client[c] = "gone" /\ status = "up" => LastWrite(c)

OutOfStep == extra \cup stray

Exchanges == \A c \in Clients \ OutOfStep : Exchange(c)

\* Who is about to have metrics calculated, or waits for them, has been sent
\* the tree.
MetricsSecond ==
  /\ \A c \in Clients : at[c] \in {"copy", "copying"} => c \in extra
  /\ \A i \in 1 .. Len(jobs) : jobs[i].client \in extra

StrayNeedsLeaver == stray # {} => \E c \in extra : at[c] = "closed"

BrokenAreOutOfStep ==
  /\ broken \subseteq OutOfStep
  /\ status = "brokenPipe" => broken # {}

IInv == Exchanges /\ MetricsSecond /\ StrayNeedsLeaver /\ BrokenAreOutOfStep

-----------------------------------------------------------------------------
LEMMA InitIInv == Init => IInv
  BY DEF Init, IInv, Exchanges, Exchange, MetricsSecond, StrayNeedsLeaver,
     BrokenAreOutOfStep

Domains ==
  /\ DOMAIN at = Clients /\ DOMAIN request = Clients
  /\ DOMAIN toServer = Clients /\ DOMAIN toClient = Clients
  /\ DOMAIN client = Clients /\ DOMAIN asked = Clients

LEMMA TypedDomains == Typed => Domains
  BY DEF Typed, HandlersTyped, ClientsTyped, Domains

-----------------------------------------------------------------------------
(* Sequences of one element.                                                *)

LEMMA AppendFirst == ASSUME NEW x PROVE Append(<<>>, x) = <<x>>
  OBVIOUS

LEMMA OnlyElement ==
  ASSUME NEW x, NEW k \in 1 .. Len(<<x>>)
  PROVE  k = 1 /\ SubSeq(<<x>>, 1, k) = <<x>> /\ SubSeq(<<x>>, k + 1, Len(<<x>>)) = <<>>
  <1>1. Len(<<x>>) = 1 /\ k = 1
    OBVIOUS
  <1>2. SubSeq(<<x>>, 1, 1) = <<x>>
    <2>1. <<x>> \in Seq({x}) /\ 1 \in 1 .. Len(<<x>>)
      OBVIOUS
    <2> QED
      BY <2>1, SubSeqFull
  <1>3. SubSeq(<<x>>, 2, 1) = <<>>
    OBVIOUS
  <1> QED
    BY <1>1, <1>2, <1>3

LEMMA FirstPiece ==
  ASSUME NEW x, NEW n, n = 1
  PROVE  <<>> \o [k \in 1 .. n |-> x] = <<x>>
  <1>1. [k \in 1 .. n |-> x] = <<x>>
    OBVIOUS
  <1>2. <<>> \o <<x>> = <<x>>
    OBVIOUS
  <1> QED
    BY <1>1, <1>2

-----------------------------------------------------------------------------
(* A step leaves alone the exchanges it is not about.                       *)

LEMMA Untouched ==
  ASSUME NEW e \in Clients, Exchange(e),
         client'[e] = client[e], at'[e] = at[e], request'[e] = request[e],
         asked'[e] = asked[e], toServer'[e] = toServer[e],
         toClient'[e] = toClient[e],
         e \in reset' <=> e \in reset,
         e \notin misread' \cup lost',
         status' = "up" => status = "up"
  PROVE  Exchange(e)'
  BY DEF Exchange, OnItsWay, LastWrite

\* The one answer to a request in hand.
LEMMA AnsweredInHand ==
  ASSUME Domains, NEW c \in Clients, Exchange(c), status = "up",
         at[c] \in InHand, at' = [at EXCEPT ![c] = "reading"],
         NEW n, n = 1, Answer(c, n, FALSE),
         UNCHANGED <<client, asked, misread, lost>>
  PROVE  Exchange(c)' /\ status' = "up" /\ broken' = broken
  <1> USE DEF Exchange, Answer, Send, Domains, InHand
  <1>1. client[c] \in {"waiting", "gone"}
    BY DEF Exchange
  <1>2. CASE client[c] = "waiting"
    <2>1. /\ toServer[c] = <<>> /\ toClient[c] = <<>>
          /\ request[c].index = asked[c]
      BY <1>2 DEF OnItsWay
    <2>2. toClient'[c] = <<>> \o [k \in 1 .. n |-> <<c, asked[c]>>]
      BY <1>2, <2>1
    <2>3. toClient'[c] = <<<<c, asked[c]>>>>
      BY <2>2, FirstPiece
    <2> QED
      BY <1>2, <2>1, <2>3 DEF OnItsWay
  <1>3. CASE client[c] = "gone"
    BY <1>3 DEF LastWrite
  <1> QED
    BY <1>1, <1>2, <1>3

\* What an answer leaves of the other exchanges, and of the process.
LEMMA AnswerElsewhere ==
  ASSUME Domains, NEW c \in Clients, NEW n, NEW more \in BOOLEAN, Answer(c, n, more)
  PROVE  /\ \A e \in Clients \ {c} :
              /\ request'[e] = request[e]
              /\ toClient'[e] = toClient[e]
              /\ e \in reset' <=> e \in reset
         /\ toServer' = toServer
         /\ \/ status' = status /\ broken' = broken
            \/ status' = "brokenPipe" /\ broken' = broken \cup {c}
         /\ extra \subseteq extra'
         /\ n > 1 \/ more => c \in extra'
  BY DEF Answer, Send, Domains

\* The steps of a handler that answer the request it has in hand.
LEMMA AnswerStep ==
  ASSUME Domains, Exchanges, BrokenAreOutOfStep,
         NEW c \in Clients, status = "up", at[c] \in InHand,
         NEW to, at' = [at EXCEPT ![c] = to],
         NEW n, n > 1 \/ n = 1, NEW more \in BOOLEAN, to = "reading" \/ more,
         Answer(c, n, more), UNCHANGED <<client, asked, misread, stray, lost>>
  PROVE  Exchanges' /\ BrokenAreOutOfStep'
  <1> USE DEF Domains, Exchanges, OutOfStep
  <1>a. OutOfStep \subseteq OutOfStep'
    BY AnswerElsewhere
  <1>1. ASSUME NEW e \in Clients \ OutOfStep', e # c PROVE Exchange(e)'
    <2>1. e \in Clients \ OutOfStep /\ e \notin misread' \cup lost'
      BY <1>1, <1>a DEF Exchange
    <2>2. /\ client'[e] = client[e] /\ at'[e] = at[e] /\ asked'[e] = asked[e]
          /\ request'[e] = request[e] /\ toServer'[e] = toServer[e]
          /\ toClient'[e] = toClient[e]
          /\ e \in reset' <=> e \in reset
      BY <1>1, AnswerElsewhere
    <2> QED
      BY <2>1, <2>2, Untouched
  <1>2. CASE c \in OutOfStep'
    <2>1. BrokenAreOutOfStep'
      BY <1>2, <1>a, AnswerElsewhere DEF BrokenAreOutOfStep
    <2> QED
      BY <1>1, <1>2, <2>1
  <1>3. CASE c \notin OutOfStep'
    <2>1. n = 1 /\ more = FALSE /\ to = "reading" /\ c \notin OutOfStep
      BY <1>3, <1>a, AnswerElsewhere
    <2>2. Exchange(c)' /\ status' = "up" /\ broken' = broken
      BY <2>1, AnsweredInHand
    <2> QED
      BY <1>1, <1>a, <2>2 DEF BrokenAreOutOfStep
  <1> QED
    BY <1>2, <1>3

\* The steps of a handler that take its request on.
LEMMA WorkStep ==
  ASSUME Domains, Exchanges, BrokenAreOutOfStep,
         NEW c \in Clients, at[c] \in InHand, status = "up",
         NEW to \in InHand, at' = [at EXCEPT ![c] = to],
         status' # "brokenPipe",
         UNCHANGED <<request, toServer, toClient, reset, client, asked, history>>
  PROVE  Exchanges' /\ BrokenAreOutOfStep'
  <1> USE DEF Domains, Exchanges, OutOfStep, history
  <1>1. ASSUME NEW e \in Clients \ OutOfStep', e # c PROVE Exchange(e)'
    BY <1>1, Untouched DEF Exchange
  <1>2. c \notin OutOfStep' => Exchange(c)'
    BY DEF Exchange, OnItsWay, LastWrite, InHand
  <1> QED
    BY <1>1, <1>2 DEF BrokenAreOutOfStep

-----------------------------------------------------------------------------
LEMMA HandlerKeeps ==
  ASSUME Typed, IInv, NEW c \in Clients, Handler(c)
  PROVE  Exchanges' /\ BrokenAreOutOfStep'
  <1> USE DEF HandlerGoes, InHand, processVars, handlerVars, wires, clientVars,
     history, Exchanges, OutOfStep, Domains
  <1>a. Domains /\ Exchanges /\ BrokenAreOutOfStep /\ MetricsSecond
    BY TypedDomains DEF IInv
  <1> USE <1>a
  <1>1. CASE HandlerRead(c)
    <2> USE <1>1 DEF HandlerRead
    <2>1. ASSUME NEW e \in Clients \ OutOfStep', e # c PROVE Exchange(e)'
      BY <2>1, Untouched DEF Exchange
    <2>2. ASSUME c \notin OutOfStep' PROVE Exchange(c)'
      <3>1. Exchange(c)
        BY <2>2
      <3>2. PICK k \in 1 .. Len(toServer[c]) :
              /\ request' = [request EXCEPT ![c] = Message(SubSeq(toServer[c], 1, k))]
              /\ toServer' = [toServer EXCEPT ![c] = SubSeq(@, k + 1, Len(@))]
              /\ lost' = IF k > 1 THEN lost \cup {c} ELSE lost
        OBVIOUS
      <3>3. PICK m : toServer[c] = <<m>>
        BY <3>1, <3>2 DEF Exchange, OnItsWay, LastWrite
      <3>4. k = 1 /\ SubSeq(toServer[c], 1, k) = <<m>>
            /\ SubSeq(toServer[c], k + 1, Len(toServer[c])) = <<>>
        BY <3>2, <3>3, OnlyElement
      <3>5. /\ toServer'[c] = <<>> /\ lost' = lost /\ at'[c] \in {"start", "logging"}
            /\ request'[c] = m
        <4>1. Message(<<m>>) = m
          BY DEF Message
        <4>2. request'[c] = Message(<<m>>)
          BY <3>2, <3>4
        <4>3. toServer'[c] = <<>>
          BY <3>2, <3>4
        <4>4. lost' = lost /\ at'[c] \in {"start", "logging"}
          BY <3>2, <3>4
        <4> QED
          BY <4>1, <4>2, <4>3, <4>4
      <3>6. client[c] = "waiting" => m.index = asked[c] /\ toClient[c] = <<>>
        BY <3>1, <3>3 DEF Exchange, OnItsWay
      <3>7. client[c] \notin {"ready", "silent"}
        BY <3>1, <3>3 DEF Exchange
      <3>8. client[c] = "gone" => c \notin reset
        BY <3>1, <3>3 DEF Exchange, LastWrite
      <3> QED
        BY <3>1, <3>5, <3>6, <3>7, <3>8 DEF Exchange, OnItsWay, LastWrite
    <2> QED
      BY <2>1, <2>2 DEF BrokenAreOutOfStep
  <1>2. CASE HandlerEof(c)
    <2> USE <1>2 DEF HandlerEof
    <2>1. ASSUME NEW e \in Clients \ OutOfStep', e # c PROVE Exchange(e)'
      BY <2>1, Untouched DEF Exchange
    <2>2. c \notin OutOfStep' => Exchange(c)'
      BY DEF Exchange, LastWrite
    <2> QED
      BY <2>1, <2>2 DEF BrokenAreOutOfStep
  <1>3. CASE HandlerRefuse(c)
    BY <1>3, AnswerStep DEF HandlerRefuse
  <1>4. CASE AddVertex(c) \/ AddEdge(c) \/ AddEdgeThrows(c) \/ TakeOut(c)
    BY <1>4, WorkStep DEF AddVertex, AddEdge, AddEdgeThrows, TakeOut
  <1>5. CASE HandlerList(c)
    <2>1. PICK n \in Lengths(c) : Answer(c, n, FALSE)
      BY <1>5 DEF HandlerList
    <2>2. n > 1 \/ n = 1
      BY DEF Lengths
    <2> QED
      BY <1>5, <2>1, <2>2, AnswerStep DEF HandlerList
  <1>6. CASE BeginWalk(c)
    BY <1>6, WorkStep DEF BeginWalk
  <1>7. CASE EndWalk(c)
    <2>1. PICK n \in Lengths(c) : Answer(c, n, request[c].command = "metrics_mst")
      BY <1>7 DEF EndWalk
    <2>2. n > 1 \/ n = 1
      BY DEF Lengths
    <2> QED
      BY <1>7, <2>1, <2>2, AnswerStep DEF EndWalk
  <1>8. CASE BeginCopy(c) \/ EndCopy(c)
    <2> USE <1>8 DEF BeginCopy, EndCopy
    <2>1. ASSUME NEW e \in Clients \ OutOfStep', e # c PROVE Exchange(e)'
      BY <2>1, Untouched DEF Exchange
    <2>2. c \in extra
      BY DEF MetricsSecond
    <2> QED
      BY <2>1, <2>2 DEF BrokenAreOutOfStep
  <1> QED
    BY <1>1, <1>2, <1>3, <1>4, <1>5, <1>6, <1>7, <1>8 DEF Handler

LEMMA ClientKeeps ==
  ASSUME Typed, IInv, NEW c \in Clients, Client(c)
  PROVE  Exchanges' /\ BrokenAreOutOfStep'
  <1> USE DEF Domains, processVars, handlerVars, wires, clientVars, history,
     Exchanges, OutOfStep
  <1>a. Domains /\ Exchanges /\ BrokenAreOutOfStep
    BY TypedDomains DEF IInv
  <1> USE <1>a
  <1>1. ASSUME NEW r \in Requests[c], Ask(c, r)
        PROVE  Exchanges' /\ BrokenAreOutOfStep'
    <2> USE <1>1 DEF Ask
    <2>1. ASSUME NEW e \in Clients \ OutOfStep', e # c PROVE Exchange(e)'
      BY <2>1, Untouched DEF Exchange
    <2>2. ASSUME c \notin OutOfStep' PROVE Exchange(c)'
      <3>1. Exchange(c) /\ toServer[c] = <<>> /\ toClient[c] = <<>> /\ at[c] = "reading"
        BY <2>2 DEF Exchange
      <3>2. CASE r.command = "empty"
        BY <3>1, <3>2 DEF Exchange
      <3>3. CASE r.command # "empty"
        <4> DEFINE m == [command |-> r.command, ends |-> r.ends, index |-> asked'[c]]
        <4>1. toServer'[c] = <<m>> /\ m.index = asked'[c]
          BY <3>1, <3>3, AppendFirst
        <4> QED
          BY <3>1, <3>3, <4>1 DEF Exchange, OnItsWay
      <3> QED
        BY <3>2, <3>3
    <2> QED
      BY <2>1, <2>2 DEF BrokenAreOutOfStep
  <1>2. CASE Receive(c)
    <2> USE <1>2 DEF Receive
    <2>1. ASSUME NEW e \in Clients \ OutOfStep', e # c PROVE Exchange(e)'
      BY <2>1, Untouched DEF Exchange
    <2>2. ASSUME c \notin OutOfStep' PROVE Exchange(c)'
      <3>1. Exchange(c)
        BY <2>2
      <3>2. PICK k \in 1 .. Len(toClient[c]) :
              /\ misread' = IF \A i \in 1 .. k : toClient[c][i] = <<c, asked[c]>>
                            THEN misread ELSE misread \cup {c}
              /\ toClient' = [toClient EXCEPT ![c] = SubSeq(@, k + 1, Len(@))]
        OBVIOUS
      <3>3. toClient[c] # <<>>
        BY <3>2
      <3>4. /\ client[c] = "waiting" /\ at[c] = "reading" /\ toServer[c] = <<>>
            /\ toClient[c] = <<<<c, asked[c]>>>>
        BY <3>1, <3>3 DEF Exchange, OnItsWay
      <3>5. k = 1 /\ toClient'[c] = <<>>
        BY <3>2, <3>4, OnlyElement
      <3>6. misread' = misread
        BY <3>2, <3>4, <3>5
      <3> QED
        BY <3>1, <3>4, <3>5, <3>6 DEF Exchange
    <2> QED
      BY <2>1, <2>2 DEF BrokenAreOutOfStep
  <1>3. CASE ReceiveEnd(c)
    <2> USE <1>3 DEF ReceiveEnd
    <2>1. ASSUME NEW e \in Clients \ OutOfStep', e # c PROVE Exchange(e)'
      BY <2>1, Untouched DEF Exchange
    <2>2. ASSUME c \notin OutOfStep' PROVE Exchange(c)'
      BY <2>2 DEF Exchange, OnItsWay, LastWrite
    <2> QED
      BY <2>1, <2>2 DEF BrokenAreOutOfStep
  <1>4. CASE Leave(c)
    <2> USE <1>4 DEF Leave
    <2>1. ASSUME NEW e \in Clients \ OutOfStep', e # c PROVE Exchange(e)'
      BY <2>1, Untouched DEF Exchange
    <2>2. ASSUME c \notin OutOfStep' PROVE Exchange(c)'
      <3>1. Exchange(c) /\ status = "up" /\ client[c] # "gone" /\ c \notin reset
        BY <2>2 DEF Exchange
      <3>2. client'[c] = "gone" /\ c \notin misread' \cup lost'
        BY <3>1 DEF Exchange
      <3>3. c \in reset' => toClient[c] # <<>>
        BY <3>1
      <3>4. CASE client[c] \in {"ready", "silent"}
        BY <3>1, <3>2, <3>4 DEF Exchange, LastWrite
      <3>5. CASE client[c] = "waiting"
        BY <3>1, <3>2, <3>3, <3>5 DEF Exchange, OnItsWay, LastWrite
      <3> QED
        BY <3>1, <3>4, <3>5 DEF Exchange
    <2> QED
      BY <2>1, <2>2 DEF BrokenAreOutOfStep
  <1> QED
    BY <1>1, <1>2, <1>3, <1>4 DEF Client

LEMMA PipelineKeeps ==
  ASSUME Typed, IInv, Pipeline \/ Crash
  PROVE  Exchanges' /\ BrokenAreOutOfStep'
  <1> USE DEF Domains, processVars, handlerVars, wires, clientVars, history,
     Exchanges, OutOfStep
  <1>a. Domains /\ Exchanges /\ BrokenAreOutOfStep /\ MetricsSecond
    BY TypedDomains DEF IInv
  <1>1. CASE Deliver
    <2>1. CASE UNCHANGED <<processVars, wires, stray, broken>>
      BY <1>1, <1>a, <2>1, Untouched DEF Deliver, BrokenAreOutOfStep, Exchange
    <2>2. ASSUME NEW d, stray' = stray \cup ({d} \ {Head(jobs).client}),
                 NEW x, NEW i, Send(x, d, i, 1)
          PROVE  Exchanges' /\ BrokenAreOutOfStep'
      <3>1. d \in OutOfStep'
        <4>1. jobs \in Seq(JobType) /\ jobs # <<>>
          BY <1>1 DEF Deliver, Typed, ProcessTyped
        <4>2. Head(jobs) = jobs[1] /\ 1 \in 1 .. Len(jobs)
          BY <4>1
        <4>3. Head(jobs).client \in extra
          BY <4>2, <1>a DEF MetricsSecond
        <4> QED
          BY <4>3, <2>2, <1>1 DEF Deliver
      <3>2. OutOfStep \subseteq OutOfStep'
        BY <2>2, <1>1 DEF Deliver
      <3>3. ASSUME NEW e \in Clients \ OutOfStep' PROVE Exchange(e)'
        <4>1. e # d /\ e \notin OutOfStep
          BY <3>1, <3>2
        <4>2. /\ toClient'[e] = toClient[e] /\ toServer' = toServer
              /\ e \in reset' <=> e \in reset
              /\ status' \in {status, "brokenPipe"}
          BY <2>2, <4>1, <1>a DEF Send
        <4> QED
          BY <1>1, <1>a, <4>1, <4>2, Untouched DEF Deliver, Exchange
      <3>4. BrokenAreOutOfStep'
        BY <2>2, <3>1, <3>2, <1>a DEF Send, BrokenAreOutOfStep
      <3> QED
        BY <3>3, <3>4
    <2> QED
      BY <1>1, <2>1, <2>2 DEF Deliver
  <1>2. CASE Block \/ Crash
    BY <1>2, <1>a, Untouched
       DEF Block, Crash, DeliverCrashes, ReadCrashes, BrokenAreOutOfStep, Exchange
  <1> QED
    BY <1>1, <1>2 DEF Pipeline

-----------------------------------------------------------------------------
\* Nobody gets back into step, and a handler that has ended does not return.
LEMMA HistoryGrows ==
  ASSUME Typed, [Next]_vars
  PROVE  /\ extra \subseteq extra'
         /\ \A c \in Clients : at[c] = "closed" => at'[c] = "closed"
  <1> USE DEF handlerVars, history, HandlerGoes, Answer
  <1>a. DOMAIN at = Clients
    BY TypedDomains DEF Domains
  <1>1. ASSUME NEW c \in Clients, Handler(c)
        PROVE  extra \subseteq extra' /\ at[c] # "closed"
               /\ \E to : at' = [at EXCEPT ![c] = to]
    BY <1>1 DEF Handler, HandlerRead, HandlerEof, HandlerRefuse, AddVertex,
       AddEdge, AddEdgeThrows, TakeOut, HandlerList, BeginWalk, EndWalk,
       BeginCopy, EndCopy
  <1>2. ASSUME NEW c \in Clients, Client(c) PROVE extra' = extra /\ at' = at
    BY <1>2 DEF Client, Ask, Receive, ReceiveEnd, Leave
  <1>3. ASSUME Pipeline \/ Crash PROVE extra' = extra /\ at' = at
    BY <1>3 DEF Pipeline, Crash, Deliver, Block, DeliverCrashes, ReadCrashes
  <1>4. ASSUME UNCHANGED vars PROVE extra' = extra /\ at' = at
    BY <1>4 DEF vars
  <1> QED
    BY <1>a, <1>1, <1>2, <1>3, <1>4 DEF Next

LEMMA NextMetricsSecond ==
  ASSUME Typed, MetricsSecond, [Next]_vars
  PROVE  MetricsSecond'
  <1> USE DEF handlerVars, history, HandlerGoes
  <1>a. DOMAIN at = Clients /\ jobs \in Seq(JobType) /\ Len(jobs) \in Nat
    BY TypedDomains DEF Domains, Typed, ProcessTyped
  <1>b. extra \subseteq extra'
    BY HistoryGrows
  <1>1. ASSUME NEW c \in Clients, Handler(c) PROVE MetricsSecond'
    <2>1. CASE EndCopy(c)
      <3>1. at[c] = "copying" /\ at' = [at EXCEPT ![c] = "reading"] /\ c \in extra
        BY <2>1 DEF EndCopy, MetricsSecond
      <3>2. PICK job : job.client = c /\ jobs' = Append(jobs, job)
        BY <2>1 DEF EndCopy
      <3>3. \A i \in 1 .. Len(jobs') : jobs'[i] = job \/ (i \in 1 .. Len(jobs) /\ jobs'[i] = jobs[i])
        BY <3>2, <1>a
      <3> QED
        BY <3>1, <3>2, <3>3, <1>a, <1>b DEF MetricsSecond
    <2>2. CASE EndWalk(c)
      <3>1. /\ jobs' = jobs
            /\ at' = [at EXCEPT ![c] = IF request[c].command = "metrics_mst"
                                       THEN "copy" ELSE "reading"]
            /\ request[c].command = "metrics_mst" => c \in extra'
        BY <2>2 DEF EndWalk, Answer
      <3> QED
        BY <3>1, <1>a, <1>b DEF MetricsSecond
    <2>3. ASSUME jobs' = jobs, NEW to, at' = [at EXCEPT ![c] = to],
                 to = "copying" => at[c] = "copy", to # "copy"
          PROVE  MetricsSecond'
      <3>1. \A d \in Clients : at'[d] \in {"copy", "copying"} => d \in extra
        BY <2>3, <1>a DEF MetricsSecond
      <3> QED
        BY <3>1, <2>3, <1>b DEF MetricsSecond
    <2>4. CASE BeginCopy(c)
      BY <2>3, <2>4 DEF BeginCopy
    <2>5. CASE HandlerRead(c) \/ HandlerEof(c) \/ HandlerRefuse(c) \/ AddVertex(c)
               \/ AddEdge(c) \/ AddEdgeThrows(c) \/ TakeOut(c) \/ HandlerList(c)
               \/ BeginWalk(c)
      <3>1. jobs' = jobs /\ \E to : /\ at' = [at EXCEPT ![c] = to]
                                   /\ to \notin {"copy", "copying"}
        BY <2>5 DEF HandlerRead, HandlerEof, HandlerRefuse, AddVertex, AddEdge,
           AddEdgeThrows, TakeOut, HandlerList, BeginWalk
      <3> QED
        BY <2>3, <3>1
    <2> QED
      BY <1>1, <2>1, <2>2, <2>4, <2>5 DEF Handler
  <1>2. ASSUME jobs' = jobs \/ (jobs # <<>> /\ jobs' = Tail(jobs)), at' = at
        PROVE  MetricsSecond'
    <2>1. \A i \in 1 .. Len(jobs') : \E k \in 1 .. Len(jobs) : jobs'[i] = jobs[k]
      <3>1. CASE jobs' = jobs
        BY <3>1
      <3>2. CASE jobs # <<>> /\ jobs' = Tail(jobs)
        <4>1. \A i \in 1 .. Len(Tail(jobs)) :
                i + 1 \in 1 .. Len(jobs) /\ Tail(jobs)[i] = jobs[i + 1]
          BY <3>2, <1>a
        <4> QED
          BY <3>2, <4>1
      <3> QED
        BY <1>2, <3>1, <3>2
    <2> QED
      BY <1>2, <2>1, <1>b DEF MetricsSecond
  <1>3. ASSUME NEW c \in Clients, Client(c) PROVE jobs' = jobs /\ at' = at
    BY <1>3 DEF Client, Ask, Receive, ReceiveEnd, Leave
  <1>4. ASSUME Pipeline \/ Crash
        PROVE  (jobs' = jobs \/ (jobs # <<>> /\ jobs' = Tail(jobs))) /\ at' = at
    BY <1>4 DEF Pipeline, Crash, Deliver, Block, DeliverCrashes, ReadCrashes
  <1>5. ASSUME UNCHANGED vars PROVE jobs' = jobs /\ at' = at
    BY <1>5 DEF vars
  <1> QED
    BY <1>1, <1>2, <1>3, <1>4, <1>5 DEF Next

LEMMA NextStrayNeedsLeaver ==
  ASSUME Typed, MetricsSecond, StrayNeedsLeaver, [Next]_vars
  PROVE  StrayNeedsLeaver'
  <1>a. extra \cup stray \subseteq Clients
    BY DEF Typed, ClientsTyped
  <1>1. CASE stray' = stray
    BY <1>1, <1>a, HistoryGrows DEF StrayNeedsLeaver
  <1>2. ASSUME Deliver, stray' # stray PROVE StrayNeedsLeaver'
    <2>1. jobs \in Seq(JobType) /\ jobs # <<>>
      BY <1>2 DEF Deliver, Typed, ProcessTyped
    <2>2. Head(jobs) = jobs[1] /\ 1 \in 1 .. Len(jobs)
      BY <2>1
    <2>3. Head(jobs).client \in extra
      BY <2>2 DEF MetricsSecond
    <2>4. at[Head(jobs).client] = "closed"
      BY <1>2 DEF Deliver, Targets
    <2> QED
      BY <2>3, <2>4, <1>a, HistoryGrows DEF StrayNeedsLeaver
  <1>3. Deliver \/ stray' = stray
    <2> USE DEF history
    <2>1. ASSUME NEW c \in Clients, Handler(c) PROVE stray' = stray
      BY <2>1 DEF Handler, HandlerRead, HandlerEof, HandlerRefuse, AddVertex,
         AddEdge, AddEdgeThrows, TakeOut, HandlerList, BeginWalk, EndWalk,
         BeginCopy, EndCopy
    <2>2. ASSUME NEW c \in Clients, Client(c) PROVE stray' = stray
      BY <2>2 DEF Client, Ask, Receive, ReceiveEnd, Leave
    <2>3. ASSUME Pipeline \/ Crash PROVE Deliver \/ stray' = stray
      BY <2>3 DEF Pipeline, Crash, Block, DeliverCrashes, ReadCrashes
    <2>4. ASSUME UNCHANGED vars PROVE stray' = stray
      BY <2>4 DEF vars
    <2> QED
      BY <2>1, <2>2, <2>3, <2>4 DEF Next
  <1> QED
    BY <1>1, <1>2, <1>3

-----------------------------------------------------------------------------
(* The theorems.                                                            *)

LEMMA InductiveIInv == Typed /\ IInv /\ [Next]_vars => IInv'
  <1> SUFFICES ASSUME Typed, IInv, [Next]_vars PROVE IInv'
    OBVIOUS
  <1>1. Exchanges' /\ BrokenAreOutOfStep'
    <2>1. CASE UNCHANGED vars
      BY <2>1, Untouched DEF vars, processVars, handlerVars, wires, clientVars,
         history, IInv, Exchanges, OutOfStep, Exchange, BrokenAreOutOfStep
    <2> QED
      BY <2>1, HandlerKeeps, ClientKeeps, PipelineKeeps DEF Next
  <1>2. MetricsSecond' /\ StrayNeedsLeaver'
    BY NextMetricsSecond, NextStrayNeedsLeaver DEF IInv
  <1> QED
    BY <1>1, <1>2 DEF IInv

LEMMA Invariance == Spec => [](Typed /\ IInv)
  BY InitTyped, StepTyped, InitIInv, InductiveIInv, PTL DEF Spec

\* A client that loses a request, or takes something else for the answer to
\* it, has had an answer in two pieces or been sent the metrics of a client
\* that asked for them and left; all others stay in step, whatever else
\* breaks (Client.cpp:54-69, Server.cpp:224-460).
THEOREM PairedAnswers == Spec => []InStep
  <1>1. Typed /\ IInv => InStep
    BY DEF Typed, ClientsTyped, IInv, Exchanges, OutOfStep, StrayNeedsLeaver,
       InStep, Exchange
  <1> QED
    BY <1>1, Invariance, PTL

\* SIGPIPE ends the server only at a write to a client that has had an answer
\* in two pieces or been sent the metrics of another one (Server.cpp:260).
THEOREM SigpipeNeedsExtraAnswer == Spec => []BrokenPipeOutOfStep
  <1>1. IInv => BrokenPipeOutOfStep
    BY DEF IInv, BrokenAreOutOfStep, OutOfStep, BrokenPipeOutOfStep
  <1> QED
    BY <1>1, Invariance, PTL
=============================================================================
