------------------------------ MODULE Manager ------------------------------
(***************************************************************************)
(* The service's pipeline manager (juturna/components/_pipeline_manager.py)*)
(* and the life of one pipeline (_pipeline.py), from its creation to its   *)
(* deletion. Requests run in the threads of the HTTP server's pool, with   *)
(* no lock between them: the manager tests the status, looks the pipeline  *)
(* up again and calls it, and the pipeline makes a test of its own.        *)
(*                                                                         *)
(* Each node is started or stopped in one step. That its threads are gone  *)
(* once join() has returned, when joins wait, and that start() gives a     *)
(* stopped node threads that do nothing, is QuietAfterStop and             *)
(* RestartIsInert of Pipeline.                                             *)
(***************************************************************************)
EXTENDS Integers, Sequences, SequencesExt

CONSTANTS
  Clients,     \* threads that serve requests
  Order,       \* the nodes of the configuration, listed by layer
  Roots,       \* the nodes no link leads to, in their order
  MayFail,     \* what may raise: a node's "build", "warm" (warmup), "start"
  Disciplines, \* sets of operations no client lets overlap with another
  MaxRequests  \* bound: requests made after the first

Nodes == Range(Order)
Ops == {"warmup", "start", "stop", "delete"}

ASSUME ManagerAssumption ==
  /\ Order \in Seq(Nodes) /\ IsInjective(Order) /\ Order # <<>>
  /\ Roots \in Seq(Nodes) /\ Roots # <<>>
  /\ MayFail \subseteq {"build", "warm", "start"}
  /\ \A d \in Disciplines : "warmup" \in d /\ d \subseteq Ops
  /\ MaxRequests \in Nat

VARIABLES
  registered,  \* is the pipeline in _pipelines?
  pstatus,     \* its _status, "none" before it is created
  node,        \* its _nodes: "none" when absent, "built", "ready", and
               \* "gone" once replaced by None
  cleared,     \* is _nodes itself None?
  threads,     \* of each node last built: "new", "live", "stopped"
  links,       \* times the links of the configuration were all added
  exclusive,   \* the discipline the clients keep to
  requests,    \* requests made so far
  plan,        \* the manager's operations each client has yet to do
  pc,          \* where in the first of them it is
  todo         \* nodes its running loop has yet to visit

vars == <<registered, pstatus, node, cleared, threads, links, exclusive,
          requests, plan, pc, todo>>
pipeline == <<registered, pstatus, node, cleared, threads, links>>

Op(c) == Head(plan[c])
Idle(c) == plan[c] = <<>>
At(c, label) == ~Idle(c) /\ pc[c] = label
Configured == ~cleared /\ \E n \in Nodes : node[n] # "none"
Present(n) == ~cleared /\ node[n] \notin {"none", "gone"}

\* The nodes _dag.BFS() places: added twice, a link is taken off the degree
\* of its end only once (LayersRight of Dag asks for distinct links).
Placed == IF links <= 1 THEN Order ELSE Roots

Init ==
  /\ registered = FALSE
  /\ pstatus = "none"
  /\ node = [n \in Nodes |-> "none"]
  /\ cleared = FALSE
  /\ threads = [n \in Nodes |-> "new"]
  /\ links = 0
  /\ exclusive \in Disciplines
  /\ requests = 0
  /\ plan = [c \in Clients |-> <<>>]
  /\ pc = [c \in Clients |-> "check"]
  /\ todo = [c \in Clients |-> <<>>]

-----------------------------------------------------------------------------
(***************************************************************************)
(* Control of a request: to another step, over a loop, to the next         *)
(* operation of a deploy, or out by an exception.                          *)
(***************************************************************************)
Go(c, label, loop) ==
  /\ pc' = [pc EXCEPT ![c] = label]
  /\ todo' = [todo EXCEPT ![c] = loop]
  /\ UNCHANGED <<plan, exclusive, requests>>

Leave(c, rest) ==
  /\ plan' = [plan EXCEPT ![c] = rest]
  /\ pc' = [pc EXCEPT ![c] = "check"]
  /\ todo' = [todo EXCEPT ![c] = <<>>]
  /\ UNCHANGED <<exclusive, requests>>

Return(c) == Leave(c, Tail(plan[c]))
Raise(c) == Leave(c, <<>>) /\ UNCHANGED pipeline

\* Mutant: the loop ends one node late.
PastLastOf(c) == todo[c] = <<>>

LastOf(c) == Len(todo[c]) = 1
Advance(c) == Go(c, pc[c], Tail(todo[c]))

\* create_pipeline, for itself or in deploy_pipeline.
Create(c) ==
  /\ Idle(c)
  /\ pstatus = "none"
  /\ registered' = TRUE
  /\ pstatus' = "NEW"
  /\ \E rest \in {<<>>, <<"warmup", "start">>} : Leave(c, rest)
  /\ UNCHANGED <<node, cleared, threads, links>>

Begin(c, op) ==
  /\ Idle(c)
  /\ pstatus # "none" /\ requests < MaxRequests
  /\ \A d \in Clients : ~Idle(d) =>
       ({op} \cup Range(plan[d])) \cap exclusive = {}
  /\ requests' = requests + 1
  /\ plan' = [plan EXCEPT ![c] = <<op>>]
  /\ UNCHANGED <<pipeline, exclusive, pc, todo>>

-----------------------------------------------------------------------------
\* The manager's test of the status, by operation.
Admits(op) ==
  \/ op = "warmup" /\ pstatus # "READY"
  \/ op = "start" /\ pstatus \notin {"NEW", "RUNNING"}
  \/ op = "stop" /\ pstatus = "RUNNING"
  \/ op = "delete"

Check(c) ==
  /\ At(c, "check")
  /\ IF registered /\ Admits(Op(c))
     THEN Go(c, "call", <<>>) /\ UNCHANGED pipeline
     ELSE Raise(c)

\* Mutant: warmup() relies on the manager's test.
CanWarmAlways == TRUE

CanWarm == pstatus = "NEW"

CallWarmup(c) ==
  /\ At(c, "call") /\ Op(c) = "warmup"
  /\ IF registered /\ CanWarm
     THEN Go(c, "build", Order) /\ UNCHANGED pipeline
     ELSE Raise(c)

CanStart == pstatus = "READY" /\ Configured

CallStart(c) ==
  /\ At(c, "call") /\ Op(c) = "start"
  /\ IF registered /\ CanStart
     THEN Go(c, "start", Reverse(Placed)) /\ UNCHANGED pipeline
     ELSE Raise(c)

\* stop(), called by the manager or by destroy().
CallStop(c) ==
  /\ \/ At(c, "call") /\ Op(c) = "stop" /\ registered
     \/ At(c, "stopping")
  /\ pstatus = "RUNNING" /\ Configured
  /\ Go(c, "stop", Placed)
  /\ UNCHANGED pipeline

CallStopRaise(c) ==
  /\ \/ At(c, "call") /\ Op(c) = "stop"
     \/ At(c, "stopping")
  /\ \/ ~registered /\ pc[c] = "call"
     \/ pstatus # "RUNNING"
     \/ ~Configured
  /\ Raise(c)

\* Mutant: destroy() stops nothing.
StopsFirstNever == FALSE

StopsFirst == pstatus = "RUNNING"

CallDelete(c) ==
  /\ At(c, "call") /\ Op(c) = "delete"
  /\ IF registered
     THEN /\ Go(c, IF StopsFirst THEN "stopping" ELSE "destroying", <<>>)
          /\ UNCHANGED pipeline
     ELSE Raise(c)

-----------------------------------------------------------------------------
\* A node, of whatever kind, raises in the step named.
Fail(c, step) ==
  /\ At(c, step)
  /\ step \in MayFail
  /\ Raise(c)

\* build_component, whose node replaces that of an earlier attempt; the last
\* is followed by the links.
Build(c) ==
  LET n == Head(todo[c]) IN
  /\ At(c, "build")
  /\ node' = [node EXCEPT ![n] = "built"]
  /\ threads' = [threads EXCEPT ![n] = "new"]
  /\ IF LastOf(c)
     THEN links' = links + 1 /\ Go(c, "warm", Order)
     ELSE Advance(c) /\ UNCHANGED links
  /\ UNCHANGED <<registered, pstatus, cleared>>

Warm(c) ==
  /\ At(c, "warm")
  /\ node' = [node EXCEPT ![Head(todo[c])] = "ready"]
  /\ IF LastOf(c)
     THEN pstatus' = "READY" /\ Return(c)
     ELSE Advance(c) /\ UNCHANGED pstatus
  /\ UNCHANGED <<registered, cleared, threads, links>>

\* Mutant: restarting clears the stop events.
Revived(n) == "live"

\* What start() makes of a node: a stopped one stays so.
Started(n) == IF threads[n] = "new" THEN "live" ELSE threads[n]

\* Mutant: the status is set before the loop.
RunningFromTheFirst(c) == "RUNNING"

StatusStarting(c) == IF LastOf(c) THEN "RUNNING" ELSE pstatus

StartNode(c) ==
  LET n == Head(todo[c]) IN
  /\ At(c, "start")
  /\ Present(n)
  /\ threads' = [threads EXCEPT ![n] = Started(n)]
  /\ pstatus' = StatusStarting(c)
  /\ IF LastOf(c) THEN Return(c) ELSE Advance(c)
  /\ UNCHANGED <<registered, node, cleared, links>>

StopNode(c) ==
  LET n == Head(todo[c]) IN
  /\ At(c, "stop")
  /\ Present(n)
  /\ threads' = [threads EXCEPT ![n] = "stopped"]
  /\ IF LastOf(c)
     THEN /\ pstatus' = "READY"
          /\ IF Op(c) = "delete" THEN Go(c, "destroying", <<>>) ELSE Return(c)
     ELSE Advance(c) /\ UNCHANGED pstatus
  /\ UNCHANGED <<registered, node, cleared, links>>

\* The loops of start(), stop() and destroy() over nodes another deletes.
NodeMissing(c) ==
  /\ \E step \in {"start", "stop", "clear"} : At(c, step)
  /\ ~Present(Head(todo[c]))
  /\ Raise(c)

\* How far along Order _nodes has been filled.
Built == Max({k \in 1..Len(Order) : node[Order[k]] # "none"})

\* destroy(), after its stop(): it has nothing to do without nodes.
Destroy(c) ==
  /\ At(c, "destroying")
  /\ IF Configured
     THEN Go(c, "clear", [i \in 1..Built |-> Order[Built + 1 - i]])
     ELSE Go(c, "remove", <<>>)
  /\ UNCHANGED pipeline

Clear(c) ==
  LET n == Head(todo[c]) IN
  /\ At(c, "clear")
  /\ Present(n)
  /\ node' = [node EXCEPT ![n] = "gone"]
  /\ IF LastOf(c)
     THEN cleared' = TRUE /\ pstatus' = "DESTROYED" /\ Go(c, "remove", <<>>)
     ELSE Advance(c) /\ UNCHANGED <<cleared, pstatus>>
  /\ UNCHANGED <<registered, threads, links>>

Unregister(c) ==
  /\ At(c, "remove")
  /\ IF registered
     THEN /\ registered' = FALSE
          /\ Return(c)
          /\ UNCHANGED <<pstatus, node, cleared, threads, links>>
     ELSE Raise(c)

\* A node whose source ends with a stop signal, or that such a signal reaches.
Ends(n) ==
  /\ threads[n] = "live"
  /\ threads' = [threads EXCEPT ![n] = "stopped"]
  /\ UNCHANGED <<registered, pstatus, node, cleared, links, exclusive,
                 requests, plan, pc, todo>>

ClientStep(c) ==
  \/ Create(c)
  \/ \E op \in Ops : Begin(c, op)
  \/ Check(c)
  \/ CallWarmup(c) \/ CallStart(c) \/ CallDelete(c)
  \/ CallStop(c) \/ CallStopRaise(c)
  \/ \E step \in {"build", "warm", "start"} : Fail(c, step)
  \/ Build(c) \/ Warm(c) \/ StartNode(c) \/ StopNode(c)
  \/ NodeMissing(c)
  \/ Destroy(c) \/ Clear(c) \/ Unregister(c)

Next == (\E c \in Clients : ClientStep(c)) \/ (\E n \in Nodes : Ends(n))

Spec == Init /\ [][Next]_vars

-----------------------------------------------------------------------------
Loops == {"build", "warm", "start", "stop", "clear"}
Labels == Loops \cup {"check", "call", "stopping", "destroying", "remove"}

\* Every variable has its type, and a loop has a node left to visit.
TypeOK ==
  /\ registered \in BOOLEAN /\ cleared \in BOOLEAN
  /\ pstatus \in {"none", "NEW", "READY", "RUNNING", "DESTROYED"}
  /\ node \in [Nodes -> {"none", "built", "ready", "gone"}]
  /\ threads \in [Nodes -> {"new", "live", "stopped"}]
  /\ links \in 0..(MaxRequests + 1)
  /\ exclusive \in Disciplines
  /\ requests \in 0..MaxRequests
  /\ plan \in [Clients -> Seq(Ops)]
  /\ pc \in [Clients -> Labels]
  /\ todo \in [Clients -> Seq(Nodes)]
  /\ \A c \in Clients : pc[c] \in Loops <=> todo[c] # <<>>

Quiet == \A n \in Nodes : threads[n] # "live"

\* Clients that let nothing overlap with a deletion leave no node at work in a
\* pipeline that is READY, with no start() or stop() under way, however those
\* two overlapped before,
ReadyIsQuiet ==
  /\ "delete" \in exclusive
  /\ pstatus = "READY"
  /\ \A c \in Clients : pc[c] \notin {"start", "stop"}
  => Quiet

\* nor in one that has been deleted.
DeletedIsQuiet ==
  "delete" \in exclusive /\ pstatus # "none" /\ ~registered => Quiet

\* Every node of a pipeline that runs has been started ("This method starts
\* all the nodes in the pipeline", start() of _pipeline.py).
RunningIsStarted ==
  pstatus = "RUNNING" => \A n \in Nodes : threads[n] # "new"

\* The same of a pipeline warmed up at the first attempt, or after attempts
\* that failed before the links.
RunningOnceLinked == links = 1 => RunningIsStarted

\* warmup() never replaces a node at work.
LiveNotReplaced ==
  [][\A n \in Nodes : threads[n] = "live" => threads'[n] # "new"]_vars
=============================================================================
