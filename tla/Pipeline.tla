------------------------------ MODULE Pipeline ------------------------------
(***************************************************************************)
(* A Juturna pipeline (juturna/components/_pipeline.py): the threads of    *)
(* its nodes, with the thread of the user who calls start(), stop(),       *)
(* suspend_node() and resume_node() on it, one call at a time.             *)
(***************************************************************************)
EXTENDS Node

CONSTANTS
  Layers,       \* _dag.BFS(): the names of each layer, in their order
  UserSignals,  \* signals the user puts to single nodes
  MaxSignals    \* bound: how many such calls

ASSUME PipelineAssumption ==
  /\ Layers \in Seq(Seq(Nodes)) /\ Layers # <<>>
  /\ \A i \in 1..Len(Layers) : Layers[i] # <<>>
  /\ UserSignals \subseteq {"START", "SUSPEND", "RESUME"}
  /\ MaxSignals \in Nat

VARIABLES
  pstatus,   \* _status of the pipeline
  cur,       \* the loop position of the running start() or stop()
  signals    \* signals the user has put to single nodes so far

vars == <<queue, outq, draining, stopEvt, pending, suspended, status,
          handle, gen, produced, received, relayed, pc, held, todo, waits,
          pstatus, cur, signals>>

-----------------------------------------------------------------------------
(***************************************************************************)
(* Loop positions: start() visits the layers backwards; stop() goes twice  *)
(* over each layer, once to put a STOP and once to join.                   *)
(***************************************************************************)
At(o, l, p) == [op |-> o, lay |-> l, pos |-> p]
NoCall == At("none", 1, 1)
Here == Layers[cur.lay][cur.pos]

\* Mutant: the loop runs one past the end of a layer.
FollowingPastEnd(c) == [c EXCEPT !.pos = @ + 1]

\* The loop after the one that ends with c.
NextLoop(c) ==
  IF c.op = "put" THEN At("join", c.lay, 1)
  ELSE IF c.op = "join" /\ c.lay < Len(Layers) THEN At("put", c.lay + 1, 1)
  ELSE IF c.op = "start" /\ c.lay > 1 THEN At("start", c.lay - 1, 1)
  ELSE NoCall

Following(c) ==
  IF c.pos < Len(Layers[c.lay]) THEN [c EXCEPT !.pos = @ + 1] ELSE NextLoop(c)

Driving(op) == pc[User] = "drive" /\ cur.op = op

-----------------------------------------------------------------------------
Init ==
  /\ NodeInit
  /\ pstatus = "READY"
  /\ cur = NoCall
  /\ signals = 0

Start ==
  /\ Driving("none")
  /\ pstatus = "READY"
  /\ \A n \in Nodes : gen[n] < MaxGen
  /\ cur' = At("start", Len(Layers), 1)
  /\ UNCHANGED <<nodeVars, pstatus, signals>>

StartNode ==
  /\ Driving("start")
  /\ NodeStart(Here)
  /\ pc' = [t \in Threads |-> IF t \in Spawned(Here) THEN "top" ELSE pc[t]]
  /\ cur' = Following(cur)
  /\ pstatus' = IF cur' = NoCall THEN "RUNNING" ELSE pstatus
  /\ UNCHANGED <<queue, outq, pending, suspended, produced, received, relayed,
                 held, todo, waits, signals>>

Stop ==
  /\ Driving("none")
  /\ pstatus = "RUNNING"
  /\ cur' = At("put", 1, 1)
  /\ UNCHANGED <<nodeVars, pstatus, signals>>

StopPut ==
  /\ Driving("put")
  /\ Sending(User, Control("STOP"), <<Here>>)
  /\ cur' = Following(cur)
  /\ UNCHANGED <<queue, outq, draining, stopEvt, pending, suspended, status,
                 handle, gen, produced, received, relayed, waits, pstatus, signals>>

\* Mutant: every STOP is put before anything is joined.
StopJoinLater ==
  /\ Driving("join")
  /\ cur' = Following(cur)
  /\ pstatus' = IF cur' = NoCall THEN "READY" ELSE pstatus
  /\ UNCHANGED <<nodeVars, signals>>

StopJoin ==
  /\ Driving("join")
  /\ Goto(User, "pend")
  /\ UNCHANGED <<queue, outq, draining, stopEvt, pending, suspended, status,
                 handle, gen, produced, received, relayed, held, todo, waits,
                 pstatus, cur, signals>>

StopJoined ==
  /\ Joined(User)
  /\ Goto(User, "drive")
  /\ cur' = Following(cur)
  /\ pstatus' = IF cur' = NoCall THEN "READY" ELSE pstatus
  /\ UNCHANGED <<queue, outq, draining, stopEvt, pending, suspended, status,
                 handle, gen, produced, received, relayed, held, todo, signals>>

\* suspend_node() and resume_node(), which look at no status, and put() of a
\* START by hand.
Signal(n, sig) ==
  /\ Driving("none")
  /\ signals < MaxSignals
  /\ signals' = signals + 1
  /\ Sending(User, Control(sig), <<n>>)
  /\ UNCHANGED <<queue, outq, draining, stopEvt, pending, suspended, status,
                 handle, gen, produced, received, relayed, waits, pstatus, cur>>

\* The steps of a call the user is in: they owe nothing before it.
InCall ==
  \/ StartNode
  \/ StopPut
  \/ StopJoin
  \/ StopJoined
  \/ /\ Put(User) \/ JoinPending(User, Here) \/ JoinList(User, Here)
     /\ UNCHANGED <<pstatus, cur, signals>>

UserCall == Start \/ Stop \/ \E n \in Nodes, sig \in UserSignals : Signal(n, sig)

ThreadStep(t) == NodeStep(t) /\ UNCHANGED <<pstatus, cur, signals>>

Next ==
  \/ UserCall
  \/ InCall
  \/ \E t \in Daemons \cup Controls : ThreadStep(t)

Spec == Init /\ [][Next]_vars

(***************************************************************************)
(* Every thread is scheduled by the operating system, update() and the     *)
(* source functions return, and a call of the user's proceeds; the user is *)
(* not obliged to call anything.                                           *)
(***************************************************************************)
FairSpec ==
  /\ Spec
  /\ WF_vars(InCall)
  /\ \A t \in Daemons \cup Controls : WF_vars(ThreadStep(t))

-----------------------------------------------------------------------------
TypeOK ==
  /\ queue \in [Nodes -> Seq(Messages)]
  /\ outq \in [Nodes -> Seq(Messages)]
  /\ draining \in [Nodes -> BOOLEAN]
  /\ stopEvt \in [Nodes -> [Roles -> BOOLEAN]]
  /\ pending \in [Nodes -> Int]
  /\ suspended \in [Nodes -> BOOLEAN]
  /\ status \in [Nodes -> {"CONFIGURED", "RUNNING", "STOPPED"}]
  /\ handle \in [Nodes -> 0..MaxGen]
  /\ gen \in [Nodes -> 0..MaxGen]
  /\ produced \in [Nodes -> 0..(MaxData + 1)]
  /\ received \in [Nodes -> Seq(Ids)]
  /\ relayed \in [Nodes -> SUBSET Ids]
  /\ pc \in [Threads -> Labels]
  /\ held \in [Threads -> Messages \cup {NoMsg}]
  /\ todo \in [Threads -> Seq(Nodes)]
  /\ waits \in [Threads -> SUBSET Daemons]
  /\ pstatus \in {"READY", "RUNNING"}
  /\ cur \in [op : {"none", "start", "put", "join"},
             lay : 1..Len(Layers), pos : Nat \ {0}]
  /\ cur.pos <= Len(Layers[cur.lay])
  /\ signals \in 0..MaxSignals

IdsIn(s) == {s[i] : i \in 1..Len(s)}
Through(n) == IdsIn(received[n]) \cup relayed[n]
Alive(t) == pc[t] \notin {"none", "dead"}
DaemonsOf(n) == {t \in Daemons : t[1] = n}
Stopped == pstatus = "READY" /\ cur = NoCall
Destinations(n) == {Dest[n][i] : i \in 1..Len(Dest[n])}

\* A node that reports STOPPED has no worker, update or source thread left:
\* stop() writes the status only after join().
StoppedIsQuiet ==
  \A n \in Nodes : status[n] = "STOPPED" => \A t \in DaemonsOf(n) : ~Alive(t)

\* Once stop() has returned, every message a node was given, or relayed while
\* suspended, has come through each of its destinations: stopping layer by
\* layer loses nothing in between.
Drained ==
  Stopped => \A n \in Nodes : \A d \in Destinations(n) :
               Through(n) \subseteq Through(d)

\* Without user or layers, a source that ends with STOP_PROPAGATE also drains
\* a chain of nodes: once two linked nodes have stopped, the second has had
\* all that the first transmitted.
PropagateDrains ==
  \A n \in Nodes : \A d \in Destinations(n) :
    status[n] = "STOPPED" /\ status[d] = "STOPPED"
      => Through(n) \subseteq Through(d)

\* While nodes are suspended and resumed, a message is processed or relayed by
\* a node, never both, and never processed twice.
OnceThrough ==
  \A n \in Nodes :
    /\ \A i, j \in 1..Len(received[n]) :
         received[n][i] = received[n][j] => i = j
    /\ IdsIn(received[n]) \cap relayed[n] = {}

\* Once stop() has returned, no worker, update or source thread of any node is
\* left that could transmit.
QuietAfterStop == Stopped => \A t \in Daemons : ~Alive(t)

\* The threads of a second start() process nothing: start() does not clear the
\* stop events.
RestartIsInert ==
  [][\A n \in Nodes : gen[n] > 1 => received'[n] = received[n]]_vars

\* A put() of the user's own, into a queue that is full because an update() has
\* raised, which ends the thread that reads.
StuckByRaising ==
  /\ pc[User] = "enq" /\ Len(queue[Head(todo[User])]) = MaxQueue
  /\ \E t \in Daemons : t[1] \in Fails /\ t[2] = "update" /\ pc[t] = "dead"

\* Every call of the pipeline's user returns, but for one that waits for room in
\* a queue that nobody reads any more.
CallsReturn == []<>(Driving("none") \/ StuckByRaising)

=============================================================================
