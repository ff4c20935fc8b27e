---------------------------- MODULE DrainProofs ----------------------------
(***************************************************************************)
(* That stopping a pipeline loses nothing between its nodes, and leaves no *)
(* thread behind. What a node has transmitted its destinations have had,   *)
(* once it has stopped and they have: DrainInv is the inductive invariant  *)
(* (a stop reaches a node behind all that is sent to it, since those who   *)
(* send are finished by then). Once stop() has returned, no thread is left *)
(* to transmit: QuietInv says which nodes are finished while it runs. And  *)
(* a link to a node that has no other keeps the order of what it is given: *)
(* it implements Link, by LinkInv.                                         *)
(***************************************************************************)
EXTENDS StoppingProofs

\* Nothing stands in the way of a stop: update() does not raise, the layers
\* hold every node behind those that lead to it, and a source that ends with a
\* stop has no predecessors, nor nodes with several of them to propagate it to.
Earlier(n, l) == \E k \in 1..(l - 1) : \E p \in 1..Len(Layers[k]) : Layers[k][p] = n

Covered ==
  \A n \in Nodes : \E l \in 1..Len(Layers) : \E p \in 1..Len(Layers[l]) :
    Layers[l][p] = n

Layered ==
  /\ Covered
  /\ \A l \in 1..Len(Layers) : \A p \in 1..Len(Layers[l]) : \A n \in Nodes :
       Layers[l][p] \in Destinations(n) => Earlier(n, l)

EndsApart ==
  /\ SourceEnd # {} => \A n \in Nodes : Destinations(n) \cap Sources = {}
  /\ "STOP_PROPAGATE" \in SourceEnd =>
       \A m, n \in Nodes : m # n => Destinations(m) \cap Destinations(n) = {}

\* A node that never does anything again.
Finished(n) ==
  EventsSet(n) /\ \A t \in DaemonsOf(n) : pc[t] \in {"none", "top", "dead"}

\* Its update thread has taken a stop, and will take nothing more.
Taken(d) ==
  \/ stopEvt[d]["update"]
  \/ \E t \in DaemonsOf(d) : t[2] = "update" /\ pc[t] = "dead"

IsStop(m) == m.kind \in Negative
Holds(q) == \E i \in 1..Len(q) : IsStop(q[i])
Storing(t) == t[2] = "worker" /\ pc[t] = "store"
Putting(t) == pc[t] \in {"put", "enq"}
Towards(t, d) == \E i \in 1..Len(todo[t]) : todo[t][i] = d

\* No stop has come as far as the out queue of d, its worker, its queue.
OutClear(d) == ~Taken(d) /\ ~Holds(outq[d])
Clear(d) == OutClear(d) /\ \A t \in DaemonsOf(d) : Storing(t) => ~IsStop(held[t])
NoStop(d) ==
  /\ Clear(d) /\ ~Holds(queue[d])
  /\ \A t \in Threads : Putting(t) /\ IsStop(held[t]) => ~Towards(t, d)

\* The message x is in a queue and no stop before it.
Ahead(q, x) ==
  \E i \in 1..Len(q) : q[i] = Data(x) /\ \A j \in 1..(i - 1) : ~IsStop(q[j])

\* update() of d will be given x, or d relay it.
Due(d, x) ==
  \/ \E t \in DaemonsOf(d) : t[2] = "update" /\ pc[t] = "got" /\ held[t] = Data(x)
  \/ ~Taken(d) /\ Ahead(outq[d], x)
  \/ OutClear(d) /\ \E t \in DaemonsOf(d) : Storing(t) /\ held[t] = Data(x)
  \/ Clear(d) /\ Ahead(queue[d], x)

\* n is transmitting x, and has yet to put it to d.
Sent(n, d, x) ==
  \E t \in DaemonsOf(n) : /\ t[2] # "source" /\ Putting(t)
                          /\ held[t] = Data(x) /\ Towards(t, d)

\* What n has had, d has had or will have.
Flow ==
  \A n \in Nodes : \A d \in Destinations(n) : \A x \in Through(n) :
    x \in Through(d) \/ Sent(n, d, x) \/ Due(d, x)

\* A stop is on its way to a node only once all that lead to it have finished.
StopsLast ==
  \A n \in Nodes : \A d \in Destinations(n) : Finished(n) \/ NoStop(d)

\* Only stop() sets what ends a worker, after update() has taken the signal.
StopFlags ==
  /\ \A d \in Nodes :
       draining[d] \/ stopEvt[d]["worker"] \/ stopEvt[d]["update"] => EventsSet(d)
  /\ \A t \in Daemons : t[2] = "worker" /\ pc[t] = "dead" => EventsSet(t[1])

StopTakes ==
  /\ StopFlags
  /\ \A c \in Controls : pc[c] = "ctl" /\ IsStop(held[c]) => Taken(c[1])

\* Whoever puts a stop to a node does so when those that lead to it are finished.
StopSafe(t) ==
  IsStop(held[t]) => \A n \in Nodes : \A d \in Destinations(n) :
                       Towards(t, d) => Finished(n)

Senders == \A t \in Threads : Putting(t) => StopSafe(t)

\* A stop is propagated only if a source began with it.
Known(m) == m.kind = "STOP_PROPAGATE" => "STOP_PROPAGATE" \in SourceEnd

Propagated ==
  /\ \A n \in Nodes : /\ \A i \in 1..Len(queue[n]) : Known(queue[n][i])
                      /\ \A i \in 1..Len(outq[n]) : Known(outq[n][i])
  /\ \A t \in Threads : Known(held[t])

\* start() gives every node its first threads.
Begun ==
  \A n \in Nodes :
    /\ handle[n] <= gen[n]
    /\ \A t \in DaemonsOf(n) : t[3] > gen[n] => pc[t] = "none"
    /\ gen[n] = 0 => Through(n) = {}
    /\ gen[n] > 0 => pc[<<n, "worker", 1>>] # "none"
    /\ \A c \in Controls : c[1] = n /\ pc[c] # "none" => gen[n] > 0
    /\ status[n] = "STOPPED" => gen[n] > 0

\* How far start() and stop() are.
Place(n, l, p) ==
  l \in 1..Len(Layers) /\ p \in 1..Len(Layers[l]) /\ Layers[l][p] = n
StartedAt(n) == \E l \in 1..Len(Layers) : \E p \in 1..Len(Layers[l]) : Place(n, l, p) /\
                  (l > cur.lay \/ (l = cur.lay /\ p < cur.pos))
PassedAt(n) == \E l \in 1..Len(Layers) : \E p \in 1..Len(Layers[l]) : Place(n, l, p) /\
                 (l < cur.lay \/ (l = cur.lay /\ cur.op = "join" /\ p < cur.pos))

Calling ==
  /\ pc[User] \in {"drive", "put", "enq", "pend", "list", "join"}
  /\ pc[User] \in {"pend", "list", "join"} => cur.op = "join"
  /\ cur.op = "start" => /\ pstatus = "READY" /\ pc[User] = "drive"
                         /\ \A n \in Nodes : StartedAt(n) => gen[n] > 0
  /\ cur.op \in {"put", "join"} => /\ pstatus = "RUNNING"
                                   /\ \A n \in Nodes : PassedAt(n) => Finished(n)
  /\ pstatus = "RUNNING" => \A n \in Nodes : gen[n] > 0
  /\ cur.op = "none" => cur = NoCall
  /\ Stopped => (\A n \in Nodes : Finished(n)) \/ (\A n \in Nodes : gen[n] = 0)
  /\ pc[User] = "join" =>
       \A t \in DaemonsOf(Here) :
         \/ pc[t] \in {"none", "dead"} \/ t \in waits[User]
         \/ EventsSet(Here) /\ pc[t] = "top"

Orderly ==
  /\ JoinMayTimeOut = FALSE /\ Fails = {}
  /\ Layered /\ EndsApart

MessageInv == Flow /\ StopsLast /\ StopTakes /\ Senders /\ Propagated

DrainInv == MessageInv /\ Begun /\ Calling
-----------------------------------------------------------------------------
(***************************************************************************)
(* Queues.                                                                 *)
(***************************************************************************)
LEMMA AheadAppend ==
  ASSUME NEW S, NEW q \in Seq(S), NEW m \in S, NEW x
  PROVE  /\ Ahead(q, x) => Ahead(Append(q, m), x)
         /\ ~Holds(q) /\ m = Data(x) => Ahead(Append(q, m), x)
         /\ Holds(Append(q, m)) => Holds(q) \/ IsStop(m)
<1> DEFINE r == Append(q, m)
<1>1. /\ Len(r) = Len(q) + 1 /\ Len(q) \in Nat
      /\ \A i \in 1..Len(q) : r[i] = q[i]
      /\ r[Len(q) + 1] = m
  OBVIOUS
<1> HIDE DEF r
<1>2. Ahead(q, x) => Ahead(r, x)
  BY <1>1 DEF Ahead
<1>3. ~Holds(q) /\ m = Data(x) => Ahead(r, x)
  <2> SUFFICES ASSUME ~Holds(q), m = Data(x) PROVE Ahead(r, x)
    OBVIOUS
  <2>1. Len(q) + 1 \in 1..Len(r) /\ r[Len(q) + 1] = Data(x)
    BY <1>1
  <2>2. \A j \in 1..((Len(q) + 1) - 1) : ~IsStop(r[j])
    BY <1>1 DEF Holds
  <2> QED BY <2>1, <2>2 DEF Ahead
<1>4. Holds(r) => Holds(q) \/ IsStop(m)
  <2> SUFFICES ASSUME NEW i \in 1..Len(r), IsStop(r[i]), ~IsStop(m)
               PROVE  Holds(q)
    BY DEF Holds
  <2>1. i \in 1..Len(q)
    BY <1>1
  <2> QED BY <1>1, <2>1 DEF Holds
<1> QED BY <1>2, <1>3, <1>4 DEF r

LEMMA AheadTail ==
  ASSUME NEW S, NEW q \in Seq(S), q # <<>>, NEW x
  PROVE  /\ Ahead(q, x) => \/ Head(q) = Data(x)
                           \/ Ahead(Tail(q), x) /\ ~IsStop(Head(q))
         /\ IsStop(Head(q)) => Holds(q)
         /\ Holds(Tail(q)) => Holds(q)
<1> DEFINE r == Tail(q)
           h == Head(q)
<1>1. /\ Len(q) \in Nat /\ Len(q) > 0 /\ Len(r) = Len(q) - 1
      /\ \A i \in 1..Len(r) : r[i] = q[i + 1]
      /\ h = q[1]
  OBVIOUS
<1> HIDE DEF r, h
<1>2. Ahead(q, x) => h = Data(x) \/ (Ahead(r, x) /\ ~IsStop(h))
  <2> SUFFICES ASSUME NEW i \in 1..Len(q), q[i] = Data(x),
                      \A j \in 1..(i - 1) : ~IsStop(q[j]), i # 1
               PROVE  Ahead(r, x) /\ ~IsStop(h)
    BY <1>1 DEF Ahead
  <2>1. i - 1 \in 1..Len(r) /\ r[i - 1] = Data(x)
    BY <1>1
  <2>2. \A j \in 1..((i - 1) - 1) : ~IsStop(r[j])
    <3> SUFFICES ASSUME NEW j \in 1..((i - 1) - 1) PROVE ~IsStop(r[j])
      OBVIOUS
    <3>1. j \in 1..Len(r) /\ j + 1 \in 1..(i - 1)
      BY <1>1
    <3> QED BY <1>1, <3>1
  <2>3. ~IsStop(h)
    BY <1>1
  <2> QED BY <2>1, <2>2, <2>3 DEF Ahead
<1>3. IsStop(h) => Holds(q)
  BY <1>1 DEF Holds
<1>4. Holds(r) => Holds(q)
  <2> SUFFICES ASSUME NEW i \in 1..Len(r), IsStop(r[i]) PROVE Holds(q)
    BY DEF Holds
  <2>1. i + 1 \in 1..Len(q)
    BY <1>1
  <2> QED BY <1>1, <2>1 DEF Holds
<1> QED BY <1>2, <1>3, <1>4 DEF r, h

LEMMA KnownAppend ==
  ASSUME NEW S, NEW q \in Seq(S), NEW m \in S
  PROVE  /\ Known(m) /\ (\A i \in 1..Len(q) : Known(q[i]))
              => \A i \in 1..Len(Append(q, m)) : Known(Append(q, m)[i])
         /\ q # <<>> /\ (\A i \in 1..Len(q) : Known(q[i]))
              => /\ Known(Head(q))
                 /\ \A i \in 1..Len(Tail(q)) : Known(Tail(q)[i])
<1>1. ASSUME \A i \in 1..Len(q) : Known(q[i]), Known(m), NEW i \in 1..Len(Append(q, m))
      PROVE  Known(Append(q, m)[i])
  <2>1. (Append(q, m)[i] = q[i] /\ i \in 1..Len(q)) \/ Append(q, m)[i] = m
    OBVIOUS
  <2> QED BY <1>1, <2>1
<1>2. ASSUME \A i \in 1..Len(q) : Known(q[i]), q # <<>>, NEW i \in 1..Len(Tail(q))
      PROVE  Known(Tail(q)[i])
  <2>1. Tail(q)[i] = q[i + 1] /\ i + 1 \in 1..Len(q)
    BY <1>2
  <2> QED BY <1>2, <2>1
<1>3. q # <<>> => Head(q) = q[1] /\ 1 \in 1..Len(q)
  OBVIOUS
<1> QED BY <1>1, <1>2, <1>3

LEMMA InTail ==
  ASSUME NEW S, NEW q \in Seq(S), q # <<>>, NEW d
  PROVE  (\E i \in 1..Len(q) : q[i] = d)
           <=> d = Head(q) \/ \E i \in 1..Len(Tail(q)) : Tail(q)[i] = d
<1> DEFINE r == Tail(q)
<1>1. /\ Len(q) \in Nat /\ Len(q) > 0 /\ Len(r) = Len(q) - 1
      /\ \A i \in 1..Len(r) : r[i] = q[i + 1]
      /\ Head(q) = q[1]
  OBVIOUS
<1> HIDE DEF r
<1>2. ASSUME NEW i \in 1..Len(q), q[i] = d, i # 1
      PROVE  \E j \in 1..Len(r) : r[j] = d
  <2>1. i - 1 \in 1..Len(r) /\ r[i - 1] = d
    BY <1>1, <1>2
  <2> QED BY <2>1
<1>3. ASSUME NEW i \in 1..Len(r), r[i] = d PROVE \E j \in 1..Len(q) : q[j] = d
  <2>1. i + 1 \in 1..Len(q) /\ q[i + 1] = d
    BY <1>1, <1>3
  <2> QED BY <2>1
<1>4. 1 \in 1..Len(q)
  BY <1>1
<1> QED BY <1>1, <1>2, <1>3, <1>4 DEF r

\* Of each of its threads a node has one alive.
LEMMA OneAlive ==
  ASSUME NodeAssumption, StopInv, NEW t \in Daemons, NEW u \in Daemons,
         Alive(t), Alive(u), t[1] = u[1], t[2] = u[2]
  PROVE  t = u
<1>1. t[3] = u[3]
  BY DEF StopInv, LiveThreads
<1>2. t = <<t[1], t[2], t[3]>> /\ u = <<u[1], u[2], u[3]>>
  BY ThreadFacts
<1> QED BY <1>1, <1>2

-----------------------------------------------------------------------------
(***************************************************************************)
(* What has finished remains so.                                           *)
(***************************************************************************)
\* New threads are at the head of their loops.
LEMMA SpawnedAreNew ==
  ASSUME NodeAssumption, TypeInv, Begun, NEW n \in Nodes
  PROVE  \A x \in Spawned(n) : /\ x \in Daemons /\ x[1] = n /\ pc[x] = "none"
<1> SUFFICES ASSUME NEW x \in Spawned(n)
             PROVE  x \in Daemons /\ x[1] = n /\ pc[x] = "none"
  OBVIOUS
<1>1. x \in Daemons /\ x[1] = n /\ x[3] = gen[n] + 1
  BY DEF Spawned, ThreadsOf
<1>2. gen[n] \in Nat /\ x[3] > gen[n]
  BY <1>1 DEF TypeInv, TypeOK, NodeAssumption
<1> QED BY <1>1, <1>2 DEF Begun, DaemonsOf

\* What a step may do to the threads of a node and to its events.
Settled(x) == pc[x] \in {"none", "dead"} \/ (pc[x] = "top" /\ EventsSet(x[1]))
Stays ==
  /\ \A n \in Nodes : EventsSet(n) => EventsSet(n)'
  /\ \A x \in Daemons :
       Settled(x) => pc'[x] = pc[x] \/ pc'[x] \in {"top", "dead"}

LEMMA FrameStays ==
  ASSUME NodeAssumption, NEW t \in Threads, Frame(t),
         t \in Daemons /\ Settled(t) => pc'[t] \in {"top", "dead"}
  PROVE  Stays
<1>1. \A n \in Nodes : EventsSet(n) => EventsSet(n)'
  BY DEF Frame, EventsSet
<1>2. \A x \in Daemons : x # t => pc'[x] = pc[x]
  BY ThreadFacts DEF Frame
<1> QED BY <1>1, <1>2 DEF Stays

LEMMA DaemonStays ==
  ASSUME NodeAssumption, TypeInv, StopInv, NEW t \in Daemons, DaemonStep(t)
  PROVE  Stays
<1>1. t[1] \in Nodes /\ t[2] \in Roles /\ t \in Threads /\ pc \in [Threads -> Labels]
  BY ThreadFacts DEF TypeInv, TypeOK
<1>2. CASE UpdateGetControl(t)
  <2>1. PICK c \in Controls, l \in {"dead", "top"} :
          pc' = [pc EXCEPT ![c] = "ctl", ![t] = l]
    BY <1>2 DEF UpdateGetControl
  <2>2. \A x \in Daemons : pc'[x] = pc[x] \/ pc'[x] \in {"top", "dead"}
    BY <1>1, <2>1, ThreadFacts
  <2>3. stopEvt' = stopEvt
    BY <1>2 DEF UpdateGetControl
  <2> QED BY <2>2, <2>3 DEF Stays, EventsSet
<1>3. CASE ~UpdateGetControl(t)
  <2>1. Frame(t)
    BY <1>3, DaemonFrame
  <2>2. ASSUME Settled(t) PROVE pc'[t] \in {"top", "dead"}
    <3>1. pc[t] = "top" /\ EventsSet(t[1])
      BY <2>1, <2>2 DEF Frame, Settled, Alive
    <3>2. LoopTop(t)
      BY <3>1 DEF DaemonStep, Worker, Update, Source, LoopTop, GetEmpty, WorkerGet,
        WorkerStore, UpdateGetControl, UpdateGetData, UpdateCall, UpdateRaise,
        UpdateFinally, SourceCall, SourceCallEnd, SourceCallLate, SourceEmit, Put,
        PutDiscard, PutAccept, Enqueue
    <3> QED BY <1>1, <3>1, <3>2 DEF LoopTop, Goto, EventsSet
  <2> QED BY <1>1, <2>1, <2>2, FrameStays
<1> QED BY <1>2, <1>3

\* A step that leaves the daemons alone, but for those it spawns.
LEMMA SpawnStays ==
  ASSUME NodeAssumption, TypeInv, Begun, NEW n \in Nodes,
         \A x \in Daemons : pc'[x] = pc[x] \/ (x \in Spawned(n) /\ pc'[x] = "top"),
         stopEvt' = stopEvt \/ stopEvt' = [stopEvt EXCEPT ![n] = [r \in Roles |-> TRUE]]
  PROVE  Stays
<1>1. \A m \in Nodes : EventsSet(m) => EventsSet(m)'
  <2>1. stopEvt \in [Nodes -> [Roles -> BOOLEAN]]
    BY DEF TypeInv, TypeOK
  <2>2. CASE stopEvt' = stopEvt
    BY <2>2 DEF EventsSet
  <2>3. CASE stopEvt' = [stopEvt EXCEPT ![n] = [r \in Roles |-> TRUE]]
    BY <2>1, <2>3 DEF EventsSet
  <2> QED BY <2>2, <2>3
<1> QED BY <1>1 DEF Stays

\* A call of put() or transmit() begins or goes on, and nothing else.
LEMMA SendingPc ==
  ASSUME NodeAssumption, TypeInv, NEW t \in Threads, NEW m, NEW ds,
         Sending(t, m, ds)
  PROVE  /\ \A x \in Threads \ {t} : pc'[x] = pc[x] /\ held'[x] = held[x]
                                     /\ todo'[x] = todo[x]
         /\ pc'[t] = (IF ds = <<>> THEN Resume(t) ELSE "put")
         /\ held'[t] = (IF ds = <<>> THEN NoMsg ELSE m) /\ todo'[t] = ds
         /\ Resume(t) \in {"top", "finally", "none", "drive"}
<1>1. /\ pc \in [Threads -> Labels] /\ held \in [Threads -> Messages \cup {NoMsg}]
      /\ todo \in [Threads -> Seq(Nodes)]
  BY DEF TypeInv, TypeOK
<1>2. Resume(t) \in {"top", "finally", "none", "drive"}
  BY ResumeType
<1> QED
  BY <1>1, <1>2 DEF Sending, Goto

LEMMA PutStays ==
  ASSUME NodeAssumption, TypeInv, StopInv, NEW t \in Threads, Put(t)
  PROVE  Stays
<1>1. Frame(t) /\ pc[t] \in {"put", "enq"}
  BY PutFrame DEF Put, PutDiscard, PutAccept, Enqueue
<1> QED BY <1>1, FrameStays DEF Settled

LEMMA ControlStays ==
  ASSUME NodeAssumption, TypeInv, StopInv, Begun, NEW t \in Controls,
         ControlThread(t)
  PROVE  Stays
<1>1. t[1] \in Nodes /\ t \in Threads /\ t \notin Daemons /\ pc \in [Threads -> Labels]
  BY ThreadFacts DEF TypeInv, TypeOK
<1>2. \A x \in Daemons : x \in Threads \ {t}
  BY <1>1, ThreadFacts
<1>3. CASE Put(t)
  BY <1>1, <1>3, PutStays
<1>4. CASE ControlStart(t)
  <2>1. /\ pc' = [x \in Threads |-> IF x \in Spawned(t[1]) THEN "top"
                                    ELSE IF x = t THEN "none" ELSE pc[x]]
        /\ stopEvt' = stopEvt
    BY <1>4 DEF ControlStart, NodeStart
  <2> QED BY <1>1, <1>2, <2>1, SpawnStays
<1>5. CASE ControlSuspend(t) \/ JoinPending(t, t[1]) \/ JoinList(t, t[1])
  BY <1>1, <1>2, <1>5, SpawnStays DEF ControlSuspend, JoinPending, JoinList, Goto
<1>6. ASSUME AfterStop(t) PROVE \A x \in Daemons : pc'[x] = pc[x]
  BY <1>1, <1>2, <1>6, SendingPc DEF AfterStop
<1>7. CASE ControlStop(t)
  <2>1. \A x \in Daemons : pc'[x] = pc[x]
    BY <1>1, <1>2, <1>6, <1>7 DEF ControlStop, Goto
  <2>2. stopEvt' = stopEvt \/ stopEvt' = [stopEvt EXCEPT ![t[1]] = [r \in Roles |-> TRUE]]
    BY <1>7 DEF ControlStop
  <2> QED BY <1>1, <2>1, <2>2, SpawnStays
<1>8. CASE ControlStopEnd(t)
  BY <1>1, <1>6, <1>8, SpawnStays DEF ControlStopEnd
<1> QED
  BY <1>3, <1>4, <1>5, <1>7, <1>8 DEF ControlThread

LEMMA CallStays ==
  ASSUME NodeAssumption, PipelineAssumption, TypeInv, StopInv, Begun,
         UserCall \/ InCall
  PROVE  Stays
<1>1. Here \in Nodes /\ User \in Threads /\ User \notin Daemons
      /\ pc \in [Threads -> Labels]
  BY ThreadFacts, HereType DEF TypeInv, TypeOK
<1>2. \A x \in Daemons : x \in Threads \ {User}
  BY <1>1, ThreadFacts
<1>3. CASE Put(User)
  BY <1>1, <1>3, PutStays
<1>4. CASE StartNode
  <2>1. /\ pc' = [x \in Threads |-> IF x \in Spawned(Here) THEN "top" ELSE pc[x]]
        /\ stopEvt' = stopEvt
    BY <1>4 DEF StartNode, NodeStart
  <2> QED BY <1>1, <1>2, <2>1, SpawnStays
<1>5. CASE Start \/ Stop \/ StopJoin \/ StopJoined \/ JoinPending(User, Here)
           \/ JoinList(User, Here)
  <2>1. \A x \in Daemons : pc'[x] = pc[x]
    BY <1>1, <1>2, <1>5
    DEF Start, Stop, StopJoin, StopJoined, JoinPending, JoinList, Goto, nodeVars
  <2>2. stopEvt' = stopEvt
    BY <1>5
    DEF Start, Stop, StopJoin, StopJoined, JoinPending, JoinList, nodeVars
  <2> QED BY <1>1, <2>1, <2>2, SpawnStays
<1>6. CASE StopPut \/ \E n \in Nodes, sig \in UserSignals : Signal(n, sig)
  <2>1. PICK m, ds : Sending(User, m, ds) /\ stopEvt' = stopEvt
    BY <1>6 DEF StopPut, Signal
  <2> QED BY <1>1, <1>2, <2>1, SendingPc, SpawnStays
<1> QED
  BY <1>3, <1>4, <1>5, <1>6 DEF UserCall, InCall

\* The stop events stay set, and threads that have ended or never ran do not
\* get past the head of their loop: what a node is given it has been given.
LEMMA StepStays ==
  ASSUME NodeAssumption, PipelineAssumption, TypeInv, StopInv, Begun, [Next]_vars
  PROVE  Stays /\ \A n \in Nodes : Finished(n) => Finished(n)'
<1>1. Stays
  <2>1. CASE UNCHANGED vars
    BY <2>1 DEF vars, Stays, EventsSet
  <2>2. ASSUME NEW t \in Daemons, DaemonStep(t) PROVE Stays
    BY <2>2, DaemonStays
  <2>3. ASSUME NEW t \in Controls, ControlThread(t) PROVE Stays
    BY <2>3, ControlStays
  <2>4. CASE UserCall \/ InCall
    BY <2>4, CallStays
  <2> QED
    BY <2>1, <2>2, <2>3, <2>4 DEF Next, ThreadStep, NodeStep
<1>2. \A n \in Nodes : Finished(n) => Finished(n)'
  BY <1>1 DEF Stays, Finished, Settled, DaemonsOf
<1> QED BY <1>1, <1>2

-----------------------------------------------------------------------------
(***************************************************************************)
(* Steps that move no message.                                             *)
(***************************************************************************)
Busy == {"put", "enq", "store", "got"}

\* What has finished remains so, and so do the threads but t, apart from those
\* that are new.
Rest(t) ==
  /\ \A n \in Nodes : Finished(n) => Finished(n)'
  /\ \A x \in Threads \ {t} :
       /\ held'[x] = held[x] /\ todo'[x] = todo[x]
       /\ pc'[x] = pc[x] \/ (pc[x] = "none" /\ pc'[x] = "top")

LEMMA CalmStep ==
  ASSUME NodeAssumption, MessageInv,
         NEW t \in Threads, Rest(t), UNCHANGED <<queue, outq, received, relayed>>,
         pc[t] \notin Busy, pc'[t] \notin {"enq", "store", "got", "ctl"},
         Putting(t)' => StopSafe(t)',
         Known(held'[t]),
         \A d \in Nodes : Taken(d)' <=> Taken(d),
         StopFlags'
  PROVE  MessageInv'
<1>1. \A s \in Threads : pc[s] \in Busy =>
        s # t /\ pc'[s] = pc[s] /\ held'[s] = held[s] /\ todo'[s] = todo[s]
  BY DEF Rest, Busy
<1>2. \A s \in Threads : /\ s # t => held'[s] = held[s] /\ todo'[s] = todo[s]
                         /\ pc'[s] \in {"enq", "store", "got", "ctl"}
                              => pc'[s] = pc[s] /\ s # t
                         /\ pc'[s] = "put" => s = t \/ pc[s] = "put"
  BY DEF Rest, Busy
<1>3. \A d \in Nodes : /\ OutClear(d)' <=> OutClear(d)
                       /\ Clear(d) => Clear(d)'
  BY <1>2, ThreadFacts DEF OutClear, Clear, DaemonsOf, Storing
<1>4. ASSUME NEW d \in Nodes, NEW x, Due(d, x) PROVE Due(d, x)'
  BY <1>1, <1>3, <1>4, ThreadFacts DEF Due, DaemonsOf, Storing, Busy
<1>5. ASSUME NEW n \in Nodes, NEW d \in Nodes, NEW x, Sent(n, d, x)
      PROVE  Sent(n, d, x)'
  <2>1. PICK s \in DaemonsOf(n) : /\ s[2] # "source" /\ Putting(s)
                                  /\ held[s] = Data(x) /\ Towards(s, d)
    BY <1>5 DEF Sent
  <2>2. s \in Threads /\ pc[s] \in Busy
    BY <2>1, ThreadFacts DEF DaemonsOf, Putting, Busy
  <2>3. Putting(s)' /\ held'[s] = Data(x) /\ Towards(s, d)'
    BY <1>1, <2>1, <2>2 DEF Putting, Towards
  <2> QED BY <2>1, <2>3 DEF Sent, DaemonsOf
<1>6. \A n \in Nodes : Destinations(n) \subseteq Nodes /\ Through(n)' = Through(n)
  BY DEF Destinations, NodeAssumption, Through
<1>7. Flow'
  BY <1>4, <1>5, <1>6 DEF MessageInv, Flow
<1>8. StopsLast'
  <2> SUFFICES ASSUME NEW n \in Nodes, NEW d \in Destinations(n), ~Finished(n)'
               PROVE  NoStop(d)'
    BY DEF StopsLast
  <2>1. d \in Nodes /\ NoStop(d)
    BY <1>6 DEF MessageInv, StopsLast, Rest
  <2>2. ASSUME NEW s \in Threads, Putting(s)', IsStop(held'[s]) PROVE ~Towards(s, d)'
    <3>1. CASE s = t
      BY <2>2, <3>1 DEF StopSafe
    <3>2. CASE s # t
      BY <1>2, <2>1, <2>2, <3>2 DEF NoStop, Putting, Towards
    <3> QED BY <3>1, <3>2
  <2> QED BY <1>3, <2>1, <2>2 DEF NoStop
<1>9. StopTakes'
  BY <1>2, ThreadFacts DEF MessageInv, StopTakes, StopFlags
<1>10. Senders'
  <2> SUFFICES ASSUME NEW s \in Threads, s # t, Putting(s)' PROVE StopSafe(s)'
    BY DEF Senders
  <2>1. StopSafe(s)
    BY <1>2 DEF MessageInv, Senders, Putting
  <2> QED BY <1>2, <2>1 DEF StopSafe, Towards, Rest
<1>11. Propagated'
  BY <1>2 DEF MessageInv, Propagated
<1> QED
  BY <1>7, <1>8, <1>9, <1>10, <1>11 DEF MessageInv

-----------------------------------------------------------------------------
(***************************************************************************)
(* Steps that move a message.                                              *)
(***************************************************************************)
LEMMA PutMessages ==
  ASSUME NodeAssumption, TypeInv, MessageInv,
         NEW t \in Threads, Rest(t), Put(t), StopFlags'
  PROVE  MessageInv'
<1> DEFINE e == Head(todo[t])
           m == held[t]
           rest == Tail(todo[t])
<1>1. /\ todo[t] \in Seq(Nodes) /\ todo[t] # <<>> /\ e \in Nodes
      /\ rest \in Seq(Nodes) /\ m \in Messages
      /\ pc[t] \in {"put", "enq"}
      /\ queue \in [Nodes -> Seq(Messages)]
  <2>1. pc[t] \in {"put", "enq"}
    BY DEF Put, PutDiscard, PutAccept, Enqueue
  <2>2. todo[t] \in Seq(Nodes) /\ todo[t] # <<>> /\ queue \in [Nodes -> Seq(Messages)]
    BY <2>1 DEF TypeInv, TypeOK, Hands
  <2> QED BY <2>1, <2>2, PutFacts
<1>2. UNCHANGED <<outq, received, relayed, stopEvt, draining>>
  BY DEF Put, PutDiscard, PutAccept, Enqueue
<1>3. \/ /\ pc'[t] = "enq" /\ held'[t] = m /\ todo'[t] = todo[t] /\ queue' = queue
         /\ pc[t] = "put"
      \/ /\ pc'[t] \in {"put", "top", "finally", "none", "drive"}
         /\ todo'[t] = rest
         /\ rest # <<>> => held'[t] = m /\ pc'[t] = "put"
         /\ rest = <<>> => held'[t] = NoMsg /\ pc'[t] # "put"
         /\ \/ queue' = queue /\ draining[e]
            \/ queue' = [queue EXCEPT ![e] = Append(@, m)]
  <2>1. CASE PutAccept(t)
    BY <1>1, <2>1 DEF PutAccept, Goto, TypeInv, TypeOK
  <2>2. CASE PutDiscard(t) \/ Enqueue(t)
    <3>1. Sending(t, m, rest)
      BY <2>2 DEF PutDiscard, Enqueue, Served
    <3>2. (queue' = queue /\ draining[e]) \/ queue' = [queue EXCEPT ![e] = Append(@, m)]
      BY <2>2 DEF PutDiscard, Enqueue
    <3> HIDE DEF e, m, rest
    <3>3. /\ pc'[t] = (IF rest = <<>> THEN Resume(t) ELSE "put")
          /\ held'[t] = (IF rest = <<>> THEN NoMsg ELSE m) /\ todo'[t] = rest
          /\ Resume(t) \in {"top", "finally", "none", "drive"}
      BY <3>1, SendingPc
    <3> QED BY <3>2, <3>3
  <2> QED BY <2>1, <2>2 DEF Put
<1> HIDE DEF e, m, rest
<1>4. /\ \A d \in Nodes : d # e => queue'[d] = queue[d]
      /\ queue'[e] = queue[e] \/ queue'[e] = Append(queue[e], m)
      /\ ~draining[e] /\ pc'[t] # "enq" => queue'[e] = Append(queue[e], m)
  <2>1. CASE queue' = queue /\ (pc'[t] = "enq" \/ draining[e])
    BY <2>1
  <2>2. CASE queue' = [queue EXCEPT ![e] = Append(@, m)]
    BY <1>1, <2>2
  <2> QED BY <1>3, <2>1, <2>2
<1>5. \A d \in Nodes : Towards(t, d) <=> \/ d = e
                                         \/ \E i \in 1..Len(rest) : rest[i] = d
  <2> DEFINE q == todo[t]
  <2>1. q \in Seq(Nodes) /\ q # <<>> /\ e = Head(q) /\ rest = Tail(q)
    BY <1>1 DEF e, rest
  <2> HIDE DEF q
  <2>2. \A d \in Nodes : (\E i \in 1..Len(q) : q[i] = d)
                           <=> d = Head(q) \/ \E i \in 1..Len(Tail(q)) : Tail(q)[i] = d
    BY <2>1, InTail
  <2> QED BY <2>1, <2>2 DEF Towards, q
<1>6. /\ \A d \in Nodes : Towards(t, d)' => Towards(t, d)
      /\ Putting(t) /\ pc[t] # "dead" /\ pc'[t] # "dead"
      /\ Putting(t)' => held'[t] = m
      /\ ~Storing(t) /\ ~Storing(t)'
      /\ pc'[t] \notin {"store", "got", "ctl", "dead"}
  <2>1. CASE todo'[t] = todo[t]
    BY <1>1, <1>3, <2>1 DEF Towards, Putting, Storing
  <2>2. CASE todo'[t] = rest
    BY <1>1, <1>3, <1>5, <2>2 DEF Towards, Putting, Storing
  <2> QED BY <1>3, <2>1, <2>2
<1>7. \A s \in Threads \ {t} :
        /\ held'[s] = held[s] /\ todo'[s] = todo[s]
        /\ pc[s] \in Busy => pc'[s] = pc[s]
        /\ pc'[s] \in {"put", "enq", "store", "got", "ctl", "dead"} => pc'[s] = pc[s]
        /\ pc[s] = "dead" => pc'[s] = "dead"
  BY DEF Rest, Busy
<1>8. \A d \in Nodes : /\ Taken(d)' <=> Taken(d)
                       /\ OutClear(d)' <=> OutClear(d)
                       /\ Clear(d)' <=> Clear(d)
  <2>1. \A d \in Nodes : Taken(d)' <=> Taken(d)
    BY <1>2, <1>6, <1>7, ThreadFacts DEF Taken, DaemonsOf
  <2>2. \A d \in Nodes : OutClear(d)' <=> OutClear(d)
    BY <1>2, <2>1 DEF OutClear
  <2>3. \A s \in Daemons : /\ Storing(s)' <=> Storing(s)
                           /\ Storing(s) => held'[s] = held[s]
    BY <1>6, <1>7, ThreadFacts DEF Storing, Busy
  <2>4. \A d \in Nodes : Clear(d)' <=> Clear(d)
    BY <2>2, <2>3 DEF Clear, DaemonsOf
  <2> QED BY <2>1, <2>2, <2>4
<1>9. \A d \in Nodes : \A x : Ahead(queue[d], x) => Ahead(queue'[d], x)
  <2> SUFFICES ASSUME NEW d \in Nodes, NEW x, Ahead(queue[d], x)
               PROVE  Ahead(queue'[d], x)
    OBVIOUS
  <2>1. Ahead(Append(queue[d], m), x)
    BY <1>1, AheadAppend
  <2> QED BY <1>4, <2>1
<1>10. ASSUME NEW d \in Nodes, NEW x, Due(d, x) PROVE Due(d, x)'
  <2>1. \A s \in Daemons : pc[s] \in {"store", "got"} =>
          pc'[s] = pc[s] /\ held'[s] = held[s]
    BY <1>1, <1>7, ThreadFacts DEF Busy
  <2> QED BY <1>2, <1>8, <1>9, <1>10, <2>1 DEF Due, DaemonsOf, Storing
<1>11. ASSUME NEW n \in Nodes, NEW d \in Destinations(n), d \in Nodes, NEW x,
              Sent(n, d, x)
       PROVE  Sent(n, d, x)' \/ Due(d, x)'
  <2>1. PICK s \in DaemonsOf(n) : /\ s[2] # "source" /\ Putting(s)
                                  /\ held[s] = Data(x) /\ Towards(s, d)
    BY <1>11 DEF Sent
  <2>2. s \in Threads
    BY ThreadFacts DEF DaemonsOf
  <2>3. CASE s # t
    <3>1. Putting(s)' /\ held'[s] = Data(x) /\ Towards(s, d)'
      BY <1>7, <2>1, <2>2, <2>3 DEF Putting, Towards, Busy
    <3> QED BY <2>1, <3>1 DEF Sent, DaemonsOf
  <2>4. CASE s = t /\ todo'[t] = todo[t] /\ pc'[t] = "enq" /\ held'[t] = m
    <3>1. Putting(s)' /\ held'[s] = Data(x) /\ Towards(s, d)'
      BY <2>1, <2>4 DEF Putting, Towards, m
    <3> QED BY <2>1, <3>1 DEF Sent, DaemonsOf
  <2>5. CASE s = t /\ todo'[t] = rest /\ pc'[t] # "enq"
    <3>1. CASE \E i \in 1..Len(rest) : rest[i] = d
      <4>1. rest # <<>>
        BY <3>1
      <4>2. Putting(s)' /\ held'[s] = Data(x) /\ Towards(s, d)'
        BY <1>3, <2>1, <2>5, <3>1, <4>1 DEF Putting, Towards, m
      <4> QED BY <2>1, <4>2 DEF Sent, DaemonsOf
    <3>2. CASE d = e
      <4>1. NoStop(d)
        BY <1>6, <1>11, <2>1, <2>5
        DEF MessageInv, StopsLast, Finished, Putting
      <4>2. Clear(d) /\ ~Taken(d) /\ ~Holds(queue[d])
        BY <4>1 DEF NoStop, Clear, OutClear
      <4>3. ~draining[d]
        BY <4>2, <1>11 DEF MessageInv, StopTakes, StopFlags, EventsSet, Taken, Roles
      <4>4. queue'[d] = Append(queue[d], Data(x))
        BY <1>4, <2>1, <2>5, <3>2, <4>3 DEF m
      <4>5. Ahead(queue'[d], x)
        BY <1>1, <1>11, <2>1, <2>5, <4>2, <4>4, AheadAppend DEF m
      <4> QED BY <1>8, <1>11, <4>2, <4>5 DEF Due
    <3> QED BY <1>5, <1>11, <2>1, <2>5, <3>1, <3>2
  <2> QED BY <1>3, <2>3, <2>4, <2>5
<1>12. \A n \in Nodes : Destinations(n) \subseteq Nodes /\ Through(n)' = Through(n)
  BY <1>2 DEF Destinations, NodeAssumption, Through
<1>13. Flow'
  BY <1>10, <1>11, <1>12 DEF MessageInv, Flow
<1>14. StopsLast'
  <2> SUFFICES ASSUME NEW n \in Nodes, NEW d \in Destinations(n), ~Finished(n)'
               PROVE  NoStop(d)'
    BY DEF StopsLast
  <2>1. d \in Nodes /\ NoStop(d)
    BY <1>12 DEF MessageInv, StopsLast, Rest
  <2>2. ASSUME NEW s \in Threads, Putting(s)', IsStop(held'[s]) PROVE ~Towards(s, d)'
    <3>1. CASE s = t
      BY <1>6, <2>1, <2>2, <3>1 DEF NoStop, m
    <3>2. CASE s # t
      BY <1>7, <2>1, <2>2, <3>2 DEF NoStop, Putting, Towards
    <3> QED BY <3>1, <3>2
  <2>3. ~Holds(queue'[d])
    <3>1. CASE queue'[d] = queue[d]
      BY <2>1, <3>1 DEF NoStop
    <3>2. CASE d = e /\ queue'[d] = Append(queue[d], m)
      <4>1. ~IsStop(m)
        BY <1>5, <1>6, <2>1, <3>2 DEF NoStop, m
      <4> QED BY <1>1, <2>1, <3>2, <4>1, AheadAppend DEF NoStop
    <3> QED BY <1>4, <2>1, <3>1, <3>2
  <2> QED BY <1>8, <2>1, <2>2, <2>3 DEF NoStop
<1>15. StopTakes'
  BY <1>6, <1>7, <1>8, ThreadFacts DEF MessageInv, StopTakes
<1>16. Senders'
  <2> SUFFICES ASSUME NEW s \in Threads, Putting(s)' PROVE StopSafe(s)'
    BY DEF Senders
  <2>1. Putting(s) /\ held'[s] = held[s]
    BY <1>6, <1>7 DEF Putting, m
  <2>2. \A d \in Nodes : Towards(s, d)' => Towards(s, d)
    BY <1>6, <1>7 DEF Towards
  <2> QED BY <1>12, <2>1, <2>2 DEF MessageInv, Senders, StopSafe, Rest
<1>17. Propagated'
  <2>1. Known(m) /\ Known(NoMsg)
    BY DEF MessageInv, Propagated, m, Known, NoMsg
  <2>2. \A s \in Threads : Known(held'[s])
    BY <1>3, <1>7, <2>1 DEF MessageInv, Propagated
  <2>3. \A n \in Nodes : \A i \in 1..Len(queue'[n]) : Known(queue'[n][i])
    <3> SUFFICES ASSUME NEW n \in Nodes
                 PROVE  \A i \in 1..Len(queue'[n]) : Known(queue'[n][i])
      OBVIOUS
    <3>1. \A i \in 1..Len(queue[n]) : Known(queue[n][i])
      BY DEF MessageInv, Propagated
    <3>2. \A i \in 1..Len(Append(queue[n], m)) : Known(Append(queue[n], m)[i])
      BY <1>1, <2>1, <3>1, KnownAppend
    <3> QED BY <1>4, <3>1, <3>2
  <2> QED BY <1>2, <2>2, <2>3 DEF MessageInv, Propagated
<1> QED
  BY <1>13, <1>14, <1>15, <1>16, <1>17 DEF MessageInv

\* A step of a thread that is not in put(): what is due stays so or has come,
\* and what is newly given is on its way to all destinations.
LEMMA MoveStep ==
  ASSUME NodeAssumption, MessageInv,
         \A n \in Nodes : Finished(n) => Finished(n)',
         \A s \in Threads : /\ Putting(s) => /\ Putting(s)' /\ held'[s] = held[s]
                                             /\ todo'[s] = todo[s]
                            /\ Putting(s)' => Putting(s) \/ ~IsStop(held'[s]),
         \A d \in Nodes : \A x : Due(d, x) => Due(d, x)' \/ x \in Through(d)',
         \A n \in Nodes : Through(n) \subseteq Through(n)',
         \A n \in Nodes : \A x \in Through(n)' :
           x \in Through(n) \/ \A d \in Destinations(n) : Sent(n, d, x)',
         \A d \in Nodes : Clear(d) /\ ~Holds(queue[d]) => Clear(d)' /\ ~Holds(queue'[d]),
         StopTakes', Propagated'
  PROVE  MessageInv'
<1>1. \A n \in Nodes : Destinations(n) \subseteq Nodes
  BY DEF Destinations, NodeAssumption
<1>2. ASSUME NEW n \in Nodes, NEW d, NEW x, Sent(n, d, x) PROVE Sent(n, d, x)'
  <2>1. PICK s \in DaemonsOf(n) : /\ s[2] # "source" /\ Putting(s)
                                  /\ held[s] = Data(x) /\ Towards(s, d)
    BY <1>2 DEF Sent
  <2>2. s \in Threads
    BY ThreadFacts DEF DaemonsOf
  <2>3. Putting(s)' /\ held'[s] = Data(x) /\ Towards(s, d)'
    BY <2>1, <2>2 DEF Towards
  <2> QED BY <2>1, <2>3 DEF Sent, DaemonsOf
<1>3. Flow'
  <2> SUFFICES ASSUME NEW n \in Nodes, NEW d \in Destinations(n), NEW x \in Through(n)'
               PROVE  x \in Through(d)' \/ Sent(n, d, x)' \/ Due(d, x)'
    BY DEF Flow, Destinations
  <2>1. d \in Nodes
    BY <1>1
  <2>2. CASE x \in Through(n)
    <3>1. x \in Through(d) \/ Sent(n, d, x) \/ Due(d, x)
      BY <2>2 DEF MessageInv, Flow
    <3>2. x \in Through(d) => x \in Through(d)'
      BY <2>1
    <3> QED BY <1>2, <2>1, <3>1, <3>2
  <2>3. CASE x \notin Through(n)
    BY <2>3
  <2> QED BY <2>2, <2>3
<1>4. StopsLast'
  <2> SUFFICES ASSUME NEW n \in Nodes, NEW d \in Destinations(n), ~Finished(n)'
               PROVE  NoStop(d)'
    BY DEF StopsLast, Destinations
  <2>1. d \in Nodes /\ NoStop(d)
    BY <1>1 DEF MessageInv, StopsLast
  <2>2. ASSUME NEW s \in Threads, Putting(s)', IsStop(held'[s]) PROVE ~Towards(s, d)'
    BY <2>1, <2>2 DEF NoStop, Towards
  <2> QED BY <2>1, <2>2 DEF NoStop
<1>5. Senders'
  <2> SUFFICES ASSUME NEW s \in Threads, Putting(s)', IsStop(held'[s])
               PROVE  StopSafe(s)'
    BY DEF Senders, StopSafe
  <2>1. Putting(s) /\ held'[s] = held[s] /\ todo'[s] = todo[s] /\ StopSafe(s)
    BY DEF MessageInv, Senders
  <2> QED BY <1>1, <2>1 DEF StopSafe, Towards
<1> QED BY <1>3, <1>4, <1>5 DEF MessageInv

\* The threads but t are where they were.
Alone(t) ==
  \A x \in Threads \ {t} : pc'[x] = pc[x] /\ held'[x] = held[x] /\ todo'[x] = todo[x]

LEMMA WorkerGetMessages ==
  ASSUME NodeAssumption, TypeInv, MessageInv,
         \A n \in Nodes : Finished(n) => Finished(n)',
         NEW t \in Daemons, WorkerGet(t)
  PROVE  MessageInv'
<1> DEFINE n == t[1]
           m == Head(queue[n])
           relay == suspended[n] /\ ~IsControl(m)
<1>1. /\ n \in Nodes /\ t \in Threads /\ Dest[n] \in Seq(Nodes)
      /\ queue \in [Nodes -> Seq(Messages)] /\ queue[n] # <<>>
      /\ pc \in [Threads -> Labels] /\ held \in [Threads -> Messages \cup {NoMsg}]
      /\ relayed \in [Nodes -> SUBSET Ids]
  BY ThreadFacts DEF TypeInv, TypeOK, WorkerGet, NodeAssumption
<1>2. /\ t[2] = "worker" /\ pc[t] = "get"
      /\ queue' = [queue EXCEPT ![n] = Tail(@)]
      /\ UNCHANGED <<outq, draining, stopEvt, received>>
  BY DEF WorkerGet
<1>3. /\ Alone(t)
      /\ \/ relay /\ todo'[t] = Dest[n] /\ relayed' = [relayed EXCEPT ![n] = @ \cup {m.id}]
            /\ \/ Dest[n] = <<>> /\ pc'[t] = "top" /\ held'[t] = NoMsg
               \/ Dest[n] # <<>> /\ pc'[t] = "put" /\ held'[t] = m
         \/ ~relay /\ pc'[t] = "store" /\ held'[t] = m /\ relayed' = relayed
  <2>1. CASE relay
    <3>1. Sending(t, m, Dest[n]) /\ relayed' = [relayed EXCEPT ![n] = @ \cup {m.id}]
      BY <2>1 DEF WorkerGet
    <3>2. Resume(t) = "top"
      BY <1>2 DEF Resume, AfterCall
    <3> HIDE DEF n, m
    <3> QED BY <1>1, <2>1, <3>1, <3>2, SendingPc DEF Alone
  <2>2. CASE ~relay
    BY <1>1, <2>2 DEF WorkerGet, Goto, Alone
  <2> QED BY <2>1, <2>2
<1>4. m \in Messages /\ (~IsControl(m) => \E x \in Ids : m = Data(x))
  BY <1>1 DEF Messages, DataMessages, IsControl, Data
<1>5. \A x : m = Data(x) => ~IsStop(m) /\ ~IsControl(m) /\ m.id = x
  BY DEF Data, IsStop, IsControl, Negative, Signals
<1>6. \A d \in Nodes : d # n => queue'[d] = queue[d]
  BY <1>1, <1>2
<1>7. queue'[n] = Tail(queue[n])
  BY <1>1, <1>2
<1>8. \A x : /\ Ahead(queue[n], x) => m = Data(x) \/ (Ahead(queue'[n], x) /\ ~IsStop(m))
             /\ IsStop(m) => Holds(queue[n])
             /\ Holds(queue'[n]) => Holds(queue[n])
  <2> SUFFICES ASSUME NEW x
               PROVE  /\ Ahead(queue[n], x) => m = Data(x) \/ (Ahead(queue'[n], x) /\ ~IsStop(m))
                      /\ IsStop(m) => Holds(queue[n])
                      /\ Holds(queue'[n]) => Holds(queue[n])
    OBVIOUS
  <2> DEFINE q == queue[n]
  <2>1. q \in Seq(Messages) /\ q # <<>> /\ queue'[n] = Tail(q) /\ m = Head(q)
    BY <1>1, <1>7
  <2> HIDE DEF q, m
  <2>2. /\ Ahead(q, x) => Head(q) = Data(x) \/ (Ahead(Tail(q), x) /\ ~IsStop(Head(q)))
        /\ IsStop(Head(q)) => Holds(q)
        /\ Holds(Tail(q)) => Holds(q)
    BY <2>1, AheadTail
  <2> QED BY <2>1, <2>2 DEF q
<1> HIDE DEF n, m
<1>9. \A s \in Threads \ {t} : pc'[s] = pc[s] /\ held'[s] = held[s] /\ todo'[s] = todo[s]
  BY <1>3 DEF Alone
<1>10. /\ ~Putting(t) /\ ~Storing(t) /\ pc[t] \notin {"dead", "got", "ctl"}
       /\ pc'[t] \notin {"dead", "got", "ctl"}
       /\ Putting(t)' => ~IsStop(held'[t])
  <2>1. relay => ~IsStop(m)
    BY <1>4, <1>5
  <2> QED BY <1>2, <1>3, <2>1 DEF Putting, Storing, relay
<1>11. \A d \in Nodes : /\ Taken(d)' <=> Taken(d)
                        /\ OutClear(d)' <=> OutClear(d)
  BY <1>2, <1>9, <1>10, ThreadFacts DEF Taken, OutClear, DaemonsOf
<1>12. \A d \in Nodes : Clear(d) /\ (d = n => ~IsStop(m)) => Clear(d)'
  <2>1. Storing(t)' => held'[t] = m
    BY <1>2, <1>3 DEF Storing
  <2>2. \A s \in Daemons : s # t => (Storing(s)' <=> Storing(s)) /\ held'[s] = held[s]
    BY <1>9, ThreadFacts DEF Storing
  <2> QED BY <1>11, <2>1, <2>2 DEF Clear, DaemonsOf, n
<1>13. \A k \in Nodes : Through(k)' = IF k = n /\ relay THEN Through(k) \cup {m.id}
                                                        ELSE Through(k)
  BY <1>1, <1>2, <1>3 DEF Through
<1>14. ASSUME NEW d \in Nodes, NEW x, Due(d, x) PROVE Due(d, x)' \/ x \in Through(d)'
  <2>1. \A s \in Daemons : s # t => /\ pc'[s] = pc[s] /\ held'[s] = held[s]
                                    /\ Storing(s)' <=> Storing(s)
    BY <1>9, ThreadFacts DEF Storing
  <2>2. CASE \E s \in DaemonsOf(d) : s[2] = "update" /\ pc[s] = "got" /\ held[s] = Data(x)
    BY <1>10, <2>1, <2>2 DEF Due, DaemonsOf
  <2>3. CASE ~Taken(d) /\ Ahead(outq[d], x)
    BY <1>2, <1>11, <2>3 DEF Due
  <2>4. CASE OutClear(d) /\ \E s \in DaemonsOf(d) : Storing(s) /\ held[s] = Data(x)
    BY <1>10, <1>11, <2>1, <2>4 DEF Due, DaemonsOf
  <2>5. CASE Clear(d) /\ Ahead(queue[d], x)
    <3>1. CASE d # n \/ m # Data(x)
      <4>1. Ahead(queue'[d], x) /\ (d = n => ~IsStop(m))
        BY <1>6, <1>8, <2>5, <3>1
      <4> QED BY <1>12, <2>5, <4>1 DEF Due
    <3>2. CASE d = n /\ m = Data(x) /\ relay
      BY <1>5, <1>13, <3>2
    <3>3. CASE d = n /\ m = Data(x) /\ ~relay
      <4>1. Storing(t)' /\ held'[t] = Data(x) /\ t \in DaemonsOf(d)
        BY <1>2, <1>3, <3>3 DEF Storing, DaemonsOf, n
      <4>2. OutClear(d)'
        BY <1>11, <2>5 DEF Clear
      <4> QED BY <4>1, <4>2 DEF Due
    <3> QED BY <3>1, <3>2, <3>3
  <2> QED BY <1>14, <2>2, <2>3, <2>4, <2>5 DEF Due
<1>15. ASSUME NEW k \in Nodes, NEW x \in Through(k)', x \notin Through(k),
              NEW d \in Destinations(k)
       PROVE  Sent(k, d, x)'
  <2>1. k = n /\ relay /\ x = m.id
    BY <1>13, <1>15
  <2>2. PICK i \in 1..Len(Dest[n]) : Dest[n][i] = d
    BY <1>15, <2>1 DEF Destinations
  <2>3. /\ pc'[t] = "put" /\ held'[t] = m /\ todo'[t] = Dest[n]
    BY <1>1, <1>3, <2>1, <2>2
  <2>4. m = Data(x)
    BY <1>4, <1>5, <2>1 DEF relay
  <2>5. Towards(t, d)' /\ Putting(t)'
    BY <2>2, <2>3 DEF Towards, Putting
  <2> QED BY <1>2, <2>1, <2>3, <2>4, <2>5 DEF Sent, DaemonsOf, n
<1>16. \A d \in Nodes : Clear(d) /\ ~Holds(queue[d]) => Clear(d)' /\ ~Holds(queue'[d])
  BY <1>6, <1>8, <1>12
<1>17. StopTakes'
  BY <1>2, <1>9, <1>10, <1>11, ThreadFacts DEF MessageInv, StopTakes, StopFlags, EventsSet
<1>18. Propagated'
  <2>1. Known(m) /\ \A i \in 1..Len(queue'[n]) : Known(queue'[n][i])
    BY <1>1, <1>7, KnownAppend DEF MessageInv, Propagated, m
  <2>2. Known(NoMsg)
    BY DEF Known, NoMsg
  <2>3. \A s \in Threads : Known(held'[s])
    <3>1. CASE ~relay \/ Dest[n] # <<>>
      BY <1>3, <1>9, <2>1, <3>1 DEF MessageInv, Propagated
    <3>2. CASE relay /\ Dest[n] = <<>>
      BY <1>3, <1>9, <2>2, <3>2 DEF MessageInv, Propagated
    <3> QED BY <3>1, <3>2
  <2> QED BY <1>2, <1>6, <2>1, <2>3 DEF MessageInv, Propagated
<1>19. \A s \in Threads : /\ Putting(s) => /\ Putting(s)' /\ held'[s] = held[s]
                                           /\ todo'[s] = todo[s]
                          /\ Putting(s)' => Putting(s) \/ ~IsStop(held'[s])
  BY <1>9, <1>10 DEF Putting
<1>20. \A k \in Nodes : Through(k) \subseteq Through(k)'
  BY <1>13
<1> QED
  BY <1>14, <1>15, <1>16, <1>17, <1>18, <1>19, <1>20, MoveStep

\* What the worker holds joins the out queue, behind all that is in it.
LEMMA WorkerStoreMessages ==
  ASSUME NodeAssumption, TypeInv, StopInv, MessageInv,
         \A n \in Nodes : Finished(n) => Finished(n)',
         NEW t \in Daemons, t[2] = "worker", WorkerStore(t)
  PROVE  MessageInv'
<1> DEFINE n == t[1]
           m == held[t]
<1>1. /\ n \in Nodes /\ t \in Threads /\ m \in Messages
      /\ outq \in [Nodes -> Seq(Messages)] /\ outq[n] \in Seq(Messages)
      /\ pc \in [Threads -> Labels] /\ held \in [Threads -> Messages \cup {NoMsg}]
  BY ThreadFacts DEF TypeInv, TypeOK, Hands, WorkerStore
<1>2. /\ t[2] = "worker" /\ pc[t] = "store"
      /\ outq' = [outq EXCEPT ![n] = Append(@, m)]
      /\ held' = [held EXCEPT ![t] = NoMsg] /\ pc' = [pc EXCEPT ![t] = "top"]
      /\ UNCHANGED <<queue, draining, stopEvt, received, relayed, todo>>
  BY DEF WorkerStore, Goto
<1>3. /\ \A s \in Threads \ {t} : pc'[s] = pc[s] /\ held'[s] = held[s] /\ todo'[s] = todo[s]
      /\ held'[t] = NoMsg /\ pc'[t] = "top"
  BY <1>1, <1>2
<1>4. \A d \in Nodes : d # n => outq'[d] = outq[d]
  BY <1>1, <1>2
<1>5. outq'[n] = Append(outq[n], m)
  BY <1>1, <1>2
<1>6. \A x : /\ Ahead(outq[n], x) => Ahead(outq'[n], x)
             /\ ~Holds(outq[n]) /\ m = Data(x) => Ahead(outq'[n], x)
             /\ Holds(outq'[n]) => Holds(outq[n]) \/ IsStop(m)
  BY <1>1, <1>5, AheadAppend
<1> HIDE DEF n, m
<1>7. Storing(t) /\ ~Storing(t)'
  BY <1>2, <1>3 DEF Storing
<1>8. \A d \in Nodes : Taken(d)' <=> Taken(d)
  BY <1>2, <1>3, ThreadFacts DEF Taken, DaemonsOf
<1>9. \A s \in Daemons : s # t => /\ pc'[s] = pc[s] /\ held'[s] = held[s]
                                  /\ Storing(s)' <=> Storing(s)
  BY <1>3, ThreadFacts DEF Storing
<1>10. \A d \in Nodes : Clear(d) => Clear(d)'
  <2> SUFFICES ASSUME NEW d \in Nodes, Clear(d) PROVE Clear(d)'
    OBVIOUS
  <2>1. ~Holds(outq'[d])
    <3>1. d = n => ~IsStop(m)
      BY <1>7 DEF Clear, DaemonsOf, n, m
    <3> QED BY <1>4, <1>6, <3>1 DEF Clear, OutClear
  <2> QED BY <1>7, <1>8, <1>9, <2>1 DEF Clear, OutClear, DaemonsOf
<1>11. ASSUME NEW d \in Nodes, NEW x, Due(d, x) PROVE Due(d, x)'
  <2>1. CASE \E s \in DaemonsOf(d) : s[2] = "update" /\ pc[s] = "got" /\ held[s] = Data(x)
    BY <1>2, <1>9, <2>1 DEF Due, DaemonsOf
  <2>2. CASE ~Taken(d) /\ Ahead(outq[d], x)
    BY <1>4, <1>6, <1>8, <2>2 DEF Due
  <2>3. CASE OutClear(d) /\ \E s \in DaemonsOf(d) : Storing(s) /\ held[s] = Data(x)
    <3>1. PICK s \in DaemonsOf(d) : Storing(s) /\ held[s] = Data(x)
      BY <2>3
    <3>2. CASE d = n
      <4>1. s = t
        BY <1>2, <3>1, <3>2, OneAlive DEF Storing, DaemonsOf, Alive, n
      <4>2. Ahead(outq'[d], x)
        BY <1>6, <2>3, <3>1, <3>2, <4>1 DEF OutClear, m
      <4> QED BY <1>8, <2>3, <4>2 DEF Due, OutClear
    <3>3. CASE d # n
      <4>1. s # t
        BY <3>3 DEF DaemonsOf, n
      <4> QED BY <1>4, <1>8, <1>9, <2>3, <3>1, <3>3, <4>1 DEF Due, OutClear, DaemonsOf
    <3> QED BY <3>2, <3>3
  <2>4. CASE Clear(d) /\ Ahead(queue[d], x)
    BY <1>2, <1>10, <2>4 DEF Due
  <2> QED BY <1>11, <2>1, <2>2, <2>3, <2>4 DEF Due
<1>12. \A k \in Nodes : Through(k)' = Through(k)
  BY <1>2 DEF Through
<1>13. \A d \in Nodes : Clear(d) /\ ~Holds(queue[d]) => Clear(d)' /\ ~Holds(queue'[d])
  BY <1>2, <1>10
<1>14. StopTakes'
  BY <1>2, <1>3, <1>8, ThreadFacts DEF MessageInv, StopTakes, StopFlags, EventsSet
<1>15. Propagated'
  <2>1. Known(m) /\ Known(NoMsg)
    BY <1>1 DEF MessageInv, Propagated, Known, NoMsg, m
  <2>2. \A i \in 1..Len(outq'[n]) : Known(outq'[n][i])
    BY <1>1, <1>5, <2>1, KnownAppend DEF MessageInv, Propagated, m
  <2>3. \A s \in Threads : Known(held'[s])
    BY <1>3, <2>1 DEF MessageInv, Propagated
  <2> QED BY <1>2, <1>4, <2>2, <2>3 DEF MessageInv, Propagated
<1>16. \A s \in Threads : /\ Putting(s) => /\ Putting(s)' /\ held'[s] = held[s]
                                           /\ todo'[s] = todo[s]
                          /\ Putting(s)' => Putting(s) \/ ~IsStop(held'[s])
  BY <1>2, <1>3 DEF Putting
<1> QED
  BY <1>11, <1>12, <1>13, <1>14, <1>15, <1>16, MoveStep

\* update() is given what was at the head of the out queue.
LEMMA UpdateGetDataMessages ==
  ASSUME NodeAssumption, TypeInv, MessageInv,
         \A n \in Nodes : Finished(n) => Finished(n)',
         NEW t \in Daemons, UpdateGetData(t)
  PROVE  MessageInv'
<1> DEFINE n == t[1]
           m == Head(outq[n])
<1>1. /\ n \in Nodes /\ t \in Threads /\ outq[n] # <<>>
      /\ outq \in [Nodes -> Seq(Messages)] /\ outq[n] \in Seq(Messages)
      /\ pc \in [Threads -> Labels] /\ held \in [Threads -> Messages \cup {NoMsg}]
  BY ThreadFacts DEF TypeInv, TypeOK, UpdateGetData
<1>2. /\ t[2] = "update" /\ pc[t] = "get"
      /\ outq' = [outq EXCEPT ![n] = Tail(@)]
      /\ held' = [held EXCEPT ![t] = m] /\ pc' = [pc EXCEPT ![t] = "got"]
      /\ UNCHANGED <<queue, draining, stopEvt, received, relayed, todo>>
  BY DEF UpdateGetData, Goto
<1>3. /\ \A s \in Threads \ {t} : pc'[s] = pc[s] /\ held'[s] = held[s] /\ todo'[s] = todo[s]
      /\ held'[t] = m /\ pc'[t] = "got"
  BY <1>1, <1>2
<1>4. \A d \in Nodes : d # n => outq'[d] = outq[d]
  BY <1>1, <1>2
<1>5. outq'[n] = Tail(outq[n])
  BY <1>1, <1>2
<1>6. \A x : /\ Ahead(outq[n], x) => m = Data(x) \/ Ahead(outq'[n], x)
             /\ Holds(outq'[n]) => Holds(outq[n])
  <2> SUFFICES ASSUME NEW x
               PROVE  /\ Ahead(outq[n], x) => m = Data(x) \/ Ahead(outq'[n], x)
                      /\ Holds(outq'[n]) => Holds(outq[n])
    OBVIOUS
  <2> DEFINE q == outq[n]
  <2>1. q \in Seq(Messages) /\ q # <<>> /\ outq'[n] = Tail(q) /\ m = Head(q)
    BY <1>1, <1>5
  <2> HIDE DEF q, m
  <2>2. /\ Ahead(q, x) => Head(q) = Data(x) \/ (Ahead(Tail(q), x) /\ ~IsStop(Head(q)))
        /\ IsStop(Head(q)) => Holds(q)
        /\ Holds(Tail(q)) => Holds(q)
    BY <2>1, AheadTail
  <2> QED BY <2>1, <2>2 DEF q
<1> HIDE DEF n, m
<1>7. \A s \in Daemons : /\ Storing(s)' <=> Storing(s)
                         /\ s # t => pc'[s] = pc[s] /\ held'[s] = held[s]
                         /\ Storing(s) => s # t
  BY <1>2, <1>3, ThreadFacts DEF Storing
<1>8. \A d \in Nodes : Taken(d)' <=> Taken(d)
  BY <1>2, <1>3, ThreadFacts DEF Taken, DaemonsOf
<1>9. \A d \in Nodes : /\ OutClear(d) => OutClear(d)'
                       /\ Clear(d) => Clear(d)'
  <2>1. \A d \in Nodes : OutClear(d) => OutClear(d)'
    BY <1>4, <1>6, <1>8 DEF OutClear
  <2> QED BY <1>7, <2>1 DEF Clear, DaemonsOf
<1>10. ASSUME NEW d \in Nodes, NEW x, Due(d, x) PROVE Due(d, x)'
  <2>1. CASE \E s \in DaemonsOf(d) : s[2] = "update" /\ pc[s] = "got" /\ held[s] = Data(x)
    BY <1>2, <1>7, <2>1 DEF Due, DaemonsOf
  <2>2. CASE ~Taken(d) /\ Ahead(outq[d], x)
    <3>1. CASE d = n /\ m = Data(x)
      BY <1>2, <1>3, <3>1 DEF Due, DaemonsOf, n
    <3>2. CASE d # n \/ m # Data(x)
      BY <1>4, <1>6, <1>8, <2>2, <3>2 DEF Due
    <3> QED BY <3>1, <3>2
  <2>3. CASE OutClear(d) /\ \E s \in DaemonsOf(d) : Storing(s) /\ held[s] = Data(x)
    BY <1>7, <1>9, <2>3 DEF Due, DaemonsOf
  <2>4. CASE Clear(d) /\ Ahead(queue[d], x)
    BY <1>2, <1>9, <2>4 DEF Due
  <2> QED BY <1>10, <2>1, <2>2, <2>3, <2>4 DEF Due
<1>11. \A k \in Nodes : Through(k)' = Through(k)
  BY <1>2 DEF Through
<1>12. \A d \in Nodes : Clear(d) /\ ~Holds(queue[d]) => Clear(d)' /\ ~Holds(queue'[d])
  BY <1>2, <1>9
<1>13. StopTakes'
  BY <1>2, <1>3, <1>8, ThreadFacts DEF MessageInv, StopTakes, StopFlags, EventsSet
<1>14. Propagated'
  <2>1. Known(m) /\ \A i \in 1..Len(outq'[n]) : Known(outq'[n][i])
    BY <1>1, <1>5, KnownAppend DEF MessageInv, Propagated, m
  <2>2. \A s \in Threads : Known(held'[s])
    BY <1>3, <2>1 DEF MessageInv, Propagated
  <2> QED BY <1>2, <1>4, <2>1, <2>2 DEF MessageInv, Propagated
<1>15. \A s \in Threads : /\ Putting(s) => /\ Putting(s)' /\ held'[s] = held[s]
                                           /\ todo'[s] = todo[s]
                          /\ Putting(s)' => Putting(s) \/ ~IsStop(held'[s])
  BY <1>2, <1>3 DEF Putting
<1> QED
  BY <1>10, <1>11, <1>12, <1>13, <1>14, <1>15, MoveStep

\* What update() has been given it transmits to every destination.
LEMMA UpdateCallMessages ==
  ASSUME NodeAssumption, TypeInv, MessageInv,
         \A n \in Nodes : Finished(n) => Finished(n)',
         NEW t \in Daemons, t[2] = "update", UpdateCall(t)
  PROVE  MessageInv'
<1> DEFINE n == t[1]
           m == held[t]
<1>1. /\ n \in Nodes /\ t \in Threads /\ m \in DataMessages /\ Dest[n] \in Seq(Nodes)
      /\ received \in [Nodes -> Seq(Ids)] /\ received[n] \in Seq(Ids)
  BY ThreadFacts DEF TypeInv, TypeOK, Hands, UpdateCall, NodeAssumption
<1>2. /\ pc[t] = "got" /\ Sending(t, m, Dest[n])
      /\ received' = [received EXCEPT ![n] = Append(@, m.id)]
      /\ UNCHANGED <<queue, outq, draining, stopEvt, relayed>>
  BY DEF UpdateCall
<1>3. PICK y \in Ids : m = Data(y) /\ m.id = y /\ ~IsStop(m)
  BY <1>1 DEF DataMessages, Data, IsStop, Negative
<1> HIDE DEF n, m
<1>4. /\ \A s \in Threads \ {t} : pc'[s] = pc[s] /\ held'[s] = held[s] /\ todo'[s] = todo[s]
      /\ pc'[t] = (IF Dest[n] = <<>> THEN Resume(t) ELSE "put")
      /\ held'[t] = (IF Dest[n] = <<>> THEN NoMsg ELSE m) /\ todo'[t] = Dest[n]
  BY <1>1, <1>2, SendingPc
<1>5. /\ pc'[t] \in {"finally", "put"} /\ ~IsStop(held'[t])
      /\ Dest[n] # <<>> => pc'[t] = "put" /\ held'[t] = m
  <2>1. Resume(t) = "finally" /\ ~IsStop(NoMsg)
    BY DEF Resume, AfterCall, IsStop, NoMsg, Negative
  <2> QED BY <1>3, <1>4, <2>1
<1>6. \A s \in Daemons : /\ Storing(s)' <=> Storing(s)
                         /\ s # t => pc'[s] = pc[s] /\ held'[s] = held[s]
                         /\ Storing(s) => s # t
  BY <1>2, <1>4, <1>5, ThreadFacts DEF Storing
<1>7. \A d \in Nodes : Taken(d)' <=> Taken(d)
  BY <1>2, <1>4, <1>5, ThreadFacts DEF Taken, DaemonsOf
<1>8. \A d \in Nodes : /\ OutClear(d)' <=> OutClear(d)
                       /\ Clear(d) => Clear(d)'
  BY <1>2, <1>6, <1>7 DEF OutClear, Clear, DaemonsOf
<1>9. \A k \in Nodes : Through(k)' = IF k = n THEN Through(k) \cup {y} ELSE Through(k)
  <2>1. \A k \in Nodes : k # n => received'[k] = received[k]
    BY <1>1, <1>2
  <2>2. received'[n] = Append(received[n], y)
    BY <1>1, <1>2, <1>3
  <2>3. IdsIn(received'[n]) = IdsIn(received[n]) \cup {y}
    <3> DEFINE q == received[n]
               r == Append(q, y)
    <3>1. /\ Len(q) \in Nat /\ Len(r) = Len(q) + 1 /\ r[Len(q) + 1] = y
          /\ \A i \in 1..Len(q) : r[i] = q[i]
      BY <1>1
    <3> HIDE DEF q, r
    <3>2. {r[i] : i \in 1..Len(r)} = {q[i] : i \in 1..Len(q)} \cup {y}
      <4>1. 1..Len(r) = (1..Len(q)) \cup {Len(q) + 1}
        BY <3>1
      <4>2. \A i \in 1..Len(r) : i \in 1..Len(q) \/ i = Len(q) + 1
        BY <4>1
      <4>3. Len(q) + 1 \in 1..Len(r) /\ \A i \in 1..Len(q) : i \in 1..Len(r)
        BY <4>1
      <4> QED BY <3>1, <4>2, <4>3
    <3> QED BY <2>2, <3>2 DEF IdsIn, q, r
  <2> QED BY <1>2, <2>1, <2>3 DEF Through
<1>10. ASSUME NEW d \in Nodes, NEW x, Due(d, x) PROVE Due(d, x)' \/ x \in Through(d)'
  <2>1. CASE \E s \in DaemonsOf(d) : s[2] = "update" /\ pc[s] = "got" /\ held[s] = Data(x)
    <3>1. PICK s \in DaemonsOf(d) : s[2] = "update" /\ pc[s] = "got" /\ held[s] = Data(x)
      BY <2>1
    <3>2. CASE s = t
      <4>1. d = n
        BY <3>1, <3>2 DEF DaemonsOf, n
      <4>2. x = y
        BY <1>3, <3>1, <3>2 DEF Data, m
      <4> QED BY <1>9, <4>1, <4>2
    <3>3. CASE s # t
      BY <1>6, <3>1, <3>3 DEF Due, DaemonsOf
    <3> QED BY <3>2, <3>3
  <2>2. CASE ~Taken(d) /\ Ahead(outq[d], x)
    BY <1>2, <1>7, <2>2 DEF Due
  <2>3. CASE OutClear(d) /\ \E s \in DaemonsOf(d) : Storing(s) /\ held[s] = Data(x)
    BY <1>6, <1>8, <2>3 DEF Due, DaemonsOf
  <2>4. CASE Clear(d) /\ Ahead(queue[d], x)
    BY <1>2, <1>8, <2>4 DEF Due
  <2> QED BY <1>10, <2>1, <2>2, <2>3, <2>4 DEF Due
<1>11. ASSUME NEW k \in Nodes, NEW x \in Through(k)', x \notin Through(k),
              NEW d \in Destinations(k)
       PROVE  Sent(k, d, x)'
  <2>1. k = n /\ x = y
    BY <1>9, <1>11
  <2>2. PICK i \in 1..Len(Dest[n]) : Dest[n][i] = d
    BY <1>11, <2>1 DEF Destinations
  <2>3. /\ pc'[t] = "put" /\ held'[t] = m /\ todo'[t] = Dest[n]
    BY <1>1, <1>4, <1>5, <2>2
  <2>4. Towards(t, d)' /\ Putting(t)' /\ t[2] # "source"
    BY <2>2, <2>3 DEF Towards, Putting
  <2> QED BY <1>2, <1>3, <2>1, <2>3, <2>4 DEF Sent, DaemonsOf, n
<1>12. \A d \in Nodes : Clear(d) /\ ~Holds(queue[d]) => Clear(d)' /\ ~Holds(queue'[d])
  BY <1>2, <1>8
<1>13. StopTakes'
  BY <1>2, <1>4, <1>5, <1>7, ThreadFacts DEF MessageInv, StopTakes, StopFlags, EventsSet
<1>14. Propagated'
  <2>1. Known(NoMsg)
    BY DEF Known, NoMsg
  <2>2. \A s \in Threads : Known(held'[s])
    BY <1>1, <1>4, <2>1 DEF MessageInv, Propagated, m
  <2> QED BY <1>2, <2>2 DEF MessageInv, Propagated
<1>15. \A s \in Threads : /\ Putting(s) => /\ Putting(s)' /\ held'[s] = held[s]
                                           /\ todo'[s] = todo[s]
                          /\ Putting(s)' => Putting(s) \/ ~IsStop(held'[s])
  BY <1>2, <1>4, <1>5 DEF Putting
<1>16. \A k \in Nodes : Through(k) \subseteq Through(k)'
  BY <1>9
<1> QED
  BY <1>10, <1>11, <1>12, <1>13, <1>14, <1>15, <1>16, MoveStep

\* The update thread takes a control message: if it is a stop nothing that is
\* due was behind it.
LEMMA GetControlMessages ==
  ASSUME NodeAssumption, TypeInv, MessageInv,
         \A n \in Nodes : Finished(n) => Finished(n)',
         NEW t \in Daemons, UpdateGetControl(t)
  PROVE  MessageInv'
<1> DEFINE n == t[1]
           m == Head(outq[n])
<1>1. /\ n \in Nodes /\ t \in Threads /\ outq[n] # <<>>
      /\ outq \in [Nodes -> Seq(Messages)] /\ outq[n] \in Seq(Messages)
      /\ pc \in [Threads -> Labels] /\ held \in [Threads -> Messages \cup {NoMsg}]
  BY ThreadFacts DEF TypeInv, TypeOK, UpdateGetControl
<1>2. PICK c \in Controls :
        /\ c[1] = n /\ pc[c] = "none"
        /\ held' = [held EXCEPT ![c] = m]
        /\ pc' = [pc EXCEPT ![c] = "ctl",
                            ![t] = IF m.kind \in Negative THEN "dead" ELSE "top"]
  BY DEF UpdateGetControl
<1>3. /\ t[2] = "update" /\ pc[t] = "get" /\ IsControl(m)
      /\ outq' = [outq EXCEPT ![n] = Tail(@)]
      /\ UNCHANGED <<queue, draining, stopEvt, received, relayed, todo>>
  BY DEF UpdateGetControl
<1>4. c \in Threads /\ c # t /\ c \notin Daemons
  BY ThreadFacts
<1>5. /\ \A s \in Threads \ {t, c} : pc'[s] = pc[s] /\ held'[s] = held[s] /\ todo'[s] = todo[s]
      /\ held'[c] = m /\ pc'[c] = "ctl"
      /\ held'[t] = held[t] /\ pc'[t] = (IF IsStop(m) THEN "dead" ELSE "top")
  BY <1>1, <1>2, <1>3, <1>4 DEF IsStop
<1>6. \A d \in Nodes : d # n => outq'[d] = outq[d]
  BY <1>1, <1>3
<1>7. outq'[n] = Tail(outq[n])
  BY <1>1, <1>3
<1>8. \A x : /\ Ahead(outq[n], x) => m = Data(x) \/ (Ahead(outq'[n], x) /\ ~IsStop(m))
             /\ IsStop(m) => Holds(outq[n])
             /\ Holds(outq'[n]) => Holds(outq[n])
  <2> SUFFICES ASSUME NEW x
               PROVE  /\ Ahead(outq[n], x) => m = Data(x) \/ (Ahead(outq'[n], x) /\ ~IsStop(m))
                      /\ IsStop(m) => Holds(outq[n])
                      /\ Holds(outq'[n]) => Holds(outq[n])
    OBVIOUS
  <2> DEFINE q == outq[n]
  <2>1. q \in Seq(Messages) /\ q # <<>> /\ outq'[n] = Tail(q) /\ m = Head(q)
    BY <1>1, <1>7
  <2> HIDE DEF q, m
  <2>2. /\ Ahead(q, x) => Head(q) = Data(x) \/ (Ahead(Tail(q), x) /\ ~IsStop(Head(q)))
        /\ IsStop(Head(q)) => Holds(q)
        /\ Holds(Tail(q)) => Holds(q)
    BY <2>1, AheadTail
  <2> QED BY <2>1, <2>2 DEF q
<1>9. \A x : m # Data(x)
  BY <1>3 DEF IsControl, Data, Signals
<1> HIDE DEF n, m
<1>10. \A s \in Daemons : /\ Storing(s)' <=> Storing(s)
                          /\ held'[s] = held[s]
                          /\ s # t => pc'[s] = pc[s]
                          /\ pc[s] = "got" => s # t
  BY <1>3, <1>4, <1>5, ThreadFacts DEF Storing
<1>11. \A d \in Nodes : /\ Taken(d) => Taken(d)'
                        /\ ~Taken(d) /\ (d = n => ~IsStop(m)) => ~Taken(d)'
  <2>1. \A s \in Daemons : /\ pc[s] = "dead" => pc'[s] = "dead"
                           /\ pc'[s] = "dead" => pc[s] = "dead" \/ (s[1] = n /\ IsStop(m))
    BY <1>3, <1>5, <1>10 DEF n
  <2> QED BY <1>3, <2>1 DEF Taken, DaemonsOf
<1>12. \A d \in Nodes : /\ OutClear(d) => OutClear(d)'
                        /\ Clear(d) => Clear(d)'
  <2>1. \A d \in Nodes : OutClear(d) => OutClear(d)'
    BY <1>6, <1>8, <1>11 DEF OutClear
  <2> QED BY <1>10, <2>1 DEF Clear, DaemonsOf
<1>13. ASSUME NEW d \in Nodes, NEW x, Due(d, x) PROVE Due(d, x)'
  <2>1. CASE \E s \in DaemonsOf(d) : s[2] = "update" /\ pc[s] = "got" /\ held[s] = Data(x)
    BY <1>10, <2>1 DEF Due, DaemonsOf
  <2>2. CASE ~Taken(d) /\ Ahead(outq[d], x)
    BY <1>6, <1>8, <1>9, <1>11, <2>2 DEF Due
  <2>3. CASE OutClear(d) /\ \E s \in DaemonsOf(d) : Storing(s) /\ held[s] = Data(x)
    BY <1>10, <1>12, <2>3 DEF Due, DaemonsOf
  <2>4. CASE Clear(d) /\ Ahead(queue[d], x)
    BY <1>3, <1>12, <2>4 DEF Due
  <2> QED BY <1>13, <2>1, <2>2, <2>3, <2>4 DEF Due
<1>14. \A k \in Nodes : Through(k)' = Through(k)
  BY <1>3 DEF Through
<1>15. \A d \in Nodes : Clear(d) /\ ~Holds(queue[d]) => Clear(d)' /\ ~Holds(queue'[d])
  BY <1>3, <1>12
<1>16. StopTakes'
  <2>1. StopFlags'
    BY <1>3, <1>5, <1>10, ThreadFacts DEF MessageInv, StopTakes, StopFlags, EventsSet
  <2>2. IsStop(m) => Taken(n)'
    BY <1>3, <1>5 DEF Taken, DaemonsOf, n
  <2>3. \A s \in Controls : s # c => pc'[s] = pc[s] /\ held'[s] = held[s] /\ s[1] \in Nodes
    BY <1>5, ThreadFacts
  <2>4. \A s \in Controls : pc'[s] = "ctl" /\ IsStop(held'[s]) => Taken(s[1])'
    <3> SUFFICES ASSUME NEW s \in Controls, pc'[s] = "ctl", IsStop(held'[s])
                 PROVE  Taken(s[1])'
      OBVIOUS
    <3>1. CASE s = c
      BY <1>2, <1>5, <2>2, <3>1
    <3>2. CASE s # c
      <4>1. s[1] \in Nodes /\ Taken(s[1])
        BY <2>3, <3>2 DEF MessageInv, StopTakes
      <4> QED BY <1>11, <4>1
    <3> QED BY <3>1, <3>2
  <2> QED BY <2>1, <2>4 DEF StopTakes
<1>17. Propagated'
  <2>1. Known(m) /\ \A i \in 1..Len(outq'[n]) : Known(outq'[n][i])
    BY <1>1, <1>7, KnownAppend DEF MessageInv, Propagated, m
  <2>2. \A s \in Threads : Known(held'[s])
    BY <1>5, <2>1 DEF MessageInv, Propagated
  <2> QED BY <1>3, <1>6, <2>1, <2>2 DEF MessageInv, Propagated
<1>18. \A s \in Threads : /\ Putting(s) => /\ Putting(s)' /\ held'[s] = held[s]
                                           /\ todo'[s] = todo[s]
                          /\ Putting(s)' => Putting(s) \/ ~IsStop(held'[s])
  <2>1. ~Putting(t) /\ ~Putting(t)' /\ ~Putting(c) /\ ~Putting(c)'
    BY <1>2, <1>3, <1>5 DEF Putting
  <2> QED BY <1>5, <2>1 DEF Putting
<1> QED
  BY <1>13, <1>14, <1>15, <1>16, <1>17, <1>18, MoveStep

-----------------------------------------------------------------------------
(***************************************************************************)
(* The steps of worker, update and source threads.                         *)
(***************************************************************************)
LEMMA AloneRest ==
  ASSUME NEW t \in Threads, Alone(t), \A n \in Nodes : Finished(n) => Finished(n)'
  PROVE  Rest(t)
  BY DEF Alone, Rest

\* What the loops do besides moving messages.
LEMMA DaemonCalm ==
  ASSUME NodeAssumption, TypeInv, MessageInv, Fails = {}, EndsApart,
         \A n \in Nodes : Finished(n) => Finished(n)',
         NEW t \in Daemons, DaemonStep(t),
         LoopTop(t) \/ GetEmpty(t) \/ UpdateFinally(t) \/ SourceCall(t)
           \/ SourceCallEnd(t) \/ SourceCallLate(t) \/ SourceEmit(t)
  PROVE  MessageInv'
<1>0. /\ t \in Threads /\ t[1] \in Nodes /\ t[2] \in Roles
      /\ pc \in [Threads -> Labels] /\ held \in [Threads -> Messages \cup {NoMsg}]
      /\ todo \in [Threads -> Seq(Nodes)]
      /\ stopEvt \in [Nodes -> [Roles -> BOOLEAN]]
  BY ThreadFacts DEF TypeInv, TypeOK
<1>a. pc[t] # "raising" /\ \A sig \in SourceEnd : Control(sig) # NoMsg
  BY <1>0 DEF TypeInv, Hands, NodeAssumption, Control, NoMsg, Negative
<1>1. /\ UNCHANGED <<queue, outq, received, relayed, draining>>
      /\ pc[t] \notin Busy /\ pc[t] # "dead"
  BY <1>a DEF LoopTop, GetEmpty, UpdateFinally, SourceCall, SourceCallEnd,
    SourceCallLate, SourceEmit, Busy
<1>2. Known(held[t]) /\ Known(NoMsg) /\ \A x : Known(Data(x)) /\ ~IsStop(Data(x))
  BY <1>0 DEF MessageInv, Propagated, Known, NoMsg, Data, IsStop, Negative
<1>3. CASE LoopTop(t) \/ GetEmpty(t) \/ UpdateFinally(t) \/ SourceCallLate(t)
  <2>1. /\ Alone(t) /\ held'[t] = held[t] /\ stopEvt' = stopEvt
        /\ pc'[t] \in {"top", "get", "call", "dead"}
        /\ pc'[t] = "dead" => stopEvt[t[1]][t[2]] = TRUE
    <3>1. CASE LoopTop(t)
      BY <1>0, <3>1 DEF LoopTop, Goto, Alone
    <3>2. CASE GetEmpty(t) \/ UpdateFinally(t)
      BY <1>0, <1>a, <3>2 DEF GetEmpty, UpdateFinally, Goto, Alone
    <3>3. CASE SourceCallLate(t)
      <4>1. t[2] = "source"
        BY <3>3, <1>0 DEF SourceCallLate, DaemonStep, Worker, Update, LoopTop, GetEmpty,
          WorkerGet, WorkerStore, UpdateGetControl, UpdateGetData, UpdateCall,
          UpdateRaise, UpdateFinally, Put, PutDiscard, PutAccept, Enqueue, Roles
      <4> QED BY <1>0, <3>3, <4>1 DEF SourceCallLate, Goto, Alone
    <3> QED BY <1>3, <3>1, <3>2, <3>3
  <2>2. /\ \A s \in Daemons : s # t => pc'[s] = pc[s]
        /\ t[2] = "update" /\ pc'[t] = "dead" => stopEvt[t[1]]["update"]
    BY <2>1, ThreadFacts DEF Alone
  <2>3. \A d \in Nodes : Taken(d)' <=> Taken(d)
    BY <1>1, <2>1, <2>2 DEF Taken, DaemonsOf
  <2>4. StopFlags'
    <3>1. \A s \in Daemons : s # t => pc'[s] = pc[s]
      BY <2>1, ThreadFacts DEF Alone
    <3>2. t[2] = "worker" /\ pc'[t] = "dead" => EventsSet(t[1])
      BY <1>0, <2>1 DEF MessageInv, StopTakes, StopFlags
    <3> QED BY <1>1, <2>1, <3>1, <3>2 DEF MessageInv, StopTakes, StopFlags, EventsSet
  <2>5. Rest(t)
    BY <1>0, <2>1, AloneRest
  <2>6. pc'[t] \notin {"enq", "store", "got", "ctl"} /\ ~Putting(t)' /\ Known(held'[t])
    BY <1>2, <2>1 DEF Putting
  <2> QED BY <1>0, <1>1, <2>3, <2>4, <2>5, <2>6, CalmStep
<1>4. CASE SourceCall(t) \/ SourceCallEnd(t) \/ SourceEmit(t)
  <2>1. t[2] = "source"
    BY <1>4, <1>0 DEF SourceCall, SourceCallEnd, SourceEmit, DaemonStep, Worker, Update,
      LoopTop, GetEmpty, WorkerGet, WorkerStore, UpdateGetControl, UpdateGetData,
      UpdateCall, UpdateRaise, UpdateFinally, Put, PutDiscard, PutAccept, Enqueue, Roles
  <2>2. /\ Alone(t)
        /\ pc'[t] \in {"emit", "dead", "put", "top", "drive", "none", "finally"}
        /\ pc'[t] = "put" => todo'[t] = <<t[1]>>
        /\ \/ ~IsStop(held'[t]) /\ Known(held'[t])
           \/ \E sig \in SourceEnd : held'[t] = Control(sig)
    <3>1. CASE SourceCall(t)
      <4>1. held'[t] = Data(<<t[1], produced'[t[1]]>>) /\ pc'[t] = "emit" /\ Alone(t)
        BY <1>0, <3>1 DEF SourceCall, Goto, Alone
      <4> QED BY <1>2, <4>1
    <3>2. CASE SourceCallEnd(t)
      <4>1. PICK sig \in SourceEnd : Sending(t, Control(sig), <<t[1]>>)
        BY <3>2 DEF SourceCallEnd
      <4>2. Alone(t)
        BY <1>0, <4>1, SendingPc DEF Alone
      <4>3. pc'[t] = "put" /\ held'[t] = Control(sig) /\ todo'[t] = <<t[1]>>
        <5> DEFINE m == Control(sig)
                   ds == <<t[1]>>
        <5>1. ds # <<>> /\ Sending(t, m, ds)
          BY <4>1
        <5> HIDE DEF m, ds
        <5>2. pc'[t] = "put" /\ held'[t] = m /\ todo'[t] = ds
          BY <1>0, <5>1, SendingPc
        <5> QED BY <5>2 DEF m, ds
      <4> QED BY <4>2, <4>3
    <3>3. CASE SourceEmit(t) /\ stopEvt[t[1]]["source"]
      <4>1. held'[t] = NoMsg /\ pc'[t] = "dead" /\ Alone(t)
        BY <1>0, <3>3 DEF SourceEmit, Goto, Alone
      <4> QED BY <1>2, <4>1 DEF IsStop, NoMsg, Negative
    <3>4. CASE SourceEmit(t) /\ ~stopEvt[t[1]]["source"]
      <4>1. Sending(t, held[t], <<t[1]>>) /\ pc[t] = "emit"
        BY <3>4 DEF SourceEmit
      <4>2. Alone(t)
        BY <1>0, <4>1, SendingPc DEF Alone
      <4>3. pc'[t] = "put" /\ held'[t] = held[t] /\ todo'[t] = <<t[1]>>
        <5>1. <<t[1]>> # <<>>
          OBVIOUS
        <5> QED BY <1>0, <4>1, <5>1, SendingPc
      <4>4. held[t] \in DataMessages
        BY <1>0, <4>1 DEF TypeInv, Hands
      <4> QED BY <1>2, <4>2, <4>3, <4>4 DEF DataMessages, IsStop, Negative
    <3> QED BY <1>4, <3>1, <3>2, <3>3, <3>4
  <2>3. /\ \A n \in Nodes : stopEvt'[n]["worker"] = stopEvt[n]["worker"]
                            /\ stopEvt'[n]["update"] = stopEvt[n]["update"]
        /\ \A n \in Nodes, r \in Roles : stopEvt[n][r] = TRUE => stopEvt'[n][r] = TRUE
    <3>1. stopEvt' = stopEvt \/ stopEvt' = [stopEvt EXCEPT ![t[1]]["source"] = TRUE]
      BY <1>4 DEF SourceCall, SourceCallEnd, SourceEmit
    <3>2. CASE stopEvt' = stopEvt
      BY <3>2
    <3>3. CASE stopEvt' = [stopEvt EXCEPT ![t[1]]["source"] = TRUE]
      <4>1. \A n \in Nodes : n # t[1] => stopEvt'[n] = stopEvt[n]
        BY <1>0, <3>3
      <4>2. stopEvt'[t[1]] = [stopEvt[t[1]] EXCEPT !["source"] = TRUE]
        BY <1>0, <3>3
      <4>3. \A r \in Roles : r # "source" => stopEvt'[t[1]][r] = stopEvt[t[1]][r]
        BY <1>0, <4>2
      <4>4. "source" \in Roles => stopEvt'[t[1]]["source"] = TRUE
        BY <1>0, <4>2
      <4> QED BY <4>1, <4>3, <4>4 DEF Roles
    <3> QED BY <3>1, <3>2, <3>3
  <2>4. \A n \in Nodes : EventsSet(n) => EventsSet(n)'
    BY <2>3 DEF EventsSet
  <2>5. \A s \in Daemons : s # t => pc'[s] = pc[s]
    BY <2>2, ThreadFacts DEF Alone
  <2>6. \A d \in Nodes : Taken(d)' <=> Taken(d)
    BY <2>1, <2>3, <2>5 DEF Taken, DaemonsOf
  <2>7. StopFlags'
    BY <1>1, <2>1, <2>3, <2>4, <2>5, ThreadFacts DEF MessageInv, StopTakes, StopFlags
  <2>8. Putting(t)' => StopSafe(t)'
    <3> SUFFICES ASSUME Putting(t)', IsStop(held'[t]), NEW n \in Nodes,
                        NEW d \in Destinations(n), Towards(t, d)'
                 PROVE  FALSE
      BY DEF StopSafe, Destinations
    <3>1. pc'[t] = "put" /\ SourceEnd # {}
      BY <2>2 DEF Putting
    <3>2. d = t[1]
      BY <2>2, <3>1 DEF Towards
    <3>3. t[1] \in Sources
      BY <1>0, <1>4, <2>1 DEF TypeInv, Hands, SourceCall, SourceCallEnd, SourceEmit
    <3> QED BY <3>1, <3>2, <3>3 DEF EndsApart
  <2>9. Known(held'[t])
    <3>1. \A sig \in SourceEnd : Known(Control(sig))
      BY DEF Known, Control
    <3> QED BY <2>2, <3>1
  <2>10. Rest(t) /\ pc'[t] \notin {"enq", "store", "got", "ctl"}
    BY <1>0, <2>2, AloneRest
  <2> QED BY <1>0, <1>1, <2>6, <2>7, <2>8, <2>9, <2>10, CalmStep
<1> QED BY <1>3, <1>4

LEMMA PutAlone ==
  ASSUME NodeAssumption, TypeInv, NEW t \in Threads, Put(t)
  PROVE  /\ Alone(t) /\ pc[t] \in {"put", "enq"}
         /\ pc'[t] \in {"put", "enq", "top", "finally", "none", "drive"}
         /\ UNCHANGED <<draining, stopEvt>>
<1>1. pc \in [Threads -> Labels] /\ held \in [Threads -> Messages \cup {NoMsg}]
  BY DEF TypeInv, TypeOK
<1>2. CASE PutAccept(t)
  BY <1>1, <1>2 DEF PutAccept, Goto, Alone
<1>3. CASE PutDiscard(t) \/ Enqueue(t)
  <2>1. /\ Sending(t, held[t], Tail(todo[t])) /\ pc[t] \in {"put", "enq"}
        /\ UNCHANGED <<draining, stopEvt>>
    BY <1>3 DEF PutDiscard, Enqueue, Served
  <2> DEFINE m == held[t]
             ds == Tail(todo[t])
  <2>2. Sending(t, m, ds)
    BY <2>1
  <2> HIDE DEF m, ds
  <2>3. Alone(t) /\ pc'[t] = (IF ds = <<>> THEN Resume(t) ELSE "put")
    BY <2>2, SendingPc DEF Alone
  <2>4. Resume(t) \in {"top", "finally", "none", "drive"}
    BY ResumeType
  <2> QED BY <2>1, <2>3, <2>4
<1> QED BY <1>2, <1>3 DEF Put

LEMMA AnyPutMessages ==
  ASSUME NodeAssumption, TypeInv, MessageInv,
         \A n \in Nodes : Finished(n) => Finished(n)',
         NEW t \in Threads, Put(t)
  PROVE  MessageInv'
<1>1. Rest(t)
  BY PutAlone, AloneRest
<1>2. StopFlags'
  <2>1. \A s \in Daemons : pc'[s] = "dead" => pc[s] = "dead"
    BY PutAlone, ThreadFacts DEF Alone
  <2> QED BY <2>1, PutAlone DEF MessageInv, StopTakes, StopFlags, EventsSet
<1> QED BY <1>1, <1>2, PutMessages

LEMMA DaemonMessages ==
  ASSUME NodeAssumption, TypeInv, StopInv, MessageInv, Fails = {}, EndsApart,
         \A n \in Nodes : Finished(n) => Finished(n)',
         NEW t \in Daemons, DaemonStep(t)
  PROVE  MessageInv'
<1>1. t \in Threads /\ ~UpdateRaise(t)
  BY ThreadFacts DEF UpdateRaise
<1>2. CASE Put(t)
  BY <1>1, <1>2, AnyPutMessages
<1>3. CASE LoopTop(t) \/ GetEmpty(t) \/ UpdateFinally(t) \/ SourceCall(t)
           \/ SourceCallEnd(t) \/ SourceCallLate(t) \/ SourceEmit(t)
  BY <1>3, DaemonCalm
<1>4. CASE t[2] = "worker" /\ (WorkerGet(t) \/ WorkerStore(t))
  BY <1>4, WorkerGetMessages, WorkerStoreMessages
<1>5. CASE t[2] = "update" /\ (UpdateGetControl(t) \/ UpdateGetData(t) \/ UpdateCall(t))
  BY <1>5, GetControlMessages, UpdateGetDataMessages, UpdateCallMessages
<1> QED
  BY <1>1, <1>2, <1>3, <1>4, <1>5 DEF DaemonStep, Worker, Update, Source

-----------------------------------------------------------------------------
(***************************************************************************)
(* The steps of control threads.                                           *)
(***************************************************************************)
\* stop() passes a stop on when its node has ended.
LEMMA ControlEndMessages ==
  ASSUME NodeAssumption, JoinMayTimeOut = FALSE, EndsApart,
         TypeInv, StopInv, MessageInv,
         \A n \in Nodes : Finished(n) => Finished(n)',
         NEW t \in Controls, ControlStopEnd(t)
  PROVE  MessageInv'
<1> DEFINE n == t[1]
           m == held[t]
<1>1. /\ t \in Threads /\ n \in Nodes /\ t \notin Daemons
      /\ pc \in [Threads -> Labels]
  BY ThreadFacts DEF TypeInv, TypeOK
<1>2. /\ pc[t] = "join" /\ AfterStop(t)
      /\ \A x \in waits[t] : pc[x] = "dead"
      /\ UNCHANGED <<queue, outq, draining, stopEvt, received, relayed>>
  BY DEF ControlStopEnd, Joined
<1>3. Finished(n)
  <2>1. EventsSet(n) /\ \A x \in DaemonsOf(n) : ~Alive(x)
    BY <1>2 DEF StopInv, StoppingThreads, Stopping, Joining, DaemonsOf, Alive
  <2> QED BY <2>1 DEF Finished, Alive, DaemonsOf
<1>4. Known(m) /\ Known(NoMsg)
  BY <1>1 DEF MessageInv, Propagated, Known, NoMsg
<1>5. \/ m.kind = "STOP_PROPAGATE" /\ Sending(t, m, Dest[n])
      \/ Sending(t, NoMsg, <<>>)
  BY <1>2 DEF AfterStop
<1> HIDE DEF n, m
<1>6. Resume(t) = "none"
  BY ThreadFacts DEF Resume, AfterCall
<1>7. /\ Alone(t) /\ pc'[t] \in {"none", "put"}
      /\ held'[t] = m \/ held'[t] = NoMsg
      /\ pc'[t] = "put" => m.kind = "STOP_PROPAGATE" /\ todo'[t] = Dest[n]
  <2>1. CASE m.kind = "STOP_PROPAGATE" /\ Sending(t, m, Dest[n])
    BY <1>1, <1>6, <2>1, SendingPc DEF Alone
  <2>2. CASE Sending(t, NoMsg, <<>>)
    <3> DEFINE ds == <<>>
    <3>1. Sending(t, NoMsg, ds) /\ ds = <<>>
      BY <2>2
    <3> HIDE DEF ds
    <3> QED BY <1>1, <1>6, <3>1, SendingPc DEF Alone
  <2> QED BY <1>5, <2>1, <2>2
<1>8. Putting(t)' => StopSafe(t)'
  <2> SUFFICES ASSUME Putting(t)', NEW k \in Nodes, NEW d \in Destinations(k),
                      Towards(t, d)'
               PROVE  Finished(k)'
    BY DEF StopSafe, Destinations
  <2>1. m.kind = "STOP_PROPAGATE" /\ todo'[t] = Dest[n]
    BY <1>7 DEF Putting
  <2>2. d \in Destinations(n)
    BY <2>1 DEF Towards, Destinations
  <2>3. "STOP_PROPAGATE" \in SourceEnd
    BY <1>4, <2>1 DEF Known
  <2>4. k = n
    BY <1>1, <2>2, <2>3 DEF EndsApart, n
  <2> QED BY <1>1, <1>3, <2>4 DEF n
<1>9. \A s \in Daemons : pc'[s] = pc[s]
  BY <1>1, <1>7, ThreadFacts DEF Alone
<1>10. StopFlags' /\ \A d \in Nodes : Taken(d)' <=> Taken(d)
  <2>1. StopFlags
    BY DEF MessageInv, StopTakes
  <2>2. StopFlags'
    BY <1>2, <1>9, <2>1 DEF StopFlags, EventsSet
  <2>3. \A d \in Nodes : Taken(d)' <=> Taken(d)
    BY <1>2, <1>9 DEF Taken, DaemonsOf
  <2> QED BY <2>2, <2>3
<1>11. Rest(t) /\ pc[t] \notin Busy /\ Known(held'[t])
  BY <1>1, <1>2, <1>4, <1>7, AloneRest DEF Busy
<1>12. pc'[t] \notin {"enq", "store", "got", "ctl"}
  BY <1>7
<1> QED BY <1>1, <1>2, <1>8, <1>10, <1>11, <1>12, CalmStep

LEMMA ControlMessages ==
  ASSUME NodeAssumption, JoinMayTimeOut = FALSE, EndsApart,
         TypeInv, StopInv, MessageInv, Begun,
         \A n \in Nodes : Finished(n) => Finished(n)',
         NEW t \in Controls, ControlThread(t)
  PROVE  MessageInv'
<1> DEFINE n == t[1]
<1>1. /\ t \in Threads /\ n \in Nodes /\ t \notin Daemons
      /\ pc \in [Threads -> Labels] /\ held \in [Threads -> Messages \cup {NoMsg}]
      /\ draining \in [Nodes -> BOOLEAN] /\ stopEvt \in [Nodes -> [Roles -> BOOLEAN]]
  BY ThreadFacts DEF TypeInv, TypeOK
<1>2. Known(held[t]) /\ Known(NoMsg)
  BY <1>1 DEF MessageInv, Propagated, Known, NoMsg
<1>3. CASE Put(t)
  BY <1>1, <1>3, AnyPutMessages
<1>4. CASE ControlStopEnd(t)
  BY <1>4, ControlEndMessages
<1>5. CASE ControlSuspend(t) \/ JoinPending(t, n) \/ JoinList(t, n)
  <2>1. /\ Alone(t) /\ pc'[t] \in {"none", "list", "join"} /\ Known(held'[t])
        /\ pc[t] \notin Busy
        /\ UNCHANGED <<queue, outq, draining, stopEvt, received, relayed>>
    BY <1>1, <1>2, <1>5 DEF ControlSuspend, JoinPending, JoinList, Goto, Alone, Busy
  <2>2. \A s \in Daemons : pc'[s] = pc[s]
    BY <1>1, <2>1, ThreadFacts DEF Alone
  <2>3. StopFlags' /\ \A d \in Nodes : Taken(d)' <=> Taken(d)
    <3>1. StopFlags'
      BY <2>1, <2>2 DEF MessageInv, StopTakes, StopFlags, EventsSet
    <3>2. \A d \in Nodes : Taken(d)' <=> Taken(d)
      BY <2>1, <2>2 DEF Taken, DaemonsOf
    <3> QED BY <3>1, <3>2
  <2>4. Rest(t) /\ pc'[t] \notin {"enq", "store", "got", "ctl"} /\ ~Putting(t)'
    BY <1>1, <2>1, AloneRest DEF Putting
  <2> QED BY <1>1, <2>1, <2>3, <2>4, CalmStep
<1>6. CASE ControlStart(t)
  <2>1. /\ pc[t] = "ctl" /\ NodeStart(n) /\ held' = [held EXCEPT ![t] = NoMsg]
        /\ pc' = [x \in Threads |-> IF x \in Spawned(n) THEN "top"
                                    ELSE IF x = t THEN "none" ELSE pc[x]]
        /\ UNCHANGED <<queue, outq, stopEvt, received, relayed, todo>>
    BY <1>6 DEF ControlStart, NodeStart
  <2>2. /\ \A x \in Threads \ {t} :
             /\ held'[x] = held[x] /\ todo'[x] = todo[x]
             /\ pc'[x] = pc[x] \/ (pc[x] = "none" /\ pc'[x] = "top")
        /\ pc'[t] = "none" /\ held'[t] = NoMsg
    BY <1>1, <2>1, SpawnedAreNew
  <2>3. \A s \in Daemons : pc'[s] = "dead" <=> pc[s] = "dead"
    BY <1>1, <2>2, ThreadFacts
  <2>4. \A d \in Nodes : draining'[d] => draining[d]
    BY <1>1, <2>1 DEF NodeStart, MakeThreads
  <2>5. StopFlags' /\ \A d \in Nodes : Taken(d)' <=> Taken(d)
    <3>1. StopFlags
      BY DEF MessageInv, StopTakes
    <3>2. StopFlags'
      BY <2>1, <2>3, <2>4, <3>1 DEF StopFlags, EventsSet
    <3>3. \A d \in Nodes : Taken(d)' <=> Taken(d)
      BY <2>1, <2>3 DEF Taken, DaemonsOf
    <3> QED BY <3>2, <3>3
  <2>6. /\ Rest(t) /\ pc'[t] \notin {"enq", "store", "got", "ctl"} /\ ~Putting(t)'
        /\ pc[t] \notin Busy /\ Known(held'[t])
    BY <1>2, <2>1, <2>2 DEF Putting, Rest, Busy
  <2> QED BY <1>1, <2>1, <2>5, <2>6, CalmStep
<1>7. CASE ControlStop(t)
  <2>1. pc[t] = "ctl" /\ IsStop(held[t])
    BY <1>7 DEF ControlStop, IsStop
  <2>2. status[n] # "STOPPED"
    BY <1>1, <2>1 DEF StopInv, StoppedNodes, StoppingThreads, Stopping, IsStop
  <2>3. /\ draining' = [draining EXCEPT ![n] = TRUE]
        /\ stopEvt' = [stopEvt EXCEPT ![n] = [r \in Roles |-> TRUE]]
        /\ pc' = [pc EXCEPT ![t] = "pend"]
        /\ UNCHANGED <<queue, outq, received, relayed, held, todo>>
    BY <1>7, <2>2 DEF ControlStop, Goto
  <2>4. Alone(t) /\ pc'[t] = "pend" /\ Known(held'[t]) /\ pc[t] \notin Busy
    BY <1>1, <1>2, <2>1, <2>3 DEF Alone, Busy
  <2>5. /\ \A d \in Nodes : d # n => draining'[d] = draining[d] /\ stopEvt'[d] = stopEvt[d]
        /\ EventsSet(n)' /\ stopEvt'[n]["update"]
    BY <1>1, <2>3 DEF EventsSet, Roles
  <2>6. \A s \in Daemons : pc'[s] = pc[s]
    BY <1>1, <2>4, ThreadFacts DEF Alone
  <2>7. Taken(n) /\ Taken(n)'
    BY <1>1, <2>1, <2>5 DEF MessageInv, StopTakes, Taken
  <2>8. \A d \in Nodes : Taken(d)' <=> Taken(d)
    <3>1. \A d \in Nodes : d # n => (Taken(d)' <=> Taken(d))
      BY <2>5, <2>6 DEF Taken, DaemonsOf
    <3> QED BY <2>7, <3>1
  <2>9. StopFlags'
    <3>1. \A d \in Nodes : /\ EventsSet(d) => EventsSet(d)'
                           /\ d # n => (EventsSet(d)' <=> EventsSet(d))
      BY <2>5 DEF EventsSet
    <3> QED BY <2>5, <2>6, <3>1, ThreadFacts DEF MessageInv, StopTakes, StopFlags
  <2>10. Rest(t) /\ pc'[t] \notin {"enq", "store", "got", "ctl"} /\ ~Putting(t)'
    BY <1>1, <2>4, AloneRest DEF Putting
  <2> QED BY <1>1, <2>3, <2>4, <2>8, <2>9, <2>10, CalmStep
<1> QED
  BY <1>3, <1>4, <1>5, <1>6, <1>7 DEF ControlThread

-----------------------------------------------------------------------------
(***************************************************************************)
(* The steps of the pipeline's user.                                       *)
(***************************************************************************)
\* Where the loops of start() and stop() are.
LEMMA HerePlace ==
  ASSUME PipelineAssumption, TypeInv
  PROVE  /\ cur.lay \in 1..Len(Layers) /\ cur.pos \in 1..Len(Layers[cur.lay])
         /\ Here = Layers[cur.lay][cur.pos] /\ Here \in Nodes
<1>1. /\ cur.lay \in 1..Len(Layers) /\ cur.pos \in Nat \ {0}
      /\ cur.pos <= Len(Layers[cur.lay])
  BY DEF TypeInv, TypeOK
<1>2. Layers[cur.lay] \in Seq(Nodes)
  BY <1>1 DEF PipelineAssumption
<1>3. cur.pos \in 1..Len(Layers[cur.lay])
  BY <1>1, <1>2
<1> QED BY <1>1, <1>3, HereType DEF Here

\* Whoever leads to the node at hand is in a layer that stop() is through with.
LEMMA LeadersFinished ==
  ASSUME NodeAssumption, PipelineAssumption, TypeInv, Layered, Calling,
         cur.op \in {"put", "join"}, NEW n \in Nodes, Here \in Destinations(n)
  PROVE  Finished(n)
<1>1. /\ cur.lay \in 1..Len(Layers) /\ cur.pos \in 1..Len(Layers[cur.lay])
      /\ Here = Layers[cur.lay][cur.pos]
  BY HerePlace
<1>a. Earlier(n, cur.lay)
  <2>1. Layers[cur.lay][cur.pos] \in Destinations(n)
    BY <1>1
  <2> QED BY <1>1, <2>1 DEF Layered
<1>2. PICK k \in 1..(cur.lay - 1) : \E p \in 1..Len(Layers[k]) : Layers[k][p] = n
  BY <1>a DEF Earlier
<1>3. PICK p \in 1..Len(Layers[k]) : Layers[k][p] = n
  BY <1>2
<1>4. k \in 1..Len(Layers) /\ k < cur.lay
  <2> DEFINE l == cur.lay
             h == Len(Layers)
  <2>1. h \in Nat /\ l \in 1..h /\ k \in 1..(l - 1)
    BY <1>1, <1>2 DEF PipelineAssumption
  <2> HIDE DEF l, h
  <2>2. k \in 1..h /\ k < l
    BY <2>1
  <2> QED BY <2>2 DEF l, h
<1>5. PassedAt(n)
  BY <1>3, <1>4 DEF PassedAt, Place
<1> QED BY <1>5 DEF Calling

LEMMA UserSendMessages ==
  ASSUME NodeAssumption, TypeInv, MessageInv,
         \A n \in Nodes : Finished(n) => Finished(n)',
         NEW m, NEW d \in Nodes, Sending(User, m, <<d>>), pc[User] = "drive",
         UNCHANGED <<queue, outq, draining, stopEvt, received, relayed>>,
         m.kind # "STOP_PROPAGATE",
         IsStop(m) => \A n \in Nodes : d \in Destinations(n) => Finished(n)
  PROVE  MessageInv'
<1> DEFINE ds == <<d>>
<1>1. User \in Threads /\ ds # <<>> /\ Sending(User, m, ds)
  BY ThreadFacts
<1>2. \A i \in 1..Len(ds) : ds[i] = d
  OBVIOUS
<1> HIDE DEF ds
<1>3. /\ Alone(User)
      /\ pc'[User] = "put" /\ held'[User] = m /\ todo'[User] = ds
  BY <1>1, SendingPc DEF Alone
<1>4. \A s \in Daemons : pc'[s] = pc[s]
  BY <1>3, ThreadFacts DEF Alone
<1>5. StopFlags' /\ \A k \in Nodes : Taken(k)' <=> Taken(k)
  <2>1. StopFlags
    BY DEF MessageInv, StopTakes
  <2>2. StopFlags'
    BY <1>4, <2>1 DEF StopFlags, EventsSet
  <2>3. \A k \in Nodes : Taken(k)' <=> Taken(k)
    BY <1>4 DEF Taken, DaemonsOf
  <2> QED BY <2>2, <2>3
<1>6. StopSafe(User)'
  <2> SUFFICES ASSUME IsStop(m), NEW n \in Nodes, NEW e \in Destinations(n),
                      Towards(User, e)'
               PROVE  Finished(n)'
    BY <1>3 DEF StopSafe, Destinations
  <2>1. e = d
    BY <1>2, <1>3 DEF Towards
  <2> QED BY <2>1
<1>7. Rest(User) /\ Known(held'[User]) /\ pc[User] \notin Busy
  BY <1>1, <1>3, AloneRest DEF Known, Busy
<1>8. pc'[User] \notin {"enq", "store", "got", "ctl"}
  BY <1>3
<1> QED BY <1>1, <1>5, <1>6, <1>7, <1>8, CalmStep

LEMMA CallMessages ==
  ASSUME NodeAssumption, PipelineAssumption, Layered,
         TypeInv, StopInv, MessageInv, Begun, Calling,
         \A n \in Nodes : Finished(n) => Finished(n)',
         UserCall \/ InCall
  PROVE  MessageInv'
<1>1. /\ Here \in Nodes /\ User \in Threads /\ User \notin Daemons
      /\ pc \in [Threads -> Labels]
  BY ThreadFacts, HereType DEF TypeInv, TypeOK
<1>2. CASE Put(User)
  BY <1>1, <1>2, AnyPutMessages
<1>3. CASE StopPut
  <2>1. /\ Sending(User, Control("STOP"), <<Here>>) /\ pc[User] = "drive"
        /\ cur.op = "put"
        /\ UNCHANGED <<queue, outq, draining, stopEvt, received, relayed>>
    BY <1>3 DEF StopPut, Driving
  <2>2. Control("STOP").kind # "STOP_PROPAGATE"
    BY DEF Control
  <2>3. \A n \in Nodes : Here \in Destinations(n) => Finished(n)
    BY <2>1, LeadersFinished
  <2> QED BY <1>1, <2>1, <2>2, <2>3, UserSendMessages
<1>4. ASSUME NEW n \in Nodes, NEW sig \in UserSignals, Signal(n, sig) PROVE MessageInv'
  <2>1. /\ Sending(User, Control(sig), <<n>>) /\ pc[User] = "drive"
        /\ UNCHANGED <<queue, outq, draining, stopEvt, received, relayed>>
    BY <1>4 DEF Signal, Driving
  <2>2. ~IsStop(Control(sig)) /\ Control(sig).kind # "STOP_PROPAGATE"
    BY DEF PipelineAssumption, Control, IsStop, Negative
  <2> QED BY <2>1, <2>2, UserSendMessages
<1>5. CASE StartNode \/ Start \/ Stop \/ StopJoin \/ StopJoined
           \/ JoinPending(User, Here) \/ JoinList(User, Here)
  <2>1. /\ UNCHANGED <<queue, outq, stopEvt, received, relayed, held, todo>>
        /\ \A d \in Nodes : draining'[d] => draining[d]
    <3>1. CASE StartNode
      <4>1. draining \in [Nodes -> BOOLEAN]
        BY DEF TypeInv, TypeOK
      <4> QED BY <1>1, <3>1, <4>1 DEF StartNode, NodeStart, MakeThreads
    <3>2. CASE ~StartNode
      BY <1>5, <3>2 DEF Start, Stop, StopJoin, StopJoined, JoinPending, JoinList, nodeVars
    <3> QED BY <3>1, <3>2
  <2>2. /\ \A x \in Threads \ {User} : pc'[x] = pc[x] \/ (pc[x] = "none" /\ pc'[x] = "top")
        /\ pc[User] \in {"drive", "pend", "list", "join"}
        /\ pc'[User] \in {"drive", "pend", "list", "join"}
    <3>1. CASE StartNode
      <4>1. /\ pc' = [x \in Threads |-> IF x \in Spawned(Here) THEN "top" ELSE pc[x]]
            /\ pc[User] = "drive"
        BY <3>1 DEF StartNode, Driving
      <4>2. \A x \in Spawned(Here) : x \in Daemons /\ pc[x] = "none"
        BY <1>1, SpawnedAreNew
      <4> QED BY <1>1, <4>1, <4>2
    <3>2. CASE Start \/ Stop
      BY <3>2 DEF Start, Stop, Driving, nodeVars
    <3>3. CASE StopJoin \/ StopJoined \/ JoinPending(User, Here) \/ JoinList(User, Here)
      BY <1>1, <3>3 DEF StopJoin, StopJoined, Joined, JoinPending, JoinList, Goto, Driving
    <3> QED BY <1>5, <3>1, <3>2, <3>3
  <2>3. \A s \in Daemons : pc'[s] = "dead" <=> pc[s] = "dead"
    BY <1>1, <2>2, ThreadFacts
  <2>4. StopFlags' /\ \A d \in Nodes : Taken(d)' <=> Taken(d)
    <3>1. StopFlags
      BY DEF MessageInv, StopTakes
    <3>2. StopFlags'
      BY <2>1, <2>3, <3>1 DEF StopFlags, EventsSet
    <3>3. \A d \in Nodes : Taken(d)' <=> Taken(d)
      BY <2>1, <2>3 DEF Taken, DaemonsOf
    <3> QED BY <3>2, <3>3
  <2>5. /\ Rest(User) /\ Known(held'[User]) /\ ~Putting(User)'
        /\ pc[User] \notin Busy /\ pc'[User] \notin {"enq", "store", "got", "ctl"}
    BY <1>1, <2>1, <2>2 DEF Rest, Busy, Putting, MessageInv, Propagated
  <2> QED BY <1>1, <2>1, <2>4, <2>5, CalmStep
<1> QED
  BY <1>2, <1>3, <1>4, <1>5 DEF UserCall, InCall

LEMMA NextMessages ==
  ASSUME NodeAssumption, PipelineAssumption, Orderly,
         TypeInv, StopInv, DrainInv, [Next]_vars
  PROVE  MessageInv'
<1>1. /\ MessageInv /\ Begun /\ Calling /\ Layered /\ EndsApart
      /\ JoinMayTimeOut = FALSE /\ Fails = {}
  BY DEF DrainInv, Orderly
<1>2. \A n \in Nodes : Finished(n) => Finished(n)'
  BY <1>1, StepStays
<1>3. ASSUME NEW t \in Daemons, DaemonStep(t) PROVE MessageInv'
  BY <1>1, <1>2, <1>3, DaemonMessages
<1>4. ASSUME NEW t \in Controls, ControlThread(t) PROVE MessageInv'
  BY <1>1, <1>2, <1>4, ControlMessages
<1>5. CASE UserCall \/ InCall
  BY <1>1, <1>2, <1>5, CallMessages
<1>6. CASE UNCHANGED vars
  <2>1. StopFlags' /\ Rest(User) /\ \A d \in Nodes : Taken(d)' <=> Taken(d)
    BY <1>1, <1>2, <1>6
    DEF vars, MessageInv, StopTakes, StopFlags, EventsSet, Rest, Taken
  <2>2. /\ pc'[User] = pc[User] /\ held'[User] = held[User] /\ todo'[User] = todo[User]
    BY <1>6 DEF vars
  <2> QED BY <1>1, <1>6 DEF vars, MessageInv, Flow, StopsLast, StopTakes, StopFlags, Senders,
    Propagated, Sent, Due, NoStop, Clear, OutClear, Taken, Finished, EventsSet, Through,
    Storing, Putting, Towards, StopSafe
<1> QED
  BY <1>3, <1>4, <1>5, <1>6 DEF Next, ThreadStep, NodeStep

-----------------------------------------------------------------------------
(***************************************************************************)
(* Generations of threads.                                                 *)
(***************************************************************************)
\* No step but one of start() makes threads.
NoBirth ==
  /\ gen' = gen
  /\ \A n \in Nodes : handle'[n] = handle[n] \/ handle'[n] = 0
  /\ \A x \in Daemons : /\ pc[x] \in {"none", "dead"} => pc'[x] = pc[x]
                        /\ pc'[x] = "none" => pc[x] = "none"
  /\ \A x \in Controls : pc'[x] # "none" => pc[x] # "none" \/ gen[x[1]] > 0
  /\ \A n \in Nodes : gen[n] = 0 => Through(n)' = Through(n)
  /\ \A n \in Nodes : status'[n] = "STOPPED" => status[n] = "STOPPED" \/ gen[n] > 0

Birth(n) ==
  /\ NodeStart(n) /\ UNCHANGED <<received, relayed>>
  /\ \A x \in Daemons : pc'[x] = IF x \in Spawned(n) THEN "top" ELSE pc[x]
  /\ \A x \in Controls : pc'[x] # "none" => pc[x] # "none"

LEMMA DaemonNoBirth ==
  ASSUME NodeAssumption, TypeInv, StopInv, Begun, NEW t \in Daemons, DaemonStep(t)
  PROVE  NoBirth
<1>1. /\ t \in Threads /\ t[1] \in Nodes /\ t[2] \in Roles /\ t[3] \in Nat \ {0}
      /\ pc \in [Threads -> Labels] /\ gen \in [Nodes -> 0..MaxGen] /\ MaxGen \in Nat
      /\ received \in [Nodes -> Seq(Ids)] /\ relayed \in [Nodes -> SUBSET Ids]
  <2>1. t[3] \in 1..MaxGen /\ MaxGen \in Nat
    BY ThreadFacts DEF NodeAssumption
  <2>2. t[3] \in Nat \ {0}
    BY <2>1
  <2> QED BY <2>1, <2>2, ThreadFacts DEF TypeInv, TypeOK
<1>2. Alive(t)
  BY DEF DaemonStep, Worker, Update, Source, LoopTop, GetEmpty, WorkerGet,
    WorkerStore, UpdateGetControl, UpdateGetData, UpdateCall, UpdateRaise,
    UpdateFinally, SourceCall, SourceCallEnd, SourceCallLate, SourceEmit, Put,
    PutDiscard, PutAccept, Enqueue, Alive
<1>3. gen[t[1]] > 0
  <2>1. ~(t[3] > gen[t[1]])
    BY <1>1, <1>2 DEF Begun, DaemonsOf, Alive
  <2>2. gen[t[1]] \in Nat
    BY <1>1
  <2> QED BY <1>1, <2>1, <2>2
<1>4. \A n \in Nodes : gen[n] = 0 => Through(n)' = Through(n)
  <2>1. \A n \in Nodes : n # t[1] => received'[n] = received[n] /\ relayed'[n] = relayed[n]
    <3>1. CASE WorkerGet(t) \/ UpdateCall(t) \/ UpdateRaise(t)
      BY <1>1, <3>1 DEF WorkerGet, UpdateCall, UpdateRaise
    <3>2. CASE ~(WorkerGet(t) \/ UpdateCall(t) \/ UpdateRaise(t))
      BY <3>2 DEF DaemonStep, Worker, Update, Source, LoopTop, GetEmpty, WorkerStore,
        UpdateGetControl, UpdateGetData, UpdateFinally, SourceCall, SourceCallEnd,
        SourceCallLate, SourceEmit, Put, PutDiscard, PutAccept, Enqueue
    <3> QED BY <3>1, <3>2
  <2> QED BY <1>3, <2>1 DEF Through
<1>5. CASE UpdateGetControl(t)
  <2>1. PICK c \in Controls, l \in {"dead", "top"} :
          c[1] = t[1] /\ pc' = [pc EXCEPT ![c] = "ctl", ![t] = l]
    BY <1>5 DEF UpdateGetControl
  <2>2. \A x \in Threads \ {c, t} : pc'[x] = pc[x]
    BY <1>1, <2>1
  <2>3. /\ gen' = gen /\ handle' = handle /\ status' = status
        /\ pc'[t] \in {"dead", "top"}
    BY <1>1, <1>5, <2>1, ThreadFacts DEF UpdateGetControl
  <2>4. \A x \in Daemons : /\ pc[x] \in {"none", "dead"} => pc'[x] = pc[x]
                           /\ pc'[x] = "none" => pc[x] = "none"
    BY <1>2, <2>2, <2>3, ThreadFacts DEF Alive
  <2>5. \A x \in Controls : pc'[x] # "none" => pc[x] # "none" \/ gen[x[1]] > 0
    BY <1>3, <2>1, <2>2, ThreadFacts
  <2> QED BY <1>4, <2>3, <2>4, <2>5 DEF NoBirth
<1>6. CASE ~UpdateGetControl(t)
  <2>1. Frame(t)
    BY <1>6, DaemonFrame
  <2>2. \A x \in Threads \ {t} : pc'[x] = pc[x]
    BY <2>1 DEF Frame
  <2>3. pc'[t] # "none"
    <3>1. AfterCall[t[2]] \in {"top", "finally"}
      BY <1>1 DEF AfterCall, Roles
    <3>2. ASSUME NEW m, NEW ds, Sending(t, m, ds) PROVE pc'[t] # "none"
      BY <1>1, <3>1, <3>2, SendingPc DEF Resume
    <3>3. CASE WorkerGet(t) \/ UpdateCall(t) \/ SourceCallEnd(t) \/ SourceEmit(t) \/ Put(t)
      BY <1>1, <3>2, <3>3 DEF WorkerGet, UpdateCall, SourceCallEnd, SourceEmit, Put,
        PutDiscard, PutAccept, Enqueue, Served, Goto
    <3>4. CASE ~(WorkerGet(t) \/ UpdateCall(t) \/ SourceCallEnd(t) \/ SourceEmit(t) \/ Put(t))
      BY <1>1, <1>6, <3>4 DEF DaemonStep, Worker, Update, Source, LoopTop, GetEmpty,
        WorkerStore, UpdateGetData, UpdateRaise, UpdateFinally, SourceCall,
        SourceCallLate, Goto
    <3> QED BY <3>3, <3>4
  <2>4. gen' = gen /\ handle' = handle /\ status' = status
    BY <2>1 DEF Frame
  <2>5. \A x \in Daemons : /\ pc[x] \in {"none", "dead"} => pc'[x] = pc[x]
                           /\ pc'[x] = "none" => pc[x] = "none"
    BY <1>2, <2>2, <2>3, ThreadFacts DEF Alive
  <2>6. \A x \in Controls : pc'[x] = pc[x]
    BY <2>2, ThreadFacts
  <2> QED BY <1>4, <2>4, <2>5, <2>6 DEF NoBirth
<1> QED BY <1>5, <1>6

LEMMA ControlBirth ==
  ASSUME NodeAssumption, TypeInv, StopInv, Begun, NEW t \in Controls, ControlThread(t)
  PROVE  (NoBirth /\ ~ControlStart(t)) \/ (ControlStart(t) /\ Birth(t[1]))
<1>1. /\ t \in Threads /\ t[1] \in Nodes /\ t \notin Daemons
      /\ pc \in [Threads -> Labels] /\ handle \in [Nodes -> 0..MaxGen]
  BY ThreadFacts DEF TypeInv, TypeOK
<1>2. CASE ControlStart(t)
  <2>1. /\ NodeStart(t[1]) /\ pc[t] = "ctl"
        /\ pc' = [x \in Threads |-> IF x \in Spawned(t[1]) THEN "top"
                                    ELSE IF x = t THEN "none" ELSE pc[x]]
        /\ UNCHANGED <<received, relayed>>
    BY <1>2 DEF ControlStart
  <2>2. \A x \in Daemons : pc'[x] = IF x \in Spawned(t[1]) THEN "top" ELSE pc[x]
    BY <1>1, <2>1, ThreadFacts
  <2>3. \A x \in Controls : x \notin Spawned(t[1])
    BY <1>1, StartFrame, ThreadFacts
  <2>4. \A x \in Controls : pc'[x] # "none" => pc[x] # "none"
    BY <1>1, <2>1, <2>3, ThreadFacts
  <2> QED BY <1>2, <2>1, <2>2, <2>4 DEF Birth
<1>3. CASE ~ControlStart(t)
  <2>1. pc[t] # "none" /\ gen' = gen /\ UNCHANGED <<received, relayed>>
    BY <1>3 DEF ControlThread, ControlSuspend, ControlStop, JoinPending, JoinList,
      ControlStopEnd, Joined, Put, PutDiscard, PutAccept, Enqueue
  <2>2. \A n \in Nodes : handle'[n] = handle[n] \/ handle'[n] = 0
    BY <1>1, <1>3 DEF ControlThread, ControlSuspend, ControlStop, JoinPending, JoinList,
      ControlStopEnd, Put, PutDiscard, PutAccept, Enqueue
  <2>3. \A x \in Threads \ {t} : pc'[x] = pc[x]
    <3>1. ASSUME AfterStop(t) PROVE \A x \in Threads \ {t} : pc'[x] = pc[x]
      BY <1>1, <3>1, SendingPc DEF AfterStop
    <3>2. CASE ControlStop(t) \/ ControlStopEnd(t)
      BY <1>1, <3>1, <3>2 DEF ControlStop, ControlStopEnd, Goto
    <3>3. CASE ControlSuspend(t) \/ JoinPending(t, t[1]) \/ JoinList(t, t[1])
      BY <1>1, <3>3 DEF ControlSuspend, JoinPending, JoinList, Goto
    <3>4. CASE Put(t)
      BY <1>1, <3>4, PutAlone DEF Alone
    <3> QED BY <1>3, <3>2, <3>3, <3>4 DEF ControlThread
  <2>4. \A x \in Daemons : pc'[x] = pc[x]
    BY <1>1, <2>3, ThreadFacts
  <2>5. \A x \in Controls : pc'[x] # "none" => pc[x] # "none"
    BY <2>1, <2>3, ThreadFacts
  <2>6. \A n \in Nodes \ {t[1]} : status'[n] = status[n]
    <3>1. status \in [Nodes -> {"CONFIGURED", "RUNNING", "STOPPED"}]
      BY DEF TypeInv, TypeOK
    <3> QED BY <1>1, <1>3, <3>1 DEF ControlThread, ControlSuspend, ControlStop,
      JoinPending, JoinList, ControlStopEnd, Put, PutDiscard, PutAccept, Enqueue
  <2>7. gen[t[1]] > 0
    BY <1>1, <2>1 DEF Begun
  <2>8. \A n \in Nodes : status'[n] = "STOPPED" => status[n] = "STOPPED" \/ gen[n] > 0
    BY <2>6, <2>7
  <2> QED BY <1>3, <2>1, <2>2, <2>4, <2>5, <2>8 DEF NoBirth, Through
<1> QED BY <1>2, <1>3

LEMMA CallBirth ==
  ASSUME NodeAssumption, PipelineAssumption, TypeInv, StopInv, UserCall \/ InCall
  PROVE  \/ NoBirth /\ ~StartNode
         \/ StartNode /\ Birth(Here)
<1>1. /\ Here \in Nodes /\ User \in Threads /\ User \notin Daemons /\ User \notin Controls
      /\ pc \in [Threads -> Labels]
  BY ThreadFacts, HereType DEF TypeInv, TypeOK
<1>2. CASE StartNode
  <2>1. /\ NodeStart(Here) /\ UNCHANGED <<received, relayed>>
        /\ pc' = [x \in Threads |-> IF x \in Spawned(Here) THEN "top" ELSE pc[x]]
    BY <1>2 DEF StartNode
  <2>2. \A x \in Daemons : pc'[x] = IF x \in Spawned(Here) THEN "top" ELSE pc[x]
    BY <2>1, ThreadFacts
  <2>3. \A x \in Controls : pc'[x] = pc[x]
    BY <1>1, <2>1, StartFrame, ThreadFacts
  <2> QED BY <1>2, <2>1, <2>2, <2>3 DEF Birth
<1>3. CASE ~StartNode
  <2>1. gen' = gen /\ handle' = handle /\ UNCHANGED <<received, relayed, status>>
    BY <1>3 DEF UserCall, InCall, Start, Stop, Signal, StopPut, StopJoin, StopJoined,
      JoinPending, JoinList, Put, PutDiscard, PutAccept, Enqueue, nodeVars
  <2>2. \A x \in Threads \ {User} : pc'[x] = pc[x]
    <3>1. ASSUME NEW m, NEW ds, Sending(User, m, ds)
          PROVE  \A x \in Threads \ {User} : pc'[x] = pc[x]
      BY <1>1, <3>1, SendingPc
    <3>2. CASE StopPut \/ \E n \in Nodes, sig \in UserSignals : Signal(n, sig)
      BY <3>1, <3>2 DEF StopPut, Signal
    <3>3. CASE Start \/ Stop \/ StopJoin \/ StopJoined
               \/ JoinPending(User, Here) \/ JoinList(User, Here)
      BY <1>1, <3>3 DEF Start, Stop, StopJoin, StopJoined, JoinPending, JoinList, Goto,
        nodeVars
    <3>4. CASE Put(User)
      BY <1>1, <3>4, PutAlone DEF Alone
    <3> QED BY <1>3, <3>2, <3>3, <3>4 DEF UserCall, InCall
  <2>3. \A x \in Daemons \cup Controls : pc'[x] = pc[x]
    BY <1>1, <2>2, ThreadFacts
  <2> QED BY <1>3, <2>1, <2>3 DEF NoBirth, Through
<1> QED BY <1>2, <1>3

LEMMA NoBirthBegun ==
  ASSUME NodeAssumption, TypeInv, Begun, NoBirth
  PROVE  Begun'
<1>1. /\ gen \in [Nodes -> 0..MaxGen] /\ MaxGen \in Nat
      /\ gen' = gen
  BY DEF TypeInv, TypeOK, NodeAssumption, NoBirth
<1> SUFFICES ASSUME NEW n \in Nodes
             PROVE  /\ handle'[n] <= gen'[n]
                    /\ \A t \in DaemonsOf(n) : t[3] > gen'[n] => pc'[t] = "none"
                    /\ gen'[n] = 0 => Through(n)' = {}
                    /\ gen'[n] > 0 => pc'[<<n, "worker", 1>>] # "none"
                    /\ \A c \in Controls : c[1] = n /\ pc'[c] # "none" => gen'[n] > 0
                    /\ status'[n] = "STOPPED" => gen'[n] > 0
  BY DEF Begun, DaemonsOf
<1>2. gen[n] \in Nat /\ handle[n] <= gen[n]
  <2>1. gen[n] \in Nat
    BY <1>1
  <2>2. handle[n] <= gen[n]
    BY DEF Begun
  <2> QED BY <2>1, <2>2
<1>3. handle'[n] <= gen'[n]
  <2>1. handle'[n] = handle[n] \/ handle'[n] = 0
    BY DEF NoBirth
  <2> QED BY <1>1, <1>2, <2>1
<1>4. \A t \in DaemonsOf(n) : t[3] > gen'[n] => pc'[t] = "none"
  BY <1>1 DEF NoBirth, Begun, DaemonsOf
<1>5. gen'[n] = 0 => Through(n)' = {}
  BY <1>1 DEF NoBirth, Begun
<1>6. gen'[n] > 0 => pc'[<<n, "worker", 1>>] # "none"
  <2>1. <<n, "worker", 1>> \in Daemons
    BY DEF Daemons, Roles, NodeAssumption
  <2> QED BY <1>1, <2>1 DEF NoBirth, Begun
<1>7. \A c \in Controls : c[1] = n /\ pc'[c] # "none" => gen'[n] > 0
  BY <1>1 DEF NoBirth, Begun
<1>8. status'[n] = "STOPPED" => gen'[n] > 0
  BY <1>1 DEF NoBirth, Begun
<1> QED BY <1>3, <1>4, <1>5, <1>6, <1>7, <1>8

\* The generations of a node after start().
LEMMA StartGens ==
  ASSUME NodeAssumption, TypeInv, Begun, NEW n \in Nodes, NodeStart(n)
  PROVE  /\ handle[n] = 0 => gen'[n] = gen[n] + 1 /\ handle'[n] = gen[n] + 1
         /\ handle[n] # 0 => gen'[n] = gen[n] /\ handle'[n] = handle[n]
         /\ \A k \in Nodes : k # n => gen'[k] = gen[k] /\ handle'[k] = handle[k]
         /\ \A k \in Nodes : gen[k] \in Nat /\ handle[k] \in Nat
         /\ gen'[n] \in Nat /\ gen'[n] > 0 /\ handle'[n] <= gen'[n]
         /\ stopEvt' = stopEvt
<1>1. /\ gen \in [Nodes -> 0..MaxGen] /\ handle \in [Nodes -> 0..MaxGen] /\ MaxGen \in Nat
      /\ stopEvt' = stopEvt
  BY DEF TypeInv, TypeOK, NodeAssumption, NodeStart
<1>2. handle[n] = 0 => gen'[n] = gen[n] + 1 /\ handle'[n] = gen[n] + 1
  BY <1>1 DEF NodeStart, MakeThreads
<1>3. handle[n] # 0 => gen'[n] = gen[n] /\ handle'[n] = handle[n]
  BY DEF NodeStart, MakeThreads
<1>4. \A k \in Nodes : k # n => gen'[k] = gen[k] /\ handle'[k] = handle[k]
  BY <1>1 DEF NodeStart, MakeThreads
<1>5. \A k \in Nodes : gen[k] \in Nat /\ handle[k] \in Nat
  BY <1>1
<1>6. handle[n] <= gen[n]
  BY DEF Begun
<1>7. gen'[n] \in Nat /\ gen'[n] > 0 /\ handle'[n] <= gen'[n]
  BY <1>2, <1>3, <1>5, <1>6
<1> QED BY <1>1, <1>2, <1>3, <1>4, <1>5, <1>7

LEMMA BirthBegun ==
  ASSUME NodeAssumption, TypeInv, Begun, NEW k \in Nodes, Birth(k)
  PROVE  Begun'
<1> SUFFICES ASSUME NEW n \in Nodes
             PROVE  /\ handle'[n] <= gen'[n]
                    /\ \A t \in DaemonsOf(n) : t[3] > gen'[n] => pc'[t] = "none"
                    /\ gen'[n] = 0 => Through(n)' = {}
                    /\ gen'[n] > 0 => pc'[<<n, "worker", 1>>] # "none"
                    /\ \A c \in Controls : c[1] = n /\ pc'[c] # "none" => gen'[n] > 0
                    /\ status'[n] = "STOPPED" => gen'[n] > 0
  BY DEF Begun, DaemonsOf
<1>1. NodeStart(k)
  BY DEF Birth
<1>2. \A x \in Spawned(k) : x[1] = k /\ handle[k] = 0 /\ x[3] = gen[k] + 1
  BY DEF Spawned, ThreadsOf
<1>3. \A x \in Daemons : pc'[x] = IF x \in Spawned(k) THEN "top" ELSE pc[x]
  BY DEF Birth
<1>4. /\ handle[n] <= gen[n]
      /\ \A t \in DaemonsOf(n) : t[3] > gen[n] => pc[t] = "none"
      /\ gen[n] = 0 => Through(n) = {}
      /\ gen[n] > 0 => pc[<<n, "worker", 1>>] # "none"
      /\ \A c \in Controls : c[1] = n /\ pc[c] # "none" => gen[n] > 0
      /\ status[n] = "STOPPED" => gen[n] > 0
  BY DEF Begun
<1>5. Through(n)' = Through(n) /\ \A c \in Controls : pc'[c] # "none" => pc[c] # "none"
  BY DEF Birth, Through
<1>6. <<n, "worker", 1>> \in Daemons
  BY DEF Daemons, Roles, NodeAssumption
<1>7. CASE n # k
  <2>1. gen'[n] = gen[n] /\ handle'[n] = handle[n]
    BY <1>1, <1>7, StartGens
  <2>2. \A x \in DaemonsOf(n) : pc'[x] = pc[x]
    BY <1>2, <1>3, <1>7 DEF DaemonsOf
  <2>3. <<n, "worker", 1>> \in DaemonsOf(n)
    BY <1>6 DEF DaemonsOf
  <2>4. status'[n] = status[n]
    <3>1. status \in [Nodes -> {"CONFIGURED", "RUNNING", "STOPPED"}]
      BY DEF TypeInv, TypeOK
    <3> QED BY <1>1, <1>7, <3>1 DEF NodeStart, MakeThreads
  <2> QED BY <1>4, <1>5, <2>1, <2>2, <2>3, <2>4
<1>8. CASE n = k
  <2>1. /\ gen[n] \in Nat /\ gen'[n] \in Nat /\ gen'[n] > 0 /\ handle'[n] <= gen'[n]
        /\ handle[n] = 0 => gen'[n] = gen[n] + 1
        /\ handle[n] # 0 => gen'[n] = gen[n]
    BY <1>1, <1>8, StartGens
  <2>2. \A t \in DaemonsOf(n) : t[3] > gen'[n] => pc'[t] = "none"
    <3> SUFFICES ASSUME NEW t \in DaemonsOf(n), t[3] > gen'[n] PROVE pc'[t] = "none"
      OBVIOUS
    <3>1. t \in Daemons /\ t[3] \in Nat
      BY ThreadFacts DEF DaemonsOf, NodeAssumption
    <3>2. t[3] > gen[n] /\ (handle[n] = 0 => t[3] # gen[n] + 1)
      BY <2>1, <3>1
    <3>3. t \notin Spawned(k)
      BY <1>2, <1>8, <3>2
    <3> QED BY <1>3, <1>4, <3>1, <3>2, <3>3
  <2>3. pc'[<<n, "worker", 1>>] # "none"
    <3>1. CASE gen[n] > 0
      BY <1>3, <1>4, <1>6, <3>1
    <3>2. CASE gen[n] = 0
      <4>1. handle[n] = 0
        BY <1>1, <1>4, <3>2, StartGens
      <4>2. <<n, "worker", 1>> \in Spawned(k)
        BY <1>6, <1>8, <3>2, <4>1 DEF Spawned, ThreadsOf, RolesOf, Roles
      <4> QED BY <1>3, <1>6, <4>2
    <3> QED BY <2>1, <3>1, <3>2
  <2> QED BY <2>1, <2>2, <2>3
<1> QED BY <1>7, <1>8

LEMMA NextBegun ==
  ASSUME NodeAssumption, PipelineAssumption, TypeInv, StopInv, Begun, [Next]_vars
  PROVE  Begun'
<1>1. ASSUME NEW t \in Daemons, DaemonStep(t) PROVE Begun'
  BY <1>1, DaemonNoBirth, NoBirthBegun
<1>2. ASSUME NEW t \in Controls, ControlThread(t) PROVE Begun'
  BY <1>2, ControlBirth, NoBirthBegun, BirthBegun, ThreadFacts
<1>3. CASE UserCall \/ InCall
  BY <1>3, CallBirth, NoBirthBegun, BirthBegun, HereType
<1>4. CASE UNCHANGED vars
  <2>1. NoBirth
    BY <1>4 DEF vars, NoBirth, Through
  <2> QED BY <2>1, NoBirthBegun
<1> QED
  BY <1>1, <1>2, <1>3, <1>4 DEF Next, ThreadStep, NodeStep

-----------------------------------------------------------------------------
(***************************************************************************)
(* The calls of start() and stop().                                        *)
(***************************************************************************)
\* A step of another thread: a node that is joined may be started again, but
\* its new threads end at the head of their loops.
LEMMA ThreadCalling ==
  ASSUME NodeAssumption, PipelineAssumption, TypeInv, StopInv, Begun, Calling, Stays,
         \A n \in Nodes : Finished(n) => Finished(n)',
         UNCHANGED <<pstatus, cur>>, pc'[User] = pc[User], waits'[User] = waits[User],
         NoBirth \/ \E n \in Nodes : Birth(n) /\ gen[n] > 0
  PROVE  Calling'
<1>1. \A n \in Nodes : gen[n] > 0 => gen'[n] > 0
  <2>1. CASE NoBirth
    BY <2>1 DEF NoBirth
  <2>2. ASSUME NEW n \in Nodes, Birth(n), gen[n] > 0
        PROVE  \A k \in Nodes : gen[k] > 0 => gen'[k] > 0
    BY <2>2, StartGens DEF Birth
  <2> QED BY <2>1, <2>2
<1>2. /\ Here' = Here /\ Stopped' = Stopped
      /\ \A n \in Nodes : StartedAt(n)' = StartedAt(n) /\ PassedAt(n)' = PassedAt(n)
  BY DEF Here, Stopped, StartedAt, PassedAt, Place
<1>3. Stopped => (\A n \in Nodes : Finished(n)') \/ (\A n \in Nodes : gen'[n] = 0)
  <2>1. CASE NoBirth
    BY <2>1 DEF Calling, NoBirth
  <2>2. CASE \E n \in Nodes : Birth(n) /\ gen[n] > 0
    <3>1. PICK n \in Nodes : gen[n] > 0
      BY <2>2
    <3>2. gen[n] # 0
      BY <3>1 DEF TypeInv, TypeOK
    <3> QED BY <3>2 DEF Calling
  <2> QED BY <2>1, <2>2
<1>4. ASSUME pc[User] = "join", NEW t \in DaemonsOf(Here)
      PROVE  \/ pc'[t] \in {"none", "dead"} \/ t \in waits[User]
             \/ EventsSet(Here)' /\ pc'[t] = "top"
  <2>1. t \in Daemons /\ t[1] = Here /\ Here \in Nodes
    BY HereType DEF DaemonsOf
  <2>2. CASE pc[t] \in {"none", "dead"} /\ NoBirth
    BY <2>1, <2>2 DEF NoBirth
  <2>3. CASE pc[t] \in {"none", "dead"} /\ \E n \in Nodes : Birth(n) /\ gen[n] > 0
    <3>1. PICK n \in Nodes : Birth(n) /\ gen[n] > 0
      BY <2>3
    <3>2. CASE t \notin Spawned(n)
      BY <2>1, <2>3, <3>1, <3>2 DEF Birth
    <3>3. CASE t \in Spawned(n)
      <4>1. n = Here /\ handle[n] = 0 /\ pc'[t] = "top"
        BY <2>1, <3>1, <3>3 DEF Birth, Spawned, ThreadsOf
      <4>2. EventsSet(n)
        BY <3>1, <4>1 DEF StopInv, StoppedNodes
      <4>3. \A r \in Roles : stopEvt'[n][r] = TRUE
        BY <4>2 DEF Stays, EventsSet
      <4> QED BY <1>2, <4>1, <4>3 DEF EventsSet
    <3> QED BY <3>2, <3>3
  <2>4. CASE EventsSet(Here) /\ pc[t] = "top"
    <3>1. \A r \in Roles : stopEvt'[Here][r] = TRUE
      BY <2>1, <2>4 DEF Stays, EventsSet
    <3>2. pc'[t] \in {"top", "dead"}
      BY <2>1, <2>4 DEF Stays, Settled
    <3> QED BY <1>2, <3>1, <3>2 DEF EventsSet
  <2> QED BY <1>4, <2>2, <2>3, <2>4 DEF Calling
<1> QED
  BY <1>1, <1>2, <1>3, <1>4 DEF Calling, DaemonsOf

\* Once join() has returned the node is finished: its worker has ended, which it
\* does only after a stop.
LEMMA JoinedFinished ==
  ASSUME NodeAssumption, PipelineAssumption, JoinMayTimeOut = FALSE,
         TypeInv, MessageInv, Begun, Calling, Joined(User)
  PROVE  Finished(Here)
<1>1. /\ pc[User] = "join" /\ \A x \in waits[User] : pc[x] = "dead"
      /\ Here \in Nodes
  BY HereType DEF Joined
<1>2. \A t \in DaemonsOf(Here) :
        pc[t] \in {"none", "dead"} \/ (EventsSet(Here) /\ pc[t] = "top")
  BY <1>1 DEF Calling
<1>3. EventsSet(Here)
  <2> DEFINE w == <<Here, "worker", 1>>
  <2>1. w \in Daemons /\ w[1] = Here /\ w[2] = "worker"
    BY <1>1 DEF Daemons, Roles, NodeAssumption
  <2>2. pc[w] # "none"
    BY <1>1 DEF Calling, Begun
  <2>3. pc[w] = "dead" => EventsSet(Here)
    BY <2>1 DEF MessageInv, StopTakes, StopFlags
  <2> QED BY <1>2, <2>1, <2>2, <2>3 DEF DaemonsOf
<1> QED BY <1>2, <1>3 DEF Finished

\* The loop positions, for the nodes they have left behind.
LEMMA PositionType ==
  ASSUME PipelineAssumption, TypeInv
  PROVE  /\ Len(Layers) \in Nat /\ cur.lay \in 1..Len(Layers)
         /\ cur.pos \in 1..Len(Layers[cur.lay])
         /\ \A l \in 1..Len(Layers) : Len(Layers[l]) \in Nat
         /\ cur = [op |-> cur.op, lay |-> cur.lay, pos |-> cur.pos]
<1>1. cur = [op |-> cur.op, lay |-> cur.lay, pos |-> cur.pos]
  BY DEF TypeInv, TypeOK
<1>2. Len(Layers) \in Nat /\ \A l \in 1..Len(Layers) : Len(Layers[l]) \in Nat
  BY DEF PipelineAssumption
<1> QED BY <1>1, <1>2, HerePlace

LEMMA FollowingPassed ==
  ASSUME NodeAssumption, PipelineAssumption, TypeInv, cur.op \in {"put", "join"},
         cur' = Following(cur)
  PROVE  /\ cur'.op \in {"put", "join", "none"}
         /\ cur'.op = "none" => cur' = NoCall /\ cur.op = "join"
         /\ \A n \in Nodes : PassedAt(n)' /\ cur'.op # "none" =>
              PassedAt(n) \/ (cur.op = "join" /\ n = Here)
         /\ Covered /\ cur'.op = "none" => \A n \in Nodes : PassedAt(n) \/ n = Here
<1> DEFINE L == cur.lay
           P == cur.pos
<1>1. /\ Len(Layers) \in Nat /\ L \in 1..Len(Layers) /\ P \in 1..Len(Layers[L])
      /\ \A l \in 1..Len(Layers) : Len(Layers[l]) \in Nat
      /\ cur = [op |-> cur.op, lay |-> L, pos |-> P]
  BY PositionType
<1>2. Here = Layers[L][P]
  BY DEF Here
<1>3. CASE P < Len(Layers[L])
  <2>1. cur' = [op |-> cur.op, lay |-> L, pos |-> P + 1]
    BY <1>1, <1>3 DEF Following
  <2>2. cur'.op = cur.op /\ cur'.lay = L /\ cur'.pos = P + 1
    BY <2>1
  <2> HIDE DEF L, P
  <2>3. ASSUME NEW n \in Nodes, PassedAt(n)'
        PROVE  PassedAt(n) \/ (cur.op = "join" /\ n = Here)
    <3>1. PICK l \in 1..Len(Layers) : \E p \in 1..Len(Layers[l]) : Place(n, l, p) /\
                 (l < L \/ (l = L /\ cur.op = "join" /\ p < P + 1))
      BY <2>2, <2>3 DEF PassedAt, Place
    <3>2. PICK p \in 1..Len(Layers[l]) : Place(n, l, p) /\
                 (l < L \/ (l = L /\ cur.op = "join" /\ p < P + 1))
      BY <3>1
    <3>3. CASE l < L \/ (l = L /\ cur.op = "join" /\ p < P)
      BY <3>2, <3>3 DEF PassedAt, L, P
    <3>4. CASE l = L /\ cur.op = "join" /\ p = P
      BY <1>2, <3>2, <3>4 DEF Place
    <3>5. p < P + 1 => p < P \/ p = P
      BY <1>1, <3>1
    <3> QED BY <3>2, <3>3, <3>4, <3>5
  <2> QED BY <2>2, <2>3
<1>4. CASE cur.op = "put" /\ ~(P < Len(Layers[L]))
  <2>1. cur' = [op |-> "join", lay |-> L, pos |-> 1]
    BY <1>4 DEF Following, NextLoop, At
  <2>2. cur'.op = "join" /\ cur'.lay = L /\ cur'.pos = 1
    BY <2>1
  <2> HIDE DEF L, P
  <2>3. ASSUME NEW n \in Nodes, PassedAt(n)' PROVE PassedAt(n)
    <3>1. PICK l \in 1..Len(Layers) : \E p \in 1..Len(Layers[l]) : Place(n, l, p) /\
                 (l < L \/ (l = L /\ p < 1))
      BY <2>2, <2>3 DEF PassedAt, Place
    <3>2. PICK p \in 1..Len(Layers[l]) : Place(n, l, p) /\ (l < L \/ (l = L /\ p < 1))
      BY <3>1
    <3>3. l < L
      BY <1>1, <3>2
    <3> QED BY <3>2, <3>3 DEF PassedAt, L
  <2> QED BY <2>2, <2>3
<1>5. CASE cur.op = "join" /\ ~(P < Len(Layers[L])) /\ L < Len(Layers)
  <2>1. cur' = [op |-> "put", lay |-> L + 1, pos |-> 1]
    BY <1>5 DEF Following, NextLoop, At
  <2>2. cur'.op = "put" /\ cur'.lay = L + 1 /\ cur'.pos = 1
    BY <2>1
  <2> HIDE DEF L, P
  <2>3. ASSUME NEW n \in Nodes, PassedAt(n)' PROVE PassedAt(n) \/ n = Here
    <3>1. PICK l \in 1..Len(Layers) : \E p \in 1..Len(Layers[l]) : Place(n, l, p) /\ l < L + 1
      BY <2>2, <2>3 DEF PassedAt, Place
    <3>2. PICK p \in 1..Len(Layers[l]) : Place(n, l, p) /\ l < L + 1
      BY <3>1
    <3>3. CASE l < L \/ (l = L /\ p < P)
      BY <1>5, <3>2, <3>3 DEF PassedAt, L, P
    <3>4. CASE l = L /\ p = P
      BY <1>2, <3>2, <3>4 DEF Place
    <3>5. l < L \/ (l = L /\ (p < P \/ p = P))
      <4>1. l < L \/ l = L
        BY <1>1, <3>2
      <4>2. P = Len(Layers[L]) /\ P \in Nat
        <5>1. P \in 1..Len(Layers[L]) /\ Len(Layers[L]) \in Nat
          BY <1>1
        <5> QED BY <1>5, <5>1
      <4>3. l = L => p < P \/ p = P
        BY <4>2
      <4> QED BY <4>1, <4>3
    <3> QED BY <3>3, <3>4, <3>5
  <2> QED BY <1>5, <2>2, <2>3
<1>6. CASE cur.op = "join" /\ ~(P < Len(Layers[L])) /\ ~(L < Len(Layers))
  <2>1. cur' = NoCall
    BY <1>6 DEF Following, NextLoop
  <2>2. cur'.op = "none"
    BY <2>1 DEF NoCall, At
  <2> HIDE DEF L, P
  <2>3. ASSUME Covered, NEW n \in Nodes PROVE PassedAt(n) \/ n = Here
    <3>1. PICK l \in 1..Len(Layers) : \E p \in 1..Len(Layers[l]) : Layers[l][p] = n
      BY <2>3 DEF Covered
    <3>2. PICK p \in 1..Len(Layers[l]) : Layers[l][p] = n
      BY <3>1
    <3>3. CASE l < L \/ (l = L /\ p < P)
      BY <1>6, <3>2, <3>3 DEF PassedAt, Place, L, P
    <3>4. CASE l = L /\ p = P
      BY <1>2, <3>2, <3>4
    <3>5. l < L \/ (l = L /\ (p < P \/ p = P))
      BY <1>1, <1>6, <3>2
    <3> QED BY <3>3, <3>4, <3>5
  <2> QED BY <1>6, <2>1, <2>2, <2>3
<1> QED BY <1>3, <1>4, <1>5, <1>6

LEMMA FollowingStarted ==
  ASSUME NodeAssumption, PipelineAssumption, TypeInv, cur.op = "start",
         cur' = Following(cur)
  PROVE  /\ cur'.op \in {"start", "none"}
         /\ cur'.op = "none" => cur' = NoCall
         /\ \A n \in Nodes : StartedAt(n)' /\ cur'.op # "none" => StartedAt(n) \/ n = Here
         /\ Covered /\ cur'.op = "none" => \A n \in Nodes : StartedAt(n) \/ n = Here
<1> DEFINE L == cur.lay
           P == cur.pos
<1>1. /\ Len(Layers) \in Nat /\ L \in 1..Len(Layers) /\ P \in 1..Len(Layers[L])
      /\ \A l \in 1..Len(Layers) : Len(Layers[l]) \in Nat
      /\ cur = [op |-> cur.op, lay |-> L, pos |-> P]
  BY PositionType
<1>2. Here = Layers[L][P]
  BY DEF Here
<1>a. ASSUME NEW n \in Nodes, NEW l \in 1..Len(Layers), NEW p \in 1..Len(Layers[l]),
             Place(n, l, p), l > L \/ (l = L /\ (p < P \/ p = P))
      PROVE  StartedAt(n) \/ n = Here
  BY <1>2, <1>a DEF StartedAt, Place
<1>3. CASE P < Len(Layers[L])
  <2>1. cur' = [op |-> "start", lay |-> L, pos |-> P + 1]
    BY <1>1, <1>3 DEF Following
  <2>2. cur'.op = "start" /\ cur'.lay = L /\ cur'.pos = P + 1
    BY <2>1
  <2> HIDE DEF L, P
  <2>3. ASSUME NEW n \in Nodes, StartedAt(n)' PROVE StartedAt(n) \/ n = Here
    <3>1. PICK l \in 1..Len(Layers) : \E p \in 1..Len(Layers[l]) : Place(n, l, p) /\
                 (l > L \/ (l = L /\ p < P + 1))
      BY <2>2, <2>3 DEF StartedAt, Place
    <3>2. PICK p \in 1..Len(Layers[l]) : Place(n, l, p) /\
                 (l > L \/ (l = L /\ p < P + 1))
      BY <3>1
    <3>3. p < P + 1 => p < P \/ p = P
      BY <1>1, <3>1
    <3> QED BY <1>a, <3>2, <3>3
  <2> QED BY <2>2, <2>3
<1>4. CASE ~(P < Len(Layers[L])) /\ L > 1
  <2>1. cur' = [op |-> "start", lay |-> L - 1, pos |-> 1]
    BY <1>4 DEF Following, NextLoop, At
  <2>2. cur'.op = "start" /\ cur'.lay = L - 1 /\ cur'.pos = 1
    BY <2>1
  <2> HIDE DEF L, P
  <2>3. ASSUME NEW n \in Nodes, StartedAt(n)' PROVE StartedAt(n) \/ n = Here
    <3>1. PICK l \in 1..Len(Layers) : \E p \in 1..Len(Layers[l]) : Place(n, l, p) /\
                 (l > L - 1 \/ (l = L - 1 /\ p < 1))
      BY <2>2, <2>3 DEF StartedAt, Place
    <3>2. PICK p \in 1..Len(Layers[l]) : Place(n, l, p) /\
                 (l > L - 1 \/ (l = L - 1 /\ p < 1))
      BY <3>1
    <3>3. l > L \/ (l = L /\ (p < P \/ p = P))
      <4>1. l > L \/ l = L
        <5>1. \A N \in Nat : \A k \in 1..N : k \in Nat
          OBVIOUS
        <5>2. L \in Nat /\ l \in Nat
          BY <1>1, <5>1
        <5> QED BY <3>2, <5>2
      <4>2. l = L => p < P \/ p = P
        BY <1>1, <1>4
      <4> QED BY <4>1, <4>2
    <3> QED BY <1>a, <3>2, <3>3
  <2> QED BY <2>2, <2>3
<1>5. CASE ~(P < Len(Layers[L])) /\ ~(L > 1)
  <2>1. cur' = NoCall
    BY <1>5 DEF Following, NextLoop
  <2>2. cur'.op = "none"
    BY <2>1 DEF NoCall, At
  <2> HIDE DEF L, P
  <2>3. ASSUME Covered, NEW n \in Nodes PROVE StartedAt(n) \/ n = Here
    <3>1. PICK l \in 1..Len(Layers) : \E p \in 1..Len(Layers[l]) : Layers[l][p] = n
      BY <2>3 DEF Covered
    <3>2. PICK p \in 1..Len(Layers[l]) : Layers[l][p] = n
      BY <3>1
    <3>3. l > L \/ (l = L /\ (p < P \/ p = P))
      BY <1>1, <1>5, <3>2
    <3> QED BY <1>a, <3>2, <3>3 DEF Place
  <2> QED BY <2>1, <2>2, <2>3
<1> QED BY <1>3, <1>4, <1>5

LEMMA LoopCalling ==
  ASSUME NodeAssumption, PipelineAssumption, JoinMayTimeOut = FALSE, Layered,
         TypeInv, StopInv, MessageInv, Begun, Calling,
         \A n \in Nodes : Finished(n) => Finished(n)',
         StartNode \/ StopPut \/ StopJoined
  PROVE  Calling'
<1>1. /\ Here \in Nodes /\ User \in Threads /\ pc \in [Threads -> Labels]
      /\ pstatus \in {"READY", "RUNNING"}
      /\ \A n \in Nodes : gen[n] \in Nat
      /\ cur' = Following(cur)
  <2>1. gen \in [Nodes -> 0..MaxGen]
    BY DEF TypeInv, TypeOK
  <2>2. \A n \in Nodes : gen[n] \in Nat
    BY <2>1
  <2> QED
    BY <2>2, ThreadFacts, HereType DEF TypeInv, TypeOK, StartNode, StopPut, StopJoined
<1>2. CASE StartNode
  <2>1. /\ NodeStart(Here) /\ pc[User] = "drive" /\ cur.op = "start"
        /\ pc' = [x \in Threads |-> IF x \in Spawned(Here) THEN "top" ELSE pc[x]]
        /\ pstatus' = IF cur' = NoCall THEN "RUNNING" ELSE pstatus
    BY <1>2 DEF StartNode, Driving
  <2>2. pc'[User] = "drive"
    BY <1>1, <2>1, StartFrame, ThreadFacts
  <2>3. \A n \in Nodes : gen[n] > 0 \/ n = Here => gen'[n] > 0
    BY <1>1, <2>1, StartGens
  <2>4. /\ cur'.op \in {"start", "none"}
        /\ cur'.op = "none" => cur' = NoCall
        /\ \A n \in Nodes : StartedAt(n)' /\ cur'.op # "none" => StartedAt(n) \/ n = Here
        /\ cur'.op = "none" => \A n \in Nodes : StartedAt(n) \/ n = Here
    BY <1>1, <2>1, FollowingStarted DEF Layered
  <2>5. /\ \A n \in Nodes : StartedAt(n) => gen[n] > 0
        /\ pstatus = "READY"
    BY <2>1 DEF Calling
  <2>6. NoCall.op = "none"
    BY DEF NoCall, At
  <2>7. cur'.op = "start" => \A n \in Nodes : StartedAt(n)' => gen'[n] > 0
    BY <2>3, <2>4, <2>5
  <2>8. cur'.op = "none" => pstatus' = "RUNNING" /\ \A n \in Nodes : gen'[n] > 0
    BY <2>1, <2>3, <2>4, <2>5
  <2>9. cur'.op = "start" => pstatus' = "READY" /\ cur' # NoCall
    BY <2>1, <2>5, <2>6
  <2> QED BY <2>2, <2>4, <2>7, <2>8, <2>9 DEF Calling, Stopped
<1>3. CASE StopPut
  <2>1. /\ Sending(User, Control("STOP"), <<Here>>) /\ cur.op = "put"
        /\ UNCHANGED <<gen, pstatus>>
    BY <1>3 DEF StopPut, Driving
  <2>2. pc'[User] \in {"drive", "put"}
    BY <1>1, <2>1, ThreadFacts DEF Sending, Goto, Resume, AfterCall, User
  <2>3. /\ cur'.op \in {"put", "join"}
        /\ \A n \in Nodes : PassedAt(n)' => PassedAt(n)
    BY <1>1, <2>1, FollowingPassed
  <2>4. pstatus = "RUNNING" /\ \A n \in Nodes : PassedAt(n) => Finished(n)
    BY <2>1 DEF Calling
  <2>5. \A n \in Nodes : gen'[n] > 0
    BY <2>1, <2>4 DEF Calling
  <2> QED BY <2>1, <2>2, <2>3, <2>4, <2>5 DEF Calling, Stopped
<1>4. CASE StopJoined
  <2>1. /\ Joined(User) /\ pc[User] = "join" /\ pc'[User] = "drive" /\ gen' = gen
        /\ pstatus' = IF cur' = NoCall THEN "READY" ELSE pstatus
    BY <1>1, <1>4 DEF StopJoined, Joined, Goto
  <2>2. cur.op = "join" /\ pstatus = "RUNNING"
    BY <2>1 DEF Calling
  <2>3. \A n \in Nodes : PassedAt(n) \/ n = Here => Finished(n)'
    <3>1. Finished(Here)
      BY <2>1, JoinedFinished
    <3> QED BY <1>1, <2>2, <3>1 DEF Calling
  <2>4. /\ cur'.op \in {"put", "join", "none"}
        /\ cur'.op = "none" => cur' = NoCall
        /\ \A n \in Nodes : PassedAt(n)' /\ cur'.op # "none" => PassedAt(n) \/ n = Here
        /\ cur'.op = "none" => \A n \in Nodes : PassedAt(n) \/ n = Here
    BY <1>1, <2>2, FollowingPassed DEF Layered
  <2>5. NoCall.op = "none"
    BY DEF NoCall, At
  <2>6. \A n \in Nodes : gen'[n] > 0
    BY <2>1, <2>2 DEF Calling
  <2>7. cur'.op # "none" => /\ pstatus' = "RUNNING" /\ cur' # NoCall
                            /\ \A n \in Nodes : PassedAt(n)' => Finished(n)'
    BY <2>1, <2>2, <2>3, <2>4, <2>5
  <2>8. cur'.op = "none" => pstatus' = "READY" /\ \A n \in Nodes : Finished(n)'
    BY <2>1, <2>3, <2>4
  <2> QED BY <2>1, <2>4, <2>6, <2>7, <2>8 DEF Calling, Stopped
<1> QED BY <1>2, <1>3, <1>4

LEMMA UserCalling ==
  ASSUME NodeAssumption, PipelineAssumption,
         TypeInv, StopInv, MessageInv, Begun, Calling,
         \A n \in Nodes : Finished(n) => Finished(n)',
         \/ Start \/ Stop \/ StopJoin
         \/ \E n \in Nodes, sig \in UserSignals : Signal(n, sig)
         \/ /\ Put(User) \/ JoinPending(User, Here) \/ JoinList(User, Here)
            /\ UNCHANGED <<pstatus, cur, signals>>
  PROVE  Calling'
<1>1. /\ Here \in Nodes /\ User \in Threads /\ pc \in [Threads -> Labels]
      /\ waits \in [Threads -> SUBSET Daemons]
  BY ThreadFacts, HereType DEF TypeInv, TypeOK
<1>2. gen' = gen
  BY DEF Start, Stop, StopJoin, Signal, Put, PutDiscard, PutAccept, Enqueue,
    JoinPending, JoinList, nodeVars
<1>3. CASE Start
  <2>1. /\ pc' = pc /\ pc[User] = "drive" /\ pstatus = "READY" /\ pstatus' = "READY"
        /\ cur' = At("start", Len(Layers), 1)
    BY <1>3 DEF Start, Driving, nodeVars
  <2>2. cur'.op = "start" /\ cur'.lay = Len(Layers) /\ cur'.pos = 1 /\ cur' # NoCall
    BY <2>1 DEF At, NoCall
  <2>3. \A n \in Nodes : ~StartedAt(n)'
    <3> SUFFICES ASSUME NEW n \in Nodes, StartedAt(n)' PROVE FALSE
      OBVIOUS
    <3>1. PICK l \in 1..Len(Layers) : \E p \in 1..Len(Layers[l]) :
                 l > Len(Layers) \/ (l = Len(Layers) /\ p < 1)
      BY <2>2 DEF StartedAt
    <3>2. Len(Layers) \in Nat
      BY DEF PipelineAssumption
    <3> QED BY <3>1, <3>2
  <2> QED BY <2>1, <2>2, <2>3 DEF Calling, Stopped
<1>4. CASE Stop
  <2>1. /\ pc' = pc /\ pc[User] = "drive" /\ pstatus = "RUNNING" /\ pstatus' = "RUNNING"
        /\ cur' = At("put", 1, 1)
    BY <1>4 DEF Stop, Driving, nodeVars
  <2>2. cur'.op = "put" /\ cur'.lay = 1 /\ cur' # NoCall
    BY <2>1 DEF At, NoCall
  <2>3. \A n \in Nodes : ~PassedAt(n)'
    <3> SUFFICES ASSUME NEW n \in Nodes, PassedAt(n)' PROVE FALSE
      OBVIOUS
    <3>1. PICK l \in 1..Len(Layers) : l < 1
      BY <2>2 DEF PassedAt
    <3> QED BY <3>1
  <2> QED BY <1>2, <2>1, <2>2, <2>3 DEF Calling, Stopped
<1>5. CASE UNCHANGED <<pstatus, cur>>
  <2>1. /\ Stopped' = Stopped
        /\ \A n \in Nodes : StartedAt(n)' = StartedAt(n) /\ PassedAt(n)' = PassedAt(n)
        /\ Here' = Here
    BY <1>5 DEF Stopped, StartedAt, PassedAt, Place, Here
  <2>2. Stopped' => (\A n \in Nodes : Finished(n)') \/ (\A n \in Nodes : gen'[n] = 0)
    BY <1>2, <2>1 DEF Calling
  <2>3. ASSUME pc'[User] \in {"drive", "put", "enq", "pend", "list", "join"},
               pc'[User] \in {"pend", "list", "join"} => cur.op = "join",
               cur.op = "start" => pc'[User] = "drive",
               pc'[User] = "join" =>
                 \A t \in DaemonsOf(Here) :
                   pc'[t] \in {"none", "dead"} \/ t \in waits'[User]
        PROVE  Calling'
    BY <1>2, <1>5, <2>1, <2>2, <2>3 DEF Calling, DaemonsOf
  <2>4. CASE StopJoin
    BY <1>1, <2>3, <2>4 DEF StopJoin, Goto, Driving
  <2>5. CASE JoinPending(User, Here)
    <3>1. pc[User] = "pend" /\ pc'[User] = "list"
      BY <1>1, <2>5 DEF JoinPending, Goto
    <3> QED BY <2>3, <3>1 DEF Calling
  <2>6. CASE JoinList(User, Here)
    <3>1. /\ pc[User] = "list" /\ pc'[User] = "join"
          /\ waits'[User] = {x \in ThreadsOf(Here, handle[Here]) : pc[x] # "dead"}
      BY <1>1, <2>6 DEF JoinList, Goto
    <3>2. \A t \in DaemonsOf(Here) : pc'[t] = pc[t]
      BY <1>1, <2>6, ThreadFacts DEF JoinList, Goto, DaemonsOf
    <3>3. ASSUME NEW t \in DaemonsOf(Here), Alive(t)
          PROVE  t \in ThreadsOf(Here, handle[Here])
      <4>1. t \in Daemons /\ t[1] = Here /\ t \in Threads /\ t[2] \in Roles
        BY ThreadFacts DEF DaemonsOf
      <4>2. t[3] = handle[Here]
        BY <3>3, <4>1 DEF StopInv, LiveThreads
      <4>3. t[2] \in RolesOf(Here)
        BY <3>3, <4>1 DEF TypeInv, Hands, RolesOf, Alive
      <4> QED BY <4>1, <4>2, <4>3 DEF ThreadsOf
    <3>4. \A t \in DaemonsOf(Here) : pc'[t] \in {"none", "dead"} \/ t \in waits'[User]
      BY <3>1, <3>2, <3>3 DEF Alive
    <3> QED BY <2>3, <3>1, <3>4 DEF Calling
  <2>7. CASE \E n \in Nodes, sig \in UserSignals : Signal(n, sig)
    <3>1. PICK n \in Nodes, sig \in UserSignals : Signal(n, sig)
      BY <2>7
    <3>2. pc'[User] \in {"drive", "put"} /\ cur.op = "none"
      BY <1>1, <3>1, ThreadFacts
      DEF Signal, Driving, Sending, Goto, Resume, AfterCall, User
    <3> QED BY <2>3, <3>2
  <2>8. CASE Put(User)
    <3>1. pc[User] \in {"put", "enq"} /\ pc'[User] \in {"put", "enq", "top", "finally", "none", "drive"}
      BY <1>1, <2>8, PutAlone
    <3>2. pc'[User] \in {"put", "enq", "drive"}
      <4>1. CASE PutAccept(User)
        BY <1>1, <4>1 DEF PutAccept, Goto
      <4>2. CASE PutDiscard(User) \/ Enqueue(User)
        BY <1>1, <4>2
        DEF PutDiscard, Enqueue, Served, Sending, Goto, Resume, AfterCall, User
      <4> QED BY <2>8, <4>1, <4>2 DEF Put
    <3>3. cur.op # "start"
      BY <3>1 DEF Calling
    <3> QED BY <2>3, <3>2, <3>3
  <2> QED BY <1>5, <2>4, <2>5, <2>6, <2>7, <2>8 DEF Start, Stop, At, NoCall, Driving
<1> QED BY <1>3, <1>4, <1>5 DEF StopJoin, Signal

\* The other threads leave the user's alone.
LEMMA UserStill ==
  ASSUME NodeAssumption, TypeInv, StopInv,
         NEW t \in Daemons \cup Controls, NodeStep(t)
  PROVE  pc'[User] = pc[User] /\ waits'[User] = waits[User]
<1>1. User \in Threads /\ pc \in [Threads -> Labels] /\ waits \in [Threads -> SUBSET Daemons]
  BY ThreadFacts DEF TypeInv, TypeOK
<1>2. t \in Threads /\ User # t /\ Daemons \cap Controls = {} /\ t[1] \in Nodes
  BY ThreadFacts
<1>3. CASE t \in Daemons
  <2>1. DaemonStep(t)
    BY <1>2, <1>3 DEF NodeStep
  <2>2. CASE UpdateGetControl(t)
    <3>1. PICK c \in Controls, l \in {"dead", "top"} :
            pc' = [pc EXCEPT ![c] = "ctl", ![t] = l] /\ waits' = waits
      BY <2>2 DEF UpdateGetControl
    <3>2. User # c
      BY ThreadFacts
    <3> QED BY <1>1, <1>2, <3>1, <3>2
  <2>3. CASE ~UpdateGetControl(t)
    BY <1>1, <1>2, <1>3, <2>1, <2>3, DaemonFrame DEF Frame
  <2> QED BY <2>2, <2>3
<1>4. CASE t \in Controls
  <2>1. ControlThread(t)
    BY <1>2, <1>4 DEF NodeStep
  <2>2. ASSUME AfterStop(t) PROVE pc'[User] = pc[User]
    BY <1>1, <1>2, <2>2, SendingPc DEF AfterStop
  <2>3. CASE ControlStop(t)
    BY <1>1, <1>2, <2>2, <2>3 DEF ControlStop, Goto
  <2>4. CASE ControlStopEnd(t)
    BY <1>1, <1>2, <2>2, <2>4 DEF ControlStopEnd, Joined
  <2>5. CASE ControlSuspend(t) \/ JoinPending(t, t[1]) \/ JoinList(t, t[1])
    BY <1>1, <1>2, <2>5 DEF ControlSuspend, JoinPending, JoinList, Goto
  <2>6. CASE Put(t)
    BY <1>1, <1>2, <2>6, PutAlone, PutFrame DEF Frame
  <2>7. CASE ControlStart(t)
    <3>1. User \notin Spawned(t[1])
      BY <1>2, StartFrame, ThreadFacts
    <3> QED BY <1>1, <1>2, <2>7, <3>1 DEF ControlStart
  <2> QED BY <2>1, <2>3, <2>4, <2>5, <2>6, <2>7 DEF ControlThread
<1> QED BY <1>3, <1>4

LEMMA NextCalling ==
  ASSUME NodeAssumption, PipelineAssumption, Orderly,
         TypeInv, StopInv, DrainInv, [Next]_vars
  PROVE  Calling'
<1>1. /\ MessageInv /\ Begun /\ Calling /\ Layered /\ JoinMayTimeOut = FALSE
  BY DEF DrainInv, Orderly
<1>2. Stays /\ \A n \in Nodes : Finished(n) => Finished(n)'
  BY <1>1, StepStays
<1>3. User \in Threads /\ pc \in [Threads -> Labels] /\ waits \in [Threads -> SUBSET Daemons]
  BY ThreadFacts DEF TypeInv, TypeOK
<1>4. ASSUME NEW t \in Daemons, DaemonStep(t), UNCHANGED <<pstatus, cur>> PROVE Calling'
  <2>1. NoBirth
    BY <1>1, <1>4, DaemonNoBirth
  <2>3. pc'[User] = pc[User] /\ waits'[User] = waits[User]
    BY <1>4, UserStill DEF NodeStep
  <2> QED BY <1>1, <1>2, <1>4, <2>1, <2>3, ThreadCalling
<1>5. ASSUME NEW t \in Controls, ControlThread(t), UNCHANGED <<pstatus, cur>> PROVE Calling'
  <2>1. /\ User # t /\ t \in Threads /\ t[1] \in Nodes
    BY ThreadFacts
  <2>2. pc'[User] = pc[User] /\ waits'[User] = waits[User]
    BY <1>5, UserStill DEF NodeStep
  <2>3. CASE NoBirth
    BY <1>1, <1>2, <1>5, <2>2, <2>3, ThreadCalling
  <2>4. CASE ControlStart(t) /\ Birth(t[1])
    <3>1. gen[t[1]] > 0
      BY <1>1, <2>1, <2>4 DEF ControlStart, Begun
    <3> QED BY <1>1, <1>2, <1>5, <2>1, <2>2, <2>4, <3>1, ThreadCalling
  <2> QED BY <1>1, <1>5, <2>3, <2>4, ControlBirth
<1>6. CASE UserCall \/ InCall
  BY <1>1, <1>2, <1>6, LoopCalling, UserCalling DEF UserCall, InCall
<1>7. CASE UNCHANGED vars
  <2>1. NoBirth /\ UNCHANGED <<pstatus, cur>> /\ pc'[User] = pc[User]
        /\ waits'[User] = waits[User]
    BY <1>7 DEF vars, NoBirth, Through
  <2> QED BY <1>1, <1>2, <2>1, ThreadCalling
<1> QED
  BY <1>4, <1>5, <1>6, <1>7 DEF Next, ThreadStep, NodeStep

LEMMA InitDrain ==
  ASSUME NodeAssumption, PipelineAssumption, Init
  PROVE  DrainInv
<1>1. \A n \in Nodes : /\ queue[n] = <<>> /\ outq[n] = <<>> /\ Through(n) = {}
                       /\ draining[n] = FALSE /\ handle[n] = 0 /\ gen[n] = 0
                       /\ \A r \in Roles : stopEvt[n][r] = FALSE
  <2>1. \A n \in Nodes : received[n] = <<>> /\ relayed[n] = {}
    BY DEF Init, NodeInit
  <2>2. IdsIn(<<>>) = {}
    BY DEF IdsIn
  <2>3. \A n \in Nodes : Through(n) = {}
    BY <2>1, <2>2 DEF Through
  <2> QED BY <2>3 DEF Init, NodeInit
<1>9. /\ \A t \in Threads : held[t] = NoMsg /\ pc[t] \in {"drive", "none"}
      /\ pc[User] = "drive" /\ pstatus = "READY" /\ cur = NoCall
      /\ \A t \in Daemons \cup Controls : pc[t] = "none"
  <2>1. \A t \in Threads : held[t] = NoMsg /\ pc[t] = IF t = User THEN "drive" ELSE "none"
    BY DEF Init, NodeInit
  <2>2. \A t \in Threads : held[t] = NoMsg /\ pc[t] \in {"drive", "none"}
    BY <2>1
  <2>3. User \in Threads /\ \A t \in Daemons \cup Controls : t \in Threads /\ t # User
    BY ThreadFacts
  <2>4. pc[User] = "drive" /\ \A t \in Daemons \cup Controls : pc[t] = "none"
    BY <2>1, <2>3
  <2>5. pstatus = "READY" /\ cur = NoCall
    BY DEF Init
  <2> QED BY <2>2, <2>4, <2>5
<1>2. \A t \in Threads : ~Putting(t) /\ Known(held[t])
  <2>1. Known(NoMsg)
    BY DEF Known, NoMsg
  <2>2. \A t \in Threads : held[t] = NoMsg
    BY <1>9
  <2>3. \A t \in Threads : ~Putting(t)
    BY <1>9 DEF Putting
  <2> QED BY <2>1, <2>2, <2>3
<1>3. Flow
  BY <1>1 DEF Flow
<1>4. StopsLast
  <2> SUFFICES ASSUME NEW n \in Nodes, NEW d \in Destinations(n) PROVE NoStop(d)
    BY DEF StopsLast
  <2>1. d \in Nodes
    BY DEF Destinations, NodeAssumption
  <2>2. ~Holds(outq[d]) /\ ~Holds(queue[d])
    BY <1>1, <2>1 DEF Holds
  <2>3. ~Taken(d)
    BY <1>1, <1>9, <2>1 DEF Taken, DaemonsOf, Roles
  <2>4. \A t \in DaemonsOf(d) : ~Storing(t)
    BY <1>9 DEF DaemonsOf, Storing
  <2> QED BY <1>2, <2>2, <2>3, <2>4 DEF NoStop, Clear, OutClear
<1>5. StopTakes
  BY <1>1, <1>9, ThreadFacts DEF StopTakes, StopFlags, Roles
<1>6. Senders /\ Propagated
  BY <1>1, <1>2 DEF Senders, Propagated
<1>7. Begun
  <2>1. \A n \in Nodes : <<n, "worker", 1>> \in Daemons
    BY DEF Daemons, Roles, NodeAssumption
  <2>2. \A n \in Nodes : handle[n] <= gen[n] /\ ~(gen[n] > 0)
    BY <1>1
  <2>3. \A n \in Nodes : status[n] # "STOPPED"
    BY DEF Init, NodeInit
  <2>4. \A n \in Nodes : Through(n) = {}
    BY <1>1
  <2>5. \A t \in Daemons \cup Controls : pc[t] = "none"
    BY <1>9
  <2> SUFFICES ASSUME NEW n \in Nodes
               PROVE  /\ handle[n] <= gen[n]
                      /\ \A t \in DaemonsOf(n) : t[3] > gen[n] => pc[t] = "none"
                      /\ gen[n] = 0 => Through(n) = {}
                      /\ gen[n] > 0 => pc[<<n, "worker", 1>>] # "none"
                      /\ \A c \in Controls : c[1] = n /\ pc[c] # "none" => gen[n] > 0
                      /\ status[n] = "STOPPED" => gen[n] > 0
    BY DEF Begun
  <2>6. \A t \in DaemonsOf(n) : pc[t] = "none"
    BY <2>5 DEF DaemonsOf
  <2>7. \A c \in Controls : pc[c] = "none"
    BY <2>5
  <2>8. handle[n] <= gen[n] /\ ~(gen[n] > 0) /\ Through(n) = {} /\ status[n] # "STOPPED"
    BY <2>2, <2>3, <2>4
  <2> QED BY <2>6, <2>7, <2>8
<1>8. Calling
  <2>1. pc[User] = "drive" /\ pstatus = "READY" /\ cur = NoCall /\ cur.op = "none"
    BY <1>9 DEF NoCall, At
  <2>2. \A n \in Nodes : gen[n] = 0
    BY <1>1
  <2> QED BY <2>1, <2>2 DEF Calling
<1> QED
  BY <1>3, <1>4, <1>5, <1>6, <1>7, <1>8 DEF DrainInv, MessageInv

LEMMA DrainingIsSafe ==
  ASSUME Orderly
  PROVE  Spec => [](TypeInv /\ StopInv /\ DrainInv)
<1> USE NodeAssumption, PipelineAssumption
<1>1. Init => DrainInv
  BY InitDrain
<1>2. TypeInv /\ StopInv /\ DrainInv /\ [Next]_vars => DrainInv'
  <2>1. ASSUME TypeInv, StopInv, DrainInv, [Next]_vars PROVE DrainInv'
    BY <2>1, NextMessages, NextBegun, NextCalling DEF DrainInv
  <2> QED BY <2>1
<1>3. Spec => [](TypeInv /\ StopInv)
  BY StoppingIsFinal DEF Orderly
<1> QED
  BY <1>1, <1>2, <1>3, PTL DEF Spec

\* What has had a message, and has finished, has passed it on: a stop reaches the
\* destinations behind it, and they have all taken one.
LEMMA FinishedPassed ==
  ASSUME NodeAssumption, MessageInv, NEW n \in Nodes, NEW d \in Destinations(n),
         Finished(n), Finished(d)
  PROVE  Through(n) \subseteq Through(d)
<1>1. d \in Nodes
  BY DEF Destinations, NodeAssumption
<1>2. \A x : ~Sent(n, d, x)
  BY DEF Sent, Finished, Putting
<1>3. Taken(d)
  BY DEF Finished, EventsSet, Taken, Roles
<1>4. \A x : ~Due(d, x)
  BY <1>3 DEF Due, OutClear, Clear, Finished
<1> QED BY <1>2, <1>4 DEF MessageInv, Flow

\* If update() does not raise, join() waits as long as it takes and the layers
\* are those of the graph, then once stop() has returned every message a node
\* was given has come through each of its destinations, whatever is suspended,
\* resumed and started meanwhile: stop() joins a layer before it puts a STOP to
\* the next (_pipeline.py, stop), and a stop is taken in its place in the queue
\* (_node.py, _worker and _update).
THEOREM StoppingDrains ==
  ASSUME Orderly
  PROVE  Spec => []Drained
<1> USE NodeAssumption, PipelineAssumption
<1>1. ASSUME TypeInv, StopInv, DrainInv PROVE Drained
  <2> SUFFICES ASSUME Stopped, NEW n \in Nodes, NEW d \in Destinations(n)
               PROVE  Through(n) \subseteq Through(d)
    BY DEF Drained
  <2>1. MessageInv /\ Begun /\ Calling /\ d \in Nodes
    BY <1>1 DEF DrainInv, Destinations, NodeAssumption
  <2>2. CASE \A k \in Nodes : Finished(k)
    BY <2>1, <2>2, FinishedPassed
  <2>3. CASE \A k \in Nodes : gen[k] = 0
    BY <2>1, <2>3 DEF Begun
  <2> QED BY <2>1, <2>2, <2>3 DEF Calling
<1> QED
  BY <1>1, DrainingIsSafe, PTL

\* Under the same conditions nothing is lost between two nodes that have both
\* stopped, also when nobody calls stop() and each node stops when a
\* STOP_PROPAGATE of its predecessor reaches it (_node.py, _control).
THEOREM PropagatingDrains ==
  ASSUME Orderly
  PROVE  Spec => []PropagateDrains
<1> USE NodeAssumption, PipelineAssumption
<1>1. ASSUME TypeInv, StopInv, DrainInv PROVE PropagateDrains
  <2>1. MessageInv /\ Begun
    BY <1>1 DEF DrainInv
  <2>2. ASSUME NEW n \in Nodes, status[n] = "STOPPED"
        PROVE  Finished(n)
    <3>1. handle[n] = 0 /\ gen[n] > 0 /\ (gen[n] > 0 => EventsSet(n))
      BY <1>1, <2>1, <2>2 DEF StopInv, StoppedNodes, Begun
    <3>2. \A t \in DaemonsOf(n) : pc[t] \in {"none", "dead"}
      BY <1>1, <3>1, ThreadFacts DEF StopInv, LiveThreads, Alive, DaemonsOf
    <3> QED BY <3>1, <3>2 DEF Finished
  <2>3. \A n \in Nodes : Destinations(n) \subseteq Nodes
    BY DEF Destinations, NodeAssumption
  <2> QED BY <2>1, <2>2, <2>3, FinishedPassed DEF PropagateDrains
<1> QED
  BY <1>1, DrainingIsSafe, PTL

-----------------------------------------------------------------------------
(***************************************************************************)
(* What stop() leaves of the threads, if nobody sends a START by hand.     *)
(***************************************************************************)
Plain(sig, m) == m.kind # sig
Silent(n) == \A t \in DaemonsOf(n) : ~Alive(t)

\* The signal sig is nowhere on its way.
Unsent(sig) ==
  /\ \A n \in Nodes : \A i \in 1..Len(queue[n]) : Plain(sig, queue[n][i])
  /\ \A n \in Nodes : \A i \in 1..Len(outq[n]) : Plain(sig, outq[n][i])
  /\ \A t \in Threads : Plain(sig, held[t])

\* The nodes stop() has gone past have no thread left; of the node it joins, it
\* waits for all that are alive.
Returning ==
  /\ pc[User] \in {"pend", "list", "join"} => cur.op = "join"
  /\ cur.op \in {"put", "join"} => /\ pstatus = "RUNNING"
                                   /\ \A n \in Nodes : PassedAt(n) => Silent(n)
  /\ Stopped => \A n \in Nodes : Silent(n)
  /\ pc[User] = "join" => \A t \in DaemonsOf(Here) : Alive(t) => t \in waits[User]

QuietInv == Unsent("START") /\ Begun /\ Returning

LEMMA PlainQueue ==
  ASSUME NEW sig, NEW S, NEW q \in Seq(S), NEW m \in S,
         \A i \in 1..Len(q) : Plain(sig, q[i])
  PROVE  /\ Plain(sig, m) => \A i \in 1..Len(Append(q, m)) : Plain(sig, Append(q, m)[i])
         /\ q # <<>> => /\ Plain(sig, Head(q))
                        /\ \A i \in 1..Len(Tail(q)) : Plain(sig, Tail(q)[i])
<1>1. ASSUME Plain(sig, m), NEW i \in 1..Len(Append(q, m)) PROVE Plain(sig, Append(q, m)[i])
  <2>1. (Append(q, m)[i] = q[i] /\ i \in 1..Len(q)) \/ Append(q, m)[i] = m
    OBVIOUS
  <2> QED BY <1>1, <2>1
<1>2. ASSUME q # <<>>, NEW i \in 1..Len(Tail(q)) PROVE Plain(sig, Tail(q)[i])
  <2>1. Tail(q)[i] = q[i + 1] /\ i + 1 \in 1..Len(q)
    BY <1>2
  <2> QED BY <2>1
<1>3. q # <<>> => Head(q) = q[1] /\ 1 \in 1..Len(q)
  OBVIOUS
<1> QED BY <1>1, <1>2, <1>3

\* A step that puts or takes one message.
Shifts(sig, q, r) ==
  \/ r = q
  \/ \E d \in Nodes, m \in Messages : Plain(sig, m) /\ r = [q EXCEPT ![d] = Append(@, m)]
  \/ \E d \in Nodes : q[d] # <<>> /\ r = [q EXCEPT ![d] = Tail(@)]

LEMMA ShiftPlain ==
  ASSUME NEW sig, NEW q \in [Nodes -> Seq(Messages)], NEW r, Shifts(sig, q, r),
         \A n \in Nodes : \A i \in 1..Len(q[n]) : Plain(sig, q[n][i])
  PROVE  \A n \in Nodes : \A i \in 1..Len(r[n]) : Plain(sig, r[n][i])
<1>1. ASSUME NEW d \in Nodes, NEW m \in Messages, Plain(sig, m),
             r = [q EXCEPT ![d] = Append(@, m)]
      PROVE  \A n \in Nodes : \A i \in 1..Len(r[n]) : Plain(sig, r[n][i])
  <2>1. \A i \in 1..Len(Append(q[d], m)) : Plain(sig, Append(q[d], m)[i])
    BY <1>1, PlainQueue
  <2>2. r[d] = Append(q[d], m) /\ \A n \in Nodes : n # d => r[n] = q[n]
    BY <1>1
  <2> QED BY <2>1, <2>2
<1>2. ASSUME NEW d \in Nodes, q[d] # <<>>, r = [q EXCEPT ![d] = Tail(@)]
      PROVE  \A n \in Nodes : \A i \in 1..Len(r[n]) : Plain(sig, r[n][i])
  <2>1. \A i \in 1..Len(Tail(q[d])) : Plain(sig, Tail(q[d])[i])
    <3>1. Head(q[d]) \in Messages
      BY <1>2
    <3> QED BY <1>2, <3>1, PlainQueue
  <2>2. r[d] = Tail(q[d]) /\ \A n \in Nodes : n # d => r[n] = q[n]
    BY <1>2
  <2> QED BY <2>1, <2>2
<1> QED BY <1>1, <1>2 DEF Shifts

LEMMA ShiftUnsent ==
  ASSUME NEW sig, TypeInv, Unsent(sig), Shifts(sig, queue, queue'),
         Shifts(sig, outq, outq'),
         \A x \in Threads : Plain(sig, held'[x])
  PROVE  Unsent(sig)'
<1>1. queue \in [Nodes -> Seq(Messages)] /\ outq \in [Nodes -> Seq(Messages)]
  BY DEF TypeInv, TypeOK
<1>2. /\ \A n \in Nodes : \A i \in 1..Len(queue[n]) : Plain(sig, queue[n][i])
      /\ \A n \in Nodes : \A i \in 1..Len(outq[n]) : Plain(sig, outq[n][i])
  BY DEF Unsent
<1>3. \A n \in Nodes : \A i \in 1..Len(queue'[n]) : Plain(sig, queue'[n][i])
  BY <1>1, <1>2, ShiftPlain
<1>4. \A n \in Nodes : \A i \in 1..Len(outq'[n]) : Plain(sig, outq'[n][i])
  BY <1>1, <1>2, ShiftPlain
<1> QED BY <1>3, <1>4 DEF Unsent

LEMMA SendingPlain ==
  ASSUME NEW sig \in {"START", "SUSPEND"}, TypeInv, Unsent(sig),
         NEW t \in Threads, NEW m, NEW ds, Sending(t, m, ds),
         ds # <<>> => Plain(sig, m)
  PROVE  \A x \in Threads : Plain(sig, held'[x])
<1>1. held \in [Threads -> Messages \cup {NoMsg}]
  BY DEF TypeInv, TypeOK
<1>2. Plain(sig, NoMsg) /\ \A x \in Threads : Plain(sig, held[x])
  BY DEF Plain, NoMsg, Unsent
<1>3. held'[t] = (IF ds = <<>> THEN NoMsg ELSE m)
      /\ \A x \in Threads : x # t => held'[x] = held[x]
  BY <1>1 DEF Sending
<1> QED BY <1>2, <1>3

LEMMA PutUnsent ==
  ASSUME NodeAssumption, NEW sig \in {"START", "SUSPEND"}, TypeInv,
         Unsent(sig), NEW t \in Threads, Put(t)
  PROVE  Unsent(sig)'
<1>1. /\ held[t] \in Messages /\ Head(todo[t]) \in Nodes
      /\ \A x \in Threads : Plain(sig, held[x])
  BY PutFacts DEF Put, PutDiscard, PutAccept, Enqueue, Unsent
<1>2. CASE PutAccept(t)
  BY <1>1, <1>2, ShiftUnsent DEF PutAccept, Shifts
<1>3. CASE PutDiscard(t)
  <2>1. \A x \in Threads : Plain(sig, held'[x])
    BY <1>1, <1>3, SendingPlain DEF PutDiscard, Served
  <2> QED BY <1>3, <2>1, ShiftUnsent DEF PutDiscard, Shifts
<1>4. CASE Enqueue(t)
  <2>1. \A x \in Threads : Plain(sig, held'[x])
    BY <1>1, <1>4, SendingPlain DEF Enqueue, Served
  <2>2. Shifts(sig, queue, queue') /\ outq' = outq
    BY <1>1, <1>4 DEF Enqueue, Shifts
  <2> QED BY <2>1, <2>2, ShiftUnsent DEF Shifts
<1> QED BY <1>2, <1>3, <1>4 DEF Put

LEMMA DaemonUnsent ==
  ASSUME NodeAssumption, NEW sig \in {"START", "SUSPEND"}, TypeInv,
         Unsent(sig), NEW t \in Daemons, DaemonStep(t)
  PROVE  Unsent(sig)'
<1> DEFINE n == t[1]
<1>1. /\ t \in Threads /\ n \in Nodes /\ Dest[n] \in Seq(Nodes)
      /\ queue \in [Nodes -> Seq(Messages)] /\ outq \in [Nodes -> Seq(Messages)]
      /\ held \in [Threads -> Messages \cup {NoMsg}]
  BY ThreadFacts DEF TypeInv, TypeOK, NodeAssumption
<1>2. /\ \A x \in Threads : Plain(sig, held[x])
      /\ Plain(sig, NoMsg) /\ \A x : Plain(sig, Data(x)) /\ \A s \in SourceEnd : Plain(sig, Control(s))
  BY DEF Unsent, Plain, NoMsg, Data, Control, NodeAssumption, Negative
<1>3. queue[n] # <<>> => Plain(sig, Head(queue[n]))
  <2>1. queue[n] # <<>> => Head(queue[n]) \in Messages
    BY <1>1
  <2> QED BY <1>1, <2>1, PlainQueue DEF Unsent
<1>4. outq[n] # <<>> => Plain(sig, Head(outq[n]))
  <2>1. outq[n] # <<>> => Head(outq[n]) \in Messages
    BY <1>1
  <2> QED BY <1>1, <2>1, PlainQueue DEF Unsent
<1> HIDE DEF n
<1>5. ASSUME queue' = queue, outq' = outq, \A x \in Threads : Plain(sig, held'[x])
      PROVE  Unsent(sig)'
  BY <1>5, ShiftUnsent DEF Shifts
<1>6. CASE LoopTop(t) \/ GetEmpty(t) \/ UpdateFinally(t) \/ SourceCallLate(t)
  BY <1>2, <1>5, <1>6 DEF LoopTop, GetEmpty, UpdateFinally, SourceCallLate
<1>7. CASE WorkerGet(t)
  <2>1. \A x \in Threads : Plain(sig, held'[x])
    <3>1. CASE Sending(t, Head(queue[n]), Dest[n])
      BY <1>1, <1>3, <1>7, <3>1, SendingPlain DEF WorkerGet, n
    <3>2. CASE held' = [held EXCEPT ![t] = Head(queue[n])]
      BY <1>1, <1>2, <1>3, <1>7, <3>2 DEF WorkerGet, n
    <3> QED BY <1>7, <3>1, <3>2 DEF WorkerGet, n
  <2>2. Shifts(sig, queue, queue') /\ outq' = outq
    BY <1>1, <1>7 DEF WorkerGet, Shifts, n
  <2> QED BY <2>1, <2>2, ShiftUnsent DEF Shifts
<1>8. CASE WorkerStore(t)
  <2>1. held[t] \in Messages
    BY <1>1, <1>8 DEF WorkerStore, TypeInv, Hands
  <2>2. \A x \in Threads : Plain(sig, held'[x])
    BY <1>1, <1>2, <1>8 DEF WorkerStore
  <2>3. Shifts(sig, outq, outq') /\ queue' = queue
    BY <1>1, <1>2, <1>8, <2>1 DEF WorkerStore, Shifts, n
  <2> QED BY <2>2, <2>3, ShiftUnsent DEF Shifts
<1>9. CASE UpdateGetControl(t) \/ UpdateGetData(t)
  <2>1. outq[n] # <<>> /\ \E c \in Threads : held' = [held EXCEPT ![c] = Head(outq[n])]
    BY <1>1, <1>9, ThreadFacts DEF UpdateGetControl, UpdateGetData, n
  <2>2. \A x \in Threads : Plain(sig, held'[x])
    BY <1>1, <1>2, <1>4, <2>1
  <2>3. Shifts(sig, outq, outq') /\ queue' = queue
    BY <1>1, <1>9, <2>1 DEF UpdateGetControl, UpdateGetData, Shifts, n
  <2> QED BY <2>2, <2>3, ShiftUnsent DEF Shifts
<1>10. CASE UpdateCall(t) \/ UpdateRaise(t)
  <2>1. CASE UpdateCall(t)
    <3>1. Sending(t, held[t], Dest[n]) /\ queue' = queue /\ outq' = outq
      BY <2>1 DEF UpdateCall, n
    <3> QED BY <1>1, <1>2, <1>5, <3>1, SendingPlain
  <2>2. CASE UpdateRaise(t)
    BY <1>1, <1>2, <1>5, <2>2 DEF UpdateRaise
  <2> QED BY <1>10, <2>1, <2>2
<1>11. CASE SourceCall(t) \/ SourceCallEnd(t) \/ SourceEmit(t)
  <2>1. CASE SourceCall(t)
    BY <1>1, <1>2, <1>5, <2>1 DEF SourceCall
  <2>2. CASE SourceCallEnd(t)
    <3>1. PICK s \in SourceEnd : Sending(t, Control(s), <<n>>)
      BY <2>2 DEF SourceCallEnd, n
    <3> QED BY <1>1, <1>2, <1>5, <2>2, <3>1, SendingPlain DEF SourceCallEnd
  <2>3. CASE SourceEmit(t)
    <3>1. CASE Sending(t, held[t], <<n>>)
      BY <1>1, <1>2, <1>5, <2>3, <3>1, SendingPlain DEF SourceEmit
    <3>2. CASE held' = [held EXCEPT ![t] = NoMsg]
      BY <1>1, <1>2, <1>5, <2>3, <3>2 DEF SourceEmit
    <3> QED BY <2>3, <3>1, <3>2 DEF SourceEmit, n
  <2> QED BY <1>11, <2>1, <2>2, <2>3
<1>12. CASE Put(t)
  BY <1>1, <1>12, PutUnsent
<1> QED
  BY <1>6, <1>7, <1>8, <1>9, <1>10, <1>11, <1>12
  DEF DaemonStep, Worker, Update, Source

LEMMA ControlUnsent ==
  ASSUME NodeAssumption, NEW sig \in {"START", "SUSPEND"}, TypeInv,
         Unsent(sig), NEW t \in Controls, ControlThread(t)
  PROVE  Unsent(sig)' /\ (sig = "START" => ~ControlStart(t))
<1>1. t \in Threads /\ held \in [Threads -> Messages \cup {NoMsg}]
  BY ThreadFacts DEF TypeInv, TypeOK
<1>2. /\ \A x \in Threads : Plain(sig, held[x])
      /\ Plain(sig, NoMsg)
  BY DEF Unsent, Plain, NoMsg
<1>3. sig = "START" => ~ControlStart(t)
  BY <1>1, <1>2 DEF ControlStart, Plain
<1>4. ASSUME queue' = queue, outq' = outq, \A x \in Threads : Plain(sig, held'[x])
      PROVE  Unsent(sig)'
  BY <1>4, ShiftUnsent DEF Shifts
<1>5. ASSUME AfterStop(t) PROVE \A x \in Threads : Plain(sig, held'[x])
  BY <1>1, <1>2, <1>5, SendingPlain DEF AfterStop
<1>6. CASE ControlStop(t) \/ ControlStopEnd(t)
  BY <1>2, <1>3, <1>4, <1>5, <1>6 DEF ControlStop, ControlStopEnd
<1>7. CASE \/ ControlSuspend(t) \/ ControlStart(t) \/ JoinPending(t, t[1])
           \/ JoinList(t, t[1])
  BY <1>1, <1>2, <1>3, <1>4, <1>7
  DEF ControlSuspend, ControlStart, JoinPending, JoinList
<1>8. CASE Put(t)
  BY <1>1, <1>3, <1>8, PutUnsent
<1> QED
  BY <1>3, <1>6, <1>7, <1>8 DEF ControlThread

LEMMA CallUnsent ==
  ASSUME NodeAssumption, PipelineAssumption, NEW sig \in {"START", "SUSPEND"},
         sig \notin UserSignals, TypeInv, Unsent(sig), UserCall \/ InCall
  PROVE  Unsent(sig)'
<1>1. User \in Threads /\ held \in [Threads -> Messages \cup {NoMsg}]
  BY ThreadFacts DEF TypeInv, TypeOK
<1>2. \A x \in Threads : Plain(sig, held[x])
  BY DEF Unsent
<1>3. ASSUME queue' = queue, outq' = outq, \A x \in Threads : Plain(sig, held'[x])
      PROVE  Unsent(sig)'
  BY <1>3, ShiftUnsent DEF Shifts
<1>4. CASE StopPut \/ \E n \in Nodes, g \in UserSignals : Signal(n, g)
  <2>1. PICK n \in Nodes, g \in UserSignals \cup {"STOP"} : Sending(User, Control(g), <<n>>)
    BY <1>4, HereType DEF StopPut, Signal
  <2>2. Plain(sig, Control(g))
    BY DEF Plain, Control
  <2> QED BY <1>1, <1>3, <1>4, <2>1, <2>2, SendingPlain DEF StopPut, Signal
<1>5. CASE \/ Start \/ Stop \/ StartNode \/ StopJoin \/ StopJoined
           \/ JoinPending(User, Here) \/ JoinList(User, Here)
  BY <1>2, <1>3, <1>5 DEF Start, Stop, StartNode, StopJoin, StopJoined, JoinPending,
    JoinList, nodeVars
<1>6. CASE Put(User)
  BY <1>1, <1>6, PutUnsent
<1> QED
  BY <1>4, <1>5, <1>6 DEF UserCall, InCall

\* Threads that start no node leave alone what is silent.
LEMMA NoBirthReturning ==
  ASSUME NodeAssumption, PipelineAssumption, TypeInv, Returning, NoBirth,
         UNCHANGED <<pstatus, cur>>, pc'[User] = pc[User], waits'[User] = waits[User]
  PROVE  Returning'
<1>1. /\ Here' = Here /\ Stopped' = Stopped
      /\ \A n \in Nodes : PassedAt(n)' = PassedAt(n)
  BY DEF Here, Stopped, PassedAt, Place
<1>2. \A t \in Daemons : ~Alive(t) => ~Alive(t)'
  BY DEF NoBirth, Alive
<1>3. \A n \in Nodes : Silent(n) => Silent(n)'
  BY <1>2 DEF Silent, DaemonsOf
<1>4. pc[User] = "join" => \A t \in DaemonsOf(Here) : Alive(t)' => t \in waits[User]
  BY <1>2 DEF Returning, DaemonsOf
<1> QED
  BY <1>1, <1>3, <1>4 DEF Returning, DaemonsOf

LEMMA CallReturning ==
  ASSUME NodeAssumption, PipelineAssumption, JoinMayTimeOut = FALSE, Covered,
         TypeInv, StopInv, Begun, Returning, UserCall \/ InCall
  PROVE  Returning'
<1>1. /\ Here \in Nodes /\ User \in Threads /\ pc \in [Threads -> Labels]
      /\ waits \in [Threads -> SUBSET Daemons]
  BY ThreadFacts, HereType DEF TypeInv, TypeOK
<1>2. NoCall.op = "none"
  BY DEF NoCall, At
<1>3. CASE StartNode
  <2>1. /\ pc[User] = "drive" /\ cur.op = "start" /\ cur' = Following(cur)
        /\ pc' = [x \in Threads |-> IF x \in Spawned(Here) THEN "top" ELSE pc[x]]
        /\ pstatus' = IF cur' = NoCall THEN "RUNNING" ELSE pstatus
    BY <1>3 DEF StartNode, Driving
  <2>2. pc'[User] = "drive"
    BY <1>1, <2>1, StartFrame, ThreadFacts
  <2>3. cur'.op \in {"start", "none"} /\ (cur'.op = "none" => cur' = NoCall)
    BY <2>1, FollowingStarted
  <2> QED BY <2>1, <2>2, <2>3 DEF Returning, Stopped
<1>4. CASE ~StartNode
  <2>1. NoBirth
    BY <1>4, CallBirth
  <2>2. \A t \in Daemons : ~Alive(t) => ~Alive(t)'
    BY <2>1 DEF NoBirth, Alive
  <2>3. \A n \in Nodes : Silent(n) => Silent(n)'
    BY <2>2 DEF Silent, DaemonsOf
  <2>4. CASE Start
    <3>1. pc' = pc /\ pc[User] = "drive" /\ cur' = At("start", Len(Layers), 1)
      BY <2>4 DEF Start, Driving, nodeVars
    <3>2. cur'.op = "start" /\ cur' # NoCall
      BY <3>1 DEF At, NoCall
    <3> QED BY <3>1, <3>2 DEF Returning, Stopped
  <2>5. CASE Stop
    <3>1. pc' = pc /\ pc[User] = "drive" /\ pstatus' = "RUNNING" /\ cur' = At("put", 1, 1)
      BY <2>5 DEF Stop, Driving, nodeVars
    <3>2. cur'.op = "put" /\ cur'.lay = 1
      BY <3>1 DEF At
    <3>3. \A n \in Nodes : ~PassedAt(n)'
      BY <3>2 DEF PassedAt
    <3> QED BY <3>1, <3>2, <3>3 DEF Returning, Stopped
  <2>6. CASE StopPut
    <3>1. /\ Sending(User, Control("STOP"), <<Here>>) /\ cur.op = "put"
          /\ pstatus' = pstatus /\ cur' = Following(cur)
      BY <2>6 DEF StopPut, Driving
    <3>2. pc'[User] \in {"drive", "put"}
      BY <1>1, <3>1, ThreadFacts DEF Sending, Goto, Resume, AfterCall, User
    <3>3. cur'.op \in {"put", "join"} /\ \A n \in Nodes : PassedAt(n)' => PassedAt(n)
      BY <3>1, FollowingPassed
    <3>4. pstatus = "RUNNING" /\ \A n \in Nodes : PassedAt(n) => Silent(n)
      BY <3>1 DEF Returning
    <3> QED BY <2>3, <3>1, <3>2, <3>3, <3>4 DEF Returning, Stopped
  <2>7. CASE StopJoined
    <3>1. /\ pc[User] = "join" /\ pc'[User] = "drive" /\ cur' = Following(cur)
          /\ \A x \in waits[User] : pc[x] = "dead"
          /\ pstatus' = IF cur' = NoCall THEN "READY" ELSE pstatus
      BY <1>1, <2>7 DEF StopJoined, Joined, Goto
    <3>2. cur.op = "join" /\ pstatus = "RUNNING" /\ \A n \in Nodes : PassedAt(n) => Silent(n)
      BY <3>1 DEF Returning
    <3>3. Silent(Here)
      BY <3>1 DEF Returning, Silent, Alive
    <3>4. /\ cur'.op \in {"put", "join", "none"} /\ (cur'.op = "none" => cur' = NoCall)
          /\ \A n \in Nodes : PassedAt(n)' /\ cur'.op # "none" => PassedAt(n) \/ n = Here
          /\ cur'.op = "none" => \A n \in Nodes : PassedAt(n) \/ n = Here
      BY <3>1, <3>2, FollowingPassed
    <3>5. cur'.op # "none" => /\ pstatus' = "RUNNING" /\ cur' # NoCall
                              /\ \A n \in Nodes : PassedAt(n)' => Silent(n)'
      BY <1>2, <2>3, <3>1, <3>2, <3>3, <3>4
    <3>6. cur'.op = "none" => \A n \in Nodes : Silent(n)'
      BY <2>3, <3>2, <3>3, <3>4
    <3> QED BY <3>1, <3>4, <3>5, <3>6 DEF Returning, Stopped
  <2>8. CASE UNCHANGED <<pstatus, cur>>
    <3>1. /\ Stopped' = Stopped /\ Here' = Here
          /\ \A n \in Nodes : PassedAt(n)' = PassedAt(n)
      BY <2>8 DEF Stopped, PassedAt, Place, Here
    <3>2. ASSUME pc'[User] \in {"pend", "list", "join"} => cur.op = "join",
                 pc'[User] = "join" =>
                   \A t \in DaemonsOf(Here) : Alive(t)' => t \in waits'[User]
          PROVE  Returning'
      BY <2>3, <2>8, <3>1, <3>2 DEF Returning, DaemonsOf
    <3>3. CASE StopJoin
      BY <1>1, <3>2, <3>3 DEF StopJoin, Goto, Driving
    <3>4. CASE JoinPending(User, Here)
      <4>1. pc[User] = "pend" /\ pc'[User] = "list"
        BY <1>1, <3>4 DEF JoinPending, Goto
      <4> QED BY <3>2, <4>1 DEF Returning
    <3>5. CASE JoinList(User, Here)
      <4>1. /\ pc[User] = "list" /\ pc'[User] = "join"
            /\ waits'[User] = {x \in ThreadsOf(Here, handle[Here]) : pc[x] # "dead"}
        BY <1>1, <3>5 DEF JoinList, Goto
      <4>2. ASSUME NEW t \in DaemonsOf(Here), Alive(t)
            PROVE  t \in ThreadsOf(Here, handle[Here])
        <5>1. t \in Daemons /\ t[1] = Here /\ t \in Threads /\ t[2] \in Roles
          BY ThreadFacts DEF DaemonsOf
        <5>2. t[3] = handle[Here]
          BY <4>2, <5>1 DEF StopInv, LiveThreads
        <5>3. t[2] \in RolesOf(Here)
          BY <4>2, <5>1 DEF TypeInv, Hands, RolesOf, Alive
        <5> QED BY <5>1, <5>2, <5>3 DEF ThreadsOf
      <4>3. \A t \in DaemonsOf(Here) : Alive(t)' => Alive(t)
        BY <2>2 DEF DaemonsOf
      <4>4. \A t \in DaemonsOf(Here) : Alive(t)' => t \in waits'[User]
        BY <4>1, <4>2, <4>3 DEF Alive
      <4> QED BY <3>2, <4>1, <4>4 DEF Returning
    <3>6. CASE \/ \E n \in Nodes, sig \in UserSignals : Signal(n, sig)
               \/ PutDiscard(User) \/ Enqueue(User)
      <4>1. PICK m, ds : Sending(User, m, ds)
        BY <3>6 DEF Signal, PutDiscard, Enqueue, Served
      <4>2. pc'[User] \in {"drive", "put"}
        BY <1>1, <4>1, ThreadFacts DEF Sending, Goto, Resume, AfterCall, User
      <4> QED BY <3>2, <4>2
    <3>7. CASE PutAccept(User)
      <4>1. pc'[User] = "enq"
        BY <1>1, <3>7 DEF PutAccept, Goto
      <4> QED BY <3>2, <4>1
    <3> QED BY <1>4, <2>4, <2>5, <2>6, <2>7, <2>8, <3>3, <3>4, <3>5, <3>6, <3>7
      DEF UserCall, InCall, Put
  <2> QED BY <1>4, <2>4, <2>5, <2>6, <2>7, <2>8
    DEF UserCall, InCall, StopJoin, Signal
<1> QED BY <1>3, <1>4

LEMMA NextReturning ==
  ASSUME NodeAssumption, PipelineAssumption, JoinMayTimeOut = FALSE, Covered,
         "START" \notin UserSignals, TypeInv, StopInv, QuietInv, [Next]_vars
  PROVE  QuietInv'
<1>1. Unsent("START") /\ Begun /\ Returning
  BY DEF QuietInv
<1>2. User \in Threads /\ pc \in [Threads -> Labels] /\ waits \in [Threads -> SUBSET Daemons]
  BY ThreadFacts DEF TypeInv, TypeOK
<1>3. Begun'
  BY <1>1, NextBegun
<1>4. ASSUME NEW t \in Daemons, DaemonStep(t), UNCHANGED <<pstatus, cur>>
      PROVE  Unsent("START")' /\ Returning'
  <2>1. NoBirth
    BY <1>1, <1>4, DaemonNoBirth
  <2>2. pc'[User] = pc[User] /\ waits'[User] = waits[User]
    BY <1>4, UserStill DEF NodeStep
  <2> QED BY <1>1, <1>4, <2>1, <2>2, DaemonUnsent, NoBirthReturning
<1>5. ASSUME NEW t \in Controls, ControlThread(t), UNCHANGED <<pstatus, cur>>
      PROVE  Unsent("START")' /\ Returning'
  <2>1. Unsent("START")' /\ NoBirth
    BY <1>1, <1>5, ControlUnsent, ControlBirth
  <2>2. pc'[User] = pc[User] /\ waits'[User] = waits[User]
    BY <1>5, UserStill DEF NodeStep
  <2> QED BY <1>1, <1>5, <2>1, <2>2, NoBirthReturning
<1>6. ASSUME UserCall \/ InCall PROVE Unsent("START")' /\ Returning'
  BY <1>1, <1>6, CallUnsent, CallReturning
<1>7. ASSUME UNCHANGED vars PROVE Unsent("START")' /\ Returning'
  <2>1. NoBirth /\ UNCHANGED <<pstatus, cur>> /\ pc'[User] = pc[User]
        /\ waits'[User] = waits[User]
    BY <1>7 DEF vars, NoBirth, Through
  <2>2. Unsent("START")'
    BY <1>1, <1>7 DEF vars, Unsent
  <2> QED BY <1>1, <2>1, <2>2, NoBirthReturning
<1> QED
  BY <1>3, <1>4, <1>5, <1>6, <1>7 DEF Next, ThreadStep, NodeStep, QuietInv

\* If join() waits as long as it takes, the layers hold every node and nobody
\* puts a START by hand, no worker, update or source thread is left once stop()
\* has returned, whatever update() raises, is suspended or stops by itself
\* (_pipeline.py, stop; _node.py, join).
THEOREM StoppingQuiets ==
  ASSUME JoinMayTimeOut = FALSE, Covered, "START" \notin UserSignals
  PROVE  Spec => []QuietAfterStop
<1> USE NodeAssumption, PipelineAssumption
<1>1. Init => QuietInv
  <2> SUFFICES ASSUME Init PROVE QuietInv
    OBVIOUS
  <2>1. /\ \A n \in Nodes : queue[n] = <<>> /\ outq[n] = <<>>
        /\ \A t \in Threads : held[t] = NoMsg /\ pc[t] = IF t = User THEN "drive" ELSE "none"
        /\ cur = NoCall
    BY DEF Init, NodeInit
  <2>2. Plain("START", NoMsg)
    BY DEF Plain, NoMsg
  <2>3. Unsent("START")
    BY <2>1, <2>2 DEF Unsent
  <2>4. /\ pc[User] = "drive" /\ \A t \in Daemons : pc[t] = "none"
        /\ cur.op = "none"
    BY <2>1, ThreadFacts DEF NoCall, At
  <2>5. Returning
    BY <2>4 DEF Returning, Silent, DaemonsOf, Alive
  <2> QED BY <2>3, <2>5, InitDrain DEF QuietInv, DrainInv
<1>2. TypeInv /\ StopInv /\ QuietInv /\ [Next]_vars => QuietInv'
  BY NextReturning
<1>3. QuietInv => QuietAfterStop
  BY ThreadFacts DEF QuietInv, Returning, QuietAfterStop, Silent, DaemonsOf
<1>4. Spec => [](TypeInv /\ StopInv)
  BY StoppingIsFinal
<1> QED
  BY <1>1, <1>2, <1>3, <1>4, PTL DEF Spec

-----------------------------------------------------------------------------
(***************************************************************************)
(* A link to a node that has no other, in a pipeline that is started once  *)
(* and suspends nothing: what n is given, d is given in the same order,    *)
(* all of it before stop() returns. LinkInv is the inductive invariant,    *)
(* with those above: nothing overtakes on the way, and d has been given    *)
(* the first of what n has.                                                *)
(***************************************************************************)
Between(n, d) ==
  /\ n \in Nodes /\ d \in Destinations(n) \ (Sources \cup {n})
  /\ \A p \in Nodes : d \in Destinations(p) => p = n
  /\ MaxGen = 1

\* How far x is on its way: the update thread of n is putting it, or it is in the
\* queue of d, in the hands of its worker, in its out queue, about to be processed.
InHand(k, t, n, d, x) ==
  /\ held[t] = Data(x)
  /\ \/ k = 0 /\ t[1] = n /\ t[2] = "update" /\ Putting(t) /\ In(todo[t], d)
     \/ k = 2 /\ t[1] = d /\ t[2] = "worker" /\ pc[t] = "store"
     \/ k = 4 /\ t[1] = d /\ t[2] = "update" /\ pc[t] = "got"

Stage(k, n, d, x) ==
  \/ \E t \in Daemons : InHand(k, t, n, d, x)
  \/ k = 1 /\ In(queue[d], Data(x))
  \/ k = 3 /\ In(outq[d], Data(x))

\* What n was given later is no further on its way.
Ordered(n, d) ==
  \A i, j \in 1..Len(received[n]) : \A k, l \in 0..4 :
    i < j /\ Stage(k, n, d, received[n][i]) /\ Stage(l, n, d, received[n][j]) => k >= l

Sorted(q, s) ==
  \A i, j \in 1..Len(q) : \A k, l \in 1..Len(s) :
    i < j /\ q[i] = Data(s[k]) /\ q[j] = Data(s[l]) => k < l

InOrder(n, d) ==
  Ordered(n, d) /\ Sorted(queue[d], received[n]) /\ Sorted(outq[d], received[n])

Follows(n, d) ==
  /\ Len(received[d]) <= Len(received[n])
  /\ \A i \in 1..Len(received[d]) : received[d][i] = received[n][i]

OnlyFrom(n, d) ==
  \A t \in Threads : Putting(t) /\ In(todo[t], d) /\ held[t].kind = "DATA"
    => t \in Daemons /\ t[1] = n /\ t[2] = "update"

Unsuspended == \A p \in Nodes : ~suspended[p] /\ relayed[p] = {}

LinkInv(n, d) == InOrder(n, d) /\ Follows(n, d) /\ OnlyFrom(n, d)

LEMMA LinkFacts ==
  ASSUME NodeAssumption, TypeInv, NEW from, OnceInv(from), NEW n, NEW d, Between(n, d)
  PROVE  /\ n \in Nodes /\ d \in Nodes /\ n # d /\ d \notin Sources
         /\ received[n] \in Seq(Ids) /\ received[d] \in Seq(Ids)
         /\ \A i \in 1..Len(received[n]) : received[n][i] \in Ids
         /\ \A i \in 1..Len(received[d]) : received[d][i] \in Ids
         /\ \A i, j \in 1..Len(received[n]) : received[n][i] = received[n][j] => i = j
<1>1. n \in Nodes /\ d \in Nodes /\ n # d /\ d \notin Sources
  BY DEF Between, Destinations, NodeAssumption
<1>2. received[n] \in Seq(Ids) /\ received[d] \in Seq(Ids)
  BY <1>1 DEF TypeInv, TypeOK
<1>3. /\ \A i \in 1..Len(received[n]) : received[n][i] \in Ids
      /\ \A i \in 1..Len(received[d]) : received[d][i] \in Ids
  BY <1>2
<1>4. \A i \in 1..Len(received[n]) : OnlyOnce(received[n], received[n][i])
  BY <1>1, <1>3 DEF OnceInv, OnceAt, Unrepeated
<1>5. \A i, j \in 1..Len(received[n]) : received[n][i] = received[n][j] => i = j
  BY <1>4 DEF OnlyOnce
<1> QED BY <1>1, <1>2, <1>3, <1>5

\* One worker and one update thread for each node.
LEMMA OneEach ==
  ASSUME NodeAssumption, MaxGen = 1, NEW t \in Daemons, NEW u \in Daemons,
         t[1] = u[1], t[2] = u[2]
  PROVE  t = u
<1>1. /\ t = <<t[1], t[2], t[3]>> /\ u = <<u[1], u[2], u[3]>>
      /\ t[3] \in 1..1 /\ u[3] \in 1..1
  BY ThreadFacts
<1> QED BY <1>1

LEMMA HandAside ==
  ASSUME NodeAssumption, NEW t, Aside(t), NEW u \in Daemons \ {t},
         NEW k, NEW n, NEW d, NEW x, InHand(k, u, n, d, x)'
  PROVE  InHand(k, u, n, d, x)
<1>1. u \in Threads \ {t}
  BY ThreadFacts
<1>2. pc'[u] \in {"put", "enq", "store", "got"}
  BY DEF InHand, Putting
<1>3. pc'[u] = pc[u] /\ held'[u] = held[u] /\ todo'[u] = todo[u]
  BY <1>1, <1>2 DEF Aside, Hand
<1> QED BY <1>3 DEF InHand, Putting

-----------------------------------------------------------------------------
\* Nothing is before x at its stage.
Foremost(k, n, d, x) ==
  \A i, j \in 1..Len(received[n]) :
    i < j /\ received[n][j] = x => ~Stage(k, n, d, received[n][i])

\* A step in which what moves goes on by one stage, and is the first of its stage.
Onward(n, d) ==
  \A k \in 0..4, x \in Ids : Stage(k, n, d, x)' =>
    \/ Stage(k, n, d, x)
    \/ \E h \in 0..3 : k = h + 1 /\ Stage(h, n, d, x) /\ Foremost(h, n, d, x)

LEMMA OnwardOrdered ==
  ASSUME NodeAssumption, TypeInv, NEW from, OnceInv(from), NEW n, NEW d, Between(n, d),
         Ordered(n, d), Onward(n, d), received'[n] = received[n]
  PROVE  Ordered(n, d)'
<1> DEFINE R == received[n]
<1>1. \A i \in 1..Len(R) : R[i] \in Ids
  BY LinkFacts
<1>2. SUFFICES ASSUME NEW i \in 1..Len(R), NEW j \in 1..Len(R), NEW k \in 0..4,
                      NEW l \in 0..4, i < j,
                      Stage(k, n, d, R[i])', Stage(l, n, d, R[j])'
               PROVE  k >= l
  BY DEF Ordered
<1> DEFINE x == R[i]
           y == R[j]
<1>3. x \in Ids /\ y \in Ids /\ x' = x /\ y' = y
  BY <1>1
<1>4. \A g, h \in 0..4 : Stage(g, n, d, x) /\ Stage(h, n, d, y) => g >= h
  BY <1>2 DEF Ordered
<1>5. \A h : Foremost(h, n, d, y) => ~Stage(h, n, d, x)
  BY <1>2 DEF Foremost
<1>6. /\ Stage(k, n, d, x)' /\ Stage(l, n, d, y)'
  BY <1>2, <1>3
<1> HIDE DEF x, y
<1>7. \/ Stage(k, n, d, x)
      \/ \E h \in 0..3 : k = h + 1 /\ Stage(h, n, d, x) /\ Foremost(h, n, d, x)
  BY <1>3, <1>6 DEF Onward
<1>8. \/ Stage(l, n, d, y)
      \/ \E h \in 0..3 : l = h + 1 /\ Stage(h, n, d, y) /\ Foremost(h, n, d, y)
  BY <1>3, <1>6 DEF Onward
<1>9. CASE Stage(l, n, d, y)
  <2>1. \E g \in 0..4 : Stage(g, n, d, x) /\ k >= g
    BY <1>7
  <2> QED BY <1>4, <1>9, <2>1
<1>10. ASSUME NEW h \in 0..3, l = h + 1, Stage(h, n, d, y), ~Stage(h, n, d, x)
       PROVE  k >= l
  <2>1. CASE Stage(k, n, d, x)
    <3>1. h \in 0..4 /\ k >= h /\ k # h
      BY <1>4, <1>10, <2>1
    <3> QED BY <1>10, <3>1
  <2>2. ASSUME NEW g \in 0..3, k = g + 1, Stage(g, n, d, x) PROVE k >= l
    <3>1. g \in 0..4 /\ h \in 0..4
      OBVIOUS
    <3>2. g >= h
      BY <1>4, <1>10, <2>2, <3>1
    <3> QED BY <1>10, <2>2, <3>2
  <2> QED BY <1>7, <2>1, <2>2
<1> QED BY <1>5, <1>8, <1>9, <1>10

\* What one thread holds is alone at its stage.
LEMMA HandForemost ==
  ASSUME NodeAssumption, TypeInv, NEW from, OnceInv(from), NEW n, NEW d, Between(n, d),
         NEW t \in Daemons, NEW k \in {0, 2, 4}, NEW x, InHand(k, t, n, d, x)
  PROVE  Stage(k, n, d, x) /\ Foremost(k, n, d, x)
<1>1. Stage(k, n, d, x)
  BY DEF Stage
<1>2. ASSUME NEW i \in 1..Len(received[n]), NEW j \in 1..Len(received[n]), i < j,
             received[n][j] = x, Stage(k, n, d, received[n][i])
      PROVE  FALSE
  <2>1. PICK u \in Daemons : InHand(k, u, n, d, received[n][i])
    BY <1>2 DEF Stage
  <2>2. u = t
    BY <2>1, OneEach DEF InHand, Between
  <2>3. Data(received[n][i]) = Data(x)
    BY <2>1, <2>2 DEF InHand
  <2>4. received[n][i] = received[n][j]
    BY <1>2, <2>3, DataInjective
  <2>5. i = j
    BY <2>4, LinkFacts
  <2> QED BY <1>2, <2>5
<1> QED BY <1>1, <1>2 DEF Foremost

LEMMA SortedTail ==
  ASSUME NEW S, NEW q \in Seq(S), q # <<>>, NEW s, Sorted(q, s)
  PROVE  /\ Sorted(Tail(q), s)
         /\ \A k, l \in 1..Len(s) :
              Head(q) = Data(s[l]) /\ In(q, Data(s[k])) => k = l \/ s[k] = s[l] \/ l < k
<1> DEFINE r == Tail(q)
<1>1. /\ Len(q) \in Nat /\ Len(q) > 0 /\ Len(r) = Len(q) - 1
      /\ \A i \in 1..Len(r) : r[i] = q[i + 1]
      /\ Head(q) = q[1]
  OBVIOUS
<1> HIDE DEF r
<1>2. ASSUME NEW i \in 1..Len(r), NEW j \in 1..Len(r), NEW k \in 1..Len(s), NEW l \in 1..Len(s),
             i < j, r[i] = Data(s[k]), r[j] = Data(s[l])
      PROVE  k < l
  <2>1. i + 1 \in 1..Len(q) /\ j + 1 \in 1..Len(q) /\ i + 1 < j + 1
    BY <1>1, <1>2
  <2> QED BY <1>1, <1>2, <2>1 DEF Sorted
<1>3. ASSUME NEW k \in 1..Len(s), NEW l \in 1..Len(s), Head(q) = Data(s[l]),
             NEW i \in 1..Len(q), q[i] = Data(s[k]), s[k] # s[l]
      PROVE  l < k
  <2>1. q[1] = Data(s[l]) /\ 1 \in 1..Len(q)
    BY <1>1, <1>3
  <2>2. i # 1
    BY <1>3, <2>1, DataInjective
  <2>3. 1 < i
    BY <2>2
  <2> QED BY <1>3, <2>1, <2>3 DEF Sorted
<1> QED BY <1>2, <1>3 DEF Sorted, In, r

LEMMA SortedAppend ==
  ASSUME NEW S, NEW q \in Seq(S), NEW m \in S, NEW s, Sorted(q, s),
         \A k, l \in 1..Len(s) : In(q, Data(s[k])) /\ m = Data(s[l]) => k < l
  PROVE  Sorted(Append(q, m), s)
<1> DEFINE r == Append(q, m)
<1>1. /\ Len(r) = Len(q) + 1 /\ Len(q) \in Nat
      /\ \A i \in 1..Len(q) : r[i] = q[i]
      /\ r[Len(q) + 1] = m
  OBVIOUS
<1> HIDE DEF r
<1>2. ASSUME NEW i \in 1..Len(r), NEW j \in 1..Len(r), NEW k \in 1..Len(s), NEW l \in 1..Len(s),
             i < j, r[i] = Data(s[k]), r[j] = Data(s[l])
      PROVE  k < l
  <2>1. i \in 1..Len(q) /\ (j \in 1..Len(q) \/ j = Len(q) + 1)
    BY <1>1, <1>2
  <2>2. CASE j \in 1..Len(q)
    BY <1>1, <1>2, <2>1, <2>2 DEF Sorted
  <2>3. CASE j = Len(q) + 1
    BY <1>1, <1>2, <2>1, <2>3 DEF In
  <2> QED BY <2>1, <2>2, <2>3
<1> QED BY <1>2 DEF Sorted, r

\* What moves from a thread's hands into the next queue comes last there.
LEMMA HandLast ==
  ASSUME NodeAssumption, TypeInv, NEW from, OnceInv(from), NEW n, NEW d, Between(n, d),
         Ordered(n, d), NEW h \in {0, 2}, NEW t \in Daemons, NEW m \in Messages,
         held[t] = m, \A x \in Ids : m = Data(x) => InHand(h, t, n, d, x),
         NEW q, q = IF h = 0 THEN queue[d] ELSE outq[d]
  PROVE  \A k, l \in 1..Len(received[n]) :
           In(q, Data(received[n][k])) /\ m = Data(received[n][l]) => k < l
<1> SUFFICES ASSUME NEW k \in 1..Len(received[n]), NEW l \in 1..Len(received[n]),
                    In(q, Data(received[n][k])), m = Data(received[n][l])
             PROVE  k < l
  OBVIOUS
<1>1. InHand(h, t, n, d, received[n][l]) /\ Stage(h, n, d, received[n][l])
  BY LinkFacts, HandForemost
<1>2. h + 1 \in 0..4 /\ h \in 0..4 /\ Stage(h + 1, n, d, received[n][k])
  BY DEF Stage
<1>3. ~(l < k)
  BY <1>1, <1>2 DEF Ordered
<1>4. t \in Threads /\ Carries(t, d, received[n][l])
  BY <1>1, ThreadFacts DEF InHand, Carries, Putting
<1>5. Kept("queue", d, received[n][k]) \/ Kept("outq", d, received[n][k])
  BY DEF Kept
<1>6. k # l
  BY <1>4, <1>5, LinkFacts DEF OnceInv, OnceAt, OnePlace, Stores
<1> QED BY <1>3, <1>6

-----------------------------------------------------------------------------
\* A step that moves no data.
LEMMA StillLink ==
  ASSUME NodeAssumption, TypeInv, NEW from, OnceInv(from), NEW n, NEW d, Between(n, d),
         LinkInv(n, d), NEW t \in Threads, Aside(t), UNCHANGED <<queue, outq, received>>,
         \A k \in 0..4, x \in Ids : InHand(k, t, n, d, x)' => InHand(k, t, n, d, x),
         (Putting(t) /\ In(todo[t], d) /\ held[t].kind = "DATA")'
            => t \in Daemons /\ t[1] = n /\ t[2] = "update"
  PROVE  LinkInv(n, d)'
<1>1. Onward(n, d)
  <2> SUFFICES ASSUME NEW k \in 0..4, NEW x \in Ids, Stage(k, n, d, x)'
               PROVE  Stage(k, n, d, x)
    BY DEF Onward
  <2>1. ASSUME NEW u \in Daemons, InHand(k, u, n, d, x)' PROVE InHand(k, u, n, d, x)
    BY <2>1, HandAside
  <2> QED BY <2>1 DEF Stage
<1>2. Ordered(n, d)'
  BY <1>1, OnwardOrdered DEF LinkInv, InOrder
<1>3. OnlyFrom(n, d)'
  <2> SUFFICES ASSUME NEW u \in Threads, u # t,
                      (Putting(u) /\ In(todo[u], d) /\ held[u].kind = "DATA")'
               PROVE  u \in Daemons /\ u[1] = n /\ u[2] = "update"
    BY DEF OnlyFrom
  <2>1. Putting(u) /\ In(todo[u], d) /\ held[u].kind = "DATA"
    BY DEF Aside, Hand, Putting
  <2> QED BY <2>1 DEF LinkInv, OnlyFrom
<1> QED BY <1>2, <1>3 DEF LinkInv, InOrder, Follows

LEMMA CalmLink ==
  ASSUME NodeAssumption, TypeInv, NEW from, OnceInv(from), NEW n, NEW d, Between(n, d),
         LinkInv(n, d), UNCHANGED <<queue, outq, received, todo>>,
         \A u \in Threads : \/ pc'[u] \notin Hand
                            \/ pc'[u] = pc[u] /\ held'[u] = held[u]
  PROVE  LinkInv(n, d)'
<1>1. User \in Threads
  BY ThreadFacts
<1>2. Aside(User)
  BY DEF Aside
<1>3. \A k \in 0..4, x \in Ids : InHand(k, User, n, d, x)' => InHand(k, User, n, d, x)
  BY <1>1 DEF InHand, Putting, Hand
<1>4. (Putting(User) /\ In(todo[User], d) /\ held[User].kind = "DATA")'
         => User \in Daemons /\ User[1] = n /\ User[2] = "update"
  BY <1>1 DEF LinkInv, OnlyFrom, Putting, Hand
<1> QED BY <1>1, <1>2, <1>3, <1>4, StillLink

\* A step of a thread that goes on transmitting, or to begin, but no data to d.
LEMMA SendingLink ==
  ASSUME NodeAssumption, TypeInv, NEW from, OnceInv(from), NEW n, NEW d, Between(n, d),
         LinkInv(n, d), UNCHANGED <<queue, outq, received>>,
         NEW t \in Threads, NEW m, NEW ds \in Seq(Nodes), Sending(t, m, ds),
         m.kind = "DATA" /\ In(ds, d)
            => Putting(t) /\ held[t] = m /\ In(todo[t], d)
  PROVE  LinkInv(n, d)'
<1>1. /\ pc \in [Threads -> Labels] /\ held \in [Threads -> Messages \cup {NoMsg}]
      /\ todo \in [Threads -> Seq(Nodes)]
      /\ Resume(t) \in {"top", "finally", "none", "drive"}
  BY ResumeType DEF TypeInv, TypeOK
<1>2. /\ todo'[t] = ds
      /\ held'[t] = IF ds = <<>> THEN NoMsg ELSE m
      /\ pc'[t] = IF ds = <<>> THEN Resume(t) ELSE "put"
  BY <1>1 DEF Sending, Goto
<1>3. Aside(t)
  BY SendingCarries
<1>4. pc'[t] \notin {"store", "got"} /\ (Putting(t)' => held'[t] = m)
  BY <1>1, <1>2 DEF Putting
<1>5. \A k \in 0..4, x \in Ids : InHand(k, t, n, d, x)' => InHand(k, t, n, d, x)
  BY <1>2, <1>4 DEF InHand, Data
<1>6. (Putting(t) /\ In(todo[t], d) /\ held[t].kind = "DATA")'
         => t \in Daemons /\ t[1] = n /\ t[2] = "update"
  BY <1>2, <1>4 DEF LinkInv, OnlyFrom
<1> QED BY <1>3, <1>5, <1>6, StillLink

LEMMA EnqueueLink ==
  ASSUME NodeAssumption, TypeInv, NEW from, OnceInv(from), NEW n, NEW d, Between(n, d),
         LinkInv(n, d), NEW t \in Threads, Enqueue(t)
  PROVE  LinkInv(n, d)'
<1> DEFINE e == Head(todo[t])
           m == held[t]
           rest == Tail(todo[t])
<1>1. /\ m \in Messages /\ e \in Nodes /\ rest \in Seq(Nodes) /\ pc[t] = "enq"
      /\ todo[t] \in Seq(Nodes) /\ todo[t] # <<>>
      /\ queue \in [Nodes -> Seq(Messages)] /\ n \in Nodes /\ d \in Nodes
      /\ queue[d] \in Seq(Messages)
  BY PutFacts, LinkFacts DEF Enqueue, TypeInv, TypeOK, Hands
<1>2. /\ queue' = [queue EXCEPT ![e] = Append(queue[e], m)]
      /\ Sending(t, m, rest) /\ UNCHANGED <<outq, received>>
  BY DEF Enqueue, Served
<1>3. \A v : In(todo[t], v) <=> e = v \/ In(rest, v)
  BY <1>1, OnceTail
<1> HIDE DEF e, m, rest
<1>4. /\ Aside(t)
      /\ \A v, x : Carries(t, v, x)' => m = Data(x) /\ In(rest, v)
  BY <1>1, <1>2, SendingCarries
<1>5. queue'[d] = IF e = d THEN Append(queue[d], m) ELSE queue[d]
  BY <1>1, <1>2
<1>6. \A v : In(Append(queue[d], m), v) <=> In(queue[d], v) \/ m = v
  BY <1>1, OnceAppend
\* The message comes from the update thread of n if it is for d.
<1>7. ASSUME NEW x \in Ids, m = Data(x), In(todo[t], d)
      PROVE  t \in Daemons /\ t[1] = n /\ t[2] = "update" /\ InHand(0, t, n, d, x)
  <2>1. m.kind = "DATA" /\ Putting(t)
    BY <1>1, <1>7 DEF Putting, Data
  <2>2. t \in Daemons /\ t[1] = n /\ t[2] = "update"
    BY <1>7, <2>1 DEF LinkInv, OnlyFrom, m
  <2> QED BY <1>7, <2>1, <2>2 DEF InHand, m
<1>8. ASSUME NEW k \in 0..4, NEW x \in Ids, InHand(k, t, n, d, x)'
      PROVE  InHand(k, t, n, d, x)
  <2>1. pc'[t] \notin {"store", "got"}
    BY <1>1, <1>2, ResumeType DEF Sending, Goto, TypeInv, TypeOK
  <2>2. k = 0 /\ Carries(t, d, x)'
    BY <1>8, <2>1 DEF InHand, Carries, Putting
  <2> QED BY <1>3, <1>4, <1>7, <2>2
<1>9. Onward(n, d)
  <2> SUFFICES ASSUME NEW k \in 0..4, NEW x \in Ids, Stage(k, n, d, x)',
                      ~Stage(k, n, d, x)
               PROVE  \E h \in 0..3 : k = h + 1 /\ Stage(h, n, d, x) /\ Foremost(h, n, d, x)
    BY DEF Onward
  <2>1. ASSUME NEW u \in Daemons, InHand(k, u, n, d, x)' PROVE InHand(k, u, n, d, x)
    BY <1>4, <1>8, <2>1, HandAside
  <2>2. k = 1 /\ In(queue'[d], Data(x)) /\ ~In(queue[d], Data(x))
    BY <1>2, <2>1 DEF Stage
  <2>3. e = d /\ m = Data(x)
    BY <1>5, <1>6, <2>2
  <2>4. t \in Daemons /\ InHand(0, t, n, d, x)
    BY <1>3, <1>7, <2>3
  <2> QED BY <2>2, <2>4, HandForemost
<1>10. Ordered(n, d)'
  BY <1>2, <1>9, OnwardOrdered DEF LinkInv, InOrder
<1>11. Sorted(queue[d], received[n])'
  <2>1. CASE e # d
    BY <1>2, <1>5, <2>1 DEF LinkInv, InOrder
  <2>2. CASE e = d
    <3>1. ASSUME NEW k \in 1..Len(received[n]), NEW l \in 1..Len(received[n]),
                 In(queue[d], Data(received[n][k])), m = Data(received[n][l])
          PROVE  k < l
      <4>1. t \in Daemons
        BY <1>3, <1>7, <2>2, <3>1, LinkFacts
      <4>2. \A x \in Ids : m = Data(x) => InHand(0, t, n, d, x)
        BY <1>3, <1>7, <2>2
      <4> QED BY <1>1, <3>1, <4>1, <4>2, HandLast DEF LinkInv, InOrder, m
    <3>2. Sorted(Append(queue[d], m), received[n])
      BY <1>1, <3>1, SortedAppend DEF LinkInv, InOrder
    <3> QED BY <1>2, <1>5, <2>2, <3>2
  <2> QED BY <2>1, <2>2
<1>12. OnlyFrom(n, d)'
  <2> SUFFICES ASSUME NEW u \in Threads,
                      (Putting(u) /\ In(todo[u], d) /\ held[u].kind = "DATA")'
               PROVE  u \in Daemons /\ u[1] = n /\ u[2] = "update"
    BY DEF OnlyFrom
  <2>1. CASE u # t
    BY <1>4, <2>1 DEF Aside, Hand, Putting, LinkInv, OnlyFrom
  <2>2. CASE u = t
    <3>1. /\ todo'[t] = rest /\ held'[t] = IF rest = <<>> THEN NoMsg ELSE m
          /\ pc'[t] = IF rest = <<>> THEN Resume(t) ELSE "put"
      BY <1>2 DEF Sending, Goto, TypeInv, TypeOK
    <3>2. In(todo[t], d) /\ m.kind = "DATA"
      BY <1>3, <2>2, <3>1 DEF NoMsg
    <3> QED BY <1>1, <2>2, <3>2 DEF LinkInv, OnlyFrom, Putting, m
  <2> QED BY <2>1, <2>2
<1> QED BY <1>2, <1>10, <1>11, <1>12 DEF LinkInv, InOrder, Follows

LEMMA PutLink ==
  ASSUME NodeAssumption, TypeInv, NEW from, OnceInv(from), NEW n, NEW d, Between(n, d),
         LinkInv(n, d), NEW t \in Threads, Put(t)
  PROVE  LinkInv(n, d)'
<1>1. CASE PutDiscard(t)
  <2> DEFINE rest == Tail(todo[t])
  <2>1. /\ rest \in Seq(Nodes) /\ pc[t] = "put"
        /\ todo[t] \in Seq(Nodes) /\ todo[t] # <<>>
        /\ Sending(t, held[t], rest) /\ UNCHANGED <<queue, outq, received>>
    BY <1>1, PutFacts DEF PutDiscard, Served, TypeInv, TypeOK, Hands
  <2>2. \A v : In(rest, v) => In(todo[t], v)
    BY <2>1, OnceTail
  <2> HIDE DEF rest
  <2> QED BY <2>1, <2>2, SendingLink DEF Putting
<1>2. CASE PutAccept(t)
  <2>1. /\ pc[t] = "put" /\ pc' = [pc EXCEPT ![t] = "enq"]
        /\ UNCHANGED <<queue, outq, received, held, todo>>
        /\ pc \in [Threads -> Labels]
    BY <1>2 DEF PutAccept, Goto, TypeInv, TypeOK
  <2>2. Aside(t)
    BY <2>1 DEF Aside
  <2>3. \A k \in 0..4, x \in Ids : InHand(k, t, n, d, x)' => InHand(k, t, n, d, x)
    BY <2>1 DEF InHand, Putting
  <2>4. (Putting(t) /\ In(todo[t], d) /\ held[t].kind = "DATA")'
           => t \in Daemons /\ t[1] = n /\ t[2] = "update"
    BY <2>1 DEF LinkInv, OnlyFrom, Putting
  <2> QED BY <2>1, <2>2, <2>3, <2>4, StillLink
<1> QED BY <1>1, <1>2, EnqueueLink DEF Put

\* The head of a queue of d that is in order is the first of its stage.
LEMMA HeadForemost ==
  ASSUME NodeAssumption, TypeInv, NEW from, OnceInv(from), NEW n, NEW d, Between(n, d),
         NEW k \in {1, 3}, NEW q \in Seq(Messages),
         q = IF k = 1 THEN queue[d] ELSE outq[d],
         q # <<>>, Sorted(q, received[n]), NEW x, Head(q) = Data(x)
  PROVE  Stage(k, n, d, x) /\ Foremost(k, n, d, x)
<1>1. In(q, Data(x))
  BY OnceTail
<1>2. Stage(k, n, d, x)
  BY <1>1 DEF Stage
<1>3. ASSUME NEW i \in 1..Len(received[n]), NEW j \in 1..Len(received[n]), i < j,
             received[n][j] = x, Stage(k, n, d, received[n][i])
      PROVE  FALSE
  <2>1. In(q, Data(received[n][i]))
    BY <1>3 DEF Stage, InHand
  <2>2. i = j \/ received[n][i] = received[n][j] \/ j < i
    BY <1>3, <2>1, SortedTail
  <2> QED BY <1>3, <2>2, LinkFacts
<1> QED BY <1>2, <1>3 DEF Foremost

LEMMA WorkerGetLink ==
  ASSUME NodeAssumption, TypeInv, NEW from, OnceInv(from), NEW n, NEW d, Between(n, d),
         LinkInv(n, d), Unsuspended, NEW t \in Daemons, WorkerGet(t)
  PROVE  LinkInv(n, d)'
<1> DEFINE p == t[1]
           m == Head(queue[p])
<1>1. /\ t \in Threads /\ p \in Nodes /\ n \in Nodes /\ d \in Nodes
      /\ queue \in [Nodes -> Seq(Messages)] /\ queue[d] \in Seq(Messages)
      /\ pc \in [Threads -> Labels] /\ held \in [Threads -> Messages \cup {NoMsg}]
      /\ queue[p] # <<>> /\ t[2] = "worker"
  BY ThreadFacts, LinkFacts DEF WorkerGet, TypeInv, TypeOK
<1>2. UNCHANGED <<outq, received>>
  BY DEF WorkerGet
<1>3. CASE ~(~suspended[p] \/ IsControl(m))
  BY <1>1, <1>3 DEF Unsuspended
<1>4. ASSUME ~suspended[p] \/ IsControl(m) PROVE LinkInv(n, d)'
  <2>1. /\ queue' = [queue EXCEPT ![p] = Tail(@)]
        /\ held' = [held EXCEPT ![t] = m] /\ pc' = [pc EXCEPT ![t] = "store"]
        /\ todo' = todo
    BY <1>4 DEF WorkerGet, Goto
  <2>2. Aside(t) /\ pc'[t] = "store" /\ held'[t] = m
    BY <1>1, <2>1 DEF Aside
  <2>3. queue'[d] = IF p = d THEN Tail(queue[d]) ELSE queue[d]
    BY <1>1, <2>1
  <2>4. \A v : In(queue'[d], v) => In(queue[d], v)
    BY <1>1, <2>3, OnceTail
  <2>5. Sorted(queue'[d], received[n])
    BY <1>1, <2>3, SortedTail DEF LinkInv, InOrder
  <2>6. ASSUME NEW k, NEW x, InHand(k, t, n, d, x)'
        PROVE  k = 2 /\ Stage(1, n, d, x) /\ Foremost(1, n, d, x)
    <3>1. k = 2 /\ p = d /\ m = Data(x)
      BY <2>2, <2>6 DEF InHand, Putting
    <3>2. /\ 1 \in {1, 3} /\ queue[d] = IF 1 = 1 THEN queue[d] ELSE outq[d]
          /\ Sorted(queue[d], received[n])
      BY DEF LinkInv, InOrder
    <3>3. queue[d] # <<>> /\ Head(queue[d]) = Data(x)
      BY <1>1, <3>1
    <3> QED BY <1>1, <3>1, <3>2, <3>3, HeadForemost
  <2>7. Onward(n, d)
    <3> SUFFICES ASSUME NEW k \in 0..4, NEW x \in Ids, Stage(k, n, d, x)',
                        ~Stage(k, n, d, x)
                 PROVE  \E h \in 0..3 : k = h + 1 /\ Stage(h, n, d, x) /\ Foremost(h, n, d, x)
      BY DEF Onward
    <3>1. \A u \in Daemons \ {t} : ~InHand(k, u, n, d, x)'
      BY <2>2, HandAside DEF Stage
    <3>2. InHand(k, t, n, d, x)'
      BY <1>2, <2>4, <3>1 DEF Stage
    <3> QED BY <2>6, <3>2
  <2>8. Ordered(n, d)'
    BY <1>2, <2>7, OnwardOrdered DEF LinkInv, InOrder
  <2>9. OnlyFrom(n, d)'
    BY <1>1, <2>1, <2>2 DEF Aside, Hand, Putting, LinkInv, OnlyFrom
  <2> QED BY <1>2, <2>5, <2>8, <2>9 DEF LinkInv, InOrder, Follows
<1> QED BY <1>3, <1>4

LEMMA WorkerStoreLink ==
  ASSUME NodeAssumption, TypeInv, NEW from, OnceInv(from), NEW n, NEW d, Between(n, d),
         LinkInv(n, d), NEW t \in Daemons, t[2] = "worker", WorkerStore(t)
  PROVE  LinkInv(n, d)'
<1> DEFINE p == t[1]
           m == held[t]
<1>1. /\ t \in Threads /\ p \in Nodes /\ n \in Nodes /\ d \in Nodes
      /\ outq \in [Nodes -> Seq(Messages)] /\ outq[d] \in Seq(Messages)
      /\ pc \in [Threads -> Labels] /\ held \in [Threads -> Messages \cup {NoMsg}]
      /\ m \in Messages /\ pc[t] = "store"
  BY ThreadFacts, LinkFacts DEF WorkerStore, TypeInv, TypeOK, Hands
<1>2. /\ outq' = [outq EXCEPT ![p] = Append(@, m)] /\ UNCHANGED <<queue, received, todo>>
      /\ held' = [held EXCEPT ![t] = NoMsg] /\ pc' = [pc EXCEPT ![t] = "top"]
  BY DEF WorkerStore, Goto
<1>3. Aside(t) /\ pc'[t] = "top"
  BY <1>1, <1>2 DEF Aside
<1>4. outq'[d] = IF p = d THEN Append(outq[d], m) ELSE outq[d]
  BY <1>1, <1>2
<1>5. \A v : In(Append(outq[d], m), v) <=> In(outq[d], v) \/ m = v
  BY <1>1, OnceAppend
<1>6. p = d => \A x \in Ids : m = Data(x) => InHand(2, t, n, d, x)
  BY <1>1 DEF InHand
<1>7. Onward(n, d)
  <2> SUFFICES ASSUME NEW k \in 0..4, NEW x \in Ids, Stage(k, n, d, x)',
                      ~Stage(k, n, d, x)
               PROVE  \E h \in 0..3 : k = h + 1 /\ Stage(h, n, d, x) /\ Foremost(h, n, d, x)
    BY DEF Onward
  <2>1. \A u \in Daemons \ {t} : ~InHand(k, u, n, d, x)'
    BY <1>3, HandAside DEF Stage
  <2>2. ~InHand(k, t, n, d, x)'
    BY <1>3 DEF InHand, Putting
  <2>3. k = 3 /\ In(outq'[d], Data(x)) /\ ~In(outq[d], Data(x))
    BY <1>2, <2>1, <2>2 DEF Stage
  <2>4. p = d /\ m = Data(x)
    BY <1>4, <1>5, <2>3
  <2>5. InHand(2, t, n, d, x)
    BY <1>6, <2>4
  <2> QED BY <2>3, <2>5, HandForemost
<1>8. Ordered(n, d)'
  BY <1>2, <1>7, OnwardOrdered DEF LinkInv, InOrder
<1>9. Sorted(outq[d], received[n])'
  <2>1. CASE p # d
    BY <1>2, <1>4, <2>1 DEF LinkInv, InOrder
  <2>2. CASE p = d
    <3>1. \A k, l \in 1..Len(received[n]) :
            In(outq[d], Data(received[n][k])) /\ m = Data(received[n][l]) => k < l
      <4>1. /\ 2 \in {0, 2} /\ outq[d] = IF 2 = 0 THEN queue[d] ELSE outq[d]
            /\ Ordered(n, d) /\ held[t] = m
        BY DEF LinkInv, InOrder
      <4> HIDE DEF m
      <4> QED BY <1>1, <1>6, <2>2, <4>1, HandLast
    <3>2. Sorted(Append(outq[d], m), received[n])
      BY <1>1, <3>1, SortedAppend DEF LinkInv, InOrder
    <3> QED BY <1>2, <1>4, <2>2, <3>2
  <2> QED BY <2>1, <2>2
<1>10. OnlyFrom(n, d)'
  BY <1>1, <1>2, <1>3 DEF Aside, Hand, Putting, LinkInv, OnlyFrom
<1> QED BY <1>2, <1>8, <1>9, <1>10 DEF LinkInv, InOrder, Follows

LEMMA UpdateGetLink ==
  ASSUME NodeAssumption, TypeInv, NEW from, OnceInv(from), NEW n, NEW d, Between(n, d),
         LinkInv(n, d), NEW t \in Daemons, UpdateGetData(t) \/ UpdateGetControl(t)
  PROVE  LinkInv(n, d)'
<1> DEFINE p == t[1]
           m == Head(outq[p])
<1>1. /\ t \in Threads /\ p \in Nodes /\ n \in Nodes /\ d \in Nodes /\ t \notin Controls
      /\ outq \in [Nodes -> Seq(Messages)] /\ outq[d] \in Seq(Messages)
      /\ pc \in [Threads -> Labels] /\ held \in [Threads -> Messages \cup {NoMsg}]
      /\ outq[p] # <<>> /\ t[2] = "update"
  BY ThreadFacts, LinkFacts DEF UpdateGetData, UpdateGetControl, TypeInv, TypeOK
<1>2. outq' = [outq EXCEPT ![p] = Tail(@)] /\ UNCHANGED <<queue, received, todo>>
  BY DEF UpdateGetData, UpdateGetControl
<1>3. /\ Aside(t) /\ pc'[t] \in {"got", "dead", "top"}
      /\ pc'[t] = "got" => held'[t] = m
  <2>1. CASE UpdateGetData(t)
    <3>1. held' = [held EXCEPT ![t] = m] /\ pc' = [pc EXCEPT ![t] = "got"]
      BY <2>1 DEF UpdateGetData, Goto
    <3> QED BY <1>1, <1>2, <3>1 DEF Aside
  <2>2. CASE UpdateGetControl(t)
    <3>1. PICK c \in Controls, l \in {"dead", "top"} :
            /\ held' = [held EXCEPT ![c] = m]
            /\ pc' = [pc EXCEPT ![c] = "ctl", ![t] = l]
      BY <2>2 DEF UpdateGetControl
    <3>2. c \in Threads /\ c # t
      BY <1>1, ThreadFacts
    <3>3. /\ pc'[t] = l /\ pc'[c] = "ctl"
          /\ \A u \in Threads \ {t, c} : pc'[u] = pc[u] /\ held'[u] = held[u]
      BY <1>1, <3>1, <3>2
    <3> QED BY <1>2, <3>3 DEF Aside, Hand
  <2> QED BY <2>1, <2>2
<1>4. outq'[d] = IF p = d THEN Tail(outq[d]) ELSE outq[d]
  BY <1>1, <1>2
<1>5. \A v : In(outq'[d], v) => In(outq[d], v)
  BY <1>1, <1>4, OnceTail
<1>6. Sorted(outq'[d], received[n])
  BY <1>1, <1>4, SortedTail DEF LinkInv, InOrder
<1>7. ASSUME NEW k, NEW x, InHand(k, t, n, d, x)'
      PROVE  k = 4 /\ Stage(3, n, d, x) /\ Foremost(3, n, d, x)
  <2>1. k = 4 /\ p = d /\ m = Data(x)
    BY <1>3, <1>7 DEF InHand, Putting
  <2>2. /\ 3 \in {1, 3} /\ outq[d] = IF 3 = 1 THEN queue[d] ELSE outq[d]
        /\ Sorted(outq[d], received[n])
    BY DEF LinkInv, InOrder
  <2>3. outq[d] # <<>> /\ Head(outq[d]) = Data(x)
    BY <1>1, <2>1
  <2> QED BY <1>1, <2>1, <2>2, <2>3, HeadForemost
<1>8. Onward(n, d)
  <2> SUFFICES ASSUME NEW k \in 0..4, NEW x \in Ids, Stage(k, n, d, x)',
                      ~Stage(k, n, d, x)
               PROVE  \E h \in 0..3 : k = h + 1 /\ Stage(h, n, d, x) /\ Foremost(h, n, d, x)
    BY DEF Onward
  <2>1. \A u \in Daemons \ {t} : ~InHand(k, u, n, d, x)'
    BY <1>3, HandAside DEF Stage
  <2>2. InHand(k, t, n, d, x)'
    BY <1>2, <1>5, <2>1 DEF Stage
  <2> QED BY <1>7, <2>2
<1>9. Ordered(n, d)'
  BY <1>2, <1>8, OnwardOrdered DEF LinkInv, InOrder
<1>10. OnlyFrom(n, d)'
  BY <1>1, <1>2, <1>3 DEF Aside, Hand, Putting, LinkInv, OnlyFrom
<1> QED BY <1>2, <1>6, <1>9, <1>10 DEF LinkInv, InOrder, Follows

\* What update() of d is about to be given is what n was given next.
LEMMA NextDelivered ==
  ASSUME NodeAssumption, TypeInv, NEW from, OnceInv(from), NEW n, NEW d, Between(n, d),
         LinkInv(n, d), Unsuspended, Flow,
         NEW t \in Daemons, NEW y \in Ids, InHand(4, t, n, d, y)
  PROVE  /\ Len(received[d]) < Len(received[n])
         /\ y = received[n][Len(received[d]) + 1]
<1> DEFINE R == received[n]
           G == received[d]
<1>1. /\ n \in Nodes /\ d \in Nodes /\ d \notin Sources /\ d \in Destinations(n)
      /\ Len(R) \in Nat /\ Len(G) \in Nat /\ Len(G) <= Len(R)
      /\ \A i \in 1..Len(G) : G[i] = R[i]
      /\ \A i \in 1..Len(R) : R[i] \in Ids
      /\ \A i, j \in 1..Len(R) : R[i] = R[j] => i = j
  BY LinkFacts DEF LinkInv, Follows, Between
<1>2. Stage(4, n, d, y) /\ Foremost(4, n, d, y)
  BY HandForemost
<1>3. t \in Threads /\ Carries(t, d, y)
  BY ThreadFacts DEF InHand, Carries
<1>4. OnePlace(d, y) /\ SetOut(d, y)
  BY <1>1, <1>3 DEF OnceInv, OnceAt, Present
<1>5. PICK j \in 1..Len(R) : R[j] = y
  <2>1. PICK p \in Nodes : d \in Destinations(p) /\ y \in Through(p)
    BY <1>1, <1>4 DEF SetOut, Ids
  <2>2. y \in Through(n)
    BY <2>1 DEF Between
  <2> QED BY <1>1, <2>2 DEF Through, IdsIn, Unsuspended
<1>6. j > Len(G)
  <2>1. ~In(G, y)
    BY <1>3, <1>4 DEF OnePlace, Stores, Kept
  <2>2. ASSUME j <= Len(G) PROVE FALSE
    <3>1. j \in 1..Len(G)
      BY <1>1, <1>5, <2>2
    <3>2. G[j] = y
      BY <1>1, <1>5, <3>1
    <3> QED BY <2>1, <3>1, <3>2 DEF In
  <2> QED BY <1>1, <1>5, <2>2
\* What n was given before it d has had: it is nowhere on the way.
<1>7. ASSUME NEW i \in 1..Len(R), i < j PROVE i <= Len(G)
  <2>1. \A k \in 0..4 : ~Stage(k, n, d, R[i])
    <3>1. \A k \in 0..4 : Stage(k, n, d, R[i]) => k >= 4
      BY <1>2, <1>5, <1>7 DEF LinkInv, InOrder, Ordered
    <3>2. ~Stage(4, n, d, R[i])
      BY <1>2, <1>5, <1>7 DEF Foremost
    <3> QED BY <3>1, <3>2
  <2>2. R[i] \in Through(n)
    BY DEF Through, IdsIn
  <2>3. \A u \in DaemonsOf(d) : u \in Daemons /\ u[1] = d
    BY DEF DaemonsOf
  <2>4. ~Sent(n, d, R[i])
    <3>1. SUFFICES ASSUME NEW u \in DaemonsOf(n), Putting(u), held[u] = Data(R[i]),
                          Towards(u, d)
                   PROVE  FALSE
      BY DEF Sent
    <3>2. u \in Threads /\ In(todo[u], d) /\ held[u].kind = "DATA"
      BY <3>1, ThreadFacts DEF DaemonsOf, Towards, In, Data
    <3>3. u \in Daemons /\ u[1] = n /\ u[2] = "update"
      BY <3>1, <3>2 DEF LinkInv, OnlyFrom
    <3>4. Stage(0, n, d, R[i])
      BY <3>1, <3>2, <3>3 DEF Stage, InHand
    <3> QED BY <2>1, <3>4
  <2>5. ~Due(d, R[i])
    <3>1. ~\E u \in DaemonsOf(d) : u[2] = "update" /\ pc[u] = "got" /\ held[u] = Data(R[i])
      <4>1. ~Stage(4, n, d, R[i])
        BY <2>1
      <4> QED BY <2>3, <4>1 DEF Stage, InHand
    <3>2. ~\E u \in DaemonsOf(d) : Storing(u) /\ held[u] = Data(R[i])
      <4>1. ~Stage(2, n, d, R[i])
        BY <2>1
      <4> QED BY <2>3, <4>1 DEF Stage, InHand, Storing
    <3>3. ~Ahead(queue[d], R[i]) /\ ~Ahead(outq[d], R[i])
      <4>1. ~Stage(1, n, d, R[i]) /\ ~Stage(3, n, d, R[i])
        BY <2>1
      <4> QED BY <4>1 DEF Stage, Ahead, In
    <3> QED BY <3>1, <3>2, <3>3 DEF Due
  <2>6. R[i] \in Through(d)
    BY <1>1, <2>2, <2>4, <2>5 DEF Flow
  <2>7. PICK k \in 1..Len(G) : G[k] = R[i]
    BY <1>1, <2>6 DEF Through, IdsIn, Unsuspended
  <2>8. k = i
    BY <1>1, <2>7
  <2> QED BY <1>1, <2>7, <2>8
<1>8. j = Len(G) + 1
  <2>1. ASSUME j # Len(G) + 1 PROVE FALSE
    <3>1. j - 1 \in 1..Len(R) /\ j - 1 < j /\ j - 1 > Len(G)
      BY <1>1, <1>5, <1>6, <2>1
    <3> QED BY <1>1, <1>7, <3>1
  <2> QED BY <2>1
<1> QED BY <1>1, <1>5, <1>8

LEMMA SortedLonger ==
  ASSUME NEW S, NEW q, NEW s \in Seq(S), NEW y \in S, Sorted(q, s), ~In(q, Data(y))
  PROVE  Sorted(q, Append(s, y))
<1> DEFINE r == Append(s, y)
<1>1. /\ Len(r) = Len(s) + 1 /\ Len(s) \in Nat
      /\ \A i \in 1..Len(s) : r[i] = s[i]
      /\ r[Len(s) + 1] = y
  OBVIOUS
<1> HIDE DEF r
<1>2. ASSUME NEW i \in 1..Len(q), NEW k \in 1..Len(r), q[i] = Data(r[k])
      PROVE  k \in 1..Len(s) /\ r[k] = s[k]
  <2>1. k # Len(s) + 1
    BY <1>1, <1>2 DEF In
  <2> QED BY <1>1, <2>1
<1>3. Sorted(q, r)
  BY <1>2 DEF Sorted
<1> QED BY <1>3 DEF r

LEMMA UpdateCallLink ==
  ASSUME NodeAssumption, TypeInv, NEW from, OneWay(from), OnceInv(from),
         NEW n, NEW d, Between(n, d), LinkInv(n, d), Unsuspended, Flow,
         NEW t \in Daemons, t[2] = "update", UpdateCall(t)
  PROVE  LinkInv(n, d)'
<1> DEFINE p == t[1]
           y == held[t].id
           R == received[n]
           G == received[d]
<1>1. /\ t \in Threads /\ p \in Nodes /\ pc[t] = "got" /\ held[t] \in DataMessages
      /\ received \in [Nodes -> Seq(Ids)] /\ Dest[p] \in Seq(Nodes)
      /\ pc \in [Threads -> Labels] /\ held \in [Threads -> Messages \cup {NoMsg}]
      /\ n \in Nodes /\ d \in Nodes /\ n # d /\ R \in Seq(Ids) /\ G \in Seq(Ids)
  BY ThreadFacts, LinkFacts DEF UpdateCall, TypeInv, TypeOK, Hands, NodeAssumption
<1>2. held[t] = Data(y) /\ y \in Ids
  BY <1>1 DEF DataMessages, Data
<1>3. /\ received' = [received EXCEPT ![p] = Append(received[p], y)]
      /\ UNCHANGED <<queue, outq>>
      /\ Sending(t, Data(y), Dest[p])
  BY <1>2 DEF UpdateCall
<1> HIDE DEF y
<1>4. /\ \A k \in Nodes \ {p} : received'[k] = received[k]
      /\ received'[p] = Append(received[p], y)
  BY <1>1, <1>3
<1>5. /\ Aside(t)
      /\ \A v, x : Carries(t, v, x)' => Data(y) = Data(x) /\ In(Dest[p], v)
  BY <1>1, <1>3, SendingCarries
<1>6. pc'[t] \notin {"store", "got"}
  BY <1>1, <1>3, ResumeType DEF Sending, Goto
<1>7. In(Dest[p], d) => p = n
  <2>1. In(Dest[p], d) => d \in Destinations(p)
    BY DEF In, Destinations
  <2> QED BY <1>1, <2>1 DEF Between
<1>8. ASSUME NEW k, NEW x, Stage(k, n, d, x)'
      PROVE  Stage(k, n, d, x) \/ (k = 0 /\ p = n /\ x = y)
  <2>1. ASSUME NEW u \in Daemons \ {t}, InHand(k, u, n, d, x)'
        PROVE  InHand(k, u, n, d, x)
    BY <1>5, <2>1, HandAside
  <2>2. ASSUME InHand(k, t, n, d, x)' PROVE k = 0 /\ p = n /\ x = y
    <3>1. k = 0 /\ p = n /\ Carries(t, d, x)'
      BY <1>6, <2>2 DEF InHand, Carries, Putting
    <3> QED BY <1>5, <3>1, DataInjective
  <2> QED BY <1>3, <1>8, <2>1, <2>2 DEF Stage
<1>9. OnlyFrom(n, d)'
  <2> SUFFICES ASSUME NEW u \in Threads,
                      (Putting(u) /\ In(todo[u], d) /\ held[u].kind = "DATA")'
               PROVE  u \in Daemons /\ u[1] = n /\ u[2] = "update"
    BY DEF OnlyFrom
  <2>1. CASE u # t
    BY <1>5, <2>1 DEF Aside, Hand, Putting, LinkInv, OnlyFrom
  <2>2. CASE u = t
    <3>1. todo'[t] = Dest[p]
      BY <1>1, <1>3, SendingCarries
    <3> QED BY <1>7, <2>2, <3>1
  <2> QED BY <2>1, <2>2
<1>10. CASE p # n
  <2>1. received'[n] = R
    BY <1>1, <1>4, <1>10
  <2>2. Ordered(n, d)'
    <3>1. Onward(n, d)
      BY <1>8, <1>10 DEF Onward
    <3> QED BY <2>1, <3>1, OnwardOrdered DEF LinkInv, InOrder
  <2>3. InOrder(n, d)'
    BY <1>3, <2>1, <2>2 DEF LinkInv, InOrder
  <2>4. Follows(n, d)'
    <3>1. CASE p # d
      <4>1. received'[d] = G
        BY <1>1, <1>4, <3>1
      <4> QED BY <2>1, <4>1 DEF LinkInv, Follows
    <3>2. CASE p = d
      <4>1. InHand(4, t, n, d, y)
        BY <1>1, <1>2, <3>2 DEF InHand
      <4>2. Len(G) < Len(R) /\ y = R[Len(G) + 1]
        BY <1>2, <4>1, NextDelivered
      <4>3. received'[d] = Append(G, y)
        BY <1>4, <3>2
      <4> DEFINE H == Append(G, y)
      <4>4. /\ Len(H) = Len(G) + 1 /\ Len(G) \in Nat /\ Len(R) \in Nat
            /\ \A i \in 1..Len(G) : H[i] = G[i]
            /\ H[Len(G) + 1] = y
        BY <1>1, <1>2
      <4> HIDE DEF H
      <4>5. Len(H) <= Len(R) /\ \A i \in 1..Len(H) : H[i] = R[i]
        <5>1. \A i \in 1..Len(G) : G[i] = R[i]
          BY DEF LinkInv, Follows
        <5>2. \A i \in 1..Len(H) : i \in 1..Len(G) \/ i = Len(G) + 1
          BY <4>4
        <5>3. \A i \in 1..Len(H) : H[i] = R[i]
          BY <4>2, <4>4, <5>1, <5>2
        <5> QED BY <4>2, <4>4, <5>3
      <4> QED BY <2>1, <4>3, <4>5 DEF Follows, H
    <3> QED BY <3>1, <3>2
  <2> QED BY <1>9, <2>3, <2>4 DEF LinkInv
<1>11. CASE p = n
  <2>0. PICK Q : Q = Append(R, y)
    OBVIOUS
  <2>1. /\ Len(Q) = Len(R) + 1 /\ Len(R) \in Nat /\ Len(G) \in Nat
        /\ \A i \in 1..Len(R) : Q[i] = R[i]
        /\ Q[Len(R) + 1] = y
    BY <1>1, <1>2, <2>0
  <2>2. received'[n] = Q /\ received'[d] = G
    BY <1>1, <1>4, <1>11, <2>0
  <2>3. d \in Destinations(p) /\ Carries(t, p, y)
    BY <1>1, <1>2, <1>11 DEF Between, Carries
  <2>4. y[1] \in from[p] /\ y \notin Through(p)
    <3>1. OnceAt(p, y, from)
      BY <1>1, <1>2 DEF OnceInv
    <3>2. ~Kept("received", p, y) /\ ~Kept("relayed", p, y) /\ y[1] \in from[p]
      BY <1>1, <2>3, <3>1 DEF OnceAt, OnePlace, Stores, Present
    <3> QED BY <1>1, <3>2, InThrough
  <2>5. ~Present(d, y)
    BY <1>1, <1>2, <2>3, <2>4, NotYetOut
  <2>6. \A k : ~Stage(k, n, d, y)
    <3>1. \A k, u : u \in Daemons /\ InHand(k, u, n, d, y) => u \in Threads /\ Carries(u, d, y)
      BY ThreadFacts DEF InHand, Carries, Putting
    <3>2. ~In(queue[d], Data(y)) /\ ~In(outq[d], Data(y))
      BY <2>5 DEF Present, Stores, Kept
    <3> QED BY <2>5, <3>1, <3>2 DEF Stage, Present
  <2>7. \A i \in 1..Len(R) : R[i] # y
    BY <1>11, <2>4 DEF Through, IdsIn
  <2>8. Ordered(n, d)'
    <3>1. ASSUME NEW i \in 1..Len(Q), NEW j \in 1..Len(Q), NEW k \in 0..4,
                 NEW l \in 0..4, i < j, NEW v, NEW w, v = Q[i], w = Q[j],
                 Stage(k, n, d, v)', Stage(l, n, d, w)'
          PROVE  k >= l
      <4>1. /\ i \in 1..Len(R) /\ (j \in 1..Len(R) \/ j = Len(R) + 1)
            /\ v = R[i] /\ v # y
        <5>1. i \in 1..Len(R) /\ (j \in 1..Len(R) \/ j = Len(R) + 1)
          BY <2>1, <3>1
        <5> QED BY <2>1, <2>7, <3>1, <5>1
      <4>2. Stage(k, n, d, R[i])
        <5>1. Stage(k, n, d, v)
          BY <1>8, <3>1, <4>1
        <5> QED BY <4>1, <5>1
      <4>3. CASE j \in 1..Len(R)
        <5>1. w = R[j] /\ w # y
          BY <2>1, <2>7, <3>1, <4>3
        <5>2. Stage(l, n, d, w)
          BY <1>8, <3>1, <5>1
        <5>3. Stage(l, n, d, R[j])
          BY <5>1, <5>2
        <5> QED BY <3>1, <4>1, <4>2, <4>3, <5>3 DEF LinkInv, InOrder, Ordered
      <4>4. CASE j = Len(R) + 1
        <5>1. w = y
          BY <2>1, <3>1, <4>4
        <5>2. Stage(l, n, d, w) \/ l = 0
          BY <1>8, <3>1
        <5>3. ~Stage(l, n, d, y)
          BY <2>6
        <5>4. l = 0
          BY <5>1, <5>2, <5>3
        <5> QED BY <5>4
      <4> QED BY <4>1, <4>3, <4>4
    <3>2. \A i, j \in 1..Len(Q) : \A k, l \in 0..4 :
            i < j /\ Stage(k, n, d, Q[i])' /\ Stage(l, n, d, Q[j])' => k >= l
      <4> SUFFICES ASSUME NEW i \in 1..Len(Q), NEW j \in 1..Len(Q), NEW k \in 0..4,
                          NEW l \in 0..4, i < j,
                          Stage(k, n, d, Q[i])', Stage(l, n, d, Q[j])'
                   PROVE  k >= l
        OBVIOUS
      <4> DEFINE v == Q[i]
                 w == Q[j]
      <4>1. v = Q[i] /\ w = Q[j] /\ Stage(k, n, d, v)' /\ Stage(l, n, d, w)'
        OBVIOUS
      <4> HIDE DEF v, w
      <4> QED BY <3>1, <4>1
    <3> QED BY <2>2, <3>2 DEF Ordered
  <2>9. Sorted(queue[d], Q) /\ Sorted(outq[d], Q)
    <3>1. ~In(queue[d], Data(y)) /\ ~In(outq[d], Data(y))
      BY <2>6 DEF Stage
    <3> QED BY <1>1, <1>2, <2>0, <3>1, SortedLonger DEF LinkInv, InOrder
  <2>10. InOrder(n, d)'
    BY <1>3, <2>2, <2>8, <2>9 DEF InOrder
  <2>11. Len(G) <= Len(Q) /\ \A i \in 1..Len(G) : G[i] = Q[i]
    BY <2>1 DEF LinkInv, Follows
  <2>12. Follows(n, d)'
    BY <2>2, <2>11 DEF Follows
  <2> QED BY <1>9, <2>10, <2>12 DEF LinkInv
<1> QED BY <1>10, <1>11

\* The steps of a loop that move no data.
LEMMA LoopLink ==
  ASSUME NodeAssumption, TypeInv, NEW from, OnceInv(from), NEW n, NEW d, Between(n, d),
         LinkInv(n, d), NEW t \in Daemons,
         \/ LoopTop(t) \/ GetEmpty(t) \/ UpdateFinally(t) \/ SourceCall(t)
         \/ SourceCallEnd(t) \/ SourceCallLate(t) \/ (t[2] = "source" /\ SourceEmit(t))
  PROVE  LinkInv(n, d)'
<1> DEFINE p == t[1]
<1>0. t \in Threads /\ p \in Nodes
  BY ThreadFacts
<1>1. /\ t \in Threads /\ p \in Nodes /\ <<p>> \in Seq(Nodes)
      /\ pc \in [Threads -> Labels] /\ held \in [Threads -> Messages \cup {NoMsg}]
  <2>1. <<p>> \in Seq(Nodes)
    BY <1>0
  <2> QED BY <1>0, <2>1 DEF TypeInv, TypeOK
<1>2. CASE LoopTop(t) \/ GetEmpty(t) \/ UpdateFinally(t) \/ SourceCallLate(t)
  <2>1. PICK l \in {"dead", "call", "get", "top"} : pc' = [pc EXCEPT ![t] = l]
    BY <1>2 DEF LoopTop, GetEmpty, UpdateFinally, SourceCallLate, Goto
  <2>2. UNCHANGED <<queue, outq, received, held, todo>>
    BY <1>2 DEF LoopTop, GetEmpty, UpdateFinally, SourceCallLate
  <2>3. \A u \in Threads : pc'[u] \notin Hand \/ (pc'[u] = pc[u] /\ held'[u] = held[u])
    BY <1>1, <2>1, <2>2 DEF Hand
  <2> QED BY <2>2, <2>3, CalmLink
<1>3. CASE SourceCall(t)
  <2>1. /\ pc' = [pc EXCEPT ![t] = "emit"]
        /\ \A u \in Threads \ {t} : held'[u] = held[u]
        /\ UNCHANGED <<queue, outq, received, todo>>
    BY <1>1, <1>3 DEF SourceCall, Goto
  <2>2. Aside(t) /\ pc'[t] = "emit"
    BY <1>1, <2>1 DEF Aside
  <2>3. \A k \in 0..4, x \in Ids : ~InHand(k, t, n, d, x)'
    BY <2>2 DEF InHand, Putting
  <2>4. ~Putting(t)'
    BY <2>2 DEF Putting
  <2> QED BY <1>1, <2>1, <2>2, <2>3, <2>4, StillLink
<1>4. CASE SourceCallEnd(t)
  <2>1. PICK sig \in SourceEnd : Sending(t, Control(sig), <<p>>)
    BY <1>4 DEF SourceCallEnd
  <2>2. Control(sig).kind # "DATA" /\ UNCHANGED <<queue, outq, received>>
    BY <1>4 DEF SourceCallEnd, Control, NodeAssumption, Negative
  <2> QED BY <1>1, <2>1, <2>2, SendingLink
<1>5. CASE t[2] = "source" /\ SourceEmit(t)
  <2>1. pc[t] = "emit" /\ UNCHANGED <<queue, outq, received>>
    BY <1>5 DEF SourceEmit
  <2>2. CASE stopEvt[p]["source"]
    <3>1. /\ pc' = [pc EXCEPT ![t] = "dead"] /\ held' = [held EXCEPT ![t] = NoMsg]
          /\ todo' = todo
      BY <1>5, <2>2 DEF SourceEmit, Goto
    <3>2. \A u \in Threads : pc'[u] \notin Hand \/ (pc'[u] = pc[u] /\ held'[u] = held[u])
      BY <1>1, <3>1 DEF Hand
    <3> QED BY <2>1, <3>1, <3>2, CalmLink
  <2>3. CASE ~stopEvt[p]["source"]
    <3>1. Sending(t, held[t], <<p>>)
      BY <1>5, <2>3 DEF SourceEmit
    \* Only a source calls its function.
    <3>2. p \in Sources
      <4>1. Hands(t)
        BY <1>1 DEF TypeInv
      <4> QED BY <1>5, <2>1, <4>1 DEF Hands
    <3>3. ~In(<<p>>, d)
      BY <3>2, OnlyOnceHere DEF Between
    <3> QED BY <1>1, <2>1, <3>1, <3>3, SendingLink
  <2> QED BY <2>2, <2>3
<1> QED BY <1>2, <1>3, <1>4, <1>5

LEMMA ControlLink ==
  ASSUME NodeAssumption, TypeInv, NEW from, OnceInv(from), NEW n, NEW d, Between(n, d),
         LinkInv(n, d), NEW t \in Controls, ControlThread(t)
  PROVE  LinkInv(n, d)'
<1> DEFINE p == t[1]
<1>0. t \in Threads /\ p \in Nodes
  BY ThreadFacts
<1>1. /\ t \in Threads /\ p \in Nodes /\ Dest[p] \in Seq(Nodes) /\ <<>> \in Seq(Nodes)
      /\ pc \in [Threads -> Labels] /\ held \in [Threads -> Messages \cup {NoMsg}]
  <2>1. Dest[p] \in Seq(Nodes) /\ <<>> \in Seq(Nodes)
    BY <1>0 DEF NodeAssumption
  <2> QED BY <1>0, <2>1 DEF TypeInv, TypeOK
<1>2. ASSUME AfterStop(t), UNCHANGED <<queue, outq, received>>
      PROVE  LinkInv(n, d)'
  <2>1. CASE held[t].kind = "STOP_PROPAGATE"
    <3>1. Sending(t, held[t], Dest[p]) /\ held[t].kind # "DATA"
      BY <1>2, <2>1 DEF AfterStop
    <3> QED BY <1>1, <1>2, <3>1, SendingLink
  <2>2. CASE held[t].kind # "STOP_PROPAGATE"
    <3>1. Sending(t, NoMsg, <<>>) /\ NoMsg.kind # "DATA"
      BY <1>2, <2>2 DEF AfterStop, NoMsg
    <3> QED BY <1>1, <1>2, <3>1, SendingLink
  <2> QED BY <2>1, <2>2
<1>3. CASE ControlSuspend(t)
  BY <1>1, <1>3, CalmLink DEF ControlSuspend, Goto, Hand
<1>4. CASE ControlStart(t)
  <2>1. /\ pc' = [u \in Threads |-> IF u \in Spawned(p) THEN "top"
                                    ELSE IF u = t THEN "none" ELSE pc[u]]
        /\ held' = [held EXCEPT ![t] = NoMsg]
        /\ UNCHANGED <<queue, outq, received, todo>>
    BY <1>4 DEF ControlStart
  <2>2. \A u \in Threads : pc'[u] \notin Hand \/ (pc'[u] = pc[u] /\ held'[u] = held[u])
    BY <1>1, <2>1 DEF Hand
  <2> QED BY <2>1, <2>2, CalmLink
<1>5. CASE ControlStop(t)
  <2>1. UNCHANGED <<queue, outq, received>>
    BY <1>5 DEF ControlStop
  <2>2. CASE status[p] = "STOPPED"
    BY <1>2, <1>5, <2>1, <2>2 DEF ControlStop
  <2>3. CASE status[p] # "STOPPED"
    <3>1. pc' = [pc EXCEPT ![t] = "pend"] /\ UNCHANGED <<held, todo>>
      BY <1>5, <2>3 DEF ControlStop, Goto
    <3>2. \A u \in Threads : pc'[u] \notin Hand \/ (pc'[u] = pc[u] /\ held'[u] = held[u])
      BY <1>1, <3>1 DEF Hand
    <3> QED BY <2>1, <3>1, <3>2, CalmLink
  <2> QED BY <2>2, <2>3
<1>6. CASE JoinPending(t, p) \/ JoinList(t, p)
  BY <1>1, <1>6, CalmLink DEF JoinPending, JoinList, Goto, Hand
<1>7. CASE ControlStopEnd(t)
  BY <1>2, <1>7 DEF ControlStopEnd
<1>8. CASE Put(t)
  BY <1>1, <1>8, PutLink
<1> QED BY <1>3, <1>4, <1>5, <1>6, <1>7, <1>8 DEF ControlThread

LEMMA CallLink ==
  ASSUME NodeAssumption, PipelineAssumption, TypeInv, NEW from, OnceInv(from),
         NEW n, NEW d, Between(n, d), LinkInv(n, d), UserCall \/ InCall
  PROVE  LinkInv(n, d)'
<1>0. User \in Threads /\ Here \in Nodes
  BY ThreadFacts, HereType
<1>1. /\ User \in Threads /\ Here \in Nodes
      /\ pc \in [Threads -> Labels] /\ held \in [Threads -> Messages \cup {NoMsg}]
  BY <1>0 DEF TypeInv, TypeOK
<1>2. CASE Start \/ Stop \/ StopJoin \/ StopJoined \/ JoinPending(User, Here)
           \/ JoinList(User, Here)
  <2>1. UNCHANGED <<queue, outq, received, todo, held>>
    BY <1>2
    DEF Start, Stop, StopJoin, StopJoined, JoinPending, JoinList, nodeVars
  <2>2. pc' = pc \/ \E l \in {"pend", "drive", "list", "join"} : pc' = [pc EXCEPT ![User] = l]
    BY <1>2
    DEF Start, Stop, StopJoin, StopJoined, JoinPending, JoinList, nodeVars, Goto
  <2>3. \A u \in Threads : pc'[u] \notin Hand \/ (pc'[u] = pc[u] /\ held'[u] = held[u])
    BY <1>1, <2>1, <2>2 DEF Hand
  <2> QED BY <2>1, <2>3, CalmLink
<1>3. CASE StartNode
  <2>1. /\ pc' = [u \in Threads |-> IF u \in Spawned(Here) THEN "top" ELSE pc[u]]
        /\ UNCHANGED <<queue, outq, received, todo, held>>
    BY <1>3 DEF StartNode
  <2>2. \A u \in Threads : pc'[u] \notin Hand \/ (pc'[u] = pc[u] /\ held'[u] = held[u])
    BY <1>1, <2>1 DEF Hand
  <2> QED BY <2>1, <2>2, CalmLink
<1>4. ASSUME NEW e \in Nodes, NEW sig \in Signals, Sending(User, Control(sig), <<e>>),
             UNCHANGED <<queue, outq, received>>
      PROVE  LinkInv(n, d)'
  <2>1. <<e>> \in Seq(Nodes) /\ Control(sig).kind # "DATA"
    BY DEF Control, Signals
  <2> QED BY <1>1, <1>4, <2>1, SendingLink
<1>5. CASE StopPut
  BY <1>1, <1>4, <1>5 DEF StopPut, Signals
<1>6. ASSUME NEW e \in Nodes, NEW sig \in UserSignals, Signal(e, sig)
      PROVE  LinkInv(n, d)'
  <2>1. sig \in Signals
    BY DEF PipelineAssumption, Signals
  <2> QED BY <1>4, <1>6, <2>1 DEF Signal
<1>7. CASE Put(User)
  BY <1>1, <1>7, PutLink
<1> QED BY <1>2, <1>3, <1>5, <1>6, <1>7 DEF UserCall, InCall

LEMMA NextLink ==
  ASSUME NodeAssumption, PipelineAssumption, TypeInv, NEW from, OneWay(from), OnceInv(from),
         NEW n, NEW d, Between(n, d), Fails = {}, Flow, Unsuspended, LinkInv(n, d),
         [Next]_vars
  PROVE  LinkInv(n, d)'
<1>1. CASE UNCHANGED vars
  BY <1>1, CalmLink DEF vars
<1>2. ASSUME NEW t \in Daemons, DaemonStep(t) PROVE LinkInv(n, d)'
  <2>1. t \in Threads /\ ~UpdateRaise(t)
    BY ThreadFacts DEF UpdateRaise
  <2>2. CASE t[2] = "worker" /\ Worker(t)
    BY <2>1, <2>2, PutLink, LoopLink, WorkerGetLink, WorkerStoreLink DEF Worker
  <2>3. CASE t[2] = "update" /\ Update(t)
    BY <2>1, <2>3, PutLink, LoopLink, UpdateGetLink, UpdateCallLink DEF Update
  <2>4. CASE t[2] = "source" /\ Source(t)
    BY <2>1, <2>4, PutLink, LoopLink DEF Source
  <2> QED BY <1>2, <2>2, <2>3, <2>4 DEF DaemonStep
<1>3. ASSUME NEW t \in Controls, ControlThread(t) PROVE LinkInv(n, d)'
  BY <1>3, ControlLink
<1> QED
  BY <1>1, <1>2, <1>3, CallLink DEF Next, ThreadStep, NodeStep

LEMMA NextUnsuspended ==
  ASSUME NodeAssumption, PipelineAssumption, "SUSPEND" \notin UserSignals, TypeInv,
         Unsent("SUSPEND"), Unsuspended, [Next]_vars
  PROVE  Unsent("SUSPEND")' /\ Unsuspended'
<1>1. suspended \in [Nodes -> BOOLEAN] /\ relayed \in [Nodes -> SUBSET Ids]
  BY DEF TypeInv, TypeOK
<1>2. ASSUME UNCHANGED <<suspended, relayed>> PROVE Unsuspended'
  BY <1>2 DEF Unsuspended
<1>3. ASSUME NEW t, Put(t) PROVE Unsuspended'
  BY <1>2, <1>3 DEF Put, PutDiscard, PutAccept, Enqueue
<1>4. CASE UNCHANGED vars
  <2>1. Unsent("SUSPEND")'
    BY <1>4 DEF vars, Unsent
  <2> QED BY <1>2, <1>4, <2>1 DEF vars
<1>5. ASSUME NEW t \in Daemons, DaemonStep(t)
      PROVE  Unsent("SUSPEND")' /\ Unsuspended'
  <2>1. CASE WorkerGet(t)
    <3>1. t[1] \in Nodes
      BY ThreadFacts
    <3> QED BY <1>2, <1>5, <2>1, <3>1, DaemonUnsent DEF WorkerGet, Unsuspended
  <2>2. CASE ~WorkerGet(t)
    <3>1. UNCHANGED <<suspended, relayed>> \/ Put(t)
      BY <1>5, <2>2
      DEF DaemonStep, Worker, Update, Source, LoopTop, GetEmpty, WorkerStore,
          UpdateGetControl, UpdateGetData, UpdateCall, UpdateRaise, UpdateFinally,
          SourceCall, SourceCallEnd, SourceCallLate, SourceEmit
    <3> QED BY <1>2, <1>3, <1>5, <3>1, DaemonUnsent
  <2> QED BY <2>1, <2>2
<1>6. ASSUME NEW t \in Controls, ControlThread(t)
      PROVE  Unsent("SUSPEND")' /\ Unsuspended'
  <2>1. CASE ControlSuspend(t)
    <3>1. t \in Threads /\ Plain("SUSPEND", held[t])
      BY ThreadFacts DEF Unsent
    <3>2. suspended' = [suspended EXCEPT ![t[1]] = FALSE] /\ relayed' = relayed
      BY <2>1, <3>1 DEF ControlSuspend, Plain
    <3>3. Unsuspended'
      BY <1>1, <3>2 DEF Unsuspended
    <3> QED BY <1>6, <3>3, ControlUnsent
  <2>2. CASE ~ControlSuspend(t)
    <3>1. UNCHANGED <<suspended, relayed>> \/ Put(t)
      BY <1>6, <2>2
      DEF ControlThread, ControlStart, ControlStop, ControlStopEnd, JoinPending, JoinList
    <3> QED BY <1>2, <1>3, <1>6, <3>1, ControlUnsent
  <2> QED BY <2>1, <2>2
<1>7. ASSUME UserCall \/ InCall PROVE Unsent("SUSPEND")' /\ Unsuspended'
  <2>1. UNCHANGED <<suspended, relayed>> \/ Put(User)
    BY <1>7
    DEF UserCall, InCall, Start, Stop, Signal, StartNode, StopPut, StopJoin,
        StopJoined, JoinPending, JoinList, nodeVars
  <2> QED BY <1>2, <1>3, <1>7, <2>1, CallUnsent
<1> QED
  BY <1>4, <1>5, <1>6, <1>7 DEF Next, ThreadStep, NodeStep

\* A pipeline that is stopped stays so, and its nodes are given nothing more.
LEMMA StaysClosed ==
  ASSUME NodeAssumption, PipelineAssumption, MaxGen = 1, TypeInv, StopInv, Begun,
         Calling, Stopped, NEW n \in Nodes, gen[n] > 0, [Next]_vars
  PROVE  received' = received /\ Stopped' /\ gen'[n] > 0
<1>1. /\ gen \in [Nodes -> 0..MaxGen] /\ gen[n] \in Nat
      /\ cur.op = "none" /\ pstatus = "READY" /\ cur = NoCall
      /\ \A k \in Nodes : Finished(k)
  <2>1. gen \in [Nodes -> 0..MaxGen]
    BY DEF TypeInv, TypeOK
  <2>2. gen[n] \in Nat
    BY <2>1
  <2>3. pstatus = "READY" /\ cur = NoCall
    BY DEF Stopped
  <2>4. cur.op = "none"
    BY <2>3 DEF NoCall, At
  <2>5. \A k \in Nodes : Finished(k)
    BY <2>2 DEF Calling
  <2> QED BY <2>1, <2>2, <2>3, <2>4, <2>5
<1>2. received' = received
  <2> SUFFICES ASSUME NEW t \in Daemons, UpdateCall(t) \/ UpdateRaise(t) PROVE FALSE
    BY ReceivedOnly
  <2>1. pc[t] = "got" /\ t[1] \in Nodes
    BY ThreadFacts DEF UpdateCall, UpdateRaise
  <2> QED BY <1>1, <2>1 DEF Finished, DaemonsOf
<1>3. ASSUME UserCall \/ InCall PROVE UNCHANGED <<pstatus, cur, gen>>
  <2>1. ~Start
    <3>1. ~(gen[n] < MaxGen)
      BY <1>1
    <3> QED BY <3>1 DEF Start
  <2>2. ~Stop /\ ~StartNode /\ ~StopPut /\ ~StopJoin
    BY <1>1 DEF Stop, StartNode, StopPut, StopJoin, Driving
  <2>3. ~StopJoined
    BY <1>1 DEF StopJoined, Joined, Calling
  <2>4. \A t : Put(t) => gen' = gen
    BY DEF Put, PutDiscard, PutAccept, Enqueue
  <2> QED
    BY <1>3, <2>1, <2>2, <2>3, <2>4 DEF UserCall, InCall, Signal, JoinPending, JoinList
<1>4. ASSUME NEW t \in Daemons, DaemonStep(t) PROVE gen' = gen
  BY <1>4, DaemonNoBirth DEF NoBirth
<1>5. ASSUME NEW t \in Controls, ControlThread(t) PROVE gen'[n] > 0
  <2>1. t[1] \in Nodes
    BY ThreadFacts
  <2>2. CASE ControlStart(t)
    <3>1. gen' = gen \/ gen' = [gen EXCEPT ![t[1]] = gen[t[1]] + 1]
      BY <2>2 DEF ControlStart, NodeStart, MakeThreads
    <3>2. gen'[n] = gen[n] \/ gen'[n] = gen[n] + 1
      BY <1>1, <2>1, <3>1
    <3> QED BY <1>1, <3>2
  <2>3. CASE ~ControlStart(t)
    <3>1. gen' = gen
      BY <1>5, <2>3
      DEF ControlThread, ControlSuspend, ControlStop, ControlStopEnd, JoinPending,
          JoinList, Put, PutDiscard, PutAccept, Enqueue
    <3> QED BY <3>1
  <2> QED BY <2>2, <2>3
<1>6. UNCHANGED <<pstatus, cur>> /\ gen'[n] > 0
  BY <1>3, <1>4, <1>5 DEF Next, ThreadStep, NodeStep, vars
<1> QED BY <1>1, <1>2, <1>6 DEF Stopped

\* What is left to give d when the pipeline is stopped: nothing.
LinkDone(n, d) == Stopped /\ gen[n] > 0 => received[d] = received[n]

LEMMA FollowsDone ==
  ASSUME NodeAssumption, TypeInv, NEW from, OnceInv(from), NEW n, NEW d, Between(n, d),
         Follows(n, d), Unsuspended, MessageInv, Calling
  PROVE  LinkDone(n, d)
<1> SUFFICES ASSUME Stopped, gen[n] > 0 PROVE received[d] = received[n]
  BY DEF LinkDone
<1> DEFINE R == received[n]
           G == received[d]
<1>1. /\ n \in Nodes /\ d \in Nodes /\ d \in Destinations(n)
      /\ R \in Seq(Ids) /\ G \in Seq(Ids)
      /\ Len(G) <= Len(R)
      /\ \A i \in 1..Len(G) : G[i] = R[i]
      /\ \A i, j \in 1..Len(R) : R[i] = R[j] => i = j
  BY LinkFacts DEF Follows, Between
<1>2. Finished(n) /\ Finished(d)
  BY <1>1 DEF Calling
<1>3. Through(n) \subseteq Through(d)
  BY <1>1, <1>2, FinishedPassed
<1>4. \A i \in 1..Len(R) : \E k \in 1..Len(G) : G[k] = R[i]
  <2>1. Through(n) = IdsIn(R) /\ Through(d) = IdsIn(G)
    BY <1>1 DEF Through, Unsuspended
  <2>2. \A i \in 1..Len(R) : R[i] \in IdsIn(G)
    BY <1>3, <2>1 DEF IdsIn
  <2> QED BY <2>2 DEF IdsIn
<1>5. Len(R) = Len(G)
  <2> SUFFICES ASSUME Len(G) # Len(R) PROVE FALSE
    OBVIOUS
  <2>1. Len(R) \in Nat /\ Len(G) \in Nat
    BY <1>1
  <2>2. Len(R) \in 1..Len(R) /\ Len(R) > Len(G)
    BY <1>1, <2>1
  <2>3. PICK k \in 1..Len(G) : G[k] = R[Len(R)]
    BY <1>4, <2>2
  <2>4. k \in 1..Len(R) /\ R[k] = R[Len(R)] /\ k # Len(R)
    BY <1>1, <2>1, <2>2, <2>3
  <2> QED BY <1>1, <2>2, <2>4
<1>6. \A i \in 1..Len(R) : G[i] = R[i]
  BY <1>1, <1>5
<1> HIDE DEF R, G
<1>7. G = R
  <2>1. G = [i \in 1..Len(G) |-> G[i]] /\ R = [i \in 1..Len(R) |-> R[i]]
    BY <1>1
  <2> QED BY <1>5, <1>6, <2>1
<1> QED BY <1>7 DEF R, G

\* Each step of the pipeline is one of the link, or none.
LinkOf(n, d) == INSTANCE Link WITH Item <- Ids, sent <- received[n],
                  got <- received[d], closed <- Stopped /\ gen[n] > 0

LEMMA StepLink ==
  ASSUME NodeAssumption, PipelineAssumption, Fails = {}, TypeInv, StopInv, Begun, Calling,
         Flow, NEW from, OnceInv(from), NEW n, NEW d, Between(n, d), LinkInv(n, d),
         Unsuspended, LinkDone(n, d)', [Next]_vars
  PROVE  [LinkOf(n, d)!LinkNext]_(LinkOf(n, d)!linkVars)
<1> DEFINE closed == Stopped /\ gen[n] > 0
           Same == UNCHANGED <<received[n], received[d], closed>>
<1>1. /\ n \in Nodes /\ d \in Nodes /\ n # d
      /\ received \in [Nodes -> Seq(Ids)]
  BY LinkFacts DEF TypeInv, TypeOK
<1>2. closed => received' = received /\ closed'
  BY <1>1, StaysClosed DEF Between
<1>3. closed \in BOOLEAN /\ closed' \in BOOLEAN
  OBVIOUS
<1>4. SUFFICES ASSUME ~Same PROVE LinkOf(n, d)!LinkNext
  BY DEF LinkOf!linkVars
<1>5. CASE received' = received
  <2>1. ~closed /\ closed'
    BY <1>2, <1>3, <1>4, <1>5
  <2>2. received[d] = received[n]
    BY <1>5, <2>1 DEF LinkDone
  <2>3. (Stopped /\ gen[n] > 0)' = TRUE
    BY <2>1
  <2>4. LinkOf(n, d)!Close
    BY <1>5, <2>1, <2>2, <2>3 DEF LinkOf!Close
  <2> QED BY <2>4 DEF LinkOf!LinkNext
<1>6. CASE received' # received
  <2>1. PICK t \in Daemons : /\ t[2] = "update" /\ UpdateCall(t)
                             /\ UNCHANGED <<pstatus, cur>>
    BY <1>6, ReceivedOnly DEF UpdateRaise
  <2>2. /\ pc[t] = "got" /\ gen' = gen
        /\ received' = [received EXCEPT ![t[1]] = Append(received[t[1]], held[t].id)]
        /\ t \in Threads /\ t[1] \in Nodes
    BY <2>1, ThreadFacts DEF UpdateCall
  <2>3. ~closed /\ closed' = closed
    BY <1>2, <1>6, <2>1, <2>2 DEF Stopped
  <2>4. PICK y \in Ids : held[t] = Data(y) /\ held[t].id = y
    <3>1. held[t] \in DataMessages
      BY <2>2 DEF TypeInv, Hands
    <3> QED BY <3>1 DEF DataMessages, Data
  <2>5. /\ \A k \in Nodes \ {t[1]} : received'[k] = received[k]
        /\ received'[t[1]] = Append(received[t[1]], y)
    BY <1>1, <2>2, <2>4
  <2>6. (Stopped /\ gen[n] > 0)' = (Stopped /\ gen[n] > 0)
    BY <2>3
  <2>7. t[1] = n \/ t[1] = d
    BY <1>1, <1>4, <2>3, <2>5
  <2>8. CASE t[1] = n
    <3>1. received'[n] = Append(received[n], y) /\ received'[d] = received[d]
      BY <1>1, <2>5, <2>8
    <3>2. LinkOf(n, d)!Send
      BY <2>3, <2>4, <2>6, <3>1 DEF LinkOf!Send
    <3> QED BY <3>2 DEF LinkOf!LinkNext
  <2>9. CASE t[1] = d
    <3>1. received'[d] = Append(received[d], y) /\ received'[n] = received[n]
      BY <1>1, <2>5, <2>9
    <3>2. InHand(4, t, n, d, y)
      BY <2>1, <2>2, <2>4, <2>9 DEF InHand
    <3>3. /\ Len(received[d]) < Len(received[n])
          /\ y = received[n][Len(received[d]) + 1]
      BY <3>2, NextDelivered
    <3>4. LinkOf(n, d)!Deliver
      BY <2>3, <2>6, <3>1, <3>3 DEF LinkOf!Deliver
    <3> QED BY <3>4 DEF LinkOf!LinkNext
  <2> QED BY <2>7, <2>8, <2>9
<1> QED BY <1>5, <1>6

LEMMA InitLink ==
  ASSUME NodeAssumption, Init, NEW n, NEW d, Between(n, d)
  PROVE  LinkInv(n, d) /\ Unsuspended /\ Unsent("SUSPEND") /\ LinkOf(n, d)!LinkInit
<1>1. /\ \A k \in Nodes : /\ queue[k] = <<>> /\ outq[k] = <<>> /\ received[k] = <<>>
                          /\ relayed[k] = {} /\ suspended[k] = FALSE /\ gen[k] = 0
      /\ \A t \in Threads : held[t] = NoMsg /\ pc[t] \notin {"put", "enq", "store", "got"}
  BY DEF Init, NodeInit
<1>2. n \in Nodes /\ d \in Nodes
  BY DEF Between, Destinations, NodeAssumption
<1>3. Unsuspended
  BY <1>1 DEF Unsuspended
<1>4. Unsent("SUSPEND")
  <2>1. Plain("SUSPEND", NoMsg)
    BY DEF Plain, NoMsg
  <2> QED BY <1>1, <2>1 DEF Unsent
<1>5. OnlyFrom(n, d)
  BY <1>1 DEF OnlyFrom, Putting
<1>6. Len(<<>>) = 0
  OBVIOUS
<1>7. Follows(n, d)
  BY <1>1, <1>2, <1>6 DEF Follows
<1>8. Ordered(n, d)
  BY <1>1, <1>2, <1>6 DEF Ordered
<1>9. Sorted(queue[d], received[n]) /\ Sorted(outq[d], received[n])
  BY <1>1, <1>2, <1>6 DEF Sorted
<1>10. LinkOf(n, d)!LinkInit
  <2>1. gen[n] = 0 /\ received[n] = <<>> /\ received[d] = <<>>
    BY <1>1, <1>2
  <2> QED BY <2>1 DEF LinkOf!LinkInit
<1> QED
  BY <1>3, <1>4, <1>5, <1>7, <1>8, <1>9, <1>10 DEF LinkInv, InOrder

\* Every link to a node that has no other implements Link, but for the fairness:
\* what n is given, and so transmits, is given to d in the same order, each
\* message once, and all of it before stop() has returned (_node.py, transmit,
\* _worker and _update; _pipeline.py, stop). The pipeline is started once,
\* nothing suspends its nodes, and the conditions of StoppingDrains hold.
THEOREM LinksDeliver ==
  ASSUME Orderly, MaxGen = 1, "SUSPEND" \notin UserSignals, NEW from, OneWay(from),
         NEW n, NEW d, Between(n, d)
  PROVE  Spec => /\ LinkOf(n, d)!LinkInit
                 /\ [][LinkOf(n, d)!LinkNext]_(LinkOf(n, d)!linkVars)
<1> USE NodeAssumption, PipelineAssumption
<1> DEFINE Inv == TypeInv /\ StopInv /\ DrainInv
           Once == OnceInv(from)
           Moving == LinkInv(n, d) /\ Unsuspended /\ Unsent("SUSPEND")
           Done == LinkDone(n, d)
           First == LinkOf(n, d)!LinkInit
           Step == [LinkOf(n, d)!LinkNext]_(LinkOf(n, d)!linkVars)
<1>1. Init => Once /\ Moving /\ First
  BY InitOnce, InitLink
<1>2. Inv /\ Inv' /\ Once /\ [Next]_vars => Once'
  BY NextOnce
<1>3. Inv /\ Once /\ Moving /\ [Next]_vars => Moving'
  <2>1. ASSUME Inv, Once, Moving, [Next]_vars PROVE Moving'
    BY <2>1, NextLink, NextUnsuspended DEF DrainInv, MessageInv, Orderly
  <2> QED BY <2>1
<1>4. Inv /\ Once /\ Moving => Done
  <2>1. ASSUME Inv, Once, Moving PROVE Done
    BY <2>1, FollowsDone DEF DrainInv, LinkInv
  <2> QED BY <2>1
<1>5. Inv /\ Once /\ Moving /\ Done' /\ [Next]_vars => Step
  <2>1. ASSUME Inv, Once, Moving, Done', [Next]_vars PROVE Step
    BY <2>1, StepLink DEF DrainInv, MessageInv, Orderly
  <2> QED BY <2>1
<1>6. Spec => []Inv
  BY DrainingIsSafe
<1> HIDE DEF Inv, Once, Moving, Done, First
<1> QED
  BY <1>1, <1>2, <1>3, <1>4, <1>5, <1>6, PTL DEF Spec, First
=============================================================================
