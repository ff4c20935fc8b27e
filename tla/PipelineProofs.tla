--------------------------- MODULE PipelineProofs ---------------------------
(***************************************************************************)
(* Type correctness of every pipeline, for every value of the constants,   *)
(* and that no message goes through a node twice.                          *)
(***************************************************************************)
EXTENDS Pipeline, TLAPS

\* What a thread holds where its label says it is about to use it.
Hands(t) ==
  /\ pc[t] \in {"put", "enq"} => held[t] \in Messages /\ todo[t] # <<>>
  /\ pc[t] \in {"store", "ctl"} => held[t] \in Messages
  /\ pc[t] \in {"got", "emit"} => held[t] \in DataMessages
  /\ pc[t] = "raising" => t[1] \in Fails
  /\ pc[t] # "none" /\ t[2] = "source" => t[1] \in Sources

TypeInv == TypeOK /\ \A t \in Threads : Hands(t)

LEMMA ThreadFacts ==
  ASSUME NodeAssumption
  PROVE  /\ Daemons \subseteq Threads /\ Controls \subseteq Threads
         /\ User \in Threads
         /\ \A t \in Daemons : /\ t = <<t[1], t[2], t[3]>>
                               /\ t[1] \in Nodes /\ t[2] \in Roles
                               /\ t[3] \in 1..MaxGen
         /\ \A t \in Controls : /\ t = <<t[1], t[2], t[3]>>
                                /\ t[1] \in Nodes /\ t[2] = "control"
         /\ Daemons \cap Controls = {}
         /\ User \notin Daemons \cup Controls
  BY DEF NodeAssumption, Threads, Daemons, Controls, User, Roles

LEMMA ResumeType ==
  ASSUME NodeAssumption, NEW t \in Threads
  PROVE  Resume(t) \in {"top", "finally", "none", "drive"}
<1>1. t[2] \in {"worker", "update", "source", "control", "user"}
  BY DEF Threads, Daemons, Controls, User, Roles
<1> QED
  BY <1>1 DEF Resume, AfterCall

LEMMA SendingType ==
  ASSUME NodeAssumption, TypeInv,
         NEW t \in Threads, NEW m \in Messages \cup {NoMsg},
         NEW ds \in Seq(Nodes), ds # <<>> => m \in Messages,
         Sending(t, m, ds), pc[t] # "none"
  PROVE  /\ todo' \in [Threads -> Seq(Nodes)]
         /\ held' \in [Threads -> Messages \cup {NoMsg}]
         /\ pc' \in [Threads -> Labels]
         /\ \A x \in Threads : Hands(x)'
<1>1. /\ pc \in [Threads -> Labels] /\ todo \in [Threads -> Seq(Nodes)]
      /\ held \in [Threads -> Messages \cup {NoMsg}]
  BY DEF TypeInv, TypeOK
<1>2. Resume(t) \in {"top", "finally", "none", "drive"}
  BY ResumeType
<1>3. /\ todo' = [todo EXCEPT ![t] = ds]
      /\ held' = [held EXCEPT ![t] = IF ds = <<>> THEN NoMsg ELSE m]
      /\ pc' = [pc EXCEPT ![t] = IF ds = <<>> THEN Resume(t) ELSE "put"]
  BY DEF Sending, Goto
<1>4. /\ todo' \in [Threads -> Seq(Nodes)]
      /\ held' \in [Threads -> Messages \cup {NoMsg}]
  BY <1>1, <1>3
<1>5. pc' \in [Threads -> Labels]
  BY <1>1, <1>2, <1>3 DEF Labels
<1>6. ASSUME NEW x \in Threads PROVE Hands(x)'
  <2>1. CASE x # t
    BY <1>1, <1>3, <2>1 DEF TypeInv, Hands
  <2>2. CASE x = t
    BY <1>1, <1>2, <1>3, <2>2 DEF TypeInv, Hands
  <2> QED BY <2>1, <2>2
<1> QED BY <1>4, <1>5, <1>6

\* A queue of each node stays one when one of them grows or loses its head.
LEMMA AppendType ==
  ASSUME NEW S, NEW q \in [Nodes -> Seq(S)], NEW n \in Nodes, NEW m \in S
  PROVE  [q EXCEPT ![n] = Append(@, m)] \in [Nodes -> Seq(S)]
<1>1. Append(q[n], m) \in Seq(S)
  OBVIOUS
<1> QED BY <1>1

LEMMA TailType ==
  ASSUME NEW S, NEW q \in [Nodes -> Seq(S)], NEW n \in Nodes, q[n] # <<>>
  PROVE  /\ [q EXCEPT ![n] = Tail(@)] \in [Nodes -> Seq(S)]
         /\ Head(q[n]) \in S
<1>1. Tail(q[n]) \in Seq(S) /\ Head(q[n]) \in S
  OBVIOUS
<1> QED BY <1>1

LEMMA InitType ==
  ASSUME NodeAssumption, PipelineAssumption, Init
  PROVE  TypeInv
<1>1. TypeOK
  BY DEF NodeAssumption, PipelineAssumption, Init, NodeInit, TypeOK, NoCall,
         At, Labels, Signals, Roles
<1>2. \A t \in Threads : Hands(t)
  BY DEF Init, NodeInit, Hands, User
<1> QED
  BY <1>1, <1>2 DEF TypeInv

LEMMA PutFacts ==
  ASSUME TypeInv, NEW t \in Threads, pc[t] \in {"put", "enq"}
  PROVE  /\ held[t] \in Messages
         /\ Head(todo[t]) \in Nodes /\ Tail(todo[t]) \in Seq(Nodes)
<1>1. held[t] \in Messages /\ todo[t] # <<>> /\ todo[t] \in Seq(Nodes)
  BY DEF TypeInv, TypeOK, Hands
<1> QED BY <1>1

LEMMA PutType ==
  ASSUME NodeAssumption, TypeInv, NEW t \in Threads, Put(t),
         UNCHANGED <<pstatus, cur, signals>>
  PROVE  TypeInv'
<1>1. ASSUME PutDiscard(t) PROVE TypeInv'
  BY <1>1, PutFacts, SendingType
  DEF TypeInv, TypeOK, PutDiscard, Served
<1>2. ASSUME PutAccept(t) PROVE TypeInv'
  BY <1>2 DEF TypeInv, TypeOK, Hands, PutAccept, Goto, Labels
<1>3. ASSUME Enqueue(t) PROVE TypeInv'
  <2>1. /\ Tail(todo[t]) \in Seq(Nodes) /\ held[t] \in Messages
        /\ Head(todo[t]) \in Nodes
    BY <1>3, PutFacts DEF Enqueue
  <2>2. queue' \in [Nodes -> Seq(Messages)]
    BY <1>3, <2>1, AppendType DEF TypeInv, TypeOK, Enqueue
  <2>3. QED
    BY <1>3, <2>1, <2>2, SendingType DEF TypeInv, TypeOK, Enqueue, Served
<1> QED
  BY <1>1, <1>2, <1>3 DEF Put

LEMMA WorkerType ==
  ASSUME NodeAssumption, TypeInv, NEW t \in Daemons, t[2] = "worker",
         Worker(t), UNCHANGED <<pstatus, cur, signals>>
  PROVE  TypeInv'
<1>0. t \in Threads /\ t[1] \in Nodes
  BY ThreadFacts
<1>1. ASSUME LoopTop(t) PROVE TypeInv'
  BY <1>0, <1>1 DEF TypeInv, TypeOK, Hands, LoopTop, Goto, Labels
<1>2. ASSUME GetEmpty(t) PROVE TypeInv'
  BY <1>0, <1>2 DEF TypeInv, TypeOK, Hands, GetEmpty, Goto, Labels
<1>3. ASSUME WorkerGet(t) PROVE TypeInv'
  <2> DEFINE n == t[1]
             m == Head(queue[n])
  <2>1. /\ queue' \in [Nodes -> Seq(Messages)]
        /\ m \in Messages /\ Dest[n] \in Seq(Nodes)
    BY <1>0, <1>3, TailType DEF TypeInv, TypeOK, WorkerGet, NodeAssumption
  <2>2. CASE suspended[n] /\ ~IsControl(m)
    <3>1. Sending(t, m, Dest[n]) /\ relayed' = [relayed EXCEPT ![n] = @ \cup {m.id}]
      BY <1>3, <2>2 DEF WorkerGet
    <3>2. m.id \in Ids
      BY <2>1, <2>2 DEF Messages, DataMessages, IsControl
    <3>3. relayed' \in [Nodes -> SUBSET Ids]
      BY <1>0, <3>1, <3>2 DEF TypeInv, TypeOK
    <3>4. QED
      BY <1>0, <1>3, <2>1, <3>1, <3>3, SendingType DEF TypeInv, TypeOK, WorkerGet
  <2>3. CASE ~(suspended[n] /\ ~IsControl(m))
    <3>1. /\ held' = [held EXCEPT ![t] = m]
          /\ pc' = [pc EXCEPT ![t] = "store"]
          /\ UNCHANGED <<todo, relayed>>
      BY <1>3, <2>3 DEF WorkerGet, Goto
    <3>2. QED
      BY <1>0, <1>3, <2>1, <3>1 DEF TypeInv, TypeOK, Hands, WorkerGet, Labels
  <2>4. QED BY <2>2, <2>3
<1>4. ASSUME WorkerStore(t) PROVE TypeInv'
  <2>1. held[t] \in Messages
    BY <1>0, <1>4 DEF TypeInv, Hands, WorkerStore
  <2>2. outq' \in [Nodes -> Seq(Messages)]
    BY <1>0, <1>4, <2>1, AppendType DEF TypeInv, TypeOK, WorkerStore
  <2>3. QED
    BY <1>0, <1>4, <2>1, <2>2
    DEF TypeInv, TypeOK, WorkerStore, Hands, Goto, Labels
<1> QED
  BY <1>0, <1>1, <1>2, <1>3, <1>4, PutType DEF Worker

LEMMA UpdateType ==
  ASSUME NodeAssumption, TypeInv, NEW t \in Daemons, t[2] = "update",
         Update(t), UNCHANGED <<pstatus, cur, signals>>
  PROVE  TypeInv'
<1>0. t \in Threads /\ t[1] \in Nodes
  BY ThreadFacts
<1>1. ASSUME LoopTop(t) PROVE TypeInv'
  BY <1>0, <1>1 DEF TypeInv, TypeOK, Hands, LoopTop, Goto, Labels
<1>2. ASSUME GetEmpty(t) PROVE TypeInv'
  BY <1>0, <1>2 DEF TypeInv, TypeOK, Hands, GetEmpty, Goto, Labels
<1>3. ASSUME UpdateGetControl(t) PROVE TypeInv'
  <2>1. outq' \in [Nodes -> Seq(Messages)] /\ Head(outq[t[1]]) \in Messages
    BY <1>0, <1>3, TailType DEF TypeInv, TypeOK, UpdateGetControl
  <2>2. PICK c \in Controls :
          /\ held' = [held EXCEPT ![c] = Head(outq[t[1]])]
          /\ pc' = [pc EXCEPT ![c] = "ctl",
                              ![t] = IF Head(outq[t[1]]).kind \in Negative
                                     THEN "dead" ELSE "top"]
    BY <1>3 DEF UpdateGetControl
  <2>3. /\ c \in Threads /\ c # t /\ c[2] = "control"
    BY ThreadFacts
  <2>4. /\ pc' \in [Threads -> Labels]
        /\ held' \in [Threads -> Messages \cup {NoMsg}]
    BY <1>0, <2>1, <2>2, <2>3 DEF TypeInv, TypeOK, Labels
  <2>5. \A x \in Threads : Hands(x)'
    BY <1>0, <1>3, <2>1, <2>2, <2>3
    DEF TypeInv, TypeOK, Hands, UpdateGetControl
  <2>6. QED
    BY <1>3, <2>1, <2>4, <2>5 DEF TypeInv, TypeOK, UpdateGetControl
<1>4. ASSUME UpdateGetData(t) PROVE TypeInv'
  <2>1. outq' \in [Nodes -> Seq(Messages)] /\ Head(outq[t[1]]) \in Messages
    BY <1>0, <1>4, TailType DEF TypeInv, TypeOK, UpdateGetData
  <2>2. Head(outq[t[1]]) \in DataMessages
    BY <1>4, <2>1 DEF UpdateGetData, Messages, IsControl
  <2>3. QED
    BY <1>0, <1>4, <2>1, <2>2
    DEF TypeInv, TypeOK, Hands, UpdateGetData, Goto, Labels
<1>5. ASSUME UpdateCall(t) \/ UpdateRaise(t) PROVE TypeInv'
  <2>1. held[t] \in DataMessages /\ pc[t] = "got"
    BY <1>0, <1>5 DEF TypeInv, Hands, UpdateCall, UpdateRaise
  <2>2. /\ held[t].id \in Ids /\ held[t] \in Messages
        /\ Dest[t[1]] \in Seq(Nodes)
    BY <1>0, <2>1 DEF DataMessages, Messages, NodeAssumption
  <2>3. received' \in [Nodes -> Seq(Ids)] /\ pending' \in [Nodes -> Int]
    <3>1. received \in [Nodes -> Seq(Ids)] /\ pending \in [Nodes -> Int]
      BY DEF TypeInv, TypeOK
    <3>2. /\ received' = [received EXCEPT ![t[1]] = Append(@, held[t].id)]
          /\ pending' = [pending EXCEPT ![t[1]] = @ + 1]
      BY <1>5 DEF UpdateCall, UpdateRaise
    <3>3. QED BY <1>0, <2>2, <3>1, <3>2, AppendType
  <2>4. CASE UpdateCall(t)
    BY <1>0, <2>1, <2>2, <2>3, <2>4, SendingType DEF TypeInv, TypeOK, UpdateCall
  <2>5. CASE UpdateRaise(t)
    BY <1>0, <2>3, <2>5
    DEF TypeInv, TypeOK, Hands, UpdateRaise, Goto, Labels
  <2>6. QED BY <1>5, <2>4, <2>5
<1>6. ASSUME UpdateFinally(t) PROVE TypeInv'
  <2>1. pending \in [Nodes -> Int] /\ pending' = [pending EXCEPT ![t[1]] = @ - 1]
    BY <1>6 DEF TypeInv, TypeOK, UpdateFinally
  <2>2. pending' \in [Nodes -> Int]
    BY <1>0, <2>1
  <2>3. QED
    BY <1>0, <1>6, <2>2 DEF TypeInv, TypeOK, Hands, UpdateFinally, Goto, Labels
<1> QED
  BY <1>0, <1>1, <1>2, <1>3, <1>4, <1>5, <1>6, PutType DEF Update

LEMMA SourceType ==
  ASSUME NodeAssumption, TypeInv, NEW t \in Daemons, t[2] = "source",
         Source(t), UNCHANGED <<pstatus, cur, signals>>
  PROVE  TypeInv'
<1>0. t \in Threads /\ t[1] \in Nodes
  BY ThreadFacts
<1>1. ASSUME LoopTop(t) PROVE TypeInv'
  BY <1>0, <1>1 DEF TypeInv, TypeOK, Hands, LoopTop, Goto, Labels
<1>2. ASSUME SourceCall(t) PROVE TypeInv'
  <2>1. t[1] \in Sources
    BY <1>0, <1>2 DEF TypeInv, Hands, SourceCall
  <2>2. produced' \in [Nodes -> 0..(MaxData + 1)] /\ produced'[t[1]] \in 1..MaxData
    <3>1. /\ produced \in [Nodes -> 0..(MaxData + 1)]
          /\ produced[t[1]] < MaxData /\ MaxData \in Nat
          /\ produced' = [produced EXCEPT ![t[1]] = @ + 1]
      BY <1>2 DEF TypeInv, TypeOK, SourceCall, NodeAssumption
    <3>2. QED BY <1>0, <3>1
  <2>3. Data(<<t[1], produced'[t[1]]>>) \in DataMessages
    BY <2>1, <2>2 DEF Data, DataMessages, Ids
  <2>4. QED
    BY <1>0, <1>2, <2>2, <2>3
    DEF TypeInv, TypeOK, Hands, SourceCall, Goto, Labels, Messages
<1>3. ASSUME SourceCallEnd(t) PROVE TypeInv'
  <2>1. PICK sig \in SourceEnd : Sending(t, Control(sig), <<t[1]>>)
    BY <1>3 DEF SourceCallEnd
  <2>2. Control(sig) \in Messages /\ <<t[1]>> \in Seq(Nodes)
    BY <1>0 DEF NodeAssumption, Negative, Control, Messages, Signals
  <2>3. /\ produced' \in [Nodes -> 0..(MaxData + 1)]
        /\ stopEvt' \in [Nodes -> [Roles -> BOOLEAN]]
    <3>1. /\ produced \in [Nodes -> 0..(MaxData + 1)]
          /\ produced[t[1]] = MaxData /\ MaxData \in Nat
          /\ produced' = [produced EXCEPT ![t[1]] = @ + 1]
      BY <1>3 DEF TypeInv, TypeOK, SourceCallEnd, NodeAssumption
    <3>2. /\ stopEvt \in [Nodes -> [Roles -> BOOLEAN]]
          /\ stopEvt' = [stopEvt EXCEPT ![t[1]]["source"] = TRUE]
      BY <1>3 DEF TypeInv, TypeOK, SourceCallEnd
    <3>3. QED BY <1>0, <3>1, <3>2 DEF Roles
  <2>4. QED
    BY <1>0, <1>3, <2>1, <2>2, <2>3, SendingType
    DEF TypeInv, TypeOK, SourceCallEnd
<1>4. ASSUME SourceCallLate(t) PROVE TypeInv'
  BY <1>0, <1>4 DEF TypeInv, TypeOK, Hands, SourceCallLate, Goto, Labels
<1>5. ASSUME SourceEmit(t) PROVE TypeInv'
  <2>1. held[t] \in Messages /\ <<t[1]>> \in Seq(Nodes)
    BY <1>0, <1>5 DEF TypeInv, Hands, SourceEmit, Messages
  <2>2. CASE stopEvt[t[1]]["source"]
    <3>1. /\ pc' = [pc EXCEPT ![t] = "dead"]
          /\ held' = [held EXCEPT ![t] = NoMsg] /\ UNCHANGED todo
      BY <1>5, <2>2 DEF SourceEmit, Goto
    <3>2. QED
      BY <1>0, <1>5, <3>1 DEF TypeInv, TypeOK, Hands, SourceEmit, Labels
  <2>3. CASE ~stopEvt[t[1]]["source"]
    BY <1>0, <1>5, <2>1, <2>3, SendingType DEF TypeInv, TypeOK, SourceEmit
  <2>4. QED BY <2>2, <2>3
<1> QED
  BY <1>0, <1>1, <1>2, <1>3, <1>4, <1>5, PutType DEF Source

\* A START handled by a control thread and start() of the pipeline both make
\* threads; x is the thread that does it and goes on at the label l.
LEMMA StartType ==
  ASSUME NodeAssumption, TypeInv, NEW n \in Nodes, NodeStart(n)
  PROVE  /\ draining' \in [Nodes -> BOOLEAN]
         /\ stopEvt' \in [Nodes -> [Roles -> BOOLEAN]]
         /\ status' \in [Nodes -> {"CONFIGURED", "RUNNING", "STOPPED"}]
         /\ handle' \in [Nodes -> 0..MaxGen]
         /\ gen' \in [Nodes -> 0..MaxGen]
         /\ \A x \in Spawned(n) : x \in Daemons
                                 /\ (x[2] = "source" => x[1] \in Sources)
<1>1. /\ gen \in [Nodes -> 0..MaxGen] /\ handle \in [Nodes -> 0..MaxGen]
      /\ status \in [Nodes -> {"CONFIGURED", "RUNNING", "STOPPED"}]
      /\ draining \in [Nodes -> BOOLEAN]
      /\ stopEvt \in [Nodes -> [Roles -> BOOLEAN]]
  BY DEF TypeInv, TypeOK
<1>2. MaxGen \in Nat
  BY DEF NodeAssumption
<1>3. CASE handle[n] = 0
  <2>1. gen' \in [Nodes -> 0..MaxGen] /\ handle' \in [Nodes -> 0..MaxGen]
    <3>1. /\ gen[n] < MaxGen /\ gen' = [gen EXCEPT ![n] = @ + 1]
          /\ handle' = [handle EXCEPT ![n] = gen[n] + 1]
      BY <1>3 DEF NodeStart, MakeThreads
    <3>2. gen[n] + 1 \in 0..MaxGen
      BY <1>1, <1>2, <3>1
    <3>3. QED BY <1>1, <3>1, <3>2
  <2>2. QED
    BY <1>1, <1>3, <2>1 DEF NodeStart, MakeThreads, Spawned, ThreadsOf, RolesOf
<1>4. CASE handle[n] # 0
  BY <1>1, <1>4 DEF NodeStart, MakeThreads, Spawned
<1> QED BY <1>3, <1>4

LEMMA JoinType ==
  ASSUME NodeAssumption, TypeInv, NEW t \in Threads, NEW n \in Nodes,
         JoinPending(t, n) \/ JoinList(t, n),
         UNCHANGED <<pstatus, cur, signals>>
  PROVE  TypeInv'
<1>1. CASE JoinPending(t, n)
  BY <1>1 DEF TypeInv, TypeOK, Hands, JoinPending, Goto, Labels
<1>2. CASE JoinList(t, n)
  <2>1. waits' \in [Threads -> SUBSET Daemons]
    BY <1>2 DEF TypeInv, TypeOK, JoinList, ThreadsOf
  <2>2. QED
    BY <1>2, <2>1 DEF TypeInv, TypeOK, Hands, JoinList, Goto, Labels
<1> QED BY <1>1, <1>2

LEMMA ControlType ==
  ASSUME NodeAssumption, TypeInv, NEW t \in Controls, ControlThread(t),
         UNCHANGED <<pstatus, cur, signals>>
  PROVE  TypeInv'
<1>0. t \in Threads /\ t[1] \in Nodes /\ t[2] = "control"
  BY ThreadFacts
<1>a. ASSUME pc[t] = "ctl" \/ pc[t] = "join", AfterStop(t)
      PROVE  /\ todo' \in [Threads -> Seq(Nodes)]
             /\ held' \in [Threads -> Messages \cup {NoMsg}]
             /\ pc' \in [Threads -> Labels]
             /\ \A x \in Threads : Hands(x)'
  <2>1. held[t] \in Messages \cup {NoMsg} /\ Dest[t[1]] \in Seq(Nodes)
    BY <1>0 DEF TypeInv, TypeOK, NodeAssumption
  <2>2. CASE held[t].kind = "STOP_PROPAGATE"
    <3>1. Sending(t, held[t], Dest[t[1]]) /\ held[t] \in Messages
      BY <1>a, <2>1, <2>2 DEF AfterStop, NoMsg
    <3>2. QED BY <1>0, <1>a, <2>1, <3>1, SendingType
  <2>3. CASE held[t].kind # "STOP_PROPAGATE"
    <3>1. Sending(t, NoMsg, <<>>) /\ <<>> \in Seq(Nodes)
      BY <1>a, <2>3 DEF AfterStop
    <3>2. QED BY <1>0, <1>a, <3>1, SendingType
  <2>4. QED BY <2>2, <2>3
<1>1. ASSUME ControlSuspend(t) PROVE TypeInv'
  BY <1>0, <1>1 DEF TypeInv, TypeOK, Hands, ControlSuspend, Goto, Labels
<1>2. ASSUME ControlStart(t) PROVE TypeInv'
  <2>1. /\ NodeStart(t[1])
        /\ held' = [held EXCEPT ![t] = NoMsg]
        /\ pc' = [x \in Threads |-> IF x \in Spawned(t[1]) THEN "top"
                                    ELSE IF x = t THEN "none" ELSE pc[x]]
    BY <1>2 DEF ControlStart
  <2>2. /\ pc' \in [Threads -> Labels]
        /\ held' \in [Threads -> Messages \cup {NoMsg}]
    BY <1>0, <2>1 DEF TypeInv, TypeOK, Labels
  <2>3. \A x \in Threads : Hands(x)'
    BY <1>0, <1>2, <2>1, StartType DEF TypeInv, TypeOK, Hands, ControlStart
  <2>4. QED
    BY <1>0, <1>2, <2>1, <2>2, <2>3, StartType DEF TypeInv, TypeOK, ControlStart
<1>3. ASSUME ControlStop(t) PROVE TypeInv'
  <2>1. CASE status[t[1]] = "STOPPED"
    BY <1>3, <2>1, <1>a DEF TypeInv, TypeOK, ControlStop
  <2>2. CASE status[t[1]] # "STOPPED"
    <3>1. /\ draining' \in [Nodes -> BOOLEAN]
          /\ stopEvt' \in [Nodes -> [Roles -> BOOLEAN]]
          /\ pc' = [pc EXCEPT ![t] = "pend"] /\ UNCHANGED <<held, todo>>
      <4>1. draining \in [Nodes -> BOOLEAN] /\ stopEvt \in [Nodes -> [Roles -> BOOLEAN]]
        BY DEF TypeInv, TypeOK
      <4>2. /\ draining' = [draining EXCEPT ![t[1]] = TRUE]
            /\ stopEvt' = [stopEvt EXCEPT ![t[1]] = [r \in Roles |-> TRUE]]
            /\ pc' = [pc EXCEPT ![t] = "pend"] /\ UNCHANGED <<held, todo>>
        BY <1>3, <2>2 DEF ControlStop, Goto
      <4>3. QED BY <1>0, <4>1, <4>2
    <3>2. QED
      BY <1>0, <1>3, <3>1 DEF TypeInv, TypeOK, Hands, ControlStop, Labels
  <2>3. QED BY <2>1, <2>2
<1>4. ASSUME ControlStopEnd(t) PROVE TypeInv'
  <2>1. /\ waits' \in [Threads -> SUBSET Daemons]
        /\ handle' \in [Nodes -> 0..MaxGen]
        /\ status' \in [Nodes -> {"CONFIGURED", "RUNNING", "STOPPED"}]
    <3>1. /\ waits' = [waits EXCEPT ![t] = {}]
          /\ handle' = [handle EXCEPT ![t[1]] = 0]
          /\ status' = [status EXCEPT ![t[1]] = "STOPPED"]
      BY <1>4 DEF ControlStopEnd, Joined
    <3>2. /\ waits \in [Threads -> SUBSET Daemons]
          /\ handle \in [Nodes -> 0..MaxGen] /\ 0 \in 0..MaxGen
          /\ status \in [Nodes -> {"CONFIGURED", "RUNNING", "STOPPED"}]
      BY DEF TypeInv, TypeOK, NodeAssumption
    <3>3. QED BY <3>1, <3>2
  <2>2. QED
    BY <1>0, <1>4, <1>a, <2>1 DEF TypeInv, TypeOK, ControlStopEnd, Joined
<1> QED
  BY <1>0, <1>1, <1>2, <1>3, <1>4, PutType, JoinType DEF ControlThread

LEMMA ThreadStepType ==
  ASSUME NodeAssumption, TypeInv, NEW t \in Daemons \cup Controls,
         ThreadStep(t)
  PROVE  TypeInv'
<1>1. CASE t \in Daemons /\ DaemonStep(t)
  BY <1>1, WorkerType, UpdateType, SourceType DEF ThreadStep, DaemonStep
<1>2. CASE t \in Controls /\ ControlThread(t)
  BY <1>2, ControlType DEF ThreadStep
<1> QED
  BY <1>1, <1>2 DEF ThreadStep, NodeStep

\* The loop positions of start() and stop() stay within the layers.
LEMMA HereType ==
  ASSUME PipelineAssumption, TypeInv
  PROVE  Here \in Nodes
<1>1. /\ cur.lay \in 1..Len(Layers) /\ cur.pos \in Nat \ {0}
      /\ cur.pos <= Len(Layers[cur.lay])
  BY DEF TypeInv, TypeOK
<1>2. Layers[cur.lay] \in Seq(Nodes)
  BY <1>1 DEF PipelineAssumption
<1>3. cur.pos \in 1..Len(Layers[cur.lay])
  BY <1>1, <1>2
<1> QED
  BY <1>2, <1>3 DEF Here

CurOK(c) ==
  /\ c \in [op : {"none", "start", "put", "join"}, lay : 1..Len(Layers),
            pos : Nat \ {0}]
  /\ c.pos <= Len(Layers[c.lay])

LEMMA AtType ==
  ASSUME PipelineAssumption, NEW o \in {"none", "start", "put", "join"},
         NEW l \in 1..Len(Layers)
  PROVE  CurOK(At(o, l, 1))
<1>1. Layers[l] \in Seq(Nodes) /\ Layers[l] # <<>>
  BY DEF PipelineAssumption
<1>2. 1 <= Len(Layers[l])
  BY <1>1
<1> QED
  BY <1>2 DEF CurOK, At

LEMMA FollowingType ==
  ASSUME PipelineAssumption, NEW c, CurOK(c)
  PROVE  CurOK(Following(c))
<1>1. /\ Len(Layers) \in Nat \ {0} /\ c.lay \in 1..Len(Layers)
      /\ Len(Layers[c.lay]) \in Nat
  BY DEF PipelineAssumption, CurOK
<1>2. CASE c.pos < Len(Layers[c.lay])
  <2>1. Following(c) = [c EXCEPT !.pos = c.pos + 1] /\ c.pos \in Nat \ {0}
    BY <1>2 DEF Following, CurOK
  <2>2. /\ c.pos + 1 \in Nat \ {0} /\ c.pos + 1 <= Len(Layers[c.lay])
    BY <1>1, <1>2, <2>1
  <2>3. QED BY <2>1, <2>2 DEF CurOK
<1>3. CASE ~(c.pos < Len(Layers[c.lay]))
  <2>1. Following(c) = NextLoop(c)
    BY <1>3 DEF Following
  <2>2. CASE c.op = "put"
    BY <1>1, <2>1, <2>2, AtType DEF NextLoop
  <2>3. CASE c.op = "join" /\ c.lay < Len(Layers)
    BY <1>1, <2>1, <2>3, AtType DEF NextLoop
  <2>4. CASE c.op = "start" /\ c.lay > 1
    BY <1>1, <2>1, <2>4, AtType DEF NextLoop
  <2>5. CASE /\ c.op # "put" /\ ~(c.op = "join" /\ c.lay < Len(Layers))
             /\ ~(c.op = "start" /\ c.lay > 1)
    BY <1>1, <2>1, <2>5, AtType DEF NextLoop, NoCall
  <2>6. QED BY <2>2, <2>3, <2>4, <2>5
<1> QED BY <1>2, <1>3

LEMMA CallType ==
  ASSUME NodeAssumption, PipelineAssumption, TypeInv, UserCall \/ InCall
  PROVE  TypeInv'
<1>0. User \in Threads /\ Here \in Nodes /\ User[2] = "user" /\ CurOK(cur)
  BY ThreadFacts, HereType DEF User, TypeInv, TypeOK, CurOK
<1>1. CurOK(Following(cur)) /\ Len(Layers) \in 1..Len(Layers)
      /\ 1 \in 1..Len(Layers)
  BY <1>0, FollowingType DEF PipelineAssumption
<1>2. CASE Start
  <2>1. CurOK(cur')
    BY <1>1, <1>2, AtType DEF Start
  <2>2. QED BY <1>2, <2>1 DEF TypeInv, TypeOK, Hands, Start, nodeVars, CurOK
<1>3. CASE Stop
  <2>1. CurOK(cur')
    BY <1>1, <1>3, AtType DEF Stop
  <2>2. QED BY <1>3, <2>1 DEF TypeInv, TypeOK, Hands, Stop, nodeVars, CurOK
<1>4. ASSUME NEW n \in Nodes, NEW sig \in UserSignals, Signal(n, sig)
      PROVE  TypeInv'
  <2>1. /\ Control(sig) \in Messages /\ <<n>> \in Seq(Nodes)
    BY DEF PipelineAssumption, Control, Messages, Signals
  <2>2. signals' \in 0..MaxSignals
    BY <1>4 DEF TypeInv, TypeOK, Signal, PipelineAssumption
  <2>3. QED
    BY <1>0, <1>4, <2>1, <2>2, SendingType
    DEF TypeInv, TypeOK, Signal, Driving
<1>5. CASE StartNode
  <2>1. /\ NodeStart(Here) /\ cur' = Following(cur)
        /\ pc' = [t \in Threads |-> IF t \in Spawned(Here) THEN "top"
                                    ELSE pc[t]]
    BY <1>5 DEF StartNode
  <2>2. pc' \in [Threads -> Labels]
    BY <2>1 DEF TypeInv, TypeOK, Labels
  <2>3. \A x \in Threads : Hands(x)'
    BY <1>0, <1>5, <2>1, StartType DEF TypeInv, TypeOK, Hands, StartNode
  <2>4. QED
    BY <1>0, <1>1, <1>5, <2>1, <2>2, <2>3, StartType
    DEF TypeInv, TypeOK, StartNode, CurOK
<1>6. CASE StopPut
  <2>1. /\ Control("STOP") \in Messages /\ <<Here>> \in Seq(Nodes)
        /\ cur' = Following(cur)
    BY <1>0, <1>6 DEF Control, Messages, Signals, StopPut
  <2>2. QED
    BY <1>0, <1>1, <1>6, <2>1, SendingType
    DEF TypeInv, TypeOK, StopPut, CurOK, Driving
<1>7. CASE StopJoin
  <2>1. pc' = [pc EXCEPT ![User] = "pend"] /\ pc' \in [Threads -> Labels]
    BY <1>0, <1>7 DEF TypeInv, TypeOK, StopJoin, Goto, Labels
  <2>2. \A x \in Threads : Hands(x)'
    BY <1>0, <1>7, <2>1 DEF TypeInv, TypeOK, Hands, StopJoin
  <2>3. QED
    BY <1>7, <2>1, <2>2 DEF TypeInv, TypeOK, StopJoin
<1>8. CASE StopJoined
  <2>1. waits' \in [Threads -> SUBSET Daemons] /\ cur' = Following(cur)
    BY <1>0, <1>8 DEF TypeInv, TypeOK, StopJoined, Joined
  <2>2. QED
    BY <1>0, <1>1, <1>8, <2>1
    DEF TypeInv, TypeOK, Hands, StopJoined, Goto, Labels, CurOK, User
<1> QED
  BY <1>0, <1>2, <1>3, <1>4, <1>5, <1>6, <1>7, <1>8, PutType, JoinType
  DEF UserCall, InCall

LEMMA NextType ==
  ASSUME NodeAssumption, PipelineAssumption, TypeInv, [Next]_vars
  PROVE  TypeInv'
<1>1. CASE UNCHANGED vars
  BY <1>1 DEF TypeInv, TypeOK, Hands, vars
<1>2. CASE Next
  BY <1>2, CallType, ThreadStepType DEF Next
<1> QED BY <1>1, <1>2

\* Every variable keeps its type, whatever the graph of nodes, the queue size
\* and the number of threads (Node, Pipeline).
THEOREM TypeCorrect == Spec => []TypeOK
<1> USE NodeAssumption, PipelineAssumption
<1>1. Init => TypeInv
  BY InitType
<1>2. TypeInv /\ [Next]_vars => TypeInv'
  BY NextType
<1>3. TypeInv => TypeOK
  BY DEF TypeInv
<1> QED
  BY <1>1, <1>2, <1>3, PTL DEF Spec

-----------------------------------------------------------------------------
(***************************************************************************)
(* That no message goes through a node twice. OnceInv is the inductive     *)
(* invariant: on its way to a node a message is in one place at a time, a  *)
(* thread's hands or one of the node's queues, until it has gone through,  *)
(* and it sets out only when it has gone through a predecessor or a source *)
(* function has returned it.                                               *)
(***************************************************************************)

\* from[n] is the set of sources whose data may come to n: one way from each,
\* and _destinations, a dictionary, has no node twice.
OneWay(from) ==
  /\ from \in [Nodes -> SUBSET Sources]
  /\ \A n \in Sources : n \in from[n]
  /\ \A n \in Nodes : \A d \in Destinations(n) :
       /\ from[n] \subseteq from[d]
       /\ d \notin from[n]
       /\ \A m \in Nodes \ {n} : d \in Destinations(m) => from[m] \cap from[n] = {}
  /\ \A n \in Nodes : \A i, j \in 1..Len(Dest[n]) : Dest[n][i] = Dest[n][j] => i = j

In(q, v) == \E i \in 1..Len(q) : q[i] = v
OnlyOnce(q, v) == \A i, j \in 1..Len(q) : q[i] = v /\ q[j] = v => i = j

\* A thread has x in its hands, for the node n.
Carries(u, n, x) ==
  /\ held[u] = Data(x)
  /\ \/ pc[u] \in {"put", "enq"} /\ In(todo[u], n)
     \/ pc[u] \in {"emit", "store", "got"} /\ u[1] = n

\* Where else x may be at the node n, or have been.
Stores == {"queue", "outq", "received", "relayed"}
Kept(s, n, x) ==
  \/ s = "queue" /\ In(queue[n], Data(x))
  \/ s = "outq" /\ In(outq[n], Data(x))
  \/ s = "received" /\ In(received[n], x)
  \/ s = "relayed" /\ x \in relayed[n]

OnePlace(n, x) ==
  /\ \A u, v \in Threads : Carries(u, n, x) /\ Carries(v, n, x) => u = v
  /\ \A r, s \in Stores : Kept(r, n, x) /\ Kept(s, n, x) => r = s
  /\ \A u \in Threads, s \in Stores : ~(Carries(u, n, x) /\ Kept(s, n, x))

Unrepeated(n, x) ==
  /\ OnlyOnce(queue[n], Data(x))
  /\ OnlyOnce(outq[n], Data(x))
  /\ OnlyOnce(received[n], x)

Present(n, x) ==
  (\E u \in Threads : Carries(u, n, x)) \/ (\E s \in Stores : Kept(s, n, x))

SetOut(n, x) ==
  \/ x[1] = n /\ x[2] <= produced[n]
  \/ \E p \in Nodes : n \in Destinations(p) /\ x \in Through(p)

OnceAt(n, x, from) ==
  /\ OnePlace(n, x) /\ Unrepeated(n, x)
  /\ Present(n, x) => x[1] \in from[n] /\ SetOut(n, x)

OnceInv(from) ==
  /\ \A n \in Nodes, x \in Ids : OnceAt(n, x, from)
  /\ \A u \in Threads, n \in Nodes : OnlyOnce(todo[u], n)

\* A value appended to a queue, or taken from its head.
LEMMA OnceAppend ==
  ASSUME NEW S, NEW q \in Seq(S), NEW m \in S, NEW v
  PROVE  /\ In(Append(q, m), v) <=> In(q, v) \/ m = v
         /\ OnlyOnce(q, v) /\ (m = v => ~In(q, v)) => OnlyOnce(Append(q, m), v)
<1> DEFINE r == Append(q, m)
<1>1. /\ Len(r) = Len(q) + 1 /\ Len(q) \in Nat
      /\ \A i \in 1..Len(q) : r[i] = q[i]
      /\ r[Len(q) + 1] = m
  OBVIOUS
<1> HIDE DEF r
<1>2. 1..Len(r) = (1..Len(q)) \cup {Len(q) + 1}
  BY <1>1
<1>3. In(r, v) <=> In(q, v) \/ m = v
  BY <1>1, <1>2 DEF In
<1>4. OnlyOnce(q, v) /\ (m = v => ~In(q, v)) => OnlyOnce(r, v)
  BY <1>1, <1>2 DEF In, OnlyOnce
<1> QED BY <1>3, <1>4 DEF r

LEMMA OnceTail ==
  ASSUME NEW S, NEW q \in Seq(S), q # <<>>, NEW v
  PROVE  /\ In(q, v) <=> Head(q) = v \/ In(Tail(q), v)
         /\ OnlyOnce(q, v) => /\ OnlyOnce(Tail(q), v)
                              /\ Head(q) = v => ~In(Tail(q), v)
<1> DEFINE r == Tail(q)
           h == Head(q)
<1>1. /\ Len(q) \in Nat /\ Len(q) > 0 /\ Len(r) = Len(q) - 1
      /\ \A i \in 1..Len(r) : r[i] = q[i + 1]
      /\ h = q[1]
  OBVIOUS
<1> HIDE DEF r, h
<1>2. \A i \in 1..Len(r) : i + 1 \in 1..Len(q) /\ i + 1 # 1
  BY <1>1
<1>3. \A i \in 1..Len(q) : i = 1 \/ (i - 1 \in 1..Len(r) /\ r[i - 1] = q[i])
  BY <1>1
<1>4. 1 \in 1..Len(q)
  BY <1>1
<1>5. In(q, v) <=> h = v \/ In(r, v)
  BY <1>1, <1>2, <1>3, <1>4 DEF In
<1>6. ASSUME OnlyOnce(q, v) PROVE OnlyOnce(r, v)
  <2> SUFFICES ASSUME NEW i \in 1..Len(r), NEW j \in 1..Len(r), r[i] = v, r[j] = v
               PROVE  i = j
    BY DEF OnlyOnce
  <2>1. i + 1 = j + 1
    BY <1>1, <1>2, <1>6 DEF OnlyOnce
  <2> QED BY <2>1
<1>7. ASSUME OnlyOnce(q, v), h = v PROVE ~In(r, v)
  BY <1>1, <1>2, <1>4, <1>7 DEF OnlyOnce, In
<1> QED BY <1>5, <1>6, <1>7 DEF r, h

LEMMA InThrough ==
  ASSUME NEW n \in Nodes, NEW x
  PROVE  x \in Through(n) <=> Kept("received", n, x) \/ Kept("relayed", n, x)
  BY DEF Through, IdsIn, In, Kept

\* A step after which x is nowhere on the way to n where it was not before.
Nowhere(n, x) ==
  /\ \A u \in Threads : Carries(u, n, x)' => Carries(u, n, x)
  /\ \A s \in Stores : Kept(s, n, x)' => Kept(s, n, x)

\* What has gone through remains so.
Gone ==
  /\ \A n \in Nodes : /\ Through(n) \subseteq Through(n)'
                      /\ produced[n] <= produced'[n]

LEMMA SetOutStays ==
  ASSUME NodeAssumption, TypeInv, TypeOK', Gone, NEW n \in Nodes, NEW x \in Ids,
         SetOut(n, x)
  PROVE  SetOut(n, x)'
<1>1. CASE x[1] = n /\ x[2] <= produced[n]
  <2>1. /\ x[2] \in Nat /\ produced[n] \in Nat /\ produced'[n] \in Nat
    BY DEF TypeInv, TypeOK, Ids, NodeAssumption
  <2>2. produced[n] <= produced'[n]
    BY DEF Gone
  <2>3. x[2] <= produced'[n]
    BY <1>1, <2>1, <2>2
  <2> QED BY <1>1, <2>3 DEF SetOut
<1>2. CASE \E p \in Nodes : n \in Destinations(p) /\ x \in Through(p)
  BY <1>2 DEF Gone, SetOut, Destinations
<1> QED BY <1>1, <1>2 DEF SetOut

LEMMA NowhereOnce ==
  ASSUME NodeAssumption, TypeInv, TypeOK', Gone, NEW from,
         NEW n \in Nodes, NEW x \in Ids,
         OnceAt(n, x, from), Nowhere(n, x), Unrepeated(n, x)'
  PROVE  OnceAt(n, x, from)'
<1>1. OnePlace(n, x)'
  BY DEF OnceAt, OnePlace, Nowhere
<1>2. Present(n, x)' => Present(n, x)
  BY DEF Present, Nowhere
<1> QED BY <1>1, <1>2, SetOutStays DEF OnceAt

\* A step that moves x, from the hands of t to a store or the other way, or
\* from one store to another.
Moves(t, n, x) ==
  /\ \A u \in Threads \ {t} : Carries(u, n, x)' => Carries(u, n, x)
  /\ \/ /\ Carries(t, n, x) /\ ~Carries(t, n, x)'
        /\ \E s \in Stores : \A r \in Stores \ {s} : Kept(r, n, x)' => Kept(r, n, x)
     \/ \E s \in Stores : /\ Kept(s, n, x) /\ ~Kept(s, n, x)'
                          /\ \A r \in Stores \ {s} : Kept(r, n, x)' => Kept(r, n, x)
     \/ \E s, w \in Stores : /\ Kept(s, n, x) /\ ~Kept(s, n, x)' /\ ~Carries(t, n, x)'
                             /\ \A r \in Stores \ {s, w} : Kept(r, n, x)' => Kept(r, n, x)

LEMMA MovesOnce ==
  ASSUME NodeAssumption, TypeInv, TypeOK', Gone, NEW from,
         NEW n \in Nodes, NEW x \in Ids, NEW t \in Threads,
         OnceAt(n, x, from), Moves(t, n, x), Unrepeated(n, x)'
  PROVE  OnceAt(n, x, from)'
<1>0. OnePlace(n, x)
  BY DEF OnceAt
<1>1. ASSUME /\ Carries(t, n, x) /\ ~Carries(t, n, x)'
           /\ \E s \in Stores : \A r \in Stores \ {s} : Kept(r, n, x)' => Kept(r, n, x)
      PROVE OnePlace(n, x)'
  <2>1. /\ \A r \in Stores : ~Kept(r, n, x)
        /\ \A u \in Threads : ~Carries(u, n, x)'
    BY <1>0, <1>1 DEF OnePlace, Moves
  <2> QED BY <1>1, <2>1 DEF OnePlace
<1>2. ASSUME \E s \in Stores :
             /\ Kept(s, n, x) /\ ~Kept(s, n, x)'
             /\ \A r \in Stores \ {s} : Kept(r, n, x)' => Kept(r, n, x)
      PROVE OnePlace(n, x)'
  <2>1. /\ \A r \in Stores : ~Kept(r, n, x)'
        /\ \A u \in Threads \ {t} : ~Carries(u, n, x)'
    BY <1>0, <1>2 DEF OnePlace, Moves
  <2> QED BY <2>1 DEF OnePlace
<1>3. ASSUME \E s, w \in Stores :
             /\ Kept(s, n, x) /\ ~Kept(s, n, x)' /\ ~Carries(t, n, x)'
             /\ \A r \in Stores \ {s, w} : Kept(r, n, x)' => Kept(r, n, x)
      PROVE OnePlace(n, x)'
  <2>1. PICK s \in Stores, w \in Stores :
             /\ Kept(s, n, x) /\ ~Kept(s, n, x)' /\ ~Carries(t, n, x)'
             /\ \A r \in Stores \ {s, w} : Kept(r, n, x)' => Kept(r, n, x)
    BY <1>3
  <2>2. /\ \A r \in Stores \ {w} : ~Kept(r, n, x)'
        /\ \A u \in Threads : ~Carries(u, n, x)'
    BY <1>0, <2>1 DEF OnePlace, Moves
  <2> QED BY <2>2 DEF OnePlace
<1>4. OnePlace(n, x)'
  BY <1>1, <1>2, <1>3 DEF Moves
<1>5. Present(n, x)
  BY DEF Moves, Present
<1> QED BY <1>4, <1>5, SetOutStays DEF OnceAt

\* A step that sets x on its way to n, by the hands of t.
LEMMA SetsOutOnce ==
  ASSUME NEW from, NEW n \in Nodes, NEW x \in Ids, NEW t \in Threads,
         ~Present(n, x),
         \A u \in Threads \ {t} : Carries(u, n, x)' => Carries(u, n, x),
         \A s \in Stores : Kept(s, n, x)' => Kept(s, n, x),
         x[1] \in from[n], SetOut(n, x)', Unrepeated(n, x)'
  PROVE  OnceAt(n, x, from)'
  BY DEF Present, OnceAt, OnePlace

\* What comes to a predecessor but has not gone through it is not on its way.
LEMMA NotYetOut ==
  ASSUME NodeAssumption, NEW from, OneWay(from), OnceInv(from),
         NEW p \in Nodes, NEW n \in Destinations(p), NEW x \in Ids,
         x[1] \in from[p], x \notin Through(p)
  PROVE  n \in Nodes /\ ~Present(n, x) /\ x[1] \in from[n]
<1>1. n \in Nodes
  BY DEF Destinations, NodeAssumption
<1>2. x[1] \in from[n] /\ x[1] # n
  BY <1>1 DEF OneWay
<1>3. ASSUME Present(n, x) PROVE FALSE
  <2>1. SetOut(n, x)
    BY <1>1, <1>3 DEF OnceInv, OnceAt
  <2>2. PICK q \in Nodes : n \in Destinations(q) /\ x \in Through(q)
    BY <1>2, <2>1 DEF SetOut
  <2>3. x[1] \in from[q]
    BY <2>2, InThrough DEF OnceInv, OnceAt, Present, Stores
  <2>4. q # p
    BY <2>2
  <2> QED BY <2>2, <2>3, <2>4 DEF OneWay
<1> QED BY <1>1, <1>2, <1>3

\* The threads but t go on holding what they hold, if they hold anything.
Hand == {"put", "enq", "emit", "store", "got"}
Aside(t) ==
  \A u \in Threads \ {t} :
    /\ pc'[u] \notin Hand \/ (pc'[u] = pc[u] /\ held'[u] = held[u])
    /\ todo'[u] = todo[u]

TodoOnce == \A u \in Threads, n \in Nodes : OnlyOnce(todo[u], n)

LEMMA AsideCarries ==
  ASSUME NEW t \in Threads, Aside(t), NEW u \in Threads \ {t}, NEW n, NEW x,
         Carries(u, n, x)'
  PROVE  Carries(u, n, x)
  BY DEF Aside, Carries, Hand

LEMMA SendingCarries ==
  ASSUME NodeAssumption, TypeInv, NEW t \in Threads, NEW m, NEW ds \in Seq(Nodes),
         Sending(t, m, ds)
  PROVE  /\ Aside(t)
         /\ todo' = [todo EXCEPT ![t] = ds] /\ todo'[t] = ds
         /\ \A n, x : Carries(t, n, x)' => m = Data(x) /\ In(ds, n)
<1>1. /\ pc \in [Threads -> Labels] /\ held \in [Threads -> Messages \cup {NoMsg}]
      /\ todo \in [Threads -> Seq(Nodes)]
      /\ Resume(t) \in {"top", "finally", "none", "drive"}
  BY ResumeType DEF TypeInv, TypeOK
<1>2. /\ todo' = [todo EXCEPT ![t] = ds] /\ todo'[t] = ds
      /\ held'[t] = IF ds = <<>> THEN NoMsg ELSE m
      /\ pc'[t] = IF ds = <<>> THEN Resume(t) ELSE "put"
      /\ \A u \in Threads \ {t} : pc'[u] = pc[u] /\ held'[u] = held[u] /\ todo'[u] = todo[u]
  BY <1>1 DEF Sending, Goto
<1>3. Aside(t)
  BY <1>2 DEF Aside
<1>4. ASSUME NEW n, NEW x, Carries(t, n, x)' PROVE m = Data(x) /\ In(ds, n)
  <2>1. ds # <<>> /\ pc'[t] = "put" /\ held'[t] = m
    BY <1>1, <1>2, <1>4 DEF Carries
  <2> QED BY <1>2, <1>4, <2>1 DEF Carries
<1> QED BY <1>2, <1>3, <1>4

LEMMA SendingTodo ==
  ASSUME TypeInv, TodoOnce, NEW t \in Threads, NEW ds,
         todo' = [todo EXCEPT ![t] = ds], \A n \in Nodes : OnlyOnce(ds, n)
  PROVE  TodoOnce'
  BY DEF TypeInv, TypeOK, TodoOnce

LEMMA OnlyOnceHere ==
  ASSUME NEW k, NEW n
  PROVE  OnlyOnce(<<k>>, n) /\ OnlyOnce(<<>>, n) /\ ~In(<<>>, n) /\ (In(<<k>>, n) => n = k)
  BY DEF OnlyOnce, In

LEMMA DestOnce ==
  ASSUME NEW from, OneWay(from), NEW p \in Nodes, NEW n
  PROVE  OnlyOnce(Dest[p], n) /\ (In(Dest[p], n) <=> n \in Destinations(p))
  BY DEF OneWay, OnlyOnce, In, Destinations

\* A step that moves no data.
LEMMA StillOnce ==
  ASSUME NodeAssumption, TypeInv, TypeOK', NEW from, OnceInv(from),
         NEW t \in Threads, Aside(t), UNCHANGED <<queue, outq, received, relayed>>,
         \A n \in Nodes : produced[n] <= produced'[n],
         \A n \in Nodes, x \in Ids : Carries(t, n, x)' => Carries(t, n, x),
         TodoOnce'
  PROVE  OnceInv(from)'
<1>1. Gone
  BY DEF Gone, Through
<1>2. ASSUME NEW n \in Nodes, NEW x \in Ids PROVE OnceAt(n, x, from)'
  <2>1. OnceAt(n, x, from)
    BY DEF OnceInv
  <2>2. Nowhere(n, x)
    BY AsideCarries DEF Nowhere, Kept
  <2>3. Unrepeated(n, x)'
    BY <2>1 DEF OnceAt, Unrepeated
  <2> QED BY <1>1, <2>1, <2>2, <2>3, NowhereOnce
<1> QED BY <1>2 DEF OnceInv, TodoOnce

\* A step that changes todo of t and moves no data.
LEMMA StillSending ==
  ASSUME NodeAssumption, TypeInv, TypeOK', NEW from, OnceInv(from),
         NEW t \in Threads, NEW m, NEW ds \in Seq(Nodes), Sending(t, m, ds),
         UNCHANGED <<queue, outq, received, relayed>>,
         \A n \in Nodes : produced[n] <= produced'[n],
         \A n \in Nodes : OnlyOnce(ds, n),
         \A n \in Nodes, x \in Ids : m = Data(x) /\ In(ds, n) => Carries(t, n, x)
  PROVE  OnceInv(from)'
<1>1. /\ Aside(t) /\ todo' = [todo EXCEPT ![t] = ds]
      /\ \A n \in Nodes, x \in Ids : Carries(t, n, x)' => Carries(t, n, x)
  BY SendingCarries
<1>2. TodoOnce'
  BY <1>1, SendingTodo DEF OnceInv, TodoOnce
<1> QED BY <1>1, <1>2, StillOnce

LEMMA DataInjective ==
  ASSUME NEW x, NEW y, Data(x) = Data(y)
  PROVE  x = y
<1>1. Data(x).id = x /\ Data(y).id = y
  BY DEF Data
<1> QED BY <1>1

LEMMA ProducedGrows ==
  ASSUME NodeAssumption, TypeInv, produced' = produced
  PROVE  \A n \in Nodes : produced[n] <= produced'[n]
<1> SUFFICES ASSUME NEW n \in Nodes PROVE produced[n] <= produced'[n]
  OBVIOUS
<1>1. produced[n] \in Int
  BY DEF TypeInv, TypeOK, NodeAssumption
<1> QED BY <1>1

LEMMA EnqueueOnce ==
  ASSUME NodeAssumption, TypeInv, TypeOK', NEW from, OnceInv(from),
         NEW t \in Threads, Enqueue(t)
  PROVE  OnceInv(from)'
<1> DEFINE d == Head(todo[t])
           m == held[t]
           rest == Tail(todo[t])
<1>1. /\ m \in Messages /\ d \in Nodes /\ rest \in Seq(Nodes) /\ pc[t] = "enq"
      /\ todo[t] \in Seq(Nodes) /\ todo[t] # <<>>
      /\ queue \in [Nodes -> Seq(Messages)] /\ queue[d] \in Seq(Messages)
  BY PutFacts DEF Enqueue, TypeInv, TypeOK, Hands
<1>2. /\ queue' = [queue EXCEPT ![d] = Append(queue[d], m)]
      /\ Sending(t, m, rest)
      /\ UNCHANGED <<outq, received, relayed, produced>>
  BY DEF Enqueue, Served
<1>3. \A n : /\ In(todo[t], n) <=> d = n \/ In(rest, n)
             /\ OnlyOnce(todo[t], n) => OnlyOnce(rest, n) /\ (d = n => ~In(rest, n))
  BY <1>1, OnceTail
<1> HIDE DEF d, m, rest
<1>4. /\ Aside(t) /\ todo' = [todo EXCEPT ![t] = rest]
      /\ \A n, x : Carries(t, n, x)' => m = Data(x) /\ In(rest, n)
  BY <1>1, <1>2, SendingCarries
<1>5. TodoOnce'
  BY <1>3, <1>4, SendingTodo DEF OnceInv, TodoOnce
<1>6. Gone
  BY <1>2, ProducedGrows DEF Gone, Through
<1>7. /\ \A n \in Nodes \ {d} : queue'[n] = queue[n]
      /\ queue'[d] = Append(queue[d], m)
  BY <1>1, <1>2
<1>8. ASSUME NEW n \in Nodes, NEW x \in Ids PROVE OnceAt(n, x, from)'
  <2>1. OnceAt(n, x, from) /\ Unrepeated(n, x) /\ OnePlace(n, x)
    BY DEF OnceInv, OnceAt
  <2>2. \A r \in Stores \ {"queue"} : Kept(r, n, x)' <=> Kept(r, n, x)
    BY <1>2 DEF Kept
  <2>3. CASE n = d /\ m = Data(x)
    <3>1. Carries(t, n, x)
      BY <1>1, <1>3, <2>3 DEF Carries, m
    <3>2. ~Carries(t, n, x)'
      BY <1>3, <1>4, <2>3 DEF OnceInv
    <3>3. Moves(t, n, x)
      BY <2>2, <3>1, <3>2, <1>4, AsideCarries DEF Moves, Stores
    <3>4. ~In(queue[n], Data(x))
      BY <2>1, <3>1 DEF OnePlace, Stores, Kept
    <3>5. Unrepeated(n, x)'
      BY <1>1, <1>2, <1>7, <2>1, <2>3, <3>4, OnceAppend DEF Unrepeated
    <3> QED BY <1>6, <2>1, <3>3, <3>5, MovesOnce
  <2>4. CASE ~(n = d /\ m = Data(x))
    <3>1. /\ In(queue'[n], Data(x)) <=> In(queue[n], Data(x))
          /\ OnlyOnce(queue[n], Data(x)) => OnlyOnce(queue'[n], Data(x))
      <4>1. CASE n # d
        BY <1>7, <4>1
      <4>2. CASE n = d
        <5>1. /\ In(Append(queue[d], m), Data(x)) <=> In(queue[d], Data(x))
              /\ OnlyOnce(queue[d], Data(x)) => OnlyOnce(Append(queue[d], m), Data(x))
          BY <1>1, <2>4, <4>2, OnceAppend
        <5> QED BY <1>7, <4>2, <5>1
      <4> QED BY <4>1, <4>2
    <3>2. \A s \in Stores : Kept(s, n, x)' => Kept(s, n, x)
      BY <2>2, <3>1 DEF Kept
    <3>3. Carries(t, n, x)' => Carries(t, n, x)
      BY <1>1, <1>3, <1>4 DEF Carries, m
    <3>4. Nowhere(n, x)
      BY <1>4, <3>2, <3>3, AsideCarries DEF Nowhere
    <3>5. Unrepeated(n, x)'
      BY <1>2, <2>1, <3>1 DEF Unrepeated
    <3> QED BY <1>6, <2>1, <3>4, <3>5, NowhereOnce
  <2> QED BY <2>3, <2>4
<1> QED BY <1>5, <1>8 DEF OnceInv, TodoOnce

LEMMA PutOnce ==
  ASSUME NodeAssumption, TypeInv, TypeOK', NEW from, OnceInv(from),
         NEW t \in Threads, Put(t)
  PROVE  OnceInv(from)'
<1>0. \A n \in Nodes : OnlyOnce(todo[t], n)
  BY DEF OnceInv
<1>1. CASE PutDiscard(t)
  <2> DEFINE rest == Tail(todo[t])
  <2>1. /\ rest \in Seq(Nodes) /\ pc[t] = "put"
        /\ todo[t] \in Seq(Nodes) /\ todo[t] # <<>>
        /\ Sending(t, held[t], rest)
        /\ UNCHANGED <<queue, outq, received, relayed, produced>>
    BY <1>1, PutFacts DEF PutDiscard, Served, TypeInv, TypeOK, Hands
  <2>2. \A n : /\ In(rest, n) => In(todo[t], n)
               /\ OnlyOnce(todo[t], n) => OnlyOnce(rest, n)
    BY <2>1, OnceTail
  <2> HIDE DEF rest
  <2>3. \A n \in Nodes, x \in Ids : held[t] = Data(x) /\ In(rest, n) => Carries(t, n, x)
    BY <2>1, <2>2 DEF Carries
  <2> QED BY <1>0, <2>1, <2>2, <2>3, ProducedGrows, StillSending
<1>2. CASE PutAccept(t)
  <2>1. /\ pc[t] = "put" /\ pc' = [pc EXCEPT ![t] = "enq"]
        /\ UNCHANGED <<queue, outq, received, relayed, produced, held, todo>>
        /\ pc \in [Threads -> Labels]
    BY <1>2 DEF PutAccept, Goto, TypeInv, TypeOK
  <2>2. Aside(t)
    BY <2>1 DEF Aside
  <2>3. \A n \in Nodes, x \in Ids : Carries(t, n, x)' => Carries(t, n, x)
    BY <2>1 DEF Carries
  <2>4. TodoOnce'
    BY <2>1 DEF OnceInv, TodoOnce
  <2> QED BY <2>1, <2>2, <2>3, <2>4, ProducedGrows, StillOnce
<1> QED BY <1>1, <1>2, EnqueueOnce DEF Put

\* The worker takes the head of the queue, to store it or, suspended, to relay it.
LEMMA WorkerGetOnce ==
  ASSUME NodeAssumption, TypeInv, TypeOK', NEW from, OneWay(from), OnceInv(from),
         NEW t \in Daemons, WorkerGet(t)
  PROVE  OnceInv(from)'
<1> DEFINE p == t[1]
           m == Head(queue[p])
           rest == Tail(queue[p])
<1>1. /\ t \in Threads /\ p \in Nodes /\ pc[t] = "get"
      /\ queue \in [Nodes -> Seq(Messages)] /\ queue[p] \in Seq(Messages)
      /\ queue[p] # <<>> /\ m \in Messages /\ Dest[p] \in Seq(Nodes)
      /\ relayed \in [Nodes -> SUBSET Ids]
      /\ pc \in [Threads -> Labels] /\ held \in [Threads -> Messages \cup {NoMsg}]
  <2>1. t \in Threads /\ p \in Nodes /\ queue \in [Nodes -> Seq(Messages)] /\ queue[p] # <<>>
    BY ThreadFacts DEF WorkerGet, TypeInv, TypeOK
  <2> QED BY <2>1, TailType DEF WorkerGet, TypeInv, TypeOK, NodeAssumption
<1>2. /\ queue' = [queue EXCEPT ![p] = rest]
      /\ UNCHANGED <<outq, received, produced>>
  BY DEF WorkerGet
<1>3. \A v : /\ In(queue[p], v) <=> m = v \/ In(rest, v)
             /\ OnlyOnce(queue[p], v) => OnlyOnce(rest, v) /\ (m = v => ~In(rest, v))
  BY <1>1, OnceTail
<1> HIDE DEF m, rest
<1>4. /\ \A n \in Nodes \ {p} : queue'[n] = queue[n]
      /\ queue'[p] = rest
  BY <1>1, <1>2
<1>5. \A n \in Nodes, x \in Ids :
        /\ ~Carries(t, n, x)
        /\ Kept("queue", n, x)' => Kept("queue", n, x)
        /\ Kept("outq", n, x)' <=> Kept("outq", n, x)
        /\ Kept("received", n, x)' <=> Kept("received", n, x)
        /\ Unrepeated(n, x)'
        /\ n = p /\ m = Data(x) => Kept("queue", n, x) /\ ~Kept("queue", n, x)'
  <2> SUFFICES ASSUME NEW n \in Nodes, NEW x \in Ids
      PROVE  /\ ~Carries(t, n, x)
             /\ Kept("queue", n, x)' => Kept("queue", n, x)
             /\ Kept("outq", n, x)' <=> Kept("outq", n, x)
             /\ Kept("received", n, x)' <=> Kept("received", n, x)
             /\ Unrepeated(n, x)'
             /\ n = p /\ m = Data(x) => Kept("queue", n, x) /\ ~Kept("queue", n, x)'
    OBVIOUS
  <2>1. ~Carries(t, n, x)
    BY <1>1 DEF Carries
  <2>2. /\ In(queue'[n], Data(x)) => In(queue[n], Data(x))
        /\ OnlyOnce(queue[n], Data(x)) => OnlyOnce(queue'[n], Data(x))
    BY <1>3, <1>4
  <2>3. /\ Kept("queue", n, x)' => Kept("queue", n, x)
        /\ Kept("outq", n, x)' <=> Kept("outq", n, x)
        /\ Kept("received", n, x)' <=> Kept("received", n, x)
    BY <1>2, <2>2 DEF Kept
  <2>4. Unrepeated(n, x)'
    BY <1>2, <2>2 DEF OnceInv, OnceAt, Unrepeated
  <2>5. Unrepeated(n, x)
    BY DEF OnceInv, OnceAt
  <2>6. ASSUME n = p, m = Data(x) PROVE Kept("queue", n, x) /\ ~Kept("queue", n, x)'
    BY <1>3, <1>4, <2>5, <2>6 DEF Kept, Unrepeated
  <2> QED BY <2>1, <2>3, <2>4, <2>6
<1>6. CASE suspended[p] /\ ~IsControl(m)
  <2>1. /\ Sending(t, m, Dest[p])
        /\ relayed' = [relayed EXCEPT ![p] = @ \cup {m.id}]
    BY <1>6 DEF WorkerGet, m
  <2>2. m = Data(m.id) /\ m.id \in Ids
    BY <1>1, <1>6 DEF Messages, DataMessages, IsControl, Data
  <2>3. PICK y \in Ids : m = Data(y) /\ y = m.id
    BY <2>2
  <2>4. /\ Aside(t) /\ todo' = [todo EXCEPT ![t] = Dest[p]]
        /\ \A n, x : Carries(t, n, x)' => m = Data(x) /\ In(Dest[p], n)
    BY <1>1, <2>1, SendingCarries
  <2>5. TodoOnce'
    BY <1>1, <2>4, SendingTodo, DestOnce DEF OnceInv, TodoOnce
  <2>6. /\ relayed'[p] = relayed[p] \cup {y}
        /\ \A n \in Nodes \ {p} : relayed'[n] = relayed[n]
    BY <1>1, <2>1, <2>3
  <2>7. Gone
    BY <1>2, <2>6, ProducedGrows DEF Gone, Through
  <2>8. y[1] \in from[p] /\ y \notin Through(p) /\ y \in Through(p)'
    <3>1. Kept("queue", p, y) /\ OnceAt(p, y, from)
      BY <1>1, <1>5, <2>3 DEF OnceInv
    <3>2. ~Kept("received", p, y) /\ ~Kept("relayed", p, y) /\ y[1] \in from[p]
      BY <3>1 DEF OnceAt, OnePlace, Stores, Present
    <3> QED BY <1>1, <2>6, <3>2, InThrough DEF Through
  <2>9. ASSUME NEW n \in Nodes, NEW x \in Ids PROVE OnceAt(n, x, from)'
    <3>1. OnceAt(n, x, from)
      BY DEF OnceInv
    <3>2. \A u \in Threads \ {t} : Carries(u, n, x)' => Carries(u, n, x)
      BY <1>1, <2>4, AsideCarries
    <3>3. CASE x # y
      <4>1. Kept("relayed", n, x)' => Kept("relayed", n, x)
        BY <2>6, <3>3 DEF Kept
      <4>2. ~Carries(t, n, x)'
        BY <2>3, <2>4, <3>3, DataInjective
      <4>3. Nowhere(n, x)
        BY <1>5, <3>2, <4>1, <4>2 DEF Nowhere, Stores
      <4> QED BY <1>5, <2>7, <3>1, <4>3, NowhereOnce
    <3>4. CASE x = y /\ n \in Destinations(p)
      <4>1. ~Present(n, x) /\ x[1] \in from[n]
        BY <1>1, <2>8, <3>4, NotYetOut
      <4>2. n # p
        BY <1>5, <2>3, <3>4, <4>1 DEF Present, Stores
      <4>3. \A s \in Stores : Kept(s, n, x)' => Kept(s, n, x)
        <5>1. Kept("relayed", n, x)' => Kept("relayed", n, x)
          BY <2>6, <4>2 DEF Kept
        <5> QED BY <1>5, <5>1 DEF Stores
      <4>4. SetOut(n, x)'
        BY <1>1, <2>8, <3>4 DEF SetOut, Destinations
      <4> QED BY <1>1, <1>5, <3>2, <4>1, <4>3, <4>4, SetsOutOnce
    <3>5. CASE x = y /\ n \notin Destinations(p)
      <4>1. ~Carries(t, n, x)'
        BY <1>1, <2>4, <3>5, DestOnce
      <4>2. CASE n = p
        <5>1. Kept("queue", n, x) /\ ~Kept("queue", n, x)'
          BY <1>5, <2>3, <3>5, <4>2
        <5>2. /\ \A r \in Stores \ {"queue", "relayed"} : Kept(r, n, x)' => Kept(r, n, x)
              /\ "queue" \in Stores /\ "relayed" \in Stores
          BY <1>5 DEF Stores
        <5>3. Moves(t, n, x)
          BY <3>2, <4>1, <5>1, <5>2 DEF Moves
        <5> QED BY <1>1, <1>5, <2>7, <3>1, <5>3, MovesOnce
      <4>3. CASE n # p
        <5>1. Kept("relayed", n, x)' => Kept("relayed", n, x)
          BY <2>6, <4>3 DEF Kept
        <5>2. Nowhere(n, x)
          BY <1>5, <3>2, <4>1, <5>1 DEF Nowhere, Stores
        <5> QED BY <1>5, <2>7, <3>1, <5>2, NowhereOnce
      <4> QED BY <4>2, <4>3
    <3> QED BY <3>3, <3>4, <3>5
  <2> QED BY <2>5, <2>9 DEF OnceInv, TodoOnce
<1>7. CASE ~(suspended[p] /\ ~IsControl(m))
  <2>1. /\ held' = [held EXCEPT ![t] = m] /\ pc' = [pc EXCEPT ![t] = "store"]
        /\ UNCHANGED <<todo, relayed>>
    BY <1>7 DEF WorkerGet, Goto, m
  <2>2. Aside(t)
    BY <1>1, <2>1 DEF Aside
  <2>3. TodoOnce'
    BY <2>1 DEF OnceInv, TodoOnce
  <2>4. Gone
    BY <1>2, <2>1, ProducedGrows DEF Gone, Through
  <2>5. \A n, x : Carries(t, n, x)' => n = p /\ m = Data(x)
    BY <1>1, <2>1 DEF Carries
  <2>6. ASSUME NEW n \in Nodes, NEW x \in Ids PROVE OnceAt(n, x, from)'
    <3>1. OnceAt(n, x, from)
      BY DEF OnceInv
    <3>2. \A u \in Threads \ {t} : Carries(u, n, x)' => Carries(u, n, x)
      BY <1>1, <2>2, AsideCarries
    <3>3. \A s \in Stores : Kept(s, n, x)' => Kept(s, n, x)
      <4>1. Kept("relayed", n, x)' => Kept("relayed", n, x)
        BY <2>1 DEF Kept
      <4> QED BY <1>5, <4>1 DEF Stores
    <3>4. CASE n = p /\ m = Data(x)
      <4>1. Kept("queue", n, x) /\ ~Kept("queue", n, x)' /\ "queue" \in Stores
        BY <1>5, <3>4 DEF Stores
      <4>2. Moves(t, n, x)
        BY <3>2, <3>3, <4>1 DEF Moves
      <4> QED BY <1>1, <1>5, <2>4, <3>1, <4>2, MovesOnce
    <3>5. CASE ~(n = p /\ m = Data(x))
      <4>1. Nowhere(n, x)
        BY <2>5, <3>2, <3>3, <3>5 DEF Nowhere
      <4> QED BY <1>5, <2>4, <3>1, <4>1, NowhereOnce
    <3> QED BY <3>4, <3>5
  <2> QED BY <2>3, <2>6 DEF OnceInv, TodoOnce
<1> QED BY <1>6, <1>7

LEMMA WorkerStoreOnce ==
  ASSUME NodeAssumption, TypeInv, TypeOK', NEW from, OnceInv(from),
         NEW t \in Daemons, WorkerStore(t)
  PROVE  OnceInv(from)'
<1> DEFINE p == t[1]
           m == held[t]
<1>1. /\ t \in Threads /\ p \in Nodes /\ pc[t] = "store" /\ m \in Messages
      /\ outq \in [Nodes -> Seq(Messages)] /\ outq[p] \in Seq(Messages)
      /\ pc \in [Threads -> Labels] /\ held \in [Threads -> Messages \cup {NoMsg}]
  BY ThreadFacts DEF WorkerStore, TypeInv, TypeOK, Hands
<1>2. /\ outq' = [outq EXCEPT ![p] = Append(outq[p], m)]
      /\ pc' = [pc EXCEPT ![t] = "top"] /\ held' = [held EXCEPT ![t] = NoMsg]
      /\ UNCHANGED <<queue, received, relayed, produced, todo>>
  BY DEF WorkerStore, Goto
<1> HIDE DEF m
<1>3. \A v : /\ In(Append(outq[p], m), v) <=> In(outq[p], v) \/ m = v
             /\ OnlyOnce(outq[p], v) /\ (m = v => ~In(outq[p], v))
                  => OnlyOnce(Append(outq[p], m), v)
  BY <1>1, OnceAppend
<1>4. /\ \A n \in Nodes \ {p} : outq'[n] = outq[n]
      /\ outq'[p] = Append(outq[p], m)
  BY <1>1, <1>2
<1>5. Aside(t) /\ TodoOnce' /\ Gone
  BY <1>1, <1>2, ProducedGrows DEF Aside, OnceInv, TodoOnce, Gone, Through
<1>6. \A n, x : ~Carries(t, n, x)'
  BY <1>1, <1>2 DEF Carries
<1>7. ASSUME NEW n \in Nodes, NEW x \in Ids PROVE OnceAt(n, x, from)'
  <2>1. OnceAt(n, x, from) /\ Unrepeated(n, x) /\ OnePlace(n, x)
    BY DEF OnceInv, OnceAt
  <2>2. \A r \in Stores \ {"outq"} : Kept(r, n, x)' <=> Kept(r, n, x)
    BY <1>2 DEF Kept
  <2>3. \A u \in Threads \ {t} : Carries(u, n, x)' => Carries(u, n, x)
    BY <1>1, <1>5, AsideCarries
  <2>4. CASE n = p /\ m = Data(x)
    <3>1. Carries(t, n, x)
      BY <1>1, <2>4 DEF Carries, m
    <3>2. Moves(t, n, x)
      BY <1>6, <2>2, <2>3, <3>1 DEF Moves, Stores
    <3>3. ~In(outq[n], Data(x))
      BY <1>1, <2>1, <3>1 DEF OnePlace, Stores, Kept
    <3>4. OnlyOnce(outq'[n], Data(x))
      BY <1>3, <1>4, <2>1, <2>4, <3>3 DEF Unrepeated
    <3>5. Unrepeated(n, x)'
      BY <1>2, <2>1, <3>4 DEF Unrepeated
    <3> QED BY <1>1, <1>5, <2>1, <3>2, <3>5, MovesOnce
  <2>5. CASE ~(n = p /\ m = Data(x))
    <3>1. /\ In(outq'[n], Data(x)) => In(outq[n], Data(x))
          /\ OnlyOnce(outq[n], Data(x)) => OnlyOnce(outq'[n], Data(x))
      BY <1>3, <1>4, <2>5
    <3>2. \A s \in Stores : Kept(s, n, x)' => Kept(s, n, x)
      BY <2>2, <3>1 DEF Kept
    <3>3. Nowhere(n, x)
      BY <1>6, <2>3, <3>2 DEF Nowhere
    <3>4. Unrepeated(n, x)'
      BY <1>2, <2>1, <3>1 DEF Unrepeated
    <3> QED BY <1>5, <2>1, <3>3, <3>4, NowhereOnce
  <2> QED BY <2>4, <2>5
<1> QED BY <1>5, <1>7 DEF OnceInv, TodoOnce

\* The head of the out queue leaves it.
LEMMA OutTail ==
  ASSUME TypeInv, NEW p \in Nodes, outq[p] # <<>>,
         outq' = [outq EXCEPT ![p] = Tail(@)], UNCHANGED <<queue, received, relayed>>,
         NEW from, OnceInv(from), NEW n \in Nodes, NEW x \in Ids
  PROVE  /\ \A s \in Stores : Kept(s, n, x)' => Kept(s, n, x)
         /\ Unrepeated(n, x)'
         /\ n = p /\ Head(outq[p]) = Data(x) =>
              "outq" \in Stores /\ Kept("outq", n, x) /\ ~Kept("outq", n, x)'
<1> DEFINE m == Head(outq[p])
           rest == Tail(outq[p])
<1>1. /\ outq \in [Nodes -> Seq(Messages)] /\ outq[p] \in Seq(Messages)
      /\ outq' = [outq EXCEPT ![p] = rest]
  BY DEF TypeInv, TypeOK
<1>2. \A v : /\ In(outq[p], v) <=> m = v \/ In(rest, v)
             /\ OnlyOnce(outq[p], v) => OnlyOnce(rest, v) /\ (m = v => ~In(rest, v))
  BY <1>1, OnceTail
<1> HIDE DEF m, rest
<1>3. /\ \A k \in Nodes \ {p} : outq'[k] = outq[k]
      /\ outq'[p] = rest
  BY <1>1
<1>4. Unrepeated(n, x)
  BY DEF OnceInv, OnceAt
<1>5. /\ In(outq'[n], Data(x)) => In(outq[n], Data(x))
      /\ OnlyOnce(outq'[n], Data(x))
  BY <1>2, <1>3, <1>4 DEF Unrepeated
<1>6. \A s \in Stores : Kept(s, n, x)' => Kept(s, n, x)
  BY <1>5 DEF Kept
<1>7. Unrepeated(n, x)'
  BY <1>4, <1>5 DEF Unrepeated
<1>8. ASSUME n = p, m = Data(x) PROVE Kept("outq", n, x) /\ ~Kept("outq", n, x)'
  BY <1>2, <1>3, <1>4, <1>8 DEF Kept, Unrepeated
<1> QED BY <1>6, <1>7, <1>8 DEF Stores, m

LEMMA UpdateGetOnce ==
  ASSUME NodeAssumption, TypeInv, TypeOK', NEW from, OnceInv(from),
         NEW t \in Daemons, UpdateGetData(t) \/ UpdateGetControl(t)
  PROVE  OnceInv(from)'
<1> DEFINE p == t[1]
           m == Head(outq[p])
<1>1. /\ t \in Threads /\ p \in Nodes /\ t \notin Controls
      /\ pc \in [Threads -> Labels] /\ held \in [Threads -> Messages \cup {NoMsg}]
  BY ThreadFacts DEF TypeInv, TypeOK
<1>2. /\ outq[p] # <<>> /\ outq' = [outq EXCEPT ![p] = Tail(@)]
      /\ UNCHANGED <<queue, received, relayed, produced, todo>>
  BY DEF UpdateGetData, UpdateGetControl
<1>3. TodoOnce' /\ Gone
  BY <1>2, ProducedGrows DEF OnceInv, TodoOnce, Gone, Through
<1>4. /\ Aside(t)
      /\ \A n, x : Carries(t, n, x)' => n = p /\ m = Data(x)
  <2>1. CASE UpdateGetData(t)
    <3>1. held' = [held EXCEPT ![t] = m] /\ pc' = [pc EXCEPT ![t] = "got"]
      BY <2>1 DEF UpdateGetData, Goto
    <3> QED BY <1>1, <1>2, <3>1 DEF Aside, Carries
  <2>2. CASE UpdateGetControl(t)
    <3>1. PICK c \in Controls, l \in {"dead", "top"} :
            /\ held' = [held EXCEPT ![c] = m]
            /\ pc' = [pc EXCEPT ![c] = "ctl", ![t] = l]
      BY <2>2 DEF UpdateGetControl
    <3>2. c \in Threads /\ c # t
      BY <1>1, ThreadFacts
    <3>3. /\ pc'[t] = l /\ pc'[c] = "ctl"
          /\ \A u \in Threads \ {t, c} : pc'[u] = pc[u] /\ held'[u] = held[u]
      BY <1>1, <3>1, <3>2
    <3> QED BY <1>2, <3>3 DEF Aside, Carries, Hand
  <2> QED BY <2>1, <2>2
<1>5. ASSUME NEW n \in Nodes, NEW x \in Ids PROVE OnceAt(n, x, from)'
  <2>1. OnceAt(n, x, from)
    BY DEF OnceInv
  <2>2. \A u \in Threads \ {t} : Carries(u, n, x)' => Carries(u, n, x)
    BY <1>1, <1>4, AsideCarries
  <2>3. /\ \A s \in Stores : Kept(s, n, x)' => Kept(s, n, x)
        /\ Unrepeated(n, x)'
        /\ n = p /\ m = Data(x) =>
              "outq" \in Stores /\ Kept("outq", n, x) /\ ~Kept("outq", n, x)'
    BY <1>1, <1>2, OutTail
  <2>4. CASE n = p /\ m = Data(x)
    <3>1. Moves(t, n, x)
      BY <2>2, <2>3, <2>4 DEF Moves
    <3> QED BY <1>1, <1>3, <2>1, <2>3, <3>1, MovesOnce
  <2>5. CASE ~(n = p /\ m = Data(x))
    <3>1. Nowhere(n, x)
      BY <1>4, <2>2, <2>3, <2>5 DEF Nowhere
    <3> QED BY <1>3, <2>1, <2>3, <3>1, NowhereOnce
  <2> QED BY <2>4, <2>5
<1> QED BY <1>3, <1>5 DEF OnceInv, TodoOnce

\* update() is given what its thread holds, and transmits it unless it raises.
LEMMA UpdateCallOnce ==
  ASSUME NodeAssumption, TypeInv, TypeOK', NEW from, OneWay(from), OnceInv(from),
         NEW t \in Daemons, UpdateCall(t) \/ UpdateRaise(t)
  PROVE  OnceInv(from)'
<1> DEFINE p == t[1]
           y == held[t].id
<1>1. /\ t \in Threads /\ p \in Nodes /\ pc[t] = "got" /\ held[t] \in DataMessages
      /\ received \in [Nodes -> Seq(Ids)] /\ received[p] \in Seq(Ids)
      /\ Dest[p] \in Seq(Nodes)
      /\ pc \in [Threads -> Labels] /\ held \in [Threads -> Messages \cup {NoMsg}]
  BY ThreadFacts DEF UpdateCall, UpdateRaise, TypeInv, TypeOK, Hands, NodeAssumption
<1>2. held[t] = Data(y) /\ y \in Ids
  BY <1>1 DEF DataMessages, Data
<1>3. /\ received' = [received EXCEPT ![p] = Append(received[p], y)]
      /\ UNCHANGED <<queue, outq, relayed, produced>>
  BY DEF UpdateCall, UpdateRaise
<1> HIDE DEF y
<1>4. /\ \A n \in Nodes \ {p} : received'[n] = received[n]
      /\ received'[p] = Append(received[p], y)
  BY <1>1, <1>3
<1>5. \A x : /\ In(Append(received[p], y), x) <=> In(received[p], x) \/ y = x
             /\ OnlyOnce(received[p], x) /\ (y = x => ~In(received[p], x))
                  => OnlyOnce(Append(received[p], y), x)
  BY <1>1, <1>2, OnceAppend
<1>6. /\ Aside(t)
      /\ (UpdateRaise(t) /\ todo' = todo) \/ todo' = [todo EXCEPT ![t] = Dest[p]]
      /\ \A n, x : Carries(t, n, x)' => x = y /\ n \in Destinations(p)
  <2>1. CASE UpdateCall(t)
    <3>1. Sending(t, held[t], Dest[p])
      BY <2>1 DEF UpdateCall
    <3>2. /\ Aside(t) /\ todo' = [todo EXCEPT ![t] = Dest[p]]
          /\ \A n, x : Carries(t, n, x)' => held[t] = Data(x) /\ In(Dest[p], n)
      BY <1>1, <3>1, SendingCarries
    <3> QED BY <1>1, <1>2, <3>2, DataInjective, DestOnce
  <2>2. CASE UpdateRaise(t)
    <3>1. /\ held' = [held EXCEPT ![t] = NoMsg] /\ pc' = [pc EXCEPT ![t] = "raising"]
          /\ todo' = todo
      BY <2>2 DEF UpdateRaise, Goto
    <3> QED BY <1>1, <2>2, <3>1 DEF Aside, Carries
  <2> QED BY <2>1, <2>2
<1>7. TodoOnce'
  BY <1>1, <1>6, SendingTodo, DestOnce DEF OnceInv, TodoOnce
<1>8. \A n \in Nodes :
        Through(n)' = IF n = p THEN Through(n) \cup {y} ELSE Through(n)
  <2> SUFFICES ASSUME NEW n \in Nodes
      PROVE  Through(n)' = IF n = p THEN Through(n) \cup {y} ELSE Through(n)
    OBVIOUS
  <2>1. \A q : IdsIn(q) = {x \in IdsIn(q) : In(q, x)} /\ \A x : In(q, x) => x \in IdsIn(q)
    BY DEF IdsIn, In
  <2>2. IdsIn(Append(received[p], y)) = IdsIn(received[p]) \cup {y}
    BY <1>5, <2>1
  <2> QED BY <1>3, <1>4, <2>2 DEF Through
<1>9. Gone
  BY <1>3, <1>8, ProducedGrows DEF Gone
<1>10. Carries(t, p, y) /\ OnceAt(p, y, from)
  BY <1>1, <1>2 DEF Carries, OnceInv
<1>11. y[1] \in from[p] /\ y \notin Through(p) /\ y \in Through(p)'
  <2>1. ~Kept("received", p, y) /\ ~Kept("relayed", p, y) /\ y[1] \in from[p]
    BY <1>1, <1>10 DEF OnceAt, OnePlace, Stores, Present
  <2> QED BY <1>1, <1>8, <2>1, InThrough
<1>12. ASSUME NEW n \in Nodes, NEW x \in Ids PROVE OnceAt(n, x, from)'
  <2>1. OnceAt(n, x, from) /\ Unrepeated(n, x)
    BY DEF OnceInv, OnceAt
  <2>2. \A u \in Threads \ {t} : Carries(u, n, x)' => Carries(u, n, x)
    BY <1>1, <1>6, AsideCarries
  <2>3. \A s \in Stores \ {"received"} : Kept(s, n, x)' <=> Kept(s, n, x)
    BY <1>3 DEF Kept
  <2>4. ASSUME ~(n = p /\ x = y)
        PROVE  /\ \A s \in Stores : Kept(s, n, x)' => Kept(s, n, x)
               /\ Unrepeated(n, x)'
    <3>1. /\ In(received'[n], x) => In(received[n], x)
          /\ OnlyOnce(received[n], x) => OnlyOnce(received'[n], x)
      BY <1>4, <1>5, <2>4
    <3>2. \A s \in Stores : Kept(s, n, x)' => Kept(s, n, x)
      BY <2>3, <3>1 DEF Kept
    <3>3. Unrepeated(n, x)'
      BY <1>3, <2>1, <3>1 DEF Unrepeated
    <3> QED BY <3>2, <3>3
  <2>5. CASE x = y /\ n \in Destinations(p)
    <3>1. ~Present(n, x) /\ x[1] \in from[n]
      BY <1>1, <1>11, <2>5, NotYetOut
    <3>2. n # p
      BY <1>1, <1>10, <2>5, <3>1 DEF Present
    <3>3. SetOut(n, x)'
      BY <1>1, <1>11, <2>5 DEF SetOut, Destinations
    <3> QED BY <1>1, <2>2, <2>4, <3>1, <3>2, <3>3, SetsOutOnce
  <2>6. CASE ~(x = y /\ n \in Destinations(p)) /\ n = p /\ x = y
    <3>1. Carries(t, n, x) /\ ~Carries(t, n, x)'
      BY <1>6, <1>10, <2>6
    <3>2. Moves(t, n, x)
      BY <2>2, <2>3, <3>1 DEF Moves, Stores
    <3>3. OnlyOnce(received'[n], x)
      BY <1>4, <1>5, <1>11, <2>1, <2>6, InThrough DEF Unrepeated, Kept
    <3>4. Unrepeated(n, x)'
      BY <1>3, <2>1, <3>3 DEF Unrepeated
    <3> QED BY <1>1, <1>9, <2>1, <3>2, <3>4, MovesOnce
  <2>7. CASE ~(x = y /\ n \in Destinations(p)) /\ ~(n = p /\ x = y)
    <3>1. Nowhere(n, x)
      BY <1>6, <2>2, <2>4, <2>7 DEF Nowhere
    <3> QED BY <1>9, <2>1, <2>4, <2>7, <3>1, NowhereOnce
  <2> QED BY <2>5, <2>6, <2>7
<1> QED BY <1>7, <1>12 DEF OnceInv, TodoOnce

\* A source function returns a message that no other call has returned.
LEMMA SourceCallOnce ==
  ASSUME NodeAssumption, TypeInv, TypeOK', NEW from, OneWay(from), OnceInv(from),
         NEW t \in Daemons, t[2] = "source", SourceCall(t)
  PROVE  OnceInv(from)'
<1> DEFINE p == t[1]
           y == <<p, produced[p] + 1>>
<1>1. /\ t \in Threads /\ p \in Nodes /\ p \in Sources /\ pc[t] = "call"
      /\ pc \in [Threads -> Labels] /\ held \in [Threads -> Messages \cup {NoMsg}]
  BY ThreadFacts DEF SourceCall, TypeInv, TypeOK, Hands
<1>2. /\ produced \in [Nodes -> 0..(MaxData + 1)] /\ MaxData \in Nat
      /\ produced' = [produced EXCEPT ![p] = @ + 1]
  BY DEF SourceCall, TypeInv, TypeOK, NodeAssumption
<1>3. /\ \A n \in Nodes : produced[n] \in Nat /\ produced[n] <= produced'[n]
      /\ produced'[p] = produced[p] + 1 /\ ~(produced[p] + 1 <= produced[p])
  BY <1>1, <1>2
<1>4. /\ held' = [held EXCEPT ![t] = Data(y)] /\ pc' = [pc EXCEPT ![t] = "emit"]
      /\ UNCHANGED <<queue, outq, received, relayed, todo>>
  BY <1>3 DEF SourceCall, Goto
<1>5. /\ y[1] = p /\ y[2] = produced[p] + 1
      /\ \A x \in Ids : x[1] = p /\ x[2] = produced[p] + 1 <=> x = y
  BY DEF Ids
<1> HIDE DEF y
<1>6. Aside(t) /\ TodoOnce' /\ Gone
  BY <1>1, <1>3, <1>4 DEF Aside, OnceInv, TodoOnce, Gone, Through
<1>7. \A n, x : Carries(t, n, x)' => n = p /\ x = y
  BY <1>1, <1>4, DataInjective DEF Carries
<1>8. ASSUME NEW n \in Nodes, NEW x \in Ids PROVE OnceAt(n, x, from)'
  <2>1. OnceAt(n, x, from) /\ Unrepeated(n, x) /\ Unrepeated(n, x)'
    BY <1>4 DEF OnceInv, OnceAt, Unrepeated
  <2>2. \A u \in Threads \ {t} : Carries(u, n, x)' => Carries(u, n, x)
    BY <1>1, <1>6, AsideCarries
  <2>3. \A s \in Stores : Kept(s, n, x)' => Kept(s, n, x)
    BY <1>4 DEF Kept
  <2>4. CASE n = p /\ x = y
    <3>1. ~SetOut(n, x)
      <4>1. ~(x[1] = n /\ x[2] <= produced[n])
        BY <1>3, <1>5, <2>4
      <4>2. ASSUME NEW q \in Nodes, n \in Destinations(q), x \in Through(q)
            PROVE  FALSE
        <5>1. x[1] \in from[q]
          BY <4>2, InThrough DEF OnceInv, OnceAt, Present, Stores
        <5> QED BY <1>5, <2>4, <4>2, <5>1 DEF OneWay
      <4> QED BY <4>1, <4>2 DEF SetOut
    <3>2. ~Present(n, x)
      BY <2>1, <3>1 DEF OnceAt
    <3>3. x[1] \in from[n]
      BY <1>1, <1>5, <2>4 DEF OneWay
    <3>4. SetOut(n, x)'
      <4>1. x[1] = n /\ x[2] = produced'[n]
        BY <1>3, <1>5, <2>4
      <4>2. produced'[n] <= produced'[n]
        BY <1>1, <1>3, <2>4
      <4> QED BY <4>1, <4>2 DEF SetOut
    <3> QED BY <1>1, <2>1, <2>2, <2>3, <3>2, <3>3, <3>4, SetsOutOnce
  <2>5. CASE ~(n = p /\ x = y)
    <3>1. Nowhere(n, x)
      BY <1>7, <2>2, <2>3, <2>5 DEF Nowhere
    <3> QED BY <1>6, <2>1, <3>1, NowhereOnce
  <2> QED BY <2>4, <2>5
<1> QED BY <1>6, <1>8 DEF OnceInv, TodoOnce

\* The steps of a loop that move no data.
LEMMA LoopOnce ==
  ASSUME NodeAssumption, TypeInv, TypeOK', NEW from, OnceInv(from),
         NEW t \in Daemons,
         \/ LoopTop(t) \/ GetEmpty(t) \/ UpdateFinally(t)
         \/ SourceCallEnd(t) \/ SourceCallLate(t) \/ SourceEmit(t)
  PROVE  OnceInv(from)'
<1> DEFINE p == t[1]
<1>0. t \in Threads /\ p \in Nodes
  BY ThreadFacts
<1>1. /\ t \in Threads /\ p \in Nodes /\ <<p>> \in Seq(Nodes)
      /\ pc \in [Threads -> Labels] /\ held \in [Threads -> Messages \cup {NoMsg}]
  <2>1. <<p>> \in Seq(Nodes)
    BY <1>0
  <2> QED BY <1>0, <2>1 DEF TypeInv, TypeOK
<1>2. CASE LoopTop(t) \/ GetEmpty(t) \/ UpdateFinally(t) \/ SourceCallLate(t)
  <2>1. PICK l \in {"dead", "call", "get", "top"} : pc' = [pc EXCEPT ![t] = l]
    BY <1>2 DEF LoopTop, GetEmpty, UpdateFinally, SourceCallLate, Goto
  <2>2. UNCHANGED <<queue, outq, received, relayed, produced, held, todo>>
    BY <1>2 DEF LoopTop, GetEmpty, UpdateFinally, SourceCallLate
  <2>3. Aside(t) /\ \A n \in Nodes, x \in Ids : Carries(t, n, x)' => Carries(t, n, x)
    BY <1>1, <2>1, <2>2 DEF Aside, Carries
  <2>4. TodoOnce'
    BY <2>2 DEF OnceInv, TodoOnce
  <2> QED BY <1>1, <2>2, <2>3, <2>4, ProducedGrows, StillOnce
<1>3. CASE SourceCallEnd(t)
  <2>1. PICK sig \in SourceEnd : Sending(t, Control(sig), <<p>>)
    BY <1>3 DEF SourceCallEnd
  <2>2. \A x : Control(sig) # Data(x)
    BY DEF Control, Data, NodeAssumption, Negative
  <2>3. /\ UNCHANGED <<queue, outq, received, relayed>>
        /\ \A n \in Nodes : produced[n] <= produced'[n]
    <3>1. /\ produced \in [Nodes -> 0..(MaxData + 1)] /\ MaxData \in Nat
          /\ produced' = [produced EXCEPT ![p] = @ + 1]
      BY <1>3 DEF SourceCallEnd, TypeInv, TypeOK, NodeAssumption
    <3>2. \A n \in Nodes : produced[n] <= produced'[n]
      BY <1>1, <3>1
    <3> QED BY <1>3, <3>2 DEF SourceCallEnd
  <2> QED BY <1>1, <2>1, <2>2, <2>3, OnlyOnceHere, StillSending
<1>4. CASE SourceEmit(t)
  <2>1. pc[t] = "emit" /\ UNCHANGED <<queue, outq, received, relayed, produced>>
    BY <1>4 DEF SourceEmit
  <2>2. CASE stopEvt[p]["source"]
    <3>1. /\ pc' = [pc EXCEPT ![t] = "dead"] /\ held' = [held EXCEPT ![t] = NoMsg]
          /\ todo' = todo
      BY <1>4, <2>2 DEF SourceEmit, Goto
    <3>2. Aside(t) /\ \A n \in Nodes, x \in Ids : Carries(t, n, x)' => Carries(t, n, x)
      BY <1>1, <3>1 DEF Aside, Carries
    <3>3. TodoOnce'
      BY <3>1 DEF OnceInv, TodoOnce
    <3> QED BY <1>1, <2>1, <3>2, <3>3, ProducedGrows, StillOnce
  <2>3. CASE ~stopEvt[p]["source"]
    <3>1. Sending(t, held[t], <<p>>)
      BY <1>4, <2>3 DEF SourceEmit
    <3>2. \A n \in Nodes, x \in Ids : held[t] = Data(x) /\ In(<<p>>, n) => Carries(t, n, x)
      BY <2>1, OnlyOnceHere DEF Carries
    <3> QED BY <1>1, <2>1, <3>1, <3>2, OnlyOnceHere, ProducedGrows, StillSending
  <2> QED BY <2>2, <2>3
<1> QED BY <1>2, <1>3, <1>4

\* Threads that start, and what puts no data.
LEMMA CalmOnce ==
  ASSUME NodeAssumption, TypeInv, TypeOK', NEW from, OnceInv(from),
         NEW t \in Threads, UNCHANGED <<queue, outq, received, relayed, produced, todo>>,
         \A u \in Threads : \/ pc'[u] \notin Hand
                            \/ pc'[u] = pc[u] /\ held'[u] = held[u]
  PROVE  OnceInv(from)'
<1>1. Aside(t) /\ \A n \in Nodes, x \in Ids : Carries(t, n, x)' => Carries(t, n, x)
  BY DEF Aside, Carries, Hand
<1>2. TodoOnce'
  BY DEF OnceInv, TodoOnce
<1> QED BY <1>1, <1>2, ProducedGrows, StillOnce

LEMMA ControlOnce ==
  ASSUME NodeAssumption, TypeInv, TypeOK', NEW from, OneWay(from), OnceInv(from),
         NEW t \in Controls, ControlThread(t)
  PROVE  OnceInv(from)'
<1> DEFINE p == t[1]
<1>0. t \in Threads /\ p \in Nodes
  BY ThreadFacts
<1>1. /\ t \in Threads /\ p \in Nodes /\ Dest[p] \in Seq(Nodes) /\ <<>> \in Seq(Nodes)
      /\ pc \in [Threads -> Labels] /\ held \in [Threads -> Messages \cup {NoMsg}]
  <2>1. Dest[p] \in Seq(Nodes) /\ <<>> \in Seq(Nodes)
    BY <1>0 DEF NodeAssumption
  <2> QED BY <1>0, <2>1 DEF TypeInv, TypeOK
<1>2. ASSUME AfterStop(t), UNCHANGED <<queue, outq, received, relayed, produced>>
      PROVE  OnceInv(from)'
  <2>1. CASE held[t].kind = "STOP_PROPAGATE"
    <3>1. Sending(t, held[t], Dest[p]) /\ \A x : held[t] # Data(x)
      BY <1>2, <2>1 DEF AfterStop, Data
    <3> QED BY <1>1, <1>2, <3>1, DestOnce, ProducedGrows, StillSending
  <2>2. CASE held[t].kind # "STOP_PROPAGATE"
    <3>1. Sending(t, NoMsg, <<>>)
      BY <1>2, <2>2 DEF AfterStop
    <3> QED BY <1>1, <1>2, <3>1, OnlyOnceHere, ProducedGrows, StillSending
  <2> QED BY <2>1, <2>2
<1>3. CASE ControlSuspend(t)
  BY <1>1, <1>3, CalmOnce DEF ControlSuspend, Goto, Hand
<1>4. CASE ControlStart(t)
  <2>1. /\ pc' = [u \in Threads |-> IF u \in Spawned(p) THEN "top"
                                    ELSE IF u = t THEN "none" ELSE pc[u]]
        /\ held' = [held EXCEPT ![t] = NoMsg]
        /\ UNCHANGED <<queue, outq, received, relayed, produced, todo>>
    BY <1>4 DEF ControlStart
  <2>2. \A u \in Threads : pc'[u] \notin Hand \/ (pc'[u] = pc[u] /\ held'[u] = held[u])
    BY <1>1, <2>1 DEF Hand
  <2> QED BY <1>1, <2>1, <2>2, CalmOnce
<1>5. CASE ControlStop(t)
  <2>1. UNCHANGED <<queue, outq, received, relayed, produced>>
    BY <1>5 DEF ControlStop
  <2>2. CASE status[p] = "STOPPED"
    BY <1>2, <1>5, <2>1, <2>2 DEF ControlStop
  <2>3. CASE status[p] # "STOPPED"
    <3>1. pc' = [pc EXCEPT ![t] = "pend"] /\ UNCHANGED <<held, todo>>
      BY <1>5, <2>3 DEF ControlStop, Goto
    <3>2. \A u \in Threads : pc'[u] \notin Hand \/ (pc'[u] = pc[u] /\ held'[u] = held[u])
      BY <1>1, <3>1 DEF Hand
    <3> QED BY <1>1, <2>1, <3>1, <3>2, CalmOnce
  <2> QED BY <2>2, <2>3
<1>6. CASE JoinPending(t, p) \/ JoinList(t, p)
  BY <1>1, <1>6, CalmOnce DEF JoinPending, JoinList, Goto, Hand
<1>7. CASE ControlStopEnd(t)
  BY <1>2, <1>7 DEF ControlStopEnd
<1>8. CASE Put(t)
  BY <1>1, <1>8, PutOnce
<1> QED BY <1>3, <1>4, <1>5, <1>6, <1>7, <1>8 DEF ControlThread

LEMMA CallOnce ==
  ASSUME NodeAssumption, PipelineAssumption, TypeInv, TypeOK', NEW from,
         OnceInv(from), UserCall \/ InCall
  PROVE  OnceInv(from)'
<1>0. User \in Threads /\ Here \in Nodes
  BY ThreadFacts, HereType
<1>1. /\ User \in Threads /\ Here \in Nodes /\ <<Here>> \in Seq(Nodes)
      /\ pc \in [Threads -> Labels] /\ held \in [Threads -> Messages \cup {NoMsg}]
  <2>1. <<Here>> \in Seq(Nodes)
    BY <1>0
  <2> QED BY <1>0, <2>1 DEF TypeInv, TypeOK
<1>2. CASE Start \/ Stop \/ StopJoin \/ StopJoined \/ JoinPending(User, Here)
           \/ JoinList(User, Here)
  <2>1. UNCHANGED <<queue, outq, received, relayed, produced, todo, held>>
    BY <1>2
    DEF Start, Stop, StopJoin, StopJoined, JoinPending, JoinList, nodeVars
  <2>2. pc' = pc \/ \E l \in {"pend", "drive", "list", "join"} : pc' = [pc EXCEPT ![User] = l]
    BY <1>2
    DEF Start, Stop, StopJoin, StopJoined, JoinPending, JoinList, nodeVars, Goto
  <2>3. \A u \in Threads : pc'[u] \notin Hand \/ (pc'[u] = pc[u] /\ held'[u] = held[u])
    BY <1>1, <2>1, <2>2 DEF Hand
  <2> QED BY <1>1, <2>1, <2>3, CalmOnce
<1>3. CASE StartNode
  <2>1. /\ pc' = [u \in Threads |-> IF u \in Spawned(Here) THEN "top" ELSE pc[u]]
        /\ UNCHANGED <<queue, outq, received, relayed, produced, todo, held>>
    BY <1>3 DEF StartNode
  <2>2. \A u \in Threads : pc'[u] \notin Hand \/ (pc'[u] = pc[u] /\ held'[u] = held[u])
    BY <1>1, <2>1 DEF Hand
  <2> QED BY <1>1, <2>1, <2>2, CalmOnce
<1>4. ASSUME NEW n \in Nodes, NEW sig \in Signals, Sending(User, Control(sig), <<n>>),
             UNCHANGED <<queue, outq, received, relayed, produced>>
      PROVE  OnceInv(from)'
  <2>1. <<n>> \in Seq(Nodes) /\ \A x : Control(sig) # Data(x)
    BY DEF Control, Data, Signals
  <2> QED BY <1>1, <1>4, <2>1, OnlyOnceHere, ProducedGrows, StillSending
<1>5. CASE StopPut
  BY <1>1, <1>4, <1>5 DEF StopPut, Signals
<1>6. ASSUME NEW n \in Nodes, NEW sig \in UserSignals, Signal(n, sig)
      PROVE  OnceInv(from)'
  <2>1. sig \in Signals
    BY DEF PipelineAssumption, Signals
  <2> QED BY <1>4, <1>6, <2>1 DEF Signal
<1>7. CASE Put(User)
  BY <1>1, <1>7, PutOnce
<1> QED BY <1>2, <1>3, <1>5, <1>6, <1>7 DEF UserCall, InCall

LEMMA NextOnce ==
  ASSUME NodeAssumption, PipelineAssumption, NEW from, OneWay(from),
         TypeInv, TypeInv', OnceInv(from), [Next]_vars
  PROVE  OnceInv(from)'
<1> USE DEF TypeInv
<1>1. CASE UNCHANGED vars
  BY <1>1, ThreadFacts, CalmOnce DEF vars
<1>2. ASSUME NEW t \in Daemons, DaemonStep(t) PROVE OnceInv(from)'
  <2>1. t \in Threads
    BY ThreadFacts
  <2> QED
    BY <1>2, <2>1, PutOnce, LoopOnce, WorkerGetOnce, WorkerStoreOnce, UpdateGetOnce,
       UpdateCallOnce, SourceCallOnce
    DEF DaemonStep, Worker, Update, Source
<1>3. ASSUME NEW t \in Controls, ControlThread(t) PROVE OnceInv(from)'
  BY <1>3, ControlOnce
<1> QED
  BY <1>1, <1>2, <1>3, CallOnce DEF Next, ThreadStep, NodeStep

LEMMA InitOnce ==
  ASSUME NodeAssumption, NEW from, Init
  PROVE  OnceInv(from)
<1>1. /\ \A n \in Nodes : /\ queue[n] = <<>> /\ outq[n] = <<>>
                          /\ received[n] = <<>> /\ relayed[n] = {}
      /\ \A u \in Threads : held[u] = NoMsg /\ todo[u] = <<>>
  BY DEF Init, NodeInit
<1>2. \A v : OnlyOnce(<<>>, v) /\ ~In(<<>>, v)
  BY OnlyOnceHere
<1>3. \A x : NoMsg # Data(x)
  BY DEF NoMsg, Data
<1>4. ASSUME NEW n \in Nodes, NEW x \in Ids PROVE OnceAt(n, x, from)
  <2>1. /\ \A u \in Threads : ~Carries(u, n, x)
        /\ \A s \in Stores : ~Kept(s, n, x)
    BY <1>1, <1>2, <1>3 DEF Carries, Kept
  <2>2. Unrepeated(n, x)
    BY <1>1, <1>2 DEF Unrepeated
  <2> QED BY <2>1, <2>2 DEF OnceAt, OnePlace, Present
<1> QED BY <1>1, <1>2, <1>4 DEF OnceInv

\* Where there is one way to a node from each source, no message is given to
\* update() of a node twice, or relayed by the node and given to it, whatever
\* is suspended, resumed, stopped and started again, and even if a join()
\* times out and leaves threads of an earlier start() running (_node.py,
\* _worker, _update and transmit).
THEOREM MessagesPassOnce ==
  ASSUME NEW from, OneWay(from)
  PROVE  Spec => []OnceThrough
<1> USE NodeAssumption, PipelineAssumption
<1>1. Init => TypeInv /\ OnceInv(from)
  BY InitType, InitOnce
<1>2. TypeInv /\ OnceInv(from) /\ [Next]_vars => (TypeInv /\ OnceInv(from))'
  BY NextType, NextOnce
<1>3. TypeInv /\ OnceInv(from) => OnceThrough
  <2> SUFFICES ASSUME TypeInv, OnceInv(from), NEW n \in Nodes
      PROVE  /\ \A i, j \in 1..Len(received[n]) :
                  received[n][i] = received[n][j] => i = j
             /\ IdsIn(received[n]) \cap relayed[n] = {}
    BY DEF OnceThrough
  <2>1. /\ \A i \in 1..Len(received[n]) : received[n][i] \in Ids
        /\ relayed[n] \subseteq Ids
    <3>1. received[n] \in Seq(Ids) /\ relayed[n] \subseteq Ids
      BY DEF TypeInv, TypeOK
    <3> QED BY <3>1
  <2>2. \A x \in Ids : OnlyOnce(received[n], x) /\ OnePlace(n, x)
    BY DEF OnceInv, OnceAt, Unrepeated
  <2>3. \A i, j \in 1..Len(received[n]) : received[n][i] = received[n][j] => i = j
    BY <2>1, <2>2 DEF OnlyOnce
  <2>4. \A x \in Ids : ~(In(received[n], x) /\ x \in relayed[n])
    BY <2>2 DEF OnePlace, Kept, Stores
  <2>5. IdsIn(received[n]) \cap relayed[n] = {}
    BY <2>1, <2>4 DEF IdsIn, In
  <2> QED BY <2>3, <2>5
<1> QED
  BY <1>1, <1>2, <1>3, PTL DEF Spec
=============================================================================
