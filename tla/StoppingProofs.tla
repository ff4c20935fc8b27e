--------------------------- MODULE StoppingProofs ---------------------------
(***************************************************************************)
(* That stopping is final, in every pipeline whose join() does wait for    *)
(* the threads: no thread outlives its node, and none of a second start()  *)
(* processes anything. StopInv is the inductive invariant.                 *)
(***************************************************************************)
EXTENDS PipelineProofs

\* A control thread is stopping its node from the moment it has a negative
\* signal to the end of join().
Joining(c) == pc[c] \in {"pend", "list", "join"}
Stopping(c) == Joining(c) \/ (pc[c] = "ctl" /\ held[c].kind \in Negative)
EventsSet(n) == \A r \in Roles : stopEvt[n][r] = TRUE

\* A stopped node has no handles, and its stop events stay set for good.
StoppedNodes ==
  \A n \in Nodes :
    /\ status[n] = "STOPPED" => handle[n] = 0
    /\ (gen[n] > 1 \/ (gen[n] > 0 /\ handle[n] = 0)) => EventsSet(n)

\* Only the threads the node has handles of are alive; later ones get no
\* further than the head of their loop.
LiveThreads ==
  \A t \in Daemons :
    /\ Alive(t) => handle[t[1]] = t[3]
    /\ gen[t[1]] > 1 => pc[t] \in {"none", "top", "dead"}

\* One control thread at a time stops a node, with the update thread gone that
\* would handle another signal, and it waits for all that are alive.
StoppingThreads ==
  \A c \in Controls :
    /\ Stopping(c) =>
         /\ handle[c[1]] # 0
         /\ \A t \in Daemons : t[1] = c[1] /\ t[2] = "update" => ~Alive(t)
         /\ \A x \in Controls : x[1] = c[1] /\ Stopping(x) => x = c
    /\ Joining(c) => EventsSet(c[1])
    /\ pc[c] = "join" =>
         \A t \in Daemons : t[1] = c[1] /\ Alive(t) => t \in waits[c]

StopInv == StoppedNodes /\ LiveThreads /\ StoppingThreads

\* A step of the thread t that has nothing to do with starting or stopping.
Frame(t) ==
  /\ UNCHANGED <<handle, gen, status>>
  /\ \A x \in Threads \ {t} : /\ pc'[x] = pc[x] /\ held'[x] = held[x]
                              /\ waits'[x] = waits[x]
  /\ \A n \in Nodes, r \in Roles :
       stopEvt[n][r] = TRUE => stopEvt'[n][r] = TRUE
  /\ t \in Daemons => /\ Alive(t)
                      /\ gen[t[1]] > 1 => pc'[t] = "dead"
  /\ t \in Controls => ~Stopping(t)'

LEMMA FrameStop ==
  ASSUME NodeAssumption, TypeInv, StopInv, NEW t \in Threads, Frame(t)
  PROVE  StopInv'
<1>1. /\ UNCHANGED <<handle, gen, status>>
      /\ \A n \in Nodes : EventsSet(n) => EventsSet(n)'
  BY DEF Frame, EventsSet
<1>2. \A x \in Daemons : /\ Alive(x)' => Alive(x)
                         /\ x # t => pc'[x] = pc[x]
  BY ThreadFacts DEF Frame, Alive
<1>3. \A x \in Controls : Stopping(x)' => /\ Stopping(x) /\ pc'[x] = pc[x]
                                          /\ waits'[x] = waits[x]
  BY ThreadFacts DEF Frame, Stopping, Joining
<1>4. StoppedNodes'
  BY <1>1 DEF StopInv, StoppedNodes
<1>5. LiveThreads'
  <2> SUFFICES ASSUME NEW x \in Daemons
               PROVE  /\ Alive(x)' => handle'[x[1]] = x[3]
                      /\ gen'[x[1]] > 1 => pc'[x] \in {"none", "top", "dead"}
    BY DEF LiveThreads
  <2>1. Alive(x)' => handle'[x[1]] = x[3]
    BY <1>1, <1>2 DEF StopInv, LiveThreads
  <2>2. gen'[x[1]] > 1 => pc'[x] \in {"none", "top", "dead"}
    BY <1>1, <1>2 DEF StopInv, LiveThreads, Frame
  <2>3. QED BY <2>1, <2>2
<1>6. StoppingThreads'
  <2>1. \A x \in Controls : Joining(x)' => Joining(x) /\ Stopping(x)'
    BY <1>3 DEF Stopping, Joining
  <2>2. \A x \in Controls : x[1] \in Nodes
    BY ThreadFacts
  <2>3. \A x \in Controls : pc'[x] = "join" => Stopping(x)'
    BY DEF Stopping, Joining
  <2>4. QED
    BY <1>1, <1>2, <1>3, <2>1, <2>2, <2>3 DEF StopInv, StoppingThreads
<1> QED
  BY <1>4, <1>5, <1>6 DEF StopInv

LEMMA SendingFrame ==
  ASSUME NodeAssumption, TypeInv, NEW t \in Threads, NEW m, NEW ds,
         Sending(t, m, ds)
  PROVE  /\ \A x \in Threads \ {t} : pc'[x] = pc[x] /\ held'[x] = held[x]
         /\ pc'[t] \in {"top", "finally", "none", "drive", "put"}
<1>1. pc \in [Threads -> Labels] /\ held \in [Threads -> Messages \cup {NoMsg}]
  BY DEF TypeInv, TypeOK
<1>2. Resume(t) \in {"top", "finally", "none", "drive"}
  BY ResumeType
<1> QED
  BY <1>1, <1>2 DEF Sending, Goto

LEMMA PutFrame ==
  ASSUME NodeAssumption, TypeInv, StopInv, NEW t \in Threads, Put(t)
  PROVE  Frame(t)
<1>1. /\ UNCHANGED <<handle, gen, status, waits, stopEvt>>
      /\ pc[t] \in {"put", "enq"}
  BY DEF Put, PutDiscard, PutAccept, Enqueue
<1>2. /\ \A x \in Threads \ {t} : pc'[x] = pc[x] /\ held'[x] = held[x]
      /\ pc'[t] \in {"top", "finally", "none", "drive", "put", "enq"}
  <2>1. CASE PutAccept(t)
    BY <2>1 DEF PutAccept, Goto, TypeInv, TypeOK
  <2>2. CASE PutDiscard(t) \/ Enqueue(t)
    BY <2>2, SendingFrame DEF PutDiscard, Enqueue, Served
  <2>3. QED BY <2>1, <2>2 DEF Put
<1>3. t \in Daemons => ~(gen[t[1]] > 1)
  BY <1>1 DEF StopInv, LiveThreads
<1> QED
  BY <1>1, <1>2, <1>3 DEF Frame, Alive, Stopping, Joining

\* The worker, update and source threads, but for a control message.
LEMMA DaemonFrame ==
  ASSUME NodeAssumption, TypeInv, StopInv, NEW t \in Daemons, DaemonStep(t),
         ~UpdateGetControl(t)
  PROVE  Frame(t)
<1>0. /\ t \in Threads /\ t[1] \in Nodes /\ t[2] \in Roles /\ t \notin Controls
      /\ pc \in [Threads -> Labels] /\ held \in [Threads -> Messages \cup {NoMsg}]
      /\ stopEvt \in [Nodes -> [Roles -> BOOLEAN]]
  BY ThreadFacts DEF TypeInv, TypeOK
<1>1. ASSUME pc[t] \notin {"none", "top", "dead"} PROVE ~(gen[t[1]] > 1)
  BY <1>1 DEF StopInv, LiveThreads
<1>2. ASSUME LoopTop(t) PROVE Frame(t)
  <2>1. /\ UNCHANGED <<handle, gen, status, waits, stopEvt, held>>
        /\ pc[t] = "top"
        /\ pc' = [pc EXCEPT ![t] = IF stopEvt[t[1]][t[2]] THEN "dead"
                                   ELSE IF t[2] = "source" THEN "call"
                                   ELSE "get"]
    BY <1>2 DEF LoopTop, Goto
  <2>2. gen[t[1]] > 1 => pc'[t] = "dead"
    BY <1>0, <2>1 DEF StopInv, StoppedNodes, EventsSet
  <2>3. QED BY <1>0, <2>1, <2>2 DEF Frame, Alive
<1>3. ASSUME GetEmpty(t) \/ WorkerStore(t) \/ UpdateGetData(t) \/ UpdateRaise(t)
             \/ UpdateFinally(t) \/ SourceCall(t) \/ SourceCallLate(t)
      PROVE  Frame(t)
  <2>1. /\ UNCHANGED <<handle, gen, status, waits, stopEvt>>
        /\ pc[t] \notin {"none", "top", "dead"}
        /\ \A x \in Threads \ {t} : pc'[x] = pc[x] /\ held'[x] = held[x]
    BY <1>0, <1>3
    DEF GetEmpty, WorkerStore, UpdateGetData, UpdateRaise, UpdateFinally,
        SourceCall, SourceCallLate, Goto
  <2>2. QED BY <1>0, <1>1, <2>1 DEF Frame, Alive
<1>4. ASSUME WorkerGet(t) PROVE Frame(t)
  <2>1. /\ UNCHANGED <<handle, gen, status, waits, stopEvt>> /\ pc[t] = "get"
    BY <1>4 DEF WorkerGet
  <2>2. \A x \in Threads \ {t} : pc'[x] = pc[x] /\ held'[x] = held[x]
    <3>1. CASE Sending(t, Head(queue[t[1]]), Dest[t[1]])
      BY <1>0, <3>1, SendingFrame
    <3>2. CASE /\ held' = [held EXCEPT ![t] = Head(queue[t[1]])]
               /\ Goto(t, "store")
      BY <1>0, <3>2 DEF Goto
    <3>3. QED BY <1>4, <3>1, <3>2 DEF WorkerGet
  <2>3. QED BY <1>0, <1>1, <2>1, <2>2 DEF Frame, Alive
<1>5. ASSUME UpdateCall(t) PROVE Frame(t)
  <2>1. /\ UNCHANGED <<handle, gen, status, waits, stopEvt>> /\ pc[t] = "got"
        /\ Sending(t, held[t], Dest[t[1]])
    BY <1>5 DEF UpdateCall
  <2>2. QED BY <1>0, <1>1, <2>1, SendingFrame DEF Frame, Alive
<1>6. ASSUME SourceCallEnd(t) PROVE Frame(t)
  <2>1. /\ UNCHANGED <<handle, gen, status, waits>> /\ pc[t] = "call"
        /\ stopEvt' = [stopEvt EXCEPT ![t[1]]["source"] = TRUE]
    BY <1>6 DEF SourceCallEnd
  <2>2. \A n \in Nodes, r \in Roles :
          stopEvt[n][r] = TRUE => stopEvt'[n][r] = TRUE
    BY <1>0, <2>1
  <2>3. \A x \in Threads \ {t} : pc'[x] = pc[x] /\ held'[x] = held[x]
    <3>1. PICK sig \in SourceEnd : Sending(t, Control(sig), <<t[1]>>)
      BY <1>6 DEF SourceCallEnd
    <3>2. QED BY <1>0, <3>1, SendingFrame
  <2>4. QED BY <1>0, <1>1, <2>1, <2>2, <2>3 DEF Frame, Alive
<1>7. ASSUME SourceEmit(t) PROVE Frame(t)
  <2>1. /\ UNCHANGED <<handle, gen, status, waits, stopEvt>> /\ pc[t] = "emit"
    BY <1>7 DEF SourceEmit
  <2>2. \A x \in Threads \ {t} : pc'[x] = pc[x] /\ held'[x] = held[x]
    <3>1. CASE Sending(t, held[t], <<t[1]>>)
      BY <1>0, <3>1, SendingFrame
    <3>2. CASE Goto(t, "dead") /\ held' = [held EXCEPT ![t] = NoMsg]
      BY <1>0, <3>2 DEF Goto
    <3>3. QED BY <1>7, <3>1, <3>2 DEF SourceEmit
  <2>3. QED BY <1>0, <1>1, <2>1, <2>2 DEF Frame, Alive
<1> QED
  BY <1>0, <1>2, <1>3, <1>4, <1>5, <1>6, <1>7, PutFrame
  DEF DaemonStep, Worker, Update, Source

\* A control message: no other thread is stopping the node, or its update
\* thread would be gone.
LEMMA GetControlStop ==
  ASSUME NodeAssumption, TypeInv, StopInv, NEW t \in Daemons,
         UpdateGetControl(t)
  PROVE  StopInv'
<1> DEFINE n == t[1]
           m == Head(outq[n])
<1>1. PICK c \in Controls :
        /\ c[1] = n /\ pc[c] = "none"
        /\ held' = [held EXCEPT ![c] = m]
        /\ pc' = [pc EXCEPT ![c] = "ctl",
                            ![t] = IF m.kind \in Negative THEN "dead"
                                                          ELSE "top"]
  BY DEF UpdateGetControl
<1>2. /\ UNCHANGED <<handle, gen, status, waits, stopEvt>>
      /\ t[2] = "update" /\ pc[t] = "get"
  BY DEF UpdateGetControl
<1>3. /\ t \in Threads /\ c \in Threads /\ c \notin Daemons /\ t \notin Controls
      /\ n \in Nodes /\ t[3] \in 1..MaxGen /\ MaxGen \in Nat
      /\ pc \in [Threads -> Labels] /\ held \in [Threads -> Messages \cup {NoMsg}]
  BY ThreadFacts DEF TypeInv, TypeOK, NodeAssumption
<1>4. /\ \A x \in Daemons : /\ x # t => pc'[x] = pc[x]
                            /\ Alive(x)' => Alive(x)
      /\ m.kind \in Negative => pc'[t] = "dead"
  BY <1>1, <1>2, <1>3, ThreadFacts DEF Alive
<1>5. /\ \A x \in Controls \ {c} : pc'[x] = pc[x] /\ held'[x] = held[x]
      /\ pc'[c] = "ctl" /\ held'[c] = m
  BY <1>1, <1>3, ThreadFacts
<1>6. ~(gen[n] > 1) /\ Alive(t)
  BY <1>2 DEF StopInv, LiveThreads, Alive
<1>7. handle[n] = t[3] /\ handle[n] # 0
  BY <1>3, <1>6 DEF StopInv, LiveThreads
<1>8. \A x \in Controls : x[1] = n => ~Stopping(x)
  BY <1>2, <1>6 DEF StopInv, StoppingThreads
<1>9. \A x \in Controls : Stopping(x)' =>
        \/ x = c /\ m.kind \in Negative
        \/ x # c /\ Stopping(x) /\ x[1] # n
  BY <1>5, <1>8 DEF Stopping, Joining
<1>10. \A x \in Controls : Joining(x)' => x # c /\ Joining(x) /\ pc'[x] = pc[x]
  BY <1>5 DEF Joining
<1>11. \A x \in Daemons : x[1] = n /\ x[2] = "update" /\ m.kind \in Negative
                            => ~Alive(x)'
  <2> SUFFICES ASSUME NEW x \in Daemons, x[1] = n, x[2] = "update",
                      m.kind \in Negative, Alive(x)'
               PROVE  FALSE
    OBVIOUS
  <2>1. Alive(x) /\ handle[n] = x[3]
    BY <1>4 DEF StopInv, LiveThreads
  <2>2. x = t
    <3>1. x[1] = t[1] /\ x[2] = t[2] /\ x[3] = t[3]
      BY <1>2, <1>7, <2>1
    <3>2. x = <<x[1], x[2], x[3]>> /\ t = <<t[1], t[2], t[3]>>
      BY ThreadFacts
    <3>3. QED BY <3>1, <3>2
  <2>3. QED BY <1>4, <2>2 DEF Alive
<1>12. StoppedNodes'
  BY <1>2 DEF StopInv, StoppedNodes, EventsSet
<1>13. LiveThreads'
  BY <1>2, <1>4, <1>6 DEF StopInv, LiveThreads
<1>14. StoppingThreads'
  <2> SUFFICES ASSUME NEW x \in Controls
      PROVE /\ Stopping(x)' =>
                 /\ handle'[x[1]] # 0
                 /\ \A d \in Daemons : d[1] = x[1] /\ d[2] = "update" => ~Alive(d)'
                 /\ \A y \in Controls : y[1] = x[1] /\ Stopping(y)' => y = x
            /\ Joining(x)' => EventsSet(x[1])'
            /\ pc'[x] = "join" =>
                 \A d \in Daemons : d[1] = x[1] /\ Alive(d)' => d \in waits'[x]
    BY DEF StoppingThreads
  <2>1. Joining(x)' => EventsSet(x[1])'
    BY <1>2, <1>10 DEF StopInv, StoppingThreads, EventsSet
  <2>2. pc'[x] = "join" =>
          \A d \in Daemons : d[1] = x[1] /\ Alive(d)' => d \in waits'[x]
    BY <1>2, <1>4, <1>5 DEF StopInv, StoppingThreads
  <2>3. CASE x = c
    BY <1>1, <1>2, <1>7, <1>9, <1>11, <2>1, <2>2, <2>3
  <2>4. CASE x # c
    BY <1>1, <1>2, <1>4, <1>9, <2>1, <2>2, <2>4 DEF StopInv, StoppingThreads
  <2>5. QED BY <2>3, <2>4
<1> QED
  BY <1>12, <1>13, <1>14 DEF StopInv

\* start(): new threads only where there were none, so nobody is stopping the
\* node, and at the head of loops whose stop events are set since the first
\* stop().
LEMMA StartStop ==
  ASSUME NodeAssumption, TypeInv, StopInv, NEW n \in Nodes, NodeStart(n),
         \A x \in Daemons : pc'[x] = IF x \in Spawned(n) THEN "top" ELSE pc[x],
         \A x \in Controls : Stopping(x)' => Stopping(x) /\ pc'[x] = pc[x],
         waits' = waits
  PROVE  StopInv'
<1>1. /\ gen \in [Nodes -> 0..MaxGen] /\ handle \in [Nodes -> 0..MaxGen]
      /\ status \in [Nodes -> {"CONFIGURED", "RUNNING", "STOPPED"}]
      /\ MaxGen \in Nat
      /\ stopEvt' = stopEvt
  BY DEF TypeInv, TypeOK, NodeAssumption, NodeStart
<1>2. CASE handle[n] # 0
  <2>1. UNCHANGED <<gen, handle, status>> /\ \A x \in Daemons : pc'[x] = pc[x]
    BY <1>2 DEF NodeStart, MakeThreads, Spawned
  <2>2. StoppedNodes' /\ LiveThreads'
    BY <1>1, <2>1
    DEF StopInv, StoppedNodes, LiveThreads, EventsSet, Alive
  <2>3. StoppingThreads'
    BY <1>1, <2>1
    DEF StopInv, StoppingThreads, EventsSet, Alive, Stopping, Joining
  <2>4. QED BY <2>2, <2>3 DEF StopInv
<1>3. CASE handle[n] = 0
  <2>1. /\ gen' = [gen EXCEPT ![n] = gen[n] + 1]
        /\ handle' = [handle EXCEPT ![n] = gen[n] + 1]
        /\ status' = [status EXCEPT ![n] = "RUNNING"]
        /\ gen[n] + 1 \in Nat \ {0}
    BY <1>1, <1>3 DEF NodeStart, MakeThreads
  <2>2. \A x \in Daemons : x[1] = n => pc[x] \in {"none", "dead"}
    BY <1>1, <1>3, ThreadFacts DEF StopInv, LiveThreads, Alive, NodeAssumption
  <2>3. \A x \in Daemons : /\ x[1] # n => pc'[x] = pc[x]
                           /\ x[1] = n => pc'[x] \in {"none", "top", "dead"}
                           /\ x[1] = n /\ pc'[x] = "top" => x[3] = gen[n] + 1
    BY <1>3, <2>2 DEF Spawned, ThreadsOf
  <2>4. \A x \in Controls : Stopping(x)' => x[1] # n
    BY <1>3 DEF StopInv, StoppingThreads
  <2>5. StoppedNodes'
    <3> SUFFICES ASSUME NEW k \in Nodes
                 PROVE  /\ status'[k] = "STOPPED" => handle'[k] = 0
                        /\ (gen'[k] > 1 \/ (gen'[k] > 0 /\ handle'[k] = 0))
                             => EventsSet(k)'
      BY DEF StoppedNodes
    <3>1. CASE k = n
      <4>1. /\ gen'[n] = gen[n] + 1 /\ handle'[n] = gen[n] + 1
            /\ status'[n] = "RUNNING" /\ gen[n] \in Nat
        BY <1>1, <2>1
      <4>2. gen'[n] > 1 => EventsSet(n)
        BY <1>3, <4>1 DEF StopInv, StoppedNodes
      <4>3. handle'[n] # 0
        BY <2>1, <4>1
      <4>4. QED BY <1>1, <3>1, <4>1, <4>2, <4>3 DEF EventsSet
    <3>2. CASE k # n
      BY <1>1, <2>1, <3>2 DEF StopInv, StoppedNodes, EventsSet
    <3>3. QED BY <3>1, <3>2
  <2>6. LiveThreads'
    <3> SUFFICES ASSUME NEW x \in Daemons
                 PROVE  /\ Alive(x)' => handle'[x[1]] = x[3]
                        /\ gen'[x[1]] > 1 => pc'[x] \in {"none", "top", "dead"}
      BY DEF LiveThreads
    <3>1. CASE x[1] = n
      <4>1. handle'[n] = gen[n] + 1
        BY <1>1, <2>1
      <4>2. pc'[x] \in {"none", "top", "dead"}
        BY <2>3, <3>1
      <4>3. Alive(x)' => x[3] = gen[n] + 1
        BY <2>3, <3>1, <4>2 DEF Alive
      <4>4. QED BY <3>1, <4>1, <4>2, <4>3
    <3>2. CASE x[1] # n
      <4>1. x[1] \in Nodes
        BY ThreadFacts
      <4>2. handle'[x[1]] = handle[x[1]] /\ gen'[x[1]] = gen[x[1]]
        BY <1>1, <2>1, <3>2, <4>1
      <4>3. pc'[x] = pc[x]
        BY <2>3, <3>2
      <4>4. QED BY <4>2, <4>3 DEF StopInv, LiveThreads, Alive
    <3>3. QED BY <3>1, <3>2
  <2>7. StoppingThreads'
    <3> SUFFICES ASSUME NEW x \in Controls, Stopping(x)'
        PROVE /\ handle'[x[1]] # 0
              /\ \A d \in Daemons : d[1] = x[1] /\ d[2] = "update" => ~Alive(d)'
              /\ \A y \in Controls : y[1] = x[1] /\ Stopping(y)' => y = x
              /\ Joining(x)' => EventsSet(x[1])'
              /\ pc'[x] = "join" =>
                   \A d \in Daemons : d[1] = x[1] /\ Alive(d)' => d \in waits'[x]
      BY DEF StoppingThreads, Stopping, Joining
    <3>1. /\ x[1] # n /\ x[1] \in Nodes /\ Stopping(x) /\ pc'[x] = pc[x]
      BY <2>4, ThreadFacts
    <3>2. handle'[x[1]] = handle[x[1]]
      BY <1>1, <2>1, <3>1
    <3>3. \A d \in Daemons : d[1] = x[1] => pc'[d] = pc[d]
      BY <2>3, <3>1
    <3>4. QED
      BY <1>1, <3>1, <3>2, <3>3
      DEF StopInv, StoppingThreads, Joining, EventsSet, Alive
  <2>8. QED BY <2>5, <2>6, <2>7 DEF StopInv
<1> QED BY <1>2, <1>3

LEMMA StartFrame ==
  ASSUME NodeAssumption, NEW n \in Nodes
  PROVE  Spawned(n) \subseteq Daemons
  BY DEF Spawned, ThreadsOf

\* What a control thread does on its way to stop, and in join(), keeps it
\* stopping.
LEMMA JoiningStop ==
  ASSUME NodeAssumption, TypeInv, StopInv, NEW t \in Controls, Stopping(t),
         UNCHANGED <<handle, gen, status>>,
         EventsSet(t[1])',
         \A n \in Nodes : EventsSet(n) => EventsSet(n)',
         pc'[t] \in {"pend", "list", "join"},
         \A x \in Threads \ {t} : pc'[x] = pc[x] /\ held'[x] = held[x]
                                  /\ waits'[x] = waits[x],
         pc'[t] = "join" => \A d \in Daemons :
                              d[1] = t[1] /\ Alive(d) => d \in waits'[t]
  PROVE  StopInv'
<1>1. \A x \in Daemons : pc'[x] = pc[x] /\ x[1] \in Nodes
  BY ThreadFacts
<1>2. /\ \A x \in Controls \ {t} : pc'[x] = pc[x] /\ held'[x] = held[x]
                                   /\ waits'[x] = waits[x]
      /\ \A x \in Controls : x[1] \in Nodes
  BY ThreadFacts
<1>3. \A x \in Controls : Stopping(x)' => Stopping(x)
  BY <1>2 DEF Stopping, Joining
<1>4. StoppedNodes' /\ LiveThreads'
  BY <1>1 DEF StopInv, StoppedNodes, LiveThreads, Alive
<1>5. StoppingThreads'
  <2>1. \A x \in Controls : Joining(x)' => EventsSet(x[1])'
    BY <1>2 DEF StopInv, StoppingThreads, Joining
  <2>2. \A x \in Controls : pc'[x] = "join" =>
          \A d \in Daemons : d[1] = x[1] /\ Alive(d)' => d \in waits'[x]
    BY <1>1, <1>2 DEF StopInv, StoppingThreads, Alive
  <2>3. QED
    BY <1>1, <1>3, <2>1, <2>2 DEF StopInv, StoppingThreads, Alive
<1> QED BY <1>4, <1>5 DEF StopInv

LEMMA ControlStopping ==
  ASSUME NodeAssumption, JoinMayTimeOut = FALSE, TypeInv, StopInv,
         NEW t \in Controls, ControlThread(t)
  PROVE  StopInv'
<1> DEFINE n == t[1]
<1>0. /\ t \in Threads /\ n \in Nodes /\ t[2] = "control" /\ t \notin Daemons
      /\ pc \in [Threads -> Labels] /\ held \in [Threads -> Messages \cup {NoMsg}]
      /\ waits \in [Threads -> SUBSET Daemons]
      /\ handle \in [Nodes -> 0..MaxGen]
      /\ status \in [Nodes -> {"CONFIGURED", "RUNNING", "STOPPED"}]
      /\ stopEvt \in [Nodes -> [Roles -> BOOLEAN]]
  BY ThreadFacts DEF TypeInv, TypeOK
<1>1. ASSUME ControlSuspend(t) PROVE StopInv'
  <2>1. Frame(t)
    BY <1>0, <1>1 DEF ControlSuspend, Goto, Frame, Stopping, Joining
  <2>2. QED BY <1>0, <2>1, FrameStop
<1>2. ASSUME ControlStart(t) PROVE StopInv'
  <2>1. /\ NodeStart(n) /\ waits' = waits
        /\ held' = [held EXCEPT ![t] = NoMsg]
        /\ pc' = [x \in Threads |-> IF x \in Spawned(n) THEN "top"
                                    ELSE IF x = t THEN "none" ELSE pc[x]]
    BY <1>2 DEF ControlStart
  <2>2. \A x \in Daemons : pc'[x] = IF x \in Spawned(n) THEN "top" ELSE pc[x]
    BY <1>0, <2>1, ThreadFacts
  <2>3. \A x \in Controls : Stopping(x)' => Stopping(x) /\ pc'[x] = pc[x]
    <3>1. \A x \in Controls : x \in Threads /\ x \notin Spawned(n)
      BY <1>0, StartFrame, ThreadFacts
    <3>2. \A x \in Controls : /\ pc'[x] = IF x = t THEN "none" ELSE pc[x]
                              /\ x # t => held'[x] = held[x]
      BY <1>0, <2>1, <3>1
    <3>3. QED BY <3>2 DEF Stopping, Joining
  <2>4. QED BY <1>0, <2>1, <2>2, <2>3, StartStop
<1>3. ASSUME ControlStop(t) PROVE StopInv'
  <2>1. Stopping(t)
    BY <1>3 DEF ControlStop, Stopping
  <2>2. status[n] # "STOPPED"
    BY <1>0, <2>1 DEF StopInv, StoppedNodes, StoppingThreads
  <2>3. /\ stopEvt' = [stopEvt EXCEPT ![n] = [r \in Roles |-> TRUE]]
        /\ pc' = [pc EXCEPT ![t] = "pend"]
        /\ UNCHANGED <<handle, gen, status, held, waits>>
    BY <1>3, <2>2 DEF ControlStop, Goto
  <2>4. /\ EventsSet(n)'
        /\ \A k \in Nodes : EventsSet(k) => EventsSet(k)'
    BY <1>0, <2>3 DEF EventsSet
  <2>5. /\ \A x \in Threads \ {t} : pc'[x] = pc[x] /\ held'[x] = held[x]
                                    /\ waits'[x] = waits[x]
        /\ pc'[t] = "pend"
    BY <1>0, <2>3
  <2>6. QED BY <2>1, <2>3, <2>4, <2>5, JoiningStop
<1>4. ASSUME JoinPending(t, n) PROVE StopInv'
  <2>1. /\ pc[t] = "pend" /\ pc' = [pc EXCEPT ![t] = "list"]
        /\ UNCHANGED <<handle, gen, status, held, waits, stopEvt>>
    BY <1>4 DEF JoinPending, Goto
  <2>2. Stopping(t) /\ EventsSet(n)
    BY <2>1 DEF Stopping, Joining, StopInv, StoppingThreads
  <2>3. /\ \A k \in Nodes : EventsSet(k) => EventsSet(k)'
        /\ EventsSet(n)'
    BY <2>1, <2>2 DEF EventsSet
  <2>4. /\ \A x \in Threads \ {t} : pc'[x] = pc[x] /\ held'[x] = held[x]
                                    /\ waits'[x] = waits[x]
        /\ pc'[t] = "list"
    BY <1>0, <2>1
  <2>5. QED BY <2>1, <2>2, <2>3, <2>4, JoiningStop
<1>5. ASSUME JoinList(t, n) PROVE StopInv'
  <2>1. /\ pc[t] = "list" /\ pc' = [pc EXCEPT ![t] = "join"]
        /\ UNCHANGED <<handle, gen, status, held, stopEvt>>
        /\ waits' = [waits EXCEPT ![t] =
             {x \in ThreadsOf(n, handle[n]) : pc[x] # "dead"}]
    BY <1>5 DEF JoinList, Goto
  <2>2. Stopping(t) /\ EventsSet(n)
    BY <2>1 DEF Stopping, Joining, StopInv, StoppingThreads
  <2>3. /\ \A k \in Nodes : EventsSet(k) => EventsSet(k)'
        /\ EventsSet(n)'
    BY <2>1, <2>2 DEF EventsSet
  <2>4. /\ \A x \in Threads \ {t} : pc'[x] = pc[x] /\ held'[x] = held[x]
                                    /\ waits'[x] = waits[x]
        /\ pc'[t] = "join"
    BY <1>0, <2>1
  <2>5. ASSUME NEW d \in Daemons, d[1] = n, Alive(d) PROVE d \in waits'[t]
    <3>1. d[3] = handle[n] /\ pc[d] # "dead" /\ pc[d] # "none"
      BY <2>5 DEF StopInv, LiveThreads, Alive
    <3>2. d[2] \in RolesOf(n)
      BY <2>5, <3>1, ThreadFacts DEF TypeInv, Hands, RolesOf
    <3>3. d \in ThreadsOf(n, handle[n])
      BY <2>5, <3>1, <3>2 DEF ThreadsOf
    <3>4. QED BY <1>0, <2>1, <3>1, <3>3
  <2>6. QED BY <2>1, <2>2, <2>3, <2>4, <2>5, JoiningStop
<1>6. ASSUME ControlStopEnd(t) PROVE StopInv'
  <2>1. /\ pc[t] = "join"
        /\ \A x \in waits[t] : pc[x] = "dead"
        /\ waits' = [waits EXCEPT ![t] = {}]
        /\ handle' = [handle EXCEPT ![n] = 0]
        /\ status' = [status EXCEPT ![n] = "STOPPED"]
        /\ UNCHANGED <<gen, stopEvt>>
    BY <1>6 DEF ControlStopEnd, Joined
  <2>2. /\ \A x \in Threads \ {t} : pc'[x] = pc[x] /\ held'[x] = held[x]
        /\ pc'[t] \in {"top", "finally", "none", "drive", "put"}
    BY <1>0, <1>6, SendingFrame DEF ControlStopEnd, AfterStop
  <2>3. Stopping(t) /\ EventsSet(n)
    BY <2>1 DEF Stopping, Joining, StopInv, StoppingThreads
  <2>4. \A d \in Daemons : d[1] = n => ~Alive(d)
    BY <2>1 DEF StopInv, StoppingThreads, Alive
  <2>5. \A x \in Daemons : pc'[x] = pc[x] /\ x[1] \in Nodes
    BY <1>0, <2>2, ThreadFacts
  <2>6. \A x \in Controls : Stopping(x)' =>
          /\ x # t /\ Stopping(x) /\ pc'[x] = pc[x] /\ waits'[x] = waits[x]
          /\ x[1] # n /\ x[1] \in Nodes
    <3>1. \A x \in Controls : Stopping(x)' => x # t /\ Stopping(x) /\ pc'[x] = pc[x]
      BY <2>2, ThreadFacts DEF Stopping, Joining
    <3>2. \A x \in Controls : x # t => waits'[x] = waits[x]
      BY <1>0, <2>1, ThreadFacts
    <3>3. \A x \in Controls : x # t /\ Stopping(x) => x[1] # n
      BY <2>3 DEF StopInv, StoppingThreads
    <3>4. QED BY <3>1, <3>2, <3>3, ThreadFacts
  <2>7. StoppedNodes'
    BY <1>0, <2>1, <2>3 DEF StopInv, StoppedNodes, EventsSet
  <2>8. LiveThreads'
    BY <1>0, <2>1, <2>4, <2>5 DEF StopInv, LiveThreads, Alive
  <2>9. StoppingThreads'
    <3> SUFFICES ASSUME NEW x \in Controls, Stopping(x)'
        PROVE /\ handle'[x[1]] # 0
              /\ \A d \in Daemons : d[1] = x[1] /\ d[2] = "update" => ~Alive(d)'
              /\ \A y \in Controls : y[1] = x[1] /\ Stopping(y)' => y = x
              /\ Joining(x)' => EventsSet(x[1])'
              /\ pc'[x] = "join" =>
                   \A d \in Daemons : d[1] = x[1] /\ Alive(d)' => d \in waits'[x]
      BY DEF StoppingThreads, Stopping, Joining
    <3>1. handle'[x[1]] = handle[x[1]] /\ stopEvt' = stopEvt
      BY <1>0, <2>1, <2>6
    <3>2. QED
      BY <2>5, <2>6, <3>1
      DEF StopInv, StoppingThreads, Joining, EventsSet, Alive
  <2>10. QED BY <2>7, <2>8, <2>9 DEF StopInv
<1>7. ASSUME Put(t) PROVE StopInv'
  BY <1>0, <1>7, PutFrame, FrameStop
<1> QED
  BY <1>1, <1>2, <1>3, <1>4, <1>5, <1>6, <1>7 DEF ControlThread

\* The user's thread joins nodes without writing their status.
LEMMA CallStop ==
  ASSUME NodeAssumption, PipelineAssumption, TypeInv, StopInv,
         UserCall \/ InCall
  PROVE  StopInv'
<1>0. /\ User \in Threads /\ User \notin Daemons /\ User \notin Controls
      /\ Here \in Nodes
      /\ pc \in [Threads -> Labels] /\ held \in [Threads -> Messages \cup {NoMsg}]
      /\ waits \in [Threads -> SUBSET Daemons]
  BY ThreadFacts, HereType DEF TypeInv, TypeOK
<1>1. CASE StartNode
  <2>1. /\ NodeStart(Here) /\ waits' = waits /\ held' = held
        /\ pc' = [t \in Threads |-> IF t \in Spawned(Here) THEN "top"
                                    ELSE pc[t]]
    BY <1>1 DEF StartNode
  <2>2. /\ \A x \in Daemons : pc'[x] = IF x \in Spawned(Here) THEN "top" ELSE pc[x]
        /\ \A x \in Controls : pc'[x] = pc[x]
    BY <1>0, <2>1, ThreadFacts, StartFrame
  <2>3. \A x \in Controls : Stopping(x)' => Stopping(x) /\ pc'[x] = pc[x]
    BY <2>1, <2>2 DEF Stopping, Joining
  <2>4. QED BY <1>0, <2>1, <2>2, <2>3, StartStop
<1>2. CASE Start \/ Stop
  BY <1>0, <1>2, FrameStop DEF Start, Stop, nodeVars, Frame
<1>3. ASSUME NEW m, NEW ds, Sending(User, m, ds),
             UNCHANGED <<handle, gen, status, waits, stopEvt>>
      PROVE  StopInv'
  BY <1>0, <1>3, SendingFrame, FrameStop DEF Frame
<1>4. CASE StopPut \/ \E n \in Nodes, sig \in UserSignals : Signal(n, sig)
  BY <1>3, <1>4 DEF StopPut, Signal
<1>5. CASE StopJoin \/ StopJoined \/ JoinPending(User, Here) \/ JoinList(User, Here)
  <2>1. /\ UNCHANGED <<handle, gen, status, stopEvt, held>>
        /\ \A x \in Threads \ {User} : pc'[x] = pc[x] /\ waits'[x] = waits[x]
    BY <1>0, <1>5 DEF StopJoin, StopJoined, Joined, JoinPending, JoinList, Goto
  <2>2. QED BY <1>0, <2>1, FrameStop DEF Frame
<1>6. CASE Put(User)
  BY <1>0, <1>6, PutFrame, FrameStop
<1> QED
  BY <1>1, <1>2, <1>4, <1>5, <1>6 DEF UserCall, InCall

LEMMA NextStop ==
  ASSUME NodeAssumption, PipelineAssumption, JoinMayTimeOut = FALSE,
         TypeInv, StopInv, [Next]_vars
  PROVE  StopInv'
<1>1. CASE UNCHANGED vars
  BY <1>1
  DEF vars, StopInv, StoppedNodes, LiveThreads, StoppingThreads, Alive,
      EventsSet, Stopping, Joining
<1>2. ASSUME NEW t \in Daemons, DaemonStep(t) PROVE StopInv'
  BY <1>2, ThreadFacts, GetControlStop, DaemonFrame, FrameStop
<1>3. ASSUME NEW t \in Controls, ControlThread(t) PROVE StopInv'
  BY <1>3, ControlStopping
<1> QED
  BY <1>1, <1>2, <1>3, CallStop DEF Next, ThreadStep, NodeStep

LEMMA StoppingIsFinal ==
  ASSUME JoinMayTimeOut = FALSE
  PROVE  Spec => [](TypeInv /\ StopInv)
<1> USE NodeAssumption, PipelineAssumption
<1>1. Init => TypeInv /\ StopInv
  <2>1. ASSUME Init PROVE StopInv
    BY <2>1, ThreadFacts
    DEF Init, NodeInit, StopInv, StoppedNodes, LiveThreads, StoppingThreads,
        Alive, EventsSet, Stopping, Joining
  <2>2. QED BY <2>1, InitType
<1>2. TypeInv /\ StopInv /\ [Next]_vars => (TypeInv /\ StopInv)'
  BY NextStop, NextType
<1> QED
  BY <1>1, <1>2, PTL DEF Spec

\* If join() waits as long as it takes, a node that reports STOPPED has no
\* thread left: stop() writes the status only after join() (_node.py, stop).
THEOREM StoppedNodesAreQuiet ==
  ASSUME JoinMayTimeOut = FALSE
  PROVE  Spec => []StoppedIsQuiet
<1>1. TypeInv /\ StopInv => StoppedIsQuiet
  BY ThreadFacts, NodeAssumption
  DEF StopInv, StoppedNodes, LiveThreads, StoppedIsQuiet, DaemonsOf
<1> QED
  BY <1>1, StoppingIsFinal, PTL

\* The invariant itself: a stopped node has its stop events set for good, only
\* threads it has handles of get further than the head of their loops, and one
\* control thread at a time stops it, with the update thread gone (_node.py,
\* stop, join and the loops).
THEOREM StopsAreOrderly ==
  ASSUME JoinMayTimeOut = FALSE
  PROVE  Spec => []StopInv
<1>1. TypeInv /\ StopInv => StopInv
  OBVIOUS
<1> QED
  BY <1>1, StoppingIsFinal, PTL

\* Only update() is given messages, by the update thread.
LEMMA ReceivedOnly ==
  ASSUME [Next]_vars, received' # received
  PROVE  \E t \in Daemons : /\ t[2] = "update" /\ (UpdateCall(t) \/ UpdateRaise(t))
                            /\ UNCHANGED <<pstatus, cur>>
<1>1. ASSUME NEW t, Put(t) PROVE received' = received
  BY <1>1 DEF Put, PutDiscard, PutAccept, Enqueue
<1>2. ASSUME UserCall \/ InCall PROVE received' = received
  BY <1>1, <1>2
  DEF UserCall, InCall, Start, Stop, Signal, StartNode, StopPut, StopJoin,
      StopJoined, JoinPending, JoinList, nodeVars
<1>3. ASSUME NEW t, ControlThread(t) PROVE received' = received
  BY <1>1, <1>3
  DEF ControlThread, ControlSuspend, ControlStart, ControlStop, ControlStopEnd,
      JoinPending, JoinList
<1>4. ASSUME NEW t, Worker(t) \/ Source(t) PROVE received' = received
  BY <1>1, <1>4
  DEF Worker, Source, LoopTop, GetEmpty, WorkerGet, WorkerStore, SourceCall,
      SourceCallEnd, SourceCallLate, SourceEmit
<1>5. ASSUME NEW t, Update(t), ~UpdateCall(t), ~UpdateRaise(t)
      PROVE  received' = received
  BY <1>1, <1>5
  DEF Update, LoopTop, GetEmpty, UpdateGetControl, UpdateGetData, UpdateFinally
<1>6. received' = received \/ Next
  BY DEF vars
<1> QED
  BY <1>2, <1>3, <1>4, <1>5, <1>6 DEF Next, ThreadStep, NodeStep, DaemonStep

\* Then nothing is processed by the threads of a second start(), however often
\* nodes are started and whoever asks for it (_node.py, start and the loops).
THEOREM RestartsAreInert ==
  ASSUME JoinMayTimeOut = FALSE
  PROVE  Spec => RestartIsInert
<1>1. ASSUME TypeInv, StopInv, [Next]_vars
      PROVE  \A n \in Nodes : gen[n] > 1 => received'[n] = received[n]
  <2> SUFFICES ASSUME NEW n \in Nodes, gen[n] > 1, received'[n] # received[n]
               PROVE  FALSE
    OBVIOUS
  <2>1. PICK t \in Daemons : UpdateCall(t) \/ UpdateRaise(t)
    BY <1>1, ReceivedOnly
  <2>2. /\ pc[t] = "got"
        /\ received' = [received EXCEPT ![t[1]] = Append(@, held[t].id)]
    BY <2>1 DEF UpdateCall, UpdateRaise
  <2>3. t[1] = n
    BY <2>2 DEF TypeInv, TypeOK
  <2>4. QED
    BY <1>1, <2>2, <2>3 DEF StopInv, LiveThreads
<1>2. TypeInv /\ StopInv /\ [Next]_vars =>
        [\A n \in Nodes : gen[n] > 1 => received'[n] = received[n]]_vars
  BY <1>1
<1> QED
  BY <1>2, StoppingIsFinal, PTL DEF Spec, RestartIsInert
=============================================================================
