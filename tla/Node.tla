-------------------------------- MODULE Node --------------------------------
(***************************************************************************)
(* The threads of Juturna's nodes (juturna/components/_node.py), for the   *)
(* default synchroniser: passthrough marks the message just stored, so a   *)
(* Buffer never keeps anything and Buffer.put is one put on _out_queue.    *)
(*                                                                         *)
(* A thread is a triple <<owner, role, k>>: k is the generation of a       *)
(* worker, update or source thread (start() makes a new one after a        *)
(* stop()), or the slot of a control thread. A thread's private state is   *)
(* its label pc, the message it holds, the destinations its running        *)
(* transmit() has yet to serve, and the threads its running join() waits   *)
(* for. Message ids, telemetry and log lines are not modelled here.        *)
(***************************************************************************)
EXTENDS Integers, Sequences, FiniteSets

CONSTANTS
  Nodes,            \* node names
  Pipe,             \* the pipeline's name, owner of the thread calling its API
  Dest,             \* _destinations of each node, in insertion order
  Sources,          \* nodes with a source function
  Fails,            \* nodes whose update() may raise
  MaxQueue,         \* JUTURNA_MAX_QUEUE_SIZE
  JoinMayTimeOut,   \* may a thread outlive JUTURNA_THREAD_JOIN_TIMEOUT?
  SourceEnd,        \* signals a source function may return after its data
  MaxData,          \* bound: data messages one source function returns
  MaxGen,           \* bound: times a node's threads are created
  MaxControl        \* bound: control threads of a node alive at a time

Signals == {"STOP", "STOP_PROPAGATE", "START", "SUSPEND", "RESUME"}
Negative == {"STOP", "STOP_PROPAGATE"}

ASSUME NodeAssumption ==
  /\ Pipe \notin Nodes
  /\ Dest \in [Nodes -> Seq(Nodes)]
  /\ Sources \subseteq Nodes
  /\ Fails \subseteq Nodes
  /\ MaxQueue \in Nat \ {0}
  /\ JoinMayTimeOut \in BOOLEAN
  /\ SourceEnd \subseteq Negative
  /\ MaxData \in Nat
  /\ MaxGen \in Nat \ {0}
  /\ MaxControl \in Nat \ {0}

(***************************************************************************)
(* Messages: data carries the id of the source message it derives from.    *)
(***************************************************************************)
Ids == Sources \X (1..MaxData)
NoId == <<Pipe, 0>>
Data(id) == [kind |-> "DATA", id |-> id]
Control(sig) == [kind |-> sig, id |-> NoId]
NoMsg == [kind |-> "NONE", id |-> NoId]
IsControl(m) == m.kind \in Signals
DataMessages == [kind : {"DATA"}, id : Ids]
Messages == DataMessages \cup [kind : Signals, id : {NoId}]

(***************************************************************************)
(* Threads and their labels.                                               *)
(***************************************************************************)
Roles == {"worker", "update", "source"}
Daemons == Nodes \X Roles \X (1..MaxGen)
Controls == Nodes \X {"control"} \X (1..MaxControl)
User == <<Pipe, "user", 1>>
Threads == Daemons \cup Controls \cup {User}

Labels == {"none", "dead", "top", "get", "store", "call", "emit", "got",
           "raising", "finally", "put", "enq", "ctl", "pend", "list",
           "join", "drive"}

VARIABLES
  queue,      \* _queue of each node: the inbound FIFO
  outq,       \* _buffer._out_queue of each node
  draining,   \* _draining of each node
  stopEvt,    \* _stop_{worker,update,source}_event of each node
  pending,    \* _pending_updates of each node
  suspended,  \* _suspended of each node
  status,     \* _status of each node
  handle,     \* generation in _{worker,update,source}_thread, 0 for None
  gen,        \* generations of threads each node has had
  produced,   \* calls of _source_f that returned a message
  received,   \* history: ids each node's update() has been given
  relayed,    \* history: ids each node relayed while suspended
  pc, held, todo, waits   \* private state of the threads

nodeVars == <<queue, outq, draining, stopEvt, pending, suspended, status,
              handle, gen, produced, received, relayed, pc, held, todo,
              waits>>

-----------------------------------------------------------------------------
NodeInit ==
  /\ queue = [n \in Nodes |-> <<>>]
  /\ outq = [n \in Nodes |-> <<>>]
  /\ draining = [n \in Nodes |-> FALSE]
  /\ stopEvt = [n \in Nodes |-> [r \in Roles |-> FALSE]]
  /\ pending = [n \in Nodes |-> 0]
  /\ suspended = [n \in Nodes |-> FALSE]
  /\ status = [n \in Nodes |-> "CONFIGURED"]
  /\ handle = [n \in Nodes |-> 0]
  /\ gen = [n \in Nodes |-> 0]
  /\ produced = [n \in Nodes |-> 0]
  /\ received = [n \in Nodes |-> <<>>]
  /\ relayed = [n \in Nodes |-> {}]
  /\ pc = [t \in Threads |-> IF t = User THEN "drive" ELSE "none"]
  /\ held = [t \in Threads |-> NoMsg]
  /\ todo = [t \in Threads |-> <<>>]
  /\ waits = [t \in Threads |-> {}]

Goto(t, label) == pc' = [pc EXCEPT ![t] = label]

\* Where a thread goes on once put(), transmit() or join() has returned. A
\* control thread is over; its slot is free again.
AfterCall == [worker |-> "top", source |-> "top", update |-> "finally",
              control |-> "none", user |-> "drive"]

Resume(t) == AfterCall[t[2]]

\* The call of transmit() or put() on the destinations ds, in their order.
Sending(t, m, ds) ==
  /\ todo' = [todo EXCEPT ![t] = ds]
  /\ held' = [held EXCEPT ![t] = IF ds = <<>> THEN NoMsg ELSE m]
  /\ Goto(t, IF ds = <<>> THEN Resume(t) ELSE "put")

Served(t) == Sending(t, held[t], Tail(todo[t]))

-----------------------------------------------------------------------------
(***************************************************************************)
(* Node.put, called by any thread: the draining test and the blocking      *)
(* Queue.put are two steps, with room for other threads in between.        *)
(***************************************************************************)
PutDiscard(t) ==
  /\ pc[t] = "put"
  /\ draining[Head(todo[t])]
  /\ Served(t)
  /\ UNCHANGED <<queue, outq, draining, stopEvt, pending, suspended, status,
                 handle, gen, produced, received, relayed, waits>>

PutAccept(t) ==
  /\ pc[t] = "put"
  /\ ~draining[Head(todo[t])]
  /\ Goto(t, "enq")
  /\ UNCHANGED <<queue, outq, draining, stopEvt, pending, suspended, status,
                 handle, gen, produced, received, relayed, held, todo, waits>>

\* Mutant: put_nowait() with queue.Full swallowed.
EnqueueOrDrop(t) ==
  LET d == Head(todo[t]) IN
  /\ pc[t] = "enq"
  /\ queue' = IF Len(queue[d]) < MaxQueue
              THEN [queue EXCEPT ![d] = Append(@, held[t])] ELSE queue
  /\ Served(t)
  /\ UNCHANGED <<outq, draining, stopEvt, pending, suspended, status,
                 handle, gen, produced, received, relayed, waits>>

Enqueue(t) ==
  LET d == Head(todo[t]) IN
  /\ pc[t] = "enq"
  /\ Len(queue[d]) < MaxQueue
  /\ queue' = [queue EXCEPT ![d] = Append(@, held[t])]
  /\ Served(t)
  /\ UNCHANGED <<outq, draining, stopEvt, pending, suspended, status,
                 handle, gen, produced, received, relayed, waits>>

Put(t) == PutDiscard(t) \/ PutAccept(t) \/ Enqueue(t)

-----------------------------------------------------------------------------
(***************************************************************************)
(* The head of the three loops: leave once the stop event is set. A source *)
(* then calls its function, the others get() with a timeout, which gives   *)
(* up only on an empty queue.                                              *)
(***************************************************************************)
LoopTop(t) ==
  /\ pc[t] = "top"
  /\ Goto(t, IF stopEvt[t[1]][t[2]] THEN "dead"
             ELSE IF t[2] = "source" THEN "call" ELSE "get")
  /\ UNCHANGED <<queue, outq, draining, stopEvt, pending, suspended, status,
                 handle, gen, produced, received, relayed, held, todo, waits>>

GetEmpty(t) ==
  /\ pc[t] = "get"
  /\ \/ t[2] = "worker" /\ queue[t[1]] = <<>>
     \/ t[2] = "update" /\ outq[t[1]] = <<>>
  /\ Goto(t, "top")
  /\ UNCHANGED <<queue, outq, draining, stopEvt, pending, suspended, status,
                 handle, gen, produced, received, relayed, held, todo, waits>>

(***************************************************************************)
(* _worker: a suspended node relays data from here, past the buffer.       *)
(***************************************************************************)
WorkerGet(t) ==
  LET n == t[1]
      m == Head(queue[n])
  IN
  /\ t[2] = "worker" /\ pc[t] = "get"
  /\ queue[n] # <<>>
  /\ queue' = [queue EXCEPT ![n] = Tail(@)]
  /\ IF suspended[n] /\ ~IsControl(m)
     THEN /\ Sending(t, m, Dest[n])
          /\ relayed' = [relayed EXCEPT ![n] = @ \cup {m.id}]
     ELSE /\ held' = [held EXCEPT ![t] = m]
          /\ Goto(t, "store")
          /\ UNCHANGED <<todo, relayed>>
  /\ UNCHANGED <<outq, draining, stopEvt, pending, suspended, status,
                 handle, gen, produced, received, waits>>

\* Buffer.put: the out queue has the same bound as the inbound one.
WorkerStore(t) ==
  LET n == t[1] IN
  /\ pc[t] = "store"
  /\ Len(outq[n]) < MaxQueue
  /\ outq' = [outq EXCEPT ![n] = Append(@, held[t])]
  /\ held' = [held EXCEPT ![t] = NoMsg]
  /\ Goto(t, "top")
  /\ UNCHANGED <<queue, draining, stopEvt, pending, suspended, status,
                 handle, gen, produced, received, relayed, todo, waits>>

-----------------------------------------------------------------------------
(***************************************************************************)
(* _update: a control message gets a thread of its own, and a negative     *)
(* signal ends the loop; a batch is in hand before it counts as pending.   *)
(***************************************************************************)
UpdateGetControl(t) ==
  LET n == t[1]
      m == Head(outq[n])
  IN
  /\ t[2] = "update" /\ pc[t] = "get"
  /\ outq[n] # <<>>
  /\ IsControl(m)
  /\ outq' = [outq EXCEPT ![n] = Tail(@)]
  /\ \E c \in {x \in Controls : x[1] = n} :
       /\ pc[c] = "none"
       /\ \A x \in Controls : x[1] = n /\ x[3] < c[3] => pc[x] # "none"
       /\ held' = [held EXCEPT ![c] = m]
       /\ pc' = [pc EXCEPT ![c] = "ctl",
                           ![t] = IF m.kind \in Negative THEN "dead"
                                                         ELSE "top"]
  /\ UNCHANGED <<queue, draining, stopEvt, pending, suspended, status,
                 handle, gen, produced, received, relayed, todo, waits>>

\* Mutant: the batch is read but not removed.
UpdatePeekData(t) ==
  /\ t[2] = "update" /\ pc[t] = "get"
  /\ outq[t[1]] # <<>>
  /\ ~IsControl(Head(outq[t[1]]))
  /\ held' = [held EXCEPT ![t] = Head(outq[t[1]])]
  /\ Goto(t, "got")
  /\ UNCHANGED <<queue, outq, draining, stopEvt, pending, suspended, status,
                 handle, gen, produced, received, relayed, todo, waits>>

UpdateGetData(t) ==
  LET n == t[1]
      m == Head(outq[n])
  IN
  /\ t[2] = "update" /\ pc[t] = "get"
  /\ outq[n] # <<>>
  /\ ~IsControl(m)
  /\ outq' = [outq EXCEPT ![n] = Tail(@)]
  /\ held' = [held EXCEPT ![t] = m]
  /\ Goto(t, "got")
  /\ UNCHANGED <<queue, draining, stopEvt, pending, suspended, status,
                 handle, gen, produced, received, relayed, todo, waits>>

\* update() as the nodes built into Juturna's tests and plugins write it: one
\* message transmitted for one received.
UpdateCall(t) ==
  LET n == t[1] IN
  /\ pc[t] = "got"
  /\ pending' = [pending EXCEPT ![n] = @ + 1]
  /\ received' = [received EXCEPT ![n] = Append(@, held[t].id)]
  /\ Sending(t, held[t], Dest[n])
  /\ UNCHANGED <<queue, outq, draining, stopEvt, suspended, status,
                 handle, gen, produced, relayed, waits>>

\* update() that raises: nothing catches it in _update.
UpdateRaise(t) ==
  LET n == t[1] IN
  /\ pc[t] = "got" /\ n \in Fails
  /\ pending' = [pending EXCEPT ![n] = @ + 1]
  /\ received' = [received EXCEPT ![n] = Append(@, held[t].id)]
  /\ held' = [held EXCEPT ![t] = NoMsg]
  /\ Goto(t, "raising")
  /\ UNCHANGED <<queue, outq, draining, stopEvt, suspended, status,
                 handle, gen, produced, relayed, todo, waits>>

\* Mutant: the decrement after update(), not in a finally clause.
UpdateNotFinally(t) ==
  /\ pc[t] \in {"finally", "raising"}
  /\ pending' = IF pc[t] = "finally" THEN [pending EXCEPT ![t[1]] = @ - 1]
                                     ELSE pending
  /\ Goto(t, IF pc[t] = "finally" THEN "top" ELSE "dead")
  /\ UNCHANGED <<queue, outq, draining, stopEvt, suspended, status, handle,
                 gen, produced, received, relayed, held, todo, waits>>

\* The finally clause, on the way to the next batch or out of the thread.
UpdateFinally(t) ==
  /\ pc[t] \in {"finally", "raising"}
  /\ pending' = [pending EXCEPT ![t[1]] = @ - 1]
  /\ Goto(t, IF pc[t] = "finally" THEN "top" ELSE "dead")
  /\ UNCHANGED <<queue, outq, draining, stopEvt, suspended, status,
                 handle, gen, produced, received, relayed, held, todo, waits>>

-----------------------------------------------------------------------------
(***************************************************************************)
(* _source: _source_f() may take arbitrarily long; what it returns after   *)
(* the stop event is thrown away.                                          *)
(***************************************************************************)
SourceCall(t) ==
  LET n == t[1] IN
  /\ pc[t] = "call"
  /\ produced[n] < MaxData
  /\ produced' = [produced EXCEPT ![n] = @ + 1]
  /\ held' = [held EXCEPT ![t] = Data(<<n, produced'[n]>>)]
  /\ Goto(t, "emit")
  /\ UNCHANGED <<queue, outq, draining, stopEvt, pending, suspended, status,
                 handle, gen, received, relayed, todo, waits>>

SourceCallEnd(t) ==
  LET n == t[1] IN
  /\ pc[t] = "call"
  /\ produced[n] = MaxData
  /\ \E sig \in SourceEnd : Sending(t, Control(sig), <<n>>)
  /\ produced' = [produced EXCEPT ![n] = @ + 1]
  /\ stopEvt' = [stopEvt EXCEPT ![n]["source"] = TRUE]
  /\ UNCHANGED <<queue, outq, draining, pending, suspended, status,
                 handle, gen, received, relayed, waits>>

\* A function with no more data of interest returns only after the stop.
SourceCallLate(t) ==
  /\ pc[t] = "call"
  /\ produced[t[1]] >= MaxData
  /\ stopEvt[t[1]]["source"]
  /\ Goto(t, "dead")
  /\ UNCHANGED <<queue, outq, draining, stopEvt, pending, suspended, status,
                 handle, gen, produced, received, relayed, held, todo, waits>>

SourceEmit(t) ==
  LET n == t[1] IN
  /\ pc[t] = "emit"
  /\ IF stopEvt[n]["source"]
     THEN /\ Goto(t, "dead")
          /\ held' = [held EXCEPT ![t] = NoMsg]
          /\ UNCHANGED todo
     ELSE Sending(t, held[t], <<n>>)
  /\ UNCHANGED <<queue, outq, draining, stopEvt, pending, suspended, status,
                 handle, gen, produced, received, relayed, waits>>

-----------------------------------------------------------------------------
(***************************************************************************)
(* start(): threads are made only where the handle is None; the stop       *)
(* events are left as they are.                                            *)
(***************************************************************************)
RolesOf(n) == IF n \in Sources THEN Roles ELSE Roles \ {"source"}

ThreadsOf(n, k) ==
  {x \in Daemons : x[1] = n /\ x[2] \in RolesOf(n) /\ x[3] = k}

MakeThreads(n) ==
  /\ draining' = [draining EXCEPT ![n] = FALSE]
  /\ IF handle[n] = 0
     THEN /\ gen[n] < MaxGen
          /\ gen' = [gen EXCEPT ![n] = @ + 1]
          /\ handle' = [handle EXCEPT ![n] = gen[n] + 1]
          /\ status' = [status EXCEPT ![n] = "RUNNING"]
     ELSE UNCHANGED <<gen, handle, status>>

\* Mutant: the stop events are cleared as well.
NodeRestart(n) ==
  /\ MakeThreads(n)
  /\ stopEvt' = [stopEvt EXCEPT ![n] = [r \in Roles |-> FALSE]]

NodeStart(n) == MakeThreads(n) /\ UNCHANGED stopEvt

Spawned(n) == IF handle[n] = 0 THEN ThreadsOf(n, gen[n] + 1) ELSE {}

(***************************************************************************)
(* _control, in a thread of its own for every control message.             *)
(***************************************************************************)
ControlSuspend(t) ==
  /\ pc[t] = "ctl"
  /\ held[t].kind \in {"SUSPEND", "RESUME"}
  /\ suspended' = [suspended EXCEPT ![t[1]] = (held[t].kind = "SUSPEND")]
  /\ held' = [held EXCEPT ![t] = NoMsg]
  /\ Goto(t, "none")
  /\ UNCHANGED <<queue, outq, draining, stopEvt, pending, status,
                 handle, gen, produced, received, relayed, todo, waits>>

ControlStart(t) ==
  /\ pc[t] = "ctl"
  /\ held[t].kind = "START"
  /\ NodeStart(t[1])
  /\ pc' = [x \in Threads |-> IF x \in Spawned(t[1]) THEN "top"
                              ELSE IF x = t THEN "none" ELSE pc[x]]
  /\ held' = [held EXCEPT ![t] = NoMsg]
  /\ UNCHANGED <<queue, outq, pending, suspended, produced, received, relayed,
                 todo, waits>>

\* After stop(), STOP_PROPAGATE is passed on and STOP is not.
AfterStop(t) ==
  IF held[t].kind = "STOP_PROPAGATE"
  THEN Sending(t, held[t], Dest[t[1]])
  ELSE Sending(t, NoMsg, <<>>)

\* stop(): each flag is read by threads that read none of the others.
ControlStop(t) ==
  LET n == t[1] IN
  /\ pc[t] = "ctl"
  /\ held[t].kind \in Negative
  /\ IF status[n] = "STOPPED"
     THEN /\ AfterStop(t)
          /\ UNCHANGED <<draining, stopEvt>>
     ELSE /\ draining' = [draining EXCEPT ![n] = TRUE]
          /\ stopEvt' = [stopEvt EXCEPT ![n] = [r \in Roles |-> TRUE]]
          /\ Goto(t, "pend")
          /\ UNCHANGED <<held, todo>>
  /\ UNCHANGED <<queue, outq, pending, suspended, status,
                 handle, gen, produced, received, relayed, waits>>

-----------------------------------------------------------------------------
(***************************************************************************)
(* join(), called by a control thread on its own node or by the pipeline's *)
(* user on n: wait without a timeout for no update() to be running, then   *)
(* join the threads alive with one. A dead thread stays dead, so the three *)
(* joins in a row return when all three threads have ended.                *)
(***************************************************************************)
JoinPending(t, n) ==
  /\ pc[t] = "pend"
  /\ pending[n] = 0
  /\ Goto(t, "list")
  /\ UNCHANGED <<queue, outq, draining, stopEvt, pending, suspended, status,
                 handle, gen, produced, received, relayed, held, todo, waits>>

\* Mutant: only the source thread is joined.
JoinSourceOnly(t, n) ==
  /\ pc[t] = "list"
  /\ waits' = [waits EXCEPT ![t] =
       {x \in ThreadsOf(n, handle[n]) : x[2] = "source" /\ pc[x] # "dead"}]
  /\ Goto(t, "join")
  /\ UNCHANGED <<queue, outq, draining, stopEvt, pending, suspended, status,
                 handle, gen, produced, received, relayed, held, todo>>

JoinList(t, n) ==
  /\ pc[t] = "list"
  /\ waits' = [waits EXCEPT ![t] =
       {x \in ThreadsOf(n, handle[n]) : pc[x] # "dead"}]
  /\ Goto(t, "join")
  /\ UNCHANGED <<queue, outq, draining, stopEvt, pending, suspended, status,
                 handle, gen, produced, received, relayed, held, todo>>

\* Mutant: join() without waiting.
JoinedAtOnce(t) == pc[t] = "join" /\ waits' = [waits EXCEPT ![t] = {}]

Joined(t) ==
  /\ pc[t] = "join"
  /\ JoinMayTimeOut \/ \A x \in waits[t] : pc[x] = "dead"
  /\ waits' = [waits EXCEPT ![t] = {}]

\* stop() after join().
ControlStopEnd(t) ==
  LET n == t[1] IN
  /\ t[2] = "control"
  /\ Joined(t)
  /\ handle' = [handle EXCEPT ![n] = 0]
  /\ status' = [status EXCEPT ![n] = "STOPPED"]
  /\ AfterStop(t)
  /\ UNCHANGED <<queue, outq, draining, stopEvt, pending, suspended,
                 gen, produced, received, relayed>>

-----------------------------------------------------------------------------
Worker(t) == LoopTop(t) \/ GetEmpty(t) \/ WorkerGet(t) \/ WorkerStore(t)
             \/ Put(t)

Update(t) == LoopTop(t) \/ GetEmpty(t) \/ UpdateGetControl(t)
             \/ UpdateGetData(t) \/ UpdateCall(t) \/ UpdateRaise(t)
             \/ UpdateFinally(t) \/ Put(t)

Source(t) == LoopTop(t) \/ SourceCall(t) \/ SourceCallEnd(t)
             \/ SourceCallLate(t) \/ SourceEmit(t) \/ Put(t)

ControlThread(t) == ControlSuspend(t) \/ ControlStart(t)
                    \/ ControlStop(t)
                    \/ JoinPending(t, t[1]) \/ JoinList(t, t[1])
                    \/ ControlStopEnd(t) \/ Put(t)

DaemonStep(t) ==
  \/ t[2] = "worker" /\ Worker(t)
  \/ t[2] = "update" /\ Update(t)
  \/ t[2] = "source" /\ Source(t)

NodeStep(t) ==
  \/ t \in Daemons /\ DaemonStep(t)
  \/ t \in Controls /\ ControlThread(t)
=============================================================================
