----------------------------- MODULE ServerNode -----------------------------
(***************************************************************************)
(* The sources that serve: json_http, with a thread per start() in         *)
(* serve_forever() of http.server, and json_websocket, whose _queue takes  *)
(* the place of the queue of the node. Its handlers put messages there and *)
(* both its source thread, which puts what it takes back, and its worker   *)
(* read it.                                                                *)
(***************************************************************************)
EXTENDS Builtin, SequencesExt

CONSTANTS
  MaxRequests  \* bound: messages clients send

ASSUME ServerAssumption == MaxRequests \in Nat

VARIABLES
  serve,     \* the server thread of each start()
  shutReq,   \* __shutdown_request of the HTTP server
  isShut,    \* __is_shut_down
  gone,      \* has server_close() been called?
  asked,     \* requests so far
  queued,    \* messages in the queue of json_http
  client,    \* is a client of json_websocket connected?
  wsQueue,   \* _queue of json_websocket: messages 1.., 0 for a STOP
  hand,      \* what its source thread has taken and not yet put back
  sourcing,  \* does its source thread still take?
  got        \* what its worker has put into the buffer

httpVars == <<shutReq, isShut, gone, queued>>
wsVars == <<client, wsQueue, hand, sourcing, got>>
serverVars == <<serve, asked, httpVars, wsVars>>

Threads == 1..MaxStarts
Http == Is({"json_http"}) /\ UNCHANGED wsVars
Ws == Is({"json_websocket"}) /\ UNCHANGED httpVars
Quiet == Stays /\ UNCHANGED pc

ServerInit ==
  /\ serve = [k \in Threads |-> "none"]
  /\ shutReq = FALSE /\ isShut = FALSE /\ gone = FALSE
  /\ asked = 0 /\ queued = 0
  /\ client = FALSE
  /\ wsQueue = <<>> /\ hand = <<>>
  /\ sourcing = TRUE
  /\ got = <<>>

-----------------------------------------------------------------------------
(***************************************************************************)
(* start(): a new thread for json_http; json_websocket has one, which can  *)
(* be started once.                                                        *)
(***************************************************************************)
StartServer(t) ==
  /\ At(t, "start_server")
  /\ IF Is({"json_http"}) \/ serve[1] = "none"
     THEN serve' = [serve EXCEPT ![starts] = "called"] /\ Goto(t, "base_start")
     ELSE Raise(t) /\ UNCHANGED <<nodeState, serve>>
  /\ UNCHANGED <<asked, httpVars, wsVars>>

\* serve_forever() of http.server.
HttpServe(k) ==
  /\ Http /\ Quiet
  /\ serve[k] = "called"
  /\ isShut' = FALSE
  /\ serve' = [serve EXCEPT ![k] = "serving"]
  /\ UNCHANGED <<shutReq, gone, asked, queued>>

\* do_POST(): put() discards while the node drains; the answer is 202 anyway.
HttpRequest(k) ==
  /\ Http /\ Quiet
  /\ serve[k] = "serving" /\ ~shutReq /\ asked < MaxRequests
  /\ asked' = asked + 1
  /\ serve' = IF draining THEN serve ELSE [serve EXCEPT ![k] = "putting"]
  /\ UNCHANGED httpVars

\* Mutant: a put that does not wait for room.
HttpPutUnbounded(k) ==
  /\ Http /\ Quiet
  /\ serve[k] = "putting"
  /\ queued' = queued + 1
  /\ serve' = [serve EXCEPT ![k] = "serving"]
  /\ UNCHANGED <<shutReq, isShut, gone, asked>>

HttpPut(k) ==
  /\ Http /\ Quiet
  /\ serve[k] = "putting" /\ queued < QueueSize
  /\ queued' = queued + 1
  /\ serve' = [serve EXCEPT ![k] = "serving"]
  /\ UNCHANGED <<shutReq, isShut, gone, asked>>

\* Setting the event wakes who waits for it.
HttpLeave(k) ==
  /\ Http /\ Stays
  /\ serve[k] = "serving" /\ shutReq
  /\ shutReq' = FALSE
  /\ isShut' = TRUE
  /\ serve' = [serve EXCEPT ![k] = "over"]
  /\ pc' = [t \in DOMAIN pc |-> IF At(t, "shut_wait") THEN "shut_over" ELSE pc[t]]
  /\ UNCHANGED <<gone, asked, queued>>

\* The worker takes a message. Until it is joined it may do so once more.
HttpTake ==
  /\ Http /\ Quiet
  /\ handles /\ queued > 0
  /\ queued' = queued - 1
  /\ UNCHANGED <<serve, shutReq, isShut, gone, asked>>

\* shutdown() of http.server: the request, then the wait for serve_forever() to
\* return. There is no server after destroy().
HttpShutdown(t) ==
  /\ Http /\ At(t, "shutdown")
  /\ IF gone
     THEN Return(t) /\ UNCHANGED <<nodeState, shutReq>>
     ELSE shutReq' = TRUE /\ Goto(t, "shut_test")
  /\ UNCHANGED <<serve, isShut, gone, asked, queued>>

HttpWait(t) ==
  /\ Http /\ At(t, "shut_test")
  /\ Goto(t, IF isShut THEN "shut_over" ELSE "shut_wait")
  /\ UNCHANGED <<serve, asked, httpVars>>

\* The thread is joined for two seconds at most; destroy() closes the server.
HttpShut(t) ==
  /\ Http /\ At(t, "shut_over")
  /\ gone' = (gone \/ op[t] = "destroy")
  /\ Return(t)
  /\ UNCHANGED <<nodeState, serve, shutReq, isShut, asked, queued>>

-----------------------------------------------------------------------------
(***************************************************************************)
(* json_websocket.                                                         *)
(***************************************************************************)
\* serve_forever() of websockets takes connections, whose handlers outlive it.
WsConnect ==
  /\ Ws /\ Quiet
  /\ serve[1] = "called"
  /\ client' = TRUE
  /\ UNCHANGED <<serve, asked, wsQueue, hand, sourcing, got>>

WsReceive ==
  /\ Ws /\ Quiet
  /\ client /\ asked < MaxRequests
  /\ asked' = asked + 1
  /\ wsQueue' = Append(wsQueue, asked + 1)
  /\ UNCHANGED <<serve, client, hand, sourcing, got>>

\* The STOP of Pipeline.stop().
WsStop ==
  /\ Ws /\ stopSent
  /\ stopSent' = FALSE
  /\ wsQueue' = Append(wsQueue, 0)
  /\ UNCHANGED <<kind, pstatus, starts, hasty, nodeState, op, pc>>
  /\ UNCHANGED <<serve, asked, client, hand, sourcing, got>>

\* The source thread takes from the queue and puts what it has taken back. A
\* STOP is the last thing it takes.
WsSource ==
  /\ Ws /\ Quiet
  /\ Working /\ sourcing /\ hand = <<>> /\ wsQueue # <<>>
  /\ hand' = <<Head(wsQueue)>>
  /\ wsQueue' = Tail(wsQueue)
  /\ sourcing' = (Head(wsQueue) # 0)
  /\ UNCHANGED <<serve, asked, client, got>>

\* Mutant: the test of the stop event that comes between the two, for a STOP too.
WsDrops ==
  /\ Ws /\ Quiet
  /\ hand # <<>>
  /\ wsQueue' = IF sourcing /\ ~stopSent THEN wsQueue \o hand ELSE wsQueue
  /\ hand' = <<>>
  /\ UNCHANGED <<serve, asked, client, sourcing, got>>

WsPutBack ==
  /\ Ws /\ Quiet
  /\ hand # <<>>
  /\ wsQueue' = wsQueue \o hand
  /\ hand' = <<>>
  /\ UNCHANGED <<serve, asked, client, sourcing, got>>

\* The worker takes a message for the buffer, or a STOP, which ends the update
\* thread and has the server shut down by a control thread.
WsWork ==
  /\ Ws
  /\ Working /\ wsQueue # <<>>
  /\ wsQueue' = Tail(wsQueue)
  /\ IF Head(wsQueue) = 0
     THEN IF updating
          THEN /\ Idle(Control)
               /\ updating' = FALSE
               /\ Enter(Control, "stop", StopAt)
               /\ UNCHANGED <<pipeState, status, handles, stopped, draining, got>>
          ELSE Quiet /\ UNCHANGED got
     ELSE Quiet /\ got' = Append(got, Head(wsQueue))
  /\ UNCHANGED <<serve, asked, client, hand, sourcing>>

\* stop(): no new connections. Node.stop() is not called.
WsShutdown(t) ==
  /\ Ws /\ At(t, "shutdown")
  /\ serve' = [serve EXCEPT ![1] = "over"]
  /\ Return(t)
  /\ UNCHANGED <<nodeState, asked, client, wsQueue, hand, sourcing, got>>

ServerCall(t) ==
  \/ StartServer(t) \/ HttpShutdown(t) \/ HttpWait(t) \/ HttpShut(t) \/ WsShutdown(t)
HttpThread(k) == HttpServe(k) \/ HttpPut(k) \/ HttpLeave(k)
WsThread == WsStop \/ WsSource \/ WsPutBack \/ WsWork

ServerStep ==
  \/ \E t \in Callers : ServerCall(t)
  \/ \E k \in Threads : HttpThread(k) \/ HttpRequest(k)
  \/ HttpTake
  \/ WsConnect \/ WsReceive \/ WsThread

-----------------------------------------------------------------------------
ServerTypeOK ==
  /\ serve \in [Threads -> {"none", "called", "serving", "putting", "over"}]
  /\ {shutReq, isShut, gone, client, sourcing} \subseteq BOOLEAN
  /\ asked \in 0..MaxRequests /\ queued \in 0..QueueSize
  /\ wsQueue \in Seq(0..MaxRequests)
  /\ hand \in Seq(0..MaxRequests) /\ Len(hand) <= 1
  /\ got \in Seq(1..MaxRequests)

\* However often a message goes round between the source thread and the worker
\* of json_websocket, it is in one place, once, and is passed on once.
WsOnce ==
  \A m \in 1..asked :
    Is({"json_websocket"}) =>
      Cardinality({i \in DOMAIN (wsQueue \o hand \o got) :
                     (wsQueue \o hand \o got)[i] = m}) = 1

\* A shutdown() that never returns: the server was never started, or its thread
\* waits for room in a queue nobody reads any more, or the thread of an earlier
\* start(), which the stop before did not wait for, has taken the request.
ShutdownStuck(t) ==
  /\ At(t, "shut_wait")
  /\ \/ ~shutReq
     \/ \A k \in Threads :
          \/ serve[k] \in {"none", "over"}
          \/ serve[k] = "putting" /\ queued = QueueSize /\ ~Working
=============================================================================
