--------------------------- MODULE RemoteService ---------------------------
(***************************************************************************)
(* The service that runs one node for remote callers                       *)
(* (juturna/cli/commands/_juturna_remote_service.py): a handler thread per *)
(* call, the dispatcher thread that reads what the node transmits, the     *)
(* cleanup thread, and the main thread that shuts the service down. Calls  *)
(* are numbered as they draw their tracking ids. The node is abstract: its *)
(* _queue and its update thread, which transmits only from update().       *)
(* Statistics, priorities and the metadata of envelopes are left out.      *)
(***************************************************************************)
EXTENDS Integers, Sequences, FiniteSets

CONSTANTS
  MaxCalls,    \* bound: calls made
  MaxWorkers,  \* max_workers of the gRPC executor
  MaxQueue,    \* JUTURNA_MAX_QUEUE_SIZE of the node's queue
  Replies,     \* how many messages update() may transmit for a request
  NodeMayFail  \* may update() raise?

ASSUME ServiceAssumption ==
  /\ MaxCalls \in Nat \ {0} /\ MaxWorkers \in Nat \ {0}
  /\ MaxQueue \in Nat \ {0}
  /\ Replies \subseteq Nat /\ Replies # {}
  /\ NodeMayFail \in BOOLEAN

Calls == 1..MaxCalls
Nobody == 0
Ids == 0..MaxCalls                    \* 0 is not a tracking id
Request == [id : Calls, of : Calls]   \* tracking id, and the call it is from
NoRequest == [id |-> Nobody, of |-> Nobody]

VARIABLES
  calls,    \* _tracking_id_counter: calls that have drawn their id
  phase,    \* where the handler of each call is
  tracking, \* tracking_id of each call
  outcome,  \* how each call ended
  pending,  \* pending_requests: the call filed under each tracking id
  future,   \* state of each RequestContext.future
  answer,   \* the call that the message set in each future answers
  expired,  \* calls older than their timeout
  inq,      \* the node's queue
  working,  \* the request in update(), if any
  left,     \* messages update() has yet to transmit for it
  dead,     \* has the node's update thread ended?
  dispq,    \* dispatching_queue, unbounded
  dpc, dmsg, dcall,   \* the dispatcher: label, message, context in hand
  cpc,      \* the cleanup thread
  service   \* how far serve() and shutdown() are

nodePart == <<inq, working, left, dead>>
dispatcher == <<dpc, dmsg, dcall>>
handlerPart == <<calls, phase, tracking, outcome>>
vars == <<calls, phase, tracking, outcome, pending, future, answer, expired,
          inq, working, left, dead, dispq, dpc, dmsg, dcall, cpc, service>>

Init ==
  /\ calls = 0
  /\ phase = [k \in Calls |-> "none"]
  /\ tracking = [k \in Calls |-> Nobody]
  /\ outcome = [k \in Calls |-> "none"]
  /\ pending = [i \in Ids |-> Nobody]
  /\ future = [k \in Calls |-> "open"]
  /\ answer = [k \in Calls |-> Nobody]
  /\ expired = {}
  /\ inq = <<>> /\ working = NoRequest /\ left = 0 /\ dead = FALSE
  /\ dispq = <<>>
  /\ dpc = "top" /\ dmsg = NoRequest /\ dcall = Nobody
  /\ cpc = "sleep"
  /\ service = "up"

InFlight == {k \in Calls : phase[k] \notin {"none", "over"}}
StopSet == service # "up"
Draining == service \in {"node", "down"}

-----------------------------------------------------------------------------
(***************************************************************************)
(* SendAndReceive, in a thread of the executor.                            *)
(***************************************************************************)
\* Mutant: ids are used again.
TrackingIdReused ==
  CHOOSE i \in Calls : /\ \A k \in InFlight : tracking[k] # i
                       /\ \A j \in 1..(i - 1) : \E k \in InFlight : tracking[k] = j
TrackingId == calls + 1

\* The call draws its id. Without a sender, or if its id were taken, it is
\* rejected; else a RequestContext is filed under the id, before the node
\* knows of the request.
Begin ==
  LET k == calls + 1 IN
  /\ service # "down"
  /\ calls < MaxCalls
  /\ Cardinality(InFlight) < MaxWorkers
  /\ calls' = k
  /\ tracking' = [tracking EXCEPT ![k] = TrackingId]
  /\ \/ /\ pending[TrackingId] = Nobody
        /\ pending' = [pending EXCEPT ![TrackingId] = k]
        /\ phase' = [phase EXCEPT ![k] = "put"]
        /\ UNCHANGED outcome
     \/ /\ phase' = [phase EXCEPT ![k] = "over"]
        /\ outcome' = [outcome EXCEPT ![k] = "invalid"]
        /\ UNCHANGED pending
  /\ UNCHANGED <<future, answer, expired, nodePart, dispq, dispatcher, cpc,
                 service>>

\* Node.put: the draining test, then the blocking put.
PutTest(k) ==
  /\ phase[k] = "put"
  /\ phase' = [phase EXCEPT ![k] = IF Draining THEN "wait" ELSE "enq"]
  /\ UNCHANGED <<calls, tracking, outcome, pending, future, answer, expired,
                 nodePart, dispq, dispatcher, cpc, service>>

PutRequest(k) ==
  /\ phase[k] = "enq"
  /\ Len(inq) < MaxQueue
  /\ inq' = Append(inq, [id |-> tracking[k], of |-> k])
  /\ phase' = [phase EXCEPT ![k] = "wait"]
  /\ UNCHANGED <<calls, tracking, outcome, pending, future, answer, expired,
                 working, left, dead, dispq, dispatcher, cpc, service>>

\* future.result(timeout): a result, the exception of cancel(), or a timeout.
\* A result that cannot be converted fails the call.
Result(k) ==
  /\ phase[k] = "wait"
  /\ future[k] # "open"
  /\ \E o \in IF future[k] = "result" THEN {"answered", "failed"}
                                      ELSE {"timeout"} :
       outcome' = [outcome EXCEPT ![k] = o]
  /\ phase' = [phase EXCEPT ![k] = "finally"]
  /\ UNCHANGED <<calls, tracking, pending, future, answer, expired, nodePart,
                 dispq, dispatcher, cpc, service>>

\* Mutant: result() without a timeout.
NoTimeOut(k) == FALSE /\ UNCHANGED vars

TimeOut(k) ==
  /\ phase[k] = "wait"
  /\ future[k] = "open"
  /\ k \in expired
  /\ outcome' = [outcome EXCEPT ![k] = "timeout"]
  /\ phase' = [phase EXCEPT ![k] = "finally"]
  /\ UNCHANGED <<calls, tracking, pending, future, answer, expired, nodePart,
                 dispq, dispatcher, cpc, service>>

\* Mutant: no finally clause.
NotFinally(k) ==
  /\ phase[k] = "finally"
  /\ phase' = [phase EXCEPT ![k] = "over"]
  /\ UNCHANGED <<calls, tracking, outcome, pending, future, answer, expired,
                 nodePart, dispq, dispatcher, cpc, service>>

Finally(k) ==
  /\ phase[k] = "finally"
  /\ pending' = [pending EXCEPT ![tracking[k]] = Nobody]
  /\ phase' = [phase EXCEPT ![k] = "over"]
  /\ UNCHANGED <<calls, tracking, outcome, future, answer, expired, nodePart,
                 dispq, dispatcher, cpc, service>>

Handler(k) == PutTest(k) \/ PutRequest(k) \/ Result(k) \/ TimeOut(k)
              \/ Finally(k)

\* Time goes by: a context becomes older than its timeout, and result() has
\* waited for it.
Expire(k) ==
  /\ phase[k] \in {"put", "enq", "wait"}
  /\ k \notin expired
  /\ expired' = expired \cup {k}
  /\ UNCHANGED <<handlerPart, pending, future, answer, nodePart, dispq,
                 dispatcher, cpc, service>>

-----------------------------------------------------------------------------
(***************************************************************************)
(* The node: update() for one request at a time. transmit() stamps each    *)
(* message with the id of the request in hand.                             *)
(***************************************************************************)
NodeTake ==
  /\ ~dead /\ ~Draining
  /\ working = NoRequest
  /\ inq # <<>>
  /\ inq' = Tail(inq)
  /\ working' = Head(inq)
  /\ left' \in Replies
  /\ UNCHANGED <<handlerPart, pending, future, answer, expired, dead, dispq,
                 dispatcher, cpc, service>>

NodeTransmit ==
  /\ working # NoRequest /\ left > 0
  /\ dispq' = Append(dispq, working)
  /\ left' = left - 1
  /\ UNCHANGED <<handlerPart, pending, future, answer, expired, inq, working,
                 dead, dispatcher, cpc, service>>

NodeDone ==
  /\ working # NoRequest /\ left = 0
  /\ working' = NoRequest
  /\ UNCHANGED <<handlerPart, pending, future, answer, expired, inq, left,
                 dead, dispq, dispatcher, cpc, service>>

\* update() raises, which ends the update thread.
NodeFail ==
  /\ NodeMayFail
  /\ working # NoRequest
  /\ working' = NoRequest /\ left' = 0 /\ dead' = TRUE
  /\ UNCHANGED <<handlerPart, pending, future, answer, expired, inq, dispq,
                 dispatcher, cpc, service>>

NodeStep == NodeTake \/ NodeTransmit \/ NodeDone \/ NodeFail

-----------------------------------------------------------------------------
(***************************************************************************)
(* _dispatcher_loop. The context leaves pending_requests under the lock,   *)
(* its future is set after it.                                             *)
(***************************************************************************)
DispatchTop ==
  /\ dpc = "top"
  /\ dpc' = IF StopSet THEN "over" ELSE "get"
  /\ UNCHANGED <<handlerPart, pending, future, answer, expired, nodePart,
                 dispq, dmsg, dcall, cpc, service>>

DispatchGet ==
  /\ dpc = "get"
  /\ IF dispq = <<>>
     THEN dpc' = "top" /\ UNCHANGED <<dispq, dmsg>>
     ELSE /\ dispq' = Tail(dispq)
          /\ IF Head(dispq).id = 0
             THEN dpc' = "top" /\ UNCHANGED dmsg
             ELSE dpc' = "pop" /\ dmsg' = Head(dispq)
  /\ UNCHANGED <<handlerPart, pending, future, answer, expired, nodePart,
                 dcall, cpc, service>>

\* Mutant: the context is read, not popped.
DispatchPeek ==
  /\ dpc = "pop"
  /\ dcall' = pending[dmsg.id]
  /\ dpc' = IF dcall' = Nobody THEN "top" ELSE "set"
  /\ UNCHANGED <<handlerPart, pending, future, answer, expired, nodePart,
                 dispq, dmsg, cpc, service>>

DispatchPop ==
  /\ dpc = "pop"
  /\ dcall' = pending[dmsg.id]
  /\ pending' = [pending EXCEPT ![dmsg.id] = Nobody]
  /\ dpc' = IF dcall' = Nobody THEN "top" ELSE "set"
  /\ UNCHANGED <<handlerPart, future, answer, expired, nodePart, dispq, dmsg,
                 cpc, service>>

\* set_result, which raises on a future that is done; the loop goes on.
DispatchSet ==
  /\ dpc = "set"
  /\ IF future[dcall] = "open"
     THEN /\ future' = [future EXCEPT ![dcall] = "result"]
          /\ answer' = [answer EXCEPT ![dcall] = dmsg.of]
     ELSE UNCHANGED <<future, answer>>
  /\ dpc' = "top" /\ dmsg' = NoRequest /\ dcall' = Nobody
  /\ UNCHANGED <<handlerPart, pending, expired, nodePart, dispq, cpc, service>>

Dispatcher == DispatchTop \/ DispatchGet \/ DispatchPop \/ DispatchSet

-----------------------------------------------------------------------------
\* Contexts S leave pending_requests, those still open with an exception.
Cancel(S) ==
  /\ pending' = [i \in Ids |-> IF pending[i] \in S THEN Nobody ELSE pending[i]]
  /\ future' = [k \in Calls |-> IF k \in S /\ future[k] = "open" THEN "error"
                                ELSE future[k]]

Filed == {pending[i] : i \in Ids} \ {Nobody}

\* Mutant: expired contexts are not cancelled.
CleanupForgets ==
  /\ cpc = "sleep"
  /\ cpc' = IF StopSet THEN "over" ELSE "sleep"
  /\ pending' = [i \in Ids |-> IF pending[i] \in expired THEN Nobody
                                 ELSE pending[i]]
  /\ UNCHANGED <<handlerPart, future, answer, expired, nodePart, dispq,
                 dispatcher, service>>

\* The sleep is over: one round of _cleanup_loop, under the lock, and the test
\* of the stop event before the next (which no other thread can tell from one
\* right after the round).
Cleanup ==
  /\ cpc = "sleep"
  /\ cpc' = IF StopSet THEN "over" ELSE "sleep"
  /\ Cancel(Filed \cap expired)
  /\ UNCHANGED <<handlerPart, answer, expired, nodePart, dispq, dispatcher,
                 service>>

-----------------------------------------------------------------------------
(***************************************************************************)
(* The interrupt of serve(): shutdown() sets the stop event, joins both    *)
(* threads with a time limit (5 s, half a round of the cleanup thread) and *)
(* cancels what is pending; then the node is stopped, which waits for      *)
(* update() without a limit, and last the server.                          *)
(***************************************************************************)
ShutdownBegin == service = "up" /\ service' = "stopping" /\ UNCHANGED
  <<handlerPart, pending, future, answer, expired, nodePart, dispq, dispatcher,
    cpc>>

ShutdownCancel ==
  /\ service = "stopping"
  /\ service' = "cancelled"
  /\ Cancel(Filed)
  /\ UNCHANGED <<handlerPart, answer, expired, nodePart, dispq, dispatcher, cpc>>

StopNode ==
  /\ service = "cancelled"
  /\ service' = "node"
  /\ UNCHANGED <<handlerPart, pending, future, answer, expired, nodePart, dispq,
                 dispatcher, cpc>>

StopServer ==
  /\ service = "node"
  /\ working = NoRequest
  /\ service' = "down"
  /\ UNCHANGED <<handlerPart, pending, future, answer, expired, nodePart, dispq,
                 dispatcher, cpc>>

Shutdown == ShutdownCancel \/ StopNode \/ StopServer

-----------------------------------------------------------------------------
Next ==
  \/ Begin
  \/ \E k \in Calls : Handler(k) \/ Expire(k)
  \/ NodeStep
  \/ Dispatcher
  \/ Cleanup
  \/ ShutdownBegin \/ Shutdown

Spec == Init /\ [][Next]_vars

(***************************************************************************)
(* The handler threads are scheduled, time goes by, and update() returns   *)
(* or raises. Calls end whatever the dispatcher and the cleanup thread do; *)
(* nobody is obliged to call or to interrupt the service.                  *)
(***************************************************************************)
FairSpec ==
  /\ Spec
  /\ \A k \in Calls : WF_vars(Handler(k))
  /\ WF_vars(\E k \in Calls : Expire(k))
  /\ WF_vars(NodeTake \/ NodeTransmit \/ NodeDone)

-----------------------------------------------------------------------------
TypeOK ==
  /\ calls \in 0..MaxCalls
  /\ phase \in [Calls -> {"none", "put", "enq", "wait", "finally", "over"}]
  /\ tracking \in [Calls -> 0..MaxCalls]
  /\ \A k \in Calls : phase[k] # "none" => tracking[k] \in Calls
  /\ outcome \in [Calls -> {"none", "answered", "timeout", "invalid", "failed"}]
  /\ pending \in [Ids -> 0..MaxCalls]
  /\ future \in [Calls -> {"open", "result", "error"}]
  /\ answer \in [Calls -> 0..MaxCalls]
  /\ expired \subseteq Calls
  /\ inq \in Seq(Request) /\ dispq \in Seq(Request)
  /\ working \in Request \cup {NoRequest}
  /\ left \in Nat
  /\ dead \in BOOLEAN
  /\ dpc \in {"top", "get", "pop", "set", "over"}
  /\ dmsg \in Request \cup {NoRequest}
  /\ dcall \in 0..MaxCalls
  /\ cpc \in {"sleep", "over"}
  /\ service \in {"up", "stopping", "cancelled", "node", "down"}

\* A call is answered with what the node made of its own request, whatever
\* timed out, was answered twice or came late before it (the tracking ids).
AnswersOwn == \A k \in Calls : outcome[k] = "answered" => answer[k] = k

\* The dispatcher never sets a future that is done, which would raise: a
\* context is popped by one thread only, the dispatcher, the cleanup or the
\* handler's finally clause.
CompletedOnce == dpc = "set" => future[dcall] = "open"

\* The dispatcher drops no answer that its call still waits for: what it does
\* not find was given up or cancelled, since a request is filed before it is
\* put to the node.
AnswerFindsCall ==
  dpc = "pop" /\ pending[dmsg.id] = Nobody =>
    \/ phase[dmsg.of] \notin {"put", "enq", "wait"}
    \/ future[dmsg.of] # "open"

\* pending_requests keeps no context of a call that is over, whichever way it
\* ended.
NoLeak ==
  \A i \in Ids : pending[i] # Nobody =>
    phase[pending[i]] \in {"put", "enq", "wait", "finally"}

\* The handler waits for room in the queue of a node that takes no more.
PutStuck(k) == phase[k] = "enq" /\ Len(inq) = MaxQueue /\ (dead \/ Draining)

\* Every call that was accepted ends, also when the node fails or the service
\* is shut down meanwhile, but for a put() into a full queue that nobody reads
\* any more, to which the timeout of the call does not apply.
CallsEnd == \A k \in Calls : phase[k] = "put" ~> phase[k] = "over" \/ PutStuck(k)
=============================================================================
