---------------------------- MODULE RemoteProofs ----------------------------
(***************************************************************************)
(* That the remote service answers every call with what is its own, once,  *)
(* and forgets none, for any number of calls, workers and replies, however *)
(* the threads interleave. ServiceInv is the inductive invariant: at any   *)
(* time one thread owns the context of a call.                             *)
(***************************************************************************)
EXTENDS RemoteService, TLAPS

Waiting == {"put", "enq", "wait"}
OwnRequest == {r \in Request : r.of = r.id}

\* Calls draw their tracking ids in order, and one that has yet to begin has left
\* no trace.
Numbered ==
  \A k \in Calls : IF k <= calls THEN tracking[k] = k /\ phase[k] # "none"
                   ELSE phase[k] = "none" /\ future[k] = "open"

\* What is filed is under its own id, not yet completed, and its call not over.
FiledOpen ==
  \A i \in Ids : pending[i] # Nobody =>
    /\ i \in Calls /\ pending[i] = i
    /\ phase[i] \in Waiting \cup {"finally"}
    /\ future[i] = "open"

\* Every message is for the call it comes from.
MessagesOwn ==
  /\ inq \in Seq(OwnRequest) /\ dispq \in Seq(OwnRequest)
  /\ working \in OwnRequest \cup {NoRequest}
  /\ dmsg \in OwnRequest \cup {NoRequest}

\* A result is that of the call, and nothing else is an answer.
AnswersFit ==
  \A k \in Calls : /\ future[k] = "result" => answer[k] = k
                   /\ outcome[k] = "answered" => future[k] = "result"

\* The dispatcher has the context in hand to itself.
InHand ==
  /\ dpc \in {"pop", "set"} => dmsg \in OwnRequest
  /\ dpc = "set" => /\ dcall \in Calls /\ dcall = dmsg.id
                    /\ dcall <= calls
                    /\ pending[dcall] = Nobody
                    /\ future[dcall] = "open"

\* The context of a call that waits is filed, in the dispatcher's hand, or done.
NoneForgotten ==
  \A k \in Calls : phase[k] \in Waiting =>
    \/ pending[k] = k
    \/ future[k] # "open"
    \/ dpc = "set" /\ dcall = k

ServiceInv ==
  /\ Numbered /\ FiledOpen /\ MessagesOwn /\ AnswersFit /\ InHand
  /\ NoneForgotten

IInv == TypeOK /\ ServiceInv

\* The facts on constants that the types refer to.
LEMMA ServiceFacts ==
  /\ MaxCalls \in Nat \ {0} /\ Replies \subseteq Nat
  /\ Calls \subseteq Ids /\ Nobody \in Ids /\ Nobody \notin Calls
  /\ OwnRequest \subseteq Request /\ NoRequest \notin Request
BY ServiceAssumption DEF Calls, Ids, Nobody, OwnRequest, Request, NoRequest

LEMMA OwnAreRequests ==
  /\ \A r \in OwnRequest : r \in Request /\ r.id \in Calls /\ r.of = r.id
  /\ \A i \in Calls : [id |-> i, of |-> i] \in OwnRequest
  /\ NoRequest \notin Request /\ OwnRequest \subseteq Request
BY DEF OwnRequest, Request, NoRequest, Calls, Nobody

LEMMA TailIsSeq ==
  ASSUME NEW T, NEW s \in Seq(T), s # <<>>
  PROVE  Tail(s) \in Seq(T)
OBVIOUS

LEMMA InitInv == Init => IInv
<1> SUFFICES ASSUME Init PROVE IInv
  OBVIOUS
<1>1. /\ inq \in Seq(Request) /\ dispq \in Seq(Request)
      /\ inq \in Seq(OwnRequest) /\ dispq \in Seq(OwnRequest)
  BY DEF Init
<1>2. Nobody \in 0..MaxCalls /\ calls \in 0..MaxCalls
  BY ServiceFacts DEF Nobody, Init
<1>3. TypeOK /\ MessagesOwn
  BY <1>1, <1>2 DEF Init, TypeOK, MessagesOwn
<1>4. Numbered BY DEF Init, Numbered, Calls
<1>5. FiledOpen /\ AnswersFit /\ InHand /\ NoneForgotten
  BY DEF Init, FiledOpen, AnswersFit, InHand, NoneForgotten, Waiting
<1> QED BY <1>3, <1>4, <1>5 DEF IInv, ServiceInv

-----------------------------------------------------------------------------
(***************************************************************************)
(* The handlers.                                                           *)
(***************************************************************************)
LEMMA BeginInv ==
  ASSUME IInv, Begin
  PROVE  IInv'
<1> DEFINE k == calls + 1
<1>1. /\ k \in Calls /\ k \in Ids /\ k \in 0..MaxCalls /\ k # Nobody
      /\ tracking' = [tracking EXCEPT ![k] = k]
      /\ calls' \in 0..MaxCalls
  BY ServiceFacts
  DEF IInv, TypeOK, Begin, TrackingId, Calls, Ids, Nobody
<1>2. /\ calls < k /\ calls' = k
      /\ \A j \in Calls : j <= k <=> j <= calls \/ j = k
      /\ \A j \in Calls : j <= calls => j # k
  <2>1. calls' = k /\ calls \in 0..MaxCalls /\ MaxCalls \in Nat
    BY ServiceFacts DEF IInv, TypeOK, Begin
  <2>2. \A j \in Calls : j \in Nat
    BY DEF Calls
  <2> QED BY <2>1, <2>2
<1>3. phase[k] = "none" /\ future[k] = "open"
  BY <1>1, <1>2 DEF IInv, ServiceInv, Numbered, TypeOK
<1>4. \/ /\ pending' = [pending EXCEPT ![k] = k]
         /\ phase' = [phase EXCEPT ![k] = "put"]
         /\ outcome' = outcome
      \/ /\ pending' = pending
         /\ phase' = [phase EXCEPT ![k] = "over"]
         /\ outcome' = [outcome EXCEPT ![k] = "invalid"]
  BY DEF Begin, TrackingId
<1>5. UNCHANGED <<future, answer, expired, nodePart, dispq, dispatcher, cpc,
                  service>>
  BY DEF Begin
<1> HIDE DEF k
<1>6. TypeOK'
  <2>1. /\ phase' \in [Calls -> {"none", "put", "enq", "wait", "finally", "over"}]
        /\ pending' \in [Ids -> 0..MaxCalls]
    <3>1. /\ phase \in [Calls -> {"none", "put", "enq", "wait", "finally", "over"}]
          /\ pending \in [Ids -> 0..MaxCalls]
      BY DEF IInv, TypeOK
    <3>2. phase' = [phase EXCEPT ![k] = "put"] \/ phase' = [phase EXCEPT ![k] = "over"]
      BY <1>4
    <3>3. pending' = [pending EXCEPT ![k] = k] \/ pending' = pending
      BY <1>4
    <3> HIDE DEF k
    <3>4. phase' \in [Calls -> {"none", "put", "enq", "wait", "finally", "over"}]
      BY <3>1, <3>2
    <3>5. pending' \in [Ids -> 0..MaxCalls]
      BY <1>1, <3>1, <3>3
    <3> QED BY <3>4, <3>5
  <2>3. outcome' \in [Calls -> {"none", "answered", "timeout", "invalid", "failed"}]
    BY <1>1, <1>4 DEF IInv, TypeOK
  <2>2. /\ tracking' \in [Calls -> 0..MaxCalls]
        /\ \A j \in Calls : phase'[j] # "none" => tracking'[j] \in Calls
    BY <1>1, <1>4 DEF IInv, TypeOK
  <2> QED
    BY <1>1, <1>5, <2>1, <2>2, <2>3 DEF IInv, TypeOK, nodePart, dispatcher
<1>7. /\ \A j \in Calls : j # k =>
           /\ phase'[j] = phase[j] /\ tracking'[j] = tracking[j]
           /\ outcome'[j] = outcome[j]
      /\ \A i \in Ids : i # k => pending'[i] = pending[i]
      /\ tracking'[k] = k
      /\ outcome'[k] = "answered" => outcome'[k] = outcome[k]
      /\ \/ pending'[k] = k /\ phase'[k] = "put"
         \/ pending'[k] = pending[k] /\ phase'[k] = "over"
  BY <1>1, <1>4 DEF IInv, TypeOK
<1>8. pending[k] = Nobody
  BY <1>1, <1>3 DEF IInv, ServiceInv, FiledOpen, Waiting
<1>9. Numbered'
  BY <1>1, <1>2, <1>3, <1>5, <1>7 DEF IInv, ServiceInv, Numbered
<1>10. FiledOpen'
  BY <1>1, <1>3, <1>5, <1>7, <1>8 DEF IInv, ServiceInv, FiledOpen, Waiting
<1>11. MessagesOwn' /\ AnswersFit'
  BY <1>1, <1>5, <1>7
  DEF IInv, ServiceInv, MessagesOwn, AnswersFit, nodePart, dispatcher
<1>12. InHand'
  <2>1. dpc = "set" => dcall # k /\ dcall \in Ids /\ dcall <= calls'
    BY <1>2, ServiceFacts DEF IInv, ServiceInv, InHand
  <2> QED
    BY <1>5, <1>7, <2>1 DEF IInv, ServiceInv, InHand, dispatcher
<1>13. NoneForgotten'
  BY <1>1, <1>5, <1>7, ServiceFacts
  DEF IInv, ServiceInv, NoneForgotten, Waiting, dispatcher
<1> QED
  BY <1>6, <1>9, <1>10, <1>11, <1>12, <1>13 DEF IInv, ServiceInv

LEMMA HandlerInv ==
  ASSUME IInv, NEW k \in Calls, Handler(k)
  PROVE  IInv'
<1>1. CASE PutTest(k)
  <2>1. TypeOK'
    BY <1>1 DEF IInv, ServiceInv, TypeOK, nodePart, dispatcher, PutTest
  <2>2. Numbered'
    BY <1>1 DEF IInv, ServiceInv, TypeOK, Numbered, PutTest
  <2>3. FiledOpen'
    BY <1>1 DEF IInv, ServiceInv, TypeOK, FiledOpen, Waiting, PutTest
  <2>4. MessagesOwn'
    BY <1>1 DEF IInv, ServiceInv, MessagesOwn, nodePart, dispatcher, PutTest
  <2>5. AnswersFit'
    BY <1>1 DEF IInv, ServiceInv, TypeOK, AnswersFit, PutTest
  <2>6. InHand'
    BY <1>1 DEF IInv, ServiceInv, TypeOK, InHand, dispatcher, PutTest
  <2>7. NoneForgotten'
    BY <1>1 DEF IInv, ServiceInv, TypeOK, NoneForgotten, Waiting, dispatcher, PutTest
  <2> QED BY <2>1, <2>2, <2>3, <2>4, <2>5, <2>6, <2>7 DEF IInv, ServiceInv
<1>2. CASE PutRequest(k)
  <2> DEFINE r == [id |-> tracking[k], of |-> k]
  <2>1. r \in OwnRequest /\ r \in Request
    BY <1>2, OwnAreRequests DEF IInv, ServiceInv, Numbered, PutRequest
  <2>2. /\ inq' = Append(inq, r)
        /\ phase' = [phase EXCEPT ![k] = "wait"]
        /\ UNCHANGED <<calls, tracking, outcome, pending, future, answer, expired,
                       working, left, dead, dispq, dispatcher, cpc, service>>
    BY <1>2 DEF PutRequest
  <2> HIDE DEF r
  <2>3. inq' \in Seq(OwnRequest)
    BY <2>1, <2>2 DEF IInv, ServiceInv, MessagesOwn
  <2>4. inq' \in Seq(Request)
    BY <2>1, <2>2 DEF IInv, TypeOK
  <2>5. TypeOK'
    <3>1. /\ phase' \in [Calls -> {"none", "put", "enq", "wait", "finally", "over"}]
          /\ \A j \in Calls : phase'[j] # "none" => tracking'[j] \in Calls
      BY <1>2, <2>2 DEF IInv, TypeOK, PutRequest
    <3> QED BY <2>2, <2>4, <3>1 DEF IInv, TypeOK, dispatcher
  <2>6. MessagesOwn'
    BY <2>2, <2>3 DEF IInv, ServiceInv, MessagesOwn, dispatcher
  <2>7. Numbered'
    BY <1>2 DEF IInv, ServiceInv, TypeOK, Numbered, PutRequest
  <2>8. FiledOpen'
    BY <1>2 DEF IInv, ServiceInv, TypeOK, FiledOpen, Waiting, PutRequest
  <2>9. AnswersFit'
    BY <1>2 DEF IInv, ServiceInv, TypeOK, AnswersFit, PutRequest
  <2>10. InHand'
    BY <1>2 DEF IInv, ServiceInv, TypeOK, InHand, dispatcher, PutRequest
  <2>11. NoneForgotten'
    BY <1>2 DEF IInv, ServiceInv, TypeOK, NoneForgotten, Waiting, dispatcher, PutRequest
  <2> QED
    BY <2>5, <2>6, <2>7, <2>8, <2>9, <2>10, <2>11 DEF IInv, ServiceInv
<1>3. CASE Result(k)
  <2>1. TypeOK'
    BY <1>3 DEF IInv, ServiceInv, TypeOK, nodePart, dispatcher, Result
  <2>2. Numbered'
    BY <1>3 DEF IInv, ServiceInv, TypeOK, Numbered, Result
  <2>3. FiledOpen'
    BY <1>3 DEF IInv, ServiceInv, TypeOK, FiledOpen, Waiting, Result
  <2>4. MessagesOwn'
    BY <1>3 DEF IInv, ServiceInv, MessagesOwn, nodePart, dispatcher, Result
  <2>5. AnswersFit'
    BY <1>3 DEF IInv, ServiceInv, TypeOK, AnswersFit, Result
  <2>6. InHand'
    BY <1>3 DEF IInv, ServiceInv, TypeOK, InHand, dispatcher, Result
  <2>7. NoneForgotten'
    BY <1>3 DEF IInv, ServiceInv, TypeOK, NoneForgotten, Waiting, dispatcher, Result
  <2> QED BY <2>1, <2>2, <2>3, <2>4, <2>5, <2>6, <2>7 DEF IInv, ServiceInv
<1>4. CASE TimeOut(k)
  <2>1. TypeOK'
    BY <1>4 DEF IInv, ServiceInv, TypeOK, nodePart, dispatcher, TimeOut
  <2>2. Numbered'
    BY <1>4 DEF IInv, ServiceInv, TypeOK, Numbered, TimeOut
  <2>3. FiledOpen'
    BY <1>4 DEF IInv, ServiceInv, TypeOK, FiledOpen, Waiting, TimeOut
  <2>4. MessagesOwn'
    BY <1>4 DEF IInv, ServiceInv, MessagesOwn, nodePart, dispatcher, TimeOut
  <2>5. AnswersFit'
    BY <1>4 DEF IInv, ServiceInv, TypeOK, AnswersFit, TimeOut
  <2>6. InHand'
    BY <1>4 DEF IInv, ServiceInv, TypeOK, InHand, dispatcher, TimeOut
  <2>7. NoneForgotten'
    BY <1>4 DEF IInv, ServiceInv, TypeOK, NoneForgotten, Waiting, dispatcher, TimeOut
  <2> QED BY <2>1, <2>2, <2>3, <2>4, <2>5, <2>6, <2>7 DEF IInv, ServiceInv
<1>5. CASE Finally(k)
  <2>1. k \in Ids /\ Nobody \in 0..MaxCalls
    BY ServiceFacts DEF Ids, Nobody, Calls
  <2>2. phase[k] = "finally" /\ tracking[k] = k
    BY <1>5 DEF IInv, ServiceInv, Numbered, Finally
  <2>3. /\ pending' = [pending EXCEPT ![k] = Nobody]
        /\ phase' = [phase EXCEPT ![k] = "over"]
        /\ UNCHANGED <<calls, tracking, outcome, future, answer, expired, nodePart,
                       dispq, dispatcher, cpc, service>>
    BY <1>5, <2>2 DEF Finally
  <2>4. /\ \A j \in Calls : j # k => phase'[j] = phase[j]
        /\ \A i \in Ids : i # k => pending'[i] = pending[i]
        /\ pending'[k] = Nobody /\ phase'[k] = "over"
    BY <2>1, <2>3 DEF IInv, TypeOK
  <2>5. TypeOK'
    <3>1. /\ phase' \in [Calls -> {"none", "put", "enq", "wait", "finally", "over"}]
          /\ pending' \in [Ids -> 0..MaxCalls]
      BY <2>1, <2>3 DEF IInv, TypeOK
    <3>2. \A j \in Calls : phase'[j] # "none" => tracking'[j] \in Calls
      BY <2>2, <2>3, <2>4 DEF IInv, TypeOK
    <3> QED BY <2>3, <3>1, <3>2 DEF IInv, TypeOK, nodePart, dispatcher
  <2>6. Numbered'
    BY <2>2, <2>3, <2>4 DEF IInv, ServiceInv, Numbered
  <2>7. FiledOpen'
    BY <2>3, <2>4 DEF IInv, ServiceInv, FiledOpen, Waiting
  <2>8. MessagesOwn' /\ AnswersFit'
    BY <2>3 DEF IInv, ServiceInv, MessagesOwn, AnswersFit, nodePart, dispatcher
  <2>9. InHand'
    <3>1. dpc = "set" => dcall \in Ids /\ dcall \in Calls
      BY ServiceFacts DEF IInv, ServiceInv, InHand
    <3> QED BY <2>3, <2>4, <3>1 DEF IInv, ServiceInv, InHand, dispatcher
  <2>10. NoneForgotten'
    <3>1. \A j \in Calls : j \in Ids
      BY ServiceFacts
    <3> QED
      BY <2>3, <2>4, <3>1 DEF IInv, ServiceInv, NoneForgotten, Waiting, dispatcher
  <2> QED
    BY <2>5, <2>6, <2>7, <2>8, <2>9, <2>10 DEF IInv, ServiceInv
<1> QED
  BY <1>1, <1>2, <1>3, <1>4, <1>5 DEF Handler

LEMMA ExpireInv ==
  ASSUME IInv, NEW k \in Calls, Expire(k)
  PROVE  IInv'
<1>1. TypeOK'
  BY DEF IInv, ServiceInv, TypeOK, nodePart, dispatcher, Expire, handlerPart
<1>2. Numbered'
  BY DEF IInv, ServiceInv, TypeOK, Numbered, Expire, handlerPart
<1>3. FiledOpen'
  BY DEF IInv, ServiceInv, TypeOK, FiledOpen, Waiting, Expire, handlerPart
<1>4. MessagesOwn'
  BY DEF IInv, ServiceInv, MessagesOwn, nodePart, dispatcher, Expire, handlerPart
<1>5. AnswersFit'
  BY DEF IInv, ServiceInv, TypeOK, AnswersFit, Expire, handlerPart
<1>6. InHand'
  BY DEF IInv, ServiceInv, TypeOK, InHand, dispatcher, Expire, handlerPart
<1>7. NoneForgotten'
  BY DEF IInv, ServiceInv, TypeOK, NoneForgotten, Waiting, dispatcher, Expire, handlerPart
<1> QED BY <1>1, <1>2, <1>3, <1>4, <1>5, <1>6, <1>7 DEF IInv, ServiceInv

-----------------------------------------------------------------------------
(***************************************************************************)
(* The node and the dispatcher.                                            *)
(***************************************************************************)
LEMMA NodeInv ==
  ASSUME IInv, NodeStep
  PROVE  IInv'
<1>1. UNCHANGED <<handlerPart, pending, future, answer, expired, dispatcher, cpc,
                  service>>
  BY DEF NodeStep, NodeTake, NodeTransmit, NodeDone, NodeFail
<1>2. /\ inq' \in Seq(OwnRequest) /\ dispq' \in Seq(OwnRequest)
      /\ working' \in OwnRequest \cup {NoRequest}
  <2>1. CASE NodeTake
    BY <2>1 DEF IInv, ServiceInv, MessagesOwn, NodeTake
  <2>2. CASE NodeTransmit
    BY <2>2 DEF IInv, ServiceInv, MessagesOwn, NodeTransmit
  <2>3. CASE NodeDone \/ NodeFail
    BY <2>3 DEF IInv, ServiceInv, MessagesOwn, NodeDone, NodeFail
  <2> QED BY <2>1, <2>2, <2>3 DEF NodeStep
<1>3. /\ inq' \in Seq(Request) /\ dispq' \in Seq(Request)
      /\ working' \in Request \cup {NoRequest}
  <2>1. CASE NodeTake
    BY <2>1 DEF IInv, TypeOK, NodeTake
  <2>2. CASE NodeTransmit
    BY <2>2 DEF IInv, TypeOK, NodeTransmit
  <2>3. CASE NodeDone \/ NodeFail
    BY <2>3 DEF IInv, TypeOK, NodeDone, NodeFail
  <2> QED BY <2>1, <2>2, <2>3 DEF NodeStep
<1>4. left' \in Nat /\ dead' \in BOOLEAN
  <2>1. CASE NodeTake
    <3>1. left' \in Replies /\ dead' = dead
      BY <2>1 DEF NodeTake
    <3> QED BY <3>1, ServiceFacts DEF IInv, TypeOK
  <2>2. CASE NodeTransmit \/ NodeDone \/ NodeFail
    <3>1. left \in Nat /\ dead \in BOOLEAN
      BY DEF IInv, TypeOK
    <3>2. dead' = dead \/ dead' = TRUE
      BY <2>2 DEF NodeTransmit, NodeDone, NodeFail
    <3>3. (left > 0 /\ left' = left - 1) \/ left' = left \/ left' = 0
      <4>1. CASE NodeTransmit BY <4>1 DEF NodeTransmit
      <4>2. CASE NodeDone BY <4>2 DEF NodeDone
      <4>3. CASE NodeFail BY <4>3 DEF NodeFail
      <4> QED BY <2>2, <4>1, <4>2, <4>3
    <3>4. left' \in Nat BY <3>1, <3>3
    <3>5. dead' \in BOOLEAN BY <3>1, <3>2
    <3> QED BY <3>4, <3>5
  <2> QED BY <2>1, <2>2 DEF NodeStep
<1>5. TypeOK'
  BY <1>1, <1>3, <1>4 DEF IInv, TypeOK, handlerPart, dispatcher
<1>6. MessagesOwn'
  BY <1>1, <1>2 DEF IInv, ServiceInv, MessagesOwn, dispatcher
<1>7. Numbered' /\ FiledOpen' /\ AnswersFit' /\ InHand' /\ NoneForgotten'
  BY <1>1 DEF IInv, ServiceInv, Numbered, FiledOpen, AnswersFit, InHand,
              NoneForgotten, handlerPart, dispatcher
<1> QED BY <1>5, <1>6, <1>7 DEF IInv, ServiceInv

LEMMA DispatcherInv ==
  ASSUME IInv, Dispatcher
  PROVE  IInv'
<1>1. UNCHANGED <<handlerPart, expired, nodePart, cpc, service>>
  BY DEF Dispatcher, DispatchTop, DispatchGet, DispatchPop, DispatchSet
<1>2. CASE DispatchTop
  <2>1. TypeOK'
    BY <1>1, <1>2 DEF IInv, TypeOK, DispatchTop, handlerPart, nodePart
  <2>2. Numbered' /\ FiledOpen' /\ MessagesOwn' /\ AnswersFit'
    BY <1>1, <1>2 DEF IInv, ServiceInv, Numbered, FiledOpen, MessagesOwn,
                      AnswersFit, DispatchTop, handlerPart, nodePart
  <2>3. InHand' /\ NoneForgotten'
    BY <1>1, <1>2 DEF IInv, ServiceInv, InHand, NoneForgotten, DispatchTop,
                      handlerPart
  <2> QED BY <2>1, <2>2, <2>3 DEF IInv, ServiceInv
<1>3. CASE DispatchGet
  <2>1. /\ dpc = "get" /\ dpc' \in {"top", "pop"}
        /\ UNCHANGED <<pending, future, answer, dcall>>
    BY <1>3 DEF DispatchGet
  <2>2. /\ dispq' \in Seq(OwnRequest)
        /\ dmsg' \in OwnRequest \cup {NoRequest}
        /\ dpc' = "pop" => dmsg' \in OwnRequest
    BY <1>3 DEF IInv, ServiceInv, MessagesOwn, DispatchGet
  <2>3. dispq' \in Seq(Request) /\ dmsg' \in Request \cup {NoRequest}
    <3>1. dispq \in Seq(Request)
      BY DEF IInv, TypeOK
    <3>2. dispq' = dispq \/ (dispq # <<>> /\ dispq' = Tail(dispq))
      BY <1>3 DEF DispatchGet
    <3>3. dispq' \in Seq(Request)
      BY <3>1, <3>2, TailIsSeq
    <3> QED BY <2>2, <3>3, OwnAreRequests
  <2>4. TypeOK'
    BY <1>1, <2>1, <2>3 DEF IInv, TypeOK, handlerPart, nodePart
  <2>5. Numbered' /\ FiledOpen' /\ AnswersFit'
    BY <1>1, <2>1
    DEF IInv, ServiceInv, Numbered, FiledOpen, AnswersFit, handlerPart
  <2>6. MessagesOwn'
    BY <1>1, <2>2 DEF IInv, ServiceInv, MessagesOwn, nodePart
  <2>7. InHand' /\ NoneForgotten'
    BY <1>1, <2>1, <2>2 DEF IInv, ServiceInv, InHand, NoneForgotten, handlerPart
  <2> QED BY <2>4, <2>5, <2>6, <2>7 DEF IInv, ServiceInv
<1>4. CASE DispatchPop
  <2> DEFINE i == dmsg.id
  <2>1. i \in Calls /\ i \in Ids /\ dmsg \in OwnRequest
    BY <1>4, OwnAreRequests, ServiceFacts DEF IInv, ServiceInv, InHand, DispatchPop
  <2>2. /\ dcall' = pending[i]
        /\ pending' = [pending EXCEPT ![i] = Nobody]
        /\ dpc' = IF dcall' = Nobody THEN "top" ELSE "set"
        /\ UNCHANGED <<future, answer, dispq, dmsg>>
        /\ dpc = "pop"
    BY <1>4 DEF DispatchPop
  <2>3. /\ \A j \in Ids : j # i => pending'[j] = pending[j]
        /\ pending'[i] = Nobody
    BY <2>1, <2>2 DEF IInv, TypeOK
  <2>4. \/ pending[i] = Nobody /\ dpc' = "top" /\ dcall' = Nobody
        \/ /\ pending[i] = i /\ dpc' = "set" /\ dcall' = i
           /\ future[i] = "open" /\ phase[i] # "none"
    <3>1. i # Nobody
      BY <2>1, ServiceFacts
    <3> QED
      BY <2>1, <2>2, <3>1 DEF IInv, ServiceInv, FiledOpen, Waiting
  <2>5. TypeOK'
    <3>1. Nobody \in 0..MaxCalls
      BY ServiceFacts DEF Nobody
    <3>2. pending' \in [Ids -> 0..MaxCalls] /\ dcall' \in 0..MaxCalls
      BY <2>1, <2>2, <3>1 DEF IInv, TypeOK
    <3>3. dpc' \in {"top", "set"} /\ UNCHANGED <<future, answer, dispq, dmsg>>
      BY <2>2
    <3> QED
      BY <1>1, <3>2, <3>3 DEF IInv, TypeOK, handlerPart, nodePart
  <2> HIDE DEF i
  <2>6. Numbered' /\ AnswersFit' /\ MessagesOwn'
    BY <1>1, <2>2
    DEF IInv, ServiceInv, Numbered, AnswersFit, MessagesOwn, handlerPart, nodePart
  <2>7. FiledOpen'
    BY <1>1, <2>2, <2>3 DEF IInv, ServiceInv, FiledOpen, handlerPart
  <2>8. InHand'
    <3>1. phase[i] # "none" => i <= calls
      BY <2>1 DEF IInv, ServiceInv, Numbered
    <3>2. UNCHANGED <<calls, future, dmsg>>
      BY <1>1, <2>2 DEF handlerPart
    <3> QED BY <2>1, <2>3, <2>4, <3>1, <3>2 DEF InHand, i
  <2>9. NoneForgotten'
    <3>1. \A j \in Calls : j \in Ids
      BY ServiceFacts
    <3> QED
      BY <1>1, <2>1, <2>2, <2>3, <2>4, <3>1
      DEF IInv, ServiceInv, NoneForgotten, handlerPart
  <2> QED BY <2>5, <2>6, <2>7, <2>8, <2>9 DEF IInv, ServiceInv
<1>5. CASE DispatchSet
  <2>1. /\ dcall \in Calls /\ dcall = dmsg.id /\ dmsg.of = dmsg.id
        /\ dcall <= calls /\ future[dcall] = "open" /\ pending[dcall] = Nobody
    BY <1>5, OwnAreRequests DEF IInv, ServiceInv, InHand, DispatchSet
  <2>2. /\ future' = [future EXCEPT ![dcall] = "result"]
        /\ answer' = [answer EXCEPT ![dcall] = dcall]
        /\ dpc' = "top" /\ dmsg' = NoRequest /\ dcall' = Nobody
        /\ UNCHANGED <<pending, dispq>>
    BY <1>5, <2>1 DEF DispatchSet
  <2>3. /\ \A j \in Calls : j # dcall => future'[j] = future[j] /\ answer'[j] = answer[j]
        /\ future'[dcall] = "result" /\ answer'[dcall] = dcall
    BY <2>1, <2>2 DEF IInv, TypeOK
  <2>4. TypeOK'
    <3>1. dcall \in 0..MaxCalls /\ Nobody \in 0..MaxCalls
      BY <2>1, ServiceFacts DEF Calls, Nobody
    <3>2. /\ future' \in [Calls -> {"open", "result", "error"}]
          /\ answer' \in [Calls -> 0..MaxCalls]
      BY <2>2, <3>1 DEF IInv, TypeOK
    <3> QED
      BY <1>1, <2>2, <3>1, <3>2 DEF IInv, TypeOK, handlerPart, nodePart
  <2>5. Numbered'
    BY <1>1, <2>1, <2>3 DEF IInv, ServiceInv, Numbered, handlerPart
  <2>6. FiledOpen'
    BY <1>1, <2>1, <2>2, <2>3 DEF IInv, ServiceInv, FiledOpen, handlerPart
  <2>7. MessagesOwn'
    BY <1>1, <2>2 DEF IInv, ServiceInv, MessagesOwn, nodePart
  <2>8. AnswersFit'
    BY <1>1, <2>1, <2>3 DEF IInv, ServiceInv, AnswersFit, handlerPart
  <2>9. InHand'
    BY <2>2 DEF InHand
  <2>10. NoneForgotten'
    BY <1>1, <1>5, <2>2, <2>3
    DEF IInv, ServiceInv, NoneForgotten, handlerPart, DispatchSet
  <2> QED
    BY <2>4, <2>5, <2>6, <2>7, <2>8, <2>9, <2>10 DEF IInv, ServiceInv
<1> QED BY <1>2, <1>3, <1>4, <1>5 DEF Dispatcher

-----------------------------------------------------------------------------
(***************************************************************************)
(* Cancelling what is filed, by the cleanup thread or the shutdown.        *)
(***************************************************************************)
LEMMA CancelInv ==
  ASSUME IInv, NEW S \in SUBSET Filed, Cancel(S),
         UNCHANGED <<handlerPart, answer, expired, nodePart, dispq, dispatcher>>,
         cpc' \in {"sleep", "over"},
         service' \in {"up", "stopping", "cancelled", "node", "down"}
  PROVE  IInv'
<1>1. \A i \in Ids : pending'[i] = IF pending[i] \in S THEN Nobody ELSE pending[i]
  BY DEF Cancel
<1>2. \A k \in Calls : future'[k] = IF k \in S /\ future[k] = "open" THEN "error"
                                    ELSE future[k]
  BY DEF Cancel
<1>3. \A k \in S : k \in Calls /\ k \in Ids /\ pending[k] = k /\ phase[k] # "none"
  BY DEF IInv, ServiceInv, FiledOpen, Filed, Waiting
<1>4. TypeOK'
  <2>1. Nobody \in 0..MaxCalls
    BY ServiceFacts DEF Nobody
  <2>2. pending' \in [Ids -> 0..MaxCalls]
    BY <2>1 DEF IInv, TypeOK, Cancel
  <2>3. future' \in [Calls -> {"open", "result", "error"}]
    BY DEF IInv, TypeOK, Cancel
  <2> QED
    BY <2>2, <2>3 DEF IInv, TypeOK, handlerPart, nodePart, dispatcher
<1>5. Numbered'
  BY <1>2, <1>3 DEF IInv, ServiceInv, Numbered, handlerPart
<1>6. FiledOpen'
  BY <1>1, <1>2 DEF IInv, ServiceInv, FiledOpen, handlerPart
<1>7. MessagesOwn'
  BY DEF IInv, ServiceInv, MessagesOwn, nodePart, dispatcher
<1>8. AnswersFit'
  BY <1>2 DEF IInv, ServiceInv, AnswersFit, handlerPart
<1>9. InHand'
  <2>1. dpc = "set" => dcall \in Ids /\ dcall \notin S
    BY <1>3, ServiceFacts DEF IInv, ServiceInv, InHand
  <2> QED
    BY <1>1, <1>2, <2>1 DEF IInv, ServiceInv, InHand, handlerPart, dispatcher
<1>10. NoneForgotten'
  <2>1. \A k \in Calls : k \in Ids
    BY ServiceFacts
  <2> QED
    BY <1>1, <1>2, <2>1
    DEF IInv, ServiceInv, NoneForgotten, handlerPart, dispatcher
<1> QED
  BY <1>4, <1>5, <1>6, <1>7, <1>8, <1>9, <1>10 DEF IInv, ServiceInv

LEMMA QuietInv ==
  ASSUME IInv,
         UNCHANGED <<handlerPart, pending, future, answer, expired, nodePart, dispq,
                     dispatcher, cpc>>,
         service' \in {"up", "stopping", "cancelled", "node", "down"}
  PROVE  IInv'
<1>1. TypeOK'
  BY DEF IInv, TypeOK, handlerPart, nodePart, dispatcher
<1>2. Numbered' /\ FiledOpen' /\ MessagesOwn' /\ AnswersFit' /\ InHand'
      /\ NoneForgotten'
  BY DEF IInv, ServiceInv, Numbered, FiledOpen, MessagesOwn, AnswersFit, InHand,
         NoneForgotten, handlerPart, nodePart, dispatcher
<1> QED BY <1>1, <1>2 DEF IInv, ServiceInv

LEMMA NextInv == IInv /\ [Next]_vars => IInv'
<1> SUFFICES ASSUME IInv, [Next]_vars PROVE IInv'
  OBVIOUS
<1>1. CASE Begin BY <1>1, BeginInv
<1>2. CASE \E k \in Calls : Handler(k) \/ Expire(k)
  BY <1>2, HandlerInv, ExpireInv
<1>3. CASE NodeStep BY <1>3, NodeInv
<1>4. CASE Dispatcher BY <1>4, DispatcherInv
<1>5. CASE Cleanup
  <2>1. cpc' \in {"sleep", "over"} /\ service' = service
    BY <1>5 DEF Cleanup
  <2>2. service \in {"up", "stopping", "cancelled", "node", "down"}
    BY DEF IInv, TypeOK
  <2>3. Filed \cap expired \in SUBSET Filed /\ Cancel(Filed \cap expired)
    BY <1>5 DEF Cleanup
  <2>4. UNCHANGED <<handlerPart, answer, expired, nodePart, dispq, dispatcher>>
    BY <1>5 DEF Cleanup
  <2> QED BY <2>1, <2>2, <2>3, <2>4, CancelInv
<1>6. CASE ShutdownCancel
  <2>1. cpc' = cpc /\ service' = "cancelled"
    BY <1>6 DEF ShutdownCancel
  <2>2. cpc \in {"sleep", "over"}
    BY DEF IInv, TypeOK
  <2>3. Filed \in SUBSET Filed /\ Cancel(Filed)
    BY <1>6 DEF ShutdownCancel
  <2>4. UNCHANGED <<handlerPart, answer, expired, nodePart, dispq, dispatcher>>
    BY <1>6 DEF ShutdownCancel
  <2> QED BY <2>1, <2>2, <2>3, <2>4, CancelInv
<1>7. CASE ShutdownBegin \/ StopNode \/ StopServer
  BY <1>7, QuietInv DEF ShutdownBegin, StopNode, StopServer
<1>8. CASE UNCHANGED vars
  <2>1. service \in {"up", "stopping", "cancelled", "node", "down"}
    BY DEF IInv, TypeOK
  <2>2. UNCHANGED <<handlerPart, pending, future, answer, expired, nodePart, dispq,
                    dispatcher, cpc, service>>
    BY <1>8 DEF vars, handlerPart, nodePart, dispatcher
  <2> QED BY <2>1, <2>2, QuietInv
<1> QED
  BY <1>1, <1>2, <1>3, <1>4, <1>5, <1>6, <1>7, <1>8 DEF Next, Shutdown

LEMMA ServiceInvariant == Spec => []IInv
<1>1. Init => IInv BY InitInv
<1>2. IInv /\ [Next]_vars => IInv' BY NextInv
<1> QED BY <1>1, <1>2, PTL DEF Spec

-----------------------------------------------------------------------------
(***************************************************************************)
(* What the service promises its callers.                                  *)
(***************************************************************************)
\* A call of SendAndReceive never returns what the node made of another's
\* request: update() stamps what it transmits with the id of the request in
\* hand, and no id is drawn twice.
THEOREM AnswersAreOwn == Spec => []AnswersOwn
<1>1. IInv => AnswersOwn
  BY DEF IInv, ServiceInv, AnswersFit, AnswersOwn
<1> QED BY <1>1, ServiceInvariant, PTL

\* set_result of _dispatcher_loop never meets a future that is done: whoever
\* pops a context (dispatcher, cleanup, finally, shutdown) has it alone.
THEOREM FuturesCompletedOnce == Spec => []CompletedOnce
<1>1. IInv => CompletedOnce
  BY DEF IInv, ServiceInv, InHand, CompletedOnce
<1> QED BY <1>1, ServiceInvariant, PTL

\* A message whose id is not found in pending_requests belongs to a call that
\* waits no more or whose future is done.
THEOREM AnswersFindTheirCall == Spec => []AnswerFindsCall
<1>1. IInv => AnswerFindsCall
  <2> SUFFICES ASSUME IInv, dpc = "pop", pending[dmsg.id] = Nobody
               PROVE  \/ phase[dmsg.of] \notin Waiting
                      \/ future[dmsg.of] # "open"
    BY DEF AnswerFindsCall, Waiting
  <2>1. dmsg.of = dmsg.id /\ dmsg.of \in Calls /\ dmsg.of # Nobody
    BY OwnAreRequests, ServiceFacts DEF IInv, ServiceInv, InHand
  <2> QED BY <2>1 DEF IInv, ServiceInv, NoneForgotten
<1> QED BY <1>1, ServiceInvariant, PTL

\* pending_requests never holds the context of a call that has ended, whether by
\* an answer, a timeout, a failure or the shutdown.
THEOREM NothingLeaks == Spec => []NoLeak
<1>1. IInv => NoLeak
  BY DEF IInv, ServiceInv, FiledOpen, Waiting, NoLeak
<1> QED BY <1>1, ServiceInvariant, PTL
=============================================================================
