--------------------------- MODULE ManagerProofs ---------------------------
(***************************************************************************)
(* For any number of clients and nodes: clients that make warmups alone    *)
(* never have a node replaced at work; a pipeline linked once that runs    *)
(* has started every node; and, for clients that make deletions alone, one *)
(* that is READY or deleted has no node at work. The theorems rest on five *)
(* invariants, each inductive with those before it: WarmInv, TypeInv,      *)
(* PlaceInv (what the loops have visited), BusyInv with NodesInv (who is   *)
(* at which operation, what has become of the nodes) and CareInv.          *)
(***************************************************************************)
EXTENDS Manager, WellFoundedInduction, TLAPS

Wants(c) == "warmup" \in Range(plan[c])
Warming(c) == pc[c] \in {"build", "warm"}
Fresh == pstatus \in {"none", "NEW"}

Typed ==
  /\ threads \in [Nodes -> {"new", "live", "stopped"}]
  /\ exclusive \in Disciplines
  /\ plan \in [Clients -> Seq(Ops)]
  /\ pc \in [Clients -> Labels]

\* The one client with a warmup to do is alone, and the pipeline is NEW while
\* it is at it; a pipeline that is has never been started.
Alone == \A c, d \in Clients : c # d /\ Wants(c) => Idle(d)
WarmsNew ==
  \A c \in Clients : Warming(c) => ~Idle(c) /\ Op(c) = "warmup" /\ pstatus = "NEW"
FreshIsQuiet == Fresh => Quiet
StartsOld == \A c \in Clients : pc[c] = "start" => ~Fresh
NoneIsIdle == pstatus = "none" => \A c \in Clients : Idle(c)

WarmInv == Typed /\ Alone /\ WarmsNew /\ FreshIsQuiet /\ StartsOld /\ NoneIsIdle

-----------------------------------------------------------------------------
LEMMA EmptyPlan == Range(<<>>) = {}
  BY DEF Range

LEMMA WarmInvInit == Init => WarmInv
<1> SUFFICES ASSUME Init PROVE WarmInv
  OBVIOUS
<1>1. Typed
  BY DEF Init, Typed, Labels
<1>2. \A c \in Clients : Idle(c) /\ pc[c] = "check"
  BY DEF Init, Idle
<1>3. Alone /\ NoneIsIdle
  BY <1>2 DEF Alone, NoneIsIdle
<1>4. WarmsNew /\ StartsOld
  BY <1>2 DEF WarmsNew, StartsOld, Warming
<1>5. FreshIsQuiet
  BY DEF Init, FreshIsQuiet, Quiet
<1> QED
  BY <1>1, <1>3, <1>4, <1>5 DEF WarmInv

\* What a client has to do next is among what it has to do.
LEMMA OpIsPlanned ==
  ASSUME Typed, NEW c \in Clients, ~Idle(c)
  PROVE  /\ Op(c) \in Range(plan[c])
         /\ Tail(plan[c]) \in Seq(Ops)
         /\ Range(Tail(plan[c])) \subseteq Range(plan[c])
<1>1. plan[c] \in Seq(Ops) /\ plan[c] # <<>>
  BY DEF Typed, Idle
<1> DEFINE s == plan[c]
<1>2. Len(s) \in Nat \ {0} /\ DOMAIN s = 1..Len(s)
  BY <1>1
<1>3. \A i \in 1..Len(Tail(s)) : Tail(s)[i] = s[i + 1] /\ i + 1 \in DOMAIN s
  BY <1>1, <1>2
<1>4. DOMAIN Tail(s) = 1..Len(Tail(s))
  BY <1>1
<1> QED
  BY <1>1, <1>2, <1>3, <1>4 DEF Op, Range

\* A client at a warmup is the only one with anything to do.
LEMMA WarmingIsAlone ==
  ASSUME WarmInv, NEW c \in Clients, Warming(c), NEW d \in Clients, c # d
  PROVE  Idle(d)
<1>1. Typed /\ ~Idle(c) /\ Op(c) = "warmup"
  BY DEF WarmInv, WarmsNew
<1>2. Wants(c)
  BY <1>1, OpIsPlanned DEF Wants
<1> QED
  BY <1>2 DEF WarmInv, Alone

\* A step along a request that is not to a warmup.
LEMMA GoKeeps ==
  ASSUME WarmInv, NEW c \in Clients, ~Idle(c), NEW label \in Labels, NEW loop,
         Go(c, label, loop),
         label \in {"build", "warm"} => Op(c) = "warmup" /\ pstatus = "NEW",
         label = "start" => ~Fresh,
         threads' \in [Nodes -> {"new", "live", "stopped"}],
         Fresh => Quiet',
         \/ pstatus' = pstatus
         \/ ~Fresh' /\ ~Warming(c) /\ label \notin {"build", "warm"}
  PROVE  WarmInv'
<1> USE DEF Go
<1>1. Typed'
  BY DEF WarmInv, Typed
<1>2. Alone'
  BY DEF WarmInv, Alone, Wants, Idle
<1>3. WarmsNew'
  <2> SUFFICES ASSUME NEW d \in Clients, Warming(d)'
               PROVE  (~Idle(d) /\ Op(d) = "warmup" /\ pstatus = "NEW")'
    BY DEF WarmsNew
  <2>1. pc \in [Clients -> Labels]
    BY DEF WarmInv, Typed
  <2>2. CASE d = c
    BY <2>1, <2>2 DEF Warming, Idle, Op
  <2>3. CASE d # c
    <3>1. Warming(d)
      BY <2>1, <2>3 DEF Warming
    <3>2. Idle(c)
      BY <2>3, <3>1, WarmingIsAlone
    <3> QED
      BY <3>2
  <2> QED
    BY <2>2, <2>3
<1>4. FreshIsQuiet' /\ StartsOld' /\ NoneIsIdle'
  BY DEF WarmInv, Typed, FreshIsQuiet, StartsOld, NoneIsIdle, Fresh, Idle
<1> QED
  BY <1>1, <1>2, <1>3, <1>4 DEF WarmInv

\* The end of an operation, by its return or by an exception.
LEMMA LeaveKeeps ==
  ASSUME WarmInv, NEW c \in Clients, ~Idle(c),
         Leave(c, Tail(plan[c])) \/ Leave(c, <<>>),
         threads' \in [Nodes -> {"new", "live", "stopped"}],
         Fresh => Quiet',
         pstatus' = pstatus \/ ~Fresh'
  PROVE  WarmInv'
<1> USE DEF Leave
<1>1. PICK rest \in Seq(Ops) :
        /\ plan' = [plan EXCEPT ![c] = rest]
        /\ Range(rest) \subseteq Range(plan[c])
  <2>1. CASE Leave(c, Tail(plan[c]))
    BY <2>1, OpIsPlanned DEF WarmInv
  <2>2. CASE Leave(c, <<>>)
    <3>1. <<>> \in Seq(Ops)
      OBVIOUS
    <3> QED
      BY <2>2, <3>1, EmptyPlan
  <2> QED
    BY <2>1, <2>2
<1>2. Typed'
  BY <1>1 DEF WarmInv, Typed, Labels
<1>3. Alone'
  BY <1>1 DEF WarmInv, Typed, Alone, Wants, Idle
<1>4. WarmsNew'
  <2> SUFFICES ASSUME NEW d \in Clients, Warming(d)' PROVE FALSE
    BY DEF WarmsNew
  <2>1. d # c /\ Warming(d)
    BY DEF WarmInv, Typed, Warming
  <2>2. Idle(c)
    BY <2>1, WarmingIsAlone
  <2> QED
    BY <2>2
<1>5. FreshIsQuiet' /\ StartsOld' /\ NoneIsIdle'
  BY DEF WarmInv, Typed, FreshIsQuiet, StartsOld, NoneIsIdle, Fresh, Idle
<1> QED
  BY <1>2, <1>3, <1>4, <1>5 DEF WarmInv
-----------------------------------------------------------------------------
\* A new pipeline, or a request to one, by a client with nothing to do.
LEMMA CreateKeeps ==
  ASSUME WarmInv, NEW c \in Clients, Create(c)
  PROVE  WarmInv'
<1> USE DEF Create
<1>1. \A d \in Clients : Idle(d) /\ ~Wants(d)
  BY EmptyPlan DEF WarmInv, NoneIsIdle, Idle, Wants
<1>2. PICK rest \in {<<>>, <<"warmup", "start">>} : Leave(c, rest)
  OBVIOUS
<1>3. Typed'
  <2>1. <<>> \in Seq(Ops) /\ <<"warmup", "start">> \in Seq(Ops)
    BY DEF Ops
  <2> QED
    BY <1>2, <2>1 DEF WarmInv, Typed, Leave, Labels
<1>4. \A d \in Clients : d # c => plan'[d] = plan[d]
  BY <1>2 DEF WarmInv, Typed, Leave
<1>5. Alone'
  BY <1>1, <1>4 DEF Alone, Wants, Idle
<1>6. \A d \in Clients : ~Warming(d)
  BY <1>1 DEF WarmInv, WarmsNew
<1>7. WarmsNew'
  BY <1>2, <1>6 DEF WarmInv, Typed, WarmsNew, Warming, Leave
<1>8. FreshIsQuiet' /\ StartsOld' /\ NoneIsIdle'
  BY <1>2 DEF WarmInv, Typed, FreshIsQuiet, StartsOld, NoneIsIdle, Fresh,
     Quiet, Leave
<1> QED
  BY <1>3, <1>5, <1>7, <1>8 DEF WarmInv

LEMMA BeginKeeps ==
  ASSUME WarmInv, NEW c \in Clients, NEW op \in Ops, Begin(c, op)
  PROVE  WarmInv'
<1> USE DEF Begin
<1>1. Typed'
  BY DEF WarmInv, Typed, pipeline
<1>2. "warmup" \in exclusive
  BY ManagerAssumption DEF WarmInv, Typed
<1>3. Range(<<op>>) = {op}
  BY DEF Range
<1>4. plan'[c] = <<op>> /\ \A d \in Clients : d # c => plan'[d] = plan[d]
  BY DEF WarmInv, Typed
<1>5. Alone'
  <2> SUFFICES ASSUME NEW d \in Clients, NEW e \in Clients, d # e,
                      Wants(d)', ~Idle(e)'
               PROVE  FALSE
    BY DEF Alone
  <2>1. CASE d = c
    <3>1. op = "warmup" /\ ~Idle(e)
      BY <1>3, <1>4, <2>1 DEF Wants, Idle
    <3> QED
      BY <1>2, <3>1
  <2>2. CASE e = c
    <3>1. Wants(d) /\ d # c
      BY <1>4, <2>2 DEF Wants
    <3>2. ~Idle(d)
      BY <3>1, EmptyPlan DEF Wants, Idle
    <3> QED
      BY <1>2, <3>1, <3>2 DEF Wants
  <2>3. CASE d # c /\ e # c
    BY <1>4, <2>3 DEF WarmInv, Alone, Wants, Idle
  <2> QED
    BY <2>1, <2>2, <2>3
<1>6. WarmsNew'
  BY <1>4 DEF WarmInv, WarmsNew, Warming, Idle, Op, pipeline
<1>7. FreshIsQuiet' /\ StartsOld' /\ NoneIsIdle'
  BY DEF WarmInv, FreshIsQuiet, StartsOld, NoneIsIdle, Fresh, Quiet, pipeline
<1> QED
  BY <1>1, <1>5, <1>6, <1>7 DEF WarmInv

\* An exception changes nothing of the pipeline.
LEMMA RaiseKeeps ==
  ASSUME WarmInv, NEW c \in Clients, ~Idle(c), Raise(c)
  PROVE  WarmInv'
<1>1. Fresh => Quiet'
  BY DEF WarmInv, FreshIsQuiet, Quiet, Raise, pipeline
<1> QED
  BY <1>1, LeaveKeeps DEF Raise, pipeline, WarmInv, Typed

\* A step along a request that changes nothing of the pipeline.
LEMMA PlainGoKeeps ==
  ASSUME WarmInv, NEW c \in Clients, ~Idle(c), NEW label \in Labels, NEW loop,
         Go(c, label, loop), UNCHANGED pipeline,
         label \in {"build", "warm"} => Op(c) = "warmup" /\ pstatus = "NEW",
         label = "start" => ~Fresh
  PROVE  WarmInv'
<1>1. Fresh => Quiet'
  BY DEF WarmInv, FreshIsQuiet, Quiet, pipeline
<1>2. threads' \in [Nodes -> {"new", "live", "stopped"}] /\ pstatus' = pstatus
  BY DEF pipeline, WarmInv, Typed
<1> QED
  BY <1>1, <1>2, GoKeeps

\* The tests before an operation.
LEMMA CallKeeps ==
  ASSUME WarmInv, NEW c \in Clients,
         \/ Check(c) \/ CallWarmup(c) \/ CallStart(c) \/ CallDelete(c)
         \/ CallStop(c) \/ CallStopRaise(c)
  PROVE  WarmInv'
<1> USE DEF At, Labels, Loops
<1>1. CASE Check(c)
  BY <1>1, RaiseKeeps, PlainGoKeeps DEF Check
<1>2. CASE CallWarmup(c)
  BY <1>2, RaiseKeeps, PlainGoKeeps DEF CallWarmup, CanWarm
<1>3. CASE CallStart(c)
  BY <1>3, RaiseKeeps, PlainGoKeeps DEF CallStart, CanStart, Fresh
<1>4. CASE CallDelete(c)
  <2>1. CASE registered
    <3>1. PICK label \in {"stopping", "destroying"} : Go(c, label, <<>>)
      BY <1>4, <2>1 DEF CallDelete
    <3> QED
      BY <1>4, <2>1, <3>1, PlainGoKeeps DEF CallDelete
  <2>2. CASE ~registered
    BY <1>4, <2>2, RaiseKeeps DEF CallDelete
  <2> QED
    BY <2>1, <2>2
<1>5. CASE CallStop(c)
  BY <1>5, PlainGoKeeps DEF CallStop
<1>6. CASE CallStopRaise(c)
  BY <1>6, RaiseKeeps DEF CallStopRaise
<1> QED
  BY <1>1, <1>2, <1>3, <1>4, <1>5, <1>6

\* The loops of warmup().
LEMMA WarmupKeeps ==
  ASSUME WarmInv, NEW c \in Clients, Build(c) \/ Warm(c)
  PROVE  WarmInv'
<1>1. ~Idle(c) /\ Warming(c) /\ pc[c] \in Labels
  BY DEF Build, Warm, At, Warming, Labels, Loops
<1>2. Op(c) = "warmup" /\ pstatus = "NEW" /\ Quiet
  BY <1>1 DEF WarmInv, WarmsNew, FreshIsQuiet, Fresh
<1>3. CASE Build(c)
  <2>1. threads' \in [Nodes -> {"new", "live", "stopped"}] /\ Quiet'
    BY <1>2, <1>3 DEF Build, WarmInv, Typed, Quiet
  <2>2. PICK label \in {"build", "warm"}, loop \in {Order, Tail(todo[c])} :
          Go(c, label, loop)
    BY <1>3 DEF Build, Advance, At
  <2>3. label \in Labels /\ label # "start" /\ pstatus' = pstatus
    BY <1>3 DEF Labels, Loops, Build
  <2> QED
    BY <1>1, <1>2, <2>1, <2>2, <2>3, GoKeeps
<1>4. CASE Warm(c)
  <2>1. threads' \in [Nodes -> {"new", "live", "stopped"}] /\ Quiet'
    BY <1>2, <1>4 DEF Warm, WarmInv, Typed, Quiet
  <2>2. CASE LastOf(c)
    <3>1. Leave(c, Tail(plan[c])) /\ ~Fresh'
      BY <1>4, <2>2 DEF Warm, Return, Fresh
    <3> QED
      BY <1>1, <2>1, <3>1, LeaveKeeps
  <2>3. CASE ~LastOf(c)
    <3>1. Go(c, "warm", Tail(todo[c])) /\ pstatus' = pstatus
      BY <1>4, <2>3 DEF Warm, Advance, At
    <3>2. "warm" \in Labels
      BY DEF Labels, Loops
    <3> QED
      BY <1>1, <1>2, <2>1, <3>1, <3>2, GoKeeps
  <2> QED
    BY <2>2, <2>3
<1> QED
  BY <1>3, <1>4

\* A turn of a loop of start(), stop() or destroy().
LEMMA LoopKeeps ==
  ASSUME WarmInv, NEW c \in Clients, ~Idle(c),
         NEW label \in Labels \ {"build", "warm"}, pc[c] = label,
         NEW next \in Labels \ {"build", "warm", "start"},
         \/ Go(c, next, <<>>) \/ Advance(c) \/ Return(c),
         threads' \in [Nodes -> {"new", "live", "stopped"}],
         Fresh => Quiet',
         label = "start" => ~Fresh,
         pstatus' = pstatus \/ ~Fresh'
  PROVE  WarmInv'
<1>1. ~Warming(c)
  BY DEF Warming
<1>2. CASE Go(c, next, <<>>)
  BY <1>1, <1>2, GoKeeps
<1>3. CASE Go(c, label, Tail(todo[c]))
  BY <1>1, <1>3, GoKeeps
<1>4. CASE Return(c)
  BY <1>4, LeaveKeeps DEF Return
<1> QED
  BY <1>2, <1>3, <1>4 DEF Advance

LEMMA OtherLoopsKeep ==
  ASSUME WarmInv, NEW c \in Clients,
         StartNode(c) \/ StopNode(c) \/ Clear(c) \/ Destroy(c) \/ Unregister(c)
  PROVE  WarmInv'
<1> USE DEF At, Labels, Loops
<1>1. Fresh => Quiet
  BY DEF WarmInv, FreshIsQuiet
<1>2. CASE StartNode(c)
  <2>1. ~Fresh /\ ~Idle(c) /\ pc[c] = "start"
    BY <1>2 DEF WarmInv, StartsOld, StartNode
  <2>2. threads' \in [Nodes -> {"new", "live", "stopped"}]
    BY <1>2 DEF WarmInv, Typed, StartNode, Started
  <2>3. Advance(c) \/ Return(c)
    BY <1>2 DEF StartNode
  <2>4. pstatus' = pstatus \/ ~Fresh'
    BY <1>2 DEF StartNode, StatusStarting, Fresh
  <2> QED
    BY <2>1, <2>2, <2>3, <2>4, LoopKeeps
<1>3. CASE StopNode(c)
  <2>1. threads' \in [Nodes -> {"new", "live", "stopped"}] /\ (Fresh => Quiet')
    BY <1>1, <1>3 DEF WarmInv, Typed, StopNode, Quiet
  <2>2. Go(c, "destroying", <<>>) \/ Advance(c) \/ Return(c)
    BY <1>3 DEF StopNode
  <2>3. ~Idle(c) /\ pc[c] = "stop" /\ (pstatus' = pstatus \/ ~Fresh')
    BY <1>3 DEF StopNode, Fresh
  <2> QED
    BY <2>1, <2>2, <2>3, LoopKeeps
<1>4. CASE Clear(c)
  <2>1. threads' \in [Nodes -> {"new", "live", "stopped"}] /\ (Fresh => Quiet')
    BY <1>1, <1>4 DEF WarmInv, Typed, Clear, Quiet
  <2>2. Go(c, "remove", <<>>) \/ Advance(c)
    BY <1>4 DEF Clear
  <2>3. ~Idle(c) /\ pc[c] = "clear" /\ (pstatus' = pstatus \/ ~Fresh')
    BY <1>4 DEF Clear, Fresh
  <2> QED
    BY <2>1, <2>2, <2>3, LoopKeeps
<1>5. CASE Destroy(c)
  <2> DEFINE loop == [i \in 1..Built |-> Order[Built + 1 - i]]
  <2>1. PICK label \in {"clear", "remove"} :
          Go(c, label, loop) \/ Go(c, label, <<>>)
    BY <1>5 DEF Destroy
  <2> HIDE DEF loop
  <2> QED
    BY <1>5, <2>1, PlainGoKeeps DEF Destroy
<1>6. CASE Unregister(c)
  <2>1. CASE registered
    <3>1. threads' = threads /\ pstatus' = pstatus /\ Return(c) /\ ~Idle(c)
      BY <1>6, <2>1 DEF Unregister
    <3>2. threads' \in [Nodes -> {"new", "live", "stopped"}] /\ (Fresh => Quiet')
      BY <1>1, <3>1 DEF WarmInv, Typed, Quiet
    <3> QED
      BY <3>1, <3>2, LeaveKeeps DEF Return
  <2>2. CASE ~registered
    BY <1>6, <2>2, RaiseKeeps DEF Unregister
  <2> QED
    BY <2>1, <2>2
<1> QED
  BY <1>2, <1>3, <1>4, <1>5, <1>6

LEMMA EndsKeeps ==
  ASSUME WarmInv, NEW n \in Nodes, Ends(n)
  PROVE  WarmInv'
  BY DEF WarmInv, Typed, Alone, WarmsNew, FreshIsQuiet, StartsOld, NoneIsIdle,
     Ends, Idle, Wants, Warming, Fresh, Quiet, Op

LEMMA StutterKeeps ==
  ASSUME WarmInv, UNCHANGED vars
  PROVE  WarmInv'
  BY DEF WarmInv, Typed, Alone, WarmsNew, FreshIsQuiet, StartsOld, NoneIsIdle,
     vars, Idle, Wants, Warming, Fresh, Quiet, Op

LEMMA WarmInvStep == WarmInv /\ [Next]_vars => WarmInv'
<1> SUFFICES ASSUME WarmInv, [Next]_vars PROVE WarmInv'
  OBVIOUS
<1>1. ASSUME NEW c \in Clients, ClientStep(c) PROVE WarmInv'
  <2>1. CASE \E step \in {"build", "warm", "start"} : Fail(c, step)
    BY <2>1, RaiseKeeps DEF Fail, At
  <2>2. CASE NodeMissing(c)
    BY <2>2, RaiseKeeps DEF NodeMissing, At
  <2> QED
    BY <1>1, <2>1, <2>2, CreateKeeps, BeginKeeps, CallKeeps, WarmupKeeps,
       OtherLoopsKeep DEF ClientStep
<1> QED
  BY <1>1, EndsKeeps, StutterKeeps DEF Next

\* Only Build makes threads new, and it runs while nothing is at work.
LEMMA ReplacesNone ==
  ASSUME WarmInv, [Next]_vars, NEW n \in Nodes, threads[n] = "live"
  PROVE  threads'[n] # "new"
<1>1. ASSUME NEW c \in Clients, Build(c) PROVE FALSE
  BY <1>1 DEF WarmInv, WarmsNew, FreshIsQuiet, Fresh, Quiet, Warming, Build, At
<1>2. ASSUME NEW c \in Clients, StartNode(c) PROVE threads'[n] # "new"
  BY <1>2 DEF WarmInv, Typed, StartNode, Started
<1>3. ASSUME NEW c \in Clients, StopNode(c) PROVE threads'[n] # "new"
  BY <1>3 DEF WarmInv, Typed, StopNode
<1>4. ASSUME NEW m \in Nodes, Ends(m) PROVE threads'[n] # "new"
  BY <1>4 DEF WarmInv, Typed, Ends
<1>5. ASSUME NEW c \in Clients, ClientStep(c), ~Build(c), ~StartNode(c),
             ~StopNode(c)
      PROVE  threads' = threads
  BY <1>5 DEF ClientStep, Create, Begin, Check, CallWarmup, CallStart,
     CallDelete, CallStop, CallStopRaise, Fail, Warm, NodeMissing, Destroy,
     Clear, Unregister, Raise, pipeline
<1> QED
  BY <1>1, <1>2, <1>3, <1>4, <1>5 DEF Next, vars

\* warmup() never replaces a node at work, whatever other requests overlap, as
\* long as no warmup overlaps with another request: of the tests of the status
\* that warmup_pipeline() and warmup() make, the second sees to it.
THEOREM WarmupReplacesNone == Spec => LiveNotReplaced
<1>1. WarmInv /\ [Next]_vars =>
        [\A n \in Nodes : threads[n] = "live" => threads'[n] # "new"]_vars
  BY ReplacesNone
<1> QED
  BY <1>1, WarmInvInit, WarmInvStep, PTL DEF Spec, LiveNotReplaced

-----------------------------------------------------------------------------
(***************************************************************************)
(* What the variables hold. A pipeline has its links added once by each    *)
(* warmup that gets that far, so no more often than warmups were asked     *)
(* for, the one of its creation included.                                  *)
(***************************************************************************)
Plans == {<<>>, <<"warmup", "start">>} \cup {<<op>> : op \in Ops}
Owes == \E c \in Clients : Wants(c) /\ pc[c] # "warm"

Planned == \A c \in Clients : plan[c] \in Plans
LinksAsked ==
  /\ links <= requests + 1
  /\ pstatus = "none" => links = 0
  /\ Owes => links <= requests

TypeInv == TypeOK /\ Planned /\ LinksAsked

PipelineOK ==
  /\ registered \in BOOLEAN /\ cleared \in BOOLEAN
  /\ pstatus \in {"none", "NEW", "READY", "RUNNING", "DESTROYED"}
  /\ node \in [Nodes -> {"none", "built", "ready", "gone"}]
  /\ threads \in [Nodes -> {"new", "live", "stopped"}]

ControlOK ==
  /\ exclusive \in Disciplines
  /\ requests \in 0..MaxRequests
  /\ plan \in [Clients -> Seq(Ops)]
  /\ pc \in [Clients -> Labels]
  /\ todo \in [Clients -> Seq(Nodes)]
  /\ \A c \in Clients : pc[c] \in Loops <=> todo[c] # <<>>

LEMMA TypeParts ==
  TypeOK <=> PipelineOK /\ ControlOK /\ links \in 0..(MaxRequests + 1)
  BY DEF TypeOK, PipelineOK, ControlOK

\* The first and the other items of a sequence.
LEMMA HeadAndTail ==
  ASSUME NEW S, NEW s \in Seq(S), s # <<>>
  PROVE  /\ Head(s) \in S /\ Tail(s) \in Seq(S)
         /\ Range(s) = {Head(s)} \cup Range(Tail(s))
         /\ Len(s) = 1 <=> Tail(s) = <<>>
<1>1. Len(s) \in Nat \ {0} /\ DOMAIN s = 1..Len(s)
  OBVIOUS
<1>2. Tail(s) \in Seq(S) /\ Len(Tail(s)) = Len(s) - 1 /\ Head(s) = s[1]
  OBVIOUS
<1>3. DOMAIN Tail(s) = 1..(Len(s) - 1)
  BY <1>1, <1>2
<1>4. \A i \in 1..(Len(s) - 1) : Tail(s)[i] = s[i + 1]
  BY <1>1
<1>5. Range(s) \subseteq {Head(s)} \cup Range(Tail(s))
  <2> SUFFICES ASSUME NEW i \in 1..Len(s), i # 1 PROVE s[i] \in Range(Tail(s))
    BY <1>1, <1>2 DEF Range
  <2>1. i - 1 \in 1..(Len(s) - 1) /\ (i - 1) + 1 = i
    BY <1>1
  <2>2. Tail(s)[i - 1] = s[i]
    BY <2>1, <1>4
  <2> QED
    BY <2>1, <2>2, <1>3 DEF Range
<1>6. Range(Tail(s)) \subseteq Range(s) /\ Head(s) \in Range(s)
  <2>1. \A i \in 1..(Len(s) - 1) : i + 1 \in DOMAIN s
    BY <1>1
  <2>2. 1 \in DOMAIN s
    BY <1>1
  <2> QED
    BY <2>1, <2>2, <1>2, <1>3, <1>4 DEF Range
<1>7. Len(s) = 1 <=> Tail(s) = <<>>
  <2>1. \A t \in Seq(S) : Len(t) = 0 <=> t = <<>>
    OBVIOUS
  <2>2. Len(Tail(s)) = 0 <=> Tail(s) = <<>>
    BY <2>1, <1>2
  <2>3. Len(s) = 1 <=> Len(s) - 1 = 0
    BY <1>1
  <2> QED
    BY <2>2, <2>3, <1>2
<1>8. Head(s) \in S
  BY <1>1, <1>2
<1> QED
  BY <1>2, <1>5, <1>6, <1>7, <1>8

LEMMA ReverseSame ==
  ASSUME NEW S, NEW s \in Seq(S)
  PROVE  /\ Reverse(s) \in Seq(S) /\ Range(Reverse(s)) = Range(s)
         /\ Reverse(s) = <<>> <=> s = <<>>
<1>1. Len(s) \in Nat /\ DOMAIN s = 1..Len(s)
  OBVIOUS
<1>2. \A i \in 1..Len(s) : (Len(s) - i) + 1 \in 1..Len(s)
                           /\ (Len(s) - ((Len(s) - i) + 1)) + 1 = i
  BY <1>1
<1> DEFINE r == [i \in 1..Len(s) |-> s[(Len(s) - i) + 1]]
<1>3. Reverse(s) = r
  BY DEF Reverse
<1>4. r \in Seq(S) /\ Len(r) = Len(s) /\ DOMAIN r = 1..Len(s)
  BY <1>1, <1>2
<1>5. Range(r) = Range(s)
  BY <1>1, <1>2, <1>4 DEF Range
<1>6. r = <<>> <=> s = <<>>
  BY <1>1, <1>4
<1> QED
  BY <1>3, <1>4, <1>5, <1>6

\* The part of the plan that is done last has no warmup.
LEMMA PlanRest ==
  ASSUME NEW p \in Plans
  PROVE  /\ p \in Seq(Ops)
         /\ p # <<>> => /\ Head(p) \in Ops /\ Tail(p) \in Plans
                        /\ "warmup" \notin Range(Tail(p))
<1>1. CASE p = <<>>
  BY <1>1
<1>2. CASE p = <<"warmup", "start">>
  <2>1. Head(p) = "warmup" /\ Tail(p) = <<"start">> /\ p \in Seq(Ops)
    BY <1>2 DEF Ops
  <2>2. "warmup" \notin Range(<<"start">>)
    BY DEF Range
  <2>3. <<"start">> \in Plans /\ "warmup" \in Ops
    BY DEF Plans, Ops
  <2> QED
    BY <2>1, <2>2, <2>3
<1>3. CASE p \in {<<op>> : op \in Ops}
  <2>1. PICK op \in Ops : p = <<op>>
    BY <1>3
  <2>2. Head(p) = op /\ Tail(p) = <<>> /\ p \in Seq(Ops)
    BY <2>1
  <2>3. <<>> \in Plans /\ "warmup" \notin Range(<<>>)
    BY EmptyPlan DEF Plans
  <2> QED
    BY <2>2, <2>3
<1> QED
  BY <1>1, <1>2, <1>3 DEF Plans

\* A step along a request, and the end of one.
LEMMA GoTyped ==
  ASSUME TypeInv, NEW c \in Clients, NEW label \in Labels, NEW loop \in Seq(Nodes),
         label \in Loops <=> loop # <<>>, Go(c, label, loop),
         pc[c] = "warm" => label = "warm"
  PROVE  ControlOK' /\ Planned' /\ (Owes' => Owes) /\ UNCHANGED requests
<1> USE DEF Go
<1>1. ControlOK
  BY TypeParts DEF TypeInv
<1>2. ControlOK'
  BY <1>1 DEF ControlOK
<1>3. Planned'
  BY DEF TypeInv, Planned
<1>4. Owes' => Owes
  BY <1>1 DEF ControlOK, Owes, Wants
<1> QED
  BY <1>2, <1>3, <1>4

LEMMA LeaveTyped ==
  ASSUME TypeInv, NEW c \in Clients, ~Idle(c),
         Leave(c, Tail(plan[c])) \/ Leave(c, <<>>)
  PROVE  ControlOK' /\ Planned' /\ (Owes' => Owes) /\ UNCHANGED requests
<1> USE DEF Leave
<1>1. ControlOK /\ plan[c] \in Plans /\ plan[c] # <<>>
  BY TypeParts DEF TypeInv, Planned, Idle
<1>2. PICK rest \in Plans : "warmup" \notin Range(rest) /\ Leave(c, rest)
  <2>1. Tail(plan[c]) \in Plans /\ "warmup" \notin Range(Tail(plan[c]))
    BY <1>1, PlanRest
  <2>2. <<>> \in Plans /\ "warmup" \notin Range(<<>>)
    BY EmptyPlan DEF Plans
  <2> QED
    BY <2>1, <2>2
<1>3. rest \in Seq(Ops)
  BY PlanRest
<1>4. ControlOK'
  <2>1. "check" \in Labels \ Loops /\ <<>> \in Seq(Nodes)
    BY DEF Labels, Loops
  <2> QED
    BY <1>1, <1>2, <1>3, <2>1 DEF ControlOK
<1>5. plan'[c] = rest /\ \A d \in Clients : d # c => plan'[d] = plan[d] /\ pc'[d] = pc[d]
  BY <1>1, <1>2 DEF ControlOK
<1>6. Planned'
  BY <1>5 DEF TypeInv, Planned
<1>7. Owes' => Owes
  BY <1>2, <1>5 DEF Owes, Wants
<1> QED
  BY <1>2, <1>4, <1>6, <1>7

LEMMA KeepTyped ==
  ASSUME TypeInv, ControlOK', Planned', Owes' => Owes, UNCHANGED requests,
         PipelineOK', UNCHANGED links, pstatus' = "none" => pstatus = "none"
  PROVE  TypeInv'
<1>1. LinksAsked'
  BY DEF TypeInv, LinksAsked
<1>2. TypeOK'
  <2>1. links \in 0..(MaxRequests + 1)
    BY TypeParts DEF TypeInv
  <2> QED
    BY <2>1 DEF TypeOK, PipelineOK, ControlOK
<1> QED
  BY <1>1, <1>2 DEF TypeInv

LEMMA OrderTyped ==
  /\ Order \in Seq(Nodes) /\ Order # <<>> /\ Placed \in Seq(Nodes)
  /\ Placed # <<>> /\ Range(Placed) \subseteq Nodes
<1>1. Order \in Seq(Nodes) /\ Order # <<>> /\ Roots \in Seq(Nodes) /\ Roots # <<>>
  BY ManagerAssumption
<1>2. \A s \in Seq(Nodes) : Range(s) \subseteq Nodes
  BY DEF Range
<1> QED
  BY <1>1, <1>2 DEF Placed

\* Steps that leave the pipeline as it is.
LEMMA PlainTyped ==
  ASSUME TypeInv, ControlOK', Planned', Owes' => Owes, UNCHANGED requests,
         UNCHANGED pipeline
  PROVE  TypeInv'
<1>1. PipelineOK'
  BY TypeParts DEF TypeInv, PipelineOK, pipeline
<1> QED
  BY <1>1, KeepTyped DEF pipeline

LEMMA RaiseTyped ==
  ASSUME TypeInv, NEW c \in Clients, ~Idle(c), Raise(c)
  PROVE  TypeInv'
<1>1. Leave(c, <<>>) /\ UNCHANGED pipeline
  BY DEF Raise
<1> QED
  BY <1>1, LeaveTyped, PlainTyped

LEMMA PlainGoTyped ==
  ASSUME TypeInv, NEW c \in Clients, NEW label \in Labels, NEW loop \in Seq(Nodes),
         label \in Loops <=> loop # <<>>, Go(c, label, loop), UNCHANGED pipeline,
         pc[c] # "warm"
  PROVE  TypeInv'
  BY GoTyped, PlainTyped

LEMMA CreateTyped ==
  ASSUME WarmInv, TypeInv, NEW c \in Clients, Create(c)
  PROVE  TypeInv'
<1>1. PICK rest \in {<<>>, <<"warmup", "start">>} : Leave(c, rest)
  BY DEF Create
<1>2. rest \in Plans /\ rest \in Seq(Ops)
  BY PlanRest DEF Plans
<1>3. ControlOK'
  <2>1. "check" \in Labels \ Loops /\ <<>> \in Seq(Nodes)
    BY DEF Labels, Loops
  <2>2. ControlOK
    BY TypeParts DEF TypeInv
  <2> QED
    BY <1>1, <1>2, <2>1, <2>2 DEF ControlOK, Leave
<1>4. Planned'
  BY <1>1, <1>2 DEF TypeInv, TypeOK, Planned, Leave
<1>5. LinksAsked'
  <2>1. links' = 0 /\ requests' = requests /\ requests \in Nat
    BY <1>1 DEF Create, TypeInv, TypeOK, LinksAsked, Leave
  <2> QED
    BY <2>1 DEF LinksAsked
<1>6. PipelineOK' /\ links' = links
  BY TypeParts DEF TypeInv, PipelineOK, Create
<1>7. TypeOK'
  <2>1. links \in 0..(MaxRequests + 1)
    BY TypeParts DEF TypeInv
  <2> QED
    BY <2>1, <1>3, <1>6 DEF TypeOK, PipelineOK, ControlOK
<1> QED
  BY <1>4, <1>5, <1>7 DEF TypeInv

LEMMA BeginTyped ==
  ASSUME WarmInv, TypeInv, NEW c \in Clients, NEW op \in Ops, Begin(c, op)
  PROVE  TypeInv'
<1>1. <<op>> \in Plans /\ <<op>> \in Seq(Ops)
  BY DEF Plans
<1>2. requests \in Nat /\ MaxRequests \in Nat /\ requests < MaxRequests
  BY ManagerAssumption DEF TypeInv, TypeOK, Begin
<1>3. requests' = requests + 1 /\ requests' \in 0..MaxRequests
  BY <1>2 DEF Begin
<1>4. ControlOK'
  BY <1>1, <1>3 DEF TypeInv, TypeOK, ControlOK, Begin
<1>5. PipelineOK' /\ links' \in 0..(MaxRequests + 1)
  BY DEF TypeInv, TypeOK, PipelineOK, Begin, pipeline
<1>6. Planned'
  BY <1>1 DEF TypeInv, TypeOK, Planned, Begin
<1>7. LinksAsked'
  <2>1. links' = links /\ pstatus' = pstatus /\ links \in Nat
    BY DEF Begin, pipeline, TypeInv, TypeOK
  <2>2. links <= requests + 1 /\ (pstatus = "none" => links = 0)
    BY DEF TypeInv, LinksAsked
  <2>3. links' <= requests' /\ links' <= requests' + 1
    BY <1>2, <1>3, <2>1, <2>2
  <2> QED
    BY <2>1, <2>2, <2>3 DEF LinksAsked
<1>8. TypeOK'
  BY <1>4, <1>5 DEF TypeOK, PipelineOK, ControlOK
<1> QED
  BY <1>6, <1>7, <1>8 DEF TypeInv

LEMMA CallTyped ==
  ASSUME TypeInv, NEW c \in Clients,
         \/ Check(c) \/ CallWarmup(c) \/ CallStart(c) \/ CallDelete(c)
         \/ CallStop(c) \/ CallStopRaise(c)
  PROVE  TypeInv'
<1>0. <<>> \in Seq(Nodes)
  OBVIOUS
<1> USE DEF At, Labels, Loops
<1>1. CASE Check(c)
  BY <1>0, <1>1, RaiseTyped, PlainGoTyped DEF Check
<1>2. CASE CallWarmup(c)
  BY <1>2, RaiseTyped, PlainGoTyped, OrderTyped DEF CallWarmup
<1>3. CASE CallStart(c)
  <2>1. Reverse(Placed) \in Seq(Nodes) /\ Reverse(Placed) # <<>>
    BY OrderTyped, ReverseSame
  <2> QED
    BY <1>3, <2>1, RaiseTyped, PlainGoTyped DEF CallStart
<1>4. CASE CallDelete(c)
  <2>1. CASE registered
    <3>1. PICK label \in {"stopping", "destroying"} : Go(c, label, <<>>)
      BY <1>4, <2>1 DEF CallDelete
    <3> QED
      BY <1>0, <1>4, <2>1, <3>1, PlainGoTyped DEF CallDelete
  <2>2. CASE ~registered
    BY <1>4, <2>2, RaiseTyped DEF CallDelete
  <2> QED
    BY <2>1, <2>2
<1>5. CASE CallStop(c)
  BY <1>5, PlainGoTyped, OrderTyped DEF CallStop
<1>6. CASE CallStopRaise(c)
  BY <1>6, RaiseTyped DEF CallStopRaise
<1> QED
  BY <1>1, <1>2, <1>3, <1>4, <1>5, <1>6

\* The node a loop is at, and those it has yet to visit.
LEMMA AtLoop ==
  ASSUME TypeInv, NEW c \in Clients, pc[c] \in Loops
  PROVE  /\ todo[c] # <<>> /\ todo[c] \in Seq(Nodes)
         /\ Head(todo[c]) \in Nodes /\ Tail(todo[c]) \in Seq(Nodes)
         /\ Range(todo[c]) = {Head(todo[c])} \cup Range(Tail(todo[c]))
         /\ LastOf(c) <=> Tail(todo[c]) = <<>>
         /\ LastOf(c) => Range(todo[c]) = {Head(todo[c])}
<1>1. todo[c] # <<>> /\ todo[c] \in Seq(Nodes)
  BY DEF TypeInv, TypeOK
<1>2. /\ Head(todo[c]) \in Nodes /\ Tail(todo[c]) \in Seq(Nodes)
      /\ Range(todo[c]) = {Head(todo[c])} \cup Range(Tail(todo[c]))
      /\ Len(todo[c]) = 1 <=> Tail(todo[c]) = <<>>
  BY <1>1, HeadAndTail
<1>3. LastOf(c) => Range(Tail(todo[c])) = {}
  BY <1>2, EmptyPlan DEF LastOf
<1> QED
  BY <1>1, <1>2, <1>3 DEF LastOf

LEMMA AdvanceTyped ==
  ASSUME TypeInv, NEW c \in Clients, pc[c] \in Loops, ~LastOf(c), Advance(c)
  PROVE  ControlOK' /\ Planned' /\ (Owes' => Owes) /\ UNCHANGED requests
<1>1. Go(c, pc[c], Tail(todo[c]))
  BY DEF Advance
<1> QED
  BY <1>1, AtLoop, GoTyped DEF Labels

-----------------------------------------------------------------------------
\* A set of numbers has a least one, and one that is bounded a greatest.
LEMMA LeastNumber ==
  ASSUME NEW T \in SUBSET Nat, T # {}
  PROVE  \E x \in T : \A y \in T : x <= y
<1> DEFINE less == {p \in Nat \X Nat : p[1] < p[2]}
<1>1. IsWellFoundedOn(less, Nat)
  BY NatLessThanWellFounded DEF OpToRel
<1> HIDE DEF less
<1>2. PICK x \in T : \A y \in T : ~(<<y, x>> \in less)
  BY <1>1, WFMin
<1>3. ASSUME NEW y \in T PROVE x <= y
  <2>1. ~(<<y, x>> \in less)
    BY <1>2
  <2>2. ~(y < x)
    BY <2>1 DEF less
  <2> QED
    BY <2>2
<1> QED
  BY <1>3

LEMMA GreatestNumber ==
  ASSUME NEW bound \in Nat, NEW T \in SUBSET (1..bound), T # {}
  PROVE  Max(T) \in T /\ \A y \in T : Max(T) >= y
<1> DEFINE gaps == {bound - y : y \in T}
<1>0. \A y \in T : bound - y \in Nat
  OBVIOUS
<1>1. gaps \in SUBSET Nat /\ gaps # {}
  BY <1>0
<1>2. PICK g \in gaps : \A h \in gaps : g <= h
  BY <1>1, LeastNumber
<1>3. PICK x \in T : g = bound - x
  BY <1>2
<1>4. \A y \in T : bound - y \in gaps
  OBVIOUS
<1>5. \A y \in T : x \in 1..bound /\ y \in 1..bound /\ g <= bound - y
  BY <1>2, <1>4
<1>6. \A y \in T : x >= y
  BY <1>3, <1>5
<1>7. \E z \in T : \A y \in T : z >= y
  BY <1>6
<1> QED
  BY <1>7 DEF Max

\* destroy() goes over the nodes of an initial part of the order.
ClearLoop == [i \in 1..Built |-> Order[Built + 1 - i]]

LEMMA BuiltInOrder ==
  ASSUME TypeInv, Configured
  PROVE  /\ Built \in 1..Len(Order) /\ node[Order[Built]] # "none"
         /\ \A k \in 1..Len(Order) : node[Order[k]] # "none" => Built >= k
<1> DEFINE filled == {k \in 1..Len(Order) : node[Order[k]] # "none"}
<1>1. Len(Order) \in Nat /\ DOMAIN Order = 1..Len(Order)
  BY OrderTyped
<1>2. filled # {}
  <2>1. PICK n \in Nodes : node[n] # "none"
    BY DEF Configured
  <2>2. PICK k \in DOMAIN Order : n = Order[k]
    BY DEF Nodes, Range
  <2> QED
    BY <1>1, <2>1, <2>2
<1>3. filled \in SUBSET (1..Len(Order))
  OBVIOUS
<1> HIDE DEF filled
<1>4. Max(filled) \in filled /\ \A k \in filled : Max(filled) >= k
  BY <1>1, <1>2, <1>3, GreatestNumber
<1>5. Built = Max(filled)
  BY DEF Built, filled
<1> QED
  BY <1>3, <1>4, <1>5 DEF filled

LEMMA ClearLoopTyped ==
  ASSUME TypeInv, Configured
  PROVE  ClearLoop \in Seq(Nodes) /\ ClearLoop # <<>>
<1>1. Len(Order) \in Nat /\ \A i \in 1..Len(Order) : Order[i] \in Nodes
  BY OrderTyped
<1>2. Built \in 1..Len(Order)
  BY BuiltInOrder
<1> DEFINE built == Built
<1> HIDE DEF built
<1>3. built \in 1..Len(Order) /\ built \in Nat
  BY <1>1, <1>2 DEF built
<1>4. \A i \in 1..built : built + 1 - i \in 1..Len(Order)
  BY <1>1, <1>3
<1>5. [i \in 1..built |-> Order[built + 1 - i]] \in Seq(Nodes)
  BY <1>1, <1>3, <1>4
<1>6. 1 \in DOMAIN [i \in 1..built |-> Order[built + 1 - i]]
  BY <1>1, <1>3
<1>7. [i \in 1..built |-> Order[built + 1 - i]] # <<>>
  BY <1>6
<1> QED
  BY <1>5, <1>7 DEF ClearLoop, built

-----------------------------------------------------------------------------
\* The turns of the loops, and the steps between them.
LEMMA BuildTyped ==
  ASSUME WarmInv, TypeInv, NEW c \in Clients, Build(c)
  PROVE  TypeInv'
<1>1. ~Idle(c) /\ pc[c] = "build" /\ pc[c] \in Loops
  BY DEF Build, At, Loops
<1>2. Head(todo[c]) \in Nodes
  BY <1>1, AtLoop
<1>3. PipelineOK'
  BY <1>2, TypeParts DEF TypeInv, PipelineOK, Build
<1>4. CASE ~LastOf(c)
  <2>1. Advance(c) /\ UNCHANGED links /\ pstatus' = pstatus
    BY <1>4 DEF Build
  <2> QED
    BY <1>1, <1>3, <1>4, <2>1, AdvanceTyped, KeepTyped
<1>5. CASE LastOf(c)
  <2>1. links' = links + 1 /\ Go(c, "warm", Order) /\ pstatus' = pstatus
    BY <1>5 DEF Build
  <2>2. ControlOK' /\ Planned' /\ requests' = requests
    BY <1>1, <2>1, OrderTyped, GoTyped DEF Labels, Loops
  <2>3. Op(c) = "warmup" /\ pstatus = "NEW" /\ Typed
    BY <1>1 DEF WarmInv, WarmsNew, Warming
  <2>4. Wants(c)
    BY <1>1, <2>3, OpIsPlanned DEF Wants
  <2>5. Owes
    BY <1>1, <2>4 DEF Owes
  <2>6. links <= requests /\ links \in Nat /\ requests \in 0..MaxRequests
    BY <2>5 DEF TypeInv, LinksAsked, TypeOK
  <2>7. links' <= requests' + 1 /\ links' \in 0..(MaxRequests + 1)
    BY <2>1, <2>2, <2>6, ManagerAssumption
  <2>8. ~Owes'
    <3> SUFFICES ASSUME NEW d \in Clients, Wants(d)', pc'[d] # "warm" PROVE FALSE
      BY DEF Owes
    <3>1. d # c /\ Wants(d)
      BY <2>1 DEF Go, Wants, TypeInv, TypeOK
    <3>2. Idle(c)
      BY <3>1 DEF WarmInv, Alone
    <3> QED
      BY <1>1, <3>2
  <2>9. LinksAsked'
    BY <2>1, <2>3, <2>7, <2>8 DEF LinksAsked
  <2>10. TypeOK'
    BY <1>3, <2>2, <2>7 DEF TypeOK, PipelineOK, ControlOK
  <2> QED
    BY <2>2, <2>9, <2>10 DEF TypeInv
<1> QED
  BY <1>4, <1>5

LEMMA TurnTyped ==
  ASSUME TypeInv, NEW c \in Clients,
         Warm(c) \/ StartNode(c) \/ StopNode(c) \/ Clear(c)
  PROVE  TypeInv'
<1>0. <<>> \in Seq(Nodes)
  OBVIOUS
<1>1. ~Idle(c) /\ pc[c] \in Loops
  BY DEF Warm, StartNode, StopNode, Clear, At, Loops
<1>2. Head(todo[c]) \in Nodes
  BY <1>1, AtLoop
<1>3. CASE Warm(c)
  <2>1. PipelineOK' /\ UNCHANGED links /\ (pstatus' = "none" => pstatus = "none")
    BY <1>2, <1>3, TypeParts DEF TypeInv, PipelineOK, Warm
  <2>2. (LastOf(c) /\ Leave(c, Tail(plan[c]))) \/ (~LastOf(c) /\ Advance(c))
    BY <1>3 DEF Warm, Return
  <2> QED
    BY <1>1, <2>1, <2>2, AdvanceTyped, LeaveTyped, KeepTyped
<1>4. CASE StartNode(c)
  <2>1. PipelineOK' /\ UNCHANGED links /\ (pstatus' = "none" => pstatus = "none")
    BY <1>2, <1>4, TypeParts
       DEF TypeInv, PipelineOK, StartNode, Started, StatusStarting
  <2>2. (LastOf(c) /\ Leave(c, Tail(plan[c]))) \/ (~LastOf(c) /\ Advance(c))
    BY <1>4 DEF StartNode, Return
  <2> QED
    BY <1>1, <2>1, <2>2, AdvanceTyped, LeaveTyped, KeepTyped
<1>5. CASE StopNode(c)
  <2>1. PipelineOK' /\ UNCHANGED links /\ (pstatus' = "none" => pstatus = "none")
    BY <1>2, <1>5, TypeParts DEF TypeInv, PipelineOK, StopNode
  <2>2. \/ Leave(c, Tail(plan[c]))
        \/ Go(c, "destroying", <<>>)
        \/ ~LastOf(c) /\ Advance(c)
    BY <1>5 DEF StopNode, Return
  <2>3. "destroying" \in Labels \ Loops /\ pc[c] # "warm"
    BY <1>5 DEF Labels, Loops, StopNode, At
  <2> QED
    BY <1>0, <1>1, <2>1, <2>2, <2>3, AdvanceTyped, LeaveTyped, GoTyped, KeepTyped
<1>6. CASE Clear(c)
  <2>1. PipelineOK' /\ UNCHANGED links /\ (pstatus' = "none" => pstatus = "none")
    BY <1>2, <1>6, TypeParts DEF TypeInv, PipelineOK, Clear
  <2>2. Go(c, "remove", <<>>) \/ (~LastOf(c) /\ Advance(c))
    BY <1>6 DEF Clear
  <2>3. "remove" \in Labels \ Loops /\ pc[c] # "warm"
    BY <1>6 DEF Labels, Loops, Clear, At
  <2> QED
    BY <1>0, <1>1, <2>1, <2>2, <2>3, AdvanceTyped, GoTyped, KeepTyped
<1> QED
  BY <1>3, <1>4, <1>5, <1>6

LEMMA OthersTyped ==
  ASSUME TypeInv,
         \/ \E c \in Clients : Destroy(c) \/ Unregister(c) \/ NodeMissing(c)
         \/ \E c \in Clients, step \in {"build", "warm", "start"} : Fail(c, step)
         \/ \E n \in Nodes : Ends(n)
         \/ UNCHANGED vars
  PROVE  TypeInv'
<1>0. <<>> \in Seq(Nodes)
  OBVIOUS
<1>1. ASSUME NEW c \in Clients, Destroy(c) PROVE TypeInv'
  <2>1. pc[c] # "warm" /\ UNCHANGED pipeline
    BY <1>1 DEF Destroy, At
  <2>2. CASE Configured
    <3>1. Go(c, "clear", ClearLoop)
      BY <1>1, <2>2 DEF Destroy, ClearLoop
    <3>2. "clear" \in Labels /\ "clear" \in Loops
      BY DEF Labels, Loops
    <3> QED
      BY <2>1, <2>2, <3>1, <3>2, ClearLoopTyped, PlainGoTyped
  <2>3. CASE ~Configured
    <3>1. Go(c, "remove", <<>>)
      BY <1>1, <2>3 DEF Destroy
    <3>2. "remove" \in Labels /\ "remove" \notin Loops
      BY DEF Labels, Loops
    <3> QED
      BY <1>0, <2>1, <3>1, <3>2, PlainGoTyped
  <2> QED
    BY <2>2, <2>3
<1>2. ASSUME NEW c \in Clients, Unregister(c) PROVE TypeInv'
  <2>1. CASE registered
    <3>1. Leave(c, Tail(plan[c])) /\ ~Idle(c) /\ UNCHANGED links
      BY <1>2, <2>1 DEF Unregister, Return, At
    <3>2. PipelineOK' /\ pstatus' = pstatus
      BY <1>2, <2>1, TypeParts DEF TypeInv, PipelineOK, Unregister
    <3> QED
      BY <3>1, <3>2, LeaveTyped, KeepTyped
  <2>2. CASE ~registered
    BY <1>2, <2>2, RaiseTyped DEF Unregister, At
  <2> QED
    BY <2>1, <2>2
<1>3. ASSUME NEW c \in Clients,
             NodeMissing(c) \/ \E step \in {"build", "warm", "start"} : Fail(c, step)
      PROVE  TypeInv'
  BY <1>3, RaiseTyped DEF NodeMissing, Fail, At
<1>4. ASSUME NEW n \in Nodes, Ends(n) PROVE TypeInv'
  <2>1. ControlOK' /\ Planned' /\ (Owes' => Owes)
    BY <1>4, TypeParts DEF TypeInv, ControlOK, Planned, Owes, Wants, Ends
  <2>2. PipelineOK'
    BY <1>4, TypeParts DEF TypeInv, PipelineOK, Ends
  <2> QED
    BY <1>4, <2>1, <2>2, KeepTyped DEF Ends
<1>5. CASE UNCHANGED vars
  <2>1. ControlOK' /\ Planned' /\ (Owes' => Owes)
    BY <1>5, TypeParts DEF TypeInv, ControlOK, Planned, Owes, Wants, vars
  <2> QED
    BY <1>5, <2>1, PlainTyped DEF vars, pipeline
<1> QED
  BY <1>1, <1>2, <1>3, <1>4, <1>5

LEMMA TypeInvStep == WarmInv /\ TypeInv /\ [Next]_vars => TypeInv'
<1> SUFFICES ASSUME WarmInv, TypeInv, [Next]_vars PROVE TypeInv'
  OBVIOUS
<1>1. ASSUME NEW c \in Clients, ClientStep(c) PROVE TypeInv'
  BY <1>1, CreateTyped, BeginTyped, CallTyped, BuildTyped, TurnTyped, OthersTyped
     DEF ClientStep
<1> QED
  BY <1>1, OthersTyped DEF Next

LEMMA TypeInvInit == Init => TypeInv
<1> SUFFICES ASSUME Init PROVE TypeInv
  OBVIOUS
<1>1. <<>> \in Seq(Ops) /\ <<>> \in Seq(Nodes) /\ <<>> \in Plans
  BY DEF Plans
<1>2. TypeOK
  <2>1. 0 \in 0..MaxRequests /\ 0 \in 0..(MaxRequests + 1)
    BY ManagerAssumption
  <2>2. links = 0 /\ requests = 0 /\ exclusive \in Disciplines
    BY DEF Init
  <2>3. PipelineOK
    BY DEF Init, PipelineOK
  <2>4. plan \in [Clients -> Seq(Ops)] /\ todo \in [Clients -> Seq(Nodes)]
    BY <1>1 DEF Init
  <2>5. pc \in [Clients -> Labels]
    BY DEF Init, Labels
  <2>6. \A c \in Clients : pc[c] \notin Loops /\ todo[c] = <<>>
    BY DEF Init, Loops
  <2> QED
    BY <2>1, <2>2, <2>3, <2>4, <2>5, <2>6 DEF TypeOK, PipelineOK
<1>3. Planned /\ LinksAsked
  BY <1>1, EmptyPlan DEF Init, Planned, LinksAsked, Owes, Wants
<1> QED
  BY <1>2, <1>3 DEF TypeInv

\* The state of a pipeline and of the requests on it has its type, whatever the
\* clients, nodes and failures: a loop of the pipeline that is under way has a
\* node left to visit, and the links are added no more often than warmups are
\* asked for.
THEOREM ManagerTyped == Spec => []TypeOK
<1>1. WarmInv /\ TypeInv /\ [Next]_vars => (WarmInv /\ TypeInv)'
  BY WarmInvStep, TypeInvStep
<1>2. TypeInv => TypeOK
  BY DEF TypeInv
<1> QED
  BY <1>1, <1>2, WarmInvInit, TypeInvInit, PTL DEF Spec

-----------------------------------------------------------------------------
(***************************************************************************)
(* What the loops of start() and stop() have done of their work: the nodes *)
(* they have visited are started, or stopped for good.                     *)
(***************************************************************************)
IsPlaced(n) == n \in Range(Placed)

LivePlaced == \A n \in Nodes : threads[n] = "live" => IsPlaced(n)
LoopsPlaced ==
  \A c \in Clients : pc[c] \in {"start", "stop"} =>
    ~Fresh /\ \A n \in Range(todo[c]) : IsPlaced(n)
RunningPlaced ==
  pstatus = "RUNNING" => \A n \in Nodes : IsPlaced(n) => threads[n] # "new"
StartedBehind ==
  \A c \in Clients : pc[c] = "start" =>
    \A n \in Nodes : IsPlaced(n) /\ n \notin Range(todo[c]) => threads[n] # "new"
StoppedBehind ==
  \A c \in Clients : pc[c] = "stop" =>
    \A n \in Nodes : IsPlaced(n) =>
      /\ threads[n] # "new"
      /\ n \notin Range(todo[c]) => threads[n] = "stopped"

PlaceInv ==
  LivePlaced /\ LoopsPlaced /\ RunningPlaced /\ StartedBehind /\ StoppedBehind

LEMMA PlaceInit == Init => PlaceInv
<1> SUFFICES ASSUME Init PROVE PlaceInv
  OBVIOUS
<1>1. pstatus = "none" /\ \A n \in Nodes : threads[n] = "new"
  BY DEF Init
<1>2. \A c \in Clients : pc[c] = "check"
  BY DEF Init
<1> QED
  BY <1>1, <1>2 DEF PlaceInv, LivePlaced, LoopsPlaced, RunningPlaced,
     StartedBehind, StoppedBehind

\* Steps that neither begin nor advance a start() or a stop(), and start none.
LEMMA PlaceKept ==
  ASSUME PlaceInv, UNCHANGED links,
         \A n \in Nodes : \/ threads'[n] = threads[n]
                          \/ threads[n] = "live" /\ threads'[n] = "stopped",
         pstatus' = "RUNNING" => pstatus = "RUNNING", Fresh' => Fresh,
         \A d \in Clients : pc'[d] \in {"start", "stop"} =>
           pc'[d] = pc[d] /\ todo'[d] = todo[d]
  PROVE  PlaceInv'
<1>1. \A n : IsPlaced(n)' <=> IsPlaced(n)
  BY DEF IsPlaced, Placed
<1>2. LivePlaced'
  BY <1>1 DEF PlaceInv, LivePlaced
<1>3. RunningPlaced'
  BY <1>1 DEF PlaceInv, RunningPlaced
<1>4. LoopsPlaced'
  BY <1>1 DEF PlaceInv, LoopsPlaced
<1>5. StartedBehind'
  BY <1>1 DEF PlaceInv, StartedBehind
<1>6. StoppedBehind'
  BY <1>1 DEF PlaceInv, StoppedBehind
<1> QED
  BY <1>2, <1>3, <1>4, <1>5, <1>6 DEF PlaceInv

\* A client that goes elsewhere, with the loops of the others as they were.
LEMMA GoesApart ==
  ASSUME TypeInv, NEW c \in Clients, NEW label, NEW loop, label \notin {"start", "stop"},
         Go(c, label, loop)
  PROVE  \A d \in Clients : pc'[d] \in {"start", "stop"} =>
           pc'[d] = pc[d] /\ todo'[d] = todo[d]
  BY DEF TypeInv, TypeOK, Go

LEMMA LeavesApart ==
  ASSUME TypeInv, NEW c \in Clients, NEW rest, Leave(c, rest)
  PROVE  \A d \in Clients : pc'[d] \in {"start", "stop"} =>
           pc'[d] = pc[d] /\ todo'[d] = todo[d]
  BY DEF TypeInv, TypeOK, Leave

LEMMA RaisePlaced ==
  ASSUME PlaceInv, TypeInv, NEW c \in Clients, Raise(c)
  PROVE  PlaceInv'
<1>1. Leave(c, <<>>) /\ UNCHANGED pipeline
  BY DEF Raise
<1> QED
  BY <1>1, GoesApart, LeavesApart, PlaceKept DEF pipeline, Fresh

LEMMA GoPlaced ==
  ASSUME PlaceInv, TypeInv, NEW c \in Clients, NEW label, NEW loop,
         label \notin {"start", "stop"}, Go(c, label, loop), UNCHANGED pipeline
  PROVE  PlaceInv'
  BY GoesApart, LeavesApart, PlaceKept DEF pipeline, Fresh

LEMMA OthersPlaced ==
  ASSUME PlaceInv, WarmInv, TypeInv,
         \/ \E c \in Clients :
              \/ Create(c) \/ (\E op \in Ops : Begin(c, op))
              \/ Check(c) \/ CallWarmup(c) \/ CallDelete(c) \/ CallStopRaise(c)
              \/ \E step \in {"build", "warm", "start"} : Fail(c, step)
              \/ Warm(c) \/ NodeMissing(c) \/ Destroy(c) \/ Clear(c) \/ Unregister(c)
         \/ \E n \in Nodes : Ends(n)
         \/ UNCHANGED vars
  PROVE  PlaceInv'
<1>1. ASSUME NEW c \in Clients, Create(c) PROVE PlaceInv'
  <2>1. PICK rest : Leave(c, rest)
    BY <1>1 DEF Create
  <2> QED
    BY <1>1, <2>1, GoesApart, LeavesApart, PlaceKept DEF Create, Fresh
<1>2. ASSUME NEW c \in Clients, NEW op \in Ops, Begin(c, op) PROVE PlaceInv'
  BY <1>2, PlaceKept DEF Begin, pipeline, Fresh
<1>3. ASSUME NEW c \in Clients, Check(c) PROVE PlaceInv'
  BY <1>3, GoPlaced, RaisePlaced DEF Check
<1>4. ASSUME NEW c \in Clients, CallWarmup(c) PROVE PlaceInv'
  BY <1>4, GoPlaced, RaisePlaced DEF CallWarmup
<1>5. ASSUME NEW c \in Clients, CallDelete(c) PROVE PlaceInv'
  <2>1. CASE ~registered
    BY <1>5, <2>1, RaisePlaced DEF CallDelete
  <2>2. CASE registered
    <3>1. PICK label \in {"stopping", "destroying"} : Go(c, label, <<>>)
      BY <1>5, <2>2 DEF CallDelete
    <3> QED
      BY <1>5, <2>2, <3>1, GoPlaced DEF CallDelete
  <2> QED
    BY <2>1, <2>2
<1>6. ASSUME NEW c \in Clients,
             \/ CallStopRaise(c) \/ NodeMissing(c)
             \/ \E step \in {"build", "warm", "start"} : Fail(c, step)
      PROVE  PlaceInv'
  BY <1>6, RaisePlaced DEF CallStopRaise, NodeMissing, Fail
<1>7. ASSUME NEW c \in Clients, Warm(c) PROVE PlaceInv'
  <2>1. pc[c] = "warm" /\ UNCHANGED <<threads, links>>
    BY <1>7 DEF Warm, At
  <2>2. PICK rest : Leave(c, rest) \/ Go(c, "warm", rest)
    BY <1>7, <2>1 DEF Warm, Advance, Return
  <2>3. pstatus' = pstatus \/ pstatus' = "READY"
    BY <1>7 DEF Warm
  <2> QED
    BY <2>1, <2>2, <2>3, GoesApart, LeavesApart, PlaceKept DEF Fresh
<1>8. ASSUME NEW c \in Clients, Destroy(c) PROVE PlaceInv'
  <2>1. PICK label \in {"clear", "remove"} : Go(c, label, ClearLoop) \/ Go(c, label, <<>>)
    BY <1>8 DEF Destroy, ClearLoop
  <2> QED
    BY <1>8, <2>1, GoPlaced DEF Destroy
<1>9. ASSUME NEW c \in Clients, Clear(c) PROVE PlaceInv'
  <2>1. pc[c] = "clear" /\ UNCHANGED <<threads, links>>
    BY <1>9 DEF Clear, At
  <2>2. PICK label \in {"clear", "remove"} :
          Go(c, label, <<>>) \/ Go(c, label, Tail(todo[c]))
    BY <1>9, <2>1 DEF Clear, Advance
  <2>3. pstatus' = pstatus \/ pstatus' = "DESTROYED"
    BY <1>9 DEF Clear
  <2> QED
    BY <2>1, <2>2, <2>3, GoesApart, LeavesApart, PlaceKept DEF Fresh
<1>10. ASSUME NEW c \in Clients, Unregister(c) PROVE PlaceInv'
  <2>1. Raise(c) \/ (Leave(c, Tail(plan[c])) /\ UNCHANGED <<pstatus, threads, links>>)
    BY <1>10 DEF Unregister, Return
  <2> QED
    BY <2>1, RaisePlaced, GoesApart, LeavesApart, PlaceKept DEF Fresh
<1>11. ASSUME NEW n \in Nodes, Ends(n) PROVE PlaceInv'
  <2>1. \A m \in Nodes : \/ threads'[m] = threads[m]
                         \/ threads[m] = "live" /\ threads'[m] = "stopped"
    BY <1>11 DEF Ends, TypeInv, TypeOK
  <2> QED
    BY <1>11, <2>1, PlaceKept DEF Ends, Fresh
<1>12. CASE UNCHANGED vars
  BY <1>12, PlaceKept DEF vars, Fresh
<1> QED
  BY <1>1, <1>2, <1>3, <1>4, <1>5, <1>6, <1>7, <1>8, <1>9, <1>10, <1>11, <1>12

\* A start() begins with every node to visit, and so does a stop(), of a
\* pipeline that runs.
LEMMA CallPlaced ==
  ASSUME PlaceInv, TypeInv, NEW c \in Clients, CallStart(c) \/ CallStop(c)
  PROVE  PlaceInv'
<1> DEFINE loop == IF CallStart(c) THEN Reverse(Placed) ELSE Placed
<1>1. CASE Raise(c)
  BY <1>1, RaisePlaced
<1>2. CASE ~Raise(c)
  <2>1. PICK label \in {"start", "stop"}, work \in {Reverse(Placed), Placed} :
          /\ Go(c, label, work) /\ UNCHANGED pipeline /\ ~Fresh
          /\ label = "stop" => pstatus = "RUNNING"
    BY <1>2 DEF CallStart, CallStop, CanStart, Fresh
  <2>2. Range(work) = Range(Placed)
    BY OrderTyped, ReverseSame
  <2>3. \A n : IsPlaced(n)' <=> IsPlaced(n)
    BY <2>1 DEF IsPlaced, Placed, pipeline
  <2>4. pc'[c] = label /\ todo'[c] = work
    BY <2>1 DEF Go, TypeInv, TypeOK
  <2>5. \A d \in Clients : d # c => pc'[d] = pc[d] /\ todo'[d] = todo[d]
    BY <2>1 DEF Go, TypeInv, TypeOK
  <2>6. LivePlaced' /\ RunningPlaced'
    BY <2>1, <2>3 DEF PlaceInv, LivePlaced, RunningPlaced, pipeline
  <2>7. LoopsPlaced'
    BY <2>1, <2>2, <2>3, <2>4, <2>5
       DEF PlaceInv, LoopsPlaced, IsPlaced, pipeline, Fresh
  <2>8. StartedBehind'
    BY <2>1, <2>2, <2>3, <2>4, <2>5
       DEF PlaceInv, StartedBehind, IsPlaced, pipeline
  <2>9. StoppedBehind'
    <3> SUFFICES ASSUME NEW d \in Clients, pc'[d] = "stop", NEW n \in Nodes,
                        IsPlaced(n)
                 PROVE  /\ threads'[n] # "new"
                        /\ n \notin Range(todo'[d]) => threads'[n] = "stopped"
      BY <2>3 DEF StoppedBehind
    <3>1. threads' = threads
      BY <2>1 DEF pipeline
    <3>2. CASE d = c
      BY <2>1, <2>2, <2>4, <3>1, <3>2 DEF PlaceInv, RunningPlaced, IsPlaced
    <3>3. CASE d # c
      BY <2>5, <3>1, <3>3 DEF PlaceInv, StoppedBehind
    <3> QED
      BY <3>2, <3>3
  <2> QED
    BY <2>6, <2>7, <2>8, <2>9 DEF PlaceInv
<1> QED
  BY <1>1, <1>2

\* Nothing is at work, and nothing starts or stops, while a node is built.
LEMMA BuildPlaced ==
  ASSUME PlaceInv, WarmInv, TypeInv, NEW c \in Clients, Build(c)
  PROVE  PlaceInv'
<1>1. pstatus = "NEW" /\ Quiet
  BY DEF Build, At, WarmInv, WarmsNew, Warming, FreshIsQuiet, Fresh
<1>2. \A d \in Clients : pc[d] \notin {"start", "stop"}
  BY <1>1 DEF PlaceInv, LoopsPlaced, Fresh
<1>3. \A d \in Clients : pc'[d] \notin {"start", "stop"}
  <2>1. pc[c] = "build"
    BY DEF Build, At
  <2>2. PICK loop : Go(c, "build", loop) \/ Go(c, "warm", loop)
    BY <2>1 DEF Build, Advance
  <2> QED
    BY <1>2, <2>2 DEF Go, TypeInv, TypeOK
<1>4. pstatus' = "NEW"
  BY <1>1 DEF Build
<1>5. Quiet'
  BY <1>1 DEF Build, Quiet, TypeInv, TypeOK
<1> QED
  BY <1>3, <1>4, <1>5 DEF PlaceInv, LivePlaced, LoopsPlaced, RunningPlaced,
     StartedBehind, StoppedBehind, Quiet

\* The loop of a client that advances, or that ends; the others are as they were.
LEMMA TurnApart ==
  ASSUME TypeInv, NEW c \in Clients, pc[c] \in {"start", "stop"},
         \/ ~LastOf(c) /\ Advance(c)
         \/ LastOf(c) /\ (Return(c) \/ Go(c, "destroying", <<>>))
  PROVE  /\ \/ /\ pc'[c] = pc[c] /\ todo'[c] = Tail(todo[c])
               /\ Range(todo[c]) = {Head(todo[c])} \cup Range(todo'[c])
            \/ pc'[c] \notin {"start", "stop"} /\ Range(todo[c]) = {Head(todo[c])}
         /\ \A d \in Clients : d # c => pc'[d] = pc[d] /\ todo'[d] = todo[d]
<1>1. pc[c] \in Loops
  BY DEF Loops
<1>2. CASE ~LastOf(c) /\ Advance(c)
  <2>1. Go(c, pc[c], Tail(todo[c]))
    BY <1>2 DEF Advance
  <2>2. pc'[c] = pc[c] /\ todo'[c] = Tail(todo[c])
    BY <2>1 DEF Go, TypeInv, TypeOK
  <2>3. \A d \in Clients : d # c => pc'[d] = pc[d] /\ todo'[d] = todo[d]
    BY <2>1 DEF Go, TypeInv, TypeOK
  <2> QED
    BY <1>1, <2>2, <2>3, AtLoop
<1>3. CASE LastOf(c) /\ (Return(c) \/ Go(c, "destroying", <<>>))
  <2>1. pc'[c] \notin {"start", "stop"}
    BY <1>3 DEF Return, Leave, Go, TypeInv, TypeOK
  <2>2. \A d \in Clients : d # c => pc'[d] = pc[d] /\ todo'[d] = todo[d]
    BY <1>3 DEF Return, Leave, Go, TypeInv, TypeOK
  <2> QED
    BY <1>1, <1>3, <2>1, <2>2, AtLoop
<1> QED
  BY <1>2, <1>3

LEMMA StartNodePlaced ==
  ASSUME PlaceInv, TypeInv, NEW c \in Clients, StartNode(c)
  PROVE  PlaceInv'
<1> DEFINE n == Head(todo[c])
<1>1. pc[c] = "start" /\ UNCHANGED links /\ pc[c] \in {"start", "stop"}
  BY DEF StartNode, At
<1>2. /\ \/ /\ pc'[c] = pc[c] /\ todo'[c] = Tail(todo[c])
            /\ Range(todo[c]) = {n} \cup Range(todo'[c])
         \/ pc'[c] \notin {"start", "stop"} /\ Range(todo[c]) = {n}
      /\ \A d \in Clients : d # c => pc'[d] = pc[d] /\ todo'[d] = todo[d]
  <2>1. \/ ~LastOf(c) /\ Advance(c)
        \/ LastOf(c) /\ Return(c)
    BY DEF StartNode
  <2> QED
    BY <1>1, <2>1, TurnApart
<1>3. n \in Nodes /\ threads' = [threads EXCEPT ![n] = Started(n)]
  BY <1>1, AtLoop DEF StartNode, Loops
<1>4. /\ threads'[n] # "new"
      /\ threads[n] = "stopped" => threads'[n] = "stopped"
      /\ \A m \in Nodes : m # n => threads'[m] = threads[m]
  BY <1>3 DEF Started, TypeInv, TypeOK
<1> HIDE DEF n
<1>5. n \in Range(todo[c])
  BY <1>2
<1>6. ~Fresh /\ IsPlaced(n)
  BY <1>1, <1>5 DEF PlaceInv, LoopsPlaced
<1>7. \A m : IsPlaced(m)' <=> IsPlaced(m)
  BY <1>1 DEF IsPlaced, Placed
<1>8. pstatus' = pstatus \/ (LastOf(c) /\ pstatus' = "RUNNING")
  BY DEF StartNode, StatusStarting
<1>9. ~Fresh'
  BY <1>6, <1>8 DEF Fresh
<1>10. LivePlaced'
  BY <1>4, <1>6, <1>7 DEF PlaceInv, LivePlaced
<1>11. LoopsPlaced'
  <2>1. \A d \in Clients : pc'[d] \in {"start", "stop"} =>
          pc[d] \in {"start", "stop"} /\ Range(todo'[d]) \subseteq Range(todo[d])
    BY <1>2
  <2> QED
    BY <1>7, <1>9, <2>1 DEF PlaceInv, LoopsPlaced
<1>12. StartedBehind'
  <2> SUFFICES ASSUME NEW d \in Clients, pc'[d] = "start", NEW m \in Nodes,
                      IsPlaced(m), m \notin Range(todo'[d])
               PROVE  threads'[m] # "new"
    BY <1>7 DEF StartedBehind
  <2>1. CASE m = n
    BY <1>4, <2>1
  <2>2. CASE m # n
    <3>1. m \notin Range(todo[d]) /\ pc[d] = "start"
      BY <1>1, <1>2, <2>2
    <3> QED
      BY <1>4, <2>2, <3>1 DEF PlaceInv, StartedBehind
  <2> QED
    BY <2>1, <2>2
<1>13. StoppedBehind'
  <2> SUFFICES ASSUME NEW d \in Clients, pc'[d] = "stop", NEW m \in Nodes, IsPlaced(m)
               PROVE  /\ threads'[m] # "new"
                      /\ m \notin Range(todo'[d]) => threads'[m] = "stopped"
    BY <1>7 DEF StoppedBehind
  <2>1. d # c /\ pc[d] = "stop" /\ todo'[d] = todo[d]
    BY <1>1, <1>2
  <2>2. threads[m] # "new" /\ (m \notin Range(todo[d]) => threads[m] = "stopped")
    BY <2>1 DEF PlaceInv, StoppedBehind
  <2> QED
    BY <1>4, <2>1, <2>2
<1>14. RunningPlaced'
  <2> SUFFICES ASSUME pstatus' = "RUNNING", NEW m \in Nodes, IsPlaced(m), m # n
               PROVE  threads'[m] # "new"
    BY <1>4, <1>7 DEF RunningPlaced
  <2>1. CASE pstatus = "RUNNING"
    BY <1>4, <2>1 DEF PlaceInv, RunningPlaced
  <2>2. CASE LastOf(c)
    <3>1. Range(todo[c]) = {n}
      BY <1>1, <2>2, AtLoop DEF Loops, n
    <3>2. m \notin Range(todo[c])
      BY <3>1
    <3>3. threads[m] # "new"
      BY <1>1, <3>2 DEF PlaceInv, StartedBehind
    <3> QED
      BY <1>4, <3>3
  <2> QED
    BY <1>8, <2>1, <2>2
<1> QED
  BY <1>10, <1>11, <1>12, <1>13, <1>14 DEF PlaceInv

\* When its last node has been stopped, none is at work.
LEMMA StopNodePlaced ==
  ASSUME PlaceInv, TypeInv, NEW c \in Clients, StopNode(c)
  PROVE  PlaceInv' /\ (LastOf(c) => Quiet')
<1> DEFINE n == Head(todo[c])
<1>1. pc[c] = "stop" /\ UNCHANGED links /\ pc[c] \in {"start", "stop"}
  BY DEF StopNode, At
<1>2. /\ \/ /\ pc'[c] = pc[c] /\ todo'[c] = Tail(todo[c])
            /\ Range(todo[c]) = {n} \cup Range(todo'[c])
         \/ pc'[c] \notin {"start", "stop"} /\ Range(todo[c]) = {n}
      /\ \A d \in Clients : d # c => pc'[d] = pc[d] /\ todo'[d] = todo[d]
  <2>1. \/ ~LastOf(c) /\ Advance(c)
        \/ LastOf(c) /\ (Return(c) \/ Go(c, "destroying", <<>>))
    BY DEF StopNode
  <2> QED
    BY <1>1, <2>1, TurnApart
<1>3. n \in Nodes /\ threads' = [threads EXCEPT ![n] = "stopped"]
  BY <1>1, AtLoop DEF StopNode, Loops
<1>4. threads'[n] = "stopped" /\ \A m \in Nodes : m # n => threads'[m] = threads[m]
  BY <1>3 DEF TypeInv, TypeOK
<1>5. LastOf(c) => Range(todo[c]) = {n}
  BY <1>1, AtLoop DEF Loops
<1> HIDE DEF n
<1>6. ~Fresh
  BY <1>1 DEF PlaceInv, LoopsPlaced
<1>7. \A m : IsPlaced(m)' <=> IsPlaced(m)
  BY <1>1 DEF IsPlaced, Placed
<1>8. pstatus' = pstatus \/ pstatus' = "READY"
  BY DEF StopNode
<1>9. ~Fresh'
  BY <1>6, <1>8 DEF Fresh
<1>10. LivePlaced'
  BY <1>4, <1>7 DEF PlaceInv, LivePlaced
<1>11. LoopsPlaced'
  <2>1. \A d \in Clients : pc'[d] \in {"start", "stop"} =>
          pc[d] \in {"start", "stop"} /\ Range(todo'[d]) \subseteq Range(todo[d])
    BY <1>2
  <2> QED
    BY <1>7, <1>9, <2>1 DEF PlaceInv, LoopsPlaced
<1>12. StartedBehind'
  <2> SUFFICES ASSUME NEW d \in Clients, pc'[d] = "start", NEW m \in Nodes,
                      IsPlaced(m), m \notin Range(todo'[d])
               PROVE  threads'[m] # "new"
    BY <1>7 DEF StartedBehind
  <2>1. d # c /\ pc[d] = "start" /\ todo'[d] = todo[d]
    BY <1>1, <1>2
  <2>2. threads[m] # "new"
    BY <2>1 DEF PlaceInv, StartedBehind
  <2> QED
    BY <1>4, <2>2
<1>13. StoppedBehind'
  <2> SUFFICES ASSUME NEW d \in Clients, pc'[d] = "stop", NEW m \in Nodes, IsPlaced(m)
               PROVE  /\ threads'[m] # "new"
                      /\ m \notin Range(todo'[d]) => threads'[m] = "stopped"
    BY <1>7 DEF StoppedBehind
  <2>1. CASE m = n
    BY <1>4, <2>1
  <2>2. CASE m # n
    <3>1. pc[d] = "stop" /\ (m \notin Range(todo'[d]) => m \notin Range(todo[d]))
      BY <1>1, <1>2, <2>2
    <3>2. threads[m] # "new" /\ (m \notin Range(todo[d]) => threads[m] = "stopped")
      BY <3>1 DEF PlaceInv, StoppedBehind
    <3> QED
      BY <1>4, <2>2, <3>1, <3>2
  <2> QED
    BY <2>1, <2>2
<1>14. RunningPlaced'
  <2> SUFFICES ASSUME pstatus' = "RUNNING", NEW m \in Nodes, IsPlaced(m), m # n
               PROVE  threads'[m] # "new"
    BY <1>4, <1>7 DEF RunningPlaced
  <2>1. pstatus = "RUNNING"
    BY <1>8
  <2> QED
    BY <1>4, <2>1 DEF PlaceInv, RunningPlaced
<1>15. ASSUME LastOf(c), NEW m \in Nodes, threads'[m] = "live" PROVE FALSE
  <2>1. m # n /\ IsPlaced(m) /\ m \notin Range(todo[c])
    BY <1>4, <1>5, <1>7, <1>10, <1>15 DEF LivePlaced
  <2>2. threads[m] = "stopped"
    BY <1>1, <2>1 DEF PlaceInv, StoppedBehind
  <2> QED
    BY <1>4, <1>15, <2>1, <2>2
<1> QED
  BY <1>10, <1>11, <1>12, <1>13, <1>14, <1>15 DEF PlaceInv, Quiet

LEMMA PlaceStep == WarmInv /\ TypeInv /\ PlaceInv /\ [Next]_vars => PlaceInv'
<1> SUFFICES ASSUME WarmInv, TypeInv, PlaceInv, [Next]_vars PROVE PlaceInv'
  OBVIOUS
<1>1. ASSUME NEW c \in Clients, ClientStep(c) PROVE PlaceInv'
  BY <1>1, CallPlaced, BuildPlaced, StartNodePlaced, StopNodePlaced, OthersPlaced
     DEF ClientStep
<1> QED
  BY <1>1, OthersPlaced DEF Next

\* A pipeline whose links were added once, by a warmup that succeeded or that
\* only then failed, has started every node when it runs: whatever starts, stops
\* and deletions overlap, it becomes RUNNING at the end of a start() that has
\* started all it was to, and a stopped node stays stopped.
THEOREM RunsStarted == Spec => []RunningOnceLinked
<1>1. WarmInv /\ TypeInv /\ PlaceInv /\ [Next]_vars => (WarmInv /\ TypeInv /\ PlaceInv)'
  BY WarmInvStep, TypeInvStep, PlaceStep
<1>2. PlaceInv => RunningOnceLinked
  <2> SUFFICES ASSUME PlaceInv, links = 1, pstatus = "RUNNING", NEW n \in Nodes
               PROVE  threads[n] # "new"
    BY DEF RunningOnceLinked, RunningIsStarted
  <2>1. Placed = Order
    BY DEF Placed
  <2>2. IsPlaced(n)
    BY <2>1 DEF IsPlaced, Nodes
  <2> QED
    BY <2>2 DEF PlaceInv, RunningPlaced
<1> QED
  BY <1>1, <1>2, WarmInvInit, TypeInvInit, PlaceInit, PTL DEF Spec

-----------------------------------------------------------------------------
(***************************************************************************)
(* Clients that let nothing overlap with a deletion: a start() or a stop() *)
(* under way finds every node, and so ends with the pipeline RUNNING or    *)
(* READY.                                                                  *)
(***************************************************************************)
Deletes(c) == "delete" \in Range(plan[c])
Up == pstatus \in {"READY", "RUNNING"}
Clearing == \E c \in Clients : pc[c] = "clear"
Starting == \E c \in Clients : pc[c] = "start"
Endings == {"destroying", "clear", "remove"}

OpOf(label) ==
  IF label = "start" THEN {"start"}
  ELSE IF label = "stop" THEN {"stop", "delete"}
  ELSE IF label \in Endings \cup {"stopping"} THEN {"delete"}
  ELSE Ops

Busy ==
  \A c \in Clients : pc[c] # "check" => ~Idle(c) /\ Op(c) \in OpOf(pc[c])
DeletesAlone == \A c, d \in Clients : c # d /\ Deletes(c) => Idle(d)
BusyInv == Busy /\ ("delete" \in exclusive => DeletesAlone)

ClearedIsGone == cleared => pstatus = "DESTROYED"
WarmedBehind ==
  \A c \in Clients : pc[c] = "warm" =>
    \A n \in Nodes : n \notin Range(todo[c]) => node[n] = "ready"
NodesInv == ClearedIsGone /\ WarmedBehind

UpIsWhole == Up /\ ~Clearing => \A n \in Nodes : node[n] = "ready"
ClearsPresent ==
  \A c \in Clients : pc[c] = "clear" /\ Up =>
    IsInjective(todo[c]) /\ \A n \in Range(todo[c]) : node[n] = "ready"
LoopsUp == \A c \in Clients : pc[c] \in {"start", "stop"} => Up
ReadyQuiet == pstatus = "READY" => Quiet \/ Starting
EndsQuiet ==
  \A c \in Clients : pc[c] \in Endings => pstatus # "RUNNING" /\ Quiet
GoneQuiet == pstatus = "DESTROYED" => Quiet
DeletedQuiet ==
  pstatus # "none" /\ ~registered =>
    Quiet /\ \A c \in Clients : pc[c] = "check"

CareInv ==
  /\ UpIsWhole /\ ClearsPresent /\ LoopsUp
  /\ ReadyQuiet /\ EndsQuiet /\ GoneQuiet /\ DeletedQuiet

LEMMA GoMoves ==
  ASSUME TypeInv, NEW c \in Clients, NEW label, NEW loop, Go(c, label, loop)
  PROVE  /\ pc'[c] = label /\ todo'[c] = loop
         /\ plan' = plan /\ exclusive' = exclusive
         /\ \A d \in Clients : d # c => pc'[d] = pc[d] /\ todo'[d] = todo[d]
  BY DEF Go, TypeInv, TypeOK

LEMMA LeaveMoves ==
  ASSUME TypeInv, NEW c \in Clients, NEW rest, Leave(c, rest)
  PROVE  /\ pc'[c] = "check" /\ plan'[c] = rest /\ exclusive' = exclusive
         /\ \A d \in Clients : d # c =>
              pc'[d] = pc[d] /\ todo'[d] = todo[d] /\ plan'[d] = plan[d]
  BY DEF Leave, TypeInv, TypeOK

-----------------------------------------------------------------------------
\* Who is at what, and who is alone.
LEMMA GoBusy ==
  ASSUME TypeInv, BusyInv, NEW c \in Clients, ~Idle(c), NEW label, NEW loop,
         Op(c) \in OpOf(label), Go(c, label, loop)
  PROVE  BusyInv'
<1>1. /\ pc'[c] = label /\ plan' = plan /\ exclusive' = exclusive
      /\ \A d \in Clients : d # c => pc'[d] = pc[d]
  BY GoMoves
<1>2. \A d \in Clients : (Idle(d)' <=> Idle(d)) /\ Op(d)' = Op(d)
                         /\ (Deletes(d)' <=> Deletes(d))
  BY <1>1 DEF Idle, Op, Deletes
<1>3. Busy'
  <2> SUFFICES ASSUME NEW d \in Clients, pc'[d] # "check"
               PROVE  ~Idle(d)' /\ Op(d)' \in OpOf(pc'[d])
    BY DEF Busy, OpOf
  <2>1. CASE d = c
    BY <1>1, <1>2, <2>1
  <2>2. CASE d # c
    BY <1>1, <1>2, <2>2 DEF BusyInv, Busy
  <2> QED
    BY <2>1, <2>2
<1>4. "delete" \in exclusive' => DeletesAlone'
  BY <1>1, <1>2 DEF BusyInv, DeletesAlone
<1> QED
  BY <1>3, <1>4 DEF BusyInv

LEMMA LeaveBusy ==
  ASSUME TypeInv, BusyInv, NEW c \in Clients, NEW rest, Leave(c, rest),
         Range(rest) \subseteq Range(plan[c]) \/ (rest \in Plans /\ "delete" \notin Range(rest)),
         \/ ~Idle(c) 
         \/ \A d \in Clients : Idle(d)
  PROVE  BusyInv'
<1>1. /\ pc'[c] = "check" /\ plan'[c] = rest /\ exclusive' = exclusive
      /\ \A d \in Clients : d # c => pc'[d] = pc[d] /\ plan'[d] = plan[d]
  BY LeaveMoves
<1>2. \A d \in Clients : d # c =>
        (Idle(d)' <=> Idle(d)) /\ Op(d)' = Op(d) /\ (Deletes(d)' <=> Deletes(d))
  BY <1>1 DEF Idle, Op, Deletes
<1>3. Busy'
  <2> SUFFICES ASSUME NEW d \in Clients, pc'[d] # "check"
               PROVE  ~Idle(d)' /\ Op(d)' \in OpOf(pc'[d])
    BY DEF Busy, OpOf
  <2>1. d # c
    BY <1>1
  <2> QED
    BY <1>1, <1>2, <2>1 DEF BusyInv, Busy
<1>4. ASSUME "delete" \in exclusive' PROVE DeletesAlone'
  <2> SUFFICES ASSUME NEW d \in Clients, NEW e \in Clients, d # e, Deletes(d)'
               PROVE  Idle(e)'
    BY DEF DeletesAlone
  <2>0. DeletesAlone
    BY <1>1, <1>4 DEF BusyInv
  <2>1. CASE d = c
    <3>1. Deletes(c)
      BY <1>1, <2>1 DEF Deletes
    <3> QED
      BY <1>2, <2>0, <2>1, <3>1 DEF DeletesAlone
  <2>2. CASE d # c
    <3>1. Deletes(d) /\ ~Idle(d)
      BY <1>2, <2>2, EmptyPlan DEF Deletes, Idle
    <3>2. Idle(e) /\ e # c
      BY <2>0, <3>1 DEF DeletesAlone
    <3> QED
      BY <1>2, <3>2
  <2> QED
    BY <2>1, <2>2
<1> QED
  BY <1>3, <1>4 DEF BusyInv

LEMMA EndBusy ==
  ASSUME WarmInv, TypeInv, BusyInv, NEW c \in Clients, ~Idle(c),
         Leave(c, Tail(plan[c])) \/ Leave(c, <<>>)
  PROVE  BusyInv'
<1>1. Range(Tail(plan[c])) \subseteq Range(plan[c])
  BY OpIsPlanned DEF WarmInv
<1>2. Range(<<>>) \subseteq Range(plan[c])
  BY EmptyPlan
<1> QED
  BY <1>1, <1>2, LeaveBusy

\* An operation a client has to do, and the step it is at, if any, fit.
LEMMA OpKnown ==
  ASSUME WarmInv, TypeInv, NEW c \in Clients, ~Idle(c)
  PROVE  Op(c) \in Ops
  BY PlanRest DEF TypeInv, Planned, Idle, Op

LEMMA AdvanceBusy ==
  ASSUME TypeInv, BusyInv, NEW c \in Clients, ~Idle(c), pc[c] # "check", Advance(c)
  PROVE  BusyInv'
<1>1. Op(c) \in OpOf(pc[c])
  BY DEF BusyInv, Busy
<1> QED
  BY <1>1, GoBusy DEF Advance

LEMMA BeginBusy ==
  ASSUME TypeInv, BusyInv, NEW c \in Clients, NEW op \in Ops, Begin(c, op)
  PROVE  BusyInv'
<1>1. plan'[c] = <<op>> /\ \A d \in Clients : d # c => plan'[d] = plan[d]
  BY DEF Begin, TypeInv, TypeOK
<1>2. pc' = pc /\ exclusive' = exclusive /\ Idle(c)
  BY DEF Begin
<1>3. \A d \in Clients : d # c =>
        (Idle(d)' <=> Idle(d)) /\ Op(d)' = Op(d) /\ (Deletes(d)' <=> Deletes(d))
  BY <1>1 DEF Idle, Op, Deletes
<1>4. Busy'
  <2>1. pc[c] = "check"
    BY <1>2 DEF BusyInv, Busy
  <2> SUFFICES ASSUME NEW d \in Clients, pc'[d] # "check"
               PROVE  ~Idle(d)' /\ Op(d)' \in OpOf(pc'[d])
    BY DEF Busy, OpOf
  <2>2. d # c /\ pc[d] # "check"
    BY <1>2, <2>1
  <2> QED
    BY <1>2, <1>3, <2>2 DEF BusyInv, Busy
<1>5. ASSUME "delete" \in exclusive' PROVE DeletesAlone'
  <2> SUFFICES ASSUME NEW d \in Clients, NEW e \in Clients, d # e, Deletes(d)', ~Idle(e)'
               PROVE  FALSE
    BY DEF DeletesAlone
  <2>0. DeletesAlone /\ "delete" \in exclusive
    BY <1>2, <1>5 DEF BusyInv
  <2>1. CASE d = c
    <3>1. op = "delete"
      BY <1>1, <2>1 DEF Deletes, Range
    <3>2. ~Idle(e)
      BY <1>3, <2>1
    <3> QED
      BY <2>0, <3>1, <3>2 DEF Begin
  <2>2. CASE d # c
    <3>1. Deletes(d) /\ ~Idle(d)
      BY <1>3, <2>2, EmptyPlan DEF Deletes, Idle
    <3> QED
      BY <2>0, <3>1 DEF Begin, Deletes
  <2> QED
    BY <2>1, <2>2
<1> QED
  BY <1>4, <1>5 DEF BusyInv

LEMMA StepBusy ==
  ASSUME WarmInv, TypeInv, BusyInv, NEW c \in Clients, ClientStep(c)
  PROVE  BusyInv'
<1>1. CASE Create(c)
  <2>1. \A d \in Clients : Idle(d)
    BY <1>1 DEF Create, WarmInv, NoneIsIdle
  <2>2. PICK rest \in {<<>>, <<"warmup", "start">>} : Leave(c, rest)
    BY <1>1 DEF Create
  <2>3. rest \in Plans /\ "delete" \notin Range(rest)
    BY DEF Plans, Range
  <2> QED
    BY <2>1, <2>2, <2>3, LeaveBusy
<1>2. CASE \E op \in Ops : Begin(c, op)
  BY <1>2, BeginBusy
<1>3. ASSUME ~Idle(c), Raise(c) \/ Return(c) PROVE BusyInv'
  BY <1>3, EndBusy DEF Raise, Return
<1>4. CASE Check(c)
  <2>1. ~Idle(c) /\ Op(c) \in OpOf("call")
    BY <1>4, OpKnown DEF Check, At, OpOf, Endings
  <2> QED
    BY <1>3, <1>4, <2>1, GoBusy DEF Check
<1>5. CASE CallWarmup(c)
  <2>1. ~Idle(c) /\ Op(c) \in OpOf("build")
    BY <1>5, OpKnown DEF CallWarmup, At, OpOf, Endings
  <2> QED
    BY <1>3, <1>5, <2>1, GoBusy DEF CallWarmup
<1>6. CASE CallStart(c)
  <2>1. ~Idle(c) /\ Op(c) \in OpOf("start")
    BY <1>6 DEF CallStart, At, OpOf
  <2> QED
    BY <1>3, <1>6, <2>1, GoBusy DEF CallStart
<1>7. CASE CallStop(c)
  <2>1. ~Idle(c) /\ pc[c] \in {"call", "stopping"} /\ (pc[c] = "call" => Op(c) = "stop")
    BY <1>7 DEF CallStop, At
  <2>2. pc[c] = "stopping" => Op(c) = "delete"
    BY DEF BusyInv, Busy, OpOf, Endings
  <2>3. Op(c) \in OpOf("stop")
    BY <2>1, <2>2 DEF OpOf
  <2> QED
    BY <1>7, <2>1, <2>3, GoBusy DEF CallStop
<1>8. CASE CallDelete(c)
  <2>1. ~Idle(c) /\ Op(c) \in OpOf("stopping") /\ Op(c) \in OpOf("destroying")
    BY <1>8 DEF CallDelete, At, OpOf, Endings
  <2> QED
    BY <1>3, <1>8, <2>1, GoBusy DEF CallDelete
<1>9. CASE \/ CallStopRaise(c) \/ NodeMissing(c)
           \/ \E step \in {"build", "warm", "start"} : Fail(c, step)
  BY <1>3, <1>9 DEF CallStopRaise, NodeMissing, Fail, At
<1>10. CASE Build(c)
  <2>1. ~Idle(c) /\ pc[c] = "build" /\ Op(c) \in OpOf("warm")
    BY <1>10, OpKnown DEF Build, At, OpOf, Endings
  <2> QED
    BY <1>10, <2>1, GoBusy, AdvanceBusy DEF Build
<1>11. CASE Warm(c) \/ StartNode(c)
  <2>1. ~Idle(c) /\ pc[c] # "check"
    BY <1>11 DEF Warm, StartNode, At
  <2>2. Advance(c) \/ Return(c)
    BY <1>11 DEF Warm, StartNode
  <2> QED
    BY <1>3, <2>1, <2>2, AdvanceBusy
<1>12. CASE StopNode(c)
  <2>1. ~Idle(c) /\ pc[c] # "check"
    BY <1>12 DEF StopNode, At
  <2>2. \/ Advance(c) \/ Return(c)
        \/ Op(c) = "delete" /\ Go(c, "destroying", <<>>)
    BY <1>12 DEF StopNode
  <2>3. "delete" \in OpOf("destroying")
    BY DEF OpOf, Endings
  <2> QED
    BY <1>3, <2>1, <2>2, <2>3, AdvanceBusy, GoBusy
<1>13. CASE Destroy(c) \/ Clear(c)
  <2>1. ~Idle(c) /\ pc[c] \in {"destroying", "clear"}
    BY <1>13 DEF Destroy, Clear, At
  <2>2. Op(c) = "delete"
    BY <2>1 DEF BusyInv, Busy, OpOf, Endings
  <2>3. Op(c) \in OpOf("clear") /\ Op(c) \in OpOf("remove")
    BY <2>2 DEF OpOf, Endings
  <2>4. Advance(c) \/ Go(c, "remove", <<>>) \/ Go(c, "clear", ClearLoop)
    BY <1>13 DEF Destroy, Clear, ClearLoop
  <2> QED
    BY <2>1, <2>3, <2>4, AdvanceBusy, GoBusy
<1>14. CASE Unregister(c)
  BY <1>3, <1>14 DEF Unregister, At
<1> QED
  BY <1>1, <1>2, <1>4, <1>5, <1>6, <1>7, <1>8, <1>9, <1>10, <1>11, <1>12, <1>13,
     <1>14 DEF ClientStep

LEMMA BusyStep == WarmInv /\ TypeInv /\ BusyInv /\ [Next]_vars => BusyInv'
<1> SUFFICES ASSUME WarmInv, TypeInv, BusyInv, [Next]_vars PROVE BusyInv'
  OBVIOUS
<1>1. ASSUME UNCHANGED <<plan, pc, exclusive>> PROVE BusyInv'
  BY <1>1 DEF BusyInv, Busy, DeletesAlone, Deletes, Idle, Op
<1>2. ASSUME NEW n \in Nodes, Ends(n) PROVE BusyInv'
  BY <1>1, <1>2 DEF Ends
<1>3. CASE UNCHANGED vars
  BY <1>1, <1>3 DEF vars
<1> QED
  BY <1>2, <1>3, StepBusy DEF Next

-----------------------------------------------------------------------------
\* What has become of the nodes.
LEMMA ClearedStep ==
  ASSUME WarmInv, ClearedIsGone, NEW c \in Clients, ClientStep(c)
  PROVE  ClearedIsGone'
<1>1. CASE UNCHANGED <<cleared, pstatus>>
  BY <1>1 DEF ClearedIsGone
<1>2. CASE Create(c)
  BY <1>2 DEF Create, ClearedIsGone
<1>3. CASE Warm(c)
  <2>1. pstatus = "NEW"
    BY <1>3 DEF Warm, At, WarmInv, WarmsNew, Warming
  <2> QED
    BY <1>3, <2>1 DEF Warm, ClearedIsGone
<1>4. CASE StartNode(c) \/ StopNode(c)
  BY <1>4 DEF StartNode, StopNode, Present, ClearedIsGone
<1>5. CASE Clear(c)
  BY <1>5 DEF Clear, ClearedIsGone
<1>6. ASSUME Raise(c) PROVE UNCHANGED <<cleared, pstatus>>
  BY <1>6 DEF Raise, pipeline
<1>7. \/ UNCHANGED <<cleared, pstatus>>
      \/ Create(c) \/ Warm(c) \/ StartNode(c) \/ StopNode(c) \/ Clear(c)
  BY <1>6 DEF ClientStep, Begin, Check, CallWarmup, CallStart, CallDelete, CallStop,
     CallStopRaise, Fail, Build, NodeMissing, Destroy, Unregister, pipeline
<1> QED
  BY <1>1, <1>2, <1>3, <1>4, <1>5, <1>7

LEMMA WarmedStep ==
  ASSUME WarmInv, TypeInv, WarmedBehind, NEW c \in Clients, ClientStep(c)
  PROVE  WarmedBehind'
<1> SUFFICES ASSUME NEW d \in Clients, pc'[d] = "warm",
                    NEW n \in Nodes, n \notin Range(todo'[d])
             PROVE  node'[n] = "ready"
  BY DEF WarmedBehind
<1>1. CASE Create(c) \/ \E op \in Ops : Begin(c, op)
  <2>1. node' = node /\ pc[d] = "warm" /\ todo'[d] = todo[d]
    BY <1>1, LeaveMoves DEF Create, Begin, pipeline, TypeInv, TypeOK
  <2> QED
    BY <2>1 DEF WarmedBehind
<1>2. CASE ~Idle(c)
  <2>1. CASE d # c
    <3>1. pc[d] = "warm"
      <4>1. pc'[d] = pc[d]
        <5>1. \/ \E label, loop : Go(c, label, loop)
              \/ \E rest : Leave(c, rest)
          BY <1>2 DEF ClientStep, Create, Begin, Check, CallWarmup, CallStart,
             CallDelete, CallStop, CallStopRaise, Fail, Build, Warm, StartNode,
             StopNode, NodeMissing, Destroy, Clear, Unregister, Raise, Return,
             Advance
        <5> QED
          BY <2>1, <5>1, GoMoves, LeaveMoves
      <4> QED
        BY <4>1
    <3> QED
      BY <1>2, <2>1, <3>1, WarmingIsAlone DEF Warming
  <2>2. CASE d = c
    <3>1. CASE Build(c)
      <4>1. CASE LastOf(c)
        <5>1. todo'[c] = Order
          BY <3>1, <4>1, GoMoves DEF Build
        <5> QED
          BY <2>2, <5>1 DEF Nodes
      <4>2. CASE ~LastOf(c)
        <5>1. pc'[c] = "build"
          BY <3>1, <4>2, GoMoves DEF Build, Advance, At
        <5> QED
          BY <2>2, <5>1
      <4> QED
        BY <4>1, <4>2
    <3>2. CASE Warm(c)
      <4>1. ~LastOf(c)
        BY <2>2, <3>2, LeaveMoves DEF Warm, Return
      <4>2. todo'[c] = Tail(todo[c]) /\ pc[c] = "warm"
        BY <3>2, <4>1, GoMoves DEF Warm, Advance, At
      <4>3. Range(todo[c]) = {Head(todo[c])} \cup Range(todo'[c])
        BY <4>2, AtLoop DEF Loops
      <4>4. node' = [node EXCEPT ![Head(todo[c])] = "ready"] /\ node \in [Nodes -> {"none", "built", "ready", "gone"}]
        BY <3>2 DEF Warm, TypeInv, TypeOK
      <4>5. CASE n = Head(todo[c])
        BY <4>4, <4>5
      <4>6. CASE n # Head(todo[c])
        <5>1. n \notin Range(todo[c])
          BY <2>2, <4>3, <4>6
        <5>2. node[n] = "ready"
          BY <4>2, <5>1 DEF WarmedBehind
        <5> QED
          BY <4>4, <4>6, <5>2
      <4> QED
        BY <4>5, <4>6
    <3>3. CASE ~Build(c) /\ ~Warm(c)
      <4>1. \/ \E rest : Leave(c, rest)
            \/ Advance(c) /\ pc[c] # "warm"
            \/ \E label, loop : label # "warm" /\ Go(c, label, loop)
        BY <1>2, <3>3 DEF ClientStep, Create, Begin, Check, CallWarmup, CallStart,
           CallDelete, CallStop, CallStopRaise, Fail, StartNode, At,
           StopNode, NodeMissing, Destroy, Clear, Unregister, Raise, Return
      <4>2. pc'[c] # "warm"
        BY <4>1, GoMoves, LeaveMoves DEF Advance
      <4> QED
        BY <2>2, <4>2
    <3> QED
      BY <3>1, <3>2, <3>3
  <2> QED
    BY <2>1, <2>2
<1>3. Idle(c) => Create(c) \/ \E op \in Ops : Begin(c, op)
  BY DEF ClientStep, Check, CallWarmup, CallStart, CallDelete, CallStop,
     CallStopRaise, Fail, Build, Warm, StartNode, StopNode, NodeMissing, Destroy,
     Clear, Unregister, At
<1> QED
  BY <1>1, <1>2, <1>3

LEMMA NodesStep == WarmInv /\ TypeInv /\ NodesInv /\ [Next]_vars => NodesInv'
<1> SUFFICES ASSUME WarmInv, TypeInv, NodesInv, [Next]_vars PROVE NodesInv'
  OBVIOUS
<1>1. ASSUME UNCHANGED <<cleared, pstatus, pc, todo, node>> PROVE NodesInv'
  BY <1>1 DEF NodesInv, ClearedIsGone, WarmedBehind
<1>2. ASSUME NEW n \in Nodes, Ends(n) PROVE NodesInv'
  BY <1>1, <1>2 DEF Ends
<1>3. CASE UNCHANGED vars
  BY <1>1, <1>3 DEF vars
<1> QED
  BY <1>2, <1>3, ClearedStep, WarmedStep DEF Next, NodesInv

-----------------------------------------------------------------------------
\* A client at a deletion is alone, and so is one at a warmup.
LEMMA EndingIsAlone ==
  ASSUME WarmInv, BusyInv, "delete" \in exclusive, NEW c \in Clients,
         ~Idle(c), Op(c) = "delete"
  PROVE  \A d \in Clients : d # c => pc[d] = "check" /\ Idle(d)
<1>1. Deletes(c)
  BY OpIsPlanned DEF WarmInv, Deletes
<1>2. \A d \in Clients : d # c => Idle(d)
  BY <1>1 DEF BusyInv, DeletesAlone
<1> QED
  BY <1>2 DEF BusyInv, Busy

LEMMA AtEnding ==
  ASSUME WarmInv, BusyInv, "delete" \in exclusive, NEW c \in Clients,
         pc[c] \in Endings \cup {"stopping"}
  PROVE  /\ ~Idle(c) /\ Op(c) = "delete"
         /\ \A d \in Clients : d # c => pc[d] = "check" /\ Idle(d)
<1>1. ~Idle(c) /\ Op(c) = "delete"
  BY DEF BusyInv, Busy, OpOf, Endings
<1> QED
  BY <1>1, EndingIsAlone

\* Steps that leave the pipeline as it is.
LEMMA PlainCare ==
  ASSUME CareInv, NEW c \in Clients, UNCHANGED pipeline,
         \A d \in Clients : d # c => pc'[d] = pc[d] /\ todo'[d] = todo[d],
         pc[c] = "clear" => ~Up,
         pc'[c] = "clear" /\ Up =>
           IsInjective(todo'[c]) /\ \A n \in Range(todo'[c]) : node[n] = "ready",
         pc'[c] \in {"start", "stop"} => Up,
         pc[c] # "start",
         pc'[c] \in Endings => pstatus # "RUNNING" /\ Quiet,
         pc'[c] = "check" \/ registered \/ pstatus = "none"
  PROVE  CareInv'
<1>1. /\ registered' = registered /\ pstatus' = pstatus /\ node' = node
      /\ (Quiet' <=> Quiet) /\ (Up' <=> Up)
  BY DEF pipeline, Quiet, Up
<1>2. UpIsWhole'
  <2> SUFFICES ASSUME Up, ~Clearing', NEW n \in Nodes PROVE node[n] = "ready"
    BY <1>1 DEF UpIsWhole
  <2>1. ~Clearing
    BY DEF Clearing
  <2> QED
    BY <2>1 DEF CareInv, UpIsWhole
<1>3. ClearsPresent'
  BY <1>1 DEF CareInv, ClearsPresent
<1>4. LoopsUp'
  BY <1>1 DEF CareInv, LoopsUp
<1>5. ReadyQuiet'
  <2> SUFFICES ASSUME pstatus = "READY", ~Quiet PROVE Starting'
    BY <1>1 DEF ReadyQuiet
  <2>1. PICK d \in Clients : pc[d] = "start"
    BY DEF CareInv, ReadyQuiet, Starting
  <2>2. pc'[d] = "start"
    BY <2>1
  <2> QED
    BY <2>2 DEF Starting
<1>6. EndsQuiet'
  BY <1>1 DEF CareInv, EndsQuiet
<1>7. GoneQuiet'
  BY <1>1 DEF CareInv, GoneQuiet
<1>8. DeletedQuiet'
  BY <1>1 DEF CareInv, DeletedQuiet
<1> QED
  BY <1>2, <1>3, <1>4, <1>5, <1>6, <1>7, <1>8 DEF CareInv

LEMMA RaiseCare ==
  ASSUME TypeInv, CareInv, NEW c \in Clients, Raise(c), pc[c] # "start",
         pc[c] = "clear" => ~Up
  PROVE  CareInv'
<1>1. Leave(c, <<>>) /\ UNCHANGED pipeline
  BY DEF Raise
<1>2. /\ pc'[c] = "check"
      /\ \A d \in Clients : d # c => pc'[d] = pc[d] /\ todo'[d] = todo[d]
  BY <1>1, LeaveMoves
<1> QED
  BY <1>1, <1>2, PlainCare DEF Endings

\* A client that goes on to an operation, or to another step of it.
LEMMA GoCare ==
  ASSUME TypeInv, CareInv, NEW c \in Clients, UNCHANGED pipeline,
         pc[c] \notin {"start", "clear"},
         NEW label \in Labels \ {"clear"}, NEW loop, Go(c, label, loop),
         label \in {"start", "stop"} => Up,
         label \in Endings => pstatus # "RUNNING" /\ Quiet,
         registered \/ pstatus = "none"
  PROVE  CareInv'
<1>1. /\ pc'[c] = label
      /\ \A d \in Clients : d # c => pc'[d] = pc[d] /\ todo'[d] = todo[d]
  BY GoMoves
<1> QED
  BY <1>1, PlainCare

\* Within a request the pipeline is registered still.
LEMMA StillThere ==
  ASSUME CareInv, NEW c \in Clients, pc[c] # "check"
  PROVE  registered \/ pstatus = "none"
  BY DEF CareInv, DeletedQuiet

LEMMA CallCare ==
  ASSUME WarmInv, TypeInv, BusyInv, "delete" \in exclusive, CareInv, NEW c \in Clients,
         \/ Check(c) \/ CallWarmup(c) \/ CallStart(c) \/ CallDelete(c)
         \/ CallStop(c) \/ CallStopRaise(c)
  PROVE  CareInv'
<1>0. {"call", "build", "start", "stop", "stopping", "destroying"}
        \subseteq Labels \ {"clear"}
  BY DEF Labels, Loops
<1>1. pc[c] \in {"check", "call", "stopping"}
  BY DEF Check, CallWarmup, CallStart, CallDelete, CallStop, CallStopRaise, At
<1>2. CASE Raise(c)
  BY <1>1, <1>2, RaiseCare
<1>3. CASE Check(c)
  BY <1>0, <1>1, <1>2, <1>3, GoCare DEF Check, Endings
<1>4. CASE CallWarmup(c)
  BY <1>0, <1>1, <1>2, <1>4, GoCare DEF CallWarmup, Endings
<1>5. CASE CallStart(c)
  BY <1>0, <1>1, <1>2, <1>5, GoCare DEF CallStart, CanStart, Endings, Up
<1>6. CASE CallStop(c)
  <2>1. pc[c] # "check"
    BY <1>6 DEF CallStop, At
  <2>2. registered \/ pstatus = "none"
    BY <2>1, StillThere
  <2>3. Go(c, "stop", Placed) /\ UNCHANGED pipeline /\ Up
    BY <1>6 DEF CallStop, Up
  <2> QED
    BY <1>0, <1>1, <2>2, <2>3, GoCare DEF Endings
<1>7. CASE CallDelete(c) /\ registered
  <2>1. ~Idle(c) /\ Op(c) = "delete" /\ pc[c] = "call"
    BY <1>7 DEF CallDelete, At
  <2>2. \A d \in Clients : pc[d] # "start"
    BY <2>1, EndingIsAlone
  <2>3. pstatus # "RUNNING" => Quiet
    <3>1. pstatus \in {"none", "NEW", "READY", "RUNNING", "DESTROYED"}
      BY DEF TypeInv, TypeOK
    <3>2. pstatus \in {"none", "NEW"} => Quiet
      BY DEF WarmInv, FreshIsQuiet, Fresh
    <3>3. pstatus = "READY" => Quiet
      BY <2>2 DEF CareInv, ReadyQuiet, Starting
    <3>4. pstatus = "DESTROYED" => Quiet
      BY DEF CareInv, GoneQuiet
    <3> QED
      BY <3>1, <3>2, <3>3, <3>4
  <2>4. CASE StopsFirst
    BY <1>0, <1>1, <1>7, <2>4, GoCare DEF CallDelete, Endings
  <2>5. CASE ~StopsFirst
    BY <1>0, <1>1, <1>7, <2>3, <2>5, GoCare DEF CallDelete, StopsFirst
  <2> QED
    BY <2>4, <2>5
<1>8. CASE CallDelete(c) /\ ~registered
  BY <1>2, <1>8 DEF CallDelete
<1>9. CASE CallStopRaise(c)
  BY <1>2, <1>9 DEF CallStopRaise
<1> QED
  BY <1>3, <1>4, <1>5, <1>6, <1>7, <1>8, <1>9

\* Another client finds every node of a pipeline that is READY or RUNNING.
LEMMA FindsAll ==
  ASSUME WarmInv, BusyInv, NodesInv, "delete" \in exclusive, CareInv,
         NEW c \in Clients, pc[c] \in {"start", "stop"}, NEW n \in Nodes
  PROVE  Present(n)
<1>1. Up
  BY DEF CareInv, LoopsUp
<1>2. ~cleared
  BY <1>1 DEF NodesInv, ClearedIsGone, Up
<1>3. ~Clearing
  <2> SUFFICES ASSUME NEW d \in Clients, pc[d] = "clear" PROVE FALSE
    BY DEF Clearing
  <2>1. d # c
    OBVIOUS
  <2> QED
    BY <2>1, AtEnding DEF Endings
<1>4. node[n] = "ready"
  BY <1>1, <1>3 DEF CareInv, UpIsWhole
<1> QED
  BY <1>2, <1>4 DEF Present

\* So the loops of start() and destroy() raise only of a pipeline that is not.
LEMMA MissingCare ==
  ASSUME WarmInv, TypeInv, BusyInv, NodesInv, "delete" \in exclusive, CareInv,
         NEW c \in Clients,
         NodeMissing(c) \/ \E step \in {"build", "warm"} : Fail(c, step)
  PROVE  CareInv'
<1>1. Raise(c)
  BY DEF NodeMissing, Fail
<1>2. CASE NodeMissing(c)
  <2>1. pc[c] \in {"start", "stop", "clear"} /\ ~Present(Head(todo[c]))
    BY <1>2 DEF NodeMissing, At
  <2>2. Head(todo[c]) \in Nodes /\ Head(todo[c]) \in Range(todo[c])
    BY <2>1, AtLoop DEF Loops
  <2>3. pc[c] # "start"
    BY <2>1, <2>2, FindsAll
  <2>4. ASSUME pc[c] = "clear", Up PROVE FALSE
    <3>1. node[Head(todo[c])] = "ready" /\ ~cleared
      BY <2>2, <2>4 DEF CareInv, ClearsPresent, NodesInv, ClearedIsGone, Up
    <3> QED
      BY <2>1, <3>1 DEF Present
  <2> QED
    BY <1>1, <2>3, <2>4, RaiseCare
<1>3. CASE \E step \in {"build", "warm"} : Fail(c, step)
  <2>1. pc[c] \in {"build", "warm"}
    BY <1>3 DEF Fail, At
  <2> QED
    BY <1>1, <2>1, RaiseCare
<1> QED
  BY <1>2, <1>3

\* A pipeline created, or a request on one.
LEMMA CreateCare ==
  ASSUME WarmInv, TypeInv, BusyInv, CareInv, NEW c \in Clients, Create(c)
  PROVE  CareInv'
<1>1. \A d \in Clients : pc[d] = "check"
  BY DEF Create, WarmInv, NoneIsIdle, BusyInv, Busy
<1>2. \A d \in Clients : pc'[d] = "check"
  BY <1>1, LeaveMoves DEF Create
<1>3. pstatus' = "NEW" /\ registered'
  BY DEF Create
<1> QED
  BY <1>2, <1>3 DEF CareInv, UpIsWhole, ClearsPresent, LoopsUp, ReadyQuiet, EndsQuiet,
     GoneQuiet, DeletedQuiet, Up, Endings

LEMMA BeginCare ==
  ASSUME BusyInv, CareInv, NEW c \in Clients, NEW op \in Ops, Begin(c, op)
  PROVE  CareInv'
<1>1. pc[c] = "check" /\ pc' = pc /\ todo' = todo /\ UNCHANGED pipeline
  BY DEF Begin, BusyInv, Busy
<1> QED
  BY <1>1, PlainCare DEF Endings

\* A warmup, whose client is alone.
LEMMA WarmupCare ==
  ASSUME WarmInv, TypeInv, BusyInv, NodesInv, CareInv,
         NEW c \in Clients, Build(c) \/ Warm(c)
  PROVE  CareInv'
<1>1. Warming(c) /\ ~Idle(c) /\ pc[c] # "check" /\ pc[c] \in Loops
  BY DEF Build, Warm, At, Warming, Loops
<1>2. pstatus = "NEW" /\ Quiet
  BY <1>1 DEF WarmInv, WarmsNew, FreshIsQuiet, Fresh
<1>3. \A d \in Clients : d # c => pc[d] = "check"
  BY <1>1, WarmingIsAlone DEF BusyInv, Busy
<1>4. registered
  BY <1>1, <1>2, StillThere
<1>5. \A d \in Clients : pc'[d] \in {"check", "build", "warm"}
  <2>1. \/ Go(c, "warm", Order) \/ Leave(c, Tail(plan[c]))
        \/ pc[c] \in {"build", "warm"} /\ Go(c, pc[c], Tail(todo[c]))
    BY DEF Build, Warm, Advance, Return, At
  <2> QED
    BY <1>3, <2>1, GoMoves, LeaveMoves
<1>6. Quiet' /\ registered'
  BY <1>2, <1>4 DEF Build, Warm, Quiet, TypeInv, TypeOK
<1>7. pstatus' = "NEW" \/ (Warm(c) /\ LastOf(c) /\ pstatus' = "READY")
  BY <1>2 DEF Build, Warm
<1>8. UpIsWhole'
  <2> SUFFICES ASSUME Warm(c), LastOf(c), NEW n \in Nodes PROVE node'[n] = "ready"
    BY <1>7 DEF UpIsWhole, Up
  <2>1. pc[c] = "warm" /\ node' = [node EXCEPT ![Head(todo[c])] = "ready"]
    BY DEF Warm, At
  <2>2. Range(todo[c]) = {Head(todo[c])}
    BY <1>1, AtLoop
  <2>3. n # Head(todo[c]) => node[n] = "ready"
    BY <2>1, <2>2 DEF NodesInv, WarmedBehind
  <2>4. node \in [Nodes -> {"none", "built", "ready", "gone"}]
    BY DEF TypeInv, TypeOK
  <2> QED
    BY <2>1, <2>3, <2>4
<1> QED
  BY <1>5, <1>6, <1>7, <1>8 DEF CareInv, ClearsPresent, LoopsUp, ReadyQuiet, EndsQuiet,
     GoneQuiet, DeletedQuiet, Endings

\* A turn of start() or of stop(), while no deletion clears nodes.
LEMMA TurnCare ==
  ASSUME WarmInv, TypeInv, PlaceInv, BusyInv, "delete" \in exclusive, CareInv,
         NEW c \in Clients, StartNode(c) \/ StopNode(c)
  PROVE  CareInv'
<1>1. ~Idle(c) /\ pc[c] \in {"start", "stop"} /\ pc[c] # "check"
  BY DEF StartNode, StopNode, At
<1>2. Up
  BY <1>1 DEF CareInv, LoopsUp
<1>3. \A d \in Clients : pc[d] \notin Endings
  <2> SUFFICES ASSUME NEW d \in Clients, pc[d] \in Endings PROVE FALSE
    OBVIOUS
  <2>1. d # c
    BY <1>1 DEF Endings
  <2> QED
    BY <1>1, <2>1, AtEnding
<1>4. registered' = registered /\ registered /\ node' = node
  BY <1>1, <1>2, StillThere DEF StartNode, StopNode, Up
<1>5. \A n \in Nodes : node'[n] = "ready"
  BY <1>2, <1>3, <1>4 DEF CareInv, UpIsWhole, Clearing, Endings
<1>6. pstatus' = pstatus \/ pstatus' \in {"READY", "RUNNING"}
  BY DEF StartNode, StopNode, StatusStarting
<1>7. Up'
  BY <1>2, <1>6 DEF Up
<1>8. /\ pc'[c] \in {pc[c], "check", "destroying"}
      /\ \A d \in Clients : d # c => pc'[d] = pc[d]
  <2>1. \/ Go(c, pc[c], Tail(todo[c])) \/ Leave(c, Tail(plan[c]))
        \/ Go(c, "destroying", <<>>)
    BY DEF StartNode, StopNode, Advance, Return
  <2> QED
    BY <2>1, GoMoves, LeaveMoves
<1>9. \A d \in Clients : pc'[d] # "clear"
  BY <1>1, <1>3, <1>8 DEF Endings
<1>10. ReadyQuiet' /\ EndsQuiet'
  <2>1. CASE StartNode(c) /\ ~LastOf(c)
    <3>1. pc'[c] = "start"
      BY <2>1, GoMoves DEF StartNode, Advance, At
    <3> QED
      BY <1>3, <1>8, <3>1 DEF ReadyQuiet, Starting, EndsQuiet, Endings
  <2>2. CASE StartNode(c) /\ LastOf(c)
    <3>1. pc'[c] = "check" /\ pstatus' = "RUNNING"
      BY <2>2, LeaveMoves DEF StartNode, Return, StatusStarting
    <3> QED
      BY <1>3, <1>8, <3>1 DEF ReadyQuiet, EndsQuiet, Endings
  <2>3. CASE StopNode(c) /\ ~LastOf(c)
    <3>1. pc[c] = "stop" /\ pc'[c] = "stop" /\ pstatus' = pstatus
      BY <2>3, GoMoves DEF StopNode, Advance, At
    <3>2. Starting => Starting'
      BY <1>8, <3>1 DEF Starting
    <3>3. Quiet => Quiet'
      BY <2>3 DEF StopNode, Quiet, TypeInv, TypeOK
    <3>4. EndsQuiet'
      BY <1>3, <1>8, <3>1 DEF EndsQuiet, Endings
    <3> QED
      BY <3>1, <3>2, <3>3, <3>4 DEF CareInv, ReadyQuiet
  <2>4. CASE StopNode(c) /\ LastOf(c)
    <3>1. pstatus' = "READY" /\ Quiet'
      BY <2>4, StopNodePlaced DEF StopNode
    <3> QED
      BY <3>1 DEF ReadyQuiet, EndsQuiet
  <2> QED
    BY <2>1, <2>2, <2>3, <2>4
<1>11. GoneQuiet'
  BY <1>7 DEF GoneQuiet, Up
<1> QED
  BY <1>4, <1>5, <1>7, <1>9, <1>10, <1>11 DEF CareInv, UpIsWhole, ClearsPresent, LoopsUp,
     DeletedQuiet

\* destroy() begins with nothing at work, and of a pipeline that is READY it
\* clears every node, once.
LEMMA WholeClearLoop ==
  ASSUME TypeInv, Configured, \A n \in Nodes : node[n] = "ready"
  PROVE  IsInjective(ClearLoop) /\ Range(ClearLoop) \subseteq Nodes
<1>1. /\ Len(Order) \in Nat /\ DOMAIN Order = 1..Len(Order)
      /\ \A i \in 1..Len(Order) : Order[i] \in Nodes
  BY OrderTyped
<1>2. Built \in 1..Len(Order)
  BY BuiltInOrder
<1> DEFINE built == Built
<1> HIDE DEF built
<1>3. built \in 1..Len(Order) /\ built \in Nat
  BY <1>1, <1>2 DEF built
<1>4. \A i \in 1..built : built + 1 - i \in 1..Len(Order)
  BY <1>1, <1>3
<1>5. IsInjective(Order)
  BY ManagerAssumption
<1> DEFINE loop == [i \in 1..built |-> Order[built + 1 - i]]
<1>6. ASSUME NEW i \in 1..built, NEW j \in 1..built, loop[i] = loop[j] PROVE i = j
  <2>1. Order[built + 1 - i] = Order[built + 1 - j]
    BY <1>6
  <2>2. built + 1 - i = built + 1 - j
    BY <2>1, <1>1, <1>4, <1>5 DEF IsInjective
  <2> QED
    BY <2>2, <1>3
<1>7. IsInjective(loop)
  BY <1>6 DEF IsInjective
<1>8. Range(loop) \subseteq Nodes
  BY <1>1, <1>4 DEF Range
<1> QED
  BY <1>7, <1>8 DEF ClearLoop, built

LEMMA DestroyCare ==
  ASSUME WarmInv, TypeInv, BusyInv, "delete" \in exclusive, CareInv,
         NEW c \in Clients, Destroy(c)
  PROVE  CareInv'
<1>1. pc[c] = "destroying" /\ UNCHANGED pipeline
  BY DEF Destroy, At
<1>2. pstatus # "RUNNING" /\ Quiet /\ (registered \/ pstatus = "none")
  BY <1>1, StillThere DEF CareInv, EndsQuiet, Endings
<1>3. CASE ~Configured
  <2>1. Go(c, "remove", <<>>) /\ "remove" \in Labels \ {"clear"}
    BY <1>3 DEF Destroy, Labels
  <2> QED
    BY <1>1, <1>2, <2>1, GoCare
<1>4. CASE Configured
  <2>1. Go(c, "clear", ClearLoop)
    BY <1>4 DEF Destroy, ClearLoop
  <2>2. /\ pc'[c] = "clear" /\ todo'[c] = ClearLoop
        /\ \A d \in Clients : d # c => pc'[d] = pc[d] /\ todo'[d] = todo[d]
    BY <2>1, GoMoves
  <2>3. ASSUME Up
        PROVE  IsInjective(ClearLoop) /\ \A n \in Range(ClearLoop) : node[n] = "ready"
    <3>1. ~Clearing
      BY <1>1, AtEnding DEF Clearing, Endings
    <3>2. \A n \in Nodes : node[n] = "ready"
      BY <2>3, <3>1 DEF CareInv, UpIsWhole
    <3> QED
      BY <1>4, <3>2, WholeClearLoop
  <2> QED
    BY <1>1, <1>2, <2>2, <2>3, PlainCare DEF Endings
<1> QED
  BY <1>3, <1>4

LEMMA TailInjective ==
  ASSUME NEW S, NEW s \in Seq(S), s # <<>>, IsInjective(s)
  PROVE  IsInjective(Tail(s)) /\ Head(s) \notin Range(Tail(s))
<1>1. Len(s) \in Nat \ {0} /\ DOMAIN s = 1..Len(s) /\ Head(s) = s[1]
  OBVIOUS
<1>2. DOMAIN Tail(s) = 1..(Len(s) - 1)
  BY <1>1
<1>3. \A i \in 1..(Len(s) - 1) : Tail(s)[i] = s[i + 1]
  BY <1>1
<1>4. \A i \in 1..(Len(s) - 1) : i + 1 \in 1..Len(s) /\ i + 1 # 1
  BY <1>1
<1>5. ASSUME NEW i \in 1..(Len(s) - 1), NEW j \in 1..(Len(s) - 1),
             Tail(s)[i] = Tail(s)[j]
      PROVE  i = j
  <2>1. s[i + 1] = s[j + 1]
    BY <1>3, <1>5
  <2>2. i + 1 = j + 1
    BY <1>1, <1>4, <2>1 DEF IsInjective
  <2> QED
    BY <2>2
<1>6. IsInjective(Tail(s))
  BY <1>2, <1>5 DEF IsInjective
<1>7. ASSUME NEW i \in 1..(Len(s) - 1), Tail(s)[i] = s[1] PROVE FALSE
  <2>1. s[i + 1] = s[1] /\ 1 \in DOMAIN s
    BY <1>1, <1>3, <1>7
  <2> QED
    BY <1>1, <1>4, <2>1 DEF IsInjective
<1>8. Head(s) \notin Range(Tail(s))
  BY <1>1, <1>2, <1>7 DEF Range
<1> QED
  BY <1>6, <1>8

LEMMA ClearCare ==
  ASSUME WarmInv, TypeInv, BusyInv, "delete" \in exclusive, CareInv,
         NEW c \in Clients, Clear(c)
  PROVE  CareInv'
<1>1. pc[c] = "clear" /\ pc[c] \in Loops /\ pc[c] \in Endings
  BY DEF Clear, At, Loops, Endings
<1>2. \A d \in Clients : d # c => pc[d] = "check"
  BY <1>1, AtEnding
<1>3. pstatus # "RUNNING" /\ Quiet /\ (registered \/ pstatus = "none")
  BY <1>1, StillThere DEF CareInv, EndsQuiet
<1>4. Quiet' /\ registered' = registered
  BY <1>3 DEF Clear, Quiet
<1>5. CASE LastOf(c)
  <2>1. pstatus' = "DESTROYED" /\ Go(c, "remove", <<>>)
    BY <1>5 DEF Clear
  <2>2. pc'[c] = "remove" /\ \A d \in Clients : d # c => pc'[d] = "check"
    BY <1>2, <2>1, GoMoves
  <2>3. registered
    <3>1. ~Idle(c)
      BY DEF Clear, At
    <3> QED
      BY <1>3, <3>1 DEF WarmInv, NoneIsIdle
  <2>4. UpIsWhole' /\ ClearsPresent' /\ ReadyQuiet'
    BY <2>1 DEF UpIsWhole, ClearsPresent, ReadyQuiet, Up
  <2>5. LoopsUp'
    BY <2>2 DEF LoopsUp
  <2>6. EndsQuiet' /\ GoneQuiet'
    BY <1>4, <2>1 DEF EndsQuiet, GoneQuiet
  <2>7. DeletedQuiet'
    BY <1>4, <2>3 DEF DeletedQuiet
  <2> QED
    BY <2>4, <2>5, <2>6, <2>7 DEF CareInv
<1>6. CASE ~LastOf(c)
  <2>1. pstatus' = pstatus /\ Go(c, "clear", Tail(todo[c]))
    BY <1>1, <1>6 DEF Clear, Advance
  <2>2. /\ pc'[c] = "clear" /\ todo'[c] = Tail(todo[c])
        /\ \A d \in Clients : d # c => pc'[d] = "check"
    BY <1>2, <2>1, GoMoves
  <2>3. UpIsWhole'
    BY <2>2 DEF UpIsWhole, Clearing
  <2>4. ASSUME Up
        PROVE  /\ IsInjective(Tail(todo[c]))
               /\ \A n \in Range(Tail(todo[c])) : node'[n] = "ready"
    <3>1. IsInjective(todo[c]) /\ \A n \in Range(todo[c]) : node[n] = "ready"
      BY <1>1, <2>4 DEF CareInv, ClearsPresent
    <3>2. /\ todo[c] \in Seq(Nodes) /\ todo[c] # <<>>
          /\ Range(todo[c]) = {Head(todo[c])} \cup Range(Tail(todo[c]))
      BY <1>1, AtLoop
    <3>3. IsInjective(Tail(todo[c])) /\ Head(todo[c]) \notin Range(Tail(todo[c]))
      BY <3>1, <3>2, TailInjective
    <3>4. ASSUME NEW n \in Range(Tail(todo[c])) PROVE node'[n] = "ready"
      <4>1. node' = [node EXCEPT ![Head(todo[c])] = "gone"]
        BY DEF Clear
      <4>2. node'[n] = node[n]
        BY <4>1, <3>3
      <4> QED
        BY <3>1, <3>2, <4>2
    <3> QED
      BY <3>3, <3>4
  <2>5. ClearsPresent'
    BY <2>1, <2>2, <2>4 DEF ClearsPresent, Up
  <2>6. LoopsUp'
    BY <2>2 DEF LoopsUp
  <2>7. ReadyQuiet' /\ EndsQuiet' /\ GoneQuiet'
    BY <1>3, <1>4, <2>1 DEF ReadyQuiet, EndsQuiet, GoneQuiet
  <2>8. DeletedQuiet'
    BY <1>3, <1>4, <2>1 DEF DeletedQuiet
  <2> QED
    BY <2>3, <2>5, <2>6, <2>7, <2>8 DEF CareInv
<1> QED
  BY <1>5, <1>6

LEMMA UnregisterCare ==
  ASSUME WarmInv, TypeInv, BusyInv, "delete" \in exclusive, CareInv,
         NEW c \in Clients, Unregister(c)
  PROVE  CareInv'
<1>1. pc[c] = "remove" /\ pc[c] \in Endings
  BY DEF Unregister, At, Endings
<1>2. CASE ~registered
  BY <1>1, <1>2, RaiseCare DEF Unregister
<1>3. CASE registered
  <2>1. Leave(c, Tail(plan[c])) /\ UNCHANGED <<pstatus, node, cleared, threads, links>>
    BY <1>3 DEF Unregister, Return
  <2>2. \A d \in Clients : pc'[d] = "check"
    BY <1>1, <2>1, AtEnding, LeaveMoves
  <2>3. Quiet' /\ pstatus' # "RUNNING"
    BY <1>1, <2>1 DEF CareInv, EndsQuiet, Quiet
  <2>4. UpIsWhole'
    <3>1. ~Clearing
      BY <1>1, AtEnding DEF Clearing
    <3> QED
      BY <2>1, <3>1 DEF CareInv, UpIsWhole, Up
  <2>5. ClearsPresent' /\ LoopsUp' /\ EndsQuiet'
    BY <2>2 DEF ClearsPresent, LoopsUp, EndsQuiet, Endings
  <2>6. ReadyQuiet' /\ GoneQuiet' /\ DeletedQuiet'
    BY <2>2, <2>3 DEF ReadyQuiet, GoneQuiet, DeletedQuiet
  <2> QED
    BY <2>4, <2>5, <2>6 DEF CareInv
<1> QED
  BY <1>2, <1>3

\* Threads that end, and steps that change nothing.
LEMMA EndsCare ==
  ASSUME CareInv, UNCHANGED <<registered, pstatus, node, pc, todo>>, Quiet => Quiet'
  PROVE  CareInv'
<1>1. UpIsWhole' /\ ClearsPresent' /\ LoopsUp'
  BY DEF CareInv, UpIsWhole, ClearsPresent, LoopsUp, Up, Clearing
<1>2. ReadyQuiet' /\ EndsQuiet' /\ GoneQuiet'
  BY DEF CareInv, ReadyQuiet, EndsQuiet, GoneQuiet, Starting
<1>3. DeletedQuiet'
  BY DEF CareInv, DeletedQuiet
<1> QED
  BY <1>1, <1>2, <1>3 DEF CareInv

ManagerInv == WarmInv /\ TypeInv /\ PlaceInv /\ BusyInv /\ NodesInv
Careful == "delete" \in exclusive => CareInv

LEMMA CarefulStep ==
  ASSUME "start" \notin MayFail, ManagerInv, Careful, [Next]_vars
  PROVE  Careful'
<1>1. exclusive' = exclusive
  <2>1. ASSUME NEW c \in Clients, ClientStep(c) PROVE exclusive' = exclusive
    BY <2>1 DEF ClientStep, Create, Begin, Check, CallWarmup, CallStart, CallDelete,
       CallStop, CallStopRaise, Fail, Build, Warm, StartNode, StopNode, NodeMissing,
       Destroy, Clear, Unregister, Raise, Return, Advance, Go, Leave
  <2> QED
    BY <2>1 DEF Next, Ends, vars
<1> SUFFICES ASSUME "delete" \in exclusive, CareInv PROVE CareInv'
  BY <1>1 DEF Careful
<1> USE DEF ManagerInv
<1>2. ASSUME NEW c \in Clients, ClientStep(c) PROVE CareInv'
  <2>1. CASE \E step \in {"build", "warm", "start"} : Fail(c, step)
    <3>1. \E step \in {"build", "warm"} : Fail(c, step)
      BY <2>1 DEF Fail
    <3> QED
      BY <3>1, MissingCare
  <2>2. CASE Create(c) \/ \E op \in Ops : Begin(c, op)
    BY <2>2, CreateCare, BeginCare
  <2>3. CASE \/ Check(c) \/ CallWarmup(c) \/ CallStart(c) \/ CallDelete(c)
             \/ CallStop(c) \/ CallStopRaise(c)
    BY <2>3, CallCare
  <2>4. CASE Build(c) \/ Warm(c)
    BY <2>4, WarmupCare
  <2>5. CASE StartNode(c) \/ StopNode(c)
    BY <2>5, TurnCare
  <2>6. CASE NodeMissing(c)
    BY <2>6, MissingCare
  <2>7. CASE Destroy(c) \/ Clear(c) \/ Unregister(c)
    BY <2>7, DestroyCare, ClearCare, UnregisterCare
  <2> QED
    BY <1>2, <2>1, <2>2, <2>3, <2>4, <2>5, <2>6, <2>7 DEF ClientStep
<1>3. ASSUME NEW n \in Nodes, Ends(n) PROVE CareInv'
  <2>1. Quiet => Quiet'
    BY <1>3 DEF Ends, Quiet
  <2> QED
    BY <1>3, <2>1, EndsCare DEF Ends
<1>4. CASE UNCHANGED vars
  BY <1>4, EndsCare DEF vars, Quiet
<1> QED
  BY <1>2, <1>3, <1>4 DEF Next

LEMMA ManagerInvInit == Init => ManagerInv /\ Careful
<1> SUFFICES ASSUME Init PROVE ManagerInv /\ Careful
  OBVIOUS
<1>1. \A c \in Clients : pc[c] = "check" /\ Idle(c) /\ plan[c] = <<>>
  BY DEF Init, Idle
<1>2. pstatus = "none" /\ ~cleared
  BY DEF Init
<1>3. BusyInv
  BY <1>1, EmptyPlan DEF BusyInv, Busy, DeletesAlone, Deletes
<1>4. NodesInv
  BY <1>1, <1>2 DEF NodesInv, ClearedIsGone, WarmedBehind
<1>5. CareInv
  BY <1>1, <1>2 DEF CareInv, UpIsWhole, ClearsPresent, LoopsUp, ReadyQuiet, EndsQuiet,
     GoneQuiet, DeletedQuiet, Up, Endings
<1> QED
  BY <1>3, <1>4, <1>5, WarmInvInit, TypeInvInit, PlaceInit DEF ManagerInv, Careful

LEMMA ManagerInvStep == ManagerInv /\ [Next]_vars => ManagerInv'
  BY WarmInvStep, TypeInvStep, PlaceStep, BusyStep, NodesStep DEF ManagerInv

\* When clients let nothing overlap with a deletion and no node raises in its
\* start(), a pipeline that is READY with no start() or stop() under way has no
\* node at work, however many starts and stops overlapped before: the last of
\* them to end sets the status that fits what the nodes are at.
THEOREM ReadyPipelinesAreQuiet ==
  ASSUME "start" \notin MayFail PROVE Spec => []ReadyIsQuiet
<1>1. ManagerInv /\ Careful /\ [Next]_vars => (ManagerInv /\ Careful)'
  BY ManagerInvStep, CarefulStep
<1>2. ManagerInv /\ Careful => ReadyIsQuiet
  BY DEF Careful, CareInv, ReadyQuiet, ReadyIsQuiet, Starting
<1> QED
  BY <1>1, <1>2, ManagerInvInit, PTL DEF Spec

\* Nor has one that such clients have deleted.
THEOREM DeletedPipelinesAreQuiet ==
  ASSUME "start" \notin MayFail PROVE Spec => []DeletedIsQuiet
<1>1. ManagerInv /\ Careful /\ [Next]_vars => (ManagerInv /\ Careful)'
  BY ManagerInvStep, CarefulStep
<1>2. ManagerInv /\ Careful => DeletedIsQuiet
  BY DEF Careful, CareInv, DeletedQuiet, DeletedIsQuiet
<1> QED
  BY <1>1, <1>2, ManagerInvInit, PTL DEF Spec
=============================================================================
