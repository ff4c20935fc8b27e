---------------------------- MODULE BuiltinProofs ----------------------------
(***************************************************************************)
(* What the helpers of built-in nodes come to, for any kinds, any number   *)
(* of starts, processes, connections, events and requests: that a process  *)
(* is never started beside another, that a live one is read, that stop()   *)
(* ends the helpers, and that json_websocket passes a message on once.     *)
(***************************************************************************)
EXTENDS Builtins, FiniteSetTheorems, TLAPS

Everyone == Callers \cup Monitors

\* The labels on the way through start(), stop() and destroy(), and of the
\* monitors of audio_rtp.
OnStart == {"clear_request", "test", "popen", "mark", "source", "base_start",
            "start_demuxer", "start_server", "start_observer"}
OnStop == {"request", "poll", "await", "write_q", "pause", "reap",
           "end_demuxer", "join_demuxer", "shutdown", "shut_test", "shut_wait",
           "shut_over", "base_stop", "base_join", "stop_observer", "join_observer"}
OnDestroy == OnStop \cup {"clear_source", "join_monitor", "join_sender", "return"}
OnWatch == {"idle", "wait", "clear", "check", "sleep", "test", "popen", "mark",
            "source"}
Labels == OnStart \cup OnDestroy \cup OnWatch \cup {"join"}

Audio == {"audio_rtp"}
Others == FfmpegKinds \ Audio

-----------------------------------------------------------------------------
(***************************************************************************)
(* Types. What the threads of module Builtin share, and where each is.     *)
(***************************************************************************)
NodeTyped ==
  /\ status \in {"CONFIGURED", "RUNNING", "STOPPED"}
  /\ handles \in BOOLEAN /\ stopped \in BOOLEAN
  /\ draining \in BOOLEAN /\ updating \in BOOLEAN

CallsTyped ==
  /\ kind \in Kinds
  /\ pstatus \in {"READY", "RUNNING", "DESTROYED"}
  /\ starts \in 0..MaxStarts /\ hasty \in BOOLEAN /\ stopSent \in BOOLEAN
  /\ op \in [Callers -> {"none", "start", "stop", "destroy"}]
  /\ pc \in [Everyone -> Labels]

\* An event is in one place: with the handler, in a queue, or passed on.
EventsCounted ==
  /\ buffered \in Nat /\ loaded \in Nat
  /\ queue + buffered + loaded + (IF observer = "putting" THEN 1 ELSE 0) <= events

TypeInv ==
  /\ NodeTyped /\ CallsTyped
  /\ FfmpegTypeOK /\ DemuxTypeOK
  /\ WatchTypeOK /\ EventsCounted
  /\ ServerTypeOK /\ SinkTypeOK

LEMMA TypesSuffice == TypeInv => TypeOK
  BY DEF TypeInv, TypeOK, LifeTypeOK, NodeTyped, CallsTyped

LEMMA BuiltinFacts ==
  /\ User \in Callers /\ Control \in Callers /\ User # Control
  /\ \A t \in Callers : t = User \/ t = Control
  /\ Callers \subseteq Everyone /\ Monitors \subseteq Everyone
  /\ \A k \in Procs : Monitor(k) \in Monitors
  /\ \A m \in Monitors : \E k \in Procs : m = Monitor(k)
  /\ \A t \in Callers : t \notin Monitors
  /\ \A j, k \in Procs : Monitor(j) = Monitor(k) => j = k
  BY DEF User, Control, Callers, Everyone, Monitors, Monitor, Procs

LEMMA GotoType ==
  ASSUME TypeInv, NEW t \in Everyone, NEW l \in Labels, Goto(t, l)
  PROVE  NodeTyped' /\ CallsTyped'
<1>1. pc' \in [Everyone -> Labels]
  BY DEF Goto, TypeInv, CallsTyped
<1> QED
  BY <1>1 DEF Goto, Stays, nodeState, pipeState, TypeInv, NodeTyped, CallsTyped

LEMMA EnterType ==
  ASSUME TypeInv, NEW t \in Callers, NEW l \in Labels,
         NEW call \in {"none", "start", "stop", "destroy"}, Enter(t, call, l)
  PROVE  /\ pc' \in [Everyone -> Labels]
         /\ op' \in [Callers -> {"none", "start", "stop", "destroy"}]
  BY BuiltinFacts DEF Enter, TypeInv, CallsTyped

\* Return() is for a thread that is in a call.
LEMMA ReturnType ==
  ASSUME TypeInv, NEW t \in Callers, op[t] # "none", Return(t)
  PROVE  CallsTyped'
<1>1. pc' \in [Everyone -> Labels]
  BY BuiltinFacts DEF Return, TypeInv, CallsTyped, Labels, OnWatch
<1>2. op' \in [Callers -> {"none", "start", "stop", "destroy"}]
  BY DEF Return, TypeInv, CallsTyped
<1>3. op[t] \in {"start", "stop", "destroy"}
  BY DEF TypeInv, CallsTyped
<1>4. pstatus' \in {"READY", "RUNNING", "DESTROYED"}
  BY <1>3 DEF Return, TypeInv, CallsTyped
<1> QED
  BY <1>1, <1>2, <1>4 DEF Return, TypeInv, CallsTyped

LEMMA RaiseType ==
  ASSUME TypeInv, NEW t \in Callers, Raise(t), UNCHANGED nodeState
  PROVE  NodeTyped' /\ CallsTyped'
<1>1. "idle" \in Labels
  BY DEF Labels, OnWatch
<1>2. /\ pc' \in [Everyone -> Labels]
      /\ op' \in [Callers -> {"none", "start", "stop", "destroy"}]
  BY <1>1, EnterType DEF Raise
<1> QED
  BY <1>2 DEF Raise, pipeState, nodeState, TypeInv, NodeTyped, CallsTyped

\* Where the methods of the node begin.
LEMMA WaysIn ==
  /\ StartAt \in OnStart /\ StopAt \in OnStop /\ DestroyAt \in OnDestroy
  /\ OnStart \subseteq Labels /\ OnStop \subseteq Labels
  /\ OnDestroy \subseteq Labels /\ OnWatch \subseteq Labels
<1>1. StartAt \in OnStart
  BY DEF StartAt, OnStart
<1>2. StopAt \in OnStop
  BY DEF StopAt, OnStop
<1>3. DestroyAt \in OnDestroy
  BY <1>2 DEF DestroyAt, OnDestroy
<1> QED
  BY <1>1, <1>2, <1>3 DEF Labels, OnDestroy

\* Where thread t may be in a call, and with a node of which kind.
Fits(t, call, l) ==
  /\ call = "none" <=> l = "idle"
  /\ call = "start" <=> l \in OnStart
  /\ call = "stop" => l \in IF t = User THEN {"join"} ELSE OnStop
  /\ call = "destroy" => l \in OnDestroy
  /\ t = Control => call \in {"none", "stop"}

RightKind(l) ==
  /\ l \in {"clear_request", "test", "mark", "request", "poll", "await",
            "clear_source", "join_monitor"} => Is(Audio)
  /\ l \in {"popen", "source"} => Is(FfmpegKinds)
  /\ l = "write_q" => Is(Others)
  /\ l \in {"pause", "reap"} => Is({"video_rtp"})
  /\ l \in {"start_demuxer", "end_demuxer", "join_demuxer"} => Is(DemuxKinds)
  /\ l \in {"start_server", "shutdown"} => Is(ServerKinds)
  /\ l \in {"shut_test", "shut_wait", "shut_over"} => Is({"json_http"})
  /\ l \in {"start_observer", "stop_observer", "join_observer"} => Is(WatchKinds)
  /\ l = "join_sender" => Is(SinkKinds)

Ways ==
  /\ \A t \in Callers : Fits(t, op[t], pc[t]) /\ RightKind(pc[t])
  /\ \A m \in Monitors : pc[m] \in OnWatch /\ (pc[m] # "idle" => Is(Audio))

\* A caller that is somewhere is in a call.
InCall == \A t \in Callers : op[t] = "none" <=> pc[t] = "idle"

LEMMA UserTypes ==
  ASSUME BuiltinAssumption, TypeInv, UserStep
  PROVE  NodeTyped' /\ CallsTyped'
<1>1. CASE Start
  <2>1. Enter(User, "start", StartAt) /\ StartAt \in Labels
    BY <1>1, WaysIn DEF Start
  <2>2. /\ pc' \in [Everyone -> Labels]
        /\ op' \in [Callers -> {"none", "start", "stop", "destroy"}]
    BY <2>1, EnterType, BuiltinFacts
  <2>3. starts' \in 0..MaxStarts /\ hasty' \in BOOLEAN
    BY <1>1 DEF Start, BuiltinAssumption, TypeInv, CallsTyped
  <2> QED
    BY <1>1, <2>2, <2>3 DEF Start, nodeState, TypeInv, NodeTyped, CallsTyped
<1>2. CASE Stop
  <2>1. Enter(User, "stop", "join") /\ "join" \in Labels
    BY <1>2 DEF Stop, Labels
  <2>2. /\ pc' \in [Everyone -> Labels]
        /\ op' \in [Callers -> {"none", "start", "stop", "destroy"}]
    BY <2>1, EnterType, BuiltinFacts
  <2>3. stopSent' \in BOOLEAN
    BY <1>2 DEF Stop, TypeInv, NodeTyped, CallsTyped
  <2> QED
    BY <1>2, <2>2, <2>3 DEF Stop, nodeState, TypeInv, NodeTyped, CallsTyped
<1>3. CASE Destroy
  <2>1. Enter(User, "destroy", DestroyAt) /\ DestroyAt \in Labels
    BY <1>3, WaysIn DEF Destroy
  <2>2. /\ pc' \in [Everyone -> Labels]
        /\ op' \in [Callers -> {"none", "start", "stop", "destroy"}]
    BY <2>1, EnterType, BuiltinFacts
  <2> QED
    BY <1>3, <2>2 DEF Destroy, nodeState, pipeState, TypeInv, NodeTyped, CallsTyped
<1> QED
  BY <1>1, <1>2, <1>3 DEF UserStep

LEMMA BaseTypes ==
  ASSUME TypeInv, InCall, BaseStep
  PROVE  NodeTyped' /\ CallsTyped'
<1>1. CASE StopJoined \/ EmptyDestroy
  <2>1. op[User] # "none"
    BY <1>1, BuiltinFacts DEF StopJoined, EmptyDestroy, At, InCall
  <2>2. CallsTyped'
    BY <1>1, <2>1, ReturnType, BuiltinFacts DEF StopJoined, EmptyDestroy
  <2> QED
    BY <1>1, <2>2 DEF StopJoined, EmptyDestroy, nodeState, TypeInv, NodeTyped
<1>2. CASE StopTaken
  <2>1. Enter(Control, "stop", StopAt) /\ StopAt \in Labels
    BY <1>2, WaysIn DEF StopTaken
  <2>2. /\ pc' \in [Everyone -> Labels]
        /\ op' \in [Callers -> {"none", "start", "stop", "destroy"}]
    BY <2>1, EnterType, BuiltinFacts
  <2> QED
    BY <1>2, <2>2 DEF StopTaken, TypeInv, NodeTyped, CallsTyped
<1>3. ASSUME NEW t \in Callers, BaseStart(t) PROVE NodeTyped' /\ CallsTyped'
  <2>1. op[t] # "none"
    BY <1>3 DEF BaseStart, At, InCall
  <2>2. CallsTyped'
    <3>1. CASE Is(WatchKinds)
      <4>1. pc' = [pc EXCEPT ![t] = "start_observer"] /\ UNCHANGED <<pipeState, op>>
        BY <1>3, <3>1 DEF BaseStart, LeaveStart
      <4>2. pc' \in [Everyone -> Labels]
        BY <4>1 DEF TypeInv, CallsTyped, Labels, OnStart
      <4> QED BY <4>1, <4>2 DEF pipeState, TypeInv, CallsTyped
    <3>2. CASE ~Is(WatchKinds)
      BY <1>3, <2>1, <3>2, ReturnType DEF BaseStart, LeaveStart
    <3> QED BY <3>1, <3>2
  <2>3. NodeTyped'
    BY <1>3 DEF BaseStart, TypeInv, NodeTyped
  <2> QED BY <2>2, <2>3
<1>4. ASSUME NEW t \in Callers, op[t] # "none", LeaveStop(t) PROVE CallsTyped'
  <2>1. CASE AfterStop(t) = "end"
    BY <1>4, <2>1, ReturnType DEF LeaveStop
  <2>2. CASE AfterStop(t) # "end"
    <3>1. AfterStop(t) \in Labels
      BY <2>2 DEF AfterStop, Labels, OnDestroy, OnStop
    <3>2. pc' = [pc EXCEPT ![t] = AfterStop(t)] /\ UNCHANGED <<pipeState, op>>
      BY <1>4, <2>2 DEF LeaveStop
    <3>3. pc' \in [Everyone -> Labels]
      BY <3>1, <3>2 DEF TypeInv, CallsTyped
    <3> QED BY <3>2, <3>3 DEF pipeState, TypeInv, CallsTyped
  <2> QED BY <2>1, <2>2
<1>5. ASSUME NEW t \in Callers, BaseStop(t) PROVE NodeTyped' /\ CallsTyped'
  <2>1. op[t] # "none"
    BY <1>5 DEF BaseStop, At, InCall
  <2>2. CallsTyped'
    <3>1. CASE status = "STOPPED"
      BY <1>4, <1>5, <2>1, <3>1 DEF BaseStop
    <3>2. CASE status # "STOPPED"
      <4>1. pc' = [pc EXCEPT ![t] = "base_join"] /\ UNCHANGED <<pipeState, op>>
        BY <1>5, <3>2 DEF BaseStop
      <4>2. pc' \in [Everyone -> Labels]
        BY <4>1 DEF TypeInv, CallsTyped, Labels, OnStop, OnDestroy
      <4> QED BY <4>1, <4>2 DEF pipeState, TypeInv, CallsTyped
    <3> QED BY <3>1, <3>2
  <2>3. NodeTyped'
    BY <1>5 DEF BaseStop, TypeInv, NodeTyped
  <2> QED BY <2>2, <2>3
<1>6. ASSUME NEW t \in Callers, BaseJoined(t) PROVE NodeTyped' /\ CallsTyped'
  <2>1. op[t] # "none"
    BY <1>6 DEF BaseJoined, At, InCall
  <2>2. CallsTyped'
    BY <1>4, <1>6, <2>1 DEF BaseJoined
  <2>3. NodeTyped'
    BY <1>6 DEF BaseJoined, TypeInv, NodeTyped
  <2> QED BY <2>2, <2>3
<1> QED
  BY <1>1, <1>2, <1>3, <1>5, <1>6 DEF BaseStep
-----------------------------------------------------------------------------
LEMMA SpawnOverType ==
  ASSUME BuiltinAssumption, TypeInv, NEW t \in Everyone, SpawnOver(t)
  PROVE  NodeTyped' /\ CallsTyped' /\ lock' \in 0..MaxProcs
<1>1. \E l \in Labels : Goto(t, l)
  BY DEF SpawnOver, Labels, OnStart, OnWatch
<1>2. lock' \in 0..MaxProcs
  BY DEF SpawnOver, TypeInv, FfmpegTypeOK, BuiltinAssumption
<1> QED
  BY <1>1, <1>2, GotoType

LEMMA SpawnTypes ==
  ASSUME BuiltinAssumption, TypeInv, NEW t \in Everyone, Spawn(t)
  PROVE  NodeTyped' /\ CallsTyped' /\ FfmpegTypeOK'
<1>0. {"popen", "mark", "base_start", "source"} \subseteq Labels
  BY DEF Labels, OnStart, OnWatch
<1>1. CASE SpawnTest(t)
  <2>1. CASE running
    BY <1>1, <2>1, SpawnOverType DEF SpawnTest, TypeInv, FfmpegTypeOK
  <2>2. CASE ~running
    <3>1. Goto(t, "popen")
      BY <1>1, <2>2 DEF SpawnTest
    <3>2. NodeTyped' /\ CallsTyped'
      BY <1>0, <3>1, GotoType
    <3> QED
      BY <1>1, <2>2, <3>2 DEF SpawnTest, TypeInv, FfmpegTypeOK
  <2> QED BY <2>1, <2>2
<1>2. CASE SpawnPopen(t)
  <2>1. \E l \in Labels : Goto(t, l)
    BY <1>0, <1>2 DEF SpawnPopen
  <2>2. NodeTyped' /\ CallsTyped'
    BY <2>1, GotoType
  <2>3. PICK k \in Procs : /\ proc' = [proc EXCEPT ![k] = "alive"]
                           /\ current' = k
                           /\ late' = IF stopReq THEN late \cup {k} ELSE late
    BY <1>2 DEF SpawnPopen
  <2>4. /\ proc' \in [Procs -> {"none", "alive", "exited"}]
        /\ late' \subseteq Procs
    BY <2>3 DEF TypeInv, FfmpegTypeOK
  <2>5. current' \in 0..MaxProcs
    BY <2>3 DEF Procs, BuiltinAssumption
  <2> QED
    BY <1>2, <2>2, <2>4, <2>5 DEF SpawnPopen, TypeInv, FfmpegTypeOK
<1>3. CASE SpawnMark(t)
  <2>1. pc' \in [Everyone -> Labels]
    <3>1. pc' = [pc EXCEPT ![t] = "source", ![Monitor(current)] = "wait"]
      BY <1>3 DEF SpawnMark
    <3> QED
      BY <3>1 DEF TypeInv, CallsTyped, Labels, OnStart, OnWatch
  <2>2. NodeTyped' /\ CallsTyped'
    BY <1>3, <2>1 DEF SpawnMark, Stays, nodeState, pipeState, TypeInv, NodeTyped, CallsTyped
  <2> QED
    BY <1>3, <2>2 DEF SpawnMark, TypeInv, FfmpegTypeOK
<1>4. CASE SpawnSource(t)
  <2>1. NodeTyped' /\ CallsTyped' /\ lock' \in 0..MaxProcs
    BY <1>4, SpawnOverType DEF SpawnSource
  <2> QED
    BY <1>4, <2>1 DEF SpawnSource, TypeInv, FfmpegTypeOK
<1> QED
  BY <1>1, <1>2, <1>3, <1>4 DEF Spawn

LEMMA MonitorTypes ==
  ASSUME BuiltinAssumption, TypeInv, NEW k \in Procs, MonitorStep(k)
  PROVE  NodeTyped' /\ CallsTyped' /\ FfmpegTypeOK'
<1>0. /\ {"idle", "sleep", "test", "clear", "check"} \subseteq Labels
      /\ Monitor(k) \in Everyone /\ Monitor(k) # User
  BY BuiltinFacts DEF Labels, OnWatch
<1>1. CASE Spawn(Monitor(k))
  BY <1>0, <1>1, SpawnTypes
<1>2. CASE MonitorWake(k) \/ ClearSource(Monitor(k)) \/ MonitorCheck(k)
  <2>1. \E l \in Labels : Goto(Monitor(k), l)
    BY <1>0, <1>2 DEF MonitorWake, ClearSource, MonitorCheck
  <2>2. NodeTyped' /\ CallsTyped'
    BY <1>0, <2>1, GotoType
  <2> QED
    BY <1>2, <2>2 DEF MonitorWake, ClearSource, MonitorCheck, ffmpegVars,
       TypeInv, FfmpegTypeOK
<1>3. CASE MonitorRecheck(k)
  <2>1. \E l \in Labels : Goto(Monitor(k), l)
    BY <1>0, <1>3 DEF MonitorRecheck
  <2>2. NodeTyped' /\ CallsTyped'
    BY <1>0, <2>1, GotoType
  <2>3. lock' \in 0..MaxProcs
    BY <1>3 DEF MonitorRecheck, Procs, BuiltinAssumption
  <2> QED
    BY <1>3, <2>2, <2>3 DEF MonitorRecheck, TypeInv, FfmpegTypeOK
<1> QED
  BY <1>1, <1>2, <1>3 DEF MonitorStep

LEMMA LeaveTryType ==
  ASSUME TypeInv, NEW t \in Callers, op[t] # "none", LeaveTry(t)
  PROVE  NodeTyped' /\ CallsTyped'
<1>1. CASE Is({"videostream_ffmpeg"})
  BY <1>1, ReturnType DEF LeaveTry, nodeState, TypeInv, NodeTyped
<1>2. CASE ~Is({"videostream_ffmpeg"})
  <2>1. Goto(t, "base_stop") /\ "base_stop" \in Labels
    BY <1>2 DEF LeaveTry, Labels, OnDestroy, OnStop
  <2> QED BY <2>1, GotoType, BuiltinFacts
<1> QED
  BY <1>1, <1>2

LEMMA FfmpegCallTypes ==
  ASSUME BuiltinAssumption, TypeInv, InCall, NEW t \in Callers, FfmpegCall(t)
  PROVE  NodeTyped' /\ CallsTyped' /\ FfmpegTypeOK'
<1>0. /\ {"test", "poll", "base_stop", "await", "check", "pause", "reap"} \subseteq Labels
      /\ StopAt \in Labels /\ t \in Everyone
  BY BuiltinFacts, WaysIn DEF Labels, OnStart, OnDestroy, OnStop, OnWatch
<1>1. CASE Spawn(t)
  BY <1>0, <1>1, SpawnTypes
<1>2. CASE ClearRequest(t) \/ ClearSource(t) \/ StopRequest(t) \/ StopAwaited(t)
  <2>1. \E l \in Labels : Goto(t, l)
    BY <1>0, <1>2 DEF ClearRequest, ClearSource, StopRequest, StopAwaited
  <2>2. NodeTyped' /\ CallsTyped'
    BY <1>0, <2>1, GotoType
  <2> QED
    BY <1>2, <2>2 DEF ClearRequest, ClearSource, StopRequest, StopAwaited,
       ffmpegVars, TypeInv, FfmpegTypeOK
<1>3. CASE StopPoll(t)
  <2>1. \E l \in Labels : Goto(t, l)
    BY <1>0, <1>3 DEF StopPoll
  <2>2. NodeTyped' /\ CallsTyped'
    BY <1>0, <2>1, GotoType
  <2>3. target' \in [Callers -> 0..MaxProcs]
    BY <1>3 DEF StopPoll, TypeInv, FfmpegTypeOK
  <2> QED
    BY <1>3, <2>2, <2>3 DEF StopPoll, TypeInv, FfmpegTypeOK
<1>4. CASE MonitorJoined(t)
  <2>1. op[t] # "none"
    BY <1>4 DEF MonitorJoined, At, InCall
  <2>2. CallsTyped'
    BY <1>4, <2>1, ReturnType DEF MonitorJoined
  <2> QED
    BY <1>4, <2>2 DEF MonitorJoined, nodeState, ffmpegVars, TypeInv, NodeTyped, FfmpegTypeOK
<1>5. CASE StopWrite(t)
  <2>1. op[t] # "none"
    BY <1>5 DEF StopWrite, At, InCall
  <2>2. CASE WriteRaises
    BY <1>5, <2>1, <2>2, LeaveTryType DEF StopWrite, TypeInv, FfmpegTypeOK
  <2>3. CASE ~WriteRaises
    <3>1. Goto(t, "pause")
      BY <1>5, <2>3 DEF StopWrite
    <3>2. NodeTyped' /\ CallsTyped'
      BY <1>0, <3>1, GotoType
    <3>3. current \in Procs
      BY <2>3 DEF WriteRaises, Procs, TypeInv, FfmpegTypeOK, BuiltinAssumption
    <3> QED
      BY <1>5, <2>3, <3>2, <3>3 DEF StopWrite, TypeInv, FfmpegTypeOK
  <2> QED BY <2>2, <2>3
<1>6. CASE StopTerminate(t)
  <2>1. op[t] # "none"
    BY <1>6 DEF StopTerminate, At, InCall
  <2>2. CASE current = 0
    BY <1>6, <2>1, <2>2, LeaveTryType DEF StopTerminate, TypeInv, FfmpegTypeOK
  <2>3. CASE current # 0
    <3>1. Goto(t, "reap") /\ target' = [target EXCEPT ![t] = current]
      BY <1>6, <2>3 DEF StopTerminate
    <3>2. NodeTyped' /\ CallsTyped'
      BY <1>0, <3>1, GotoType
    <3>3. target' \in [Callers -> 0..MaxProcs]
      BY <3>1 DEF TypeInv, FfmpegTypeOK
    <3> QED
      BY <1>6, <3>2, <3>3 DEF StopTerminate, TypeInv, FfmpegTypeOK
  <2> QED BY <2>2, <2>3
<1>7. CASE StopReap(t)
  <2>1. op[t] # "none"
    BY <1>7 DEF StopReap, At, InCall
  <2>2. NodeTyped' /\ CallsTyped'
    BY <1>7, <2>1, LeaveTryType DEF StopReap
  <2>3. current' \in 0..MaxProcs
    BY <1>7 DEF StopReap, BuiltinAssumption
  <2> QED
    BY <1>7, <2>2, <2>3 DEF StopReap, TypeInv, FfmpegTypeOK
<1> QED
  BY <1>1, <1>2, <1>3, <1>4, <1>5, <1>6, <1>7 DEF FfmpegCall

LEMMA FfmpegTypes ==
  ASSUME BuiltinAssumption, TypeInv, InCall, FfmpegStep
  PROVE  NodeTyped' /\ CallsTyped' /\ FfmpegTypeOK'
<1>1. ASSUME NEW k \in Procs, Killed(k) \/ Crash(k)
      PROVE  NodeTyped' /\ CallsTyped' /\ FfmpegTypeOK'
  <2>1. Exit(k) /\ lost' \in {lost, lost \cup {k}}
    BY <1>1 DEF Killed, Crash
  <2>2. NodeTyped' /\ CallsTyped'
    BY <2>1 DEF Exit, Stays, nodeState, pipeState, TypeInv, NodeTyped, CallsTyped
  <2>3. proc' \in [Procs -> {"none", "alive", "exited"}] /\ lost' \subseteq Procs
    BY <2>1 DEF Exit, TypeInv, FfmpegTypeOK
  <2> QED
    BY <2>1, <2>2, <2>3 DEF Exit, TypeInv, FfmpegTypeOK
<1> QED
  BY <1>1, FfmpegCallTypes, MonitorTypes DEF FfmpegStep
-----------------------------------------------------------------------------
\* What is left of a sequence, and what comes behind it.
LEMMA SuffixType ==
  ASSUME NEW S, NEW s \in Seq(S), NEW n \in Nat
  PROVE  SubSeq(s, n + 1, Len(s)) \in Seq(S)
<1>1. \A i \in (n + 1)..Len(s) : s[i] \in S
  OBVIOUS
<1> QED
  BY <1>1

LEMMA SamplesType ==
  ASSUME NEW m \in Nat, NEW s \in Seq(1..m), NEW k \in 0..m, NEW n \in 1..(m - k)
  PROVE  s \o [i \in 1..n |-> k + i] \in Seq(1..m)
<1>1. [i \in 1..n |-> k + i] \in [1..n -> 1..m]
  OBVIOUS
<1>2. [i \in 1..n |-> k + i] \in Seq(1..m)
  BY <1>1
<1> QED
  BY <1>2

LEMMA DemuxTypes ==
  ASSUME BuiltinAssumption, DemuxAssumption, TypeInv, DemuxStep
  PROVE  NodeTyped' /\ CallsTyped' /\ DemuxTypeOK'
<1>0. Size \in Nat /\ elapsed + Size \in Nat
  BY DEF Size, DemuxAssumption, TypeInv, DemuxTypeOK
<1>1. ASSUME NEW t \in Callers, DemuxCall(t)
      PROVE  NodeTyped' /\ CallsTyped' /\ DemuxTypeOK'
  <2>0. t \in Everyone /\ {"base_start", "join_demuxer", "base_stop"} \subseteq Labels
    BY BuiltinFacts DEF Labels, OnStart, OnStop, OnDestroy
  <2>1. CASE StartDemuxer(t)
    <3>1. CASE demux = "new"
      BY <2>0, <2>1, <3>1, GotoType DEF StartDemuxer, control, TypeInv, DemuxTypeOK
    <3>2. CASE demux # "new"
      BY <2>1, <3>2, RaiseType DEF StartDemuxer, control, TypeInv, DemuxTypeOK
    <3> QED BY <3>1, <3>2
  <2>2. CASE EndDemuxer(t)
    BY <2>0, <2>2, GotoType DEF EndDemuxer, TypeInv, DemuxTypeOK
  <2>3. CASE JoinDemuxer(t)
    BY <2>0, <2>3, GotoType DEF JoinDemuxer, demuxVars, TypeInv, DemuxTypeOK
  <2> QED BY <1>1, <2>1, <2>2, <2>3 DEF DemuxCall
<1>2. ASSUME Stays /\ UNCHANGED pc
      PROVE  NodeTyped' /\ CallsTyped'
  BY <1>2 DEF Stays, nodeState, pipeState, TypeInv, NodeTyped, CallsTyped
<1>3. CASE DemuxThread \/ DemuxLost
  <2>1. NodeTyped' /\ CallsTyped'
    BY <1>2, <1>3 DEF DemuxThread, DemuxLost, DemuxOpen, DemuxEnd, DemuxPacket,
       DemuxEmit, DemuxFlush, Rtp
  <2>2. CASE DemuxOpen
    BY <2>1, <2>2 DEF DemuxOpen, control, TypeInv, DemuxTypeOK, DemuxAssumption
  <2>3. CASE DemuxEnd
    BY <2>1, <2>3 DEF DemuxEnd, control, TypeInv, DemuxTypeOK
  <2>4. CASE DemuxPacket
    <3>1. CASE stopEvent
      BY <2>1, <2>4, <3>1 DEF DemuxPacket, control, TypeInv, DemuxTypeOK
    <3>2. CASE ~stopEvent
      <4>1. PICK n \in 1..(MaxSamples - taken) :
              /\ pending' = pending \o [i \in 1..n |-> taken + i]
              /\ taken' = taken + n
              /\ demux' = "emit"
        BY <2>4, <3>2 DEF DemuxPacket
      <4>2. pending' \in Seq(1..MaxSamples)
        BY <4>1, SamplesType DEF TypeInv, DemuxTypeOK, DemuxAssumption
      <4>3. taken' \in 0..MaxSamples
        BY <4>1 DEF TypeInv, DemuxTypeOK, DemuxAssumption
      <4> QED
        BY <2>1, <2>4, <4>1, <4>2, <4>3 DEF DemuxPacket, control, TypeInv, DemuxTypeOK
    <3> QED BY <3>1, <3>2
  <2>5. CASE DemuxEmit
    <3>1. SubSeq(pending, Size + 1, Len(pending)) \in Seq(1..MaxSamples)
      BY <1>0, SuffixType DEF TypeInv, DemuxTypeOK
    <3>2. /\ pending' \in Seq(1..MaxSamples) /\ elapsed' \in Nat
          /\ demux' \in {demux, "flush", "read"}
      BY <1>0, <2>5, <3>1 DEF DemuxEmit, Emit, TypeInv, DemuxTypeOK
    <3> QED
      BY <2>1, <2>5, <3>2 DEF DemuxEmit, control, TypeInv, DemuxTypeOK
  <2>6. CASE DemuxFlush
    <3>1. pending' \in Seq(1..MaxSamples)
      BY <2>6 DEF DemuxFlush
    <3> QED
      BY <2>1, <2>6, <3>1 DEF DemuxFlush, control, TypeInv, DemuxTypeOK
  <2>7. CASE DemuxLost
    BY <2>1, <2>7 DEF DemuxLost, control, TypeInv, DemuxTypeOK
  <2> QED
    BY <1>3, <2>1, <2>2, <2>3, <2>4, <2>5, <2>6, <2>7 DEF DemuxThread
<1>4. CASE FileThread
  <2>1. CASE FileChunk
    <3>1. SubSeq(pending, Size + 1, Len(pending)) \in Seq(1..MaxSamples)
      BY <1>0, SuffixType DEF TypeInv, DemuxTypeOK
    <3>2. NodeTyped' /\ CallsTyped'
      BY <1>2, <2>1 DEF FileChunk
    <3> QED
      BY <1>0, <2>1, <3>1, <3>2 DEF FileChunk, Emit, control, TypeInv, DemuxTypeOK
  <2>2. CASE FileEnd
    <3>1. stopSent' \in BOOLEAN
      BY <2>2 DEF FileEnd, TypeInv, NodeTyped, CallsTyped
    <3>2. NodeTyped' /\ CallsTyped'
      BY <2>2, <3>1 DEF FileEnd, nodeState, TypeInv, NodeTyped, CallsTyped
    <3> QED
      BY <2>2, <3>2 DEF FileEnd, control, TypeInv, DemuxTypeOK
  <2>3. CASE RowRaises
    BY <1>2, <2>3 DEF RowRaises, control, TypeInv, DemuxTypeOK
  <2> QED BY <1>4, <2>1, <2>2, <2>3 DEF FileThread
<1> QED
  BY <1>1, <1>3, <1>4 DEF DemuxStep

LEMMA WatchTypes ==
  ASSUME BuiltinAssumption, WatchAssumption, TypeInv, InCall, WatchStep
  PROVE  NodeTyped' /\ CallsTyped' /\ WatchTypeOK' /\ EventsCounted'
<1> USE DEF TypeInv, WatchTypeOK, EventsCounted
<1>1. ASSUME NEW t \in Callers, WatchCall(t)
      PROVE  NodeTyped' /\ CallsTyped' /\ WatchTypeOK' /\ EventsCounted'
  <2>0. t \in Everyone /\ "join_observer" \in Labels
    BY BuiltinFacts DEF Labels, OnStop, OnDestroy
  <2>1. op[t] # "none"
    BY <1>1 DEF WatchCall, StartObserver, StopObserver, JoinObserver, At, InCall
  <2>2. CASE StartObserver(t)
    <3>1. CASE observer = "new"
      <4>1. NodeTyped' /\ CallsTyped'
        BY <2>1, <2>2, <3>1, ReturnType DEF StartObserver, nodeState, NodeTyped
      <4> QED
        BY <2>2, <3>1, <4>1 DEF StartObserver
    <3>2. CASE observer # "new"
      <4>1. NodeTyped' /\ CallsTyped'
        BY <2>2, <3>2, RaiseType DEF StartObserver
      <4> QED
        BY <2>2, <3>2, <4>1 DEF StartObserver
    <3> QED BY <3>1, <3>2
  <2>3. CASE StopObserver(t)
    <3>1. NodeTyped' /\ CallsTyped'
      BY <2>0, <2>3, GotoType DEF StopObserver
    <3> QED
      BY <2>3, <3>1 DEF StopObserver
  <2>4. CASE JoinObserver(t)
    <3>1. NodeTyped' /\ CallsTyped'
      BY <2>1, <2>4, ReturnType DEF JoinObserver, nodeState, NodeTyped
    <3> QED
      BY <2>4, <3>1 DEF JoinObserver, watchVars
  <2> QED BY <1>1, <2>2, <2>3, <2>4 DEF WatchCall
<1>2. CASE WatchThread \/ WatchEvent \/ WatchTake
  <2>1. NodeTyped' /\ CallsTyped'
    BY <1>2 DEF WatchThread, WatchPut, WatchEnd, WatchEvent, WatchTake, Thread,
       Stays, nodeState, pipeState, NodeTyped, CallsTyped
  <2>2. WatchTypeOK' /\ EventsCounted'
    BY <1>2 DEF WatchThread, WatchPut, WatchEnd, WatchEvent, WatchTake,
       WatchAssumption, BuiltinAssumption
  <2> QED BY <2>1, <2>2
<1>3. CASE PassOn \/ LoadImage
  <2>1. /\ UpdateTake /\ loaded' \in {loaded, loaded + 1}
        /\ updating' \in {updating, FALSE}
    BY <1>3 DEF PassOn, LoadImage
  <2>2. NodeTyped' /\ CallsTyped'
    BY <2>1 DEF UpdateTake, pipeState, NodeTyped, CallsTyped
  <2>3. WatchTypeOK' /\ EventsCounted'
    BY <2>1 DEF UpdateTake
  <2> QED BY <2>2, <2>3
<1> QED
  BY <1>1, <1>2, <1>3 DEF WatchStep

LEMMA ServerTypes ==
  ASSUME BuiltinAssumption, ServerAssumption, TypeInv, InCall, ServerStep
  PROVE  NodeTyped' /\ CallsTyped' /\ ServerTypeOK'
<1>0. {"base_start", "shut_test", "shut_over", "shut_wait"} \subseteq Labels
  BY DEF Labels, OnStart, OnStop, OnDestroy
<1>1. ASSUME Quiet PROVE NodeTyped' /\ CallsTyped'
  BY <1>1 DEF Quiet, Stays, nodeState, pipeState, TypeInv, NodeTyped, CallsTyped
<1>2. ASSUME NEW t \in Callers, ServerCall(t)
      PROVE  NodeTyped' /\ CallsTyped' /\ ServerTypeOK'
  <2>1. op[t] # "none"
    BY <1>2 DEF ServerCall, StartServer, HttpShutdown, HttpWait, HttpShut,
       WsShutdown, At, InCall
  <2>2. t \in Everyone
    BY BuiltinFacts
  <2>3. \/ (\E l \in Labels : Goto(t, l))
        \/ (Return(t) /\ UNCHANGED nodeState)
        \/ (Raise(t) /\ UNCHANGED nodeState)
    BY <1>0, <1>2 DEF ServerCall, StartServer, HttpShutdown, HttpWait, HttpShut,
       WsShutdown
  <2>4. NodeTyped' /\ CallsTyped'
    <3>1. ASSUME Return(t), UNCHANGED nodeState PROVE NodeTyped' /\ CallsTyped'
      BY <2>1, <3>1, ReturnType DEF nodeState, TypeInv, NodeTyped
    <3> QED BY <2>2, <2>3, <3>1, GotoType, RaiseType
  <2>5. /\ serve' \in [Threads -> {"none", "called", "serving", "putting", "over"}]
        /\ shutReq' \in BOOLEAN /\ isShut' \in BOOLEAN /\ gone' \in BOOLEAN
        /\ UNCHANGED <<asked, queued, wsVars>>
    BY <1>2 DEF ServerCall, StartServer, HttpShutdown, HttpWait, HttpShut,
       WsShutdown, Http, Ws, httpVars, wsVars, TypeInv, ServerTypeOK
  <2> QED BY <2>4, <2>5 DEF wsVars, TypeInv, ServerTypeOK
<1>3. ASSUME NEW k \in Threads, HttpThread(k) \/ HttpRequest(k)
      PROVE  NodeTyped' /\ CallsTyped' /\ ServerTypeOK'
  <2>1. NodeTyped' /\ CallsTyped'
    <3>1. CASE HttpLeave(k)
      <4>1. pc' \in [Everyone -> Labels]
        <5>1. pc' = [t \in DOMAIN pc |-> IF At(t, "shut_wait") THEN "shut_over" ELSE pc[t]]
          BY <3>1 DEF HttpLeave
        <5> QED
          BY <1>0, <5>1 DEF TypeInv, CallsTyped
      <4> QED
        BY <3>1, <4>1 DEF HttpLeave, Stays, nodeState, pipeState, TypeInv,
           NodeTyped, CallsTyped
    <3> QED BY <1>1, <1>3, <3>1 DEF HttpThread, HttpServe, HttpPut, HttpRequest
  <2>2. /\ serve' \in [Threads -> {"none", "called", "serving", "putting", "over"}]
        /\ shutReq' \in BOOLEAN /\ isShut' \in BOOLEAN /\ gone' \in BOOLEAN
        /\ UNCHANGED wsVars
    BY <1>3 DEF HttpThread, HttpServe, HttpPut, HttpLeave, HttpRequest, Http,
       httpVars, TypeInv, ServerTypeOK
  <2>3. asked' \in 0..MaxRequests /\ queued' \in 0..QueueSize
    BY <1>3 DEF HttpThread, HttpServe, HttpPut, HttpLeave, HttpRequest, Http,
       httpVars, TypeInv, ServerTypeOK, BuiltinAssumption, ServerAssumption
  <2> QED
    BY <2>1, <2>2, <2>3 DEF wsVars, TypeInv, ServerTypeOK
<1>4. CASE HttpTake
  <2>1. queued' \in 0..QueueSize
    BY <1>4 DEF HttpTake, TypeInv, ServerTypeOK, BuiltinAssumption
  <2> QED
    BY <1>1, <1>4, <2>1 DEF HttpTake, Http, wsVars, TypeInv, ServerTypeOK
<1>5. CASE WsConnect \/ WsReceive \/ WsThread
  <2>1. NodeTyped' /\ CallsTyped'
    <3>1. CASE WsStop
      BY <3>1 DEF WsStop, nodeState, TypeInv, NodeTyped, CallsTyped
    <3>2. CASE WsWork /\ Head(wsQueue) = 0 /\ updating
      <4>1. Enter(Control, "stop", StopAt) /\ StopAt \in Labels
        BY <3>2, WaysIn DEF WsWork
      <4>2. /\ pc' \in [Everyone -> Labels]
            /\ op' \in [Callers -> {"none", "start", "stop", "destroy"}]
        BY <4>1, EnterType, BuiltinFacts
      <4> QED
        BY <3>2, <4>2 DEF WsWork, pipeState, TypeInv, NodeTyped, CallsTyped
    <3>3. CASE WsWork /\ ~(Head(wsQueue) = 0 /\ updating)
      BY <1>1, <3>3 DEF WsWork
    <3> QED
      BY <1>1, <1>5, <3>1, <3>2, <3>3 DEF WsConnect, WsReceive, WsThread, WsSource,
         WsPutBack
  <2>2. CASE WsConnect \/ WsSource \/ WsPutBack \/ WsStop
    <3>0. /\ wsQueue \in Seq(0..MaxRequests) /\ hand \in Seq(0..MaxRequests)
          /\ Len(hand) <= 1 /\ 0 \in 0..MaxRequests
      BY DEF TypeInv, ServerTypeOK, ServerAssumption
    <3>1. /\ wsQueue' \in Seq(0..MaxRequests) /\ hand' \in Seq(0..MaxRequests)
          /\ Len(hand') <= 1
      <4>1. CASE WsConnect
        BY <3>0, <4>1 DEF WsConnect
      <4>2. CASE WsStop
        BY <3>0, <4>2 DEF WsStop
      <4>3. CASE WsPutBack
        BY <3>0, <4>3 DEF WsPutBack
      <4>4. CASE WsSource
        <5>1. wsQueue # <<>> /\ hand' = <<Head(wsQueue)>> /\ wsQueue' = Tail(wsQueue)
          BY <4>4 DEF WsSource
        <5>2. Head(wsQueue) \in 0..MaxRequests
          BY <3>0, <5>1
        <5> QED
          BY <3>0, <5>1, <5>2
      <4> QED BY <2>2, <4>1, <4>2, <4>3, <4>4
    <3>2. /\ client' \in BOOLEAN /\ sourcing' \in BOOLEAN
          /\ UNCHANGED <<serve, asked, httpVars, got>>
      BY <2>2 DEF WsConnect, WsSource, WsPutBack, WsStop, Ws, TypeInv, ServerTypeOK
    <3> QED
      BY <2>1, <3>1, <3>2 DEF httpVars, TypeInv, ServerTypeOK
  <2>3. CASE WsReceive
    <3>1. asked + 1 \in 0..MaxRequests /\ asked' = asked + 1
      BY <2>3 DEF WsReceive, TypeInv, ServerTypeOK, ServerAssumption
    <3>2. wsQueue' \in Seq(0..MaxRequests)
      BY <2>3, <3>1 DEF WsReceive, TypeInv, ServerTypeOK
    <3> QED
      BY <2>1, <2>3, <3>1, <3>2 DEF WsReceive, Ws, httpVars, TypeInv, ServerTypeOK
  <2>4. CASE WsWork
    <3>1. wsQueue' \in Seq(0..MaxRequests)
      BY <2>4 DEF WsWork, TypeInv, ServerTypeOK
    <3>2. got' \in Seq(1..MaxRequests)
      <4>1. CASE Head(wsQueue) = 0
        BY <2>4, <4>1 DEF WsWork, TypeInv, ServerTypeOK
      <4>2. CASE Head(wsQueue) # 0
        <5>1. Head(wsQueue) \in 0..MaxRequests
          BY <2>4 DEF WsWork, TypeInv, ServerTypeOK
        <5>2. Head(wsQueue) \in 1..MaxRequests
          BY <4>2, <5>1 DEF ServerAssumption
        <5>3. got \in Seq(1..MaxRequests) /\ got' = Append(got, Head(wsQueue))
          BY <2>4, <4>2 DEF WsWork, TypeInv, ServerTypeOK
        <5> QED
          BY <5>2, <5>3
      <4> QED BY <4>1, <4>2
    <3> QED
      BY <2>1, <2>4, <3>1, <3>2 DEF WsWork, Ws, httpVars, TypeInv, ServerTypeOK
  <2> QED BY <1>5, <2>2, <2>3, <2>4 DEF WsThread
<1> QED
  BY <1>2, <1>3, <1>4, <1>5 DEF ServerStep

LEMMA SeqGrows ==
  ASSUME NEW S, NEW T, S \subseteq T, NEW s \in Seq(S)
  PROVE  s \in Seq(T)
  OBVIOUS

LEMMA SinkTypes ==
  ASSUME SinkAssumption, TypeInv, InCall, SinkStep
  PROVE  NodeTyped' /\ CallsTyped' /\ SinkTypeOK'
<1>1. CASE UdpUpdate \/ NotifierUpdate \/ WarpUpdate
  <2>1. /\ Update /\ updating' \in {updating, FALSE} /\ raised' \in {raised, TRUE}
        /\ newest' \in {newest, updates + 1}
        /\ senders' \in {senders, senders \cup {updates + 1}}
        /\ UNCHANGED delivered
    BY <1>1 DEF UdpUpdate, NotifierUpdate, WarpUpdate, WarpAnswers, WarpFails,
       Returned, Raising
  <2>2. NodeTyped' /\ CallsTyped'
    BY <2>1 DEF Update, pipeState, TypeInv, NodeTyped, CallsTyped
  <2>3. /\ updates' \in 0..MaxUpdates /\ updates' = updates + 1
        /\ updates \in Nat
    BY <2>1 DEF Update, SinkAssumption, TypeInv, SinkTypeOK
  <2>4. delivered' \in Seq(1..updates')
    <3>1. delivered \in Seq(1..updates) /\ 1..updates \subseteq 1..updates'
      BY <2>3 DEF TypeInv, SinkTypeOK
    <3>2. delivered \in Seq(1..updates')
      BY <3>1, SeqGrows
    <3> QED
      BY <2>1, <3>2
  <2>5. /\ senders' \subseteq 1..updates' /\ newest' \in 0..updates'
        /\ raised' \in BOOLEAN
    <3>1. senders \subseteq 1..updates /\ newest \in 0..updates /\ raised \in BOOLEAN
      BY DEF TypeInv, SinkTypeOK
    <3>2. 1..updates \subseteq 1..updates' /\ updates + 1 \in 1..updates'
      BY <2>3
    <3>3. newest' \in 0..updates'
      BY <2>1, <2>3, <3>1
    <3> QED
      BY <2>1, <3>1, <3>2, <3>3
  <2> QED
    BY <2>2, <2>3, <2>4, <2>5 DEF SinkTypeOK
<1>2. ASSUME NEW m \in senders, SendOver(m)
      PROVE  NodeTyped' /\ CallsTyped' /\ SinkTypeOK'
  <2>1. NodeTyped' /\ CallsTyped'
    BY <1>2 DEF SendOver, Stays, nodeState, pipeState, TypeInv, NodeTyped, CallsTyped
  <2>2. m \in 1..updates
    BY DEF TypeInv, SinkTypeOK
  <2>3. delivered' \in Seq(1..updates)
    <3>1. delivered \in Seq(1..updates)
      BY DEF TypeInv, SinkTypeOK
    <3>2. Append(delivered, m) \in Seq(1..updates)
      BY <2>2, <3>1
    <3> QED
      BY <1>2, <3>1, <3>2 DEF SendOver
  <2> QED
    BY <1>2, <2>1, <2>3 DEF SendOver, TypeInv, SinkTypeOK
<1>3. ASSUME NEW t \in Callers, JoinSender(t)
      PROVE  NodeTyped' /\ CallsTyped' /\ SinkTypeOK'
  <2>1. op[t] # "none"
    BY <1>3 DEF JoinSender, At, InCall
  <2>2. NodeTyped' /\ CallsTyped'
    BY <1>3, <2>1, ReturnType DEF JoinSender, nodeState, TypeInv, NodeTyped
  <2> QED
    BY <1>3, <2>2 DEF JoinSender, sinkVars, udpVars, warpVars, TypeInv, SinkTypeOK
<1> QED
  BY <1>1, <1>2, <1>3 DEF SinkStep

LEMMA TypeInvInit ==
  ASSUME BuiltinAssumption, DemuxAssumption, WatchAssumption, ServerAssumption,
         SinkAssumption, Init
  PROVE  TypeInv
<1>1. NodeTyped /\ CallsTyped
  <2>1. pc \in [Everyone -> Labels]
    BY DEF Init, LifeInit, Everyone, Labels, OnWatch
  <2>2. op \in [Callers -> {"none", "start", "stop", "destroy"}]
    BY DEF Init, LifeInit
  <2>3. NodeTyped
    BY DEF Init, LifeInit, NodeTyped
  <2>4. starts \in 0..MaxStarts
    BY DEF Init, LifeInit, BuiltinAssumption
  <2>5. /\ kind \in Kinds /\ pstatus \in {"READY", "RUNNING", "DESTROYED"}
        /\ hasty \in BOOLEAN /\ stopSent \in BOOLEAN
    BY DEF Init, LifeInit
  <2> QED
    BY <2>1, <2>2, <2>3, <2>4, <2>5 DEF CallsTyped
<1>2. FfmpegTypeOK
  <2>1. 0 \in 0..MaxProcs
    BY DEF BuiltinAssumption
  <2>2. /\ proc \in [Procs -> {"none", "alive", "exited"}]
        /\ target \in [Callers -> 0..MaxProcs]
    BY <2>1 DEF Init, FfmpegInit
  <2>3. current \in 0..MaxProcs /\ lock \in 0..MaxProcs
    BY <2>1 DEF Init, FfmpegInit
  <2>4. {running, stopReq} \subseteq BOOLEAN /\ src \in {"none", "real", "empty"}
    BY DEF Init, FfmpegInit
  <2>5. closed \cup late \cup lost \subseteq Procs
    BY DEF Init, FfmpegInit
  <2> QED
    BY <2>2, <2>3, <2>4, <2>5 DEF FfmpegTypeOK
<1>3. DemuxTypeOK
  <2>1. pending \in Seq(1..MaxSamples) /\ taken \in 0..MaxSamples
    <3>1. CASE Is(FileKinds)
      <4>1. PICK n \in 0..MaxSamples : pending = [i \in 1..n |-> i]
        BY <3>1 DEF Init, DemuxInit
      <4>2. n \in Nat /\ Len(pending) = n
        BY <4>1 DEF DemuxAssumption
      <4>3. pending \in [1..n -> 1..MaxSamples]
        BY <4>1, <4>2 DEF DemuxAssumption
      <4> QED
        BY <4>2, <4>3 DEF Init, DemuxInit
    <3>2. CASE ~Is(FileKinds)
      BY <3>2 DEF Init, DemuxInit, DemuxAssumption
    <3> QED BY <3>1, <3>2
  <2>2. partial \in BOOLEAN /\ room \in BOOLEAN
    <3>1. (kind \in FileKinds) \in BOOLEAN
      OBVIOUS
    <3>2. partial \in BOOLEAN
      BY <3>1 DEF Init, DemuxInit, Is
    <3>3. room \in BOOLEAN
      BY DEF Init, DemuxInit
    <3> QED BY <3>2, <3>3
  <2>3. /\ demux = "new" /\ stopEvent = FALSE /\ elapsed = 0 /\ conn = 0
    BY DEF Init, DemuxInit
  <2>4. {stopEvent, partial, room} \subseteq BOOLEAN
    BY <2>2, <2>3
  <2>5. elapsed \in Nat /\ conn \in 0..MaxConns
    BY <2>3 DEF DemuxAssumption
  <2> QED
    BY <2>1, <2>3, <2>4, <2>5 DEF DemuxTypeOK
<1>4. WatchTypeOK /\ EventsCounted
  BY DEF Init, WatchInit, WatchTypeOK, EventsCounted, WatchAssumption, BuiltinAssumption
<1>5. ServerTypeOK
  <2>1. /\ serve = [k \in Threads |-> "none"]
        /\ shutReq = FALSE /\ isShut = FALSE /\ gone = FALSE /\ client = FALSE
        /\ sourcing = TRUE
    BY DEF Init, ServerInit
  <2>2. asked \in 0..MaxRequests /\ queued \in 0..QueueSize
    BY DEF Init, ServerInit, ServerAssumption, BuiltinAssumption
  <2>3. wsQueue = <<>> /\ hand = <<>> /\ got = <<>>
    BY DEF Init, ServerInit
  <2>4. /\ wsQueue \in Seq(0..MaxRequests) /\ got \in Seq(1..MaxRequests)
        /\ hand \in Seq(0..MaxRequests) /\ Len(hand) <= 1
    BY <2>3
  <2>5. /\ serve \in [Threads -> {"none", "called", "serving", "putting", "over"}]
        /\ {shutReq, isShut, gone, client, sourcing} \subseteq BOOLEAN
    BY <2>1
  <2> QED
    BY <2>2, <2>4, <2>5 DEF ServerTypeOK
<1>6. SinkTypeOK
  <2>1. updates = 0 /\ senders = {} /\ newest = 0 /\ delivered = <<>> /\ raised = FALSE
    BY DEF Init, SinkInit
  <2>2. delivered \in Seq(1..updates)
    BY <2>1
  <2>3. updates \in 0..MaxUpdates
    BY <2>1 DEF SinkAssumption
  <2>4. senders \subseteq 1..updates
    <3>1. senders = {}
      BY <2>1
    <3> QED BY <3>1
  <2>5. newest \in 0..updates
    <3>1. newest = 0 /\ updates = 0
      BY <2>1
    <3> QED BY <3>1
  <2>6. raised \in BOOLEAN
    BY <2>1
  <2> QED
    BY <2>2, <2>3, <2>4, <2>5, <2>6 DEF SinkTypeOK
<1> QED
  BY <1>1, <1>2, <1>3, <1>4, <1>5, <1>6 DEF TypeInv

LEMMA TypeInvStep ==
  ASSUME BuiltinAssumption, DemuxAssumption, WatchAssumption, ServerAssumption,
         SinkAssumption, TypeInv, InCall, [Next]_vars
  PROVE  TypeInv'
<1>1. ASSUME UNCHANGED ffmpegVars PROVE FfmpegTypeOK'
  BY <1>1 DEF ffmpegVars, TypeInv, FfmpegTypeOK
<1>2. ASSUME UNCHANGED demuxVars PROVE DemuxTypeOK'
  BY <1>2 DEF demuxVars, TypeInv, DemuxTypeOK
<1>3. ASSUME UNCHANGED watchVars PROVE WatchTypeOK' /\ EventsCounted'
  BY <1>3 DEF watchVars, TypeInv, WatchTypeOK, EventsCounted
<1>4. ASSUME UNCHANGED serverVars PROVE ServerTypeOK'
  BY <1>4 DEF serverVars, httpVars, wsVars, TypeInv, ServerTypeOK
<1>5. ASSUME UNCHANGED sinkVars PROVE SinkTypeOK'
  BY <1>5 DEF sinkVars, udpVars, warpVars, TypeInv, SinkTypeOK
<1>6. CASE Life(UserStep) \/ Life(BaseStep)
  <2>1. NodeTyped' /\ CallsTyped'
    BY <1>6, UserTypes, BaseTypes DEF Life
  <2> QED
    BY <1>1, <1>2, <1>3, <1>4, <1>5, <1>6, <2>1 DEF Life, TypeInv
<1>7. CASE Ffmpeg(FfmpegStep)
  BY <1>2, <1>3, <1>4, <1>5, <1>7, FfmpegTypes DEF Ffmpeg, TypeInv
<1>8. CASE Demux(DemuxStep)
  BY <1>1, <1>3, <1>4, <1>5, <1>8, DemuxTypes DEF Demux, TypeInv
<1>9. CASE Watch(WatchStep)
  BY <1>1, <1>2, <1>4, <1>5, <1>9, WatchTypes DEF Watch, TypeInv
<1>10. CASE Server(ServerStep)
  BY <1>1, <1>2, <1>3, <1>5, <1>10, ServerTypes DEF Server, TypeInv
<1>11. CASE Sink(SinkStep)
  BY <1>1, <1>2, <1>3, <1>4, <1>11, SinkTypes DEF Sink, TypeInv
<1>12. CASE UNCHANGED vars
  <2>1. NodeTyped' /\ CallsTyped'
    BY <1>12 DEF vars, lifeVars, TypeInv, NodeTyped, CallsTyped
  <2> QED
    BY <1>1, <1>2, <1>3, <1>4, <1>5, <1>12, <2>1 DEF vars, TypeInv
<1> QED
  BY <1>6, <1>7, <1>8, <1>9, <1>10, <1>11, <1>12 DEF Next

-----------------------------------------------------------------------------
(***************************************************************************)
(* json_websocket. Each message is in one place of the queue, the hand of  *)
(* the source thread and what the worker has put away.                     *)
(***************************************************************************)
\* No message twice in s; s and r have none in common; a STOP is no message.
Sifted(s) == \A i, j \in 1..Len(s) : s[i] = s[j] /\ s[i] # 0 => i = j
Apart(s, r) == \A i \in 1..Len(s), j \in 1..Len(r) : s[i] = r[j] => s[i] = 0
Holds(s, m) == \E i \in 1..Len(s) : s[i] = m

Once ==
  /\ asked \in Nat
  /\ wsQueue \in Seq(0..asked) /\ hand \in Seq(0..asked) /\ got \in Seq(1..asked)
  /\ Len(hand) <= 1
  /\ Sifted(wsQueue) /\ Sifted(got)
  /\ Apart(wsQueue, hand) /\ Apart(wsQueue, got) /\ Apart(hand, got)
  /\ \A m \in 1..asked : Holds(wsQueue, m) \/ Holds(hand, m) \/ Holds(got, m)

WsInv == kind = "json_websocket" => Once

\* What the three lists come to when one message is appended or taken.
LEMMA AppendKeeps ==
  ASSUME NEW S, NEW s \in Seq(S), NEW r \in Seq(S), NEW x \in S,
         Sifted(s), Apart(s, r), x = 0 \/ ~Holds(s, x), x = 0 \/ ~Holds(r, x)
  PROVE  /\ Sifted(Append(s, x)) /\ Apart(Append(s, x), r) /\ Apart(r, Append(s, x))
         /\ \A m \in S : Holds(Append(s, x), m) <=> Holds(s, m) \/ m = x
<1> DEFINE a == Append(s, x)
<1>1. /\ Len(a) = Len(s) + 1 /\ Len(s) \in Nat
      /\ a[Len(s) + 1] = x /\ \A i \in 1..Len(s) : a[i] = s[i]
  OBVIOUS
<1>2. \A i \in 1..Len(a) : i \in 1..Len(s) \/ i = Len(s) + 1
  BY <1>1
<1>3. Len(s) + 1 \in 1..Len(a) /\ 1..Len(s) \subseteq 1..Len(a)
  BY <1>1
<1> HIDE DEF a
<1>4. Sifted(a)
  BY <1>1, <1>2 DEF Sifted, Holds
<1>5. Apart(a, r) /\ Apart(r, a)
  BY <1>1, <1>2 DEF Apart, Holds
<1>6. \A m \in S : Holds(a, m) <=> Holds(s, m) \/ m = x
  BY <1>1, <1>2, <1>3 DEF Holds
<1> QED
  BY <1>4, <1>5, <1>6 DEF a

LEMMA TailKeeps ==
  ASSUME NEW S, NEW s \in Seq(S), NEW r \in Seq(S), s # <<>>,
         Sifted(s), Apart(s, r)
  PROVE  /\ Sifted(Tail(s)) /\ Apart(Tail(s), r) /\ Tail(s) \in Seq(S)
         /\ Head(s) = 0 \/ (~Holds(Tail(s), Head(s)) /\ ~Holds(r, Head(s)))
         /\ \A m \in S : Holds(s, m) <=> m = Head(s) \/ Holds(Tail(s), m)
         /\ Head(s) \in S
<1> DEFINE b == Tail(s)
<1>1. /\ Len(s) \in Nat \ {0} /\ Len(b) = Len(s) - 1
      /\ Head(s) = s[1] /\ \A i \in 1..Len(b) : b[i] = s[i + 1]
      /\ b \in Seq(S)
  OBVIOUS
<1>2. \A i \in 1..Len(b) : i + 1 \in 1..Len(s) /\ i + 1 # 1
  BY <1>1
<1>3. \A i \in 1..Len(s) : i = 1 \/ (i - 1 \in 1..Len(b) /\ (i - 1) + 1 = i)
  BY <1>1
<1>4. 1 \in 1..Len(s)
  BY <1>1
<1>5. \A i, j \in 1..Len(b) : i + 1 = j + 1 => i = j
  BY <1>1
<1>6. s[1] \in S
  BY <1>4
<1> HIDE DEF b
<1>7. Sifted(b)
  BY <1>1, <1>2, <1>5 DEF Sifted
<1>8. Apart(b, r)
  BY <1>1, <1>2 DEF Apart
<1>9. Head(s) = 0 \/ (~Holds(b, Head(s)) /\ ~Holds(r, Head(s)))
  BY <1>1, <1>2, <1>4 DEF Sifted, Apart, Holds
<1>10. \A m \in S : Holds(s, m) <=> m = Head(s) \/ Holds(b, m)
  <2> TAKE m \in S
  <2>1. ASSUME Holds(s, m) PROVE m = Head(s) \/ Holds(b, m)
    <3>1. PICK i \in 1..Len(s) : s[i] = m
      BY <2>1 DEF Holds
    <3>2. CASE i = 1
      BY <1>1, <3>1, <3>2
    <3>3. CASE i # 1
      <4>1. i - 1 \in 1..Len(b) /\ b[i - 1] = s[i]
        BY <1>1, <1>3, <3>3
      <4> QED BY <3>1, <4>1 DEF Holds
    <3> QED BY <3>2, <3>3
  <2>2. ASSUME m = Head(s) \/ Holds(b, m) PROVE Holds(s, m)
    BY <1>1, <1>2, <1>4, <2>2 DEF Holds
  <2> QED BY <2>1, <2>2
<1> QED
  BY <1>1, <1>6, <1>7, <1>8, <1>9, <1>10 DEF b

LEMMA WsMoves ==
  ASSUME Once, WsReceive \/ WsStop \/ WsSource \/ WsPutBack \/ WsWork
  PROVE  Once'
<1>1. CASE WsReceive
  <2>1. /\ asked' = asked + 1 /\ wsQueue' = Append(wsQueue, asked + 1)
        /\ hand' = hand /\ got' = got
    BY <1>1 DEF WsReceive
  <2>2. /\ asked + 1 \in 0..asked' /\ asked' \in Nat /\ 0..asked \subseteq 0..asked'
        /\ 1..asked \subseteq 1..asked' /\ 1..asked' \subseteq 0..asked'
        /\ \A m \in 1..asked' : m \in 1..asked \/ m = asked + 1
        /\ asked + 1 # 0 /\ asked + 1 \notin 0..asked /\ asked + 1 \notin 1..asked
    BY <2>1 DEF Once
  <2>3. /\ wsQueue \in Seq(0..asked') /\ hand \in Seq(0..asked')
        /\ got \in Seq(0..asked') /\ got \in Seq(1..asked')
    BY <2>2 DEF Once
  <2>4. /\ \A i \in 1..Len(wsQueue) : wsQueue[i] \in 0..asked
        /\ \A i \in 1..Len(hand) : hand[i] \in 0..asked
        /\ \A i \in 1..Len(got) : got[i] \in 1..asked
    BY DEF Once
  <2>5. /\ ~Holds(wsQueue, asked + 1) /\ ~Holds(hand, asked + 1)
        /\ ~Holds(got, asked + 1)
    BY <2>2, <2>4 DEF Holds
  <2>6. Sifted(wsQueue) /\ Apart(wsQueue, hand) /\ Apart(wsQueue, got)
    BY DEF Once
  <2>7. /\ Sifted(wsQueue') /\ Apart(wsQueue', hand) /\ Apart(hand, wsQueue')
        /\ \A m \in 0..asked' : Holds(wsQueue', m) <=> Holds(wsQueue, m) \/ m = asked + 1
    <3> DEFINE S == 0..asked'
               x == asked + 1
    <3>1. wsQueue \in Seq(S) /\ hand \in Seq(S) /\ x \in S
      BY <2>2, <2>3
    <3>2. /\ Sifted(wsQueue) /\ Apart(wsQueue, hand)
          /\ ~Holds(wsQueue, x) /\ ~Holds(hand, x)
      BY <2>5, <2>6
    <3>3. wsQueue' = Append(wsQueue, x)
      BY <2>1
    <3> HIDE DEF S, x
    <3>4. /\ Sifted(wsQueue') /\ Apart(wsQueue', hand) /\ Apart(hand, wsQueue')
          /\ \A m \in S : Holds(wsQueue', m) <=> Holds(wsQueue, m) \/ m = x
      BY <3>1, <3>2, <3>3, AppendKeeps
    <3> QED BY <3>4 DEF S, x
  <2>8. Apart(wsQueue', got)
    BY <2>1, <2>2, <2>3, <2>5, <2>6, AppendKeeps
  <2>9. wsQueue' \in Seq(0..asked')
    BY <2>1, <2>2, <2>3
  <2>10. \A m \in 1..asked' : Holds(wsQueue', m) \/ Holds(hand, m) \/ Holds(got, m)
    BY <2>2, <2>7 DEF Once
  <2> QED
    BY <2>1, <2>2, <2>3, <2>7, <2>8, <2>9, <2>10 DEF Once
<1>2. CASE WsStop
  <2>1. /\ asked' = asked /\ wsQueue' = Append(wsQueue, 0)
        /\ hand' = hand /\ got' = got
    BY <1>2 DEF WsStop
  <2>2. 0 \in 0..asked /\ 1..asked \subseteq 0..asked
    BY DEF Once
  <2>3. got \in Seq(0..asked)
    BY <2>2 DEF Once
  <2>4. /\ Sifted(wsQueue') /\ Apart(wsQueue', hand)
        /\ \A m \in 0..asked : Holds(wsQueue', m) <=> Holds(wsQueue, m) \/ m = 0
    BY <2>1, <2>2, AppendKeeps DEF Once
  <2>5. Apart(wsQueue', got)
    BY <2>1, <2>2, <2>3, AppendKeeps DEF Once
  <2>6. wsQueue' \in Seq(0..asked)
    BY <2>1, <2>2 DEF Once
  <2>7. \A m \in 1..asked : Holds(wsQueue', m) \/ Holds(hand, m) \/ Holds(got, m)
    BY <2>2, <2>4 DEF Once
  <2> QED
    BY <2>1, <2>4, <2>5, <2>6, <2>7 DEF Once
<1>3. CASE WsSource
  <2>1. /\ asked' = asked /\ wsQueue' = Tail(wsQueue) /\ hand' = <<Head(wsQueue)>>
        /\ got' = got /\ hand = <<>> /\ wsQueue # <<>>
    BY <1>3 DEF WsSource
  <2>2. got \in Seq(0..asked)
    BY DEF Once
  <2>3. /\ Sifted(wsQueue') /\ wsQueue' \in Seq(0..asked)
        /\ Head(wsQueue) = 0 \/ ~Holds(wsQueue', Head(wsQueue))
        /\ \A m \in 0..asked : Holds(wsQueue, m) <=> m = Head(wsQueue) \/ Holds(wsQueue', m)
        /\ Head(wsQueue) \in 0..asked
    BY <2>1, TailKeeps DEF Once
  <2>4. /\ Apart(wsQueue', got)
        /\ Head(wsQueue) = 0 \/ ~Holds(got, Head(wsQueue))
    BY <2>1, <2>2, TailKeeps DEF Once
  <2>5. /\ Len(hand') = 1 /\ hand'[1] = Head(wsQueue) /\ hand' \in Seq(0..asked)
        /\ Len(hand) = 0
    BY <2>1, <2>3
  <2>6. \A i \in 1..Len(hand') : i = 1
    BY <2>5
  <2>7. Apart(wsQueue', hand')
    BY <2>3, <2>5, <2>6 DEF Apart, Holds
  <2>8. Apart(hand', got)
    BY <2>4, <2>5, <2>6 DEF Apart, Holds
  <2>9. \A m \in 1..asked : Holds(wsQueue', m) \/ Holds(hand', m) \/ Holds(got, m)
    <3>1. /\ \A m : ~Holds(hand, m)
          /\ Holds(hand', Head(wsQueue))
      BY <2>5 DEF Holds
    <3>2. 1..asked \subseteq 0..asked
      BY DEF Once
    <3> QED BY <2>3, <3>1, <3>2 DEF Once
  <2>10. Len(hand') <= 1 /\ hand' \in Seq(0..asked)
    BY <2>5
  <2> QED
    BY <2>1, <2>3, <2>4, <2>7, <2>8, <2>9, <2>10 DEF Once
<1>4. CASE WsPutBack
  <2>1. /\ asked' = asked /\ wsQueue' = wsQueue \o hand /\ hand' = <<>>
        /\ got' = got /\ hand # <<>>
    BY <1>4 DEF WsPutBack
  <2> DEFINE x == hand[1]
  <2>2. Len(hand) = 1 /\ x \in 0..asked /\ hand \in Seq(0..asked)
    <3>1. hand \in Seq(0..asked) /\ Len(hand) <= 1
      BY DEF Once
    <3>2. Len(hand) \in Nat /\ Len(hand) # 0
      BY <2>1, <3>1
    <3>3. Len(hand) = 1
      BY <3>1, <3>2
    <3>4. \A i \in 1..Len(hand) : hand[i] \in 0..asked
      BY DEF Once
    <3>5. 1 \in 1..Len(hand)
      BY <3>3
    <3> QED BY <3>1, <3>3, <3>4, <3>5
  <2>3. wsQueue' = Append(wsQueue, x)
    <3>1. hand = <<x>>
      BY <2>2
    <3>2. wsQueue \in Seq(0..asked)
      BY DEF Once
    <3>3. wsQueue \o <<x>> = Append(wsQueue, x)
      BY <2>2, <3>2
    <3> QED BY <2>1, <3>1, <3>3
  <2>4. got \in Seq(0..asked)
    BY DEF Once
  <2>5. Holds(hand, x) /\ \A m : Holds(hand, m) => m = x
    BY <2>2 DEF Holds
  <2>6. /\ x = 0 \/ ~Holds(wsQueue, x)
        /\ x = 0 \/ ~Holds(got, x)
    BY <2>2 DEF Once, Apart, Holds
  <2> HIDE DEF x
  <2>7. /\ Sifted(wsQueue') /\ Apart(wsQueue', got)
        /\ \A m \in 0..asked : Holds(wsQueue', m) <=> Holds(wsQueue, m) \/ m = x
    BY <2>2, <2>3, <2>4, <2>6, AppendKeeps DEF Once
  <2>8. wsQueue' \in Seq(0..asked)
    BY <2>2, <2>3 DEF Once
  <2>9. /\ Apart(wsQueue', hand') /\ Apart(hand', got) /\ hand' \in Seq(0..asked)
        /\ Len(hand') <= 1
    BY <2>1 DEF Apart
  <2>10. \A m \in 1..asked : Holds(wsQueue', m) \/ Holds(got, m)
    <3>1. 1..asked \subseteq 0..asked
      BY DEF Once
    <3> QED BY <2>5, <2>7, <3>1 DEF Once
  <2> QED
    BY <2>1, <2>7, <2>8, <2>9, <2>10 DEF Once
<1>5. CASE WsWork
  <2>1. /\ asked' = asked /\ wsQueue' = Tail(wsQueue) /\ hand' = hand
        /\ wsQueue # <<>>
        /\ IF Head(wsQueue) = 0 THEN got' = got ELSE got' = Append(got, Head(wsQueue))
    BY <1>5 DEF WsWork
  <2> DEFINE x == Head(wsQueue)
  <2>2. got \in Seq(0..asked) /\ 1..asked \subseteq 0..asked
    BY DEF Once
  <2>3. /\ Sifted(wsQueue') /\ Apart(wsQueue', hand) /\ wsQueue' \in Seq(0..asked)
        /\ x = 0 \/ ~Holds(wsQueue', x)
        /\ x = 0 \/ ~Holds(hand, x)
        /\ \A m \in 0..asked : Holds(wsQueue, m) <=> m = x \/ Holds(wsQueue', m)
        /\ x \in 0..asked
    BY <2>1, TailKeeps DEF Once
  <2>4. /\ Apart(wsQueue', got)
        /\ x = 0 \/ ~Holds(got, x)
    BY <2>1, <2>2, TailKeeps DEF Once
  <2>5. Apart(got, wsQueue') /\ Apart(got, hand)
    <3>1. \A i \in 1..Len(got) : got[i] \in 1..asked
      BY DEF Once
    <3>2. 0 \notin 1..asked
      BY DEF Once
    <3> QED BY <2>4, <3>1, <3>2 DEF Apart, Once
  <2>6. CASE x = 0
    <3>1. got' = got
      BY <2>1, <2>6
    <3>2. \A m \in 1..asked : m # x /\ m \in 0..asked
      BY <2>6 DEF Once
    <3>3. \A m \in 1..asked : Holds(wsQueue', m) \/ Holds(hand, m) \/ Holds(got, m)
      BY <2>3, <3>2 DEF Once
    <3> QED BY <2>1, <2>3, <2>4, <3>1, <3>3 DEF Once
  <2>7. CASE x # 0
    <3>1. got' = Append(got, x) /\ x \in 1..asked
      BY <2>1, <2>3, <2>7 DEF Once
    <3> HIDE DEF x
    <3>2. got' \in Seq(1..asked)
      BY <3>1 DEF Once
    <3>3. /\ Sifted(got') /\ Apart(wsQueue', got')
          /\ \A m \in 0..asked : Holds(got', m) <=> Holds(got, m) \/ m = x
      BY <2>2, <2>3, <2>4, <2>5, <3>1, AppendKeeps DEF Once
    <3>4. Apart(hand, got')
      BY <2>2, <2>3, <2>4, <2>5, <3>1, AppendKeeps DEF Once
    <3>5. \A m \in 1..asked : Holds(wsQueue', m) \/ Holds(hand, m) \/ Holds(got', m)
      BY <2>2, <2>3, <3>3 DEF Once
    <3> QED BY <2>1, <2>3, <3>2, <3>3, <3>4, <3>5 DEF Once
  <2> QED BY <2>6, <2>7
<1> QED
  BY <1>1, <1>2, <1>3, <1>4, <1>5

\* A node stays of its kind.
LEMMA KindStays == [Next]_vars => kind' = kind
<1> SUFFICES ASSUME [Next]_vars PROVE kind' = kind
  OBVIOUS
<1>1. CASE Life(UserStep) \/ Life(BaseStep)
  <2>1. UserStep => kind' = kind
    BY DEF UserStep, Start, Stop, Destroy, pipeState
  <2>2. StopJoined \/ StopTaken \/ EmptyDestroy => kind' = kind
    BY DEF StopJoined, StopTaken, EmptyDestroy, Return
  <2>3. ASSUME NEW t \in Callers, BaseStart(t) \/ BaseStop(t) \/ BaseJoined(t)
        PROVE  kind' = kind
    BY <2>3 DEF BaseStart, LeaveStart, BaseStop, BaseJoined, LeaveStop, Return, pipeState
  <2> QED
    BY <1>1, <2>1, <2>2, <2>3 DEF Life, BaseStep
<1>2. CASE Ffmpeg(FfmpegStep)
  <2>1. ASSUME NEW t, Spawn(t) PROVE kind' = kind
    BY <2>1 DEF Spawn, SpawnTest, SpawnPopen, SpawnMark, SpawnSource, SpawnOver,
       Goto, Stays, pipeState
  <2>2. ASSUME NEW t, ClearSource(t) PROVE kind' = kind
    BY <2>2 DEF ClearSource, Goto, Stays, pipeState
  <2>3. ASSUME NEW t, ClearRequest(t) \/ StopRequest(t) \/ StopPoll(t) \/ StopAwaited(t)
                      \/ MonitorJoined(t)
        PROVE  kind' = kind
    BY <2>3 DEF ClearRequest, StopRequest, StopPoll, StopAwaited, MonitorJoined,
       Return, Goto, Stays, pipeState
  <2>4. ASSUME NEW t, StopWrite(t) \/ StopTerminate(t) \/ StopReap(t) PROVE kind' = kind
    BY <2>4 DEF StopWrite, StopTerminate, StopReap, LeaveTry, Return, Goto, Stays, pipeState
  <2>5. ASSUME NEW k, MonitorStep(k) PROVE kind' = kind
    BY <2>1, <2>2, <2>5 DEF MonitorStep, MonitorWake, MonitorCheck, MonitorRecheck,
       Goto, Stays, pipeState
  <2>6. ASSUME NEW k, Killed(k) \/ Crash(k) PROVE kind' = kind
    BY <2>6 DEF Killed, Crash, Exit, Stays, pipeState
  <2> QED
    BY <1>2, <2>1, <2>2, <2>3, <2>4, <2>5, <2>6 DEF Ffmpeg, FfmpegStep, FfmpegCall
<1>3. CASE Demux(DemuxStep)
  <2>1. ASSUME NEW t, DemuxCall(t) PROVE kind' = kind
    BY <2>1 DEF DemuxCall, StartDemuxer, EndDemuxer, JoinDemuxer, Raise, Goto, Stays,
       pipeState
  <2>2. DemuxThread \/ DemuxLost => kind' = kind
    BY DEF DemuxThread, DemuxOpen, DemuxEnd, DemuxPacket, DemuxEmit, DemuxFlush,
       DemuxLost, Rtp, Stays, pipeState
  <2>3. FileThread => kind' = kind
    BY DEF FileThread, FileChunk, FileEnd, RowRaises, Stays, pipeState
  <2> QED
    BY <1>3, <2>1, <2>2, <2>3 DEF Demux, DemuxStep
<1>4. CASE Watch(WatchStep)
  <2>1. ASSUME NEW t, WatchCall(t) PROVE kind' = kind
    BY <2>1 DEF WatchCall, StartObserver, StopObserver, JoinObserver, Return, Raise,
       Goto, Stays, pipeState
  <2>2. WatchThread \/ WatchEvent \/ WatchTake \/ PassOn \/ LoadImage => kind' = kind
    BY DEF WatchThread, WatchPut, WatchEnd, WatchEvent, WatchTake, PassOn, LoadImage,
       UpdateTake, Thread, Stays, pipeState
  <2> QED
    BY <1>4, <2>1, <2>2 DEF Watch, WatchStep
<1>5. CASE Server(ServerStep)
  <2>1. ASSUME NEW t, ServerCall(t) PROVE kind' = kind
    BY <2>1 DEF ServerCall, StartServer, HttpShutdown, HttpWait, HttpShut, WsShutdown,
       Return, Raise, Goto, Stays, pipeState
  <2>2. ASSUME NEW k, HttpThread(k) \/ HttpRequest(k) PROVE kind' = kind
    BY <2>2 DEF HttpThread, HttpServe, HttpPut, HttpLeave, HttpRequest, Quiet, Stays,
       pipeState
  <2>3. HttpTake \/ WsConnect \/ WsReceive \/ WsThread => kind' = kind
    BY DEF HttpTake, WsConnect, WsReceive, WsThread, WsStop, WsSource, WsPutBack,
       WsWork, Quiet, Stays, pipeState
  <2> QED
    BY <1>5, <2>1, <2>2, <2>3 DEF Server, ServerStep
<1>6. CASE Sink(SinkStep)
  <2>1. UdpUpdate \/ NotifierUpdate \/ WarpUpdate => kind' = kind
    BY DEF UdpUpdate, NotifierUpdate, WarpUpdate, Update, pipeState
  <2>2. ASSUME NEW m, SendOver(m) PROVE kind' = kind
    BY <2>2 DEF SendOver, Stays, pipeState
  <2>3. ASSUME NEW t, JoinSender(t) PROVE kind' = kind
    BY <2>3 DEF JoinSender, Return
  <2> QED
    BY <1>6, <2>1, <2>2, <2>3 DEF Sink, SinkStep
<1>7. CASE UNCHANGED vars
  BY <1>7 DEF vars, lifeVars
<1> QED
  BY <1>1, <1>2, <1>3, <1>4, <1>5, <1>6, <1>7 DEF Next

LEMMA WsStep == WsInv /\ [Next]_vars => WsInv'
<1> SUFFICES ASSUME WsInv, [Next]_vars, kind' = "json_websocket" PROVE Once'
  BY DEF WsInv
<1>1. kind = "json_websocket" /\ Once
  BY KindStays DEF WsInv
<1>2. ASSUME UNCHANGED <<asked, wsVars>> PROVE Once'
  BY <1>1, <1>2 DEF wsVars, Once, Holds
<1>3. CASE Server(ServerStep)
  <2>1. ASSUME NEW t \in Callers, ServerCall(t) PROVE UNCHANGED <<asked, wsVars>>
    BY <2>1 DEF ServerCall, StartServer, HttpShutdown, HttpWait, HttpShut, WsShutdown,
       Http, wsVars
  <2>2. ~(\E k \in Threads : HttpThread(k) \/ HttpRequest(k)) /\ ~HttpTake
    BY <1>1 DEF HttpThread, HttpServe, HttpPut, HttpLeave, HttpRequest, HttpTake, Http, Is
  <2>3. WsConnect => UNCHANGED <<asked, wsQueue, hand, got>>
    BY DEF WsConnect
  <2>4. ASSUME UNCHANGED <<asked, wsQueue, hand, got>> PROVE Once'
    BY <1>1, <2>4 DEF Once, Holds
  <2> QED
    BY <1>1, <1>2, <1>3, <2>1, <2>2, <2>3, <2>4, WsMoves DEF Server, ServerStep, WsThread
<1>4. CASE [Next]_vars /\ ~Server(ServerStep)
  <2>1. UNCHANGED serverVars
    BY <1>4 DEF Next, vars, Life, Ffmpeg, Demux, Watch, Sink
  <2> QED BY <1>2, <2>1 DEF serverVars
<1> QED
  BY <1>3, <1>4

LEMMA WsStart == Init /\ ServerAssumption => WsInv
<1> SUFFICES ASSUME Init PROVE Once
  BY DEF WsInv
<1>1. asked = 0 /\ wsQueue = <<>> /\ hand = <<>> /\ got = <<>>
  BY DEF Init, ServerInit
<1>2. /\ wsQueue \in Seq(0..asked) /\ hand \in Seq(0..asked) /\ got \in Seq(1..asked)
      /\ Len(wsQueue) = 0 /\ Len(hand) = 0 /\ Len(got) = 0
  BY <1>1
<1>3. /\ Sifted(wsQueue) /\ Sifted(got)
      /\ Apart(wsQueue, hand) /\ Apart(wsQueue, got) /\ Apart(hand, got)
  BY <1>2 DEF Sifted, Apart
<1>4. \A m \in 1..asked : FALSE
  BY <1>1
<1>5. asked \in Nat /\ Len(hand) <= 1
  BY <1>1
<1> QED
  BY <1>2, <1>3, <1>4, <1>5 DEF Once

LEMMA Concatenated ==
  ASSUME NEW S, NEW q \in Seq(S), NEW r \in Seq(S)
  PROVE  /\ q \o r \in Seq(S) /\ Len(q \o r) = Len(q) + Len(r)
         /\ DOMAIN (q \o r) = 1..(Len(q) + Len(r))
         /\ \A i \in 1..Len(q) : (q \o r)[i] = q[i]
         /\ \A i \in 1..Len(r) : (q \o r)[Len(q) + i] = r[i]
<1>1. Len(q) \in Nat /\ Len(r) \in Nat
  OBVIOUS
<1>2. /\ q \o r \in Seq(S) /\ Len(q \o r) = Len(q) + Len(r)
      /\ \A i \in 1..(Len(q) + Len(r)) :
           (q \o r)[i] = IF i <= Len(q) THEN q[i] ELSE r[i - Len(q)]
  OBVIOUS
<1>3. DOMAIN (q \o r) = 1..(Len(q) + Len(r))
  BY <1>2
<1>4. ASSUME NEW i \in 1..Len(q) PROVE (q \o r)[i] = q[i]
  <2>1. i \in 1..(Len(q) + Len(r)) /\ i <= Len(q)
    BY <1>1
  <2> QED BY <1>2, <2>1
<1>5. ASSUME NEW i \in 1..Len(r) PROVE (q \o r)[Len(q) + i] = r[i]
  <2>1. /\ Len(q) + i \in 1..(Len(q) + Len(r)) /\ ~(Len(q) + i <= Len(q))
        /\ (Len(q) + i) - Len(q) = i
    BY <1>1
  <2> QED BY <1>2, <2>1
<1> QED BY <1>2, <1>3, <1>4, <1>5

LEMMA WsInvSuffices == WsInv => WsOnce
<1> SUFFICES ASSUME WsInv, kind = "json_websocket", NEW m \in 1..asked
             PROVE  Cardinality({i \in DOMAIN (wsQueue \o hand \o got) :
                                   (wsQueue \o hand \o got)[i] = m}) = 1
  BY DEF WsOnce, Is
<1> USE DEF WsInv
<1>1. PICK n \in Nat : n = Len(wsQueue)
  BY DEF Once
<1>2. PICK h \in Nat : h = Len(hand)
  BY DEF Once
<1>3. PICK g \in Nat : g = Len(got)
  BY DEF Once
<1> DEFINE all == wsQueue \o hand \o got
<1>4. /\ wsQueue \in Seq(0..asked) /\ hand \in Seq(0..asked) /\ got \in Seq(0..asked)
  <2>1. got \in Seq(1..asked) /\ \A i \in 1..asked : i \in 0..asked
    BY DEF Once
  <2>2. got \in Seq(0..asked)
    BY <2>1 DEF Once
  <2> QED BY <2>2 DEF Once
<1>5. /\ wsQueue \o hand \in Seq(0..asked) /\ Len(wsQueue \o hand) = n + h
      /\ \A i \in 1..n : (wsQueue \o hand)[i] = wsQueue[i]
      /\ \A i \in 1..h : (wsQueue \o hand)[n + i] = hand[i]
  BY <1>1, <1>2, <1>4, Concatenated
<1>6. /\ DOMAIN all = 1..(n + h + g)
      /\ \A i \in 1..(n + h) : all[i] = (wsQueue \o hand)[i]
      /\ \A i \in 1..g : all[n + h + i] = got[i]
  <2> DEFINE first == wsQueue \o hand
  <2>1. first \in Seq(0..asked) /\ Len(first) = n + h /\ got \in Seq(0..asked)
    BY <1>4, <1>5
  <2> HIDE DEF first
  <2>2. /\ DOMAIN (first \o got) = 1..(n + h + g)
        /\ \A i \in 1..(n + h) : (first \o got)[i] = first[i]
        /\ \A i \in 1..g : (first \o got)[n + h + i] = got[i]
    <3>1. /\ DOMAIN (first \o got) = 1..(Len(first) + Len(got))
          /\ \A i \in 1..Len(first) : (first \o got)[i] = first[i]
          /\ \A i \in 1..Len(got) : (first \o got)[Len(first) + i] = got[i]
      <4> DEFINE S == 0..asked
      <4>1. first \in Seq(S) /\ got \in Seq(S)
        BY <2>1
      <4> HIDE DEF S
      <4> QED BY <4>1, Concatenated
    <3> QED BY <1>3, <2>1, <3>1
  <2> QED BY <2>2 DEF first
<1>7. \A i \in 1..(n + h + g) :
        \/ i \in 1..n
        \/ i - n \in 1..h /\ n + (i - n) = i
        \/ i - (n + h) \in 1..g /\ n + h + (i - (n + h)) = i
  OBVIOUS
<1>8. /\ \A i \in 1..n : i \in 1..(n + h) /\ i \in 1..(n + h + g)
      /\ \A i \in 1..h : n + i \in 1..(n + h) /\ n + i \in 1..(n + h + g)
      /\ \A i \in 1..g : n + h + i \in 1..(n + h + g)
  OBVIOUS
<1>9. /\ \A i \in 1..n : all[i] = wsQueue[i]
      /\ \A i \in 1..h : all[n + i] = hand[i]
      /\ \A i \in 1..g : all[n + h + i] = got[i]
  BY <1>5, <1>6, <1>8
<1>10. m # 0
  BY DEF Once
<1> HIDE DEF all
<1>11. \E i \in DOMAIN all : all[i] = m
  <2>1. CASE Holds(wsQueue, m)
    BY <1>1, <1>6, <1>8, <1>9, <2>1 DEF Holds
  <2>2. CASE Holds(hand, m)
    BY <1>2, <1>6, <1>8, <1>9, <2>2 DEF Holds
  <2>3. CASE Holds(got, m)
    BY <1>3, <1>6, <1>8, <1>9, <2>3 DEF Holds
  <2> QED BY <2>1, <2>2, <2>3 DEF Once
<1>12. \A i \in 1..(n + h + g) : all[i] = m =>
         \/ i \in 1..n /\ wsQueue[i] = m
         \/ i - n \in 1..h /\ hand[i - n] = m
         \/ i - (n + h) \in 1..g /\ got[i - (n + h)] = m
  BY <1>7, <1>9
<1>13. /\ \A i, j \in 1..n : wsQueue[i] = m /\ wsQueue[j] = m => i = j
       /\ \A i, j \in 1..h : hand[i] = m /\ hand[j] = m => i = j
       /\ \A i, j \in 1..g : got[i] = m /\ got[j] = m => i = j
  <2>1. \A i, j \in 1..h : i = j
    BY <1>2 DEF Once
  <2> QED BY <1>1, <1>3, <1>10, <2>1 DEF Once, Sifted
<1>14. /\ \A i \in 1..n, j \in 1..h : ~(wsQueue[i] = m /\ hand[j] = m)
       /\ \A i \in 1..n, j \in 1..g : ~(wsQueue[i] = m /\ got[j] = m)
       /\ \A i \in 1..h, j \in 1..g : ~(hand[i] = m /\ got[j] = m)
  BY <1>1, <1>2, <1>3, <1>10 DEF Once, Apart
<1>15. ASSUME NEW i \in 1..(n + h + g), NEW j \in 1..(n + h + g), all[i] = m, all[j] = m
       PROVE  i = j
  <2>1. CASE i \in 1..n /\ wsQueue[i] = m
    BY <1>12, <1>13, <1>14, <1>15, <2>1
  <2>2. CASE i - n \in 1..h /\ hand[i - n] = m
    <3>1. j - n \in 1..h /\ hand[j - n] = m
      BY <1>12, <1>14, <1>15, <2>2
    <3>2. i - n = j - n
      BY <1>13, <2>2, <3>1
    <3> QED BY <3>2
  <2>3. CASE i - (n + h) \in 1..g /\ got[i - (n + h)] = m
    <3>1. j - (n + h) \in 1..g /\ got[j - (n + h)] = m
      BY <1>12, <1>14, <1>15, <2>3
    <3>2. i - (n + h) = j - (n + h)
      BY <1>13, <2>3, <3>1
    <3> QED BY <3>2
  <2> QED BY <1>12, <1>15, <2>1, <2>2, <2>3
<1>16. PICK i \in DOMAIN all : all[i] = m
  BY <1>11
<1>17. {j \in DOMAIN all : all[j] = m} = {i}
  BY <1>6, <1>15, <1>16
<1>18. Cardinality({i}) = 1
  BY FS_Singleton
<1> QED
  BY <1>17, <1>18 DEF all

\* However often the source thread of json_websocket puts a message back, the
\* worker passes it on once, and none is lost (json_websocket.py).
THEOREM WebsocketPassesOnce == ASSUME ServerAssumption PROVE Spec => []WsOnce
<1>1. Spec => []WsInv
  <2>1. Init => WsInv
    BY WsStart
  <2> QED BY <2>1, WsStep, PTL DEF Spec
<1> QED
  BY <1>1, WsInvSuffices, PTL

-----------------------------------------------------------------------------
(***************************************************************************)
(* The life of the node. Until its first start() is over nobody stops it;  *)
(* the stop events stay set, so that after a later one, if it did not come *)
(* too early, nobody does but destroy().                                   *)
(***************************************************************************)
Beginning == op[User] = "start" /\ pc[User] # "start_observer"

LifeInv ==
  /\ pstatus = "DESTROYED" => op[User] = "none"
  /\ status = "STOPPED" => ~handles /\ stopped
  /\ \A t \in Callers : pc[t] = "base_join" => stopped
  /\ starts = 0 =>
       /\ op[User] \in {"none", "destroy"} /\ Idle(Control)
       /\ ~handles /\ status # "RUNNING" /\ pstatus # "RUNNING"
       /\ status = "CONFIGURED" \/ op[User] = "destroy" \/ pstatus = "DESTROYED"
       /\ Is(WatchKinds) => ~stopSent
  /\ starts = 1 /\ Beginning => ~handles /\ Idle(Control) /\ status = "CONFIGURED"
  /\ starts = 1 /\ Is(WatchKinds) /\ op[User] = "start" => ~stopSent
  /\ starts <= 1 => ~hasty
  /\ ~hasty /\ Beginning => status # "RUNNING" /\ Idle(Control)
  /\ ~hasty /\ starts > 1 => stopped /\ Idle(Control)

\* json_http: a second start() that did not come too early is the last one.
LastStart ==
  Is({"json_http"}) /\ ~hasty =>
    /\ starts <= 2
    /\ starts = 2 /\ status = "STOPPED" =>
         op[User] \in {"start", "destroy"} \/ pstatus = "DESTROYED"

-----------------------------------------------------------------------------
(***************************************************************************)
(* The processes. One thread at a time starts one for audio_rtp, and only  *)
(* where there is none: the flag is set as long as a monitor waits.        *)
(***************************************************************************)
Spawns(t) == pc[t] \in Spawning
Waits(k) == pc[Monitor(k)] = "wait"
Marks == \E t \in Everyone : pc[t] = "mark"

AudioInv ==
  /\ \A k \in Procs : Spawns(Monitor(k)) => lock = k
  /\ starts = 0 => \A m \in Monitors : pc[m] = "idle"
  /\ ~hasty =>
       /\ Spawns(User) \/ pc[User] = "clear_request" => \A m \in Monitors : ~Spawns(m)
       /\ \A t \in Everyone : pc[t] \in {"popen", "mark"} => ~running
       /\ \A k \in Procs : Waits(k) => running /\ k = current
       /\ \A k \in Procs : Alive(k) => k = current /\ (Waits(k) \/ Marks)

\* The others: a process is there from its start to the end of a stop().
OtherInv ==
  /\ \A k \in Procs : k = current \/ k \in closed => proc[k] # "none"
  /\ ~hasty =>
       /\ starts = 0 \/ pc[User] = "popen" => \A k \in Procs : ~Alive(k)
       /\ \A k \in Procs : Alive(k) => k = current
       /\ \A t \in Callers : pc[t] = "reap" =>
            target[t] # 0 /\ current \in {0, target[t]}

ProcInv ==
  /\ Is(Audio) => AudioInv
  /\ Is({"video_rtp"}) => OtherInv
  /\ Is(Others \ {"video_rtp"}) /\ starts <= 1 => OtherInv
  /\ ~Is(FfmpegKinds) => \A k \in Procs : ~Alive(k)

\* Who is on the way to the next process of audio_rtp, or waits for its end.
Coming(t) ==
  \/ pc[t] \in {"clear_request", "test", "popen"}
  \/ t \in Monitors /\ pc[t] \in {"clear", "check", "sleep"}
Active(t) == Coming(t) \/ pc[t] = "mark" \/ (t \in Monitors /\ pc[t] = "wait")
Destroyed == op[User] = "destroy" \/ pstatus = "DESTROYED"

Read ==
  /\ \A t, u \in Everyone : Active(t) /\ Active(u) => t = u
  /\ \A k \in Procs : Alive(k) =>
       src = "real" \/ Destroyed \/ \E t \in Everyone : pc[t] \in {"mark", "source"}
  /\ \A k \in Procs : pc[Monitor(k)] # "idle" \/ k = current => proc[k] # "none"
  /\ \A k \in Procs : pc[Monitor(k)] = "mark" => k # current

ReadInv == Is(Audio) /\ starts <= 1 => Read

-----------------------------------------------------------------------------
(***************************************************************************)
(* The end of the helpers: who of the callers still sees to it.            *)
(***************************************************************************)
Leaving(t) == pc[t] \in {"base_stop", "base_join"}
Left == \E t \in Callers : Leaving(t)
Awaits(t, k) == pc[t] \in {"await", "reap"} /\ target[t] = k
Stopped == status = "STOPPED" /\ op[User] # "start"

AudioEnds ==
  Is(Audio) /\ ~hasty =>
    /\ Stopped => stopReq
    /\ \A t \in Callers : Leaving(t) \/ pc[t] \in {"poll", "await"} => stopReq
    /\ stopReq => \A k \in Procs \ late : Alive(k) =>
         \E t \in Callers : pc[t] = "poll" \/ Awaits(t, k)

Reaped(k) == \E t \in Callers : pc[t] = "pause" \/ Awaits(t, k)
VideoEnds ==
  Is({"video_rtp"}) /\ ~hasty =>
    \A k \in Procs : Alive(k) /\ (k \in closed \/ Stopped \/ Left) => Reaped(k)

DemuxEnds == Is(DemuxKinds) /\ (status = "STOPPED" \/ Left) => demux = "ended"

WatchEnds ==
  Is(WatchKinds) /\ status = "STOPPED" =>
    \/ observer = "ended"
    \/ \E t \in Callers : pc[t] \in {"stop_observer", "join_observer"}

Serving(k) == serve[k] \in {"called", "serving", "putting"}
NoneServes == \A k \in Threads : ~Serving(k)
AtShut(l) == \E t \in Callers : pc[t] = l

HttpInv ==
  /\ \A k \in Threads :
       k > starts \/ (k = starts /\ pc[User] = "start_server") => serve[k] = "none"
  /\ isShut => \E k \in Threads : serve[k] = "over"
  /\ gone => pstatus = "DESTROYED"
  /\ ~hasty =>
       /\ pc[User] = "start_server" => NoneServes
       /\ \A k \in Threads : Serving(k) => k = starts
       /\ Stopped => NoneServes \/ shutReq \/ AtShut("shutdown")
  /\ starts <= 1 =>
       /\ AtShut("shut_over") \/ isShut \/ gone => NoneServes
       /\ status = "STOPPED" =>
            \/ NoneServes
            \/ AtShut("shutdown") \/ AtShut("shut_test") \/ AtShut("shut_wait")

ServerEnds ==
  /\ \A k \in Threads : serve[k] \in {"serving", "putting"} => Is({"json_http"})
  /\ Is({"json_http"}) => HttpInv

-----------------------------------------------------------------------------
(***************************************************************************)
(* Where the threads are, and what each step does to the life of the node. *)
(***************************************************************************)
LEMMA RightWaysIn == RightKind(StartAt) /\ RightKind(StopAt) /\ RightKind(DestroyAt)
<1>1. RightKind(StartAt)
  BY DEF StartAt, RightKind, Is, Audio, Others
<1>2. RightKind(StopAt)
  BY DEF StopAt, RightKind, Is, Audio, Others, ServerKinds
<1>3. RightKind(DestroyAt)
  <2>1. CASE Is({"video_rtp", "video_file", "json_http"})
    <3>1. DestroyAt = StopAt
      BY <2>1 DEF DestroyAt, Is
    <3> QED BY <1>2, <3>1
  <2>2. CASE ~Is({"video_rtp", "video_file", "json_http"})
    BY <2>2 DEF DestroyAt, RightKind, Is, Audio, SinkKinds
  <2> QED BY <2>1, <2>2
<1> QED
  BY <1>1, <1>2, <1>3

\* The call a caller is in, by where it is.
LEMMA Where ==
  ASSUME TypeInv, Ways, NEW t \in Callers
  PROVE  /\ pc[t] \in OnStart => op[t] = "start" /\ t = User
         /\ pc[t] \in OnStop => op[t] \in {"stop", "destroy"}
         /\ pc[t] \in OnStop /\ t = User => op[t] = "destroy"
         /\ pc[t] \in OnDestroy \ OnStop => op[t] = "destroy" /\ t = User
         /\ pc[t] = "join" => op[t] = "stop" /\ t = User
         /\ op[t] = "none" <=> pc[t] = "idle"
<1>1. op[t] \in {"none", "start", "stop", "destroy"} /\ (t = User \/ t = Control)
  BY BuiltinFacts DEF TypeInv, CallsTyped
<1>2. Fits(t, op[t], pc[t])
  BY DEF Ways
<1>3. /\ OnStop \cap OnStart = {} /\ OnDestroy \cap OnStart = {}
      /\ {"idle", "join"} \cap (OnStart \cup OnDestroy) = {}
      /\ OnStop \subseteq OnDestroy
  BY DEF OnStop, OnStart, OnDestroy
<1> QED
  BY <1>1, <1>2, <1>3 DEF Fits

LEMMA FitsOn ==
  ASSUME TypeInv, Ways, NEW t \in Callers, NEW l,
         \/ pc[t] \in OnStart /\ l \in OnStart
         \/ pc[t] \in OnStop /\ l \in OnStop
         \/ op[t] = "destroy" /\ l \in OnDestroy
  PROVE  Fits(t, op[t], l)
<1>1. op[t] \in {"none", "start", "stop", "destroy"} /\ (t = User \/ t = Control)
  BY BuiltinFacts DEF TypeInv, CallsTyped
<1>2. Fits(t, op[t], pc[t])
  BY DEF Ways
<1>3. /\ OnStop \cap OnStart = {} /\ OnDestroy \cap OnStart = {}
      /\ {"idle", "join"} \cap (OnStart \cup OnDestroy) = {}
      /\ OnStop \subseteq OnDestroy
  BY DEF OnStop, OnStart, OnDestroy
<1> QED
  BY <1>1, <1>2, <1>3, BuiltinFacts DEF Fits

\* One caller goes to l, in call c.
LEMMA OneMoves ==
  ASSUME TypeInv, Ways, kind' = kind, NEW t \in Callers, NEW c, NEW l,
         op' = [op EXCEPT ![t] = c], pc' = [pc EXCEPT ![t] = l],
         Fits(t, c, l), RightKind(l)
  PROVE  Ways'
<1>1. /\ op'[t] = c /\ pc'[t] = l
      /\ \A u \in Callers \ {t} : op'[u] = op[u] /\ pc'[u] = pc[u]
      /\ \A m \in Monitors : pc'[m] = pc[m]
  BY BuiltinFacts DEF TypeInv, CallsTyped
<1>2. \A x : RightKind(x) => RightKind(x)'
  BY DEF RightKind, Is
<1>3. \A u \in Callers : Fits(u, op'[u], pc'[u]) /\ (RightKind(pc[u]))'
  <2> TAKE u \in Callers
  <2>1. CASE u = t
    <3>1. (RightKind(pc[u]))'
      BY <1>1, <2>1 DEF RightKind, Is
    <3> QED BY <1>1, <2>1, <3>1
  <2>2. CASE u # t
    <3>1. (RightKind(pc[u]))'
      BY <1>1, <2>2 DEF Ways, RightKind, Is
    <3> QED BY <1>1, <2>2, <3>1 DEF Ways
  <2> QED BY <2>1, <2>2
<1>4. \A m \in Monitors : pc'[m] \in OnWatch /\ (pc'[m] # "idle" => Is(Audio)')
  BY <1>1 DEF Ways, Is
<1> QED
  BY <1>3, <1>4 DEF Ways, Fits

\* A step within a call, or of a helper.
Moves ==
  /\ UNCHANGED <<op, kind, pstatus, starts, hasty, status, handles, stopped>>
  /\ stopSent' # stopSent => ~Is(WatchKinds)
  /\ pc[User] = "start_observer" => pc'[User] = "start_observer"
  /\ \A t \in Callers : pc'[t] = "base_join" => pc[t] = "base_join"

\* The call of t comes to its end.
Over(t) ==
  /\ op[t] # "none"
  /\ Return(t) \/ (op[t] = "start" /\ Raise(t))
  /\ op[t] = "start" => ~Is({"json_http"})
  /\ UNCHANGED nodeState

\* A control thread gets a STOP.
Taken ==
  /\ Working /\ Idle(Control)
  /\ Enter(Control, "stop", StopAt)
  /\ UNCHANGED <<kind, pstatus, starts, hasty, status, handles, stopped>>
  /\ stopSent' => stopSent

LifeMoves ==
  \/ UserStep \/ Taken \/ Moves
  \/ \E t \in Callers : Over(t) \/ BaseStart(t) \/ BaseStop(t) \/ BaseJoined(t)

LEMMA CallerOn ==
  ASSUME TypeInv, Ways, NEW t \in Callers, NEW l, Goto(t, l), RightKind(l),
         pc[t] # "start_observer", l # "base_join",
         \/ pc[t] \in OnStart /\ l \in OnStart
         \/ pc[t] \in OnStop /\ l \in OnStop
         \/ op[t] = "destroy" /\ l \in OnDestroy
  PROVE  Ways' /\ Moves
<1>1. /\ pc' = [pc EXCEPT ![t] = l]
      /\ UNCHANGED <<op, kind, pstatus, starts, hasty, stopSent, status, handles, stopped>>
  BY DEF Goto, Stays, nodeState, pipeState
<1>2. Ways'
  <2>1. op' = [op EXCEPT ![t] = op[t]]
    BY <1>1 DEF TypeInv, CallsTyped
  <2> QED BY <1>1, <2>1, FitsOn, OneMoves
<1>3. /\ pc'[t] = l
      /\ \A u \in Callers \ {t} : pc'[u] = pc[u]
  BY <1>1, BuiltinFacts DEF TypeInv, CallsTyped
<1> QED
  BY <1>1, <1>2, <1>3, BuiltinFacts DEF Moves

LEMMA MonitorOn ==
  ASSUME TypeInv, Ways, NEW m \in Monitors, NEW l \in OnWatch, Goto(m, l),
         pc[m] # "idle"
  PROVE  Ways' /\ Moves
<1>1. /\ pc' = [pc EXCEPT ![m] = l]
      /\ UNCHANGED <<op, kind, pstatus, starts, hasty, stopSent, status, handles, stopped>>
  BY DEF Goto, Stays, nodeState, pipeState
<1>2. /\ \A n \in Monitors : pc'[n] = IF n = m THEN l ELSE pc[n]
      /\ \A u \in Callers : pc'[u] = pc[u] /\ op'[u] = op[u]
  BY <1>1, BuiltinFacts DEF TypeInv, CallsTyped
<1>3. Ways'
  BY <1>1, <1>2 DEF Ways, Fits, RightKind, Is
<1> QED
  BY <1>1, <1>2, <1>3, BuiltinFacts DEF Moves

\* The call of t is over.
LEMMA OverWays ==
  ASSUME TypeInv, Ways, NEW t \in Callers, Return(t) \/ Raise(t)
  PROVE  Ways'
<1>1. /\ op' = [op EXCEPT ![t] = "none"] /\ pc' = [pc EXCEPT ![t] = "idle"]
      /\ kind' = kind
  BY DEF Return, Raise, Enter, pipeState
<1>2. Fits(t, "none", "idle") /\ RightKind("idle")
  BY DEF Fits, RightKind, OnStart
<1> QED
  BY <1>1, <1>2, OneMoves

\* Nobody moves.
LEMMA StillWays ==
  ASSUME Ways, UNCHANGED <<op, pc, kind>>
  PROVE  Ways'
  BY DEF Ways, Fits, RightKind, Is

LEMMA StillMoves ==
  ASSUME Stays, UNCHANGED pc
  PROVE  Moves /\ UNCHANGED <<op, pc, kind>>
  BY DEF Moves, Stays, nodeState, pipeState

LEMMA UserWays ==
  ASSUME TypeInv, Ways, UserStep
  PROVE  Ways'
<1>1. User \in Callers /\ User # Control
  BY BuiltinFacts
<1>2. CASE Start
  <2>1. Fits(User, "start", StartAt)
    BY <1>1, WaysIn DEF Fits, OnStart
  <2> QED
    BY <1>1, <1>2, <2>1, RightWaysIn, OneMoves DEF Start, Enter
<1>3. CASE Stop
  <2>1. Fits(User, "stop", "join") /\ RightKind("join")
    BY <1>1 DEF Fits, RightKind, OnStart
  <2> QED
    BY <1>1, <1>3, <2>1, OneMoves DEF Stop, Enter
<1>4. CASE Destroy
  <2>1. Fits(User, "destroy", DestroyAt)
    <3>1. DestroyAt # "idle" /\ DestroyAt \notin OnStart
      BY WaysIn DEF OnDestroy, OnStop, OnStart
    <3> QED BY <1>1, <3>1, WaysIn DEF Fits
  <2> QED
    BY <1>1, <1>4, <2>1, RightWaysIn, OneMoves DEF Destroy, Enter, pipeState
<1> QED
  BY <1>2, <1>3, <1>4 DEF UserStep

\* A control thread begins with stop().
LEMMA TakenWays ==
  ASSUME TypeInv, Ways, Taken
  PROVE  Ways'
<1>1. Control \in Callers /\ User # Control
  BY BuiltinFacts
<1>2. StopAt # "idle" /\ StopAt \notin OnStart
  BY WaysIn DEF OnStop, OnStart
<1>3. Fits(Control, "stop", StopAt)
  BY <1>1, <1>2, WaysIn DEF Fits
<1> QED
  BY <1>1, <1>3, RightWaysIn, OneMoves DEF Taken, Enter

LEMMA LeaveStopWays ==
  ASSUME TypeInv, Ways, NEW t \in Callers, LeaveStop(t),
         pc[t] \in {"base_stop", "base_join"}
  PROVE  Ways'
<1>1. CASE AfterStop(t) = "end"
  BY <1>1, OverWays DEF LeaveStop
<1>2. CASE AfterStop(t) # "end"
  <2>1. pc' = [pc EXCEPT ![t] = AfterStop(t)] /\ kind' = kind /\ op' = op
    BY <1>2 DEF LeaveStop, pipeState
  <2>2. op' = [op EXCEPT ![t] = op[t]]
    BY <2>1 DEF TypeInv, CallsTyped
  <2>3. /\ AfterStop(t) \in OnStop \/ (op[t] = "destroy" /\ AfterStop(t) \in OnDestroy)
        /\ RightKind(AfterStop(t))
    BY <1>2 DEF AfterStop, RightKind, Is, Audio, ServerKinds, OnDestroy, OnStop
  <2>4. pc[t] \in OnStop
    BY DEF OnStop
  <2>5. Fits(t, op[t], AfterStop(t))
    BY <2>3, <2>4, FitsOn
  <2> QED BY <2>1, <2>2, <2>3, <2>5, OneMoves
<1> QED
  BY <1>1, <1>2

LEMMA BaseWays ==
  ASSUME TypeInv, Ways, BaseStep
  PROVE  Ways' /\ LifeMoves
<1>1. CASE StopJoined \/ EmptyDestroy
  <2>1. User \in Callers /\ Return(User) /\ UNCHANGED nodeState
    BY <1>1, BuiltinFacts DEF StopJoined, EmptyDestroy
  <2>2. op[User] \in {"stop", "destroy"}
    BY <1>1, <2>1, Where DEF StopJoined, EmptyDestroy, At, OnDestroy, OnStop
  <2>3. Over(User)
    BY <2>1, <2>2 DEF Over
  <2> QED BY <2>1, <2>3, OverWays DEF LifeMoves
<1>2. CASE StopTaken
  <2>1. Taken
    BY <1>2 DEF StopTaken, Taken
  <2> QED BY <2>1, TakenWays DEF LifeMoves
<1>3. ASSUME NEW t \in Callers, BaseStart(t) PROVE Ways' /\ LifeMoves
  <2>1. CASE Is(WatchKinds)
    <3>1. pc' = [pc EXCEPT ![t] = "start_observer"] /\ kind' = kind /\ op' = op
      BY <1>3, <2>1 DEF BaseStart, LeaveStart, pipeState
    <3>2. op' = [op EXCEPT ![t] = op[t]]
      BY <3>1 DEF TypeInv, CallsTyped
    <3>3. RightKind("start_observer")
      BY <2>1 DEF RightKind
    <3>4. pc[t] \in OnStart /\ "start_observer" \in OnStart
      BY <1>3 DEF BaseStart, At, OnStart
    <3>5. Ways'
      BY <3>1, <3>2, <3>3, <3>4, FitsOn, OneMoves
    <3> QED BY <1>3, <3>5 DEF LifeMoves
  <2>2. CASE ~Is(WatchKinds)
    BY <1>3, <2>2, OverWays DEF BaseStart, LeaveStart, LifeMoves
  <2> QED BY <2>1, <2>2
<1>4. ASSUME NEW t \in Callers, BaseStop(t) PROVE Ways' /\ LifeMoves
  <2>1. CASE status = "STOPPED"
    BY <1>4, <2>1, LeaveStopWays DEF BaseStop, At, LifeMoves
  <2>2. CASE status # "STOPPED"
    <3>1. pc' = [pc EXCEPT ![t] = "base_join"] /\ kind' = kind /\ op' = op
      BY <1>4, <2>2 DEF BaseStop, pipeState
    <3>2. op' = [op EXCEPT ![t] = op[t]]
      BY <3>1 DEF TypeInv, CallsTyped
    <3>3. RightKind("base_join") /\ pc[t] \in OnStop /\ "base_join" \in OnStop
      BY <1>4 DEF BaseStop, At, OnStop, RightKind
    <3>4. Ways'
      BY <3>1, <3>2, <3>3, FitsOn, OneMoves
    <3> QED BY <1>4, <3>4 DEF LifeMoves
  <2> QED BY <2>1, <2>2
<1>5. ASSUME NEW t \in Callers, BaseJoined(t) PROVE Ways' /\ LifeMoves
  BY <1>5, LeaveStopWays DEF BaseJoined, At, LifeMoves
<1> QED
  BY <1>1, <1>2, <1>3, <1>4, <1>5 DEF BaseStep

LEMMA SpawnOverWays ==
  ASSUME TypeInv, Ways, NEW t \in Everyone, SpawnOver(t), pc[t] \in {"test", "source"}
  PROVE  Ways' /\ Moves
<1>1. CASE t \in Callers
  <2>1. Goto(t, "base_start") /\ RightKind("base_start")
    BY <1>1 DEF SpawnOver, RightKind
  <2>2. pc[t] \in OnStart /\ "base_start" \in OnStart
    BY DEF OnStart
  <2> QED BY <1>1, <2>1, <2>2, CallerOn
<1>2. CASE t \in Monitors
  <2>1. Goto(t, "idle") /\ "idle" \in OnWatch
    BY <1>2, BuiltinFacts DEF SpawnOver, OnWatch
  <2> QED BY <1>2, <2>1, MonitorOn
<1> QED
  BY <1>1, <1>2 DEF Everyone

\* On from one label of Spawn() to another.
LEMMA SpawnOn ==
  ASSUME TypeInv, Ways, NEW t \in Everyone, NEW l, Goto(t, l), RightKind(l),
         pc[t] \in {"test", "popen", "mark"},
         \/ l \in {"popen", "mark", "source"}
         \/ l = "base_start" /\ ~Is(Audio)
  PROVE  Ways' /\ Moves
<1>1. CASE t \in Callers
  <2>1. pc[t] \in OnStart /\ l \in OnStart
    BY DEF OnStart
  <2> QED BY <1>1, <2>1, CallerOn
<1>2. CASE t \in Monitors
  <2>1. l \in OnWatch
    BY <1>2 DEF OnWatch, Ways
  <2> QED BY <1>2, <2>1, MonitorOn
<1> QED
  BY <1>1, <1>2 DEF Everyone

LEMMA SpawnWays ==
  ASSUME TypeInv, Ways, NEW t \in Everyone, Spawn(t)
  PROVE  Ways' /\ Moves
<1>1. RightKind(pc[t])
  BY BuiltinFacts DEF Everyone, Ways, RightKind, OnWatch, Is, Audio, Others, FfmpegKinds
<1>2. CASE SpawnTest(t)
  <2>1. CASE running
    BY <1>2, <2>1, SpawnOverWays DEF SpawnTest, At
  <2>2. CASE ~running
    <3>1. Goto(t, "popen") /\ pc[t] = "test"
      BY <1>2, <2>2 DEF SpawnTest, At
    <3>2. RightKind("popen")
      BY <1>1, <3>1 DEF RightKind, Is, Audio, FfmpegKinds
    <3> QED BY <3>1, <3>2, SpawnOn
  <2> QED BY <2>1, <2>2
<1>3. CASE SpawnPopen(t)
  <2>1. pc[t] = "popen" /\ Is(FfmpegKinds)
    BY <1>1, <1>3 DEF SpawnPopen, At, RightKind
  <2>2. CASE Is(Audio)
    <3>1. Goto(t, "mark") /\ RightKind("mark")
      <4>1. Goto(t, "mark")
        BY <1>3, <2>2 DEF SpawnPopen, Audio, Is
      <4> QED BY <2>2, <4>1 DEF RightKind
    <3> QED BY <2>1, <3>1, SpawnOn
  <2>3. CASE ~Is(Audio)
    <3>1. PICK l \in {"base_start", "source"} : Goto(t, l)
      BY <1>3, <2>3 DEF SpawnPopen, Audio
    <3>2. RightKind(l)
      BY <2>1 DEF RightKind
    <3> QED BY <2>1, <2>3, <3>1, <3>2, SpawnOn
  <2> QED BY <2>2, <2>3
<1>4. CASE SpawnMark(t)
  <2>1. /\ pc[t] = "mark" /\ Is(Audio)
        /\ pc' = [pc EXCEPT ![t] = "source", ![Monitor(current)] = "wait"]
        /\ UNCHANGED <<op, kind, pstatus, starts, hasty, stopSent, status, handles, stopped>>
    BY <1>1, <1>4 DEF SpawnMark, At, RightKind, Stays, nodeState, pipeState
  <2>2. Monitor(current) \notin Callers
    BY DEF Monitor, Callers, User, Control
  <2>3. /\ \A u \in Callers : pc'[u] = IF u = t THEN "source" ELSE pc[u]
        /\ \A m \in Monitors : pc'[m] \in {"source", "wait", pc[m]}
    BY <2>1, <2>2 DEF TypeInv, CallsTyped, Everyone
  <2>4. RightKind("source") /\ "source" \in OnStart /\ pc[t] \in OnStart
    BY <2>1 DEF RightKind, OnStart, Is, Audio, FfmpegKinds
  <2>5. \A u \in Callers : Fits(u, op[u], pc'[u]) /\ RightKind(pc'[u])
    BY <2>3, <2>4, FitsOn DEF Ways
  <2>6. Ways'
    <3>1. \A m \in Monitors : pc[m] \in OnWatch
      BY DEF Ways
    <3>2. \A m \in Monitors : pc'[m] \in OnWatch
      BY <2>3, <3>1 DEF OnWatch
    <3>3. \A u \in Callers : (Fits(u, op[u], pc[u]) /\ RightKind(pc[u]))'
      BY <2>1, <2>5 DEF Fits, RightKind, Is
    <3>4. Is(Audio)'
      BY <2>1 DEF Is
    <3> QED BY <3>2, <3>3, <3>4 DEF Ways
  <2>7. \A u \in Callers : pc'[u] = pc[u] \/ (pc[u] = "mark" /\ pc'[u] = "source")
    BY <2>1, <2>3
  <2>8. Moves
    BY <2>1, <2>7, BuiltinFacts DEF Moves
  <2> QED BY <2>6, <2>8
<1>5. CASE SpawnSource(t)
  BY <1>5, SpawnOverWays DEF SpawnSource, At
<1> QED
  BY <1>2, <1>3, <1>4, <1>5 DEF Spawn

LEMMA MonitorWays ==
  ASSUME TypeInv, Ways, NEW k \in Procs, MonitorStep(k)
  PROVE  Ways' /\ Moves
<1>1. Monitor(k) \in Monitors /\ Monitor(k) \in Everyone /\ Monitor(k) # User
  BY BuiltinFacts
<1>2. CASE Spawn(Monitor(k))
  BY <1>1, <1>2, SpawnWays
<1>3. CASE MonitorWake(k) \/ ClearSource(Monitor(k)) \/ MonitorCheck(k) \/ MonitorRecheck(k)
  <2>1. pc[Monitor(k)] # "idle"
    BY <1>1, <1>3 DEF MonitorWake, ClearSource, MonitorCheck, MonitorRecheck, At
  <2>2. \E l \in OnWatch : Goto(Monitor(k), l)
    BY <1>1, <1>3 DEF MonitorWake, ClearSource, MonitorCheck, MonitorRecheck, OnWatch
  <2> QED BY <1>1, <2>1, <2>2, MonitorOn
<1> QED
  BY <1>2, <1>3 DEF MonitorStep

LEMMA FfmpegCallWays ==
  ASSUME TypeInv, Ways, NEW t \in Callers, FfmpegCall(t)
  PROVE  Ways' /\ (Moves \/ Over(t))
<1>0. t \in Everyone /\ RightKind(pc[t])
  BY BuiltinFacts DEF Ways
<1>1. CASE Spawn(t)
  BY <1>0, <1>1, SpawnWays
<1>2. CASE ClearRequest(t)
  <2>1. Goto(t, "test") /\ pc[t] = "clear_request"
    BY <1>2 DEF ClearRequest, At
  <2>2. pc[t] \in OnStart /\ "test" \in OnStart /\ RightKind("test")
    BY <1>0, <2>1 DEF OnStart, RightKind
  <2> QED BY <2>1, <2>2, CallerOn
<1>3. CASE ClearSource(t)
  <2>1. t = User /\ pc[t] = "clear_source" /\ Goto(t, StopAt)
    <3>1. pc[t] # "clear"
      BY Where DEF Ways, Fits, OnStart, OnStop, OnDestroy, TypeInv, CallsTyped
    <3> QED BY <1>3, <3>1 DEF ClearSource, At
  <2>2. op[t] = "destroy" /\ StopAt \in OnDestroy /\ StopAt # "base_join"
    BY <2>1, Where, WaysIn DEF OnDestroy, OnStop, StopAt
  <2> QED BY <2>1, <2>2, RightWaysIn, CallerOn
<1>4. CASE StopRequest(t) \/ StopPoll(t) \/ StopAwaited(t)
  <2>1. PICK l \in {"poll", "await", "base_stop"} : Goto(t, l)
    BY <1>4 DEF StopRequest, StopPoll, StopAwaited
  <2>2. pc[t] \in {"request", "poll", "await"}
    BY <1>4 DEF StopRequest, StopPoll, StopAwaited, At
  <2>3. pc[t] \in OnStop /\ l \in OnStop /\ RightKind(l)
    BY <1>0, <2>2 DEF OnStop, RightKind
  <2> QED BY <2>1, <2>2, <2>3, CallerOn
<1>5. CASE MonitorJoined(t)
  <2>1. Return(t) /\ UNCHANGED nodeState /\ pc[t] = "join_monitor"
    BY <1>5 DEF MonitorJoined, At
  <2>2. op[t] = "destroy"
    BY <2>1, Where DEF OnDestroy, OnStop
  <2> QED BY <2>1, <2>2, OverWays DEF Over
<1>6. ASSUME LeaveTry(t), pc[t] \in {"write_q", "pause", "reap"}
      PROVE  Ways' /\ (Moves \/ Over(t))
  <2>1. pc[t] \in OnStop
    BY <1>6 DEF OnStop
  <2>2. CASE Is({"videostream_ffmpeg"})
    <3>1. Return(t) /\ UNCHANGED nodeState
      BY <1>6, <2>2 DEF LeaveTry
    <3> QED BY <2>1, <3>1, Where, OverWays DEF Over
  <2>3. CASE ~Is({"videostream_ffmpeg"})
    <3>1. Goto(t, "base_stop") /\ "base_stop" \in OnStop /\ RightKind("base_stop")
      BY <1>6, <2>3 DEF LeaveTry, OnStop, RightKind
    <3> QED BY <1>6, <2>1, <3>1, CallerOn
  <2> QED BY <2>2, <2>3
<1>7. CASE StopWrite(t)
  <2>1. CASE WriteRaises
    BY <1>6, <1>7, <2>1 DEF StopWrite, At
  <2>2. CASE ~WriteRaises
    <3>1. Goto(t, "pause") /\ pc[t] = "write_q"
      BY <1>7, <2>2 DEF StopWrite, At
    <3>2. pc[t] \in OnStop /\ "pause" \in OnStop
      BY <3>1 DEF OnStop
    <3>3. Is({"video_rtp"})
      BY <1>0, <2>2, <3>1 DEF RightKind, WriteRaises, Is, Others, Audio, FfmpegKinds
    <3> QED BY <3>1, <3>2, <3>3, CallerOn DEF RightKind
  <2> QED BY <2>1, <2>2
<1>8. CASE StopTerminate(t)
  <2>1. CASE current = 0
    BY <1>6, <1>8, <2>1 DEF StopTerminate, At
  <2>2. CASE current # 0
    <3>1. Goto(t, "reap") /\ pc[t] = "pause"
      BY <1>8, <2>2 DEF StopTerminate, At
    <3>2. pc[t] \in OnStop /\ "reap" \in OnStop /\ RightKind("reap")
      BY <1>0, <3>1 DEF OnStop, RightKind
    <3> QED BY <3>1, <3>2, CallerOn
  <2> QED BY <2>1, <2>2
<1>9. CASE StopReap(t)
  BY <1>6, <1>9 DEF StopReap, At
<1> QED
  BY <1>1, <1>2, <1>3, <1>4, <1>5, <1>7, <1>8, <1>9 DEF FfmpegCall

LEMMA FfmpegWays ==
  ASSUME TypeInv, Ways, FfmpegStep
  PROVE  Ways' /\ LifeMoves
<1>1. ASSUME NEW t \in Callers, FfmpegCall(t) PROVE Ways' /\ LifeMoves
  BY <1>1, FfmpegCallWays DEF LifeMoves
<1>2. ASSUME NEW k \in Procs, MonitorStep(k) PROVE Ways' /\ LifeMoves
  BY <1>2, MonitorWays DEF LifeMoves
<1>3. ASSUME NEW k \in Procs, Killed(k) \/ Crash(k) PROVE Ways' /\ LifeMoves
  <2>1. Stays /\ UNCHANGED pc
    BY <1>3 DEF Killed, Crash, Exit
  <2> QED BY <2>1, StillMoves, StillWays DEF LifeMoves
<1> QED
  BY <1>1, <1>2, <1>3 DEF FfmpegStep

LEMMA DemuxWays ==
  ASSUME TypeInv, Ways, DemuxStep
  PROVE  Ways' /\ LifeMoves
<1>1. ASSUME NEW t \in Callers, DemuxCall(t) PROVE Ways' /\ LifeMoves
  <2>0. RightKind(pc[t])
    BY DEF Ways
  <2>1. CASE StartDemuxer(t)
    <3>0. pc[t] = "start_demuxer" /\ pc[t] \in OnStart /\ "base_start" \in OnStart
      BY <2>1 DEF StartDemuxer, At, OnStart
    <3>1. CASE demux = "new"
      <4>1. Goto(t, "base_start") /\ RightKind("base_start")
        BY <2>1, <3>1 DEF StartDemuxer, RightKind
      <4> QED BY <3>0, <4>1, CallerOn DEF LifeMoves
    <3>2. CASE demux # "new"
      <4>1. Raise(t) /\ UNCHANGED nodeState
        BY <2>1, <3>2 DEF StartDemuxer
      <4>2. op[t] = "start" /\ ~Is({"json_http"})
        BY <2>0, <3>0, Where DEF RightKind, Is, DemuxKinds
      <4> QED BY <4>1, <4>2, OverWays DEF Over, LifeMoves
    <3> QED BY <3>1, <3>2
  <2>2. CASE EndDemuxer(t) \/ JoinDemuxer(t)
    <3>1. PICK l \in {"join_demuxer", "base_stop"} : Goto(t, l)
      BY <2>2 DEF EndDemuxer, JoinDemuxer
    <3>2. pc[t] \in {"end_demuxer", "join_demuxer"}
      BY <2>2 DEF EndDemuxer, JoinDemuxer, At
    <3>3. pc[t] \in OnStop /\ l \in OnStop /\ RightKind(l)
      BY <2>0, <3>2 DEF OnStop, RightKind
    <3> QED BY <3>1, <3>2, <3>3, CallerOn DEF LifeMoves
  <2> QED BY <1>1, <2>1, <2>2 DEF DemuxCall
<1>2. CASE DemuxThread \/ DemuxLost \/ FileChunk \/ RowRaises
  <2>1. Stays /\ UNCHANGED pc
    BY <1>2 DEF DemuxThread, DemuxOpen, DemuxEnd, DemuxPacket, DemuxEmit, DemuxFlush,
       DemuxLost, Rtp, FileChunk, RowRaises
  <2> QED BY <2>1, StillMoves, StillWays DEF LifeMoves
<1>3. CASE FileEnd
  <2>1. /\ UNCHANGED <<op, pc, kind, pstatus, starts, hasty, status, handles, stopped>>
        /\ ~Is(WatchKinds)
    BY <1>3 DEF FileEnd, nodeState, Is, FileKinds, WatchKinds
  <2> QED BY <2>1, StillWays DEF Moves, LifeMoves
<1> QED
  BY <1>1, <1>2, <1>3 DEF DemuxStep, FileThread

LEMMA WatchWays ==
  ASSUME TypeInv, Ways, WatchStep
  PROVE  Ways' /\ LifeMoves
<1>1. ASSUME NEW t \in Callers, WatchCall(t) PROVE Ways' /\ LifeMoves
  <2>0. RightKind(pc[t])
    BY DEF Ways
  <2>1. CASE StartObserver(t)
    <3>1. pc[t] = "start_observer" /\ pc[t] \in OnStart
      BY <2>1 DEF StartObserver, At, OnStart
    <3>2. op[t] = "start" /\ ~Is({"json_http"})
      BY <2>0, <3>1, Where DEF RightKind, Is, WatchKinds
    <3>3. (Return(t) \/ Raise(t)) /\ UNCHANGED nodeState
      BY <2>1 DEF StartObserver
    <3> QED BY <3>2, <3>3, OverWays DEF Over, LifeMoves
  <2>2. CASE StopObserver(t)
    <3>1. Goto(t, "join_observer") /\ pc[t] = "stop_observer"
      BY <2>2 DEF StopObserver, At
    <3>2. pc[t] \in OnStop /\ "join_observer" \in OnStop /\ RightKind("join_observer")
      BY <2>0, <3>1 DEF OnStop, RightKind
    <3> QED BY <3>1, <3>2, CallerOn DEF LifeMoves
  <2>3. CASE JoinObserver(t)
    <3>1. Return(t) /\ UNCHANGED nodeState /\ pc[t] \in OnStop
      BY <2>3 DEF JoinObserver, At, OnStop
    <3> QED BY <3>1, Where, OverWays DEF Over, LifeMoves
  <2> QED BY <1>1, <2>1, <2>2, <2>3 DEF WatchCall
<1>2. CASE WatchThread \/ WatchEvent \/ WatchTake
  <2>1. Stays /\ UNCHANGED pc
    BY <1>2 DEF WatchThread, WatchPut, WatchEnd, WatchEvent, WatchTake, Thread
  <2> QED BY <2>1, StillMoves, StillWays DEF LifeMoves
<1>3. CASE PassOn \/ LoadImage
  <2>1. UNCHANGED <<op, pc, pipeState, status, handles, stopped>>
    BY <1>3 DEF PassOn, LoadImage, UpdateTake
  <2> QED BY <2>1, StillWays DEF Moves, LifeMoves, pipeState
<1> QED
  BY <1>1, <1>2, <1>3 DEF WatchStep

LEMMA ServerWays ==
  ASSUME TypeInv, Ways, ServerStep
  PROVE  Ways' /\ LifeMoves
<1>1. ASSUME NEW t \in Callers, ServerCall(t) PROVE Ways' /\ LifeMoves
  <2>0. RightKind(pc[t])
    BY DEF Ways
  <2>1. CASE StartServer(t)
    <3>0. pc[t] = "start_server" /\ pc[t] \in OnStart /\ "base_start" \in OnStart
      BY <2>1 DEF StartServer, At, OnStart
    <3>1. CASE Is({"json_http"}) \/ serve[1] = "none"
      <4>1. Goto(t, "base_start") /\ RightKind("base_start")
        BY <2>1, <3>1 DEF StartServer, RightKind
      <4> QED BY <3>0, <4>1, CallerOn DEF LifeMoves
    <3>2. CASE ~(Is({"json_http"}) \/ serve[1] = "none")
      <4>1. Raise(t) /\ UNCHANGED nodeState
        BY <2>1, <3>2 DEF StartServer
      <4>2. op[t] = "start"
        BY <3>0, Where
      <4> QED BY <3>2, <4>1, <4>2, OverWays DEF Over, LifeMoves
    <3> QED BY <3>1, <3>2
  <2>2. ASSUME Return(t), UNCHANGED nodeState, pc[t] \in {"shutdown", "shut_over"}
        PROVE  Ways' /\ LifeMoves
    <3>1. pc[t] \in OnStop
      BY <2>2 DEF OnStop
    <3> QED BY <2>2, <3>1, Where, OverWays DEF Over, LifeMoves
  <2>3. CASE HttpShutdown(t)
    <3>1. CASE gone
      BY <2>2, <2>3, <3>1 DEF HttpShutdown, At
    <3>2. CASE ~gone
      <4>1. Goto(t, "shut_test") /\ pc[t] = "shutdown" /\ Is({"json_http"})
        BY <2>3, <3>2 DEF HttpShutdown, At, Http
      <4>2. pc[t] \in OnStop /\ "shut_test" \in OnStop /\ RightKind("shut_test")
        BY <4>1 DEF OnStop, RightKind
      <4> QED BY <4>1, <4>2, CallerOn DEF LifeMoves
    <3> QED BY <3>1, <3>2
  <2>4. CASE HttpWait(t)
    <3>1. PICK l \in {"shut_over", "shut_wait"} : Goto(t, l)
      BY <2>4 DEF HttpWait
    <3>2. pc[t] = "shut_test"
      BY <2>4 DEF HttpWait, At
    <3>3. pc[t] \in OnStop /\ l \in OnStop /\ RightKind(l)
      BY <2>0, <3>2 DEF OnStop, RightKind
    <3> QED BY <3>1, <3>2, <3>3, CallerOn DEF LifeMoves
  <2>5. CASE HttpShut(t) \/ WsShutdown(t)
    BY <2>2, <2>5 DEF HttpShut, WsShutdown, At
  <2> QED BY <1>1, <2>1, <2>3, <2>4, <2>5 DEF ServerCall
<1>2. ASSUME NEW k \in Threads, HttpLeave(k) PROVE Ways' /\ LifeMoves
  <2>1. /\ pc' = [t \in DOMAIN pc |-> IF pc[t] = "shut_wait" THEN "shut_over" ELSE pc[t]]
        /\ UNCHANGED <<op, kind, pstatus, starts, hasty, stopSent, status, handles, stopped>>
    BY <1>2 DEF HttpLeave, At, Stays, nodeState, pipeState
  <2>2. \A t \in Everyone : \/ pc'[t] = pc[t]
                            \/ pc[t] = "shut_wait" /\ pc'[t] = "shut_over"
    BY <2>1 DEF TypeInv, CallsTyped
  <2>3. ASSUME NEW t \in Callers, pc[t] = "shut_wait"
        PROVE  Fits(t, op[t], "shut_over") /\ RightKind("shut_over")
    <3>1. pc[t] \in OnStop /\ "shut_over" \in OnStop
      BY <2>3 DEF OnStop
    <3>2. RightKind("shut_over")
      BY <2>3 DEF Ways, RightKind
    <3> QED BY <3>1, <3>2, FitsOn
  <2>4. \A t \in Callers : Fits(t, op[t], pc'[t]) /\ RightKind(pc'[t])
    BY <2>2, <2>3, BuiltinFacts DEF Ways
  <2>5. \A m \in Monitors : pc'[m] = pc[m]
    BY <2>2, BuiltinFacts DEF Ways, OnWatch
  <2>6. Ways'
    BY <2>1, <2>4, <2>5 DEF Ways, Fits, RightKind, Is
  <2>7. Moves
    BY <2>1, <2>2, BuiltinFacts DEF Moves
  <2> QED BY <2>6, <2>7 DEF LifeMoves
<1>3. ASSUME \/ \E k \in Threads : HttpServe(k) \/ HttpPut(k) \/ HttpRequest(k)
             \/ HttpTake \/ WsConnect \/ WsReceive \/ WsSource \/ WsPutBack
      PROVE  Ways' /\ LifeMoves
  <2>1. Stays /\ UNCHANGED pc
    BY <1>3 DEF HttpServe, HttpPut, HttpRequest, HttpTake, WsConnect, WsReceive,
       WsSource, WsPutBack, Quiet
  <2> QED BY <2>1, StillMoves, StillWays DEF LifeMoves
<1>4. CASE WsStop
  <2>1. /\ UNCHANGED <<op, pc, kind, pstatus, starts, hasty, status, handles, stopped>>
        /\ ~Is(WatchKinds)
    BY <1>4 DEF WsStop, Ws, nodeState, Is, WatchKinds
  <2> QED BY <2>1, StillWays DEF Moves, LifeMoves
<1>5. CASE WsWork
  <2>1. CASE Head(wsQueue) = 0 /\ updating
    <3>1. Taken
      BY <1>5, <2>1 DEF WsWork, Taken, pipeState
    <3> QED BY <3>1, TakenWays DEF LifeMoves
  <2>2. CASE ~(Head(wsQueue) = 0 /\ updating)
    <3>1. Stays /\ UNCHANGED pc
      BY <1>5, <2>2 DEF WsWork, Quiet
    <3> QED BY <3>1, StillMoves, StillWays DEF LifeMoves
  <2> QED BY <2>1, <2>2
<1> QED
  BY <1>1, <1>2, <1>3, <1>4, <1>5 DEF ServerStep, HttpThread, WsThread

LEMMA SinkWays ==
  ASSUME TypeInv, Ways, SinkStep
  PROVE  Ways' /\ LifeMoves
<1>1. CASE UdpUpdate \/ NotifierUpdate \/ WarpUpdate
  <2>1. UNCHANGED <<op, pc, pipeState, status, handles, stopped>>
    BY <1>1 DEF UdpUpdate, NotifierUpdate, WarpUpdate, Update
  <2> QED BY <2>1, StillWays DEF Moves, LifeMoves, pipeState
<1>2. ASSUME NEW m \in senders, SendOver(m) PROVE Ways' /\ LifeMoves
  <2>1. Stays /\ UNCHANGED pc
    BY <1>2 DEF SendOver
  <2> QED BY <2>1, StillMoves, StillWays DEF LifeMoves
<1>3. ASSUME NEW t \in Callers, JoinSender(t) PROVE Ways' /\ LifeMoves
  <2>1. Return(t) /\ UNCHANGED nodeState /\ pc[t] \in OnDestroy \ OnStop
    BY <1>3 DEF JoinSender, At, OnDestroy, OnStop
  <2> QED BY <2>1, Where, OverWays DEF Over, LifeMoves
<1> QED
  BY <1>1, <1>2, <1>3 DEF SinkStep

\* Everyone stays on the way, and the life of the node goes on in so many ways.
LEMMA StepMoves ==
  ASSUME TypeInv, Ways, [Next]_vars
  PROVE  Ways' /\ LifeMoves
<1>1. CASE Life(UserStep)
  BY <1>1, UserWays DEF Life, LifeMoves
<1>2. CASE Life(BaseStep)
  BY <1>2, BaseWays DEF Life
<1>3. CASE Ffmpeg(FfmpegStep)
  BY <1>3, FfmpegWays DEF Ffmpeg
<1>4. CASE Demux(DemuxStep)
  BY <1>4, DemuxWays DEF Demux
<1>5. CASE Watch(WatchStep)
  BY <1>5, WatchWays DEF Watch
<1>6. CASE Server(ServerStep)
  BY <1>6, ServerWays DEF Server
<1>7. CASE Sink(SinkStep)
  BY <1>7, SinkWays DEF Sink
<1>8. CASE UNCHANGED vars
  <2>1. Stays /\ UNCHANGED pc
    BY <1>8 DEF vars, lifeVars, Stays, nodeState, pipeState
  <2> QED BY <2>1, StillMoves, StillWays DEF LifeMoves
<1> QED
  BY <1>1, <1>2, <1>3, <1>4, <1>5, <1>6, <1>7, <1>8 DEF Next

BuiltinAssumptions ==
  /\ BuiltinAssumption /\ DemuxAssumption /\ WatchAssumption /\ ServerAssumption
  /\ SinkAssumption

LEMMA WaysInit == Init => Ways
<1> SUFFICES ASSUME Init PROVE Ways
  OBVIOUS
<1>1. /\ op = [t \in Callers |-> "none"]
      /\ pc = [t \in Callers \cup Monitors |-> "idle"]
  BY DEF Init, LifeInit
<1>2. /\ \A t \in Callers : op[t] = "none" /\ pc[t] = "idle"
      /\ \A m \in Monitors : pc[m] = "idle"
  BY <1>1
<1> QED
  BY <1>2 DEF Ways, Fits, RightKind, OnStart, OnWatch

LEMMA TypedAndOnWay == ASSUME BuiltinAssumptions PROVE Spec => [](TypeInv /\ Ways)
<1>1. Init => TypeInv /\ Ways
  BY TypeInvInit, WaysInit DEF BuiltinAssumptions
<1>2. TypeInv /\ Ways /\ [Next]_vars => (TypeInv /\ Ways)'
  <2> SUFFICES ASSUME TypeInv, Ways, [Next]_vars PROVE TypeInv' /\ Ways'
    OBVIOUS
  <2>1. InCall
    BY DEF Ways, Fits, InCall
  <2> QED
    BY <2>1, TypeInvStep, StepMoves DEF BuiltinAssumptions
<1> QED
  BY <1>1, <1>2, PTL DEF Spec

\* The variables of the built-in nodes and their helpers keep to their types.
THEOREM BuiltinsTyped == ASSUME BuiltinAssumptions PROVE Spec => []TypeOK
  BY TypedAndOnWay, TypesSuffice, PTL

-----------------------------------------------------------------------------
LEMMA LifeInit0 == Init => LifeInv /\ LastStart
<1> SUFFICES ASSUME Init PROVE LifeInv /\ LastStart
  OBVIOUS
<1>1. /\ op[User] = "none" /\ op[Control] = "none" /\ pc[User] = "idle"
      /\ pc[Control] = "idle"
      /\ pstatus = "READY" /\ starts = 0 /\ hasty = FALSE /\ status = "CONFIGURED"
      /\ handles = FALSE /\ stopped = FALSE /\ stopSent = FALSE
  BY BuiltinFacts DEF Init, LifeInit
<1> QED
  BY <1>1, BuiltinFacts DEF LifeInv, LastStart, Beginning, Idle

\* Who is where after a call, and who was there before.
LEMMA EnterFacts ==
  ASSUME TypeInv, NEW t \in Callers, NEW call, NEW l, Enter(t, call, l)
  PROVE  /\ op'[t] = call /\ pc'[t] = l
         /\ \A u \in Callers \ {t} : op'[u] = op[u] /\ pc'[u] = pc[u]
         /\ \A m \in Monitors : pc'[m] = pc[m]
  BY BuiltinFacts DEF Enter, TypeInv, CallsTyped

LEMMA ReturnFacts ==
  ASSUME TypeInv, NEW t \in Callers, Return(t)
  PROVE  /\ op'[t] = "none" /\ pc'[t] = "idle"
         /\ \A u \in Callers \ {t} : op'[u] = op[u] /\ pc'[u] = pc[u]
         /\ \A m \in Monitors : pc'[m] = pc[m]
         /\ t = Control => pstatus' = pstatus
         /\ t = User /\ op[t] = "start" => pstatus' = "RUNNING"
         /\ t = User /\ op[t] = "stop" => pstatus' = "READY"
         /\ t = User /\ op[t] = "destroy" => pstatus' = "DESTROYED"
         /\ UNCHANGED <<kind, starts, hasty, stopSent>>
<1>1. /\ op' = [op EXCEPT ![t] = "none"] /\ pc' = [pc EXCEPT ![t] = "idle"]
      /\ UNCHANGED <<kind, starts, hasty, stopSent>>
  BY DEF Return
<1>2. t = Control => pstatus' = pstatus
  BY DEF Return
<1>3. t = User => pstatus' = (CASE op[t] = "start"   -> "RUNNING"
                                [] op[t] = "stop"    -> "READY"
                                [] op[t] = "destroy" -> "DESTROYED")
  BY BuiltinFacts DEF Return
<1>4. /\ t = User /\ op[t] = "start" => pstatus' = "RUNNING"
      /\ t = User /\ op[t] = "stop" => pstatus' = "READY"
      /\ t = User /\ op[t] = "destroy" => pstatus' = "DESTROYED"
  BY <1>3
<1>5. /\ op'[t] = "none" /\ pc'[t] = "idle"
      /\ \A u \in Callers \ {t} : op'[u] = op[u] /\ pc'[u] = pc[u]
      /\ \A m \in Monitors : pc'[m] = pc[m]
  BY <1>1, BuiltinFacts DEF TypeInv, CallsTyped
<1> QED
  BY <1>1, <1>2, <1>4, <1>5

LEMMA LifeOver ==
  ASSUME TypeInv, LifeInv, NEW t \in Callers, Over(t)
  PROVE  LifeInv'
<1>1. /\ op'[t] = "none" /\ pc'[t] = "idle"
      /\ \A u \in Callers \ {t} : op'[u] = op[u] /\ pc'[u] = pc[u]
      /\ UNCHANGED <<kind, starts, hasty, stopSent, status, handles, stopped>>
  BY ReturnFacts, EnterFacts DEF Over, Raise, pipeState, nodeState
<1>2. op[t] \in {"start", "stop", "destroy"} /\ (t = User \/ t = Control)
  BY BuiltinFacts DEF Over, TypeInv, CallsTyped
<1>3. /\ t = Control => pstatus' = pstatus
      /\ t = User /\ op[t] = "destroy" => pstatus' = "DESTROYED"
      /\ t = User /\ op[t] = "stop" => pstatus' = "READY"
  BY ReturnFacts, BuiltinFacts DEF Over, Raise, pipeState
<1>4. op'[User] = "none" \/ (op'[User] = op[User] /\ pc'[User] = pc[User] /\ pstatus' = pstatus)
  BY <1>1, <1>2, <1>3, BuiltinFacts
<1>5. Idle(Control) => Idle(Control)'
  BY <1>1, BuiltinFacts DEF Idle
<1>6. Beginning' => Beginning
  BY <1>4 DEF Beginning
<1>7. pstatus' = "DESTROYED" => op'[User] = "none"
  BY <1>4 DEF LifeInv
<1>8. \A u \in Callers : pc'[u] = "base_join" => stopped'
  BY <1>1 DEF LifeInv
<1>9. starts = 0 => /\ op'[User] \in {"none", "destroy"}
                    /\ status = "CONFIGURED" \/ op'[User] = "destroy" \/ pstatus' = "DESTROYED"
                    /\ pstatus' # "RUNNING"
  <2> SUFFICES ASSUME starts = 0
               PROVE  /\ op'[User] \in {"none", "destroy"}
                      /\ status = "CONFIGURED" \/ op'[User] = "destroy" \/ pstatus' = "DESTROYED"
                      /\ pstatus' # "RUNNING"
    OBVIOUS
  <2>1. t = User /\ op[User] = "destroy"
    BY <1>2 DEF LifeInv, Idle
  <2> QED BY <1>1, <1>3, <2>1
<1> QED
  BY <1>1, <1>4, <1>5, <1>6, <1>7, <1>8, <1>9 DEF LifeInv, Is

LEMMA LifeUser ==
  ASSUME TypeInv, Ways, LifeInv, UserStep
  PROVE  LifeInv'
<1>0. User \in Callers /\ User # Control /\ Control \in Callers
  BY BuiltinFacts
<1>1. CASE Start
  <2>1. /\ op'[User] = "start" /\ pc'[User] = StartAt
        /\ op'[Control] = op[Control] /\ pc'[Control] = pc[Control]
    BY <1>0, <1>1, EnterFacts DEF Start
  <2>2. /\ op[User] = "none" /\ pstatus = "READY" /\ starts' = starts + 1
        /\ hasty' = (hasty \/ (starts > 0 /\ Unsettled))
        /\ UNCHANGED <<kind, pstatus, stopSent, status, handles, stopped>>
    BY <1>1 DEF Start, Idle, nodeState
  <2>3. starts \in Nat
    BY DEF TypeInv, CallsTyped
  <2>4. \A u \in Callers : pc'[u] = "base_join" => stopped'
    <3>1. StartAt # "base_join"
      BY WaysIn DEF OnStart
    <3> QED BY <2>1, <2>2, <3>1, BuiltinFacts DEF LifeInv
  <2>5. starts = 0 => /\ ~handles /\ Idle(Control) /\ status = "CONFIGURED" /\ ~hasty'
                      /\ Is(WatchKinds) => ~stopSent
    <3>1. starts = 0 => ~(starts > 0) /\ starts <= 1
      OBVIOUS
    <3> QED BY <2>2, <3>1 DEF LifeInv
  <2>6. starts > 0 /\ ~hasty' => status = "STOPPED" /\ Idle(Control) /\ stopped
    BY <2>2 DEF LifeInv, Unsettled
  <2>7. Idle(Control)' <=> Idle(Control)
    BY <2>1 DEF Idle
  <2>8. /\ starts' # 0 /\ (starts' <= 1 => starts = 0) /\ (starts' = 1 => starts = 0)
        /\ (starts' > 1 => starts > 0) /\ (starts = 0 \/ starts > 0)
    BY <2>2, <2>3
  <2> QED
    BY <2>1, <2>2, <2>4, <2>5, <2>6, <2>7, <2>8 DEF LifeInv, Is
<1>2. CASE Stop
  <2>1. /\ op'[User] = "stop" /\ pc'[User] = "join"
        /\ op'[Control] = op[Control] /\ pc'[Control] = pc[Control]
    BY <1>0, <1>2, EnterFacts DEF Stop
  <2>2. /\ pstatus = "RUNNING"
        /\ UNCHANGED <<kind, pstatus, starts, hasty, status, handles, stopped>>
    BY <1>2 DEF Stop, nodeState
  <2>3. \A u \in Callers : pc'[u] = "base_join" => stopped'
    BY <2>1, <2>2, BuiltinFacts DEF LifeInv
  <2>4. starts # 0
    BY <2>2 DEF LifeInv
  <2> QED
    BY <2>1, <2>2, <2>3, <2>4 DEF LifeInv, Beginning, Idle
<1>3. CASE Destroy
  <2>1. /\ op'[User] = "destroy" /\ pc'[User] = DestroyAt
        /\ op'[Control] = op[Control] /\ pc'[Control] = pc[Control]
    BY <1>0, <1>3, EnterFacts DEF Destroy
  <2>2. /\ op[User] = "none" /\ pstatus = "READY"
        /\ UNCHANGED <<kind, pstatus, starts, hasty, stopSent, status, handles, stopped>>
    BY <1>3 DEF Destroy, Idle, nodeState, pipeState
  <2>3. \A u \in Callers : pc'[u] = "base_join" => stopped'
    <3>1. DestroyAt # "base_join"
      BY DEF DestroyAt, StopAt
    <3> QED BY <2>1, <2>2, <3>1, BuiltinFacts DEF LifeInv
  <2> QED
    BY <2>1, <2>2, <2>3 DEF LifeInv, Beginning, Idle, Is
<1> QED
  BY <1>1, <1>2, <1>3 DEF UserStep

\* LeaveStop(): the call goes on, or is over.
LEMMA LeaveStopFacts ==
  ASSUME TypeInv, Ways, NEW t \in Callers, LeaveStop(t), Leaving(t)
  PROVE  /\ \A u \in Callers \ {t} : op'[u] = op[u] /\ pc'[u] = pc[u]
         /\ \A m \in Monitors : pc'[m] = pc[m]
         /\ UNCHANGED <<kind, starts, hasty, stopSent>>
         /\ \/ op'[t] = op[t] /\ pc'[t] = AfterStop(t) /\ pstatus' = pstatus
            \/ op'[t] = "none" /\ pc'[t] = "idle" /\ AfterStop(t) = "end"
         /\ t = User => op[t] = "destroy"
         /\ t = User /\ op'[t] = "none" => pstatus' = "DESTROYED"
         /\ t = Control => pstatus' = pstatus
         /\ op[t] # "start" /\ pc[t] # "start_observer"
         /\ pc'[t] # "base_join"
<1>1. pc[t] \in OnStop /\ op[t] # "start" /\ (t = User => op[t] = "destroy")
  <2>1. pc[t] \in OnStop
    BY DEF Leaving, OnStop
  <2> QED BY <2>1, Where
<1>2. CASE AfterStop(t) = "end"
  <2>1. Return(t)
    BY <1>2 DEF LeaveStop
  <2> QED BY <1>1, <1>2, <2>1, ReturnFacts, BuiltinFacts DEF Leaving
<1>3. CASE AfterStop(t) # "end"
  <2>1. pc' = [pc EXCEPT ![t] = AfterStop(t)] /\ UNCHANGED <<pipeState, op>>
    BY <1>3 DEF LeaveStop
  <2>2. /\ pc'[t] = AfterStop(t) /\ op' = op
        /\ \A u \in Everyone \ {t} : pc'[u] = pc[u]
    BY <2>1, BuiltinFacts DEF TypeInv, CallsTyped
  <2>3. AfterStop(t) # "base_join"
    BY DEF AfterStop
  <2>4. op[t] # "none"
    BY <1>1, Where DEF OnStop
  <2>5. /\ \A u \in Callers \ {t} : pc'[u] = pc[u]
        /\ \A m \in Monitors : pc'[m] = pc[m]
    BY <2>2, BuiltinFacts
  <2> QED BY <1>1, <2>1, <2>2, <2>3, <2>4, <2>5 DEF pipeState, Leaving
<1> QED
  BY <1>2, <1>3

LEMMA LifeStop ==
  ASSUME TypeInv, Ways, LifeInv, NEW t \in Callers, BaseStop(t) \/ BaseJoined(t)
  PROVE  LifeInv'
<1>0. Leaving(t) /\ User # Control /\ Control \in Callers /\ User \in Callers
      /\ (t = User \/ t = Control)
  BY BuiltinFacts DEF BaseStop, BaseJoined, At, Leaving
<1>1. t = User => op[t] = "destroy"
  <2>1. pc[t] \in OnStop
    BY <1>0 DEF Leaving, OnStop
  <2> QED BY <2>1, Where
<1>2. op[t] \notin {"none", "start"}
  <2>1. pc[t] \in OnStop
    BY <1>0 DEF Leaving, OnStop
  <2> QED BY <2>1, Where
<1>3. CASE BaseStop(t) /\ status # "STOPPED"
  <2>1. /\ pc' = [pc EXCEPT ![t] = "base_join"] /\ stopped' = TRUE
        /\ UNCHANGED <<kind, pstatus, starts, hasty, stopSent, op, status, handles>>
    BY <1>3 DEF BaseStop, pipeState
  <2>2. \A u \in Callers \ {t} : pc'[u] = pc[u]
    BY <2>1, BuiltinFacts DEF TypeInv, CallsTyped
  <2>3. Beginning' => Beginning
    BY <1>0, <1>1, <2>1, <2>2 DEF Beginning
  <2> QED
    BY <2>1, <2>3 DEF LifeInv, Idle, Is
<1>4. CASE BaseJoined(t) \/ (BaseStop(t) /\ status = "STOPPED")
  <2>1. LeaveStop(t)
    BY <1>4 DEF BaseJoined, BaseStop
  <2>2. /\ \A u \in Callers \ {t} : op'[u] = op[u] /\ pc'[u] = pc[u]
        /\ UNCHANGED <<kind, starts, hasty, stopSent>>
        /\ \/ op'[t] = op[t] /\ pstatus' = pstatus
           \/ op'[t] = "none"
        /\ t = User /\ op'[t] = "none" => pstatus' = "DESTROYED"
        /\ t = Control => pstatus' = pstatus
        /\ pc'[t] # "base_join"
    BY <1>0, <2>1, LeaveStopFacts
  <2>3. /\ stopped' = stopped /\ stopped /\ status' = "STOPPED" /\ ~handles'
    <3>1. CASE BaseJoined(t)
      BY <3>1 DEF BaseJoined, At, LifeInv
    <3>2. CASE BaseStop(t) /\ status = "STOPPED"
      BY <3>2 DEF BaseStop, LifeInv
    <3> QED BY <1>4, <3>1, <3>2
  <2>4. \A u \in Callers : pc'[u] = "base_join" => stopped'
    BY <2>3
  <2>5. Beginning' => Beginning /\ t = Control
    BY <1>0, <1>1, <2>2 DEF Beginning
  <2>6. Idle(Control) => Idle(Control)' /\ t = User
    BY <1>0, <1>2, <2>2 DEF Idle
  <2>7. pstatus' = "DESTROYED" => op'[User] = "none"
    BY <1>0, <1>1, <2>2 DEF LifeInv
  <2>8. starts = 0 => /\ op'[User] \in {"none", "destroy"}
                      /\ op'[User] = "destroy" \/ pstatus' = "DESTROYED"
                      /\ pstatus' # "RUNNING"
    BY <1>0, <1>1, <2>2, <2>6 DEF LifeInv
  <2>9. /\ ~(starts = 1 /\ Beginning')
        /\ ~hasty /\ Beginning' => Idle(Control)'
        /\ (op'[User] = "start" => op[User] = "start")
    BY <1>0, <1>1, <1>2, <2>2, <2>5, <2>6 DEF LifeInv
  <2> QED
    BY <2>2, <2>3, <2>4, <2>6, <2>7, <2>8, <2>9 DEF LifeInv, Is
<1> QED
  BY <1>3, <1>4

LEMMA LifeStep ==
  ASSUME TypeInv, Ways, LifeInv, LifeMoves
  PROVE  LifeInv'
<1>0. User # Control /\ Control \in Callers /\ User \in Callers
  BY BuiltinFacts
<1>1. CASE Moves
  <2>1. /\ UNCHANGED <<op, kind, pstatus, starts, hasty, status, handles, stopped>>
        /\ Is(WatchKinds) /\ ~stopSent => ~stopSent'
        /\ \A t \in Callers : pc'[t] = "base_join" => stopped'
    BY <1>1 DEF Moves, LifeInv
  <2>2. Beginning' => Beginning
    BY <1>1 DEF Moves, Beginning
  <2> QED
    BY <2>1, <2>2 DEF LifeInv, Idle, Is
<1>2. CASE Taken
  <2>1. /\ op'[Control] = "stop" /\ op'[User] = op[User] /\ pc'[User] = pc[User]
        /\ pc'[Control] = StopAt /\ handles /\ ~stopped /\ (stopSent' => stopSent)
        /\ UNCHANGED <<kind, pstatus, starts, hasty, status, handles, stopped>>
    BY <1>0, <1>2, EnterFacts DEF Taken, Working
  <2>2. \A t \in Callers : pc'[t] = "base_join" => stopped'
    <3>1. pc'[User] = "base_join" => stopped'
      BY <1>0, <2>1 DEF LifeInv
    <3>2. StopAt # "base_join"
      BY DEF StopAt
    <3> QED BY <2>1, <3>1, <3>2, BuiltinFacts
  <2>3. starts # 0 /\ ~(starts = 1 /\ Beginning) /\ (starts > 1 => hasty)
    BY <2>1 DEF LifeInv
  <2>4. starts \in Nat
    BY DEF TypeInv, CallsTyped
  <2>5. Beginning' <=> Beginning
    BY <2>1 DEF Beginning
  <2>6. Beginning => hasty
    BY <2>3, <2>4
  <2> QED
    BY <2>1, <2>2, <2>3, <2>5, <2>6 DEF LifeInv, Idle, Is
<1>3. ASSUME NEW t \in Callers, BaseStart(t) PROVE LifeInv'
  <2>1. t = User /\ op[t] = "start" /\ pc[t] = "base_start"
    <3>1. pc[t] = "base_start" /\ pc[t] \in OnStart
      BY <1>3 DEF BaseStart, At, OnStart
    <3> QED BY <3>1, Where
  <2>2. /\ stopped' = stopped /\ status' # "STOPPED"
        /\ (status' = status \/ status' = "RUNNING")
    BY <1>3 DEF BaseStart, LifeInv
  <2>3. /\ op'[Control] = op[Control] /\ pc'[Control] = pc[Control]
        /\ op'[User] = "none" \/ (op'[User] = "start" /\ pc'[User] = "start_observer")
        /\ pc'[User] # "base_join"
        /\ UNCHANGED <<kind, starts, hasty, stopSent>>
        /\ pstatus' \in {pstatus, "RUNNING"}
    <3>1. CASE Is(WatchKinds)
      <4>1. pc' = [pc EXCEPT ![t] = "start_observer"] /\ UNCHANGED <<pipeState, op>>
        BY <1>3, <3>1 DEF BaseStart, LeaveStart
      <4> QED BY <1>0, <2>1, <4>1, BuiltinFacts DEF TypeInv, CallsTyped, pipeState
    <3>2. CASE ~Is(WatchKinds)
      <4>1. Return(t)
        BY <1>3, <3>2 DEF BaseStart, LeaveStart
      <4> QED BY <1>0, <2>1, <4>1, ReturnFacts
    <3> QED BY <3>1, <3>2
  <2>4. \A u \in Callers : pc'[u] = "base_join" => stopped'
    BY <2>2, <2>3, BuiltinFacts DEF LifeInv
  <2>5. starts # 0 /\ ~Beginning' /\ pstatus # "DESTROYED"
    BY <2>1, <2>3 DEF LifeInv, Beginning
  <2> QED
    BY <2>1, <2>2, <2>3, <2>4, <2>5 DEF LifeInv, Idle, Is
<1> QED
  BY <1>1, <1>2, <1>3, LifeUser, LifeStop, LifeOver DEF LifeMoves

LEMMA LastStartStep ==
  ASSUME TypeInv, Ways, LifeInv, LastStart, LifeMoves
  PROVE  LastStart'
<1> SUFFICES ASSUME Is({"json_http"})', ~hasty'
             PROVE  /\ starts' <= 2
                    /\ starts' = 2 /\ status' = "STOPPED" =>
                         op'[User] \in {"start", "destroy"} \/ pstatus' = "DESTROYED"
  BY DEF LastStart
<1>0. User # Control /\ Control \in Callers /\ User \in Callers
  BY BuiltinFacts
<1>1. starts \in Nat /\ op[User] \in {"none", "start", "stop", "destroy"}
  BY <1>0 DEF TypeInv, CallsTyped
<1>2. CASE Start
  <2>1. op'[User] = "start"
    BY <1>0, <1>2, EnterFacts DEF Start
  <2>2. /\ op[User] = "none" /\ pstatus = "READY" /\ starts' = starts + 1 /\ kind' = kind
        /\ ~hasty /\ (starts > 0 => status = "STOPPED")
    BY <1>2 DEF Start, Idle, Unsettled
  <2>3. Is({"json_http"})
    BY <2>2 DEF Is
  <2>4. starts <= 2 /\ starts # 2
    <3>1. starts = 2 => starts > 0
      OBVIOUS
    <3> QED BY <2>2, <2>3, <3>1 DEF LastStart
  <2> QED BY <1>1, <2>1, <2>2, <2>4
<1>3. CASE ~Start
  <2>1. kind' = kind /\ hasty' = hasty /\ starts' = starts
    BY <1>3 DEF LifeMoves, UserStep, Stop, Destroy, Taken, Moves, Over, Return, Raise,
       BaseStart, LeaveStart, BaseStop, BaseJoined, LeaveStop, pipeState
  <2>2. Is({"json_http"}) /\ ~hasty /\ starts <= 2
    BY <2>1 DEF Is, LastStart
  <2> SUFFICES ASSUME starts = 2, status' = "STOPPED"
               PROVE  op'[User] \in {"start", "destroy"} \/ pstatus' = "DESTROYED"
    BY <2>1, <2>2
  <2>3. Idle(Control)
    BY <2>2 DEF LifeInv
  <2>4. CASE Moves \/ Taken
    <3>1. op'[User] = op[User] /\ pstatus' = pstatus /\ status' = status
      BY <1>0, <2>4, EnterFacts DEF Moves, Taken
    <3> QED BY <2>2, <3>1 DEF LastStart
  <2>5. CASE Stop
    BY <2>2, <2>5 DEF Stop, LastStart, nodeState, Idle
  <2>6. CASE Destroy
    BY <1>0, <2>6, EnterFacts DEF Destroy
  <2>7. ASSUME NEW t \in Callers, Over(t)
        PROVE  op'[User] \in {"start", "destroy"} \/ pstatus' = "DESTROYED"
    <3>1. t = User /\ status = "STOPPED" /\ op[t] # "start" /\ Return(t)
      BY <2>2, <2>3, <2>7, BuiltinFacts DEF Over, Idle, nodeState
    <3>2. op[t] = "destroy"
      BY <2>2, <2>7, <3>1 DEF Over, LastStart, LifeInv
    <3> QED BY <3>1, <3>2, ReturnFacts
  <2>8. ASSUME NEW t \in Callers, BaseStart(t) PROVE FALSE
    <3>1. status' # "STOPPED"
      BY <2>8 DEF BaseStart, LifeInv
    <3> QED BY <3>1
  <2>9. ASSUME NEW t \in Callers, BaseStop(t) \/ BaseJoined(t)
        PROVE  op'[User] \in {"start", "destroy"} \/ pstatus' = "DESTROYED"
    <3>1. pc[t] \in OnStop /\ Leaving(t)
      BY <2>9 DEF BaseStop, BaseJoined, At, OnStop, Leaving
    <3>2. t = User /\ op[t] = "destroy"
      BY <2>3, <3>1, Where, BuiltinFacts DEF Idle
    <3>3. LeaveStop(t) \/ op' = op
      BY <2>9 DEF BaseStop, BaseJoined
    <3> QED BY <3>1, <3>2, <3>3, LeaveStopFacts
  <2> QED
    BY <1>3, <2>4, <2>5, <2>6, <2>7, <2>8, <2>9 DEF LifeMoves, UserStep
<1> QED
  BY <1>2, <1>3

-----------------------------------------------------------------------------
(***************************************************************************)
(* Which steps a node of each kind takes, and where they lead.             *)
(***************************************************************************)
LEMMA KindSteps ==
  ASSUME TypeInv, Ways, ProcInv, [Next]_vars
  PROVE  \/ Life(UserStep) \/ Life(BaseStep)
         \/ Is(FfmpegKinds) /\ Ffmpeg(FfmpegStep)
         \/ Is(DemuxKinds \cup FileKinds) /\ Demux(DemuxStep)
         \/ Is(WatchKinds) /\ Watch(WatchStep)
         \/ Is(ServerKinds) /\ Server(ServerStep)
         \/ Is(SinkKinds) /\ Sink(SinkStep)
         \/ UNCHANGED <<lifeVars, ffmpegVars, demuxVars, watchVars, serverVars>>
<1>0. \A t \in Callers : RightKind(pc[t])
  BY DEF Ways
<1>1. CASE Ffmpeg(FfmpegStep)
  <2>1. ASSUME NEW t \in Callers, FfmpegCall(t) PROVE Is(FfmpegKinds)
    <3>1. pc[t] \in {"clear_request", "test", "popen", "mark", "source", "clear_source",
                     "clear", "request", "poll", "await", "join_monitor", "write_q",
                     "pause", "reap"}
      BY <2>1 DEF FfmpegCall, ClearRequest, Spawn, SpawnTest, SpawnPopen, SpawnMark,
         SpawnSource, ClearSource, StopRequest, StopPoll, StopAwaited, MonitorJoined,
         StopWrite, StopTerminate, StopReap, At
    <3>2. pc[t] # "clear"
      BY Where DEF Ways, Fits, OnStart, OnStop, OnDestroy, TypeInv, CallsTyped
    <3> QED BY <1>0, <3>1, <3>2 DEF RightKind, Is, Audio, Others, FfmpegKinds
  <2>2. ASSUME NEW k \in Procs, MonitorStep(k) PROVE Is(FfmpegKinds)
    <3>1. pc[Monitor(k)] # "idle"
      BY <2>2, BuiltinFacts DEF MonitorStep, MonitorWake, ClearSource, MonitorCheck,
         MonitorRecheck, Spawn, SpawnTest, SpawnPopen, SpawnMark, SpawnSource, At
    <3> QED BY <3>1, BuiltinFacts DEF Ways, Is, Audio, FfmpegKinds
  <2>3. ASSUME NEW k \in Procs, Killed(k) \/ Crash(k) PROVE Is(FfmpegKinds)
    BY <2>3 DEF Killed, Crash, Exit, ProcInv
  <2> QED BY <1>1, <2>1, <2>2, <2>3 DEF Ffmpeg, FfmpegStep
<1>2. CASE Demux(DemuxStep)
  <2>1. ASSUME NEW t \in Callers, DemuxCall(t) PROVE Is(DemuxKinds \cup FileKinds)
    BY <1>0, <2>1 DEF DemuxCall, StartDemuxer, EndDemuxer, JoinDemuxer, At, RightKind, Is
  <2>2. DemuxThread \/ DemuxLost \/ FileThread => Is(DemuxKinds \cup FileKinds)
    BY DEF DemuxThread, DemuxOpen, DemuxEnd, DemuxPacket, DemuxEmit, DemuxFlush, DemuxLost,
       Rtp, FileThread, FileChunk, FileEnd, RowRaises, Is, DemuxKinds, FileKinds
  <2> QED BY <1>2, <2>1, <2>2 DEF Demux, DemuxStep
<1>3. CASE Watch(WatchStep)
  <2>1. ASSUME NEW t \in Callers, WatchCall(t) PROVE Is(WatchKinds)
    BY <1>0, <2>1 DEF WatchCall, StartObserver, StopObserver, JoinObserver, At, RightKind
  <2>2. WatchThread \/ WatchEvent \/ WatchTake \/ PassOn \/ LoadImage => Is(WatchKinds)
    BY DEF WatchThread, WatchPut, WatchEnd, WatchEvent, WatchTake, Thread, PassOn,
       LoadImage, Is, WatchKinds
  <2> QED BY <1>3, <2>1, <2>2 DEF Watch, WatchStep
<1>4. CASE Server(ServerStep)
  <2>1. ASSUME NEW t \in Callers, ServerCall(t) PROVE Is(ServerKinds)
    BY <1>0, <2>1 DEF ServerCall, StartServer, HttpShutdown, HttpWait, HttpShut,
       WsShutdown, Http, Ws, At, RightKind, Is, ServerKinds
  <2>2. ASSUME NEW k \in Threads, HttpThread(k) \/ HttpRequest(k) PROVE Is(ServerKinds)
    BY <2>2 DEF HttpThread, HttpServe, HttpPut, HttpLeave, HttpRequest, Http, Is, ServerKinds
  <2>3. HttpTake \/ WsConnect \/ WsReceive \/ WsThread => Is(ServerKinds)
    BY DEF HttpTake, WsConnect, WsReceive, WsThread, WsStop, WsSource, WsPutBack, WsWork,
       Http, Ws, Is, ServerKinds
  <2> QED BY <1>4, <2>1, <2>2, <2>3 DEF Server, ServerStep
<1>5. CASE Sink(SinkStep)
  <2>1. ASSUME NEW t \in Callers, JoinSender(t) PROVE Is(SinkKinds)
    BY <1>0, <2>1 DEF JoinSender, At, RightKind
  <2>2. UdpUpdate \/ NotifierUpdate \/ WarpUpdate => Is(SinkKinds)
    BY DEF UdpUpdate, NotifierUpdate, WarpUpdate, Is, SinkKinds
  <2>3. ASSUME NEW m \in senders, SendOver(m) PROVE UNCHANGED lifeVars
    BY <2>3 DEF SendOver, Stays, nodeState, pipeState, lifeVars
  <2> QED BY <1>5, <2>1, <2>2, <2>3 DEF Sink, SinkStep
<1> QED
  BY <1>1, <1>2, <1>3, <1>4, <1>5 DEF Next, vars

LEMMA GotoFacts ==
  ASSUME TypeInv, NEW t \in Everyone, NEW l, Goto(t, l)
  PROVE  /\ pc'[t] = l /\ \A u \in Everyone \ {t} : pc'[u] = pc[u]
         /\ UNCHANGED <<op, kind, pstatus, starts, hasty, stopSent, status, handles, stopped>>
  BY DEF Goto, Stays, nodeState, pipeState, TypeInv, CallsTyped

\* The steps of module Builtin: where they begin and where they lead.
LifeLabels(t) ==
  \/ pc'[t] = pc[t]
  \/ /\ pc[t] \in {"base_start", "base_stop", "base_join", "join", "return"}
     /\ pc'[t] \in {"idle", "base_join", "shutdown", "stop_observer", "join_monitor",
                    "start_observer"}
     /\ pc'[t] = "base_join" => pc[t] = "base_stop"
  \/ pc[t] = "idle" /\ pc'[t] = "join"
  \/ pc[t] = "idle" /\ pc'[t] = StartAt /\ t = User /\ Start
  \/ pc[t] = "idle" /\ pc'[t] = StopAt
  \/ pc[t] = "idle" /\ pc'[t] = DestroyAt

LEMMA LifeGoes ==
  ASSUME TypeInv, Ways, UserStep \/ BaseStep
  PROVE  /\ \A m \in Monitors : pc'[m] = pc[m]
         /\ \A t \in Callers : LifeLabels(t)
         /\ kind' = kind /\ (starts' = 0 => starts = 0) /\ (starts' <= 1 => starts <= 1)
         /\ (hasty => hasty')
<1>0. User # Control /\ Control \in Callers /\ User \in Callers
  BY BuiltinFacts
<1>1. starts \in Nat /\ \A t \in Callers : op[t] = "none" => pc[t] = "idle"
  BY DEF TypeInv, CallsTyped, Ways, Fits
<1>2. CASE Start
  <2>1. op[User] = "none" /\ starts' = starts + 1 /\ (hasty => hasty') /\ kind' = kind
    BY <1>2 DEF Start, Idle
  <2>2. /\ pc'[User] = StartAt /\ \A u \in Callers \ {User} : pc'[u] = pc[u]
        /\ \A m \in Monitors : pc'[m] = pc[m]
    BY <1>0, <1>2, EnterFacts DEF Start
  <2>3. (starts' = 0 => starts = 0) /\ (starts' <= 1 => starts <= 1)
    BY <1>1, <2>1
  <2> QED BY <1>0, <1>1, <1>2, <2>1, <2>2, <2>3 DEF LifeLabels
<1>3. CASE Stop
  <2>1. /\ pc'[User] = "join" /\ \A u \in Callers \ {User} : pc'[u] = pc[u]
        /\ \A m \in Monitors : pc'[m] = pc[m]
    BY <1>0, <1>3, EnterFacts DEF Stop
  <2> QED BY <1>0, <1>1, <1>3, <2>1 DEF LifeLabels, Stop, Idle
<1>4. CASE Destroy
  <2>1. /\ pc'[User] = DestroyAt /\ \A u \in Callers \ {User} : pc'[u] = pc[u]
        /\ \A m \in Monitors : pc'[m] = pc[m]
    BY <1>0, <1>4, EnterFacts DEF Destroy
  <2> QED BY <1>0, <1>1, <1>4, <2>1 DEF LifeLabels, Destroy, Idle, pipeState
<1>5. CASE StopTaken
  <2>1. /\ pc'[Control] = StopAt /\ \A u \in Callers \ {Control} : pc'[u] = pc[u]
        /\ \A m \in Monitors : pc'[m] = pc[m]
    BY <1>0, <1>5, EnterFacts DEF StopTaken
  <2> QED BY <1>0, <1>1, <1>5, <2>1 DEF LifeLabels, StopTaken, Idle
<1>6. CASE StopJoined \/ EmptyDestroy
  <2>1. Return(User) /\ pc[User] \in {"join", "return"}
    BY <1>6 DEF StopJoined, EmptyDestroy, At
  <2> QED BY <1>0, <2>1, ReturnFacts DEF LifeLabels
<1>7. ASSUME NEW t \in Callers, BaseStart(t) \/ BaseStop(t) \/ BaseJoined(t)
      PROVE  /\ \A m \in Monitors : pc'[m] = pc[m]
             /\ \A u \in Callers : LifeLabels(u)
             /\ UNCHANGED <<kind, starts, hasty>>
  <2>1. pc[t] \in {"base_start", "base_stop", "base_join"}
    BY <1>7 DEF BaseStart, BaseStop, BaseJoined, At
  <2>2. \/ Return(t)
        \/ \E l \in {"base_join", "shutdown", "stop_observer", "join_monitor",
                     "start_observer"} :
             /\ pc' = [pc EXCEPT ![t] = l] /\ UNCHANGED pipeState
             /\ l = "base_join" => pc[t] = "base_stop"
    BY <1>7 DEF BaseStart, LeaveStart, BaseStop, BaseJoined, LeaveStop, AfterStop, At
  <2>3. CASE Return(t)
    BY <2>1, <2>3, ReturnFacts DEF LifeLabels
  <2>4. CASE ~Return(t)
    <3>1. PICK l \in {"base_join", "shutdown", "stop_observer", "join_monitor",
                      "start_observer"} :
             /\ pc' = [pc EXCEPT ![t] = l] /\ UNCHANGED pipeState
             /\ l = "base_join" => pc[t] = "base_stop"
      BY <2>2, <2>4
    <3>2. pc'[t] = l /\ \A u \in Everyone \ {t} : pc'[u] = pc[u]
      BY <3>1, BuiltinFacts DEF TypeInv, CallsTyped
    <3> QED BY <2>1, <3>1, <3>2, BuiltinFacts DEF LifeLabels, pipeState
  <2> QED BY <2>3, <2>4
<1> QED
  BY <1>2, <1>3, <1>4, <1>5, <1>6, <1>7 DEF UserStep, BaseStep

-----------------------------------------------------------------------------
(***************************************************************************)
(* One process of audio_rtp at a time.                                     *)
(***************************************************************************)
OnSpawn == Spawning \cup {"clear_request"}

\* Who may start a process is alone with it.
LEMMA OneSpawner ==
  ASSUME TypeInv, Ways, AudioInv, ~hasty,
         NEW t \in Everyone, NEW u \in Everyone, Spawns(t), Spawns(u)
  PROVE  t = u
<1>1. \A x \in Callers : Spawns(x) => x = User
  BY Where DEF Spawns, Spawning, OnStart
<1>2. \A x \in Everyone : Spawns(x) => x = User \/ \E k \in Procs : x = Monitor(k) /\ lock = k
  BY <1>1, BuiltinFacts DEF Everyone, AudioInv
<1>3. \A m \in Monitors : ~(Spawns(User) /\ Spawns(m))
  BY DEF AudioInv
<1> QED
  BY <1>2, <1>3, BuiltinFacts

\* Callers move where no process is started.
LEMMA AudioStill ==
  ASSUME TypeInv, Ways, AudioInv,
         \A k \in Procs : Alive(k)' => Alive(k),
         UNCHANGED <<current, lock, running>>,
         starts' = 0 => starts = 0, hasty => hasty',
         \A m \in Monitors : pc'[m] = pc[m],
         \A t \in Callers : \/ pc'[t] = pc[t]
                            \/ pc[t] \notin OnSpawn /\ pc'[t] \notin OnSpawn
                            \/ t = User /\ Start /\ pc'[t] \notin Spawning
                               /\ pc[t] \notin OnSpawn
  PROVE  AudioInv'
<1>1. \A t \in Everyone : pc'[t] \in Spawning => pc'[t] = pc[t]
  BY DEF Everyone, OnSpawn
<1>2. \A t \in Everyone : pc[t] \in Spawning => pc'[t] = pc[t]
  BY DEF Everyone, OnSpawn
<1>3. \A k \in Procs : /\ Spawns(Monitor(k))' <=> Spawns(Monitor(k))
                       /\ Waits(k)' <=> Waits(k)
  BY BuiltinFacts DEF Spawns, Waits
<1>4. \A m \in Monitors : Spawns(m)' <=> Spawns(m)
  BY DEF Spawns
<1>5. Marks => Marks'
  BY <1>2 DEF Marks, Spawning
<1>6. ASSUME ~hasty', pc'[User] \in OnSpawn PROVE \A m \in Monitors : ~Spawns(m)
  <2>0. User \in Callers
    BY BuiltinFacts
  <2>1. CASE Start
    <3>1. CASE starts = 0
      BY <3>1 DEF AudioInv, Spawns, Spawning
    <3>2. CASE starts # 0
      <4>1. ~Unsettled
        <5>1. starts > 0
          BY <3>2 DEF TypeInv, CallsTyped
        <5> QED BY <1>6, <2>1, <5>1 DEF Start
      <4> QED BY <4>1 DEF Unsettled, Spawns
    <3> QED BY <3>1, <3>2
  <2>2. CASE ~Start
    <3>1. pc'[User] = pc[User]
      BY <1>6, <2>0, <2>2
    <3> QED BY <1>6, <3>1 DEF AudioInv, OnSpawn, Spawns
  <2> QED BY <2>1, <2>2
<1>7. ~hasty' => \A k \in Procs : Alive(k)' => k = current' /\ (Waits(k)' \/ Marks')
  BY <1>3, <1>5 DEF AudioInv
<1>8. ~hasty' => \A t \in Everyone : pc'[t] \in {"popen", "mark"} => ~running'
  BY <1>1 DEF AudioInv, Spawning
<1>9. ~hasty' => \A k \in Procs : Waits(k)' => running' /\ k = current'
  BY <1>3 DEF AudioInv
<1>10. ~hasty' => ((Spawns(User) \/ pc[User] = "clear_request")' => \A m \in Monitors : ~Spawns(m)')
  BY <1>4, <1>6 DEF Spawns, OnSpawn
<1>11. \A k \in Procs : Spawns(Monitor(k))' => lock' = k
  BY <1>3 DEF AudioInv
<1>12. starts' = 0 => \A m \in Monitors : pc'[m] = "idle"
  BY DEF AudioInv
<1> QED
  BY <1>7, <1>8, <1>9, <1>10, <1>11, <1>12 DEF AudioInv

LEMMA AudioLife ==
  ASSUME TypeInv, Ways, Is(Audio), AudioInv, UserStep \/ BaseStep, UNCHANGED ffmpegVars
  PROVE  AudioInv'
<1>1. /\ UNCHANGED <<proc, current, lock, running>>
      /\ \A k \in Procs : Alive(k)' => Alive(k)
  BY DEF ffmpegVars, Alive
<1>2. StartAt = "clear_request" /\ StopAt = "request" /\ DestroyAt = "clear_source"
  <2>1. kind = "audio_rtp"
    BY DEF Is, Audio
  <2>2. StartAt = "clear_request"
    BY <2>1 DEF StartAt, Is, FfmpegKinds, DemuxKinds, ServerKinds
  <2>3. StopAt = "request"
    BY <2>1 DEF StopAt, Is, FfmpegKinds, DemuxKinds
  <2>4. DestroyAt = "clear_source"
    BY <2>1 DEF DestroyAt, Is
  <2> QED BY <2>2, <2>3, <2>4
<1>3. ASSUME NEW t \in Callers, LifeLabels(t)
      PROVE  \/ pc'[t] = pc[t]
             \/ pc[t] \notin OnSpawn /\ pc'[t] \notin OnSpawn
             \/ t = User /\ Start /\ pc'[t] \notin Spawning /\ pc[t] \notin OnSpawn
  BY <1>2, <1>3 DEF LifeLabels, OnSpawn, Spawning
<1>4. /\ \A m \in Monitors : pc'[m] = pc[m]
      /\ \A t \in Callers : LifeLabels(t)
      /\ (starts' = 0 => starts = 0) /\ (hasty => hasty')
  BY LifeGoes
<1> QED
  BY <1>1, <1>3, <1>4, AudioStill

\* The steps of Spawn(), taken by the user or by a monitor.
LEMMA AudioSpawn ==
  ASSUME BuiltinAssumption, TypeInv, Ways, LifeInv, Is(Audio), AudioInv,
         NEW t \in Everyone, Spawn(t)
  PROVE  AudioInv'
<1>0. /\ Spawns(t)
      /\ t \in Callers => t = User
      /\ User \in Everyone /\ Monitors \subseteq Everyone
  <2>1. Spawns(t)
    BY DEF Spawn, SpawnTest, SpawnPopen, SpawnMark, SpawnSource, At, Spawns, Spawning
  <2>2. t \in Callers => t = User
    BY <2>1, Where DEF Spawns, Spawning, OnStart
  <2> QED BY <2>1, <2>2, BuiltinFacts
<1>1. ~hasty => \A u \in Everyone : Spawns(u) => u = t
  BY <1>0, OneSpawner
<1>2. \A k \in Procs : Spawns(Monitor(k)) /\ t \in Monitors => Monitor(k) = t
  BY <1>0, BuiltinFacts DEF AudioInv
<1>3. starts # 0
  <2>1. CASE t \in Monitors
    BY <1>0, <2>1 DEF AudioInv, Spawns, Spawning
  <2>2. CASE t \in Callers
    <3>1. op[User] = "start"
      BY <1>0, <2>2, Where DEF Spawns, Spawning, OnStart
    <3> QED BY <3>1 DEF LifeInv
  <2> QED BY <2>1, <2>2 DEF Everyone
<1>4. CASE (SpawnTest(t) /\ ~running) \/ SpawnPopen(t)
  <2>1. PICK l \in {"popen", "mark"} : Goto(t, l) /\ (l = "mark" <=> SpawnPopen(t))
    <3>1. CASE SpawnTest(t) /\ ~running
      BY <3>1 DEF SpawnTest, SpawnPopen, At
    <3>2. CASE SpawnPopen(t)
      BY <3>2 DEF SpawnPopen, Is, Audio
    <3> QED BY <1>4, <3>1, <3>2
  <2>2. /\ pc'[t] = l /\ \A u \in Everyone \ {t} : pc'[u] = pc[u]
        /\ UNCHANGED <<starts, hasty>>
    BY <2>1, GotoFacts
  <2>3. /\ pc[t] \in {"test", "popen"} /\ UNCHANGED <<lock, running>>
    BY <1>4 DEF SpawnTest, SpawnPopen, At
  <2>4. ~hasty => ~running
    BY <1>0, <1>4, <2>3 DEF AudioInv, SpawnPopen, At
  <2>5. \A u \in Everyone : Spawns(u)' <=> Spawns(u)
    BY <1>0, <2>1, <2>2 DEF Spawns, Spawning
  <2>6. \A k \in Procs : Waits(k)' <=> Waits(k)
    BY <2>1, <2>2, <2>3, BuiltinFacts DEF Waits
  <2>7. \A k \in Procs : Spawns(Monitor(k))' => lock' = k
    BY <2>3, <2>5, BuiltinFacts DEF AudioInv
  <2>8. ~hasty' => ((Spawns(User) \/ pc[User] = "clear_request")' => \A m \in Monitors : ~Spawns(m)')
    <3>1. pc'[User] = "clear_request" => pc[User] = "clear_request"
      BY <1>0, <2>1, <2>2
    <3> QED BY <1>0, <2>2, <2>5, <3>1 DEF AudioInv
  <2>9. ~hasty' => \A u \in Everyone : pc'[u] \in {"popen", "mark"} => ~running'
    BY <2>2, <2>3, <2>4
  <2>10. ~hasty => \A k \in Procs : ~Waits(k)
    BY <2>4 DEF AudioInv
  <2>11. ~hasty' => \A k \in Procs : Alive(k)' => k = current' /\ (Waits(k)' \/ Marks')
    <3> SUFFICES ASSUME ~hasty, NEW k \in Procs, Alive(k)'
                 PROVE  k = current' /\ (Waits(k)' \/ Marks')
      BY <2>2
    <3>1. ~Marks
      <4>1. \A u \in Everyone : pc[u] = "mark" => u = t
        BY <1>1 DEF Spawns, Spawning
      <4> QED BY <2>3, <4>1 DEF Marks
    <3>2. ~Alive(k)
      BY <2>10, <3>1 DEF AudioInv
    <3>3. SpawnPopen(t)
      BY <1>4, <3>2 DEF SpawnTest, Alive
    <3>4. k = current'
      <4>1. PICK j \in Procs : proc' = [proc EXCEPT ![j] = "alive"] /\ current' = j
        BY <3>3 DEF SpawnPopen
      <4>2. k # j => proc'[k] = proc[k]
        BY <4>1 DEF TypeInv, FfmpegTypeOK
      <4> QED BY <3>2, <4>1, <4>2 DEF Alive
    <3>5. Marks'
      BY <2>1, <2>2, <3>3 DEF Marks
    <3> QED BY <3>4, <3>5
  <2>12. ~hasty' => \A k \in Procs : Waits(k)' => running' /\ k = current'
    BY <2>2, <2>6, <2>10
  <2> QED
    BY <1>3, <2>2, <2>7, <2>8, <2>9, <2>11, <2>12 DEF AudioInv
<1>5. CASE SpawnMark(t)
  <2>1. /\ pc[t] = "mark" /\ running' = TRUE
        /\ pc' = [pc EXCEPT ![t] = "source", ![Monitor(current)] = "wait"]
        /\ UNCHANGED <<proc, current, lock, starts, hasty>>
    BY <1>5 DEF SpawnMark, At, Stays, pipeState
  <2>2. Monitor(current) \notin Callers /\ current \in 0..MaxProcs
    BY DEF Monitor, Callers, User, Control, TypeInv, FfmpegTypeOK
  <2>3. \A u \in Everyone : pc'[u] = IF u = Monitor(current) THEN "wait"
                                     ELSE IF u = t THEN "source" ELSE pc[u]
    BY <2>1, <2>2 DEF TypeInv, CallsTyped
  <2>4. \A u \in Everyone : Spawns(u)' => Spawns(u)
    BY <1>0, <2>3 DEF Spawns, Spawning
  <2>5. \A k \in Procs : Spawns(Monitor(k))' => lock' = k
    BY <2>1, <2>4, BuiltinFacts DEF AudioInv
  <2>6. ~hasty' => ((Spawns(User) \/ pc[User] = "clear_request")' => \A m \in Monitors : ~Spawns(m)')
    <3>1. pc'[User] = "clear_request" => pc[User] = "clear_request"
      BY <1>0, <2>2, <2>3, BuiltinFacts
    <3> QED BY <1>0, <2>1, <2>4, <3>1 DEF AudioInv
  <2>7. ~hasty' => \A u \in Everyone : pc'[u] \notin {"popen", "mark"}
    <3>1. ~hasty => \A u \in Everyone : pc[u] \in {"popen", "mark"} => u = t
      BY <1>1 DEF Spawns, Spawning
    <3>2. \A u \in Everyone : pc'[u] \in {"source", "wait"} \/ (u # t /\ pc'[u] = pc[u])
      BY <2>3
    <3>3. hasty' = hasty
      BY <2>1
    <3> QED BY <3>1, <3>2, <3>3
  <2>8. ~hasty' => \A k \in Procs : Waits(k)' => running' /\ k = current'
    <3>1. ~hasty => ~running
      BY <1>0, <2>1, BuiltinFacts DEF AudioInv
    <3>2. ~hasty => \A k \in Procs : ~Waits(k)
      BY <3>1 DEF AudioInv
    <3>3. \A k \in Procs : Waits(k)' => Monitor(k) = Monitor(current) \/ Waits(k)
      BY <2>3, BuiltinFacts DEF Waits
    <3>4. \A k : Monitor(k) = Monitor(current) => k = current
      BY DEF Monitor
    <3> QED BY <2>1, <3>2, <3>3, <3>4
  <2>9. ~hasty' => \A k \in Procs : Alive(k)' => k = current' /\ Waits(k)'
    BY <2>1, <2>3, BuiltinFacts DEF AudioInv, Alive, Waits
  <2> QED
    BY <1>3, <2>1, <2>5, <2>6, <2>7, <2>8, <2>9 DEF AudioInv
<1>6. CASE (SpawnTest(t) /\ running) \/ SpawnSource(t)
  <2>1. SpawnOver(t) /\ pc[t] \in {"test", "source"} /\ UNCHANGED <<proc, current, running>>
    BY <1>6 DEF SpawnTest, SpawnSource, At
  <2>2. PICK l \in {"base_start", "idle"} : Goto(t, l)
    BY <2>1 DEF SpawnOver
  <2>3. /\ pc'[t] = l /\ \A u \in Everyone \ {t} : pc'[u] = pc[u]
        /\ UNCHANGED <<starts, hasty>>
    BY <2>2, GotoFacts
  <2>4. \A u \in Everyone : /\ Spawns(u)' => Spawns(u) /\ u # t
                            /\ pc'[u] \in {"popen", "mark", "wait", "clear_request"} <=>
                                 pc[u] \in {"popen", "mark", "wait", "clear_request"}
                            /\ pc'[u] \in {"popen", "mark", "wait", "clear_request"} =>
                                 pc'[u] = pc[u]
    BY <2>1, <2>2, <2>3 DEF Spawns, Spawning
  <2>5. \A k \in Procs : Spawns(Monitor(k))' => lock' = k
    <3>1. CASE t \in Callers
      BY <2>1, <2>4, <3>1, BuiltinFacts DEF AudioInv, SpawnOver
    <3>2. CASE t \in Monitors
      BY <1>2, <2>4, <3>2, BuiltinFacts
    <3> QED BY <3>1, <3>2 DEF Everyone
  <2>6. \A k \in Procs : Waits(k)' <=> Waits(k)
    BY <2>4, BuiltinFacts DEF Waits
  <2>7. Marks => Marks'
    BY <2>4 DEF Marks
  <2>8. ~hasty' => ((Spawns(User) \/ pc[User] = "clear_request")' => \A m \in Monitors : ~Spawns(m)')
    BY <1>0, <2>3, <2>4 DEF AudioInv
  <2>9. ~hasty' => \A u \in Everyone : pc'[u] \in {"popen", "mark"} => ~running'
    BY <2>1, <2>3, <2>4 DEF AudioInv
  <2>10. ~hasty' => \A k \in Procs : Alive(k)' => k = current' /\ (Waits(k)' \/ Marks')
    BY <2>1, <2>3, <2>6, <2>7 DEF AudioInv, Alive
  <2>11. ~hasty' => \A k \in Procs : Waits(k)' => running' /\ k = current'
    BY <2>1, <2>3, <2>6 DEF AudioInv
  <2> QED
    BY <1>3, <2>3, <2>5, <2>8, <2>9, <2>10, <2>11 DEF AudioInv
<1> QED
  BY <1>4, <1>5, <1>6 DEF Spawn, SpawnTest

\* The other steps of a monitor.
LEMMA AudioMonitor ==
  ASSUME BuiltinAssumption, TypeInv, Ways, LifeInv, Is(Audio), AudioInv,
         NEW k \in Procs, MonitorStep(k)
  PROVE  AudioInv'
<1>0. /\ Monitor(k) \in Everyone /\ Monitor(k) \in Monitors /\ Monitor(k) # User
      /\ User \in Everyone /\ User \notin Monitors
  BY BuiltinFacts
<1>1. CASE Spawn(Monitor(k))
  BY <1>0, <1>1, AudioSpawn
<1>2. CASE MonitorWake(k) \/ ClearSource(Monitor(k)) \/ MonitorCheck(k) \/ MonitorRecheck(k)
  <2>1. PICK l \in {"clear", "check", "sleep", "idle", "test"} :
          Goto(Monitor(k), l) /\ (l = "test" => MonitorRecheck(k) /\ MayRestart /\ lock' = k)
    BY <1>0, <1>2 DEF MonitorWake, ClearSource, MonitorCheck, MonitorRecheck
  <2>2. /\ pc'[Monitor(k)] = l /\ \A u \in Everyone \ {Monitor(k)} : pc'[u] = pc[u]
        /\ UNCHANGED <<starts, hasty, status>>
    BY <1>0, <2>1, GotoFacts
  <2>3. /\ pc[Monitor(k)] \in {"wait", "clear", "check", "sleep"}
        /\ UNCHANGED <<proc, current>>
        /\ MonitorRecheck(k) => lock = 0 /\ lock' \in {0, k} /\ running' = running
        /\ ~MonitorRecheck(k) => lock' = lock
        /\ MonitorWake(k) => pc[Monitor(k)] = "wait" /\ proc[k] = "exited" /\ running' = FALSE
        /\ ~MonitorWake(k) => running' = running /\ pc[Monitor(k)] # "wait"
    BY <1>0, <1>2 DEF MonitorWake, ClearSource, MonitorCheck, MonitorRecheck, ffmpegVars, At
  <2>4. starts # 0
    BY <1>0, <2>3 DEF AudioInv
  <2>5. \A j \in Procs : Spawns(Monitor(j))' => lock' = j
    <3>1. CASE MonitorRecheck(k)
      <4>1. \A j \in Procs : ~Spawns(Monitor(j))
        BY <2>3, <3>1 DEF AudioInv, Procs
      <4>2. \A j \in Procs : Spawns(Monitor(j))' => j = k /\ l = "test"
        <5>1. l \in Spawning => l = "test"
          BY <2>1 DEF Spawning
        <5> QED BY <2>2, <4>1, <5>1, BuiltinFacts DEF Spawns
      <4> QED BY <2>1, <4>2
    <3>2. CASE ~MonitorRecheck(k)
      <4>1. ~(l \in Spawning)
        BY <2>1, <3>2 DEF Spawning
      <4>2. \A j \in Procs : Spawns(Monitor(j))' => Spawns(Monitor(j))
        BY <2>2, <4>1, BuiltinFacts DEF Spawns
      <4> QED BY <2>3, <3>2, <4>2 DEF AudioInv
    <3> QED BY <3>1, <3>2
  <2>6. ~hasty' => ((Spawns(User) \/ pc[User] = "clear_request")' => \A m \in Monitors : ~Spawns(m)')
    <3> SUFFICES ASSUME ~hasty, Spawns(User) \/ pc[User] = "clear_request"
                 PROVE  \A m \in Monitors : ~Spawns(m)'
      BY <1>0, <2>2 DEF Spawns
    <3>1. pc[User] \in OnStart /\ pc[User] # "start_observer"
      BY DEF Spawns, Spawning, OnStart
    <3>2. status # "RUNNING"
      BY <3>1, Where, BuiltinFacts DEF LifeInv, Beginning
    <3>3. l \notin Spawning
      BY <2>1, <3>2 DEF MayRestart, Spawning
    <3> QED BY <2>2, <3>3, BuiltinFacts DEF AudioInv, Spawns
  <2>7. \A u \in Everyone : pc'[u] \in {"popen", "mark"} <=> pc[u] \in {"popen", "mark"}
    BY <2>1, <2>2, <2>3
  <2>8. ~hasty' => \A u \in Everyone : pc'[u] \in {"popen", "mark"} => ~running'
    BY <2>2, <2>3, <2>7 DEF AudioInv
  <2>9. Marks => Marks'
    BY <2>2, <2>3 DEF Marks
  <2>10. \A j \in Procs : (Waits(j)' => Waits(j)) /\ (j # k => (Waits(j)' <=> Waits(j)))
    BY <2>1, <2>2, BuiltinFacts DEF Waits
  <2>11. ~hasty' => \A j \in Procs : Waits(j)' => running' /\ j = current'
    <3>1. CASE MonitorWake(k)
      <4>1. ~Waits(k)'
        BY <2>1, <2>2 DEF Waits
      <4>2. Waits(k)
        BY <2>3, <3>1 DEF Waits
      <4>3. ~hasty => \A j \in Procs : Waits(j)' => j = current /\ k = current
        BY <2>10, <4>2 DEF AudioInv
      <4> QED BY <2>2, <4>1, <4>3
    <3>2. CASE ~MonitorWake(k)
      BY <2>2, <2>3, <2>10, <3>2 DEF AudioInv
    <3> QED BY <3>1, <3>2
  <2>12. ~hasty' => \A j \in Procs : Alive(j)' => j = current' /\ (Waits(j)' \/ Marks')
    <3> SUFFICES ASSUME ~hasty, NEW j \in Procs, Alive(j) PROVE j = current /\ (Waits(j)' \/ Marks')
      BY <2>2, <2>3 DEF Alive
    <3>1. j = current /\ (Waits(j) \/ Marks)
      BY DEF AudioInv
    <3>2. Waits(j) => Waits(j)'
      <4>1. CASE j = k
        BY <2>3, <4>1 DEF Waits, Alive
      <4>2. CASE j # k
        BY <2>10, <4>2
      <4> QED BY <4>1, <4>2
    <3> QED BY <2>9, <3>1, <3>2
  <2> QED
    BY <2>2, <2>4, <2>5, <2>6, <2>8, <2>11, <2>12 DEF AudioInv
<1> QED
  BY <1>1, <1>2 DEF MonitorStep

LEMMA AudioCall ==
  ASSUME BuiltinAssumption, TypeInv, Ways, LifeInv, Is(Audio), AudioInv,
         NEW t \in Callers, FfmpegCall(t)
  PROVE  AudioInv'
<1>0. t \in Everyone /\ RightKind(pc[t]) /\ User \in Callers
  BY BuiltinFacts DEF Ways
<1>1. CASE Spawn(t)
  BY <1>0, <1>1, AudioSpawn
<1>2. CASE ClearRequest(t)
  <2>1. /\ Goto(t, "test") /\ pc[t] = "clear_request"
        /\ UNCHANGED <<proc, current, lock, running>>
    BY <1>2 DEF ClearRequest, At
  <2>2. /\ pc'[t] = "test" /\ \A u \in Everyone \ {t} : pc'[u] = pc[u]
        /\ UNCHANGED <<starts, hasty>>
    BY <1>0, <2>1, GotoFacts
  <2>3. t = User /\ starts # 0
    <3>1. t = User /\ op[t] = "start"
      BY <2>1, Where DEF OnStart
    <3> QED BY <3>1 DEF LifeInv
  <2>4. \A m \in Monitors : pc'[m] = pc[m]
    BY <2>2, BuiltinFacts
  <2>5. /\ \A k \in Procs : Spawns(Monitor(k))' => lock' = k
        /\ \A k \in Procs : Waits(k)' <=> Waits(k)
    BY <2>1, <2>4, BuiltinFacts DEF AudioInv, Spawns, Waits
  <2>6. ~hasty => \A m \in Monitors : ~Spawns(m)'
    BY <2>1, <2>3, <2>4 DEF AudioInv, Spawns
  <2>7. \A u \in Everyone : pc'[u] \in {"popen", "mark"} => pc'[u] = pc[u]
    BY <2>2
  <2>8. Marks => Marks'
    BY <2>1, <2>2 DEF Marks
  <2>9. ~hasty' => \A k \in Procs : Alive(k)' => k = current' /\ (Waits(k)' \/ Marks')
    BY <2>1, <2>2, <2>5, <2>8 DEF AudioInv, Alive
  <2>10. ~hasty' => \A u \in Everyone : pc'[u] \in {"popen", "mark"} => ~running'
    BY <2>1, <2>2, <2>7 DEF AudioInv
  <2>11. ~hasty' => \A k \in Procs : Waits(k)' => running' /\ k = current'
    BY <2>1, <2>2, <2>5 DEF AudioInv
  <2> QED
    BY <2>2, <2>3, <2>5, <2>6, <2>9, <2>10, <2>11 DEF AudioInv
<1>3. CASE ClearSource(t) \/ StopRequest(t) \/ StopPoll(t) \/ StopAwaited(t) \/ MonitorJoined(t)
  <2>1. /\ pc[t] \in {"clear_source", "clear", "request", "poll", "await", "join_monitor"}
        /\ UNCHANGED <<proc, current, lock, running>>
    BY <1>3 DEF ClearSource, StopRequest, StopPoll, StopAwaited, MonitorJoined, At, ffmpegVars
  <2>2. /\ pc'[t] \notin OnSpawn /\ \A u \in Everyone \ {t} : pc'[u] = pc[u]
        /\ UNCHANGED <<starts, hasty>>
    <3>1. CASE MonitorJoined(t)
      <4>1. Return(t)
        BY <3>1 DEF MonitorJoined
      <4> QED BY <4>1, ReturnFacts, BuiltinFacts DEF OnSpawn, Spawning, Everyone
    <3>2. CASE ~MonitorJoined(t)
      <4>1. PICK l \in {StopAt, "check", "poll", "await", "base_stop"} : Goto(t, l)
        BY <1>3, <3>2 DEF ClearSource, StopRequest, StopPoll, StopAwaited
      <4>2. StopAt \notin OnSpawn
        BY WaysIn DEF OnStop, OnSpawn, Spawning
      <4>3. l \notin OnSpawn
        BY <4>2 DEF OnSpawn, Spawning
      <4> QED BY <1>0, <4>1, <4>3, GotoFacts
    <3> QED BY <3>1, <3>2
  <2>3. /\ pc[t] \notin OnSpawn
        /\ \A k \in Procs : Alive(k)' => Alive(k)
        /\ \A m \in Monitors : pc'[m] = pc[m]
        /\ \A u \in Callers \ {t} : pc'[u] = pc[u]
    BY <2>1, <2>2, BuiltinFacts DEF OnSpawn, Spawning, Alive
  <2> QED
    BY <2>1, <2>2, <2>3, AudioStill
<1>4. CASE StopWrite(t) \/ StopTerminate(t) \/ StopReap(t)
  <2>1. pc[t] \in {"write_q", "pause", "reap"}
    BY <1>4 DEF StopWrite, StopTerminate, StopReap, At
  <2>2. FALSE
    BY <1>0, <2>1 DEF RightKind, Is, Audio, Others
  <2> QED BY <2>2
<1> QED
  BY <1>1, <1>2, <1>3, <1>4 DEF FfmpegCall

LEMMA AudioExit ==
  ASSUME TypeInv, Ways, AudioInv, NEW k \in Procs, Killed(k) \/ Crash(k)
  PROVE  AudioInv'
<1>1. /\ proc' = [proc EXCEPT ![k] = "exited"]
      /\ UNCHANGED <<pc, current, running, lock, starts, hasty>>
  BY DEF Killed, Crash, Exit, Stays, pipeState
<1>2. \A j \in Procs : Alive(j)' => Alive(j)
  BY <1>1 DEF Alive, TypeInv, FfmpegTypeOK
<1> QED
  BY <1>1, <1>2, AudioStill

-----------------------------------------------------------------------------
(***************************************************************************)
(* The others, one process at a time too, and video_rtp sees to its end.   *)
(***************************************************************************)
\* A node that is now STOPPED was so before, or one of the callers was on its
\* way through Node.stop().
LEMMA StoppedBefore ==
  ASSUME TypeInv, Ways, LifeInv, UserStep \/ BaseStep, Stopped'
  PROVE  Stopped \/ Left
<1>0. User \in Callers /\ Control \in Callers /\ User # Control
  BY BuiltinFacts
<1>1. CASE UserStep
  <2>1. status = "STOPPED"
    BY <1>1 DEF UserStep, Start, Stop, Destroy, nodeState, Stopped
  <2>2. op[User] = "none"
    BY <1>1 DEF UserStep, Start, Stop, Destroy, Idle
  <2> QED BY <2>1, <2>2 DEF Stopped
<1>2. CASE StopJoined \/ EmptyDestroy
  <2>1. status = "STOPPED" /\ pc[User] \in {"join", "return"}
    BY <1>2 DEF StopJoined, EmptyDestroy, nodeState, Stopped, At
  <2>2. op[User] # "start"
    BY <1>0, <2>1, Where DEF OnDestroy, OnStop
  <2> QED BY <2>1, <2>2 DEF Stopped
<1>3. CASE StopTaken
  <2>1. status = "STOPPED" /\ op'[User] = op[User]
    BY <1>0, <1>3, EnterFacts DEF StopTaken, Stopped
  <2> QED BY <2>1 DEF Stopped
<1>4. ASSUME NEW t \in Callers, BaseStart(t) PROVE FALSE
  BY <1>4 DEF BaseStart, Stopped, LifeInv
<1>5. ASSUME NEW t \in Callers, BaseStop(t) \/ BaseJoined(t) PROVE Left
  BY <1>5 DEF BaseStop, BaseJoined, At, Left, Leaving
<1> QED
  BY <1>1, <1>2, <1>3, <1>4, <1>5 DEF BaseStep

\* The labels of Others, where a step of Builtin neither begins nor leads.
LEMMA OtherLabels ==
  ASSUME Is(Others)
  PROVE  /\ StartAt = "popen" /\ StopAt = "write_q"
         /\ DestroyAt \in {"write_q", "return"}
<1>0. kind \in {"video_rtp", "video_file", "videostream_ffmpeg"}
  BY DEF Is, Others, Audio, FfmpegKinds
<1>1. StartAt = "popen"
  BY <1>0 DEF StartAt, Is, FfmpegKinds, DemuxKinds, ServerKinds
<1>2. StopAt = "write_q"
  BY <1>0 DEF StopAt, Is, FfmpegKinds, DemuxKinds
<1>3. DestroyAt \in {"write_q", "return"}
  <2>1. CASE kind \in {"video_rtp", "video_file"}
    BY <1>2, <2>1 DEF DestroyAt, Is
  <2>2. CASE kind = "videostream_ffmpeg"
    BY <2>2 DEF DestroyAt, Is
  <2> QED BY <1>0, <2>1, <2>2
<1> QED
  BY <1>1, <1>2, <1>3

LEMMA OtherLife ==
  ASSUME TypeInv, Ways, LifeInv, Is(Others), OtherInv, VideoEnds,
         UserStep \/ BaseStep, UNCHANGED ffmpegVars,
         Is({"video_rtp"}) \/ starts' <= 1
  PROVE  OtherInv'
<1>0. User \in Callers /\ Control \in Callers /\ User # Control
  BY BuiltinFacts
<1>1. /\ UNCHANGED <<proc, current, closed, target>>
      /\ \A k \in Procs : Alive(k)' <=> Alive(k)
  BY DEF ffmpegVars, Alive
<1>2. /\ \A t \in Callers : LifeLabels(t)
      /\ (starts' = 0 => starts = 0) /\ (hasty => hasty')
  BY LifeGoes
<1>3. \A t \in Callers : pc'[t] = "reap" => pc[t] = "reap"
  BY <1>2, OtherLabels DEF LifeLabels
<1>4. pc'[User] = "popen" => pc[User] = "popen" \/ Start
  BY <1>0, <1>2, OtherLabels DEF LifeLabels
<1>5. ASSUME ~hasty', starts' = 0 \/ pc'[User] = "popen"
      PROVE  \A k \in Procs : ~Alive(k)
  <2>1. CASE ~Start \/ starts = 0
    BY <1>2, <1>4, <1>5, <2>1 DEF OtherInv
  <2>2. CASE Start /\ starts # 0
    <3>1. starts \in Nat /\ starts' = starts + 1
      BY <2>2 DEF Start, TypeInv, CallsTyped
    <3>2. starts > 0 /\ ~(starts' <= 1)
      BY <2>2, <3>1
    <3>3. Is({"video_rtp"}) /\ ~Unsettled /\ op[User] = "none"
      BY <1>5, <2>2, <3>2 DEF Start, Idle
    <3>4. Stopped /\ ~hasty
      BY <1>2, <1>5, <3>3 DEF Stopped, Unsettled
    <3>5. \A t \in Callers : pc[t] = "idle"
      BY <3>3, Where, BuiltinFacts DEF Unsettled, Idle
    <3>6. \A k \in Procs : ~Reaped(k)
      BY <3>5 DEF Reaped, Awaits
    <3> QED BY <3>3, <3>4, <3>6 DEF VideoEnds
  <2> QED BY <2>1, <2>2
<1> QED
  BY <1>1, <1>2, <1>3, <1>5 DEF OtherInv

LEMMA VideoLife ==
  ASSUME TypeInv, Ways, LifeInv, Is({"video_rtp"}), VideoEnds,
         UserStep \/ BaseStep, UNCHANGED ffmpegVars
  PROVE  VideoEnds'
<1>0. Is(Others)
  BY DEF Is, Others, Audio, FfmpegKinds
<1>1. UNCHANGED <<proc, closed, target>> /\ \A k \in Procs : Alive(k)' <=> Alive(k)
  BY DEF ffmpegVars, Alive
<1>2. (\A t \in Callers : LifeLabels(t)) /\ (hasty => hasty')
  BY LifeGoes
<1>3. \A t \in Callers : /\ pc[t] \in {"pause", "await", "reap"} => pc'[t] = pc[t]
                         /\ Leaving(t)' => Leaving(t)
  BY <1>0, <1>2, OtherLabels DEF LifeLabels, Leaving
<1>4. \A k \in Procs : Reaped(k) => Reaped(k)'
  BY <1>1, <1>3 DEF Reaped, Awaits
<1>5. Left' => Left
  BY <1>3 DEF Left
<1>6. Stopped' => Stopped \/ Left
  BY StoppedBefore
<1> QED
  BY <1>1, <1>2, <1>4, <1>5, <1>6 DEF VideoEnds

\* The steps of Others about their processes.
LEMMA OtherMoves ==
  ASSUME TypeInv, Ways, Is(Others), FfmpegStep
  PROVE  \/ \E t \in Callers : SpawnPopen(t) \/ SpawnSource(t)
         \/ \E t \in Callers : StopWrite(t) \/ StopTerminate(t) \/ StopReap(t)
         \/ \E k \in Procs : Killed(k) \/ Crash(k)
<1>0. ~Is(Audio)
  BY DEF Is, Others
<1>1. ASSUME NEW t \in Callers, FfmpegCall(t)
      PROVE  SpawnPopen(t) \/ SpawnSource(t) \/ StopWrite(t) \/ StopTerminate(t) \/ StopReap(t)
  <2>1. RightKind(pc[t]) /\ pc[t] # "clear"
    BY Where DEF Ways, Fits, OnStart, OnStop, OnDestroy, TypeInv, CallsTyped
  <2>2. pc[t] \notin {"clear_request", "test", "mark", "request", "poll", "await",
                      "clear_source", "clear", "join_monitor"}
    BY <1>0, <2>1 DEF RightKind
  <2> QED BY <1>1, <2>2 DEF FfmpegCall, ClearRequest, Spawn, SpawnTest, SpawnMark, ClearSource,
       StopRequest, StopPoll, StopAwaited, MonitorJoined, At
<1>2. ASSUME NEW k \in Procs, MonitorStep(k) PROVE FALSE
  <2>1. pc[Monitor(k)] # "idle"
    BY <1>2, BuiltinFacts DEF MonitorStep, MonitorWake, ClearSource, MonitorCheck,
       MonitorRecheck, Spawn, SpawnTest, SpawnPopen, SpawnMark, SpawnSource, At
  <2> QED BY <1>0, <2>1, BuiltinFacts DEF Ways
<1> QED
  BY <1>1, <1>2 DEF FfmpegStep

LEMMA OtherSpawn ==
  ASSUME TypeInv, Ways, LifeInv, Is(Others), OtherInv, VideoEnds,
         NEW t \in Callers, SpawnPopen(t) \/ SpawnSource(t)
  PROVE  OtherInv' /\ VideoEnds'
<1>0. User \in Callers /\ Control \in Callers /\ User # Control /\ t \in Everyone
  BY BuiltinFacts
<1>1. pc[t] \in {"popen", "source"}
  BY DEF SpawnPopen, SpawnSource, At
<1>2. t = User /\ op[User] = "start" /\ Beginning /\ starts # 0
  <2>1. t = User /\ op[t] = "start"
    BY <1>1, Where DEF OnStart
  <2> QED BY <1>1, <2>1 DEF Beginning, LifeInv
<1>3. PICK l \in {"source", "base_start"} : Goto(t, l)
  BY <1>0 DEF SpawnPopen, SpawnSource, SpawnOver, Is, Others, Audio
<1>4. /\ pc'[User] = l /\ pc'[Control] = pc[Control]
      /\ UNCHANGED <<op, starts, hasty, status, kind>>
  BY <1>0, <1>2, <1>3, GotoFacts, BuiltinFacts
<1>5. ~hasty => pc[Control] = "idle"
  BY <1>0, <1>2, Where DEF LifeInv, Idle
<1>6. ~hasty' => \A u \in Callers : pc'[u] # "reap" /\ ~Leaving(u)'
  BY <1>4, <1>5, BuiltinFacts DEF Leaving
<1>7. ~hasty' => ~Left' /\ ~Stopped'
  BY <1>2, <1>4, <1>6 DEF Left, Stopped
<1>8. CASE SpawnPopen(t)
  <2>1. PICK k \in Procs : /\ proc[k] = "none" /\ proc' = [proc EXCEPT ![k] = "alive"]
                           /\ current' = k
    BY <1>8 DEF SpawnPopen, Newest, Unborn
  <2>2. /\ pc[User] = "popen" /\ closed' = closed
    BY <1>2, <1>8 DEF SpawnPopen, At
  <2>3. \A j \in Procs : proc'[j] = IF j = k THEN "alive" ELSE proc[j]
    BY <2>1 DEF TypeInv, FfmpegTypeOK
  <2>4. ~hasty => \A j \in Procs : Alive(j)' => j = k
    BY <2>2, <2>3 DEF OtherInv, Alive
  <2>5. k \notin closed
    BY <2>1 DEF OtherInv
  <2>6. \A j \in Procs : j = current' \/ j \in closed' => proc'[j] # "none"
    BY <2>1, <2>2, <2>3 DEF OtherInv
  <2>7. OtherInv'
    BY <1>2, <1>4, <1>6, <2>1, <2>4, <2>6 DEF OtherInv
  <2>8. VideoEnds'
    BY <1>7, <1>4, <2>2, <2>4, <2>5 DEF VideoEnds
  <2> QED BY <2>7, <2>8
<1>9. CASE SpawnSource(t)
  <2>1. UNCHANGED <<proc, current, closed, target>>
    BY <1>9 DEF SpawnSource
  <2>2. \A k \in Procs : Alive(k)' <=> Alive(k)
    BY <2>1 DEF Alive
  <2>3. OtherInv'
    BY <1>2, <1>4, <1>6, <2>1, <2>2 DEF OtherInv
  <2>4. \A k \in Procs : Reaped(k) => Reaped(k)'
    <3>1. \A u \in Callers : pc[u] \in {"pause", "await", "reap"} => pc'[u] = pc[u]
      BY <1>1, <1>2, <1>4, BuiltinFacts
    <3> QED BY <2>1, <3>1 DEF Reaped, Awaits
  <2>5. VideoEnds'
    BY <1>4, <1>7, <2>1, <2>2, <2>4 DEF VideoEnds, Is
  <2> QED BY <2>3, <2>5
<1> QED
  BY <1>8, <1>9

\* A call of stop() that leaves the try block, or goes on in it.
LEMMA TryFacts ==
  ASSUME TypeInv, NEW t \in Callers,
         LeaveTry(t) \/ Goto(t, "pause") \/ Goto(t, "reap")
  PROVE  /\ \A u \in Callers \ {t} : pc'[u] = pc[u] /\ op'[u] = op[u]
         /\ pc'[t] \in {"idle", "base_stop", "pause", "reap"}
         /\ LeaveTry(t) => pc'[t] \in {"idle", "base_stop"}
         /\ pc'[t] = "idle" \/ op' = op
         /\ UNCHANGED <<kind, starts, hasty, status>>
<1>0. t \in Everyone /\ Callers \subseteq Everyone
  BY BuiltinFacts
<1>1. ASSUME NEW l, Goto(t, l)
      PROVE  /\ \A u \in Callers \ {t} : pc'[u] = pc[u] /\ op'[u] = op[u]
             /\ pc'[t] = l /\ op' = op
             /\ UNCHANGED <<kind, starts, hasty, status>>
  BY <1>0, <1>1, GotoFacts
<1>2. ASSUME Return(t), UNCHANGED nodeState
      PROVE  /\ \A u \in Callers \ {t} : pc'[u] = pc[u] /\ op'[u] = op[u]
             /\ pc'[t] = "idle" /\ UNCHANGED <<kind, starts, hasty, status>>
  BY <1>2, ReturnFacts DEF nodeState
<1>3. LeaveTry(t) =>
        /\ \A u \in Callers \ {t} : pc'[u] = pc[u] /\ op'[u] = op[u]
        /\ pc'[t] \in {"idle", "base_stop"} /\ (pc'[t] = "idle" \/ op' = op)
        /\ UNCHANGED <<kind, starts, hasty, status>>
  BY <1>1, <1>2 DEF LeaveTry
<1>4. CASE LeaveTry(t)
  BY <1>3, <1>4
<1>5. CASE ~LeaveTry(t)
  BY <1>1, <1>5
<1> QED
  BY <1>4, <1>5

\* Who is still to see to the end of a process is so after a step of another.
LEMMA StillReaped ==
  ASSUME NEW t \in Callers, \A u \in Callers \ {t} : pc'[u] = pc[u] /\ target'[u] = target[u],
         pc[t] = "write_q", NEW k, Reaped(k)
  PROVE  Reaped(k)'
  BY DEF Reaped, Awaits

LEMMA OtherStop ==
  ASSUME BuiltinAssumption, TypeInv, Ways, LifeInv, Is(Others), OtherInv, VideoEnds,
         NEW t \in Callers, StopWrite(t) \/ StopTerminate(t) \/ StopReap(t)
  PROVE  OtherInv' /\ VideoEnds'
<1>0. /\ User \in Callers /\ current \in 0..MaxProcs /\ 0 \notin Procs
      /\ target \in [Callers -> 0..MaxProcs]
  BY BuiltinFacts DEF TypeInv, FfmpegTypeOK, Procs, BuiltinAssumption
<1>1. /\ \A u \in Callers \ {t} : pc'[u] = pc[u] /\ op'[u] = op[u]
      /\ pc'[t] \in {"idle", "base_stop", "pause", "reap"}
      /\ LeaveTry(t) => pc'[t] \in {"idle", "base_stop"}
      /\ UNCHANGED <<kind, starts, hasty, status>>
  <2>1. LeaveTry(t) \/ Goto(t, "pause") \/ Goto(t, "reap")
    BY DEF StopWrite, StopTerminate, StopReap
  <2> QED BY <2>1, TryFacts
<1>2. proc' = proc /\ \A k \in Procs : Alive(k)' <=> Alive(k)
  BY DEF StopWrite, StopTerminate, StopReap, Alive
<1>3. pc'[User] = "popen" => pc[User] = "popen"
  BY <1>0, <1>1
<1>4. ~hasty' => ((starts = 0 \/ pc[User] = "popen")' => \A k \in Procs : ~Alive(k)')
  BY <1>1, <1>2, <1>3 DEF OtherInv
<1>5. CASE StopWrite(t)
  <2>1. /\ pc[t] = "write_q" /\ UNCHANGED <<current, target>>
        /\ WriteRaises => LeaveTry(t) /\ closed' = closed
        /\ ~WriteRaises => closed' = closed \cup {current} /\ Goto(t, "pause")
    BY <1>5 DEF StopWrite, At
  <2>2. \A k \in Procs : k = current' \/ k \in closed' => proc'[k] # "none"
    BY <1>2, <2>1 DEF OtherInv
  <2>3. ~hasty' => \A k \in Procs : Alive(k)' => k = current'
    BY <1>1, <1>2, <2>1 DEF OtherInv
  <2>4. pc'[t] # "reap"
    <3>1. t \in Everyone
      BY BuiltinFacts
    <3> QED BY <1>1, <2>1, <3>1, GotoFacts
  <2>5. ~hasty' => \A u \in Callers : pc'[u] = "reap" => target'[u] # 0 /\ current' \in {0, target'[u]}
    BY <1>1, <2>1, <2>4 DEF OtherInv
  <2>6. OtherInv'
    BY <1>4, <2>2, <2>3, <2>5 DEF OtherInv
  <2>7. VideoEnds'
    <3> SUFFICES ASSUME Is({"video_rtp"}), ~hasty, NEW k \in Procs, Alive(k) PROVE Reaped(k)'
      BY <1>1, <1>2 DEF VideoEnds, Is
    <3>1. CASE ~WriteRaises
      <4>1. pc'[t] = "pause"
        <5>1. t \in Everyone
          BY BuiltinFacts
        <5> QED BY <2>1, <3>1, <5>1, GotoFacts
      <4> QED BY <4>1 DEF Reaped
    <3>2. CASE WriteRaises
      <4>1. k = current
        BY DEF OtherInv
      <4>2. k \in closed
        BY <1>0, <3>2, <4>1 DEF WriteRaises, Is, Alive
      <4>3. Reaped(k)
        BY <4>2 DEF VideoEnds
      <4> QED BY <1>1, <2>1, <4>3, StillReaped
    <3> QED BY <3>1, <3>2
  <2> QED BY <2>6, <2>7
<1>6. CASE StopTerminate(t)
  <2>1. /\ UNCHANGED <<current, closed>>
        /\ current = 0 => LeaveTry(t) /\ target' = target
        /\ current # 0 => target' = [target EXCEPT ![t] = current] /\ Goto(t, "reap")
    BY <1>6 DEF StopTerminate
  <2>2. \A k \in Procs : k = current' \/ k \in closed' => proc'[k] # "none"
    BY <1>2, <2>1 DEF OtherInv
  <2>3. ~hasty' => \A k \in Procs : Alive(k)' => k = current'
    BY <1>1, <1>2, <2>1 DEF OtherInv
  <2>4. /\ current # 0 => target'[t] = current /\ pc'[t] = "reap"
        /\ current = 0 => pc'[t] # "reap"
        /\ \A u \in Callers \ {t} : target'[u] = target[u]
    <3>1. t \in Everyone
      BY BuiltinFacts
    <3>2. current # 0 => pc'[t] = "reap"
      BY <2>1, <3>1, GotoFacts
    <3> QED BY <1>0, <1>1, <2>1, <3>2
  <2>5. ~hasty' => \A u \in Callers : pc'[u] = "reap" => target'[u] # 0 /\ current' \in {0, target'[u]}
    BY <1>1, <2>1, <2>4 DEF OtherInv
  <2>6. OtherInv'
    BY <1>4, <2>2, <2>3, <2>5 DEF OtherInv
  <2>7. VideoEnds'
    <3> SUFFICES ASSUME ~hasty, NEW k \in Procs, Alive(k) PROVE Reaped(k)'
      BY <1>1, <1>2 DEF VideoEnds
    <3>1. k = current /\ current # 0
      BY <1>0 DEF OtherInv
    <3> QED BY <2>4, <3>1 DEF Reaped, Awaits
  <2> QED BY <2>6, <2>7
<1>7. CASE StopReap(t)
  <2>1. /\ pc[t] = "reap" /\ current' = 0 /\ UNCHANGED <<closed, target>>
        /\ LeaveTry(t) /\ proc[target[t]] = "exited"
    BY <1>7 DEF StopReap, At
  <2>2. ~hasty => \A k \in Procs : ~Alive(k)
    <3> SUFFICES ASSUME ~hasty, NEW k \in Procs, Alive(k) PROVE FALSE
      OBVIOUS
    <3>1. k = current /\ current \in {0, target[t]}
      BY <2>1 DEF OtherInv
    <3> QED BY <1>0, <2>1, <3>1 DEF Alive
  <2>3. \A k \in Procs : k = current' \/ k \in closed' => proc'[k] # "none"
    BY <1>0, <1>2, <2>1 DEF OtherInv
  <2>4. ~hasty' => \A u \in Callers : pc'[u] = "reap" => target'[u] # 0 /\ current' \in {0, target'[u]}
    BY <1>1, <2>1 DEF OtherInv
  <2>5. OtherInv'
    BY <1>1, <1>2, <2>2, <2>3, <2>4 DEF OtherInv
  <2>6. VideoEnds'
    BY <1>1, <1>2, <2>2 DEF VideoEnds
  <2> QED BY <2>5, <2>6
<1> QED
  BY <1>5, <1>6, <1>7

LEMMA OtherExit ==
  ASSUME TypeInv, OtherInv, VideoEnds, NEW k \in Procs, Killed(k) \/ Crash(k)
  PROVE  OtherInv' /\ VideoEnds'
<1>1. /\ proc' = [proc EXCEPT ![k] = "exited"]
      /\ UNCHANGED <<pc, op, kind, status, current, closed, target, starts, hasty>>
  BY DEF Killed, Crash, Exit, Stays, pipeState, nodeState
<1>2. /\ \A j \in Procs : Alive(j)' => Alive(j)
      /\ \A j \in Procs : proc[j] # "none" => proc'[j] # "none"
  BY <1>1 DEF Alive, TypeInv, FfmpegTypeOK
<1>3. OtherInv'
  BY <1>1, <1>2 DEF OtherInv
<1>4. VideoEnds'
  BY <1>1, <1>2 DEF VideoEnds, Is, Stopped, Left, Leaving, Reaped, Awaits
<1> QED
  BY <1>3, <1>4

-----------------------------------------------------------------------------
\* What no step takes back.
LEMMA LifeKeeps ==
  ASSUME TypeInv, LifeMoves
  PROVE  /\ kind' = kind /\ (hasty => hasty')
         /\ (starts' = 0 => starts = 0) /\ (starts' <= 1 => starts <= 1)
         /\ ~Start => hasty' = hasty /\ starts' = starts
<1>1. starts \in Nat
  BY DEF TypeInv, CallsTyped
<1>2. CASE Start
  <2>1. starts' = starts + 1 /\ (hasty => hasty') /\ kind' = kind
    BY <1>2 DEF Start
  <2> QED BY <1>1, <1>2, <2>1
<1>3. CASE ~Start
  <2>1. kind' = kind /\ hasty' = hasty /\ starts' = starts
    BY <1>3 DEF LifeMoves, UserStep, Stop, Destroy, Taken, Moves, Over, Return, Raise,
       BaseStart, LeaveStart, BaseStop, BaseJoined, LeaveStop, pipeState
  <2> QED BY <1>1, <2>1
<1> QED
  BY <1>2, <1>3

\* Nothing about processes changes when neither they nor callers do anything.
LEMMA ProcSame ==
  ASSUME ProcInv, VideoEnds, UNCHANGED <<lifeVars, ffmpegVars>>
  PROVE  ProcInv' /\ VideoEnds'
<1>1. UNCHANGED <<kind, starts, hasty, status, op, pc, proc, current, closed, running, lock,
                  target>>
  BY DEF lifeVars, ffmpegVars
<1>2. \A k \in Procs : Alive(k)' <=> Alive(k)
  BY <1>1 DEF Alive
<1>3. AudioInv => AudioInv'
  BY <1>1, <1>2 DEF AudioInv, Spawns, Waits, Marks
<1>4. OtherInv => OtherInv'
  BY <1>1, <1>2 DEF OtherInv
<1>5. ProcInv'
  BY <1>1, <1>2, <1>3, <1>4 DEF ProcInv, Is
<1>6. VideoEnds'
  BY <1>1, <1>2 DEF VideoEnds, Is, Stopped, Left, Leaving, Reaped, Awaits
<1> QED
  BY <1>5, <1>6

LEMMA ProcStep ==
  ASSUME BuiltinAssumption, TypeInv, Ways, LifeInv, ProcInv, VideoEnds, [Next]_vars
  PROVE  ProcInv' /\ VideoEnds'
<1>0. /\ kind' = kind /\ (starts' <= 1 => starts <= 1)
      /\ \A K : Is(K)' <=> Is(K)
  BY StepMoves, LifeKeeps DEF Is
<1>1. ASSUME UNCHANGED ffmpegVars, ~Is(FfmpegKinds) PROVE ProcInv' /\ VideoEnds'
  <2>1. \A k \in Procs : ~Alive(k)'
    BY <1>1 DEF ProcInv, ffmpegVars, Alive
  <2>2. ~Is(Audio) /\ ~Is({"video_rtp"}) /\ ~Is(Others \ {"video_rtp"})
    BY <1>1 DEF Is, Audio, Others, FfmpegKinds
  <2>3. ProcInv'
    BY <1>0, <2>1, <2>2 DEF ProcInv
  <2> QED BY <1>0, <2>2, <2>3 DEF VideoEnds
<1>2. ASSUME Is(Audio), AudioInv' PROVE ProcInv' /\ VideoEnds'
  <2>1. Is(FfmpegKinds) /\ ~Is({"video_rtp"}) /\ ~Is(Others \ {"video_rtp"})
    BY <1>2 DEF Is, Audio, Others, FfmpegKinds
  <2>2. ProcInv'
    BY <1>0, <1>2, <2>1 DEF ProcInv
  <2> QED BY <1>0, <2>1, <2>2 DEF VideoEnds
<1>3. ASSUME Is(Others), Is({"video_rtp"}) \/ starts' <= 1 => OtherInv',
             Is({"video_rtp"}) => VideoEnds'
      PROVE  ProcInv' /\ VideoEnds'
  <2>1. Is(FfmpegKinds) /\ ~Is(Audio)
    BY <1>3 DEF Is, Others
  <2>2. ProcInv'
    BY <1>0, <1>3, <2>1 DEF ProcInv
  <2> QED BY <1>0, <1>3, <2>2 DEF VideoEnds
<1>4. /\ Is(Audio) => AudioInv
      /\ Is(Others) /\ (Is({"video_rtp"}) \/ starts <= 1) => OtherInv
      /\ Is(FfmpegKinds) => Is(Audio) \/ Is(Others)
  BY DEF ProcInv, Is, Others
<1>5. ASSUME UserStep \/ BaseStep, UNCHANGED ffmpegVars PROVE ProcInv' /\ VideoEnds'
  <2>1. CASE Is(Audio)
    BY <1>2, <1>4, <1>5, <2>1, AudioLife
  <2>2. CASE Is(Others)
    <3>1. Is({"video_rtp"}) \/ starts' <= 1 => OtherInv'
      BY <1>0, <1>4, <1>5, <2>2, OtherLife
    <3>2. Is({"video_rtp"}) => VideoEnds'
      BY <1>5, VideoLife
    <3> QED BY <1>3, <2>2, <3>1, <3>2
  <2> QED BY <1>1, <1>4, <1>5, <2>1, <2>2
<1>6. ASSUME Is(FfmpegKinds), FfmpegStep PROVE ProcInv' /\ VideoEnds'
  <2>1. CASE Is(Audio)
    <3>1. AudioInv'
      BY <1>4, <1>6, <2>1, AudioMonitor, AudioCall, AudioExit DEF FfmpegStep
    <3> QED BY <1>2, <2>1, <3>1
  <2>2. CASE Is(Others)
    <3>1. ASSUME OtherInv PROVE OtherInv' /\ VideoEnds'
      BY <1>6, <2>2, <3>1, OtherMoves, OtherSpawn, OtherStop, OtherExit
    <3>2. Is({"video_rtp"}) \/ starts' <= 1 => OtherInv'
      BY <1>0, <1>4, <2>2, <3>1
    <3>3. Is({"video_rtp"}) => VideoEnds'
      BY <1>4, <2>2, <3>1
    <3> QED BY <1>3, <2>2, <3>2, <3>3
  <2> QED BY <1>4, <1>6, <2>1, <2>2
<1>7. /\ \A K : Is(K) /\ K \cap FfmpegKinds = {} => ~Is(FfmpegKinds)
      /\ (DemuxKinds \cup FileKinds) \cap FfmpegKinds = {} /\ WatchKinds \cap FfmpegKinds = {}
      /\ ServerKinds \cap FfmpegKinds = {} /\ SinkKinds \cap FfmpegKinds = {}
  BY DEF Is, DemuxKinds, FileKinds, WatchKinds, ServerKinds, SinkKinds, FfmpegKinds
<1> QED
  BY <1>1, <1>5, <1>6, <1>7, KindSteps, ProcSame DEF Life, Ffmpeg, Demux, Watch, Server, Sink

\* A pipeline that is not of the restarted kinds is started once.
OnceStarted == kind \notin Restarted => starts <= 1

HelperInv ==
  TypeInv /\ Ways /\ LifeInv /\ LastStart /\ ProcInv /\ VideoEnds /\ OnceStarted

LEMMA ProcInit == Init => ProcInv /\ VideoEnds /\ OnceStarted
<1> SUFFICES ASSUME Init PROVE ProcInv /\ VideoEnds /\ OnceStarted
  OBVIOUS
<1>1. /\ proc = [k \in Procs |-> "none"] /\ current = 0 /\ closed = {} /\ starts = 0
      /\ pc = [t \in Callers \cup Monitors |-> "idle"]
  BY DEF Init, LifeInit, FfmpegInit
<1>2. \A k \in Procs : ~Alive(k) /\ k # current
  BY <1>1 DEF Alive, Procs
<1>3. /\ \A t \in Everyone : pc[t] = "idle"
      /\ Callers \subseteq Everyone /\ Monitors \subseteq Everyone /\ User \in Everyone
  BY <1>1, BuiltinFacts DEF Everyone
<1>4. AudioInv
  BY <1>2, <1>3, BuiltinFacts DEF AudioInv, Spawns, Spawning, Waits
<1>5. OtherInv
  BY <1>1, <1>2, <1>3 DEF OtherInv
<1> QED
  BY <1>1, <1>2, <1>4, <1>5 DEF ProcInv, VideoEnds, OnceStarted

LEMMA OnceStartedStep ==
  ASSUME TypeInv, LifeMoves, OnceStarted
  PROVE  OnceStarted'
<1>1. CASE Start
  <2>1. /\ starts < (IF kind \in Restarted THEN MaxStarts ELSE 1)
        /\ starts' = starts + 1 /\ kind' = kind
    BY <1>1 DEF Start
  <2>2. starts \in Nat
    BY DEF TypeInv, CallsTyped
  <2>3. kind \notin Restarted => starts < 1
    BY <2>1
  <2> QED BY <2>1, <2>2, <2>3 DEF OnceStarted
<1>2. CASE ~Start
  <2>1. kind' = kind /\ starts' = starts
    BY <1>2 DEF LifeMoves, UserStep, Stop, Destroy, Taken, Moves, Over, Return, Raise,
       BaseStart, LeaveStart, BaseStop, BaseJoined, LeaveStop, pipeState
  <2> QED BY <2>1 DEF OnceStarted
<1> QED
  BY <1>1, <1>2

LEMMA HelpersKept == ASSUME BuiltinAssumptions PROVE Spec => []HelperInv
<1>1. Init => HelperInv
  BY TypeInvInit, WaysInit, LifeInit0, ProcInit DEF BuiltinAssumptions, HelperInv
<1>2. HelperInv /\ [Next]_vars => HelperInv'
  <2> SUFFICES ASSUME HelperInv, [Next]_vars PROVE HelperInv'
    OBVIOUS
  <2>0. /\ TypeInv /\ Ways /\ LifeInv /\ LastStart /\ ProcInv /\ VideoEnds /\ OnceStarted
        /\ BuiltinAssumption
    BY DEF HelperInv, BuiltinAssumptions
  <2>1. InCall
    BY <2>0 DEF Ways, Fits, InCall
  <2>2. TypeInv'
    BY <2>0, <2>1, TypeInvStep DEF BuiltinAssumptions
  <2>3. Ways' /\ LifeMoves
    BY <2>0, StepMoves
  <2>4. LifeInv' /\ LastStart' /\ OnceStarted'
    BY <2>0, <2>3, LifeStep, LastStartStep, OnceStartedStep
  <2>5. ProcInv' /\ VideoEnds'
    BY <2>0, ProcStep
  <2> QED BY <2>2, <2>3, <2>4, <2>5 DEF HelperInv
<1> QED
  BY <1>1, <1>2, PTL DEF Spec

\* At no time are two child processes of a node alive, for nodes that are started
\* again too unless start() comes before the stop() is over. Left out are restarts
\* of the two kinds that do not end their process: video_file and
\* videostream_ffmpeg write a str to its binary stdin, which raises.
THEOREM ProcessesOneByOne ==
  ASSUME BuiltinAssumptions, Restarted \cap {"video_file", "videostream_ffmpeg"} = {}
  PROVE  Spec => []OneProcess
<1>1. HelperInv => OneProcess
  <2> SUFFICES ASSUME HelperInv, ~hasty, NEW j \in Procs, NEW k \in Procs, Alive(j), Alive(k)
               PROVE  j = k
    BY DEF OneProcess, Alive
  <2>1. CASE Is(Audio)
    BY <2>1 DEF HelperInv, ProcInv, AudioInv
  <2>2. CASE Is({"video_rtp"})
    BY <2>2 DEF HelperInv, ProcInv, OtherInv
  <2>3. CASE Is(Others \ {"video_rtp"})
    <3>1. kind \in {"video_file", "videostream_ffmpeg"}
      BY <2>3 DEF Is, Others, Audio, FfmpegKinds
    <3>2. starts <= 1
      BY <3>1 DEF HelperInv, OnceStarted
    <3>3. OtherInv
      BY <2>3, <3>2 DEF HelperInv, ProcInv
    <3> QED BY <3>3 DEF OtherInv
  <2>4. CASE ~Is(FfmpegKinds)
    BY <2>4 DEF HelperInv, ProcInv
  <2> QED BY <2>1, <2>2, <2>3, <2>4 DEF Is, Others, Audio
<1> QED
  BY <1>1, HelpersKept, PTL

-----------------------------------------------------------------------------
(***************************************************************************)
(* A live process of audio_rtp is read, as who starts the next one is the  *)
(* monitor of the last, which is through with its clear_source() by then.  *)
(***************************************************************************)
LEMMA DestroyedStays ==
  ASSUME TypeInv, Ways, LifeInv, LifeMoves, Destroyed
  PROVE  Destroyed'
<1>0. User \in Callers /\ Control \in Callers /\ User # Control
  BY BuiltinFacts
<1>1. pstatus = "DESTROYED" => op[User] = "none"
  BY DEF LifeInv
<1>2. CASE UserStep
  BY <1>2 DEF UserStep, Start, Stop, Destroy, Idle, Destroyed
<1>3. CASE Taken \/ Moves
  BY <1>0, <1>3, EnterFacts DEF Taken, Moves, Destroyed
<1>4. ASSUME NEW t \in Callers, Over(t) PROVE Destroyed'
  <2>1. CASE t = User
    <3>1. op[User] = "destroy" /\ Return(User)
      BY <1>1, <1>4, <2>1 DEF Over, Destroyed
    <3> QED BY <1>0, <3>1, ReturnFacts DEF Destroyed
  <2>2. CASE t = Control
    <3>1. op'[User] = op[User] /\ pstatus' = pstatus
      BY <1>0, <1>4, <2>2, ReturnFacts, EnterFacts DEF Over, Raise, pipeState
    <3> QED BY <3>1 DEF Destroyed
  <2> QED BY <2>1, <2>2, BuiltinFacts
<1>5. ASSUME NEW t \in Callers, BaseStart(t) PROVE FALSE
  <2>1. pc[t] \in OnStart
    BY <1>5 DEF BaseStart, At, OnStart
  <2>2. op[User] = "start"
    BY <2>1, Where
  <2> QED BY <1>1, <2>2 DEF Destroyed
<1>6. ASSUME NEW t \in Callers, BaseStop(t) \/ BaseJoined(t) PROVE Destroyed'
  <2>1. Leaving(t)
    BY <1>6 DEF BaseStop, BaseJoined, At, Leaving
  <2>2. LeaveStop(t) \/ UNCHANGED <<pipeState, op>>
    BY <1>6 DEF BaseStop, BaseJoined
  <2>3. CASE LeaveStop(t)
    <3>1. CASE t = User
      BY <1>1, <2>1, <2>3, <3>1, LeaveStopFacts DEF Destroyed
    <3>2. CASE t = Control
      BY <1>0, <2>1, <2>3, <3>2, LeaveStopFacts DEF Destroyed
    <3> QED BY <3>1, <3>2, BuiltinFacts
  <2>4. CASE UNCHANGED <<pipeState, op>>
    BY <2>4 DEF pipeState, Destroyed
  <2> QED BY <2>2, <2>3, <2>4
<1> QED
  BY <1>2, <1>3, <1>4, <1>5, <1>6 DEF LifeMoves

\* Nobody new is on the way to a process, and who is about to read one still is.
LEMMA ReadStill ==
  ASSUME Read, Destroyed => Destroyed',
         \A k \in Procs : Alive(k)' => Alive(k),
         \A k \in Procs : proc[k] # "none" => proc'[k] # "none",
         UNCHANGED <<src, current>>,
         \A t \in Everyone : Active(t)' => Active(t),
         \A t \in Everyone : pc[t] \in {"mark", "source"} => pc'[t] = pc[t],
         \A m \in Monitors : /\ pc'[m] # "idle" => pc[m] # "idle"
                             /\ pc'[m] = "mark" => pc[m] = "mark"
  PROVE  Read'
<1>1. \A t, u \in Everyone : Active(t)' /\ Active(u)' => t = u
  BY DEF Read
<1>2. \A k \in Procs : Alive(k)' =>
        src' = "real" \/ Destroyed' \/ \E t \in Everyone : pc'[t] \in {"mark", "source"}
  BY DEF Read
<1>3. \A k \in Procs : pc'[Monitor(k)] # "idle" \/ k = current' => proc'[k] # "none"
  BY BuiltinFacts DEF Read
<1>4. \A k \in Procs : pc'[Monitor(k)] = "mark" => k # current'
  BY BuiltinFacts DEF Read
<1> QED
  BY <1>1, <1>2, <1>3, <1>4 DEF Read

LEMMA ReadLife ==
  ASSUME TypeInv, Ways, LifeInv, Is(Audio), AudioInv, Read, starts' <= 1, ~hasty,
         UserStep \/ BaseStep, UNCHANGED ffmpegVars, Destroyed => Destroyed'
  PROVE  Read'
<1>0. User \in Callers /\ Control \in Callers /\ User # Control
  BY BuiltinFacts
<1>1. /\ UNCHANGED <<proc, current, src>>
      /\ \A k \in Procs : Alive(k)' => Alive(k)
  BY DEF ffmpegVars, Alive
<1>2. StartAt = "clear_request" /\ StopAt = "request" /\ DestroyAt = "clear_source"
  <2>1. kind = "audio_rtp"
    BY DEF Is, Audio
  <2>2. StartAt = "clear_request"
    BY <2>1 DEF StartAt, Is, FfmpegKinds, DemuxKinds, ServerKinds
  <2>3. StopAt = "request"
    BY <2>1 DEF StopAt, Is, FfmpegKinds, DemuxKinds
  <2>4. DestroyAt = "clear_source"
    BY <2>1 DEF DestroyAt, Is
  <2> QED BY <2>2, <2>3, <2>4
<1>3. (\A m \in Monitors : pc'[m] = pc[m]) /\ \A t \in Callers : LifeLabels(t)
  BY LifeGoes
<1>4. \A t \in Callers : pc[t] \in {"mark", "source"} => pc'[t] = pc[t]
  BY <1>3 DEF LifeLabels
<1>5. \A t \in Everyone : pc[t] \in {"mark", "source"} => pc'[t] = pc[t]
  BY <1>3, <1>4 DEF Everyone
<1>6. \A t \in Callers : \/ ~(pc'[t] \in {"clear_request", "test", "popen", "mark"})
                         \/ pc'[t] = pc[t]
                         \/ t = User /\ Start
  BY <1>2, <1>3 DEF LifeLabels
<1>7. \A t \in Callers : t \notin Monitors
  BY BuiltinFacts
<1>8. CASE ~Start
  <2>1. \A t \in Callers : Active(t)' => Active(t)
    BY <1>6, <1>7, <1>8 DEF Active, Coming
  <2>2. \A t \in Everyone : Active(t)' => Active(t)
    BY <1>3, <2>1 DEF Everyone, Active, Coming
  <2> QED BY <1>1, <1>3, <1>5, <2>2, ReadStill
<1>9. CASE Start
  <2>1. starts \in Nat /\ starts' = starts + 1
    BY <1>9 DEF Start, TypeInv, CallsTyped
  <2>2. starts = 0
    BY <2>1
  <2>3. \A m \in Monitors : pc[m] = "idle"
    BY <2>2 DEF AudioInv
  <2>4. /\ op[Control] = "none" /\ op[User] = "none"
    BY <1>9, <2>2 DEF Start, LifeInv, Idle
  <2>5. \A t \in Callers : pc[t] = "idle"
    BY <1>0, <2>4, Where, BuiltinFacts
  <2>6. \A t \in Everyone : Active(t)' => t = User
    <3>1. \A t \in Monitors : ~Active(t)'
      BY <1>3, <2>3 DEF Active, Coming
    <3>2. \A t \in Callers \ {User} : ~Active(t)'
      BY <1>6, <1>7, <2>5 DEF Active, Coming
    <3> QED BY <3>1, <3>2 DEF Everyone
  <2>7. \A k \in Procs : ~Alive(k)
    <3>1. \A t \in Everyone : pc[t] = "idle"
      BY <2>3, <2>5 DEF Everyone
    <3>2. \A k \in Procs : ~Waits(k)
      BY <2>3, BuiltinFacts DEF Waits
    <3>3. ~Marks
      BY <3>1 DEF Marks
    <3> QED BY <3>2, <3>3 DEF AudioInv
  <2>8. \A k \in Procs : pc'[Monitor(k)] = "idle"
    BY <1>3, <2>3, BuiltinFacts
  <2>9. \A k \in Procs : k = current' => proc'[k] # "none"
    BY <1>1 DEF Read
  <2> QED
    BY <1>1, <2>6, <2>7, <2>8, <2>9 DEF Read
<1> QED
  BY <1>8, <1>9

\* Who is on the way to a process takes another step of it, or is done.
LEMMA ReadGoes ==
  ASSUME TypeInv, Read, Destroyed => Destroyed', NEW t \in Everyone, NEW l,
         Goto(t, l), UNCHANGED <<proc, src, current>>,
         l \notin {"mark", "wait"}, pc[t] \notin {"mark", "source"},
         l \in {"clear_request", "test", "popen", "clear", "check", "sleep"} => Active(t),
         t \in Monitors => pc[t] # "idle"
  PROVE  Read'
<1>1. pc'[t] = l /\ \A u \in Everyone \ {t} : pc'[u] = pc[u]
  BY GotoFacts
<1>2. \A u \in Everyone : Active(u)' => Active(u)
  BY <1>1 DEF Active, Coming
<1>3. \A u \in Everyone : pc[u] \in {"mark", "source"} => pc'[u] = pc[u]
  BY <1>1
<1>4. \A m \in Monitors : /\ pc'[m] # "idle" => pc[m] # "idle"
                          /\ pc'[m] = "mark" => pc[m] = "mark"
  BY <1>1, BuiltinFacts
<1>5. /\ \A k \in Procs : Alive(k)' => Alive(k)
      /\ \A k \in Procs : proc[k] # "none" => proc'[k] # "none"
  BY DEF Alive
<1> QED
  BY <1>2, <1>3, <1>4, <1>5, ReadStill

LEMMA ReadSpawn ==
  ASSUME TypeInv, Ways, LifeInv, Is(Audio), AudioInv, Read, ~hasty,
         NEW t \in Everyone, Spawn(t), Destroyed => Destroyed'
  PROVE  Read'
<1>0. /\ t \in Monitors => pc[t] # "idle"
      /\ Monitors \subseteq Everyone /\ \A k \in Procs : Monitor(k) \in Monitors
  BY BuiltinFacts DEF Spawn, SpawnTest, SpawnPopen, SpawnMark, SpawnSource, At
<1>1. CASE SpawnTest(t)
  <2>1. /\ pc[t] = "test" /\ UNCHANGED <<proc, src, current>>
        /\ \E l \in {"popen", "base_start", "idle"} : Goto(t, l)
    BY <1>1 DEF SpawnTest, SpawnOver, At
  <2>2. Active(t)
    BY <2>1 DEF Active, Coming
  <2> QED BY <1>0, <2>1, <2>2, ReadGoes
<1>2. CASE SpawnPopen(t)
  <2>1. PICK k \in Procs : /\ proc[k] = "none" /\ proc' = [proc EXCEPT ![k] = "alive"]
                           /\ current' = k
    BY <1>2 DEF SpawnPopen, Newest, Unborn
  <2>2. Goto(t, "mark") /\ pc[t] = "popen" /\ src' = src
    BY <1>2 DEF SpawnPopen, At, Is, Audio
  <2>3. pc'[t] = "mark" /\ \A u \in Everyone \ {t} : pc'[u] = pc[u]
    BY <2>2, GotoFacts
  <2>4. \A u \in Everyone : Active(u)' => Active(u)
    BY <2>2, <2>3 DEF Active, Coming
  <2>5. \A j \in Procs : proc'[j] = IF j = k THEN "alive" ELSE proc[j]
    BY <2>1 DEF TypeInv, FfmpegTypeOK
  <2>6. \A j \in Procs : pc'[Monitor(j)] # "idle" => pc[Monitor(j)] # "idle"
    BY <1>0, <2>2, <2>3
  <2>7. \A j \in Procs : pc'[Monitor(j)] # "idle" \/ j = current' => proc'[j] # "none"
    BY <2>1, <2>5, <2>6 DEF Read
  <2>8. \A j \in Procs : pc'[Monitor(j)] = "mark" => j # current'
    BY <2>1, <2>6 DEF Read
  <2>9. \A u, v \in Everyone : Active(u)' /\ Active(v)' => u = v
    BY <2>4 DEF Read
  <2>10. \E u \in Everyone : pc'[u] \in {"mark", "source"}
    BY <2>3
  <2> QED
    BY <2>7, <2>8, <2>9, <2>10 DEF Read
<1>3. CASE SpawnMark(t)
  <2>1. /\ pc[t] = "mark" /\ UNCHANGED <<proc, current, src>>
        /\ pc' = [pc EXCEPT ![t] = "source", ![Monitor(current)] = "wait"]
    BY <1>3 DEF SpawnMark, At
  <2>2. \A u \in Everyone : pc'[u] = IF u = Monitor(current) THEN "wait"
                                     ELSE IF u = t THEN "source" ELSE pc[u]
    BY <2>1 DEF TypeInv, CallsTyped
  <2>3. t # Monitor(current)
    <3>1. CASE t \in Monitors
      <4>1. PICK k \in Procs : t = Monitor(k)
        BY <3>1, BuiltinFacts
      <4>2. k # current
        BY <2>1, <4>1 DEF Read
      <4>3. Monitor(k) = Monitor(current) => k = current
        BY DEF Monitor
      <4> QED BY <4>1, <4>2, <4>3
    <3>2. CASE t \in Callers
      <4>1. Monitor(current) \notin Callers
        BY DEF Monitor, Callers, User, Control
      <4> QED BY <3>2, <4>1
    <3> QED BY <3>1, <3>2 DEF Everyone
  <2>4. pc'[t] = "source"
    BY <2>2, <2>3
  <2>5. \A u \in Everyone : Active(u) => u = t
    BY <2>1 DEF Read, Active
  <2>6. \A u \in Everyone : Active(u)' => u = Monitor(current)
    BY <2>2, <2>4, <2>5 DEF Active, Coming
  <2>7. \A u, v \in Everyone : Active(u)' /\ Active(v)' => u = v
    BY <2>6
  <2>8. \A k \in Procs : Monitor(k) # Monitor(current) =>
          (pc'[Monitor(k)] # "idle" => pc[Monitor(k)] # "idle")
    BY <1>0, <2>1, <2>2
  <2>9. \A k : Monitor(k) = Monitor(current) => k = current
    BY DEF Monitor
  <2>10. \A k \in Procs : pc'[Monitor(k)] # "idle" \/ k = current' => proc'[k] # "none"
    BY <2>1, <2>8, <2>9 DEF Read
  <2>11. \A k \in Procs : pc'[Monitor(k)] # "mark"
    <3>1. \A u \in Everyone : pc'[u] = "mark" => pc[u] = "mark" /\ u # t
      BY <2>2
    <3>2. \A u \in Everyone : pc[u] = "mark" => u = t
      BY <2>5 DEF Active
    <3> QED BY <1>0, <3>1, <3>2
  <2> QED
    BY <2>4, <2>7, <2>10, <2>11 DEF Read
<1>4. CASE SpawnSource(t)
  <2>1. /\ pc[t] = "source" /\ UNCHANGED <<proc, current>> /\ src' = "real"
        /\ \E l \in {"base_start", "idle"} : Goto(t, l)
    BY <1>4 DEF SpawnSource, SpawnOver, At
  <2>2. pc'[t] \in {"base_start", "idle"} /\ \A u \in Everyone \ {t} : pc'[u] = pc[u]
    BY <2>1, GotoFacts
  <2>3. \A u \in Everyone : Active(u)' => Active(u)
    BY <2>2 DEF Active, Coming
  <2>4. \A k \in Procs : /\ pc'[Monitor(k)] # "idle" => pc[Monitor(k)] # "idle"
                         /\ pc'[Monitor(k)] = "mark" => pc[Monitor(k)] = "mark"
    BY <1>0, <2>1, <2>2
  <2>5. \A u, v \in Everyone : Active(u)' /\ Active(v)' => u = v
    BY <2>3 DEF Read
  <2>6. /\ \A k \in Procs : pc'[Monitor(k)] # "idle" \/ k = current' => proc'[k] # "none"
        /\ \A k \in Procs : pc'[Monitor(k)] = "mark" => k # current'
    BY <2>1, <2>4 DEF Read
  <2> QED
    BY <2>1, <2>5, <2>6 DEF Read
<1> QED
  BY <1>1, <1>2, <1>3, <1>4 DEF Spawn

LEMMA ReadMonitor ==
  ASSUME TypeInv, Ways, LifeInv, Is(Audio), AudioInv, Read, ~hasty,
         NEW k \in Procs, MonitorStep(k), Destroyed => Destroyed'
  PROVE  Read'
<1>0. /\ Monitor(k) \in Everyone /\ Monitor(k) \in Monitors /\ Monitor(k) # User
      /\ \A j \in Procs : Monitor(j) \in Everyone
  BY BuiltinFacts
<1>1. CASE Spawn(Monitor(k))
  BY <1>0, <1>1, ReadSpawn
<1>2. CASE MonitorWake(k) \/ MonitorCheck(k) \/ MonitorRecheck(k)
  <2>1. /\ pc[Monitor(k)] \in {"wait", "check", "sleep"} /\ UNCHANGED <<proc, src, current>>
        /\ \E l \in {"clear", "sleep", "idle", "test"} : Goto(Monitor(k), l)
    BY <1>2 DEF MonitorWake, MonitorCheck, MonitorRecheck, At, ffmpegVars
  <2>2. Active(Monitor(k))
    BY <1>0, <2>1 DEF Active, Coming
  <2> QED BY <1>0, <2>1, <2>2, ReadGoes
<1>3. CASE ClearSource(Monitor(k))
  <2>1. /\ pc[Monitor(k)] = "clear" /\ Goto(Monitor(k), "check")
        /\ UNCHANGED <<proc, current>>
    BY <1>0, <1>3 DEF ClearSource, At
  <2>2. /\ pc'[Monitor(k)] = "check"
        /\ \A u \in Everyone \ {Monitor(k)} : pc'[u] = pc[u]
    BY <1>0, <2>1, GotoFacts
  <2>3. Active(Monitor(k))
    BY <1>0, <2>1 DEF Active, Coming
  <2>4. \A j \in Procs : ~Alive(j)
    <3>1. \A j \in Procs : ~Waits(j)
      BY <1>0, <2>1, <2>3, BuiltinFacts DEF Read, Active, Waits
    <3>2. ~Marks
      BY <1>0, <2>1, <2>3 DEF Marks, Read, Active
    <3> QED BY <3>1, <3>2 DEF AudioInv
  <2>5. \A j \in Procs : ~Alive(j)'
    BY <2>1, <2>4 DEF Alive
  <2>6. \A u \in Everyone : Active(u)' => Active(u)
    BY <2>2, <2>3 DEF Active, Coming
  <2>7. \A u, v \in Everyone : Active(u)' /\ Active(v)' => u = v
    BY <2>6 DEF Read
  <2>8. \A j \in Procs : /\ pc'[Monitor(j)] # "idle" => pc[Monitor(j)] # "idle"
                         /\ pc'[Monitor(j)] = "mark" => pc[Monitor(j)] = "mark"
    BY <1>0, <2>1, <2>2
  <2>9. /\ \A j \in Procs : pc'[Monitor(j)] # "idle" \/ j = current' => proc'[j] # "none"
        /\ \A j \in Procs : pc'[Monitor(j)] = "mark" => j # current'
    BY <2>1, <2>8 DEF Read
  <2> QED BY <2>5, <2>7, <2>9 DEF Read
<1> QED
  BY <1>1, <1>2, <1>3 DEF MonitorStep

LEMMA ReadCall ==
  ASSUME TypeInv, Ways, LifeInv, Is(Audio), AudioInv, Read, ~hasty,
         NEW t \in Callers, FfmpegCall(t), Destroyed => Destroyed'
  PROVE  Read'
<1>0. t \in Everyone /\ RightKind(pc[t]) /\ User \in Callers /\ t \notin Monitors
  BY BuiltinFacts DEF Ways
<1>1. CASE Spawn(t)
  BY <1>0, <1>1, ReadSpawn
<1>2. CASE ClearRequest(t)
  <2>1. /\ pc[t] = "clear_request" /\ Goto(t, "test") /\ UNCHANGED <<proc, src, current>>
    BY <1>2 DEF ClearRequest, At
  <2>2. Active(t)
    BY <2>1 DEF Active, Coming
  <2> QED BY <1>0, <2>1, <2>2, ReadGoes
<1>3. CASE StopRequest(t) \/ StopPoll(t) \/ StopAwaited(t)
  <2>1. /\ pc[t] \in {"request", "poll", "await"} /\ UNCHANGED <<proc, src, current>>
        /\ \E l \in {"poll", "await", "base_stop"} : Goto(t, l)
    BY <1>3 DEF StopRequest, StopPoll, StopAwaited, At, ffmpegVars
  <2> QED BY <1>0, <2>1, ReadGoes
<1>4. CASE MonitorJoined(t)
  <2>1. /\ pc[t] = "join_monitor" /\ Return(t) /\ UNCHANGED ffmpegVars
    BY <1>4 DEF MonitorJoined, At
  <2>2. /\ pc'[t] = "idle" /\ \A u \in Everyone \ {t} : pc'[u] = pc[u]
    BY <2>1, ReturnFacts DEF Everyone
  <2>3. /\ \A u \in Everyone : Active(u)' => Active(u)
        /\ \A u \in Everyone : pc[u] \in {"mark", "source"} => pc'[u] = pc[u]
    BY <1>0, <2>1, <2>2 DEF Active, Coming
  <2>4. UNCHANGED <<proc, src, current>> /\ \A k \in Procs : Alive(k)' => Alive(k)
    BY <2>1 DEF ffmpegVars, Alive
  <2>5. \A m \in Monitors : pc'[m] = pc[m]
    BY <1>0, <2>2, BuiltinFacts
  <2> QED BY <2>3, <2>4, <2>5, ReadStill
<1>5. CASE ClearSource(t)
  <2>1. t = User /\ pc[t] = "clear_source"
    <3>1. t # User => pc[t] = "clear"
      BY <1>5 DEF ClearSource, At
    <3>2. pc[t] # "clear"
      BY Where DEF Ways, Fits, OnStart, OnStop, OnDestroy, TypeInv, CallsTyped
    <3> QED BY <1>5, <3>1, <3>2 DEF ClearSource, At
  <2>2. op[User] = "destroy"
    BY <1>0, <2>1, Where DEF OnDestroy, OnStop
  <2>3. Destroyed'
    BY <2>2 DEF Destroyed
  <2>4. Goto(t, StopAt) /\ UNCHANGED <<proc, current>>
    BY <1>5, <2>1 DEF ClearSource
  <2>5. pc'[t] = StopAt /\ \A u \in Everyone \ {t} : pc'[u] = pc[u]
    BY <1>0, <2>4, GotoFacts
  <2>6. \A u \in Everyone : Active(u)' => Active(u)
    <3>1. ~(StopAt \in {"clear_request", "test", "popen", "mark"})
      BY WaysIn DEF OnStop
    <3> QED BY <1>0, <2>5, <3>1 DEF Active, Coming
  <2>7. \A u, v \in Everyone : Active(u)' /\ Active(v)' => u = v
    BY <2>6 DEF Read
  <2>8. \A j \in Procs : pc'[Monitor(j)] = pc[Monitor(j)]
    BY <1>0, <2>5, BuiltinFacts
  <2>9. /\ \A j \in Procs : pc'[Monitor(j)] # "idle" \/ j = current' => proc'[j] # "none"
        /\ \A j \in Procs : pc'[Monitor(j)] = "mark" => j # current'
    BY <2>4, <2>8 DEF Read
  <2> QED BY <2>3, <2>7, <2>9 DEF Read
<1>6. CASE StopWrite(t) \/ StopTerminate(t) \/ StopReap(t)
  <2>1. pc[t] \in {"write_q", "pause", "reap"}
    BY <1>6 DEF StopWrite, StopTerminate, StopReap, At
  <2>2. FALSE
    BY <1>0, <2>1 DEF RightKind, Is, Audio, Others
  <2> QED BY <2>2
<1> QED
  BY <1>1, <1>2, <1>3, <1>4, <1>5, <1>6 DEF FfmpegCall

LEMMA ReadExit ==
  ASSUME TypeInv, Read, NEW k \in Procs, Killed(k) \/ Crash(k), Destroyed => Destroyed'
  PROVE  Read'
<1>1. proc' = [proc EXCEPT ![k] = "exited"] /\ UNCHANGED <<pc, src, current>>
  BY DEF Killed, Crash, Exit
<1>2. /\ \A j \in Procs : Alive(j)' => Alive(j)
      /\ \A j \in Procs : proc[j] # "none" => proc'[j] # "none"
  BY <1>1 DEF Alive, TypeInv, FfmpegTypeOK
<1>3. \A u \in Everyone : Active(u)' => Active(u)
  BY <1>1 DEF Active, Coming
<1> QED
  BY <1>1, <1>2, <1>3, ReadStill

LEMMA ReadStep ==
  ASSUME TypeInv, Ways, LifeInv, ProcInv, ReadInv, [Next]_vars
  PROVE  ReadInv'
<1>0. LifeMoves
  BY StepMoves
<1>1. SUFFICES ASSUME Is(Audio), starts' <= 1 PROVE Read'
  BY <1>0, LifeKeeps DEF ReadInv, Is
<1>2. /\ starts <= 1 /\ ~hasty /\ AudioInv /\ Read
      /\ Destroyed => Destroyed'
  <2>1. starts <= 1
    BY <1>0, <1>1, LifeKeeps
  <2>2. Destroyed => Destroyed'
    BY <1>0, DestroyedStays
  <2> QED BY <1>1, <2>1, <2>2 DEF LifeInv, ProcInv, ReadInv
<1>3. CASE Life(UserStep) \/ Life(BaseStep)
  BY <1>1, <1>2, <1>3, ReadLife DEF Life
<1>4. CASE Ffmpeg(FfmpegStep)
  BY <1>1, <1>2, <1>4, ReadCall, ReadMonitor, ReadExit DEF Ffmpeg, FfmpegStep
<1>5. CASE UNCHANGED <<lifeVars, ffmpegVars, demuxVars, watchVars, serverVars>>
  <2>1. UNCHANGED <<pc, op, pstatus, proc, src, current>>
    BY <1>5 DEF lifeVars, ffmpegVars
  <2> QED BY <1>2, <2>1 DEF Read, Active, Coming, Alive, Destroyed
<1>6. kind = "audio_rtp" /\ \A K : "audio_rtp" \notin K => ~Is(K)
  BY <1>1 DEF Is, Audio
<1>7. /\ ~Is(DemuxKinds \cup FileKinds) /\ ~Is(WatchKinds) /\ ~Is(ServerKinds)
      /\ ~Is(SinkKinds)
  BY <1>6 DEF DemuxKinds, FileKinds, WatchKinds, ServerKinds, SinkKinds
<1> QED
  BY <1>3, <1>4, <1>5, <1>7, KindSteps

LEMMA ReadInit == Init => ReadInv
<1> SUFFICES ASSUME Init PROVE ReadInv
  OBVIOUS
<1>1. /\ proc = [k \in Procs |-> "none"] /\ current = 0
      /\ pc = [t \in Callers \cup Monitors |-> "idle"]
  BY DEF Init, LifeInit, FfmpegInit
<1>2. \A k \in Procs : ~Alive(k) /\ k # current
  BY <1>1 DEF Alive, Procs
<1>3. \A t \in Everyone : pc[t] = "idle"
  BY <1>1 DEF Everyone
<1>4. \A k \in Procs : pc[Monitor(k)] = "idle"
  BY <1>3, BuiltinFacts
<1> QED
  BY <1>2, <1>3, <1>4 DEF ReadInv, Read, Active, Coming

\* The live process of audio_rtp is read while the node is in its first start: no
\* clear_source() of a monitor comes after the set_source() for the next process.
THEOREM LiveProcessIsRead == ASSUME BuiltinAssumptions PROVE Spec => []LiveIsRead
<1>1. Spec => []ReadInv
  <2>1. HelperInv /\ ReadInv /\ [Next]_vars => ReadInv'
    BY ReadStep DEF HelperInv
  <2> QED BY <2>1, HelpersKept, ReadInit, PTL DEF Spec
<1>2. HelperInv /\ ReadInv => LiveIsRead
  <2> SUFFICES ASSUME HelperInv, ReadInv, Is({"audio_rtp"}), starts = 1, Alive(current),
                      \A t \in Callers \cup Monitors : pc[t] \notin Spawning,
                      op[User] # "destroy", pstatus # "DESTROYED"
               PROVE  src = "real"
    BY DEF LiveIsRead
  <2>1. Read
    BY DEF ReadInv, Audio
  <2>2. \A t \in Everyone : pc[t] \notin {"mark", "source"}
    BY DEF Everyone, Spawning
  <2> QED BY <2>1, <2>2 DEF Read, Alive, Destroyed
<1> QED
  BY <1>1, <1>2, HelpersKept, PTL

-----------------------------------------------------------------------------
(***************************************************************************)
(* stop() ends what start() began: the process of audio_rtp.               *)
(***************************************************************************)
LEMMA AudioEndsStill ==
  ASSUME AudioEnds, kind' = kind, hasty => hasty', Stopped' => Stopped \/ Left,
         UNCHANGED <<stopReq, late, target>>, \A k \in Procs : Alive(k)' => Alive(k),
         \A t \in Callers :
           /\ pc[t] \in {"poll", "await", "reap"} => pc'[t] = pc[t]
           /\ pc'[t] \in {"poll", "await"} => pc'[t] = pc[t]
           /\ Leaving(t)' => Leaving(t)
  PROVE  AudioEnds'
<1> SUFFICES ASSUME Is(Audio), ~hasty
             PROVE  /\ Stopped' => stopReq
                    /\ \A t \in Callers : Leaving(t)' \/ pc'[t] \in {"poll", "await"} => stopReq
                    /\ stopReq => \A k \in Procs \ late : Alive(k)' =>
                         \E t \in Callers : pc'[t] = "poll" \/ Awaits(t, k)'
  BY DEF AudioEnds, Is
<1>1. Stopped' => stopReq
  BY DEF AudioEnds, Left
<1>2. \A t \in Callers : Leaving(t)' \/ pc'[t] \in {"poll", "await"} => stopReq
  BY DEF AudioEnds
<1>3. ASSUME stopReq, NEW k \in Procs \ late, Alive(k)'
      PROVE  \E t \in Callers : pc'[t] = "poll" \/ Awaits(t, k)'
  <2>1. PICK t \in Callers : pc[t] = "poll" \/ Awaits(t, k)
    BY <1>3 DEF AudioEnds
  <2> QED BY <2>1 DEF Awaits
<1> QED
  BY <1>1, <1>2, <1>3

LEMMA AudioEndsLife ==
  ASSUME TypeInv, Ways, LifeInv, Is(Audio), AudioEnds, UserStep \/ BaseStep,
         UNCHANGED ffmpegVars
  PROVE  AudioEnds'
<1>1. StartAt = "clear_request" /\ StopAt = "request" /\ DestroyAt = "clear_source"
  <2>1. kind = "audio_rtp"
    BY DEF Is, Audio
  <2>2. StartAt = "clear_request"
    BY <2>1 DEF StartAt, Is, FfmpegKinds, DemuxKinds, ServerKinds
  <2>3. StopAt = "request"
    BY <2>1 DEF StopAt, Is, FfmpegKinds, DemuxKinds
  <2>4. DestroyAt = "clear_source"
    BY <2>1 DEF DestroyAt, Is
  <2> QED BY <2>2, <2>3, <2>4
<1>2. kind' = kind /\ (hasty => hasty') /\ \A t \in Callers : LifeLabels(t)
  BY LifeGoes
<1>3. \A t \in Callers :
        /\ pc[t] \in {"poll", "await", "reap"} => pc'[t] = pc[t]
        /\ pc'[t] \in {"poll", "await"} => pc'[t] = pc[t]
        /\ Leaving(t)' => Leaving(t)
  BY <1>1, <1>2 DEF LifeLabels, Leaving
<1>4. UNCHANGED <<stopReq, late, target>> /\ \A k \in Procs : Alive(k)' => Alive(k)
  BY DEF ffmpegVars, Alive
<1> QED
  BY <1>2, <1>3, <1>4, StoppedBefore, AudioEndsStill

\* The steps that start a process: when a stop() is requested, a late one.
LEMMA AudioEndsSpawn ==
  ASSUME TypeInv, Ways, Is(Audio), AudioEnds, NEW t \in Everyone, Spawn(t)
  PROVE  AudioEnds'
<1>0. Callers \subseteq Everyone /\ \A u \in Callers : \A k : u # Monitor(k)
  BY BuiltinFacts DEF Monitor, Callers, User, Control
<1>1. /\ pc[t] \in Spawning
      /\ UNCHANGED <<op, kind, hasty, status, stopReq, target>>
  BY DEF Spawn, SpawnTest, SpawnPopen, SpawnMark, SpawnSource, SpawnOver, Goto, Stays,
     pipeState, nodeState, At, Spawning
<1>2. \A u \in Callers : u # t => pc'[u] = pc[u]
  <2>1. CASE SpawnMark(t)
    <3>1. pc' = [pc EXCEPT ![t] = "source", ![Monitor(current)] = "wait"]
      BY <2>1 DEF SpawnMark
    <3> QED BY <1>0, <3>1 DEF TypeInv, CallsTyped
  <2>2. CASE ~SpawnMark(t)
    <3>1. \E l : Goto(t, l)
      BY <2>2 DEF Spawn, SpawnTest, SpawnPopen, SpawnSource, SpawnOver
    <3> QED BY <1>0, <3>1, GotoFacts
  <2> QED BY <2>1, <2>2
<1>3. t \in Callers => pc'[t] \in {"popen", "mark", "source", "base_start"}
  <2>1. CASE SpawnMark(t)
    <3>1. pc' = [pc EXCEPT ![t] = "source", ![Monitor(current)] = "wait"]
      BY <2>1 DEF SpawnMark
    <3> QED BY <1>0, <3>1 DEF TypeInv, CallsTyped
  <2>2. CASE ~SpawnMark(t)
    <3>1. t \in Callers => \E l \in {"popen", "mark", "base_start"} : Goto(t, l)
      BY <2>2 DEF Spawn, SpawnTest, SpawnPopen, SpawnSource, SpawnOver, Is, Audio
    <3> QED BY <3>1, GotoFacts
  <2> QED BY <2>1, <2>2
<1>4. \A u \in Callers :
        /\ pc[u] \in {"poll", "await", "reap"} => pc'[u] = pc[u]
        /\ pc'[u] \in {"poll", "await"} => pc'[u] = pc[u]
        /\ Leaving(u)' => Leaving(u)
  BY <1>1, <1>2, <1>3 DEF Leaving, Spawning
<1>5. Stopped' => Stopped
  BY <1>1 DEF Stopped
<1>6. CASE SpawnPopen(t)
  <2>1. PICK k \in Procs : /\ proc' = [proc EXCEPT ![k] = "alive"]
                           /\ late' = IF stopReq THEN late \cup {k} ELSE late
    BY <1>6 DEF SpawnPopen
  <2>2. \A j \in Procs : j # k => (Alive(j)' <=> Alive(j))
    BY <2>1 DEF Alive, TypeInv, FfmpegTypeOK
  <2> SUFFICES ASSUME ~hasty
               PROVE  /\ Stopped' => stopReq
                      /\ \A u \in Callers :
                           Leaving(u)' \/ pc'[u] \in {"poll", "await"} => stopReq
                      /\ stopReq => \A j \in Procs \ late' : Alive(j)' =>
                           \E u \in Callers : pc'[u] = "poll" \/ Awaits(u, j)'
    BY <1>1 DEF AudioEnds, Is
  <2>3. ASSUME stopReq, NEW j \in Procs \ late', Alive(j)'
        PROVE  \E u \in Callers : pc'[u] = "poll" \/ Awaits(u, j)'
    <3>1. j \notin late /\ Alive(j)
      BY <2>1, <2>2, <2>3
    <3>2. PICK u \in Callers : pc[u] = "poll" \/ Awaits(u, j)
      BY <2>3, <3>1 DEF AudioEnds
    <3> QED BY <1>1, <1>4, <3>2 DEF Awaits
  <2>4. Stopped' => stopReq
    BY <1>5 DEF AudioEnds
  <2>5. \A u \in Callers : Leaving(u)' \/ pc'[u] \in {"poll", "await"} => stopReq
    BY <1>4 DEF AudioEnds
  <2> QED BY <2>3, <2>4, <2>5
<1>7. CASE ~SpawnPopen(t)
  <2>1. UNCHANGED <<proc, late>>
    BY <1>7 DEF Spawn, SpawnTest, SpawnMark, SpawnSource
  <2>2. \A k \in Procs : Alive(k)' => Alive(k)
    BY <2>1 DEF Alive
  <2> QED BY <1>1, <1>4, <1>5, <2>1, <2>2, AudioEndsStill
<1> QED
  BY <1>6, <1>7

LEMMA AudioEndsMonitor ==
  ASSUME TypeInv, Ways, Is(Audio), AudioEnds, NEW k \in Procs, MonitorStep(k)
  PROVE  AudioEnds'
<1>0. Monitor(k) \in Everyone /\ Monitor(k) # User /\ \A u \in Callers : u # Monitor(k)
  BY BuiltinFacts
<1>1. CASE Spawn(Monitor(k))
  BY <1>0, <1>1, AudioEndsSpawn
<1>2. CASE ~Spawn(Monitor(k))
  <2>1. /\ \E l : Goto(Monitor(k), l)
        /\ UNCHANGED <<proc, stopReq, late, target>>
    BY <1>0, <1>2 DEF MonitorStep, MonitorWake, ClearSource, MonitorCheck, MonitorRecheck,
       ffmpegVars
  <2>2. /\ \A u \in Callers : pc'[u] = pc[u]
        /\ UNCHANGED <<op, kind, hasty, status>>
    BY <1>0, <2>1, GotoFacts, BuiltinFacts
  <2>3. \A j \in Procs : Alive(j)' => Alive(j)
    BY <2>1 DEF Alive
  <2>4. Stopped' => Stopped
    BY <2>2 DEF Stopped
  <2> QED BY <2>1, <2>2, <2>3, <2>4, AudioEndsStill DEF Leaving
<1> QED
  BY <1>1, <1>2

LEMMA AudioEndsCall ==
  ASSUME BuiltinAssumption, TypeInv, Ways, LifeInv, Is(Audio), AudioInv, AudioEnds,
         NEW t \in Callers, FfmpegCall(t)
  PROVE  AudioEnds'
<1>0. /\ t \in Everyone /\ RightKind(pc[t]) /\ User \in Callers /\ Control \in Callers
      /\ User # Control /\ Callers \subseteq Everyone
      /\ StopAt = "request"
  <2>1. kind = "audio_rtp"
    BY DEF Is, Audio
  <2>2. StopAt = "request"
    BY <2>1 DEF StopAt, Is, FfmpegKinds, DemuxKinds
  <2> QED BY <2>2, BuiltinFacts DEF Ways
<1>1. CASE Spawn(t)
  BY <1>0, <1>1, AudioEndsSpawn
<1>2. CASE ClearRequest(t)
  <2>1. /\ pc[t] = "clear_request" /\ Goto(t, "test") /\ stopReq' = FALSE
    BY <1>2 DEF ClearRequest, At
  <2>2. /\ pc'[t] = "test" /\ \A u \in Everyone \ {t} : pc'[u] = pc[u]
        /\ UNCHANGED <<op, kind, hasty, status>>
    BY <1>0, <2>1, GotoFacts
  <2>3. t = User /\ op[User] = "start" /\ Beginning
    <3>1. t = User /\ op[t] = "start"
      BY <2>1, Where DEF OnStart
    <3> QED BY <2>1, <3>1 DEF Beginning
  <2>4. ~hasty => pc[Control] = "idle"
    BY <1>0, <2>3, Where DEF LifeInv, Idle
  <2>5. ~hasty => \A u \in Callers : ~Leaving(u)' /\ pc'[u] \notin {"poll", "await"}
    BY <1>0, <2>2, <2>3, <2>4, BuiltinFacts DEF Leaving
  <2>6. ~Stopped'
    BY <2>2, <2>3 DEF Stopped
  <2> QED BY <2>1, <2>2, <2>5, <2>6 DEF AudioEnds
<1>3. CASE StopRequest(t)
  <2>1. Goto(t, "poll") /\ stopReq' = TRUE
    BY <1>3 DEF StopRequest
  <2>2. pc'[t] = "poll"
    BY <1>0, <2>1, GotoFacts
  <2> QED BY <2>1, <2>2 DEF AudioEnds
<1>4. CASE StopPoll(t)
  <2>1. /\ pc[t] = "poll" /\ UNCHANGED <<proc, late, stopReq>>
        /\ \E l \in {"base_stop", "await"} : Goto(t, l)
        /\ current = 0 \/ proc[current] = "exited" \/
             (Goto(t, "await") /\ target' = [target EXCEPT ![t] = current])
    BY <1>4 DEF StopPoll, At
  <2>2. /\ \A u \in Everyone \ {t} : pc'[u] = pc[u]
        /\ UNCHANGED <<op, kind, hasty, status>>
    BY <1>0, <2>1, GotoFacts
  <2>3. ASSUME ~hasty, NEW k \in Procs, Alive(k)'
        PROVE  Awaits(t, k)'
    <3>1. k = current /\ Alive(current)
      BY <2>1, <2>3 DEF AudioInv, Alive
    <3>2. current # 0 /\ proc[current] # "exited"
      BY <3>1 DEF Alive, Procs, BuiltinAssumption
    <3>3. Goto(t, "await") /\ target' = [target EXCEPT ![t] = current]
      BY <2>1, <3>2
    <3>4. pc'[t] = "await" /\ target'[t] = current
      BY <1>0, <3>3, GotoFacts DEF TypeInv, FfmpegTypeOK
    <3> QED BY <3>1, <3>4 DEF Awaits
  <2>4. Is(Audio) /\ ~hasty => stopReq
    BY <2>1 DEF AudioEnds
  <2> QED BY <2>1, <2>2, <2>3, <2>4 DEF AudioEnds, Is
<1>5. CASE StopAwaited(t)
  <2>1. /\ pc[t] = "await" /\ UNCHANGED <<proc, late, stopReq, target>>
        /\ Goto(t, "base_stop") /\ proc[target[t]] = "exited"
    BY <1>5 DEF StopAwaited, At, ffmpegVars
  <2>2. /\ \A u \in Everyone \ {t} : pc'[u] = pc[u]
        /\ UNCHANGED <<op, kind, hasty, status>>
    BY <1>0, <2>1, GotoFacts
  <2>3. Is(Audio) /\ ~hasty => stopReq
    BY <2>1 DEF AudioEnds
  <2>4. ASSUME ~hasty, NEW k \in Procs \ late, Alive(k)'
        PROVE  \E u \in Callers : pc'[u] = "poll" \/ Awaits(u, k)'
    <3>1. Alive(k)
      BY <2>1, <2>4 DEF Alive
    <3>2. PICK u \in Callers : pc[u] = "poll" \/ Awaits(u, k)
      BY <2>3, <2>4, <3>1 DEF AudioEnds
    <3>3. u # t
      BY <2>1, <3>1, <3>2 DEF Awaits, Alive
    <3>4. pc'[u] = pc[u] /\ target'[u] = target[u]
      BY <1>0, <2>1, <2>2, <3>3
    <3> QED BY <3>2, <3>4 DEF Awaits
  <2> QED BY <2>1, <2>2, <2>3, <2>4 DEF AudioEnds, Is
<1>6. CASE ClearSource(t) \/ MonitorJoined(t)
  <2>1. /\ pc[t] \in {"clear_source", "clear", "join_monitor"}
        /\ UNCHANGED <<proc, late, stopReq, target>>
    BY <1>6 DEF ClearSource, MonitorJoined, At, ffmpegVars
  <2>2. \/ \E l \in {"request", "check"} : Goto(t, l)
        \/ Return(t) /\ pc[t] = "join_monitor" /\ UNCHANGED nodeState
    BY <1>0, <1>6 DEF ClearSource, MonitorJoined, At
  <2>3. /\ pc'[t] \in {"request", "check", "idle"} /\ \A u \in Callers \ {t} : pc'[u] = pc[u]
        /\ UNCHANGED <<kind, hasty, status>>
    BY <1>0, <2>2, GotoFacts, ReturnFacts DEF nodeState
  <2>4. Stopped' => Stopped
    <3>1. CASE \E l \in {"request", "check"} : Goto(t, l)
      BY <1>0, <3>1, GotoFacts DEF Stopped
    <3>2. CASE Return(t) /\ pc[t] = "join_monitor"
      <4>1. t = User /\ op[User] = "destroy"
        BY <3>2, Where DEF OnDestroy, OnStop
      <4> QED BY <2>3, <4>1 DEF Stopped
    <3> QED BY <2>2, <3>1, <3>2
  <2>5. \A k \in Procs : Alive(k)' => Alive(k)
    BY <2>1 DEF Alive
  <2> QED BY <2>1, <2>3, <2>4, <2>5, AudioEndsStill DEF Leaving
<1>7. CASE StopWrite(t) \/ StopTerminate(t) \/ StopReap(t)
  <2>1. pc[t] \in {"write_q", "pause", "reap"}
    BY <1>7 DEF StopWrite, StopTerminate, StopReap, At
  <2>2. FALSE
    BY <1>0, <2>1 DEF RightKind, Is, Audio, Others
  <2> QED BY <2>2
<1> QED
  BY <1>1, <1>2, <1>3, <1>4, <1>5, <1>6, <1>7 DEF FfmpegCall

LEMMA AudioEndsStep ==
  ASSUME BuiltinAssumption, TypeInv, Ways, LifeInv, ProcInv, AudioEnds, [Next]_vars
  PROVE  AudioEnds'
<1>0. LifeMoves
  BY StepMoves
<1>1. SUFFICES ASSUME Is(Audio) PROVE AudioEnds'
  BY <1>0, LifeKeeps DEF AudioEnds, Is
<1>2. AudioInv
  BY <1>1 DEF ProcInv
<1>3. CASE Life(UserStep) \/ Life(BaseStep)
  BY <1>1, <1>2, <1>3, AudioEndsLife DEF Life
<1>4. ASSUME NEW k \in Procs, Killed(k) \/ Crash(k) PROVE AudioEnds'
  <2>1. /\ proc' = [proc EXCEPT ![k] = "exited"]
        /\ UNCHANGED <<pc, op, kind, hasty, status, stopReq, late, target>>
    BY <1>4 DEF Killed, Crash, Exit, Stays, pipeState, nodeState
  <2>2. \A j \in Procs : Alive(j)' => Alive(j)
    BY <2>1 DEF Alive, TypeInv, FfmpegTypeOK
  <2>3. Stopped' => Stopped
    BY <2>1 DEF Stopped
  <2> QED BY <2>1, <2>2, <2>3, AudioEndsStill DEF Leaving
<1>5. CASE Ffmpeg(FfmpegStep)
  BY <1>1, <1>2, <1>4, <1>5, AudioEndsCall, AudioEndsMonitor DEF Ffmpeg, FfmpegStep
<1>6. CASE UNCHANGED <<lifeVars, ffmpegVars, demuxVars, watchVars, serverVars>>
  <2>1. UNCHANGED <<pc, op, kind, hasty, status, proc, stopReq, late, target>>
    BY <1>6 DEF lifeVars, ffmpegVars
  <2>2. \A j \in Procs : Alive(j)' => Alive(j)
    BY <2>1 DEF Alive
  <2>3. Stopped' => Stopped
    BY <2>1 DEF Stopped
  <2> QED BY <2>1, <2>2, <2>3, AudioEndsStill DEF Leaving
<1>7. kind = "audio_rtp" /\ \A K : "audio_rtp" \notin K => ~Is(K)
  BY <1>1 DEF Is, Audio
<1>8. /\ ~Is(DemuxKinds \cup FileKinds) /\ ~Is(WatchKinds) /\ ~Is(ServerKinds)
      /\ ~Is(SinkKinds)
  BY <1>7 DEF DemuxKinds, FileKinds, WatchKinds, ServerKinds, SinkKinds
<1> QED
  BY <1>3, <1>5, <1>6, <1>8, KindSteps

-----------------------------------------------------------------------------
(***************************************************************************)
(* The demuxer and the observer of files.                                  *)
(***************************************************************************)
LEMMA StatusBefore ==
  ASSUME UserStep \/ BaseStep, status' = "STOPPED"
  PROVE  status = "STOPPED" \/ \E t \in Callers : BaseJoined(t)
  BY DEF UserStep, Start, Stop, Destroy, BaseStep, StopJoined, StopTaken, EmptyDestroy,
     BaseStart, BaseStop, nodeState

LEMMA DemuxEndsStep ==
  ASSUME TypeInv, Ways, ProcInv, DemuxEnds, [Next]_vars
  PROVE  DemuxEnds'
<1>0. kind' = kind
  BY StepMoves, LifeKeeps
<1>1. SUFFICES ASSUME Is(DemuxKinds), (status = "STOPPED" \/ Left)'
               PROVE  demux' = "ended"
  BY <1>0 DEF DemuxEnds, Is
<1>2. StopAt = "end_demuxer" /\ DestroyAt = "return" /\ StartAt = "start_demuxer"
  <2>1. kind \in {"audio_rtp_av", "video_rtp_av"}
    BY <1>1 DEF Is, DemuxKinds
  <2>2. StopAt = "end_demuxer"
    BY <2>1 DEF StopAt, Is, FfmpegKinds, DemuxKinds
  <2>3. DestroyAt = "return"
    BY <2>1 DEF DestroyAt, Is
  <2>4. StartAt = "start_demuxer"
    BY <2>1 DEF StartAt, Is, FfmpegKinds, DemuxKinds, ServerKinds
  <2> QED BY <2>2, <2>3, <2>4
<1>3. CASE Life(UserStep) \/ Life(BaseStep)
  <2>1. (UserStep \/ BaseStep) /\ demux' = demux
    BY <1>3 DEF Life, demuxVars
  <2>2. \A t \in Callers : Leaving(t)' => Leaving(t)
    BY <1>2, <2>1, LifeGoes DEF LifeLabels, Leaving
  <2>3. status' = "STOPPED" => status = "STOPPED" \/ Left
    BY <2>1, StatusBefore DEF BaseJoined, At, Left, Leaving
  <2> QED BY <1>1, <2>1, <2>2, <2>3 DEF DemuxEnds, Left
<1>4. CASE DemuxStep
  <2>1. demux = "ended" => demux' = "ended"
    BY <1>4 DEF DemuxStep, DemuxCall, StartDemuxer, EndDemuxer, JoinDemuxer, DemuxThread,
       DemuxOpen, DemuxEnd, DemuxPacket, DemuxEmit, DemuxFlush, DemuxLost, FileThread,
       FileChunk, FileEnd, RowRaises, demuxVars
  <2>2. status' = status
    BY <1>4 DEF DemuxStep, DemuxCall, StartDemuxer, EndDemuxer, JoinDemuxer, DemuxThread,
       DemuxOpen, DemuxEnd, DemuxPacket, DemuxEmit, DemuxFlush, DemuxLost, FileThread,
       FileChunk, FileEnd, RowRaises, Goto, Rtp, Stays, nodeState
  <2>3. ASSUME NEW t \in Callers, DemuxCall(t), demux # "ended", NEW u \in Callers, Leaving(u)'
        PROVE  Leaving(u)
    <3>1. \/ \E l \in {"base_start", "join_demuxer"} : Goto(t, l)
          \/ Raise(t)
      BY <2>3 DEF DemuxCall, StartDemuxer, EndDemuxer, JoinDemuxer
    <3>2. pc'[t] \in {"base_start", "join_demuxer", "idle"}
          /\ \A v \in Callers \ {t} : pc'[v] = pc[v]
      BY <3>1, GotoFacts, EnterFacts, BuiltinFacts DEF Raise
    <3> QED BY <2>3, <3>2 DEF Leaving
  <2>4. DemuxThread \/ DemuxLost \/ FileThread => pc' = pc
    BY DEF DemuxThread, DemuxOpen, DemuxEnd, DemuxPacket, DemuxEmit, DemuxFlush, DemuxLost,
       FileThread, FileChunk, FileEnd, RowRaises, Rtp
  <2>5. demux # "ended" => (Left' => Left)
    BY <1>4, <2>3, <2>4 DEF DemuxStep, Left, Leaving
  <2> QED BY <1>1, <2>1, <2>2, <2>5 DEF DemuxEnds
<1>5. CASE UNCHANGED <<lifeVars, ffmpegVars, demuxVars, watchVars, serverVars>>
  BY <1>1, <1>5 DEF lifeVars, demuxVars, DemuxEnds, Left, Leaving
<1>6. \A K : K \cap DemuxKinds = {} => ~Is(K)
  BY <1>1 DEF Is
<1>7. /\ ~Is(FfmpegKinds) /\ ~Is(WatchKinds) /\ ~Is(ServerKinds) /\ ~Is(SinkKinds)
  BY <1>6 DEF DemuxKinds, FfmpegKinds, WatchKinds, ServerKinds, SinkKinds
<1> QED
  BY <1>3, <1>4, <1>5, <1>7, KindSteps DEF Demux

LEMMA WatchEndsStep ==
  ASSUME TypeInv, Ways, ProcInv, WatchEnds, [Next]_vars
  PROVE  WatchEnds'
<1>0. kind' = kind
  BY StepMoves, LifeKeeps
<1>1. SUFFICES ASSUME Is(WatchKinds), status' = "STOPPED"
               PROVE  \/ observer' = "ended"
                      \/ \E t \in Callers : pc'[t] \in {"stop_observer", "join_observer"}
  BY <1>0 DEF WatchEnds, Is
<1>2. CASE Life(UserStep) \/ Life(BaseStep)
  <2>1. (UserStep \/ BaseStep) /\ observer' = observer
    BY <1>2 DEF Life, watchVars
  <2>2. ASSUME NEW t \in Callers, BaseJoined(t)
        PROVE  pc'[t] = "stop_observer"
    <3>1. AfterStop(t) = "stop_observer"
      BY <1>1 DEF AfterStop, Is, WatchKinds
    <3>2. pc' = [pc EXCEPT ![t] = "stop_observer"]
      BY <2>2, <3>1 DEF BaseJoined, LeaveStop
    <3> QED BY <3>2, BuiltinFacts DEF TypeInv, CallsTyped
  <2>3. \A t \in Callers : pc[t] \in {"stop_observer", "join_observer"} => pc'[t] = pc[t]
    BY <2>1, LifeGoes DEF LifeLabels
  <2> QED BY <1>1, <2>1, <2>2, <2>3, StatusBefore DEF WatchEnds
<1>3. CASE WatchStep
  <2>1. status' = status
    BY <1>3 DEF WatchStep, WatchCall, StartObserver, StopObserver, JoinObserver, WatchThread,
       WatchPut, WatchEnd, WatchEvent, WatchTake, PassOn, LoadImage, UpdateTake, Thread, Goto,
       Stays, nodeState
  <2>2. observer = "ended" => observer' = "ended"
    BY <1>3 DEF WatchStep, WatchCall, StartObserver, StopObserver, JoinObserver, WatchThread,
       WatchPut, WatchEnd, WatchEvent, WatchTake, PassOn, LoadImage, UpdateTake, watchVars
  <2>3. CASE observer = "ended"
    BY <2>2, <2>3
  <2>4. CASE observer # "ended"
    <3>1. PICK u \in Callers : pc[u] \in {"stop_observer", "join_observer"}
      BY <1>1, <2>1, <2>4 DEF WatchEnds
    <3>2. ASSUME NEW t \in Callers, WatchCall(t)
          PROVE  \E v \in Callers : pc'[v] \in {"stop_observer", "join_observer"}
      <4>1. CASE StartObserver(t)
        <5>1. u # t /\ \A v \in Callers \ {t} : pc'[v] = pc[v]
          BY <3>1, <4>1, ReturnFacts, EnterFacts DEF StartObserver, At, Raise
        <5> QED BY <3>1, <5>1
      <4>2. CASE StopObserver(t)
        BY <4>2, GotoFacts, BuiltinFacts DEF StopObserver
      <4> QED BY <2>4, <3>2, <4>1, <4>2 DEF WatchCall, JoinObserver
    <3>3. WatchThread \/ WatchEvent \/ WatchTake \/ PassOn \/ LoadImage => pc' = pc
      BY DEF WatchThread, WatchPut, WatchEnd, WatchEvent, WatchTake, PassOn, LoadImage,
         UpdateTake, Thread
    <3> QED BY <1>3, <3>1, <3>2, <3>3 DEF WatchStep
  <2> QED BY <2>3, <2>4
<1>4. CASE UNCHANGED <<lifeVars, ffmpegVars, demuxVars, watchVars, serverVars>>
  BY <1>1, <1>4 DEF lifeVars, watchVars, WatchEnds
<1>5. \A K : K \cap WatchKinds = {} => ~Is(K)
  BY <1>1 DEF Is
<1>6. /\ ~Is(FfmpegKinds) /\ ~Is(DemuxKinds \cup FileKinds) /\ ~Is(ServerKinds)
      /\ ~Is(SinkKinds)
  BY <1>5 DEF DemuxKinds, FileKinds, FfmpegKinds, WatchKinds, ServerKinds, SinkKinds
<1> QED
  BY <1>2, <1>3, <1>4, <1>6, KindSteps DEF Watch

-----------------------------------------------------------------------------
(***************************************************************************)
(* The server of json_http: its thread is asked to end after Node.stop().  *)
(* A second start() that does not come too early finds none; only a third  *)
(* one could be asked to end by a shutdown() that is still on its way.     *)
(***************************************************************************)
LEMMA DestroyedForGood ==
  ASSUME TypeInv, Ways, LifeInv, LifeMoves, pstatus = "DESTROYED"
  PROVE  pstatus' = "DESTROYED"
<1>0. User \in Callers /\ Control \in Callers /\ User # Control
  BY BuiltinFacts
<1>1. op[User] = "none"
  BY DEF LifeInv
<1>2. CASE UserStep \/ Taken \/ Moves
  BY <1>2 DEF UserStep, Start, Stop, Destroy, Taken, Moves, pipeState
<1>3. ASSUME NEW t \in Callers, Over(t) PROVE pstatus' = "DESTROYED"
  <2>1. t = Control
    BY <1>1, <1>3, BuiltinFacts DEF Over
  <2> QED BY <1>3, <2>1, ReturnFacts DEF Over, Raise, pipeState
<1>4. ASSUME NEW t \in Callers, BaseStart(t) PROVE FALSE
  <2>1. pc[t] \in OnStart
    BY <1>4 DEF BaseStart, At, OnStart
  <2> QED BY <1>1, <2>1, Where
<1>5. ASSUME NEW t \in Callers, BaseStop(t) \/ BaseJoined(t) PROVE pstatus' = "DESTROYED"
  <2>1. Leaving(t)
    BY <1>5 DEF BaseStop, BaseJoined, At, Leaving
  <2>2. t = Control
    BY <1>1, <2>1, Where, BuiltinFacts DEF Leaving, OnStop
  <2>3. LeaveStop(t) \/ UNCHANGED <<pipeState, op>>
    BY <1>5 DEF BaseStop, BaseJoined
  <2> QED BY <2>1, <2>2, <2>3, LeaveStopFacts DEF pipeState
<1> QED
  BY <1>2, <1>3, <1>4, <1>5 DEF LifeMoves

\* A node is STOPPED once a caller is through with Node.stop().
LEMMA StoppedLife ==
  ASSUME TypeInv, Ways, LifeInv, UserStep \/ BaseStep, Stopped'
  PROVE  Stopped \/ \E t \in Callers : BaseJoined(t)
<1>0. User \in Callers /\ Control \in Callers /\ User # Control
  BY BuiltinFacts
<1> SUFFICES ASSUME ~ \E t \in Callers : BaseJoined(t) PROVE Stopped
  OBVIOUS
<1>1. status = "STOPPED"
  BY StatusBefore DEF Stopped
<1>2. CASE UserStep
  BY <1>1, <1>2 DEF UserStep, Start, Stop, Destroy, Idle, Stopped
<1>3. CASE StopJoined \/ EmptyDestroy
  BY <1>0, <1>1, <1>3, Where DEF StopJoined, EmptyDestroy, At, OnDestroy, OnStop, Stopped
<1>4. CASE StopTaken
  BY <1>0, <1>1, <1>4, EnterFacts DEF StopTaken, Stopped
<1>5. ASSUME NEW t \in Callers, BaseStart(t) PROVE FALSE
  BY <1>5 DEF BaseStart, Stopped, LifeInv
<1>6. ASSUME NEW t \in Callers, BaseStop(t) PROVE Stopped
  <2>1. Leaving(t)
    BY <1>6 DEF BaseStop, At, Leaving
  <2>2. LeaveStop(t) \/ op' = op
    BY <1>6 DEF BaseStop
  <2>3. op[User] # "start"
    <3>1. op[t] # "start"
      BY <2>1, Where DEF Leaving, OnStop
    <3>2. t = Control => op'[User] = op[User]
      BY <1>0, <2>1, <2>2, LeaveStopFacts
    <3> QED BY <3>1, <3>2, BuiltinFacts DEF Stopped
  <2> QED BY <1>1, <2>3 DEF Stopped
<1> QED
  BY <1>2, <1>3, <1>4, <1>5, <1>6 DEF BaseStep

LEMMA HttpLife ==
  ASSUME TypeInv, Ways, LifeInv, LastStart, Is({"json_http"}), HttpInv,
         UserStep \/ BaseStep, UNCHANGED serverVars, LifeMoves
  PROVE  HttpInv'
<1>0. User \in Callers /\ Control \in Callers /\ User # Control
  BY BuiltinFacts
<1>1. StartAt = "start_server" /\ StopAt = "base_stop" /\ DestroyAt = "base_stop"
  <2>1. kind = "json_http"
    BY DEF Is
  <2>2. StartAt = "start_server"
    BY <2>1 DEF StartAt, Is, FfmpegKinds, DemuxKinds, ServerKinds
  <2>3. StopAt = "base_stop"
    BY <2>1 DEF StopAt, Is, FfmpegKinds, DemuxKinds
  <2>4. DestroyAt = "base_stop"
    BY <2>1, <2>3 DEF DestroyAt, Is
  <2> QED BY <2>2, <2>3, <2>4
<1>2. UNCHANGED <<serve, shutReq, isShut, gone>>
  BY DEF serverVars, httpVars
<1>3. \A k \in Threads : Serving(k)' <=> Serving(k)
  BY <1>2 DEF Serving
<1>4. \A t \in Callers :
        /\ pc[t] \in {"shutdown", "shut_test", "shut_wait", "shut_over"} => pc'[t] = pc[t]
        /\ pc'[t] = "shut_over" => pc[t] = "shut_over"
        /\ pc'[t] = "start_server" => pc[t] = "start_server" \/ Start
  BY <1>1, LifeGoes DEF LifeLabels
<1>5. /\ AtShut("shut_over")' => AtShut("shut_over")
      /\ \A l \in {"shutdown", "shut_test", "shut_wait"} : AtShut(l) => AtShut(l)'
  BY <1>4 DEF AtShut
<1>6. starts \in Nat /\ (starts = 0 => NoneServes)
  <2>1. starts \in Nat
    BY DEF TypeInv, CallsTyped
  <2>2. \A k \in Threads : starts = 0 => k > starts
    BY DEF Threads
  <2> QED BY <2>1, <2>2 DEF HttpInv, NoneServes, Serving
<1>7. isShut' => \E k \in Threads : serve'[k] = "over"
  BY <1>2 DEF HttpInv
<1>8. gone' => pstatus' = "DESTROYED"
  BY <1>2, DestroyedForGood DEF HttpInv
<1>9. CASE Start
  <2>1. /\ starts' = starts + 1 /\ op'[User] = "start" /\ status' = status
        /\ op[User] = "none" /\ pstatus = "READY"
    BY <1>0, <1>9, EnterFacts DEF Start, nodeState, Idle
  <2>2. ~hasty' => NoneServes
    <3>1. SUFFICES ASSUME ~hasty', starts # 0 PROVE NoneServes
      BY <1>6
    <3>2. starts > 0 /\ ~hasty /\ status = "STOPPED" /\ Idle(Control)
      <4>1. starts > 0
        BY <1>6, <3>1
      <4> QED BY <1>9, <3>1, <4>1 DEF Start, Unsettled
    <3>3. starts <= 2
      BY <3>2 DEF LastStart
    <3>4. starts # 2
      BY <2>1, <3>2 DEF LastStart
    <3>5. starts <= 1
      BY <1>6, <3>3, <3>4
    <3>6. \A t \in Callers : pc[t] = "idle"
      BY <1>0, <2>1, <3>2, Where, BuiltinFacts DEF Idle
    <3>7. ~AtShut("shutdown") /\ ~AtShut("shut_test") /\ ~AtShut("shut_wait")
      BY <3>6 DEF AtShut
    <3> QED BY <3>2, <3>5, <3>7 DEF HttpInv
  <2>3. \A k \in Threads : k > starts' \/ k = starts' => serve'[k] = "none"
    <3>1. \A k \in Threads : k > starts' \/ k = starts' => k > starts
      BY <1>6, <2>1 DEF Threads
    <3> QED BY <1>2, <3>1 DEF HttpInv
  <2>4. NoneServes => NoneServes'
    BY <1>3 DEF NoneServes
  <2>5. starts' <= 1 => NoneServes
    <3>1. starts' <= 1 => starts = 0
      BY <1>6, <2>1
    <3> QED BY <1>6, <3>1
  <2>6. ~Stopped'
    BY <2>1 DEF Stopped
  <2>7. NoneServes => \A k \in Threads : ~Serving(k)'
    BY <1>3 DEF NoneServes
  <2> QED
    BY <1>7, <1>8, <2>2, <2>3, <2>4, <2>5, <2>6, <2>7 DEF HttpInv
<1>10. CASE ~Start
  <2>1. hasty' = hasty /\ starts' = starts
    BY <1>10, LifeKeeps
  <2>2. pc'[User] = "start_server" => pc[User] = "start_server"
    BY <1>0, <1>4, <1>10
  <2>3. NoneServes' <=> NoneServes
    BY <1>3 DEF NoneServes
  <2>4. ASSUME NEW t \in Callers, BaseJoined(t) PROVE AtShut("shutdown")'
    <3>1. AfterStop(t) = "shutdown"
      BY DEF AfterStop
    <3>2. pc' = [pc EXCEPT ![t] = "shutdown"]
      BY <2>4, <3>1 DEF BaseJoined, LeaveStop
    <3>3. pc'[t] = "shutdown"
      BY <3>2, BuiltinFacts DEF TypeInv, CallsTyped
    <3> QED BY <3>3 DEF AtShut
  <2>5. ~hasty' /\ Stopped' => NoneServes' \/ shutReq' \/ AtShut("shutdown")'
    BY <1>2, <1>5, <2>1, <2>3, <2>4, StoppedLife DEF HttpInv
  <2>6. starts' <= 1 /\ status' = "STOPPED" =>
          NoneServes' \/ AtShut("shutdown")' \/ AtShut("shut_test")' \/ AtShut("shut_wait")'
    BY <1>5, <2>1, <2>3, <2>4, StatusBefore DEF HttpInv
  <2>7. starts' <= 1 => (AtShut("shut_over")' \/ isShut' \/ gone' => NoneServes')
    BY <1>2, <1>5, <2>1, <2>3 DEF HttpInv
  <2>8. \A k \in Threads : k > starts' \/ (k = starts' /\ pc'[User] = "start_server") =>
                             serve'[k] = "none"
    BY <1>2, <2>1, <2>2 DEF HttpInv
  <2>9. ~hasty' => (pc'[User] = "start_server" => NoneServes')
    BY <2>1, <2>2, <2>3 DEF HttpInv
  <2>10. ~hasty' => \A k \in Threads : Serving(k)' => k = starts'
    BY <1>3, <2>1 DEF HttpInv
  <2> QED
    BY <1>7, <1>8, <2>5, <2>6, <2>7, <2>8, <2>9, <2>10 DEF HttpInv
<1> QED
  BY <1>9, <1>10

\* The callers' part in the server.
LEMMA HttpCall ==
  ASSUME TypeInv, Ways, LifeInv, LastStart, Is({"json_http"}), HttpInv,
         NEW t \in Callers, ServerCall(t), LifeMoves
  PROVE  HttpInv'
<1>0. /\ User \in Callers /\ Control \in Callers /\ User # Control /\ t \in Everyone
      /\ Callers \subseteq Everyone /\ starts \in Nat
  BY BuiltinFacts DEF TypeInv, CallsTyped
<1>1. gone => pstatus' = "DESTROYED"
  BY DestroyedForGood DEF HttpInv
<1>2. starts <= 1 => ~hasty
  BY DEF LifeInv
<1>3. CASE StartServer(t)
  <2>1. /\ pc[t] = "start_server" /\ Goto(t, "base_start")
        /\ serve' = [serve EXCEPT ![starts] = "called"]
        /\ UNCHANGED <<shutReq, isShut, gone>>
    BY <1>3 DEF StartServer, At, httpVars
  <2>2. /\ pc'[t] = "base_start" /\ \A u \in Everyone \ {t} : pc'[u] = pc[u]
        /\ UNCHANGED <<op, pstatus, starts, hasty, status>>
    BY <1>0, <2>1, GotoFacts
  <2>3. t = User /\ op[User] = "start" /\ Beginning /\ pc[User] = "start_server"
    <3>1. t = User /\ op[t] = "start"
      BY <2>1, Where DEF OnStart
    <3> QED BY <2>1, <3>1 DEF Beginning
  <2>4. \A k \in Threads : serve'[k] = IF k = starts THEN "called" ELSE serve[k]
    BY <2>1 DEF TypeInv, ServerTypeOK
  <2>5. \A k \in Threads : k >= starts => serve[k] = "none"
    <3>1. \A k \in Threads : k >= starts => k > starts \/ k = starts
      BY <1>0 DEF Threads
    <3> QED BY <2>3, <3>1 DEF HttpInv
  <2>6. \A k \in Threads : k > starts => serve'[k] = "none"
    <3>1. \A k \in Threads : k > starts => k # starts
      BY <1>0 DEF Threads
    <3> QED BY <2>4, <3>1 DEF HttpInv
  <2>7. isShut => \E k \in Threads : serve[k] = "over" /\ k # starts
    <3>1. \A k \in Threads : k = starts => serve[k] = "none"
      BY <2>3 DEF HttpInv
    <3> QED BY <3>1 DEF HttpInv
  <2>8. isShut' => \E k \in Threads : serve'[k] = "over"
    BY <2>1, <2>4, <2>7
  <2>9. ~gone
    BY <2>3 DEF HttpInv, LifeInv
  <2>10. ~hasty => \A k \in Threads : Serving(k)' => k = starts
    <3>1. ~hasty => \A k \in Threads : ~Serving(k)
      BY <2>3 DEF HttpInv, NoneServes
    <3> QED BY <2>4, <3>1 DEF Serving
  <2>11. ~Stopped' /\ pc'[User] # "start_server"
    BY <2>2, <2>3 DEF Stopped
  <2>12. starts <= 1 => ~isShut /\ ~AtShut("shut_over")' /\ status # "STOPPED"
    <3> SUFFICES ASSUME starts <= 1 PROVE ~isShut /\ ~AtShut("shut_over")' /\ status # "STOPPED"
      OBVIOUS
    <3>1. starts = 1
      <4>1. starts # 0
        BY <2>3 DEF LifeInv
      <4> QED BY <1>0, <4>1
    <3>2. \A k \in Threads : k >= starts
      BY <3>1 DEF Threads
    <3>3. ~isShut
      BY <2>5, <3>2 DEF HttpInv
    <3>4. Idle(Control) /\ status = "CONFIGURED"
      BY <2>3, <3>1 DEF LifeInv
    <3>5. pc[Control] = "idle"
      BY <1>0, <3>4, Where DEF Idle
    <3>6. ~AtShut("shut_over")'
      BY <1>0, <2>2, <2>3, <3>5, BuiltinFacts DEF AtShut
    <3> QED BY <3>3, <3>4, <3>6
  <2> QED
    BY <2>1, <2>2, <2>6, <2>8, <2>9, <2>10, <2>11, <2>12 DEF HttpInv
<1>4. CASE HttpShutdown(t) \/ HttpWait(t) \/ HttpShut(t)
  <2>1. /\ pc[t] \in {"shutdown", "shut_test", "shut_over"} /\ UNCHANGED <<serve, isShut>>
        /\ UNCHANGED <<starts, hasty, status>>
        /\ shutReq => shutReq'
        /\ \/ Return(t) /\ pc[t] = "shut_over" /\ gone' = (gone \/ op[t] = "destroy")
           \/ Return(t) /\ pc[t] = "shutdown" /\ gone /\ gone' = gone
           \/ Goto(t, "shut_test") /\ pc[t] = "shutdown" /\ shutReq' = TRUE /\ gone' = gone
           \/ Goto(t, "shut_over") /\ pc[t] = "shut_test" /\ isShut /\ gone' = gone
           \/ Goto(t, "shut_wait") /\ pc[t] = "shut_test" /\ gone' = gone
    <3>1. \A l : Goto(t, l) => UNCHANGED <<starts, hasty, status>>
      BY DEF Goto, Stays, nodeState, pipeState
    <3>2. Return(t) => UNCHANGED <<starts, hasty>>
      BY DEF Return
    <3>3. CASE HttpShutdown(t)
      BY <3>1, <3>2, <3>3 DEF HttpShutdown, At, nodeState
    <3>4. CASE HttpWait(t)
      BY <3>1, <3>4 DEF HttpWait, At, httpVars
    <3>5. CASE HttpShut(t)
      BY <3>2, <3>5 DEF HttpShut, At, nodeState
    <3> QED BY <1>4, <3>3, <3>4, <3>5
  <2>2. /\ \A u \in Callers \ {t} : pc'[u] = pc[u]
        /\ pc'[t] \in {"idle", "shut_test", "shut_over", "shut_wait"}
    BY <1>0, <2>1, GotoFacts, ReturnFacts
  <2>3. op[t] \in {"stop", "destroy"} /\ (t = User => op[t] = "destroy")
    BY <2>1, Where DEF OnStop
  <2>4. Stopped' => Stopped
    <3>1. t = Control => op'[User] = op[User]
      BY <1>0, <2>1, GotoFacts, ReturnFacts
    <3>2. t = User => op[User] # "start"
      BY <2>3
    <3> QED BY <2>1, <3>1, <3>2, BuiltinFacts DEF Stopped
  <2>5. pc'[User] = "start_server" => pc[User] = "start_server"
    BY <1>0, <2>2
  <2>6. (\A k \in Threads : Serving(k)' <=> Serving(k)) /\ (NoneServes' <=> NoneServes)
    BY <2>1 DEF Serving, NoneServes
  <2>7. \A k \in Threads : k > starts' \/ (k = starts' /\ pc'[User] = "start_server") =>
                             serve'[k] = "none"
    BY <2>1, <2>5 DEF HttpInv
  <2>8. isShut' => \E k \in Threads : serve'[k] = "over"
    BY <2>1 DEF HttpInv
  <2>9. gone' => pstatus' = "DESTROYED"
    <3>1. ASSUME Return(t), op[t] = "destroy" PROVE pstatus' = "DESTROYED"
      <4>1. t = User
        BY <3>1, BuiltinFacts DEF Ways, Fits
      <4> QED BY <3>1, <4>1, ReturnFacts
    <3> QED BY <1>1, <2>1, <3>1
  <2>10. ~hasty' => /\ pc'[User] = "start_server" => NoneServes'
                    /\ \A k \in Threads : Serving(k)' => k = starts'
    BY <2>1, <2>5, <2>6 DEF HttpInv
  <2>11. gone /\ pc[t] = "shutdown" /\ ~hasty => NoneServes
    <3> SUFFICES ASSUME gone, pc[t] = "shutdown", ~hasty PROVE NoneServes
      OBVIOUS
    <3>1. op[User] = "none"
      BY DEF HttpInv, LifeInv
    <3>2. t = Control
      BY <2>3, <3>1, BuiltinFacts
    <3>3. ~(starts > 1)
      BY <2>3, <3>2 DEF LifeInv, Idle
    <3>4. starts <= 1
      BY <1>0, <3>3
    <3> QED BY <3>4 DEF HttpInv
  <2>12. ~hasty' /\ Stopped' => NoneServes' \/ shutReq' \/ AtShut("shutdown")'
    <3> SUFFICES ASSUME ~hasty, Stopped' PROVE NoneServes \/ shutReq' \/ AtShut("shutdown")'
      BY <2>1, <2>6
    <3>1. NoneServes \/ shutReq \/ AtShut("shutdown")
      BY <2>4 DEF HttpInv
    <3>2. CASE pc[t] = "shutdown"
      BY <2>1, <2>11, <3>2
    <3>3. CASE pc[t] # "shutdown"
      <4>1. AtShut("shutdown") => AtShut("shutdown")'
        BY <2>2, <3>3 DEF AtShut
      <4> QED BY <2>1, <3>1, <4>1
    <3> QED BY <3>2, <3>3
  <2>13. starts <= 1 /\ (AtShut("shut_over")' \/ isShut' \/ gone') => NoneServes
    <3>1. CASE pc[t] = "shut_over"
      BY <3>1 DEF AtShut, HttpInv
    <3>2. CASE pc[t] # "shut_over"
      <4>1. gone' = gone
        BY <2>1, <3>2
      <4>2. AtShut("shut_over")' => AtShut("shut_over") \/ isShut
        <5>1. pc'[t] = "shut_over" => isShut
          BY <1>0, <2>1, <3>2, GotoFacts, ReturnFacts
        <5> QED BY <2>2, <5>1 DEF AtShut
      <4> QED BY <2>1, <4>1, <4>2 DEF HttpInv
    <3> QED BY <3>1, <3>2
  <2>14. starts <= 1 /\ status = "STOPPED" =>
           NoneServes \/ AtShut("shutdown")' \/ AtShut("shut_test")' \/ AtShut("shut_wait")'
    <3> SUFFICES ASSUME starts <= 1, status = "STOPPED", ~NoneServes
                 PROVE  AtShut("shutdown")' \/ AtShut("shut_test")' \/ AtShut("shut_wait")'
      OBVIOUS
    <3>1. PICK u \in Callers : pc[u] \in {"shutdown", "shut_test", "shut_wait"}
      BY DEF HttpInv, AtShut
    <3>2. CASE u # t
      BY <2>2, <3>1, <3>2 DEF AtShut
    <3>3. CASE u = t
      <4>1. ~isShut /\ ~gone
        BY DEF HttpInv
      <4>2. pc'[t] \in {"shut_test", "shut_wait"}
        BY <1>0, <2>1, <3>1, <3>3, <4>1, GotoFacts
      <4> QED BY <4>2 DEF AtShut
    <3> QED BY <3>2, <3>3
  <2> QED
    BY <2>1, <2>6, <2>7, <2>8, <2>9, <2>10, <2>12, <2>13, <2>14 DEF HttpInv
<1>5. CASE WsShutdown(t)
  BY <1>5 DEF WsShutdown, Ws, Is
<1> QED
  BY <1>3, <1>4, <1>5 DEF ServerCall

\* The threads of the server go on as they are.
LEMMA HttpSame ==
  ASSUME HttpInv, UNCHANGED <<pc, op, pstatus, starts, hasty, status, shutReq, gone>>,
         isShut' => isShut,
         \A k \in Threads : /\ Serving(k)' <=> Serving(k)
                            /\ serve'[k] \in {"none", "over"} <=> serve[k] \in {"none", "over"}
                            /\ serve[k] \in {"none", "over"} => serve'[k] = serve[k]
  PROVE  HttpInv'
<1>1. NoneServes' <=> NoneServes
  BY DEF NoneServes
<1>2. \A k \in Threads : serve[k] \in {"none", "over"} => serve'[k] = serve[k]
  OBVIOUS
<1>3. \A k \in Threads : k > starts' \/ (k = starts' /\ pc'[User] = "start_server") =>
                           serve'[k] = "none"
  BY DEF HttpInv
<1>4. isShut' => \E k \in Threads : serve'[k] = "over"
  BY DEF HttpInv
<1>5. /\ \A l : AtShut(l)' <=> AtShut(l)
      /\ Stopped' <=> Stopped
  BY DEF AtShut, Stopped
<1>6. ~hasty' => /\ pc'[User] = "start_server" => NoneServes'
                 /\ \A k \in Threads : Serving(k)' => k = starts'
                 /\ Stopped' => NoneServes' \/ shutReq' \/ AtShut("shutdown")'
  BY <1>1, <1>5 DEF HttpInv
<1>7. starts' <= 1 =>
        /\ AtShut("shut_over")' \/ isShut' \/ gone' => NoneServes'
        /\ status' = "STOPPED" =>
             NoneServes' \/ AtShut("shutdown")' \/ AtShut("shut_test")' \/ AtShut("shut_wait")'
  BY <1>1, <1>5 DEF HttpInv
<1> QED
  BY <1>3, <1>4, <1>6, <1>7 DEF HttpInv

LEMMA HttpGoes ==
  ASSUME TypeInv, LifeInv, HttpInv, NEW k \in Threads, HttpThread(k) \/ HttpRequest(k)
  PROVE  HttpInv'
<1>0. serve \in [Threads -> {"none", "called", "serving", "putting", "over"}]
  BY DEF TypeInv, ServerTypeOK
<1>1. CASE HttpServe(k) \/ HttpPut(k) \/ HttpRequest(k)
  <2>1. /\ UNCHANGED <<pc, op, pstatus, starts, hasty, status, shutReq, gone>>
        /\ isShut' => isShut
        /\ serve' = serve \/ \E s \in {"serving", "putting"} : serve' = [serve EXCEPT ![k] = s]
        /\ serve[k] \in {"called", "serving", "putting"}
    BY <1>1 DEF HttpServe, HttpPut, HttpRequest, Quiet, Stays, nodeState, pipeState, httpVars
  <2>2. \A j \in Threads : /\ Serving(j)' <=> Serving(j)
                           /\ serve'[j] \in {"none", "over"} <=> serve[j] \in {"none", "over"}
                           /\ serve[j] \in {"none", "over"} => serve'[j] = serve[j]
    BY <1>0, <2>1 DEF Serving
  <2> QED BY <2>1, <2>2, HttpSame
<1>2. CASE HttpLeave(k)
  <2>1. /\ serve[k] = "serving" /\ serve' = [serve EXCEPT ![k] = "over"]
        /\ UNCHANGED <<op, pstatus, starts, hasty, status, gone>>
        /\ pc' = [t \in DOMAIN pc |-> IF At(t, "shut_wait") THEN "shut_over" ELSE pc[t]]
    BY <1>2 DEF HttpLeave, Stays, nodeState, pipeState
  <2>2. \A j \in Threads : serve'[j] = IF j = k THEN "over" ELSE serve[j]
    BY <1>0, <2>1
  <2>3. ~hasty => NoneServes'
    <3> SUFFICES ASSUME ~hasty, NEW j \in Threads, Serving(j)' PROVE FALSE
      BY DEF NoneServes
    <3>1. j # k /\ Serving(j)
      BY <2>2 DEF Serving
    <3>2. Serving(k)
      BY <2>1 DEF Serving
    <3> QED BY <3>1, <3>2 DEF HttpInv
  <2>4. starts <= 1 => NoneServes'
    BY <2>3 DEF LifeInv
  <2>5. pc'[User] = "start_server" => pc[User] = "start_server"
    BY <2>1, BuiltinFacts DEF TypeInv, CallsTyped, At
  <2>6. \A j \in Threads : j > starts' \/ (j = starts' /\ pc'[User] = "start_server") =>
                             serve'[j] = "none"
    BY <2>1, <2>2, <2>5 DEF HttpInv
  <2>7. \E j \in Threads : serve'[j] = "over"
    BY <2>2
  <2>8. NoneServes' => \A j \in Threads : ~Serving(j)'
    BY DEF NoneServes
  <2> QED
    BY <2>1, <2>3, <2>4, <2>6, <2>7, <2>8 DEF HttpInv
<1> QED
  BY <1>1, <1>2 DEF HttpThread

LEMMA ServerEndsStep ==
  ASSUME TypeInv, Ways, LifeInv, LastStart, ProcInv, ServerEnds, [Next]_vars
  PROVE  ServerEnds'
<1>0. LifeMoves /\ kind' = kind /\ (Is({"json_http"})' <=> Is({"json_http"}))
  BY StepMoves, LifeKeeps DEF Is
<1>1. serve \in [Threads -> {"none", "called", "serving", "putting", "over"}]
  BY DEF TypeInv, ServerTypeOK
<1>2. SUFFICES ASSUME serve' # serve \/ Is({"json_http"})
               PROVE  /\ \A k \in Threads : serve'[k] \in {"serving", "putting"} =>
                           Is({"json_http"})
                      /\ Is({"json_http"}) => HttpInv'
  BY <1>0 DEF ServerEnds
<1>3. CASE Life(UserStep) \/ Life(BaseStep)
  <2>1. (UserStep \/ BaseStep) /\ UNCHANGED serverVars
    BY <1>3 DEF Life
  <2>2. serve' = serve
    BY <2>1 DEF serverVars
  <2> QED BY <1>0, <2>1, <2>2, HttpLife DEF ServerEnds
<1>4. CASE ServerStep
  <2>1. ASSUME NEW t \in Callers, ServerCall(t)
        PROVE  \A k \in Threads : serve'[k] \in {"serving", "putting"} => Is({"json_http"})
    <3>1. serve' = serve \/ \E j \in {1, starts} : \E s \in {"called", "over"} :
                              serve' = [serve EXCEPT ![j] = s]
      BY <2>1 DEF ServerCall, StartServer, HttpShutdown, HttpWait, HttpShut, WsShutdown, Raise
    <3>2. \A k \in Threads : serve'[k] = serve[k] \/ serve'[k] \in {"called", "over"}
      BY <1>1, <3>1
    <3> QED BY <3>2 DEF ServerEnds
  <2>2. ASSUME NEW k \in Threads, HttpThread(k) \/ HttpRequest(k) PROVE Is({"json_http"})
    BY <2>2 DEF HttpThread, HttpServe, HttpPut, HttpLeave, HttpRequest, Http
  <2>3. HttpTake \/ WsConnect \/ WsReceive \/ WsThread => serve' = serve
    BY DEF HttpTake, WsConnect, WsReceive, WsThread, WsStop, WsSource, WsPutBack, WsWork
  <2>4. Is({"json_http"}) /\ HttpTake => HttpInv'
    <3> SUFFICES ASSUME Is({"json_http"}), HttpTake PROVE HttpInv'
      OBVIOUS
    <3>1. /\ UNCHANGED <<pc, op, pstatus, starts, hasty, status, shutReq, gone, isShut, serve>>
      BY DEF HttpTake, Quiet, Stays, nodeState, pipeState
    <3> QED BY <3>1, HttpSame DEF ServerEnds, Serving
  <2>5. Is({"json_http"}) => ~(WsConnect \/ WsReceive \/ WsThread)
    BY DEF WsConnect, WsReceive, WsThread, WsStop, WsSource, WsPutBack, WsWork, Ws, Is
  <2>6. \A k \in Threads : serve'[k] \in {"serving", "putting"} => Is({"json_http"})
    BY <1>4, <2>1, <2>2, <2>3 DEF ServerStep, ServerEnds
  <2>7. Is({"json_http"}) => HttpInv'
    BY <1>0, <1>4, <2>4, <2>5, HttpCall, HttpGoes DEF ServerStep, ServerEnds
  <2> QED BY <2>6, <2>7
<1>5. CASE UNCHANGED <<lifeVars, ffmpegVars, demuxVars, watchVars, serverVars>>
  <2>1. UNCHANGED <<pc, op, pstatus, starts, hasty, status, shutReq, gone, isShut, serve>>
    BY <1>5 DEF lifeVars, serverVars, httpVars
  <2> QED BY <2>1, HttpSame DEF ServerEnds, Serving
<1>6. ASSUME UNCHANGED serverVars, ~Is(ServerKinds) PROVE FALSE
  <2>1. serve' = serve /\ ~Is({"json_http"})
    BY <1>6 DEF serverVars, Is, ServerKinds
  <2> QED BY <1>2, <2>1
<1>7. \A K : Is(K) /\ K \cap ServerKinds = {} => ~Is(ServerKinds)
  BY DEF Is
<1>8. /\ FfmpegKinds \cap ServerKinds = {} /\ (DemuxKinds \cup FileKinds) \cap ServerKinds = {}
      /\ WatchKinds \cap ServerKinds = {} /\ SinkKinds \cap ServerKinds = {}
  BY DEF DemuxKinds, FileKinds, FfmpegKinds, WatchKinds, ServerKinds, SinkKinds
<1> QED
  BY <1>3, <1>4, <1>5, <1>6, <1>7, <1>8, KindSteps DEF Ffmpeg, Demux, Watch, Server, Sink

-----------------------------------------------------------------------------
EndInv == AudioEnds /\ DemuxEnds /\ WatchEnds /\ ServerEnds

LEMMA EndsInit == Init => EndInv
<1> SUFFICES ASSUME Init PROVE EndInv
  OBVIOUS
<1>1. /\ status = "CONFIGURED" /\ stopReq = FALSE /\ starts = 0 /\ pstatus = "READY"
      /\ pc = [t \in Callers \cup Monitors |-> "idle"]
      /\ serve = [k \in Threads |-> "none"] /\ shutReq = FALSE /\ isShut = FALSE /\ gone = FALSE
  BY DEF Init, LifeInit, FfmpegInit, ServerInit
<1>2. \A t \in Callers : pc[t] = "idle"
  BY <1>1
<1>3. AudioEnds
  BY <1>1, <1>2 DEF AudioEnds, Stopped, Leaving
<1>4. DemuxEnds /\ WatchEnds
  BY <1>1, <1>2 DEF DemuxEnds, WatchEnds, Left, Leaving
<1>5. ServerEnds
  <2>1. \A k \in Threads : serve[k] = "none"
    BY <1>1
  <2>2. NoneServes /\ \A k \in Threads : ~Serving(k)
    BY <2>1 DEF NoneServes, Serving
  <2>3. HttpInv
    BY <1>1, <2>1, <2>2 DEF HttpInv
  <2> QED BY <2>1, <2>3 DEF ServerEnds
<1> QED
  BY <1>3, <1>4, <1>5 DEF EndInv

\* Once the stop() of a node has returned, nothing it has started goes on: a child
\* process of an RTP source, a demuxer, an observer of files, an HTTP server.
THEOREM StoppingEndsHelpers == ASSUME BuiltinAssumptions PROVE Spec => []StopEndsHelpers
<1>1. Spec => []EndInv
  <2>1. BuiltinAssumptions /\ HelperInv /\ EndInv /\ [Next]_vars => EndInv'
    BY AudioEndsStep, DemuxEndsStep, WatchEndsStep, ServerEndsStep
       DEF EndInv, HelperInv, BuiltinAssumptions
  <2> QED BY <2>1, HelpersKept, EndsInit, PTL DEF Spec
<1>2. HelperInv /\ EndInv => StopEndsHelpers
  <2> SUFFICES ASSUME HelperInv, EndInv, ~hasty, status = "STOPPED", Idle(User), Idle(Control)
               PROVE  /\ Is({"audio_rtp", "video_rtp"}) => \A k \in Procs \ late : ~Alive(k)
                      /\ Is(DemuxKinds) => demux = "ended"
                      /\ Is(WatchKinds) => observer = "ended"
                      /\ \A k \in Threads : serve[k] = "serving" => shutReq
    BY DEF StopEndsHelpers
  <2>1. \A t \in Callers : pc[t] = "idle"
    BY Where, BuiltinFacts DEF HelperInv, Idle
  <2>2. Stopped
    BY DEF Stopped, Idle
  <2>3. Is(Audio) => \A k \in Procs \ late : ~Alive(k)
    BY <2>1, <2>2 DEF EndInv, AudioEnds, Awaits
  <2>4. Is({"video_rtp"}) => \A k \in Procs : ~Alive(k)
    BY <2>1, <2>2 DEF HelperInv, VideoEnds, Reaped, Awaits
  <2>5. Is({"audio_rtp", "video_rtp"}) => Is(Audio) \/ Is({"video_rtp"})
    BY DEF Is, Audio
  <2>6. \A k \in Threads : serve[k] = "serving" => shutReq
    <3> SUFFICES ASSUME NEW k \in Threads, serve[k] = "serving" PROVE shutReq
      OBVIOUS
    <3>1. HttpInv
      BY DEF EndInv, ServerEnds
    <3>2. ~NoneServes
      BY DEF NoneServes, Serving
    <3>3. ~AtShut("shutdown")
      BY <2>1 DEF AtShut
    <3> QED BY <2>2, <3>1, <3>2, <3>3 DEF HttpInv
  <2> QED
    BY <2>1, <2>3, <2>4, <2>5, <2>6 DEF EndInv, DemuxEnds, WatchEnds
<1> QED
  BY <1>1, <1>2, HelpersKept, PTL
=============================================================================
