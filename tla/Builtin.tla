------------------------------- MODULE Builtin -------------------------------
(***************************************************************************)
(* What the nodes in juturna/nodes/, and sources in plugins/, share: one   *)
(* node, warmed up, in the hands of a pipeline (_pipeline.py), and what of *)
(* juturna/components/_node.py their own start(), stop() and               *)
(* destroy() call. A node of a built-in kind has helpers besides the three *)
(* threads of module Node: a child process, a demuxer, a server, a watcher.*)
(*                                                                         *)
(* Two threads call the node: the user of the pipeline, with start() and   *)
(* destroy(), and the control thread that handles the STOP of              *)
(* Pipeline.stop(), with stop(). The latter may still be at it when        *)
(* Pipeline.stop() has returned, as join() has time limits. The worker,    *)
(* update and source threads of the node are not steps here: module Node   *)
(* has them.                                                               *)
(***************************************************************************)
EXTENDS Integers, Sequences, FiniteSets

CONSTANTS
  Kinds,      \* kinds of node, by the names of their modules
  Restarted,  \* bound: kinds the pipeline of which is started more than once
  MaxStarts,  \* bound: calls of Pipeline.start(), for these
  QueueSize,  \* capacity of the inbound queue of the node
  MaxProcs    \* bound: child processes a node starts

FfmpegKinds == {"audio_rtp", "video_rtp", "video_file", "videostream_ffmpeg"}
DemuxKinds == {"audio_rtp_av", "video_rtp_av"}
FileKinds == {"audio_file", "csv_data_loader"}
WatchKinds == {"file_watcher", "image_loader"}
ServerKinds == {"json_http", "json_websocket"}
SinkKinds == {"notifier_udp", "notifier_http", "notifier_websocket", "warp"}

ASSUME BuiltinAssumption ==
  /\ Kinds \subseteq UNION {FfmpegKinds, DemuxKinds, FileKinds, WatchKinds,
                            ServerKinds, SinkKinds}
  /\ Restarted \subseteq Kinds
  /\ MaxStarts \in Nat \ {0}
  /\ QueueSize \in Nat \ {0}
  /\ MaxProcs \in Nat \ {0}

User == <<"user", 0>>
Control == <<"control", 0>>
Callers == {User, Control}
Monitor(k) == <<"monitor", k>>
Monitors == {Monitor(k) : k \in 1..MaxProcs}

VARIABLES
  kind,      \* the kind of the node
  pstatus,   \* _status of the pipeline
  starts,    \* calls of Pipeline.start()
  hasty,     \* history: did one come too early? (see Unsettled)
  status,    \* _status of the node
  handles,   \* are its thread attributes set?
  stopped,   \* its three stop events, which nothing clears
  draining,  \* _draining
  updating,  \* does the update thread still take batches?
  stopSent,  \* is a STOP on its way through the node?
  op,        \* the call each caller is in
  pc         \* where in it, and where each monitor thread is

lifeVars == <<kind, pstatus, starts, hasty, status, handles, stopped,
              draining, updating, stopSent, op, pc>>
nodeState == <<status, handles, stopped, draining, updating>>
pipeState == <<kind, pstatus, starts, hasty, stopSent>>

Is(K) == kind \in K
At(t, label) == pc[t] = label
Idle(t) == op[t] = "none"
Working == handles /\ ~stopped
Stays == UNCHANGED <<nodeState, pipeState, op>>
Goto(t, label) == pc' = [pc EXCEPT ![t] = label] /\ Stays

LifeInit ==
  /\ kind \in Kinds
  /\ pstatus = "READY"
  /\ starts = 0 /\ hasty = FALSE
  /\ status = "CONFIGURED"
  /\ handles = FALSE /\ stopped = FALSE /\ draining = FALSE /\ updating = FALSE
  /\ stopSent = FALSE
  /\ op = [t \in Callers |-> "none"]
  /\ pc = [t \in Callers \cup Monitors |-> "idle"]

-----------------------------------------------------------------------------
(***************************************************************************)
(* Where the node's own start(), stop() and destroy() begin. "base_start"  *)
(* and "base_stop" are those of Node, "return" is an empty destroy().      *)
(***************************************************************************)
StartAt ==
  CASE Is({"audio_rtp"})                -> "clear_request"
    [] Is(FfmpegKinds \ {"audio_rtp"})  -> "popen"
    [] Is(DemuxKinds)                   -> "start_demuxer"
    [] Is(ServerKinds)                  -> "start_server"
    [] OTHER                            -> "base_start"

StopAt ==
  CASE Is({"audio_rtp"})                -> "request"
    [] Is(FfmpegKinds \ {"audio_rtp"})  -> "write_q"
    [] Is(DemuxKinds)                   -> "end_demuxer"
    [] Is({"json_websocket"})           -> "shutdown"
    [] OTHER                            -> "base_stop"

DestroyAt ==
  CASE Is({"audio_rtp"})                             -> "clear_source"
    [] Is({"video_rtp", "video_file", "json_http"})  -> StopAt
    [] Is({"notifier_websocket"})                    -> "join_sender"
    [] OTHER                                         -> "return"

Enter(t, call, label) ==
  /\ op' = [op EXCEPT ![t] = call]
  /\ pc' = [pc EXCEPT ![t] = label]

\* The call of t returns, and with it that of the pipeline: its status changes
\* unless the call was one of the control thread's.
Return(t) ==
  /\ op' = [op EXCEPT ![t] = "none"]
  /\ pc' = [pc EXCEPT ![t] = "idle"]
  /\ pstatus' = IF t = Control THEN pstatus
                ELSE CASE op[t] = "start"   -> "RUNNING"
                       [] op[t] = "stop"    -> "READY"
                       [] op[t] = "destroy" -> "DESTROYED"
  /\ UNCHANGED <<kind, starts, hasty, stopSent>>

\* The call of t raises, and that of the pipeline with it.
Raise(t) == Enter(t, "none", "idle") /\ UNCHANGED pipeState

-----------------------------------------------------------------------------
\* The stop() of the node is not over, or a monitor is about to start a process.
Spawning == {"test", "popen", "mark", "source"}
Unsettled ==
  \/ status # "STOPPED" \/ ~Idle(Control)
  \/ \E m \in Monitors : pc[m] \in Spawning

Start ==
  /\ Idle(User) /\ pstatus = "READY"
  /\ starts < IF kind \in Restarted THEN MaxStarts ELSE 1
  /\ starts' = starts + 1
  /\ hasty' = (hasty \/ (starts > 0 /\ Unsettled))
  /\ Enter(User, "start", StartAt)
  /\ UNCHANGED <<kind, pstatus, stopSent, nodeState>>

\* Pipeline.stop(): a STOP for the node, then its join().
Stop ==
  /\ Idle(User) /\ pstatus = "RUNNING"
  /\ stopSent' = (stopSent \/ ~draining)
  /\ Enter(User, "stop", "join")
  /\ UNCHANGED <<kind, pstatus, starts, hasty, nodeState>>

StopJoined ==
  /\ At(User, "join")
  /\ Return(User)
  /\ UNCHANGED nodeState

\* The update thread comes to the STOP, hands it to a control thread, and ends.
StopTaken ==
  /\ stopSent /\ Working /\ updating /\ Idle(Control)
  /\ ~Is({"json_websocket"})
  /\ stopSent' = FALSE
  /\ updating' = FALSE
  /\ Enter(Control, "stop", StopAt)
  /\ UNCHANGED <<kind, pstatus, starts, hasty, status, handles, stopped, draining>>

\* Pipeline.destroy() of a pipeline that does not run.
Destroy ==
  /\ Idle(User) /\ pstatus = "READY"
  /\ Enter(User, "destroy", DestroyAt)
  /\ UNCHANGED <<pipeState, nodeState>>

EmptyDestroy ==
  /\ At(User, "return")
  /\ Return(User)
  /\ UNCHANGED nodeState

-----------------------------------------------------------------------------
\* Node.start() is the last thing in the start() of a node, but of a watcher.
LeaveStart(t) ==
  IF Is(WatchKinds)
  THEN pc' = [pc EXCEPT ![t] = "start_observer"] /\ UNCHANGED <<pipeState, op>>
  ELSE Return(t)

\* Node.start(): threads only where there are none. Once the stop events have
\* been set, new ones end at once.
BaseStart(t) ==
  /\ At(t, "base_start")
  /\ draining' = FALSE
  /\ handles' = TRUE
  /\ updating' = (updating \/ ~handles)
  /\ status' = IF handles THEN status ELSE "RUNNING"
  /\ LeaveStart(t)
  /\ UNCHANGED stopped

\* What follows Node.stop() in a stop() or destroy() of the node.
AfterStop(t) ==
  IF Is({"json_http"}) THEN "shutdown"
  ELSE IF Is(WatchKinds) THEN "stop_observer"
  ELSE IF Is({"audio_rtp"}) /\ op[t] = "destroy" THEN "join_monitor"
  ELSE "end"

LeaveStop(t) ==
  IF AfterStop(t) = "end" THEN Return(t)
  ELSE /\ pc' = [pc EXCEPT ![t] = AfterStop(t)]
       /\ UNCHANGED <<pipeState, op>>

\* Node.stop(): nothing to do in a node that has stopped.
BaseStop(t) ==
  /\ At(t, "base_stop")
  /\ IF status = "STOPPED"
     THEN LeaveStop(t) /\ UNCHANGED <<draining, stopped>>
     ELSE /\ draining' = TRUE
          /\ stopped' = TRUE
          /\ pc' = [pc EXCEPT ![t] = "base_join"]
          /\ UNCHANGED <<pipeState, op>>
  /\ UNCHANGED <<status, handles, updating>>

BaseJoined(t) ==
  /\ At(t, "base_join")
  /\ handles' = FALSE
  /\ status' = "STOPPED"
  /\ LeaveStop(t)
  /\ UNCHANGED <<stopped, draining, updating>>

UserStep == Start \/ Stop \/ Destroy

BaseStep ==
  \/ StopJoined \/ StopTaken \/ EmptyDestroy
  \/ \E t \in Callers : BaseStart(t) \/ BaseStop(t) \/ BaseJoined(t)

LifeTypeOK ==
  /\ kind \in Kinds
  /\ pstatus \in {"READY", "RUNNING", "DESTROYED"}
  /\ starts \in 0..MaxStarts /\ hasty \in BOOLEAN
  /\ status \in {"CONFIGURED", "RUNNING", "STOPPED"}
  /\ {handles, stopped, draining, updating, stopSent} \subseteq BOOLEAN
  /\ op \in [Callers -> {"none", "start", "stop", "destroy"}]
=============================================================================
