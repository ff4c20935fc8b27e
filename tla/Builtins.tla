------------------------------ MODULE Builtins ------------------------------
(***************************************************************************)
(* One node of any built-in kind: the life that all share and the steps of *)
(* its kind.                                                               *)
(***************************************************************************)
EXTENDS FfmpegNode, DemuxNode, WatchNode, ServerNode, SinkNode

vars == <<lifeVars, ffmpegVars, demuxVars, watchVars, serverVars, sinkVars>>

Init ==
  LifeInit /\ FfmpegInit /\ DemuxInit /\ WatchInit /\ ServerInit /\ SinkInit

Life(A) == A /\ UNCHANGED <<ffmpegVars, demuxVars, watchVars, serverVars, sinkVars>>
Ffmpeg(A) == A /\ UNCHANGED <<demuxVars, watchVars, serverVars, sinkVars>>
Demux(A) == A /\ UNCHANGED <<ffmpegVars, watchVars, serverVars, sinkVars>>
Watch(A) == A /\ UNCHANGED <<ffmpegVars, demuxVars, serverVars, sinkVars>>
Server(A) == A /\ UNCHANGED <<ffmpegVars, demuxVars, watchVars, sinkVars>>
Sink(A) == A /\ UNCHANGED <<ffmpegVars, demuxVars, watchVars, serverVars>>

Next ==
  \/ Life(UserStep) \/ Life(BaseStep)
  \/ Ffmpeg(FfmpegStep) \/ Demux(DemuxStep) \/ Watch(WatchStep)
  \/ Server(ServerStep) \/ Sink(SinkStep)

Spec == Init /\ [][Next]_vars

\* Threads go on; a process that is told to end does; a sender is done with its
\* message at some time; audio_rtp_av has a time limit on the next packet. Not
\* fair: the user, crashes, clients, packets, events of files.
FairSpec ==
  /\ Spec
  /\ WF_vars(Life(BaseStep))
  /\ \A t \in Callers : /\ WF_vars(Ffmpeg(FfmpegCall(t)))
                        /\ WF_vars(Demux(DemuxCall(t)))
                        /\ WF_vars(Watch(WatchCall(t)))
                        /\ WF_vars(Server(ServerCall(t)))
                        /\ WF_vars(Sink(JoinSender(t)))
  /\ \A k \in Procs : WF_vars(Ffmpeg(MonitorStep(k))) /\ WF_vars(Ffmpeg(Killed(k)))
  /\ WF_vars(Demux(DemuxOpen)) /\ WF_vars(Demux(DemuxEnd))
  /\ WF_vars(Demux(DemuxEmit)) /\ WF_vars(Demux(DemuxFlush))
  /\ WF_vars(Demux(Is({"audio_rtp_av"}) /\ (DemuxPacket \/ DemuxLost)))
  /\ WF_vars(Watch(WatchThread)) /\ WF_vars(Watch(Working /\ WatchTake))
  /\ \A k \in Threads : WF_vars(Server(HttpThread(k)))
  /\ WF_vars(Server(Working /\ HttpTake)) /\ WF_vars(Server(WsThread))
  /\ \A m \in 1..MaxUpdates : WF_vars(Sink(SendOver(m)))

-----------------------------------------------------------------------------
TypeOK ==
  /\ LifeTypeOK /\ FfmpegTypeOK /\ DemuxTypeOK
  /\ WatchTypeOK /\ ServerTypeOK /\ SinkTypeOK

\* Once a stop() has returned and the node is STOPPED, with no start() that came
\* too early, nothing it has started goes on: no child process of an RTP source
\* that was there when the stop() was requested (one that a monitor was about to
\* start may yet come), no demuxer, no observer of files, no HTTP server.
StopEndsHelpers ==
  ~hasty /\ status = "STOPPED" /\ Idle(User) /\ Idle(Control) =>
    /\ Is({"audio_rtp", "video_rtp"}) => \A k \in Procs \ late : ~Alive(k)
    /\ Is(DemuxKinds) => demux = "ended"
    /\ Is(WatchKinds) => observer = "ended"
    /\ \A k \in Threads : serve[k] = "serving" => shutReq

\* start(), stop() and destroy() of a node return, but for a shutdown() of an
\* HTTP server that never ran or whose handler waits for room, for an observer
\* whose handler does, and for a demuxer that waits for the next node or a packet.
CallsEnd ==
  \A t \in Callers :
    ~Idle(t) ~> Idle(t) \/ ShutdownStuck(t) \/ WatchStuck(t) \/ DemuxStuck(t)
=============================================================================
