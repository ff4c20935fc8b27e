----------------------------- MODULE FfmpegNode -----------------------------
(***************************************************************************)
(* Nodes around an ffmpeg process: the sources audio_rtp, video_rtp and    *)
(* video_file, and the sink videostream_ffmpeg. audio_rtp has a monitor    *)
(* thread per process, which starts another one when it ends by itself.    *)
(* Processes are numbered as they are started; a monitor has the number of *)
(* its process.                                                            *)
(***************************************************************************)
EXTENDS Builtin

VARIABLES
  proc,      \* each process: "none" before its start, "alive", "exited"
  current,   \* the process in _ffmpeg_proc, 0 for None
  closed,    \* processes whose stdin a stop() has closed
  running,   \* _subprocess_running
  stopReq,   \* _stop_requested
  src,       \* _source_f: "none", "real" (reads _ffmpeg_proc), "empty"
  lock,      \* the monitor that holds _restart_lock, 0 for none
  target,    \* the process each caller of stop() waits for
  late,      \* history: processes started after a stop() was requested
  lost       \* history: processes that ended by themselves in a RUNNING node

ffmpegVars == <<proc, current, closed, running, stopReq, src, lock, target,
                late, lost>>

Procs == 1..MaxProcs
Unborn == {k \in Procs : proc[k] = "none"}
Newest(k) == k \in Unborn /\ \A j \in Unborn : k <= j
Alive(k) == k \in Procs /\ proc[k] = "alive"

FfmpegInit ==
  /\ proc = [k \in Procs |-> "none"]
  /\ current = 0
  /\ closed = {}
  /\ running = FALSE /\ stopReq = FALSE
  /\ src = "none"
  /\ lock = 0
  /\ target = [t \in Callers |-> 0]
  /\ late = {} /\ lost = {}

-----------------------------------------------------------------------------
(***************************************************************************)
(* start(). audio_rtp goes through _start_ffmpeg_process, as its monitors  *)
(* do; the others start a process whatever there is already.               *)
(***************************************************************************)
ClearRequest(t) ==
  /\ At(t, "clear_request")
  /\ stopReq' = FALSE
  /\ Goto(t, "test")
  /\ UNCHANGED <<proc, current, closed, running, src, lock, target, late, lost>>

\* A caller goes on to Node.start(), a monitor ends and gives up the lock.
SpawnOver(t) ==
  /\ Goto(t, IF t \in Callers THEN "base_start" ELSE "idle")
  /\ lock' = IF t \in Callers THEN lock ELSE 0

SpawnTest(t) ==
  /\ At(t, "test")
  /\ IF running THEN SpawnOver(t) ELSE Goto(t, "popen") /\ UNCHANGED lock
  /\ UNCHANGED <<proc, current, closed, running, stopReq, src, target, late, lost>>

SpawnPopen(t) ==
  /\ At(t, "popen")
  /\ \E k \in Procs :
       /\ Newest(k)
       /\ proc' = [proc EXCEPT ![k] = "alive"]
       /\ current' = k
       /\ late' = IF stopReq THEN late \cup {k} ELSE late
  /\ Goto(t, CASE Is({"audio_rtp"})          -> "mark"
               [] Is({"videostream_ffmpeg"}) -> "base_start"
               [] OTHER                      -> "source")
  /\ UNCHANGED <<closed, running, stopReq, src, lock, target, lost>>

\* The flag, and the monitor thread of the new process.
SpawnMark(t) ==
  /\ At(t, "mark")
  /\ running' = TRUE
  /\ pc' = [pc EXCEPT ![t] = "source", ![Monitor(current)] = "wait"]
  /\ Stays
  /\ UNCHANGED <<proc, current, closed, stopReq, src, lock, target, late, lost>>

\* Mutant: no set_source() for the new process.
SpawnSourceless(t) ==
  /\ At(t, "source")
  /\ src' = IF t \in Callers THEN "real" ELSE src
  /\ SpawnOver(t)
  /\ UNCHANGED <<proc, current, closed, running, stopReq, target, late, lost>>

SpawnSource(t) ==
  /\ At(t, "source")
  /\ src' = "real"
  /\ SpawnOver(t)
  /\ UNCHANGED <<proc, current, closed, running, stopReq, target, late, lost>>

Spawn(t) == SpawnTest(t) \/ SpawnPopen(t) \/ SpawnMark(t) \/ SpawnSource(t)

-----------------------------------------------------------------------------
(***************************************************************************)
(* monitor_process.                                                        *)
(***************************************************************************)
\* Mutant: the flag is left set.
MonitorWakeOnly(k) ==
  /\ At(Monitor(k), "wait")
  /\ proc[k] = "exited"
  /\ Goto(Monitor(k), "clear")
  /\ UNCHANGED ffmpegVars

\* Mutant: the wait for the process has a time limit.
MonitorHasty(k) ==
  /\ At(Monitor(k), "wait")
  /\ running' = FALSE
  /\ Goto(Monitor(k), "clear")
  /\ UNCHANGED <<proc, current, closed, stopReq, src, lock, target, late, lost>>

MonitorWake(k) ==
  /\ At(Monitor(k), "wait")
  /\ proc[k] = "exited"
  /\ running' = FALSE
  /\ Goto(Monitor(k), "clear")
  /\ UNCHANGED <<proc, current, closed, stopReq, src, lock, target, late, lost>>

\* clear_source(), also called by Pipeline.destroy() before destroy().
ClearSource(t) ==
  /\ At(t, IF t = User THEN "clear_source" ELSE "clear")
  /\ src' = "empty"
  /\ Goto(t, IF t = User THEN StopAt ELSE "check")
  /\ UNCHANGED <<proc, current, closed, running, stopReq, lock, target, late, lost>>

MayRestart == status = "RUNNING" /\ ~stopReq

\* The first test; two seconds of sleep follow.
MonitorCheck(k) ==
  /\ At(Monitor(k), "check")
  /\ Goto(Monitor(k), IF MayRestart THEN "sleep" ELSE "idle")
  /\ UNCHANGED ffmpegVars

\* The second one, with the lock, which nobody but other monitors takes.
MonitorRecheck(k) ==
  /\ At(Monitor(k), "sleep")
  /\ lock = 0
  /\ lock' = IF MayRestart THEN k ELSE 0
  /\ Goto(Monitor(k), IF MayRestart THEN "test" ELSE "idle")
  /\ UNCHANGED <<proc, current, closed, running, stopReq, src, target, late, lost>>

MonitorStep(k) ==
  \/ MonitorWake(k) \/ ClearSource(Monitor(k))
  \/ MonitorCheck(k) \/ MonitorRecheck(k)
  \/ Spawn(Monitor(k))

-----------------------------------------------------------------------------
(***************************************************************************)
(* stop() and destroy() of audio_rtp.                                      *)
(***************************************************************************)
\* Mutant: stop() does not say that it was requested.
StopUnrequested(t) ==
  /\ At(t, "request")
  /\ Goto(t, "poll")
  /\ UNCHANGED ffmpegVars

StopRequest(t) ==
  /\ At(t, "request")
  /\ stopReq' = TRUE
  /\ Goto(t, "poll")
  /\ UNCHANGED <<proc, current, closed, running, src, lock, target, late, lost>>

\* No process, or one that has ended: nothing to do but Node.stop().
StopPoll(t) ==
  /\ At(t, "poll")
  /\ IF current = 0 \/ proc[current] = "exited"
     THEN Goto(t, "base_stop") /\ UNCHANGED target
     ELSE /\ target' = [target EXCEPT ![t] = current]
          /\ Goto(t, "await")
  /\ UNCHANGED <<proc, current, closed, running, stopReq, src, lock, late, lost>>

\* A q for ffmpeg, after three seconds terminate(), after five more kill().
StopAwaited(t) ==
  /\ At(t, "await")
  /\ proc[target[t]] = "exited"
  /\ Goto(t, "base_stop")
  /\ UNCHANGED ffmpegVars

\* destroy() waits at most five seconds for the last monitor.
MonitorJoined(t) ==
  /\ At(t, "join_monitor")
  /\ Return(t)
  /\ UNCHANGED <<nodeState, ffmpegVars>>

-----------------------------------------------------------------------------
(***************************************************************************)
(* stop() of the others: an exception leaves the try block.                *)
(***************************************************************************)
LeaveTry(t) ==
  IF Is({"videostream_ffmpeg"}) THEN Return(t) /\ UNCHANGED nodeState
                                ELSE Goto(t, "base_stop")

\* The q: video_file and videostream_ffmpeg write a str to a binary pipe.
WriteRaises ==
  \/ Is({"video_file", "videostream_ffmpeg"})
  \/ current = 0
  \/ current \in closed
  \/ proc[current] = "exited"

StopWrite(t) ==
  /\ At(t, "write_q")
  /\ IF WriteRaises
     THEN LeaveTry(t) /\ UNCHANGED closed
     ELSE closed' = closed \cup {current} /\ Goto(t, "pause")
  /\ UNCHANGED <<proc, current, running, stopReq, src, lock, target, late, lost>>

\* After two seconds, terminate(); by then another stop() may have finished.
StopTerminate(t) ==
  /\ At(t, "pause")
  /\ IF current = 0
     THEN LeaveTry(t) /\ UNCHANGED target
     ELSE target' = [target EXCEPT ![t] = current] /\ Goto(t, "reap")
  /\ UNCHANGED <<proc, current, closed, running, stopReq, src, lock, late, lost>>

StopReap(t) ==
  /\ At(t, "reap")
  /\ proc[target[t]] = "exited"
  /\ current' = 0
  /\ LeaveTry(t)
  /\ UNCHANGED <<proc, closed, running, stopReq, src, lock, target, late, lost>>

-----------------------------------------------------------------------------
(***************************************************************************)
(* Processes end because a stop() asks them to, or by themselves; a crash  *)
(* is bounded by the processes that are left for restarts.                 *)
(***************************************************************************)
Exit(k) ==
  /\ Alive(k)
  /\ proc' = [proc EXCEPT ![k] = "exited"]
  /\ Stays /\ UNCHANGED pc
  /\ UNCHANGED <<current, closed, running, stopReq, src, lock, target, late>>

Killed(k) ==
  /\ \E t \in Callers : pc[t] \in {"await", "reap"} /\ target[t] = k
  /\ Exit(k)
  /\ UNCHANGED lost

Pending == {t \in Monitors : pc[t] \notin {"idle", "wait"}}

Crash(k) ==
  /\ Cardinality(Unborn) > Cardinality(Pending) + (MaxStarts - starts)
  /\ Exit(k)
  /\ lost' = IF status = "RUNNING" THEN lost \cup {k} ELSE lost

FfmpegCall(t) ==
  \/ ClearRequest(t) \/ Spawn(t)
  \/ ClearSource(t) \/ StopRequest(t) \/ StopPoll(t) \/ StopAwaited(t)
  \/ MonitorJoined(t)
  \/ StopWrite(t) \/ StopTerminate(t) \/ StopReap(t)

FfmpegStep ==
  \/ \E t \in Callers : FfmpegCall(t)
  \/ \E k \in Procs : MonitorStep(k) \/ Killed(k) \/ Crash(k)

-----------------------------------------------------------------------------
FfmpegTypeOK ==
  /\ proc \in [Procs -> {"none", "alive", "exited"}]
  /\ current \in 0..MaxProcs /\ lock \in 0..MaxProcs
  /\ target \in [Callers -> 0..MaxProcs]
  /\ {running, stopReq} \subseteq BOOLEAN
  /\ src \in {"none", "real", "empty"}
  /\ closed \cup late \cup lost \subseteq Procs

\* No two processes of a node read the same stream at a time, as long as it is
\* started once: neither a restart nor the start brings up a second one.
OneProcess ==
  ~hasty => \A j, k \in Procs : Alive(j) /\ Alive(k) => j = k

\* A live process is read: no clear_source() of an earlier process's monitor
\* comes after the set_source() for it.
LiveIsRead ==
  /\ Is({"audio_rtp"}) /\ starts = 1 /\ running /\ Alive(current)
  /\ \A t \in Callers \cup Monitors : pc[t] \notin Spawning
  /\ op[User] # "destroy" /\ pstatus # "DESTROYED"
  => src = "real"

\* A process that ends by itself in a RUNNING node is replaced, unless a stop
\* is requested first.
CrashIsRestarted ==
  \A k \in Procs :
    Is({"audio_rtp"}) /\ starts = 1 /\ k \in lost
      ~> stopReq \/ starts > 1 \/ (\E j \in Procs : j > k /\ proc[j] # "none")
=============================================================================
