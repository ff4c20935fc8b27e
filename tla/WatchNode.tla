------------------------------ MODULE WatchNode ------------------------------
(***************************************************************************)
(* Sources that watch a directory: file_watcher, which passes events on,   *)
(* and image_loader, which passes on the image an event is about. An       *)
(* observer of watchdog calls the handler of the node in a thread of its   *)
(* own; the handler writes to the inbound queue itself, past put(), so     *)
(* that a draining node discards nothing of it.                            *)
(***************************************************************************)
EXTENDS Builtin

CONSTANT MaxEvents   \* bound: events that are not ignored

ASSUME WatchAssumption == MaxEvents \in Nat

VARIABLES
  observer,  \* where its thread is; "new" before its start
  observed,  \* may it go on? stop() takes that back
  events,    \* events so far, of which the last may not be in the queue yet
  queue,     \* events in the inbound queue
  buffered,  \* events in the buffer of the node
  loaded     \* messages transmitted, _sent for image_loader

watchVars == <<observer, observed, events, queue, buffered, loaded>>

WatchInit ==
  /\ observer = "new" /\ observed = TRUE
  /\ events = 0 /\ queue = 0 /\ buffered = 0 /\ loaded = 0

-----------------------------------------------------------------------------
(***************************************************************************)
(* start() after Node.start(), stop() after Node.stop().                   *)
(***************************************************************************)
\* A thread can be started once: a second start() raises, with the threads of the
\* node started again.
StartObserver(t) ==
  /\ At(t, "start_observer")
  /\ IF observer = "new" THEN observer' = "watching" /\ Return(t)
                         ELSE Raise(t) /\ UNCHANGED observer
  /\ UNCHANGED <<nodeState, observed, events, queue, buffered, loaded>>

StopObserver(t) ==
  /\ At(t, "stop_observer")
  /\ observed' = FALSE
  /\ Goto(t, "join_observer")
  /\ UNCHANGED <<observer, events, queue, buffered, loaded>>

\* Without a time limit.
JoinObserver(t) ==
  /\ At(t, "join_observer")
  /\ observer = "ended"
  /\ Return(t)
  /\ UNCHANGED <<nodeState, watchVars>>

-----------------------------------------------------------------------------
(***************************************************************************)
(* The observer, then worker and update thread.                            *)
(***************************************************************************)
Thread == Is(WatchKinds) /\ Stays /\ UNCHANGED pc

\* A file has come, changed or gone, and is not ignored.
WatchEvent ==
  /\ Thread
  /\ observer = "watching" /\ observed /\ events < MaxEvents
  /\ events' = events + 1
  /\ observer' = "putting"
  /\ UNCHANGED <<observed, queue, buffered, loaded>>

\* The handler waits for room without a time limit.
WatchPut ==
  /\ Thread
  /\ observer = "putting" /\ queue < QueueSize
  /\ queue' = queue + 1
  /\ observer' = "watching"
  /\ UNCHANGED <<observed, events, buffered, loaded>>

WatchEnd ==
  /\ Thread
  /\ observer = "watching" /\ ~observed
  /\ observer' = "ended"
  /\ UNCHANGED <<observed, events, queue, buffered, loaded>>

\* The worker takes an event. Until it is joined it may do so once more.
WatchTake ==
  /\ Thread
  /\ Working \/ \E t \in Callers : At(t, "base_join")
  /\ queue > 0
  /\ queue' = queue - 1
  /\ buffered' = buffered + 1
  /\ UNCHANGED <<observer, observed, events, loaded>>

\* The update thread has an event.
UpdateTake ==
  /\ Working /\ updating
  /\ buffered > 0
  /\ buffered' = buffered - 1
  /\ UNCHANGED <<pipeState, status, handles, stopped, draining, op, pc>>
  /\ UNCHANGED <<observer, observed, events, queue>>

PassOn ==
  /\ Is({"file_watcher"}) /\ UpdateTake
  /\ loaded' = loaded + 1
  /\ UNCHANGED updating

\* What is not an image is left out; a file that has gone by now, or an image of
\* one channel, raises, which ends the update thread.
LoadImage ==
  /\ Is({"image_loader"}) /\ UpdateTake
  /\ \/ loaded' = loaded + 1 /\ UNCHANGED updating
     \/ UNCHANGED <<loaded, updating>>
     \/ updating' = FALSE /\ UNCHANGED loaded

WatchCall(t) == StartObserver(t) \/ StopObserver(t) \/ JoinObserver(t)
WatchThread == WatchPut \/ WatchEnd

WatchStep ==
  \/ \E t \in Callers : WatchCall(t)
  \/ WatchThread \/ WatchEvent \/ WatchTake \/ PassOn \/ LoadImage

-----------------------------------------------------------------------------
WatchTypeOK ==
  /\ observer \in {"new", "watching", "putting", "ended"}
  /\ observed \in BOOLEAN
  /\ events \in 0..MaxEvents /\ queue \in 0..QueueSize
  /\ {buffered, loaded} \subseteq 0..events

\* A stop() that never returns: Node.stop() has ended the worker, and then the
\* handler of an event waits for room in the queue that nobody reads any more.
WatchStuck(t) ==
  At(t, "join_observer") /\ observer = "putting" /\ queue = QueueSize
=============================================================================
