------------------------------- MODULE NodeData -------------------------------
(***************************************************************************)
(* The way of a message through a node: the worker puts it into the buffer *)
(* and records that it was received; the update thread takes a batch and   *)
(* records what it transmits for it, unless the node is a sink. Two plugins *)
(* are here for what they remember from one batch to the next.             *)
(***************************************************************************)
EXTENDS Summarizer, Transcriber, Telemetry

memory == <<summarizerVars, windows>>
vars == <<bufferVars, telemetryVars, memory>>

Init == BufferInit /\ TelemetryInit /\ SummarizerInit /\ TranscriberInit

InBuffer(A) == A /\ UNCHANGED <<telemetryVars, memory>>
InTelemetry(A) == A /\ UNCHANGED <<bufferVars, memory>>

\* What a message of creator c may carry.
Contents(c) ==
  CASE c = Pipe                      -> {"control"}
    [] Is("summarizer_ollama")       -> Topics
    [] setup.node \in Transcribers   -> SpeechIn(made[c] + 1)
    [] OTHER                         -> {"data"}

Recording(r) == rec[r] # "idle"
Record(r) == IF setup.writers > 0 THEN RecBegin(r) ELSE UNCHANGED telemetryVars

\* put() has returned: the worker records the message.
Received ==
  /\ worker = "received"
  /\ Record("rx")
  /\ worker' = "get"
  /\ UNCHANGED <<setup, content, keys, data, lock, outQueue, message, toSend, update,
                 flusher, made, flushes, batches, flushed, lost, memory>>

\* update() is over, with one message transmitted for a batch, or none.
Transmitted ==
  /\ update = "transmit"
  /\ Is("plain") \/ (Is("prompter_ollama") /\ STOP \notin Range(Last(batches)))
  /\ IF setup.sink THEN UNCHANGED telemetryVars ELSE Record("tx")
  /\ update' = "get"
  /\ UNCHANGED <<setup, content, keys, data, lock, outQueue, worker, message, toSend,
                 flusher, made, flushes, batches, flushed, lost, memory>>

\* A STOP has no prompt: update() raises, which ends the update thread.
Prompted ==
  /\ update = "transmit"
  /\ Is("prompter_ollama") /\ STOP \in Range(Last(batches))
  /\ update' = "dead"
  /\ UNCHANGED <<setup, content, keys, data, lock, outQueue, worker, message, toSend,
                 flusher, made, flushes, batches, flushed, lost, telemetryVars, memory>>

WorkerStep == InBuffer(PutStep \/ (~Recording("rx") /\ WorkerEnd)) \/ Received
UpdateStep ==
  \/ InBuffer(~Recording("tx") /\ UpdateGet)
  \/ Transmitted \/ Prompted
  \/ Summarise /\ UNCHANGED <<telemetryVars, windows>>
  \/ Transcribe /\ UNCHANGED <<telemetryVars, summarizerVars>>
ManagerStep ==
  \/ latest < setup.writers /\ ManagerStart
  \/ ManagerStop
  \/ ManagerJoined

Next ==
  \/ \E c \in Creators : \E x \in Contents(c) :
       InBuffer(~Recording("rx") /\ WorkerGet(c, x))
  \/ WorkerStep
  \/ UpdateStep
  \/ InBuffer(FlushCall) \/ InBuffer(FlushStep)
  \/ \E r \in Recorders : InTelemetry(RecStep(r))
  \/ InTelemetry(ManagerStep)
  \/ \E w \in Writers : InTelemetry(WriterStep(w))

Spec == Init /\ [][Next]_vars

\* Threads go on; not fair: what comes from other nodes, and who calls flush()
\* or the manager.
FairSpec ==
  /\ Spec
  /\ WF_vars(WorkerStep) /\ WF_vars(UpdateStep)
  /\ WF_vars(InBuffer(FlushStep))
  /\ \A r \in Recorders : WF_vars(InTelemetry(RecStep(r)))
  /\ WF_vars(InTelemetry(ManagerJoined))
  /\ \A w \in Writers : WF_vars(InTelemetry(WriterStep(w)))

-----------------------------------------------------------------------------
TypeOK == BufferTypeOK /\ TelemetryTypeOK /\ SummarizerTypeOK /\ TranscriberTypeOK

\* Pipeline.stop() puts a STOP, which ends the update thread unless it is
\* swallowed on the way, and ends the telemetry, unless that was started twice.
StopsEnd ==
  /\ made[Pipe] = 1 ~> update = "over" \/ StopSwallowed
  /\ manager = "join" ~> manager = "idle" \/ MarkTaken

\* Each node gets its STOP: "sending a stopping signal to each node that will
\* cause them to stop processing" (Pipeline.stop()).
StopTaken == made[Pipe] = 1 ~> update = "over"
=============================================================================
