------------------------------ MODULE DemuxNode ------------------------------
(***************************************************************************)
(* Sources that cut a stream into messages: audio_rtp_av and video_rtp_av, *)
(* with a thread that demuxes the stream and reconnects when it is lost,   *)
(* and audio_file and csv_data_loader, whose source thread goes through    *)
(* what warmup() has read or opened. Samples (frames of a video, rows of a *)
(* table) are numbered as they arrive; 0 is the padding of a block.        *)
(***************************************************************************)
EXTENDS Builtin, SequencesExt

CONSTANTS
  BlockSize,   \* samples of an audio block
  MaxSamples,  \* bound: samples received
  MaxConns     \* bound: times the stream is opened

ASSUME DemuxAssumption ==
  /\ BlockSize \in Nat \ {0} /\ MaxSamples \in Nat /\ MaxConns \in Nat

VARIABLES
  demux,     \* where the thread is; "new" before its start
  stopEvent, \* _stop_event
  partial,   \* _flush_partial_on_error
  pending,   \* _pending; for a file, what is not yet read
  elapsed,   \* _elapsed, in samples; for audio_file, sample_offset
  taken,     \* samples received so far
  conn,      \* times the stream has been opened
  room,      \* does the next node read? Its queue is full otherwise
  blocks     \* history: the messages, with the connection each belongs to

demuxVars == <<demux, stopEvent, partial, pending, elapsed, taken, conn, room,
               blocks>>
control == <<stopEvent, partial, room>>

Timed == Is({"audio_rtp_av", "audio_file"})
Size == IF Timed THEN BlockSize ELSE 1
NoVersion == -1
Padded(data) == [i \in 1..Size |-> IF i <= Len(data) THEN data[i] ELSE 0]

DemuxInit ==
  /\ demux = "new"
  /\ stopEvent = FALSE
  /\ partial \in IF Is({"audio_rtp_av"}) THEN BOOLEAN ELSE {Is(FileKinds)}
  /\ room \in IF Is({"audio_rtp_av"}) THEN BOOLEAN ELSE {TRUE}
  /\ pending \in IF Is(FileKinds)
                 THEN {[i \in 1..n |-> i] : n \in 0..MaxSamples} ELSE {<<>>}
  /\ elapsed = 0
  /\ taken = Len(pending)
  /\ conn = 0
  /\ blocks = <<>>

\* The message of a block: the next version, but none from a file, and the time
\* at which the last one of its connection ended, but none for a frame or a row.
Block(data) == [version |-> IF Is(FileKinds) THEN NoVersion ELSE Len(blocks),
                start |-> IF Timed THEN elapsed ELSE 0,
                conn |-> conn, data |-> Padded(data)]

\* video_rtp_av puts it to its own queue, audio_rtp_av transmits it.
Emit(data) ==
  /\ room
  /\ blocks' = Append(blocks, Block(data))
  /\ elapsed' = elapsed + Size

-----------------------------------------------------------------------------
(***************************************************************************)
(* The node: warmup() makes the thread, start() starts it, stop() waits    *)
(* for it without a time limit.                                            *)
(***************************************************************************)
\* A thread can be started once: a second start() raises.
StartDemuxer(t) ==
  /\ At(t, "start_demuxer")
  /\ IF demux = "new"
     THEN demux' = "loop" /\ Goto(t, "base_start")
     ELSE Raise(t) /\ UNCHANGED <<demux, nodeState>>
  /\ UNCHANGED <<control, pending, elapsed, taken, conn, blocks>>

\* Mutant: the event is not set.
EndDemuxerUnset(t) ==
  /\ At(t, "end_demuxer")
  /\ Goto(t, "join_demuxer")
  /\ UNCHANGED demuxVars

EndDemuxer(t) ==
  /\ At(t, "end_demuxer")
  /\ stopEvent' = TRUE
  /\ Goto(t, "join_demuxer")
  /\ UNCHANGED <<demux, partial, room, pending, elapsed, taken, conn, blocks>>

JoinDemuxer(t) ==
  /\ At(t, "join_demuxer")
  /\ demux = "ended"
  /\ Goto(t, "base_stop")
  /\ UNCHANGED demuxVars

-----------------------------------------------------------------------------
(***************************************************************************)
(* The thread of the RTP sources, _generate_chunks().                      *)
(***************************************************************************)
Rtp == Is({"audio_rtp_av", "video_rtp_av"}) /\ Stays /\ UNCHANGED pc

\* The stream is opened, or cannot be.
DemuxOpen ==
  /\ Rtp /\ demux = "loop" /\ ~stopEvent
  /\ conn < MaxConns
  /\ conn' = conn + 1
  /\ demux' \in {"read", "flush"}
  /\ UNCHANGED <<control, pending, elapsed, taken, blocks>>

DemuxEnd ==
  /\ Rtp /\ demux = "loop" /\ stopEvent
  /\ demux' = "ended"
  /\ UNCHANGED <<control, pending, elapsed, taken, conn, blocks>>

\* The samples of a packet, or the end of the loop over packets.
DemuxPacket ==
  /\ Rtp /\ demux = "read"
  /\ IF stopEvent
     THEN demux' = "flush" /\ UNCHANGED <<pending, taken>>
     ELSE \E n \in 1..MaxSamples - taken :
            /\ pending' = pending \o [i \in 1..n |-> taken + i]
            /\ taken' = taken + n
            /\ demux' = "emit"
  /\ UNCHANGED <<control, elapsed, conn, blocks>>

\* One turn of the loop of _flush_pending(), or of that over frames, which comes
\* to an end when a stop is requested. Without a whole block, back to the packets.
DemuxEmit ==
  /\ Rtp /\ demux = "emit"
  /\ IF Len(pending) >= Size /\ ~(Is({"video_rtp_av"}) /\ stopEvent)
     THEN /\ Emit(SubSeq(pending, 1, Size))
          /\ pending' = SubSeq(pending, Size + 1, Len(pending))
          /\ UNCHANGED demux
     ELSE /\ demux' = IF stopEvent THEN "flush" ELSE "read"
          /\ UNCHANGED <<pending, elapsed, blocks>>
  /\ UNCHANGED <<control, taken, conn>>

\* The stream ends or fails. An error that is not an OSError ends the thread of
\* audio_rtp_av, once the finally clause is through.
DemuxLost ==
  /\ Rtp /\ demux = "read"
  /\ demux' \in {"flush"} \cup (IF Is({"audio_rtp_av"}) THEN {"last_flush"} ELSE {})
  /\ UNCHANGED <<control, pending, elapsed, taken, conn, blocks>>

\* Mutant: what is pending stays for the next connection.
FlushKeeping ==
  /\ Rtp /\ demux \in {"flush", "last_flush"}
  /\ elapsed' = 0
  /\ demux' = IF demux = "flush" THEN "loop" ELSE "ended"
  /\ UNCHANGED <<control, pending, taken, conn, blocks>>

\* The finally clause: a padded block of what is left, if the node is to.
DemuxFlush ==
  /\ Rtp /\ demux \in {"flush", "last_flush"}
  /\ IF partial /\ pending # <<>>
     THEN room /\ blocks' = Append(blocks, Block(pending))
     ELSE UNCHANGED blocks
  /\ pending' = <<>>
  /\ elapsed' = 0
  /\ demux' = IF demux = "flush" THEN "loop" ELSE "ended"
  /\ UNCHANGED <<control, taken, conn>>

\* The source thread takes a chunk, or a row, and puts it to its own node.
FileChunk ==
  /\ Is(FileKinds) /\ Working /\ demux = "new"
  /\ pending # <<>>
  /\ Emit(SubSeq(pending, 1, IF Len(pending) < Size THEN Len(pending) ELSE Size))
  /\ pending' = SubSeq(pending, Size + 1, Len(pending))
  /\ Stays /\ UNCHANGED pc
  /\ UNCHANGED <<demux, control, taken, conn>>

\* After the last chunk, a STOP for the node; a STOP_PROPAGATE after the last row.
FileEnd ==
  /\ Is(FileKinds) /\ Working /\ demux = "new"
  /\ pending = <<>>
  /\ demux' = "ended"
  /\ stopSent' = (stopSent \/ ~draining)
  /\ UNCHANGED <<kind, pstatus, starts, hasty, nodeState, op, pc>>
  /\ UNCHANGED <<control, pending, elapsed, taken, conn, blocks>>

\* A row with too few or too many fields raises, which ends the source thread.
RowRaises ==
  /\ Is({"csv_data_loader"}) /\ Working /\ demux = "new"
  /\ pending # <<>>
  /\ demux' = "failed"
  /\ Stays /\ UNCHANGED pc
  /\ UNCHANGED <<control, pending, elapsed, taken, conn, blocks>>

DemuxCall(t) == StartDemuxer(t) \/ EndDemuxer(t) \/ JoinDemuxer(t)
DemuxThread == DemuxOpen \/ DemuxEnd \/ DemuxPacket \/ DemuxEmit \/ DemuxFlush
FileThread == FileChunk \/ FileEnd \/ RowRaises

DemuxStep ==
  \/ \E t \in Callers : DemuxCall(t)
  \/ DemuxThread \/ DemuxLost
  \/ FileThread

-----------------------------------------------------------------------------
DemuxTypeOK ==
  /\ demux \in {"new", "loop", "read", "emit", "flush", "last_flush", "failed",
              "ended"}
  /\ {stopEvent, partial, room} \subseteq BOOLEAN
  /\ pending \in Seq(1..MaxSamples)
  /\ elapsed \in Nat /\ taken \in 0..MaxSamples /\ conn \in 0..MaxConns

\* The blocks of a connection hold its samples in order, none twice, each block
\* of the full size and starting where the one before ends; a padded block is
\* the last; versions go on across connections, times begin again. With
\* flush_partial_on_error no sample of a connection that is over is left out.
BlocksInOrder ==
  /\ \A i \in DOMAIN blocks :
       LET b == blocks[i]
           follows == i > 1 /\ blocks[i - 1].conn = b.conn
       IN /\ ~Is(FileKinds) => b.version = i - 1
          /\ Timed =>
               b.start = IF follows THEN blocks[i - 1].start + Size ELSE 0
          /\ follows => b.data[1] = blocks[i - 1].data[Size] + 1
          /\ b.data[1] # 0
          /\ \A k \in 2..Size :
               b.data[k] \in IF b.data[k - 1] = 0 THEN {0} ELSE {0, b.data[k - 1] + 1}
  /\ partial /\ demux \in {"loop", "ended"} =>
       \A s \in 1..taken : \E i \in DOMAIN blocks : s \in Range(blocks[i].data)

\* A stop() that never returns: the thread waits for the next node to read, or,
\* in video_rtp_av, for a packet without a time limit.
DemuxStuck(t) ==
  /\ At(t, "join_demuxer")
  /\ \/ ~room /\ demux \in {"emit", "flush", "last_flush"} /\ pending # <<>>
     \/ Is({"video_rtp_av"}) /\ demux = "read"
=============================================================================
