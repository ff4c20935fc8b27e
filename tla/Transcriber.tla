------------------------------ MODULE Transcriber ------------------------------
(***************************************************************************)
(* The transcribers of the plugins: vad_silero takes what is not speech    *)
(* out of the audio blocks of a source, and transcriber_whispy or _parakeet*)
(* has the last blocks transcribed together, in the time of the clip that  *)
(* is left, and works out at what time each word was spoken. Time is in    *)
(* samples; sample p of a recording is that between p - 1 and p.           *)
(***************************************************************************)
EXTENDS Buffer

CONSTANTS
  BlockSize,  \* samples of an audio block
  Keep,       \* keep of vad_silero: blocks it looks at together
  BufferSize  \* buffer_size of the transcriber

ASSUME TranscriberAssumption == {BlockSize, Keep, BufferSize} \subseteq Nat \ {0}

VARIABLE windows  \* _data of transcriber_whispy, by creator, or the _messages
                  \* of transcriber_parakeet, of all creators

TranscriberInit == windows = [c \in Origins |-> <<>>]

FirstKept(i) == IF i < Keep THEN 1 ELSE i - Keep + 1
KeptBlocks(i) == FirstKept(i)..i
SpeechIn(i) == SUBSET (1..BlockSize * Cardinality(KeptBlocks(i)))

\* _run_vad(): the longest runs of samples in which there is speech.
SpeechTimestamps(speech) ==
  LET starts == Sorted({p \in speech : p - 1 \notin speech}, Keep * BlockSize)
      ends == Sorted({p \in speech : p + 1 \notin speech}, Keep * BlockSize)
  IN [k \in DOMAIN starts |-> [start |-> starts[k] - 1, end |-> ends[k]]]

\* Message i of vad_silero for what is speech in the blocks it keeps: it has the
\* start of the last of these, and the samples of all, by their times.
Vad(i, speech) ==
  LET from == (FirstKept(i) - 1) * BlockSize
      samples == Sorted(speech, Keep * BlockSize)
  IN [start |-> (i - 1) * BlockSize,
      silence |-> speech = {},
      timestamps |-> SpeechTimestamps(speech),
      audio |-> [k \in DOMAIN samples |-> from + samples[k] - 1],
      late |-> (i - 1) * BlockSize - from]

-----------------------------------------------------------------------------
(***************************************************************************)
(* _rescale_trx_words(): where in the clip each run of speech is.          *)
(***************************************************************************)
Passed(segments, k) ==
  FoldLeft(LAMBDA time, s : time + (s.end - s.start), 0, SubSeq(segments, 1, k - 1))

SpeechMap(window) ==
  LET segments == FlattenSeq([j \in DOMAIN window |->
                    [k \in DOMAIN window[j].timestamps |->
                       [start |-> window[j].start + window[j].timestamps[k].start,
                        end |-> window[j].start + window[j].timestamps[k].end]]])
  IN [k \in DOMAIN segments |->
        [start |-> segments[k].start, end |-> segments[k].end,
         offset |-> Passed(segments, k)]]

\* Mutant: the time since the beginning of the clip, not of the run.
RescaledFromClip(time, map) ==
  {map[k].start + time :
     k \in {k \in DOMAIN map : /\ map[k].offset <= time
                               /\ time < map[k].offset + (map[k].end - map[k].start)}}

\* The time of a point of the clip, if it is in a run, without its end.
Rescaled(time, map) ==
  {map[k].start + (time - map[k].offset) :
     k \in {k \in DOMAIN map : /\ map[k].offset <= time
                               /\ time < map[k].offset + (map[k].end - map[k].start)}}

\* A word of which either end is in no run is left out.
RescaleTrxWords(words, window) ==
  LET map == SpeechMap(window)
  IN FlattenSeq([w \in DOMAIN words |->
       LET starts == Rescaled(words[w].start, map)
           ends == Rescaled(words[w].end, map)
       IN IF starts = {} \/ ends = {} THEN <<>>
          ELSE <<[start |-> CHOOSE x \in starts : TRUE, end |-> CHOOSE x \in ends : TRUE]>>])

-----------------------------------------------------------------------------
LastBlocks(s) == IF Len(s) <= BufferSize THEN s ELSE Tail(s)

\* update() of transcriber_whispy: each creator has its window.
Whispy(m, vad) ==
  windows' = [windows EXCEPT ![m.creator] =
                IF vad.silence THEN <<>> ELSE LastBlocks(Append(@, vad))]

\* update() of transcriber_parakeet: all creators have the same.
Parakeet(m, vad) ==
  windows' = [c \in Origins |->
                IF vad.silence THEN <<>> ELSE LastBlocks(Append(windows[c], vad))]

Transcribe ==
  /\ update = "transmit" /\ setup.node \in Transcribers
  /\ LET m == Last(batches)[1]
         vad == Vad(m.num, content[m.creator][m.num])
     IN IF Is("transcriber_whispy") THEN Whispy(m, vad) ELSE Parakeet(m, vad)
  /\ update' = "get"
  /\ UNCHANGED <<setup, content, keys, data, lock, outQueue, worker, message,
                 toSend, flusher, made, flushes, batches, flushed, lost>>

-----------------------------------------------------------------------------
TranscriberTypeOK ==
  \A c \in Origins : Len(windows[c]) <= BufferSize

\* The words that a model may hear in a clip of n samples.
Words(n) ==
  SelectSeq([k \in 1..(n + 1) ^ 2 |->
               [start |-> (k - 1) \div (n + 1), end |-> (k - 1) % (n + 1)]],
            LAMBDA w : w.start <= w.end)

\* A word of the clip comes out at the time at which it was spoken, later by the
\* blocks that vad_silero keeps before the last, and is left out only if it
\* ends with the clip. No clip goes over a silence of its creator.
WordsKeepPlace ==
  setup.node \in Transcribers =>
    \A c \in Origins :
      LET window == windows[c]
          clip == FlattenSeq([j \in DOMAIN window |->
                    [k \in DOMAIN window[j].audio |-> window[j].audio[k] + window[j].late]])
          over == SelectSeq(IF update = "transmit" THEN Front(batches) ELSE batches,
                            LAMBDA b : b[1].creator \in
                              IF Is("transcriber_whispy") THEN {c} ELSE Origins)
          words == Words(Len(clip))
          inside == SelectSeq(words, LAMBDA w : w.end < Len(clip))
      IN /\ RescaleTrxWords(words, window) =
              [w \in DOMAIN inside |->
                 [start |-> clip[inside[w].start + 1], end |-> clip[inside[w].end + 1]]]
         /\ \A k \in 1..Len(window) :
              LET m == over[Len(over) - Len(window) + k][1]
              IN window[k] = Vad(m.num, content[m.creator][m.num]) /\ ~window[k].silence
         /\ Len(window) < BufferSize /\ Len(window) < Len(over) =>
              LET m == over[Len(over) - Len(window)][1]
              IN content[m.creator][m.num] = {}
=============================================================================
