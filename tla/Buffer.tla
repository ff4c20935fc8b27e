-------------------------------- MODULE Buffer --------------------------------
(***************************************************************************)
(* The buffer between the worker and the update thread of a node           *)
(* (juturna/components/_buffer.py), which sorts messages by creator and    *)
(* has a synchroniser mark those that are to be processed next: the        *)
(* passthrough of _synchronisers.py, which marks all; the next_batch() of  *)
(* prompter_ollama, which waits for a number of messages; or that of       *)
(* summarizer_ollama, which waits for as many of one topic. In module Node *)
(* the buffer is a queue, as it is for the first as long as nobody calls   *)
(* flush().                                                                *)
(***************************************************************************)
EXTENDS Integers, Sequences, FiniteSets, SequencesExt

CONSTANTS
  Origins,      \* creators of data messages
  Pipe,         \* the pipeline, creator of the STOP
  MaxQueue,     \* JUTURNA_MAX_QUEUE_SIZE
  Topics,       \* topics of the messages of summarizer_ollama
  MaxMessages,  \* bound: data messages of any setup
  Setups        \* nodes, and bounds on what happens to them

(***************************************************************************)
(* A setup: the kind of node, "plain" for one of no interest here; the     *)
(* size of its batches; the creators of its data messages, and how many    *)
(* there are; does update() transmit nothing? And the calls of flush(),    *)
(* and of start() on the telemetry manager, 0 if there is none.            *)
(***************************************************************************)
Transcribers == {"transcriber_whispy", "transcriber_parakeet"}
NodeKinds == {"plain", "prompter_ollama", "summarizer_ollama"} \cup Transcribers

ASSUME BufferAssumption ==
  /\ Pipe \notin Origins
  /\ MaxQueue \in Nat \ {0}
  /\ MaxMessages \in Nat
  /\ Setups \subseteq [node : NodeKinds, size : Nat \ {0}, origins : SUBSET Origins,
                      messages : 0..MaxMessages, sink : BOOLEAN,
                      flushes : Nat, writers : Nat]

Message(c, i) == [creator |-> c, num |-> i]
STOP == Message(Pipe, 1)
Created == {Message(c, i) : c \in Origins, i \in 1..MaxMessages} \cup {STOP}

VARIABLES
  setup,      \* the node
  content,    \* what the messages of each creator carry that matters to the node
  keys,       \* the keys of _data, in the order they were added
  data,       \* _data, with <<>> where there is no key
  lock,       \* _data_lock: "free", or the thread that holds it
  outQueue,   \* _out_queue: sequences of messages, of which one is no batch
  worker,     \* where the worker is
  message,    \* what it has in hand
  toSend,     \* to_send, in _consume()
  update,     \* the update thread: "get", "transmit", "over" or "dead"
  flusher,    \* the thread in flush()
  made,       \* messages created so far
  flushes,    \* calls of flush() so far
  batches,    \* history: what the update thread has taken
  flushed,    \* history: messages flush() has thrown away
  lost        \* history: messages whose put() raised

bufferVars == <<setup, content, keys, data, lock, outQueue, worker, message, toSend,
                update, flusher, made, flushes, batches, flushed, lost>>

Creators == Origins \cup {Pipe}
NoData == [c \in Creators |-> <<>>]
Held(c) == Range(data[c])

BufferInit ==
  /\ setup \in Setups
  /\ content = [c \in Creators |-> <<>>]
  /\ keys = <<>> /\ data = NoData
  /\ lock = "free"
  /\ outQueue = <<>>
  /\ worker = "get" /\ message = STOP /\ toSend = <<>>
  /\ update = "get"
  /\ flusher = "idle"
  /\ made = [c \in Creators |-> 0]
  /\ flushes = 0
  /\ batches = <<>> /\ flushed = {} /\ lost = {}

-----------------------------------------------------------------------------
(***************************************************************************)
(* The synchronisers: which messages of each key, by their indices.        *)
(***************************************************************************)
Is(kind) == setup.node = kind
Passes == ~Is("prompter_ollama") /\ ~Is("summarizer_ollama")

\* prompter_ollama: the oldest of one key after the other, once there are
\* enough of all keys together.
AvailableIn(cs) == FoldLeft(LAMBDA n, c : n + Len(data[c]), 0, cs)

Oldest(i) ==
  LET remaining == setup.size - AvailableIn(SubSeq(keys, 1, i - 1))
  IN IF setup.size > AvailableIn(keys) THEN {}
     ELSE {k \in DOMAIN data[keys[i]] : k <= remaining}

\* summarizer_ollama: the oldest of a topic of one key, with the longest list
\* and then the most of a topic, where there are enough.
Topic(m) == content[m.creator][m.num]
OfTopic(c, t) == {k \in DOMAIN data[c] : Topic(data[c][k]) = t}

Full == {f \in Range(keys) \X Topics : Cardinality(OfTopic(f[1], f[2])) >= setup.size}
Fuller(f, g) ==
  \/ Len(data[f[1]]) > Len(data[g[1]])
  \/ /\ Len(data[f[1]]) = Len(data[g[1]])
     /\ Cardinality(OfTopic(f[1], f[2])) > Cardinality(OfTopic(g[1], g[2]))

OfBestTopic(i) ==
  LET best == CHOOSE f \in Full : ~\E g \in Full : Fuller(g, f)
      all == OfTopic(best[1], best[2])
  IN IF Full = {} \/ keys[i] # best[1] THEN {}
     ELSE {k \in all : Cardinality({j \in all : j <= k}) <= setup.size}

Marked(i) ==
  CASE Passes                  -> DOMAIN data[keys[i]]
    [] Is("prompter_ollama")   -> Oldest(i)
    [] Is("summarizer_ollama") -> OfBestTopic(i)

\* The STOP has no topic to ask for.
SyncRaises == Is("summarizer_ollama") /\ Held(Pipe) # {}

Sorted(indices, n) == SelectSeq([i \in 1..n |-> i], LAMBDA i : i \in indices)
At(s, indices) ==
  LET order == Sorted(indices, Len(s)) IN [k \in DOMAIN order |-> s[order[k]]]

\* _consume() takes the marks of a key from the last to the first.
Consumed ==
  FlattenSeq([i \in DOMAIN keys |-> Reverse(At(data[keys[i]], Marked(i)))])

\* Mutant: the messages are read, not popped.
LeftThere == data

Left ==
  [c \in Creators |->
     IF \E i \in DOMAIN keys : keys[i] = c
     THEN At(data[c], DOMAIN data[c] \ Marked(CHOOSE i \in DOMAIN keys : keys[i] = c))
     ELSE <<>>]

-----------------------------------------------------------------------------
(***************************************************************************)
(* The worker, and put(), which looks for the key, appends, and only then  *)
(* takes the lock.                                                         *)
(***************************************************************************)
\* A message from the queue of the node; the STOP may come between any two.
WorkerGet(c, x) ==
  /\ worker = "get"
  /\ IF c = Pipe THEN made[c] = 0
     ELSE /\ c \in setup.origins
          /\ FoldFunctionOnSet(+, 0, made, Origins) < setup.messages
  /\ made' = [made EXCEPT ![c] = @ + 1]
  /\ content' = [content EXCEPT ![c] = Append(@, x)]
  /\ message' = Message(c, made'[c])
  /\ worker' = "key"
  /\ UNCHANGED <<setup, keys, data, lock, outQueue, toSend, update, flusher,
                 flushes, batches, flushed, lost>>

\* The STOP has been handled: _stop_worker_event is set.
WorkerEnd ==
  /\ worker = "get" /\ update = "over"
  /\ worker' = "over"
  /\ UNCHANGED <<setup, content, keys, data, lock, outQueue, message, toSend, update,
                 flusher, made, flushes, batches, flushed, lost>>

PutKey ==
  /\ worker = "key"
  /\ keys' = IF Contains(keys, message.creator) THEN keys
                                                ELSE Append(keys, message.creator)
  /\ worker' = "append"
  /\ UNCHANGED <<setup, content, data, lock, outQueue, message, toSend, update,
                 flusher, made, flushes, batches, flushed, lost>>

\* A KeyError, if flush() has come between, ends the worker.
PutAppend ==
  /\ worker = "append"
  /\ IF Contains(keys, message.creator)
     THEN /\ data' = [data EXCEPT ![message.creator] = Append(@, message)]
          /\ worker' = "sync"
          /\ UNCHANGED lost
     ELSE /\ worker' = "dead"
          /\ lost' = lost \cup {message}
          /\ UNCHANGED data
  /\ UNCHANGED <<setup, content, keys, lock, outQueue, message, toSend, update,
                 flusher, made, flushes, batches, flushed>>

PutSync ==
  /\ worker = "sync"
  /\ lock = "free" /\ ~SyncRaises
  /\ toSend' = Consumed
  /\ data' = Left
  /\ IF toSend' = <<>> THEN worker' = "received" /\ UNCHANGED lock
                       ELSE worker' = "send" /\ lock' = "worker"
  /\ UNCHANGED <<setup, content, keys, outQueue, message, update, flusher, made,
                 flushes, batches, flushed, lost>>

\* Nothing catches what the synchroniser raises: the worker ends.
PutSyncRaise ==
  /\ worker = "sync"
  /\ lock = "free" /\ SyncRaises
  /\ worker' = "dead"
  /\ UNCHANGED <<setup, content, keys, data, lock, outQueue, message, toSend,
                 update, flusher, made, flushes, batches, flushed, lost>>

\* Mutant: the lock is not given up.
PutSendLocked ==
  /\ worker = "send"
  /\ Len(outQueue) < MaxQueue
  /\ outQueue' = Append(outQueue, toSend)
  /\ toSend' = <<>>
  /\ worker' = "received"
  /\ UNCHANGED <<setup, content, keys, data, lock, message, update, flusher, made,
                 flushes, batches, flushed, lost>>

\* Mutant: a queue without a limit.
PutSendUnbounded ==
  /\ worker = "send"
  /\ outQueue' = Append(outQueue, toSend)
  /\ toSend' = <<>>
  /\ lock' = "free"
  /\ worker' = "received"
  /\ UNCHANGED <<setup, content, keys, data, message, update, flusher, made, flushes,
                 batches, flushed, lost>>

\* Still with the lock, for as long as the out queue is full.
PutSend ==
  /\ worker = "send"
  /\ Len(outQueue) < MaxQueue
  /\ outQueue' = Append(outQueue, toSend)
  /\ toSend' = <<>>
  /\ lock' = "free"
  /\ worker' = "received"
  /\ UNCHANGED <<setup, content, keys, data, message, update, flusher, made, flushes,
                 batches, flushed, lost>>

PutStep == PutKey \/ PutAppend \/ PutSync \/ PutSyncRaise \/ PutSend

-----------------------------------------------------------------------------
(***************************************************************************)
(* The update thread: a STOP by itself ends it; one in a batch is payload. *)
(***************************************************************************)
UpdateGet ==
  /\ update = "get"
  /\ outQueue # <<>>
  /\ batches' = Append(batches, Head(outQueue))
  /\ outQueue' = Tail(outQueue)
  /\ update' = IF Head(outQueue) = <<STOP>> THEN "over" ELSE "transmit"
  /\ UNCHANGED <<setup, content, keys, data, lock, worker, message, toSend, flusher,
                 made, flushes, flushed, lost>>

-----------------------------------------------------------------------------
(***************************************************************************)
(* flush(), which audio_rtp, a node without next_batch(), calls in         *)
(* clear_source(), for a process that has ended or before destroy().       *)
(***************************************************************************)
FlushCall ==
  /\ flusher = "idle" /\ Passes
  /\ flushes < setup.flushes
  /\ flushes' = flushes + 1
  /\ flusher' = "lock"
  /\ UNCHANGED <<setup, content, keys, data, lock, outQueue, worker, message, toSend,
                 update, made, batches, flushed, lost>>

FlushData ==
  /\ flusher = "lock"
  /\ lock = "free"
  /\ lock' = "flusher"
  /\ keys' = <<>> /\ data' = NoData
  /\ flushed' = flushed \cup UNION {Held(c) : c \in Creators}
  /\ flusher' = "drain"
  /\ UNCHANGED <<setup, content, outQueue, worker, message, toSend, update, made,
                 flushes, batches, lost>>

FlushQueue ==
  /\ flusher = "drain"
  /\ IF outQueue = <<>>
     THEN /\ lock' = "free"
          /\ flusher' = "idle"
          /\ UNCHANGED <<outQueue, flushed>>
     ELSE /\ outQueue' = Tail(outQueue)
          /\ flushed' = flushed \cup Range(Head(outQueue))
          /\ UNCHANGED <<lock, flusher>>
  /\ UNCHANGED <<setup, content, keys, data, worker, message, toSend, update, made,
                 flushes, batches, lost>>

FlushStep == FlushData \/ FlushQueue

-----------------------------------------------------------------------------
BufferTypeOK ==
  /\ setup \in Setups
  /\ IsInjective(keys) /\ Range(keys) \subseteq Creators
  /\ data \in [Creators -> Seq(Created)]
  /\ lock \in {"free", "worker", "flusher"}
  /\ outQueue \in Seq(Seq(Created)) /\ Len(outQueue) <= MaxQueue
  /\ worker \in {"get", "key", "append", "sync", "send", "received", "over", "dead"}
  /\ message \in Created /\ toSend \in Seq(Created)
  /\ update \in {"get", "transmit", "over", "dead"}
  /\ flusher \in {"idle", "lock", "drain"}

Taken == FlattenSeq(batches)
InHand == IF worker \in {"key", "append"} THEN <<message>> ELSE <<>>
Everywhere ==
  InHand \o FlattenSeq([i \in DOMAIN keys |-> data[keys[i]]]) \o toSend
    \o FlattenSeq(outQueue) \o Taken \o SetToSeq(flushed) \o SetToSeq(lost)

\* A message put into the buffer is in one place, once, until it is taken by the
\* update thread or thrown away by flush(); of two messages of a creator, and of
\* one topic, the older is never taken in a later batch; a batch has the size
\* asked for.
BufferConserves ==
  /\ \A c \in Creators, i \in 1..MaxMessages :
       i <= made[c] =>
         Cardinality({k \in DOMAIN Everywhere : Everywhere[k] = Message(c, i)}) = 1
  /\ \A i, j \in DOMAIN batches :
       i < j => \A x \in Range(batches[i]), y \in Range(batches[j]) :
                  x.creator = y.creator /\ (Is("summarizer_ollama") => Topic(x) = Topic(y))
                  => x.num < y.num
  /\ \A i \in DOMAIN batches :
       Len(batches[i]) = IF Passes THEN 1 ELSE setup.size

\* What keeps a STOP from the update thread: the synchroniser waits for more, or
\* has put it into a batch; flush() has thrown it away, or has ended the worker,
\* as has a synchroniser that looks for its topic.
StopSwallowed ==
  \/ ~Passes /\ setup.size > 1 /\ (STOP \in Held(Pipe) \cup Range(Taken))
  \/ STOP \in flushed
  \/ worker = "dead"
=============================================================================
