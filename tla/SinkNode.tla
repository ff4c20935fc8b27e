------------------------------ MODULE SinkNode ------------------------------
(***************************************************************************)
(* Nodes that hand messages to the outside: notifier_udp, in datagrams,    *)
(* notifier_http and notifier_websocket, with a thread per message, and    *)
(* warp, which has a remote service process them (module RemoteService).   *)
(* Only update() and destroy() are theirs.                                 *)
(***************************************************************************)
EXTENDS Builtin, SequencesExt

CONSTANTS
  Exchange,     \* messages a warp node gets, and what it gets back for each
  DataSize,     \* data in a datagram of notifier_udp
  MaxSequence,  \* _max_sequence
  MaxChunks,    \* _max_chunks
  MaxLength,    \* bound: length of a message of notifier_udp
  MaxUpdates    \* bound: messages a sink gets

ASSUME SinkAssumption ==
  /\ {DataSize, MaxSequence, MaxChunks} \subseteq Nat \ {0}
  /\ {MaxLength, MaxUpdates} \subseteq Nat

VARIABLES
  updates,   \* messages so far
  senders,   \* threads that are sending, by message
  newest,    \* _t of notifier_websocket: the thread of the last message
  delivered, \* messages that have been sent
  length,    \* length of the last message of notifier_udp
  grams,     \* its datagrams
  raised,    \* has update() raised, which ends the update thread?
  sent,      \* the last message a warp node was given
  answer     \* and what it transmitted for it

udpVars == <<length, grams>>
warpVars == <<sent, answer>>
sinkVars == <<updates, senders, newest, delivered, raised, udpVars, warpVars>>

NoMessage == [id |-> 0, version |-> -1, meta |-> <<>>, payload |-> [type |-> "none"]]

SinkInit ==
  /\ updates = 0
  /\ senders = {} /\ newest = 0 /\ delivered = <<>>
  /\ length = 0 /\ grams = <<>>
  /\ raised = FALSE
  /\ sent = NoMessage /\ answer = NoMessage

\* The update thread has a message.
Update ==
  /\ Working /\ updating
  /\ updates < MaxUpdates
  /\ updates' = updates + 1
  /\ UNCHANGED <<pipeState, status, handles, stopped, draining, op, pc>>

\* update() has returned, or has raised.
Returned == UNCHANGED <<updating, raised>>
Raising == updating' = FALSE /\ raised' = TRUE

-----------------------------------------------------------------------------
(***************************************************************************)
(* notifier_udp. Lengths are in characters; a datagram has the digits of   *)
(* its numbers, which _meta_overhead reckons with at their largest, and    *)
(* the rest of the header, the same for all.                               *)
(***************************************************************************)
Digits(n) == IF n < 10 THEN 1 ELSE IF n < 100 THEN 2 ELSE 3
MetaOverhead == Digits(MaxSequence) + 2 * Digits(MaxChunks - 1)
PayloadSize == MetaOverhead + DataSize

\* Mutant: the last, shorter chunk is left out.
ChunksRoundedDown(n) == n \div DataSize

TotalChunks(n) == (n + PayloadSize - 1) \div DataSize

\* Chunk i of a message of n characters: the first and the last of its part.
Chunk(i, n, version) ==
  [seq |-> version % MaxSequence, frag |-> i % MaxChunks, tot |-> TotalChunks(n),
   first |-> i * DataSize + 1,
   last |-> IF (i + 1) * DataSize < n THEN (i + 1) * DataSize ELSE n]

Chars(g) == {c \in 1..MaxLength : g.first <= c /\ c <= g.last}
GramSize(g) == Digits(g.seq) + Digits(g.frag) + Digits(g.tot) + Cardinality(Chars(g))

PrepareChunks(n, version) ==
  [i \in 1..TotalChunks(n) |-> Chunk(i - 1, n, version)]

\* A chunk above the limit raises before any is sent.
UdpUpdate ==
  /\ Is({"notifier_udp"}) /\ Update
  /\ \E n \in 1..MaxLength, version \in 0..MaxSequence :
       LET chunks == PrepareChunks(n, version) IN
       /\ length' = n
       /\ IF \E i \in DOMAIN chunks : GramSize(chunks[i]) > PayloadSize
          THEN Raising /\ grams' = <<>>
          ELSE Returned /\ grams' = chunks
  /\ UNCHANGED <<senders, newest, delivered, warpVars>>

-----------------------------------------------------------------------------
(***************************************************************************)
(* notifier_http and notifier_websocket: errors of a sender are logged, or *)
(* end its thread only.                                                    *)
(***************************************************************************)
NotifierUpdate ==
  /\ Is({"notifier_http", "notifier_websocket"}) /\ Update
  /\ senders' = senders \cup {updates + 1}
  /\ newest' = updates + 1
  /\ Returned
  /\ UNCHANGED <<delivered, udpVars, warpVars>>

SendOver(m) ==
  /\ m \in senders
  /\ senders' = senders \ {m}
  /\ delivered' \in {delivered, Append(delivered, m)}
  /\ Stays /\ UNCHANGED pc
  /\ UNCHANGED <<updates, newest, raised, udpVars, warpVars>>

\* destroy() of notifier_websocket waits for the thread of the last message.
JoinSender(t) ==
  /\ At(t, "join_sender")
  /\ newest \notin senders
  /\ Return(t)
  /\ UNCHANGED <<nodeState, sinkVars>>

-----------------------------------------------------------------------------
(***************************************************************************)
(* warp: a round trip to a service that here returns what it has got, with *)
(* the conversions of module Conversion on the way. The call, and any      *)
(* conversion on either side, may raise.                                   *)
(***************************************************************************)
WarpAnswers ==
  \E m \in DOMAIN Exchange :
    /\ sent' = m
    /\ answer' = Exchange[m]
    /\ IF answer'.payload.type = "raised" THEN Raising ELSE Returned

WarpFails ==
  /\ Raising
  /\ UNCHANGED warpVars

WarpUpdate ==
  /\ Is({"warp"}) /\ Update
  /\ WarpAnswers \/ WarpFails
  /\ UNCHANGED <<senders, newest, delivered, udpVars>>

SinkStep ==
  \/ UdpUpdate \/ NotifierUpdate \/ WarpUpdate
  \/ \E m \in senders : SendOver(m)
  \/ \E t \in Callers : JoinSender(t)

-----------------------------------------------------------------------------
SinkTypeOK ==
  /\ updates \in 0..MaxUpdates
  /\ senders \subseteq 1..updates /\ newest \in 0..updates
  /\ delivered \in Seq(1..updates)
  /\ raised \in BOOLEAN

\* The datagrams of a message, put in the order of their fragment numbers, hold
\* its characters once and in order, none above the size limit, as long as they
\* are no more than _max_chunks; only longer messages raise.
ChunksRejoin ==
  Is({"notifier_udp"}) /\ length > 0 =>
    /\ raised => TotalChunks(length) > MaxChunks - 1
    /\ ~raised /\ Len(grams) <= MaxChunks =>
         /\ \A c \in 1..length : Cardinality({i \in DOMAIN grams : c \in Chars(grams[i])}) = 1
         /\ \A i, j \in DOMAIN grams :
              /\ GramSize(grams[i]) <= PayloadSize
              /\ grams[i].tot = Len(grams)
              /\ i < j => grams[i].frag < grams[j].frag
              /\ i < j => \A c \in Chars(grams[i]), d \in Chars(grams[j]) : c < d
=============================================================================
