------------------------------ MODULE Summarizer ------------------------------
(***************************************************************************)
(* summarizer_ollama of the plugins: update() asks a model for a summary   *)
(* of each batch, which is of one topic, and sends along the last          *)
(* summaries of that topic. It keeps those of the topics it has seen last. *)
(***************************************************************************)
EXTENDS Buffer

CONSTANTS
  MaxTopics,   \* max_topics, 0 for no limit
  MaxHistory,  \* max_history, 0 for no limit
  Included,    \* include: topics to keep from the beginning
  Excluded     \* exclude: topics to reject

ASSUME SummarizerAssumption ==
  /\ {MaxTopics, MaxHistory} \subseteq Nat
  /\ Included \cup Excluded \subseteq Topics
  /\ Cardinality(Included) <= 1

VARIABLES
  history,   \* _topic_history: by topic, its summaries and when it was updated
  summaries  \* history: the topics of all summaries, in order. A summary is
             \* known, and time told, by its place in here

summarizerVars == <<history, summaries>>

SummarizerInit ==
  /\ history = [t \in Included |-> [messages |-> <<>>, updated |-> -1]]
  /\ summaries = <<>>

LastOf(s, n) == IF n = 0 \/ Len(s) <= n THEN s ELSE SubSeq(s, Len(s) - n + 1, Len(s))

\* Mutant: the topic with the fewest summaries goes.
Shortest == {t \in DOMAIN history :
               \A u \in DOMAIN history :
                 Len(history[t].messages) <= Len(history[u].messages)}

\* Topics of min(): which of several is one of the order they were added in.
Stalest == {t \in DOMAIN history :
              \A u \in DOMAIN history : history[t].updated <= history[u].updated}

\* The history is full when it has max_topics topics, not more.
UpdateHistory(t, now) ==
  LET Updated(messages) == [messages |-> LastOf(Append(messages, now), MaxHistory),
                            updated |-> now]
  IN IF t \in DOMAIN history
     THEN history' = [history EXCEPT ![t] = Updated(@.messages)]
     ELSE \E old \in IF MaxTopics # 0 /\ Cardinality(DOMAIN history) = MaxTopics
                     THEN {{u} : u \in Stalest} ELSE {{}} :
            history' = [u \in (DOMAIN history \ old) \cup {t} |->
                          IF u = t THEN Updated(<<>>) ELSE history[u]]

\* A topic that is not in include is not ignored. Whatever update() raises is
\* caught by safe_exec, and of an answer that is not understood no summary is
\* kept.
Summarise ==
  /\ update = "transmit" /\ Is("summarizer_ollama")
  /\ LET topic == Topic(Last(batches)[1])
         now == Len(summaries) + 1
     IN \/ UNCHANGED summarizerVars
        \/ /\ topic \notin Excluded
           /\ UpdateHistory(topic, now)
           /\ summaries' = Append(summaries, topic)
  /\ update' = "get"
  /\ UNCHANGED <<setup, content, keys, data, lock, outQueue, worker, message,
                 toSend, flusher, made, flushes, batches, flushed, lost>>

-----------------------------------------------------------------------------
SummarizerTypeOK ==
  /\ summaries \in Seq(Topics \ Excluded)
  /\ DOMAIN history \subseteq Topics
  /\ \A t \in DOMAIN history :
       /\ history[t].messages \in Seq(1..Len(summaries))
       /\ history[t].updated \in {-1} \cup 1..Len(summaries)

\* The topics kept after n summaries: those updated last.
Latest(n, t) == Max({0} \cup {i \in 1..n : summaries[i] = t})
Kept(n) ==
  LET seen == Included \cup {summaries[i] : i \in 1..n}
  IN {t \in seen :
        MaxTopics = 0 \/ Cardinality({u \in seen : Latest(n, u) > Latest(n, t)}) < MaxTopics}

\* The summaries of t since it was last dropped.
SinceDropped(t) ==
  SelectSeq([i \in DOMAIN summaries |-> i],
            LAMBDA i : /\ summaries[i] = t
                       /\ \A n \in i..Len(summaries) : t \in Kept(n))

\* What the model is told of a topic are the last summaries of that topic, none
\* of another or of before it was dropped; the topic dropped for another is the
\* one that was not summarised for longest. A batch is of one topic and creator.
SummariesInContext ==
  Is("summarizer_ollama") =>
    /\ DOMAIN history = Kept(Len(summaries))
    /\ \A t \in DOMAIN history :
         history[t].messages = LastOf(SinceDropped(t), MaxHistory)
    /\ \A i \in DOMAIN batches : \A k \in DOMAIN batches[i] :
         /\ batches[i][k].creator = batches[i][1].creator
         /\ Topic(batches[i][k]) = Topic(batches[i][1])
=============================================================================
