----------------------------- MODULE MCNodeData -----------------------------
(***************************************************************************)
(* Nodes for TLC.                                                          *)
(***************************************************************************)
EXTENDS NodeData

CONSTANTS a, b, x, y, z

Setup(n, s, o, m, k, f, w) ==
  [node |-> n, size |-> s, origins |-> o, messages |-> m, sink |-> k,
   flushes |-> f, writers |-> w]

\* Either a buffer that is flushed, or one that makes batches, or telemetry, or
\* what a node remembers.
PlainSetups ==
  {Setup("plain", 1, {a, b}, 3, TRUE, 1, 0),
   Setup("prompter_ollama", 2, {a, b}, 3, TRUE, 0, 0),
   Setup("summarizer_ollama", 1, {a}, 5, FALSE, 0, 0),
   Setup("summarizer_ollama", 2, {a, b}, 3, FALSE, 0, 0),
   Setup("transcriber_whispy", 1, {a}, 3, FALSE, 0, 0),
   Setup("transcriber_whispy", 1, {a, b}, 2, FALSE, 0, 0),
   Setup("transcriber_parakeet", 1, {a, b}, 2, FALSE, 0, 0),
   Setup("plain", 1, {a}, 1, FALSE, 0, 1),
   Setup("plain", 1, {a}, 3, TRUE, 0, 2)}

BatchSetups ==
  {Setup("prompter_ollama", 2, {a, b}, 2, TRUE, 0, 0),
   Setup("summarizer_ollama", 2, {a, b}, 2, FALSE, 0, 0)}
=============================================================================
