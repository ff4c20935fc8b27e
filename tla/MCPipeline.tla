----------------------------- MODULE MCPipeline -----------------------------
(***************************************************************************)
(* Small pipelines for TLC.                                                *)
(***************************************************************************)
EXTENDS Pipeline, TLC

CONSTANTS a, b, c

\* a -> b
PairDest == (a :> <<b>>) @@ (b :> <<>>)
PairLayers == <<<<a>>, <<b>>>>

\* a
SoloDest == (a :> <<>>)
SoloLayers == <<<<a>>>>

\* a -> b and a -> c
ForkDest == [n \in {a, b, c} |-> IF n = a THEN <<b, c>> ELSE <<>>]
ForkLayers == <<<<a>>, <<b, c>>>>

\* The link of the pair implements Link. What counts as sent is what update()
\* of the first node has been given, since each call transmits one message.
LinkAB == INSTANCE Link WITH Item <- Ids, sent <- received[a],
            got <- received[b], closed <- Stopped /\ gen[a] > 0

\* The link a -> b delivers all it is sent, in order, and is empty when closed.
LinkABSpec == LinkAB!LinkSpec
=============================================================================
