-------------------------------- MODULE Link --------------------------------
(***************************************************************************)
(* What a link of a running pipeline promises: the messages that its first *)
(* node transmits reach the second in the order they were transmitted,     *)
(* each once, and all of them before the pipeline counts as stopped.       *)
(***************************************************************************)
EXTENDS Naturals, Sequences

CONSTANT Item

VARIABLES sent, got, closed

linkVars == <<sent, got, closed>>

LinkInit == sent = <<>> /\ got = <<>> /\ closed = FALSE

Send ==
  /\ ~closed
  /\ \E m \in Item : sent' = Append(sent, m)
  /\ UNCHANGED <<got, closed>>

Deliver ==
  /\ ~closed
  /\ Len(got) < Len(sent)
  /\ got' = Append(got, sent[Len(got) + 1])
  /\ UNCHANGED <<sent, closed>>

Close ==
  /\ ~closed
  /\ got = sent
  /\ closed' = TRUE
  /\ UNCHANGED <<sent, got>>

LinkNext == Send \/ Deliver \/ Close

LinkSpec == LinkInit /\ [][LinkNext]_linkVars /\ WF_linkVars(Deliver)
=============================================================================
