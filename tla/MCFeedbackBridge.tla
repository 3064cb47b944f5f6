-------------------------- MODULE MCFeedbackBridge --------------------------
(* FeedbackBridge on three jobs, the first two of which arrive together, and a *)
(* table that holds two.                                                      *)
EXTENDS FeedbackBridge, TLC

CONSTANTS j1, j2, j3

MCJob == {j1, j2, j3}
MCArrival == j1 :> 0 @@ j2 :> 0 @@ j3 :> 1

\* every way a line can be right or wrong: nothing, one or two jobs released,
\* one of them unknown, already submitted or twice; any wake-up
MCReleases == {<< >>} \union {<<j>> : j \in MCJob} \union {<<j, k>> : j, k \in MCJob}
MCReplies ==
  {[kind |-> "line", next |-> t, rel |-> r] : t \in {0, 2, 3}, r \in MCReleases}
    \union {[kind |-> "garbled", next |-> 0, rel |-> << >>]}
=============================================================================
