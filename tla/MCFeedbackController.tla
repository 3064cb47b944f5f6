------------------------ MODULE MCFeedbackController ------------------------
(* FeedbackController on four jobs of two users: three that can be held and *)
(* compete for a budget that does not cover them all, one protected.        *)
EXTENDS FeedbackController

MCJob == 1..4
MCUser == {"u1", "u2"}
MCArrival == <<0, 0, 1, 2>>
MCUserOf == <<"u1", "u1", "u2", "u1">>
MCPoolOf == <<"cpu", "cpu", "cpu", "cpu">>
MCFlexible == <<TRUE, TRUE, TRUE, FALSE>>
MCReliable == <<TRUE, TRUE, TRUE, TRUE>>
MCRuntime == <<4, 3, 6, 2>>
MCFraction == <<1, 2, 1, 1>>

\* carbon falls twice, so that waiting pays, and how long depends on the job
MCIntensity == [t \in 0..15 |-> IF t < 3 THEN 9 ELSE IF t < 6 THEN 4 ELSE IF t < 8 THEN 6 ELSE 2]
=============================================================================
