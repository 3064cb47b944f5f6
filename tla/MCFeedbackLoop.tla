--------------------------- MODULE MCFeedbackLoop ---------------------------
(* FeedbackLoop on two jobs of one user, which can be held for different    *)
(* lengths and compete for its budget.                                      *)
EXTENDS FeedbackLoop

MCJob == 1..2
MCUser == {"u1", "u2"}
MCArrival == <<0, 1>>
MCUserOf == <<"u1", "u1">>
MCPoolOf == <<"cpu", "cpu">>
MCFlexible == <<TRUE, TRUE>>
MCRuntime == <<4, 3>>
MCFraction == <<1, 2>>
MCIntensity == [t \in 0..15 |-> IF t < 2 THEN 9 ELSE IF t < 4 THEN 4 ELSE IF t < 6 THEN 6 ELSE 2]

MCReplies == Lines
=============================================================================
