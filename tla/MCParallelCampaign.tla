------------------------- MODULE MCParallelCampaign -------------------------
(* ParallelCampaign on two days: a baseline alone, and a baseline with a     *)
(* policy that depends on it, and possibly a control replay of the second    *)
(* context.                                                                  *)
EXTENDS ParallelCampaign, TLC

CONSTANTS base1, base2, policy1, control1, day1, day2, first, second

MCKey == {base1, base2, policy1}
MCDeps == base1 :> {} @@ base2 :> {} @@ policy1 :> {base1}
MCRank == base1 :> 1 @@ base2 :> 2 @@ policy1 :> 3
MCDate == {day1, day2}
MCDateOf == base1 :> day1 @@ base2 :> day2 @@ policy1 :> day1

\* control1 belongs to no comparison of its day, runs in the second context and
\* nowhere else, and guards it; the other guard is policy1.  Both come first.
ControlKey == MCKey \union {control1}
ControlDeps == MCDeps @@ control1 :> {base1}
ControlRank == control1 :> 1 @@ policy1 :> 2 @@ base1 :> 3 @@ base2 :> 4
ControlDateOf == MCDateOf @@ control1 :> day1
ControlBridge == {policy1, control1}
ControlContext == [k \in Key |-> IF k = control1 THEN second ELSE NoContext]

\* two baselines
PairKey == {base1, base2}
PairDeps == [k \in PairKey |-> {}]
PairRank == base1 :> 1 @@ base2 :> 2
PairDateOf == base1 :> day1 @@ base2 :> day2

TwoBackends == <<first, second>>
TwoSlots == first :> 1 @@ second :> 1
NoTaskContext == [k \in Key |-> NoContext]
=============================================================================
