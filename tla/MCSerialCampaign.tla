-------------------------- MODULE MCSerialCampaign --------------------------
(* SerialCampaign on two days: the first with a baseline, a policy, a control *)
(* and the repetition of the policy, the second with a baseline only.        *)
EXTENDS SerialCampaign, TLC

CONSTANTS base1, policy1, control1, again1, base2

MCKey == {base1, policy1, control1, again1, base2}
MCPlan == <<<<base1, policy1, control1, again1>>, <<base2>>>>
MCRepeated == [k \in MCKey |-> IF k = again1 THEN policy1 ELSE k]
=============================================================================
