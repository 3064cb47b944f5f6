------------------------------ MODULE MCStudy ------------------------------
(* Study on four jobs: one that occupies the cluster at the start, and three *)
(* of one user that may be moved; two nodes; carbon tables of up to three    *)
(* rows, most of which have a gap or an overlap.                             *)
EXTENDS Study

CONSTANTS n1, n2   \* nodes

MCJob == 1..4
MCUser == {"u1", "u2"}
MCUserOf == <<"u2", "u1", "u1", "u1">>
MCEligible == <<0, 0, 0, 1>>
MCCategory == <<0, 3, 3, 3>>
MCFlexible == <<FALSE, TRUE, TRUE, TRUE>>
MCAllowance == <<2, 2, 1, 2>>
MCRuntime == <<3, 1, 1, 1>>
MCAllocation == {{n1}, {n1, n2}}
MCWaits == {-1, 1}

Rows == {[from |-> 0, to |-> 2], [from |-> 1, to |-> 4], [from |-> 2, to |-> 4], [from |-> 4, to |-> 8]}
MCTables == UNION {[1..n -> Rows] : n \in 1..3}
=============================================================================
