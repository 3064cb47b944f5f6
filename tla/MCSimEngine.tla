---------------------------- MODULE MCSimEngine ----------------------------
(* SimEngine on four jobs (one runs for its walltime, one to its limit, one is *)
(* refused by Slurm), and on the two jobs a configuration describes.          *)
EXTENDS SimEngine, TLC

CONSTANTS jobA, jobB, jobC, jobD,          \* jobs
          addr1, addr2, addr3, addr4,      \* addresses
          WallA, LimitA, ArrivalC, WallC, LimitC

MCJob == {jobA, jobB, jobC, jobD}
MCAddr == {addr1, addr2, addr3, addr4}
MCArrival == jobA :> 1 @@ jobB :> 1 @@ jobC :> ArrivalC @@ jobD :> 1
MCWall == jobA :> WallA @@ jobB :> Year @@ jobC :> WallC @@ jobD :> 1
MCLimit == jobA :> LimitA @@ jobB :> 3 @@ jobC :> LimitC @@ jobD :> 3

PairJob == {jobA, jobC}
PairAddr == {addr1, addr2}
PairArrival == jobA :> 1 @@ jobC :> ArrivalC
PairWall == jobA :> WallA @@ jobC :> WallC
PairLimit == jobA :> LimitA @@ jobC :> LimitC

Symmetry == Permutations(MCAddr)
=============================================================================
