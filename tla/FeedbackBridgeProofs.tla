------------------------ MODULE FeedbackBridgeProofs ------------------------
(***************************************************************************)
(* Proofs about the feedback policy.  First, that the bridge of            *)
(* FeedbackBridge keeps its safety properties for every trace, table size, *)
(* clock bound and set of controller replies; then, that FeedbackLoop is   *)
(* such a bridge, and that its two programs agree.                         *)
(***************************************************************************)
EXTENDS FeedbackLoop, FiniteSetTheorems, TLAPS

\* every job is in exactly one place: still to come, in the table, or passed
\* around it
Custody ==
  /\ Job = queued \union table \union direct
  /\ queued \cap table = {} /\ queued \cap direct = {} /\ table \cap direct = {}

\* the releases v2_tick has accepted are distinct jobs that are still held
TodoHeld ==
  /\ pc # "release" => todo = << >>
  /\ \A i \in 1..Len(todo) : todo[i] \in Pending
  /\ \A i, k \in 1..Len(todo) : i # k => todo[i] # todo[k]

\* Slurm knows exactly the jobs that were submitted
SlurmKnows == \A j \in Job : slurm[j] = "absent" <=> submits[j] = 0

\* the process exits with the exit test still true
DoneIsDone == pc = "done" => AllDone

IndInv ==
  /\ TypeOK /\ Custody /\ TodoHeld /\ SlurmKnows /\ DoneIsDone
  /\ SubmitOnce /\ UnreportedWakes /\ FailedDisconnected

-----------------------------------------------------------------------------
\* the state is well typed and consistent when the simulator starts
LEMMA InitInd == Init => IndInv
<1> SUFFICES ASSUME Init PROVE IndInv
  OBVIOUS
<1>1. TypeOK
  <2>1. /\ Quantum \in Nat /\ Far \in Nat
    BY BridgeAssumption
  <2>2. /\ queued \subseteq Job /\ table \subseteq Job /\ direct \subseteq Job
        /\ submitted \subseteq table /\ reported \subseteq table
        /\ reply \in Replies \union {NoReply}
    BY DEF Init
  <2>4. todo \in Seq(Job)
    BY DEF Init
  <2>5. fd \in BOOLEAN /\ failed \in BOOLEAN
    BY Zenon DEF Init
  <2>3. /\ state \in [Job -> {"unseen", "pending", "running", "completed"}]
        /\ slurm \in [Job -> Slurm] /\ submits \in [Job -> Nat]
    BY DEF Init, Slurm
  <2> QED BY <2>1, <2>2, <2>3, <2>4, <2>5 DEF Init, TypeOK
<1>2. Custody /\ SlurmKnows /\ DoneIsDone /\ SubmitOnce
  BY DEF Init, Custody, SlurmKnows, DoneIsDone, SubmitOnce
<1>3. TodoHeld
  BY DEF Init, TodoHeld
<1>4. UnreportedWakes /\ FailedDisconnected
  BY DEF Init, UnreportedWakes, FailedDisconnected, Pending
<1> QED BY <1>1, <1>2, <1>3, <1>4 DEF IndInv

\* v2_fail keeps the types of what it writes
LEMMA FailType ==
  ASSUME Fail
  PROVE  fd' \in BOOLEAN /\ failed' \in BOOLEAN /\ reply' \in Replies \union {NoReply}
  BY Zenon DEF Fail

\* submit_job keeps the types of what it writes
LEMMA SubmitType ==
  ASSUME TypeOK, NEW j \in Job, Submit(j)
  PROVE  slurm' \in [Job -> Slurm] /\ submits' \in [Job -> Nat]
  BY DEF Submit, TypeOK, Slurm

\* the scan of v2_tick keeps the type of what it records
LEMMA ObserveType ==
  ASSUME TypeOK, Observe
  PROVE  state' \in [Job -> {"unseen", "pending", "running", "completed"}]
  BY DEF Observe, Observed, TypeOK, Slurm

\* popping a submit event: v2_arrive stores the job, or at capacity fails safe
\* and submits it
LEMMA PopArrivalInd ==
  ASSUME IndInv, NEW j \in Job, PopArrival(j)
  PROVE  IndInv'
<1> USE DEF IndInv
<1>1. CASE Cardinality(table) >= MaxJobs
  <2>1. TypeOK'
    <3>1. Fail /\ Submit(j)
      BY <1>1 DEF PopArrival, Arrive
    <3> QED BY <1>1, <3>1, FailType, SubmitType DEF PopArrival, Arrive, TypeOK, NextArrivals
  <2>2. Custody' /\ TodoHeld' /\ SlurmKnows' /\ DoneIsDone'
    BY <1>1 DEF PopArrival, Arrive, Fail, Submit, TypeOK, Custody, TodoHeld, SlurmKnows,
                DoneIsDone, Pending, NextArrivals, SubmitOnce
  <2>3. SubmitOnce' /\ UnreportedWakes' /\ FailedDisconnected'
    BY <1>1 DEF PopArrival, Arrive, Fail, Submit, TypeOK, Custody, SubmitOnce, Pending,
                UnreportedWakes, FailedDisconnected, NextArrivals
  <2> QED BY <2>1, <2>2, <2>3
<1>2. CASE ~(Cardinality(table) >= MaxJobs)
  <2>1. TypeOK'
    BY <1>2 DEF PopArrival, Arrive, TypeOK, NextArrivals
  <2>2. Custody' /\ TodoHeld' /\ SlurmKnows' /\ DoneIsDone'
    BY <1>2 DEF PopArrival, Arrive, TypeOK, Custody, TodoHeld, SlurmKnows,
                DoneIsDone, Pending, NextArrivals
  <2>3. SubmitOnce' /\ UnreportedWakes' /\ FailedDisconnected'
    BY <1>2 DEF PopArrival, Arrive, TypeOK, Custody, SubmitOnce, Pending,
                UnreportedWakes, FailedDisconnected, NextArrivals
  <2> QED BY <2>1, <2>2, <2>3
<1> QED BY <1>1, <1>2

\* the tick before it reads a reply: it records what it sees, and decides
\* whether to ask the controller
LEMMA TickStartInd ==
  ASSUME IndInv, TickQuiet \/ TickFailed \/ TickUnsent \/ TickSend
  PROVE  IndInv'
<1> USE DEF IndInv
<1>1. CASE TickQuiet
  <2>1. TypeOK'
    BY <1>1, ObserveType DEF TickQuiet, TypeOK
  <2> QED BY <1>1, <2>1 DEF TickQuiet, Custody, TodoHeld, SlurmKnows, DoneIsDone,
             SubmitOnce, UnreportedWakes, FailedDisconnected, Pending
<1>2. CASE TickFailed
  <2>1. TypeOK'
    BY <1>2, ObserveType DEF TickFailed, TypeOK
  <2> QED BY <1>2, <2>1 DEF TickFailed, TickDue, Custody, TodoHeld, SlurmKnows, DoneIsDone,
             SubmitOnce, UnreportedWakes, FailedDisconnected, Pending
<1>3. CASE TickUnsent
  <2>1. TypeOK'
    BY <1>3, ObserveType, FailType DEF TickUnsent, TypeOK
  <2> QED BY <1>3, <2>1 DEF TickUnsent, TickDue, Fail, Custody, TodoHeld, SlurmKnows,
             DoneIsDone, SubmitOnce, UnreportedWakes, FailedDisconnected, Pending
<1>4. CASE TickSend
  <2>1. TypeOK'
    <3>1. fd' \in BOOLEAN
      BY <1>4, Zenon DEF TickSend
    <3> QED BY <1>4, <3>1, ObserveType DEF TickSend, TypeOK
  <2> QED BY <1>4, <2>1 DEF TickSend, TickDue, Custody, TodoHeld, SlurmKnows, DoneIsDone,
             SubmitOnce, UnreportedWakes, FailedDisconnected, Pending
<1> QED BY <1>1, <1>2, <1>3, <1>4

\* the tick reads what the controller wrote: a valid line is taken over, one
\* that is not, or none, makes the bridge fail safe
LEMMA TickReadInd ==
  ASSUME IndInv, TickReply \/ TickBadReply
  PROVE  IndInv'
<1> USE DEF IndInv
<1>1. CASE TickReply /\ PastWake(reply)
  <2>1. reply \in ReplyType
    BY <1>1, BridgeAssumption DEF TickReply, TypeOK, NoReply
  <2>2. TypeOK'
    BY <1>1, <2>1, FailType DEF TickReply, TypeOK, ReplyType
  <2> QED BY <1>1, <2>2 DEF TickReply, Fail, Custody, TodoHeld, SlurmKnows, DoneIsDone,
             SubmitOnce, UnreportedWakes, FailedDisconnected, Pending, TypeOK
<1>2. CASE TickReply /\ ~PastWake(reply)
  <2>1. reply \in ReplyType
    BY <1>2, BridgeAssumption DEF TickReply, TypeOK, NoReply
  <2>2. TypeOK'
    BY <1>2, <2>1 DEF TickReply, TypeOK, ReplyType
  <2>3. TodoHeld'
    BY <1>2 DEF TickReply, ValidReleases, TodoHeld, Pending
  <2> QED BY <1>2, <2>2, <2>3 DEF TickReply, Custody, SlurmKnows, DoneIsDone,
             SubmitOnce, UnreportedWakes, FailedDisconnected, Pending, TypeOK
<1>3. CASE TickBadReply
  <2>1. TypeOK'
    BY <1>3, FailType DEF TickBadReply, TypeOK
  <2> QED BY <1>3, <2>1 DEF TickBadReply, Fail, Custody, TodoHeld, SlurmKnows, DoneIsDone,
             SubmitOnce, UnreportedWakes, FailedDisconnected, Pending
<1> QED BY <1>1, <1>2, <1>3

\* v2_release for one job the controller named
LEMMA ReleaseInd ==
  ASSUME IndInv, Release
  PROVE  IndInv'
<1> USE DEF IndInv
<1> DEFINE j == Head(todo)
<1>1. /\ todo \in Seq(Job) /\ todo # << >> /\ Len(todo) > 0
      /\ j = todo[1] /\ j \in Pending /\ j \in Job
  BY DEF Release, TypeOK, TodoHeld, Pending
<1>2. /\ Tail(todo) \in Seq(Job) /\ Len(Tail(todo)) = Len(todo) - 1
      /\ \A i \in 1..Len(Tail(todo)) : Tail(todo)[i] = todo[i + 1]
  BY <1>1
<1>3. Submit(j) /\ submitted' = submitted \union {j} /\ todo' = Tail(todo) /\ pc' = pc
  BY DEF Release
<1>4. TypeOK'
  BY <1>1, <1>2, <1>3, SubmitType DEF Release, TypeOK, Pending
<1>5. TodoHeld'
  <2>1. \A i \in 1..Len(todo') : todo'[i] \in Pending'
    BY <1>1, <1>2, <1>3 DEF Release, TodoHeld, Pending
  <2>2. \A i, k \in 1..Len(todo') : i # k => todo'[i] # todo'[k]
    BY <1>1, <1>2, <1>3 DEF TodoHeld
  <2> QED BY <2>1, <2>2 DEF Release, TodoHeld
<1>6. Custody' /\ SlurmKnows' /\ DoneIsDone' /\ UnreportedWakes' /\ FailedDisconnected'
  BY <1>1, <1>3 DEF Release, Submit, Custody, SlurmKnows, DoneIsDone, UnreportedWakes,
     FailedDisconnected, Pending, TypeOK
<1>7. SubmitOnce'
  BY <1>1, <1>3 DEF Release, Submit, Custody, SubmitOnce, Pending, TypeOK
<1> QED BY <1>4, <1>5, <1>6, <1>7

\* the fallback submits one of the jobs still held
LEMMA FallbackInd ==
  ASSUME IndInv, NEW j \in Job, Fallback(j)
  PROVE  IndInv'
<1> USE DEF IndInv
<1>1. TypeOK'
  BY SubmitType DEF Fallback, TypeOK, Pending
<1>2. Custody' /\ SlurmKnows' /\ DoneIsDone' /\ UnreportedWakes' /\ FailedDisconnected'
  BY DEF Fallback, Submit, Custody, SlurmKnows, DoneIsDone, UnreportedWakes,
     FailedDisconnected, Pending, TypeOK
<1>3. TodoHeld'
  BY DEF Fallback, TodoHeld, TypeOK
<1>4. SubmitOnce'
  BY DEF Fallback, Submit, Custody, SubmitOnce, Pending, TypeOK
<1> QED BY <1>1, <1>2, <1>3, <1>4

\* the steps that leave the bridge alone: Slurm, the clock, the exit test, the
\* end of a phase of the loop, and the controller's own
LEMMA OtherInd ==
  ASSUME IndInv,
         \/ EventsDone \/ ReleaseDone \/ FallbackDone \/ SchedDone \/ CheckExit
         \/ SkipTime \/ NoSkip \/ Exited \/ NestedCheckExit \/ Elapse \/ AnyController
         \/ \E j \in Job : CompleteJob(j) \/ StartJob(j)
  PROVE  IndInv'
<1> USE DEF IndInv
<1>1. CASE EventsDone \/ ReleaseDone \/ SchedDone \/ Exited
  BY <1>1 DEF EventsDone, ReleaseDone, SchedDone, Exited, vars, bridge, TypeOK, Custody,
     TodoHeld, SlurmKnows, DoneIsDone, AllDone, SubmitOnce, UnreportedWakes,
     FailedDisconnected, Pending
<1>2. CASE FallbackDone
  <2>1. TypeOK'
    BY <1>2, BridgeAssumption DEF FallbackDone, TypeOK
  <2> QED BY <1>2, <2>1 DEF FallbackDone, Custody, TodoHeld, SlurmKnows, DoneIsDone, AllDone,
             SubmitOnce, UnreportedWakes, FailedDisconnected, Pending
<1>3. ASSUME NEW next \in {"skip", "sched"}, ExitTest(next), pc # "release", pc # "wait"
      PROVE  IndInv'
  <2>1. TypeOK'
    BY <1>3, BridgeAssumption DEF ExitTest, TypeOK, bridge
  <2> QED BY <1>3, <2>1 DEF ExitTest, bridge, Custody, TodoHeld, SlurmKnows, DoneIsDone,
             AllDone, SubmitOnce, UnreportedWakes, FailedDisconnected, Pending
<1>4. CASE CheckExit \/ NestedCheckExit
  BY <1>3, <1>4 DEF CheckExit, NestedCheckExit
<1>5. CASE SkipTime \/ NoSkip \/ Elapse
  <2>1. now' \in Nat /\ sleepTill' \in Nat
    <3>1. CASE SkipTime
      BY <3>1, BridgeAssumption DEF SkipTime, TypeOK
    <3>2. CASE NoSkip \/ Elapse
      BY <3>2, BridgeAssumption DEF NoSkip, Elapse, TypeOK
    <3> QED BY <1>5, <3>1, <3>2
  <2> QED BY <1>5, <2>1 DEF SkipTime, NoSkip, Elapse, bridge, TypeOK, Custody, TodoHeld,
             SlurmKnows, DoneIsDone, AllDone, SubmitOnce, UnreportedWakes,
             FailedDisconnected, Pending
<1>6. CASE AnyController
  BY <1>6 DEF AnyController, bridge, TypeOK, Custody, TodoHeld, SlurmKnows, DoneIsDone,
     AllDone, SubmitOnce, UnreportedWakes, FailedDisconnected, Pending
<1>7. ASSUME NEW j \in Job, CompleteJob(j) \/ StartJob(j)
      PROVE  IndInv'
  <2>1. TypeOK'
    BY <1>7 DEF CompleteJob, StartJob, bridge, TypeOK, Slurm
  <2> QED BY <1>7, <2>1 DEF CompleteJob, StartJob, bridge, TypeOK, Custody, TodoHeld,
             SlurmKnows, DoneIsDone, AllDone, SubmitOnce, UnreportedWakes,
             FailedDisconnected, Pending
<1> QED BY <1>1, <1>2, <1>4, <1>5, <1>6, <1>7

\* IndInv is inductive
LEMMA NextInd == IndInv /\ [Next]_vars => IndInv'
<1> SUFFICES ASSUME IndInv, [Next]_vars PROVE IndInv'
  OBVIOUS
<1>1. CASE UNCHANGED vars
  BY <1>1 DEF vars, bridge, IndInv, TypeOK, Custody, TodoHeld, SlurmKnows, DoneIsDone,
     AllDone, SubmitOnce, UnreportedWakes, FailedDisconnected, Pending
<1>2. CASE Loop
  BY <1>2, PopArrivalInd, TickStartInd, TickReadInd, ReleaseInd, FallbackInd, OtherInd
     DEF Loop, Tick, Releases
<1>3. CASE Simulator \/ AnyController
  BY <1>3, OtherInd DEF Simulator
<1> QED BY <1>1, <1>2, <1>3 DEF Next

\* The bridge keeps its inductive invariant for every controller
THEOREM Invariance == Spec => []IndInv
  BY InitInd, NextInd, PTL DEF Spec

\* Type correctness of the bridge
THEOREM TypeCorrect == Spec => []TypeOK
  BY Invariance, PTL DEF IndInv

\* submit_job is called exactly once for each job that v2_release or v2_arrive
\* let through, whatever the controller writes and whenever the bridge fails
THEOREM SubmittedOnce == Spec => []SubmitOnce
  BY Invariance, PTL DEF IndInv

\* After v2_fail the bridge neither asks nor listens to a controller
THEOREM FailsafeIsFinal == Spec => []FailedDisconnected
  BY Invariance, PTL DEF IndInv

\* A job the controller does not know of keeps v2_wake at zero
THEOREM ArrivalWakes == Spec => []UnreportedWakes
  BY Invariance, PTL DEF IndInv

LEMMA IndInvExit == IndInv => ExitComplete
  BY DEF IndInv, TypeOK, Slurm, Custody, DoneIsDone, AllDone, SlurmKnows, SubmitOnce,
     ExitComplete, Pending

\* When the overlaid exit test stops the simulator, every job of the trace has
\* been submitted exactly once and is completed in Slurm
THEOREM ExitIsComplete == Spec => []ExitComplete
  BY IndInvExit, Invariance, PTL

-----------------------------------------------------------------------------
(* The proofs about the controller, for the controller of the loop.  Its     *)
(* definitions reach this module twice, by C and by P; operator by operator, *)
(* they are the same.                                                        *)

P == INSTANCE FeedbackControllerProofs WITH MaxStep <- 0, MaxNow <- MaxTime

LEMMA SameTotal == ASSUME NEW f, NEW X PROVE P!Total(f, X) = C!Total(f, X)
BY DEF P!Total, C!Total, P!MapThenSumSet, C!MapThenSumSet, P!MapThenFoldSet, C!MapThenFoldSet

LEMMA SameLarger == ASSUME NEW a, NEW b PROVE P!Larger(a, b) = C!Larger(a, b)
BY DEF P!Larger, C!Larger

LEMMA SameSmaller == ASSUME NEW a, NEW b PROVE P!Smaller(a, b) = C!Smaller(a, b)
BY DEF P!Smaller, C!Smaller

LEMMA SameCardinality == ASSUME NEW X PROVE P!Cardinality(X) = C!Cardinality(X)
BY DEF P!Cardinality, C!Cardinality

LEMMA SameCovered == ASSUME NEW a, NEW b PROVE P!Covered(a, b) = C!Covered(a, b)
BY DEF P!Covered, C!Covered

LEMMA SameEmission == ASSUME NEW a, NEW b PROVE P!Emission(a, b) = C!Emission(a, b)
BY SameTotal DEF P!Emission, C!Emission

LEMMA SameBacklog == ASSUME NEW j, NEW s, NEW n PROVE P!Backlog(j, s, n) = C!Backlog(j, s, n)
BY SameTotal, SameLarger DEF P!Backlog, C!Backlog

LEMMA SameBaselineStart == ASSUME NEW j, NEW s, NEW n PROVE P!BaselineStart(j, s, n) = C!BaselineStart(j, s, n)
BY SameBacklog DEF P!BaselineStart, C!BaselineStart

LEMMA SamePredictedStart == ASSUME NEW j, NEW s, NEW n, NEW r PROVE P!PredictedStart(j, s, n, r) = C!PredictedStart(j, s, n, r)
BY SameBaselineStart, SameLarger DEF P!PredictedStart, C!PredictedStart

LEMMA SameSaved == ASSUME NEW j, NEW s, NEW n, NEW r PROVE P!Saved(j, s, n, r) = C!Saved(j, s, n, r)
BY SameBaselineStart, SamePredictedStart, SameEmission DEF P!Saved, C!Saved

LEMMA SameGainOK == ASSUME NEW j, NEW s, NEW n, NEW r PROVE P!GainOK(j, s, n, r) = C!GainOK(j, s, n, r)
BY SameBaselineStart, SamePredictedStart, SameEmission, SameSaved, SameCovered DEF P!GainOK, C!GainOK

LEMMA SameFeasible == ASSUME NEW j, NEW s, NEW n, NEW r PROVE P!Feasible(j, s, n, r) = C!Feasible(j, s, n, r)
BY SameBaselineStart, SamePredictedStart, SameGainOK DEF P!Feasible, C!Feasible

LEMMA SameAllowedTicks == ASSUME NEW j PROVE P!AllowedTicks(j) = C!AllowedTicks(j)
BY SameSmaller DEF P!AllowedTicks, C!AllowedTicks

LEMMA SameGrid == ASSUME NEW j, NEW n PROVE P!Grid(j, n) = C!Grid(j, n)
BY SameAllowedTicks DEF P!Grid, C!Grid

LEMMA SameBefore == ASSUME NEW c, NEW d PROVE P!Before(c, d) = C!Before(c, d)
BY DEF P!Before, C!Before

LEMMA SameRanked == ASSUME NEW X PROVE P!Ranked(X) = C!Ranked(X)
BY DEF P!Ranked, C!Ranked, P!Before, C!Before, P!Cardinality, C!Cardinality

LEMMA SameOfUser == ASSUME NEW u, NEW X PROVE P!OfUser(u, X) = C!OfUser(u, X)
BY DEF P!OfUser, C!OfUser

LEMMA SameReservation == ASSUME NEW j, NEW r PROVE P!Reservation(j, r) = C!Reservation(j, r)
BY DEF P!Reservation, C!Reservation

LEMMA SameEnding == ASSUME NEW s, NEW n PROVE P!Ending(s, n) = C!Ending(s, n)
BY SameGainOK DEF P!Ending, C!Ending

LEMMA SameFeasibleReleases == ASSUME NEW j, NEW s, NEW n PROVE P!FeasibleReleases(j, s, n) = C!FeasibleReleases(j, s, n)
BY SameGrid, SameFeasible DEF P!FeasibleReleases, C!FeasibleReleases

LEMMA SameImmediate == ASSUME NEW a, NEW s, NEW n PROVE P!Immediate(a, s, n) = C!Immediate(a, s, n)
BY SameFeasibleReleases DEF P!Immediate, C!Immediate

LEMMA SameCandidates == ASSUME NEW a, NEW s, NEW n PROVE P!Candidates(a, s, n) = C!Candidates(a, s, n)
BY SameFeasibleReleases, SameSaved, SameLarger DEF P!Candidates, C!Candidates

LEMMA SameSettleReserved == ASSUME NEW X PROVE P!SettleReserved(X) = C!SettleReserved(X)
BY SameTotal, SameReservation, SameOfUser DEF P!SettleReserved, C!SettleReserved

LEMMA SameSettleSpent == ASSUME NEW X, NEW n PROVE P!SettleSpent(X, n) = C!SettleSpent(X, n)
BY SameTotal, SameLarger, SameOfUser DEF P!SettleSpent, C!SettleSpent

LEMMA SameAffordable == ASSUME NEW x, NEW a, NEW c PROVE P!Affordable(x, a, c) = C!Affordable(x, a, c)
BY SameReservation DEF P!Affordable, C!Affordable

LEMMA SameAdmit == ASSUME NEW x, NEW a, NEW c PROVE P!Admit(x, a, c) = C!Admit(x, a, c)
BY SameReservation, SameAffordable DEF P!Admit, C!Admit

LEMMA SameMin == ASSUME NEW X PROVE P!Min(X) = C!Min(X)
BY DEF P!Min, C!Min

LEMMA SameNextWake == ASSUME NEW h, NEW n PROVE P!NextWake(h, n) = C!NextWake(h, n)
BY SameMin DEF P!NextWake, C!NextWake

LEMMA SameRaises == ASSUME NEW a, NEW s, NEW n PROVE P!Raises(a, s, n) = C!Raises(a, s, n)
BY DEF P!Raises, C!Raises

FoldP(used, base, seq) == P!FoldLeft(LAMBDA acc, c : P!Admit(used, acc, c), base, seq)
FoldC(used, base, seq) == C!FoldLeft(LAMBDA acc, c : C!Admit(used, acc, c), base, seq)

LEMMA SameFold == ASSUME NEW used, NEW base, NEW seq PROVE FoldP(used, base, seq) = FoldC(used, base, seq)
BY DEF FoldP, FoldC, P!Admit, C!Admit, P!Affordable, C!Affordable, P!Reservation, C!Reservation,
       P!FoldLeft, C!FoldLeft, P!MapThenFoldSet, C!MapThenFoldSet, P!Max, C!Max

LEMMA SamePlan == ASSUME NEW a, NEW s, NEW n PROVE P!Plan(a, s, n) = C!Plan(a, s, n)
<1>1. P!Plan(a, s, n) = FoldP(P!SettleSpent(P!Ending(s, n), n),
               [held |-> [j \in DOMAIN held \ P!Ending(s, n) |-> held[j]], reserved |-> P!SettleReserved(P!Ending(s, n))],
               P!Ranked(P!Candidates(a \ P!Immediate(a, s, n), s, n)))
  BY DEF FoldP, P!Plan
<1>2. C!Plan(a, s, n) = FoldC(C!SettleSpent(C!Ending(s, n), n),
               [held |-> [j \in DOMAIN held \ C!Ending(s, n) |-> held[j]], reserved |-> C!SettleReserved(C!Ending(s, n))],
               C!Ranked(C!Candidates(a \ C!Immediate(a, s, n), s, n)))
  BY DEF FoldC, C!Plan
<1>. QED  BY <1>1, <1>2, SameFold, SameEnding, SameImmediate, SameSettleSpent, SameSettleReserved, SameCandidates, SameRanked

LEMMA SameOutput == ASSUME NEW e, NEW a, NEW s, NEW n, NEW h PROVE P!Output(e, a, s, n, h) = C!Output(e, a, s, n, h)
BY DEF P!Output, C!Output

LEMMA SameAnswer == ASSUME NEW a, NEW s, NEW n PROVE P!Answer(a, s, n) = C!Answer(a, s, n)
BY SameRaises, SameEnding, SamePlan, SameOutput, SameSettleSpent, SameNextWake, SameTotal, SameLarger, SameOfUser DEF P!Answer, C!Answer

-----------------------------------------------------------------------------
(* The controller in the loop *)

\* the jobs a line or what is left of one names
Ids(s) == {s[i] : i \in 1..Len(s)}

\* What the controller has been told of is what the bridge has reported, or,
\* while an answer is in the socket, its whole table; and it has released what
\* is submitted, and what an answer that is not worked off names.
InStep ==
  alive /\ ~failed =>
    /\ seen = IF reply = NoReply THEN reported ELSE table
    /\ released = submitted \union Ids(reply.rel) \union Ids(todo)

\* A line in the socket is one the bridge will accept.
ReplyFits ==
  reply # NoReply =>
    /\ pc = "wait" /\ reply.kind = "line" /\ ValidReleases(reply.rel) /\ reply.next > now
    /\ \A j \in DOMAIN held : reply.next <= held[j]

Covers == reply = NoReply => \A j \in Pending \cap DOMAIN held : wake <= held[j]

Memory ==
  /\ DOMAIN held \subseteq Job /\ \A j \in DOMAIN held : held[j] \in Nat
  /\ startAt \in [Job -> Nat] /\ faults \in Nat /\ now \in 0..MaxTime
  /\ alive => P!ControllerInv /\ lastNow <= now

LoopInv ==
  /\ IndInv /\ Memory /\ InStep /\ ReplyFits /\ Covers
  /\ pc = "fallback" => failed

LEMMA LoopConstants ==
  /\ P!ControllerAssumption /\ MaxFaults \in Nat /\ Lines \subseteq Replies
  /\ IsFiniteSet(Job) /\ MaxTime \in Nat
<1>1. \A X : P!IsFiniteSet(X) <=> C!IsFiniteSet(X)  BY DEF P!IsFiniteSet, C!IsFiniteSet
<1>. QED  BY <1>1, LoopAssumption, BridgeAssumption DEF C!ControllerAssumption, P!ControllerAssumption

\* SetToSeq lists each element of a finite set once.
LEMMA SequenceOfSet ==
  ASSUME NEW X, IsFiniteSet(X), NEW q, q = S!SetToSeq(X)
  PROVE  /\ q \in [1..Cardinality(X) -> X] /\ Ids(q) = X
         /\ q \in Seq(X) /\ Len(q) = Cardinality(X)
         /\ \A i, k \in 1..Len(q) : i # k => q[i] # q[k]
<1>. DEFINE n == Cardinality(X)
<1>1. n \in Nat /\ ExistsBijection(1..n, X)  BY FS_CardinalityType
<1>2. \E f \in [1..n -> X] : S!IsInjective(f)
  BY <1>1 DEF ExistsBijection, Bijection, Injection, IsInjective, S!IsInjective
<1>3. S!Cardinality(X) = n  BY DEF Cardinality, S!Cardinality
<1>4. q \in [1..n -> X] /\ S!IsInjective(q)  BY <1>2, <1>3 DEF S!SetToSeq
<1>. HIDE DEF n
<1>5. IsFiniteSet(1..n) /\ Cardinality(1..n) = n  BY <1>1, FS_Interval
<1>6. q \in Injection(1..n, X)  BY <1>4 DEF Injection, IsInjective, S!IsInjective
<1>7. q \in Surjection(1..n, X)  BY <1>5, <1>6, FS_Injection DEF n
<1>8. q \in Seq(X) /\ Len(q) = n  BY <1>1, <1>4
<1>9. \A i, k \in 1..n : i # k => q[i] # q[k]  BY <1>4 DEF S!IsInjective
<1>10. Ids(q) = X  BY <1>4, <1>7, <1>8 DEF Ids, Surjection
<1>. QED  BY <1>4, <1>8, <1>9, <1>10 DEF n

\* The controller's answer takes it to what the bridge has, once the bridge has
\* worked it off; it is a line the bridge accepts.
LEMMA AnswerFits ==
  ASSUME LoopInv, ControllerAnswers
  PROVE  /\ P!ControllerInv' /\ lastNow' = now /\ alive' = alive
         /\ seen' = table /\ released' = submitted \union Ids(reply'.rel)
         /\ reply'.kind = "line" /\ ValidReleases(reply'.rel)
         /\ reply'.next > now /\ \A j \in DOMAIN held' : reply'.next <= held'[j]
         /\ reply' \in Replies /\ reply' # NoReply
<1>1. /\ pc = "wait" /\ fd /\ reply = NoReply /\ C!Answer(Arrivals, Snapshot, now)
      /\ reply' = [kind |-> "line", next |-> answer'.wake, rel |-> S!SetToSeq(answer'.release)]
  BY DEF ControllerAnswers
<1>2. alive /\ ~failed /\ P!ControllerInv /\ lastNow <= now /\ now \in 0..MaxTime
  BY <1>1 DEF C!Answer, LoopInv, IndInv, FailedDisconnected, Memory
<1>3. seen = reported /\ released = submitted
  <2>1. todo = << >> /\ reply.rel = << >>  BY <1>1 DEF LoopInv, IndInv, TodoHeld, NoReply
  <2>2. Ids(<< >>) = {}  BY DEF Ids
  <2>. QED  BY <1>1, <1>2, <2>1, <2>2 DEF LoopInv, InStep
<1>4. /\ table \subseteq Job /\ reported \subseteq table /\ submitted \subseteq table /\ MaxTime \in Nat
      /\ startAt \in [Job -> Nat]
  BY LoopConstants DEF LoopInv, IndInv, TypeOK, Memory
<1>5. P!OneFate /\ seen = DOMAIN held \union released /\ DOMAIN held \cap released = {}
  BY <1>2 DEF P!ControllerInv, P!OneFate
<1>6. P!GoodRequest(Arrivals, Snapshot, now)
  <2>1. submitted \subseteq Job /\ \A j \in submitted : startAt[j] \in Int  BY <1>4
  <2>2. /\ \A s \in Snapshot : s.id \in Job /\ s.start \in Int
        /\ \A s, t \in Snapshot : s.id = t.id => s = t
    BY <2>1 DEF Snapshot
  <2>3. P!GoodStates(Snapshot)  BY <2>2, LoopConstants, P!SnapshotIsGood
  <2>. QED  BY <1>2, <1>4, <2>3 DEF P!GoodRequest, Arrivals
<1>7. P!Answer(Arrivals, Snapshot, now)  BY <1>1, SameAnswer
<1>8. P!ControllerInv'  BY <1>2, <1>6, <1>7, LoopConstants, P!AnswerKeeps
<1>9. /\ answer'.release \subseteq DOMAIN held \union Arrivals
      /\ released' = released \union answer'.release
      /\ seen' = seen \union Arrivals /\ lastNow' = now /\ alive' = alive
      /\ answer'.wake \in Nat /\ answer'.wake > now
      /\ answer'.wake <= now + P!Larger(IdleWake, TickS)
      /\ \A j \in DOMAIN held' : answer'.wake <= held'[j]
  BY <1>2, <1>6, <1>7, LoopConstants, P!AnswerIs
<1>10. answer'.release \subseteq Pending  BY <1>3, <1>4, <1>5, <1>9 DEF Pending, Arrivals
<1>. DEFINE out == answer'.release
            q == S!SetToSeq(out)
<1>11. IsFiniteSet(Pending) /\ IsFiniteSet(out) /\ IsFiniteSet(Job)
  <2>1. Pending \in SUBSET Job /\ out \in SUBSET Pending  BY <1>4, <1>10 DEF Pending
  <2>. QED  BY <2>1, LoopConstants, FS_Subset
<1>12. /\ q \in [1..Cardinality(out) -> out] /\ Ids(q) = out
       /\ q \in Seq(out) /\ Len(q) = Cardinality(out)
       /\ \A i, k \in 1..Len(q) : i # k => q[i] # q[k]
  <2>. HIDE DEF out
  <2>. QED  BY <1>11, SequenceOfSet
<1>13. reply'.rel = q /\ reply'.next = answer'.wake /\ reply'.kind = "line"  BY <1>1
<1>. HIDE DEF q
<1>14. Cardinality(out) \in Nat /\ Cardinality(out) <= Cardinality(Pending) /\ Cardinality(out) <= Cardinality(Job)
  <2>1. out \in SUBSET Pending /\ out \in SUBSET Job  BY <1>4, <1>10 DEF Pending
  <2>. QED  BY <1>11, <2>1, FS_Subset, FS_CardinalityType
<1>15. ValidReleases(q)
  BY <1>10, <1>12, <1>14 DEF ValidReleases
<1>16. reply' \in Lines
  <2>1. answer'.wake \in 0..(MaxTime + C!Larger(IdleWake, TickS))
    <3>1. IdleWake \in Nat /\ TickS \in Nat  BY LoopConstants DEF P!ControllerAssumption
    <3>2. C!Larger(IdleWake, TickS) \in Nat /\ P!Larger(IdleWake, TickS) = C!Larger(IdleWake, TickS)
      BY <3>1, SameLarger DEF C!Larger
    <3>. QED  BY <1>2, <1>4, <1>9, <3>2
  <2>2. q \in [1..Cardinality(out) -> Job] /\ Cardinality(out) \in 0..Cardinality(Job)
    <3>1. out \subseteq Job  BY <1>4, <1>10 DEF Pending
    <3>2. Cardinality(Job) \in Nat  BY <1>11, FS_CardinalityType
    <3>. QED  BY <1>12, <1>14, <3>1, <3>2
  <2>3. S!IsInjective(q)  BY <1>12, <1>14 DEF S!IsInjective
  <2>. QED  BY <1>1, <2>1, <2>2, <2>3 DEF Lines, q
<1>17. seen' = table  BY <1>3, <1>4, <1>9 DEF Arrivals
<1>18. released' = submitted \union Ids(reply'.rel)  BY <1>3, <1>9, <1>12, <1>13
<1>. QED  BY <1>8, <1>9, <1>13, <1>15, <1>16, <1>17, <1>18, LoopConstants DEF NoReply

\* Every step of the loop is one of the bridge, or leaves it alone.
LEMMA BridgeStep ==
  ASSUME LoopInv, [LoopNext]_loopVars
  PROVE  [Next]_vars
<1>1. CASE Thread
  BY <1>1 DEF Thread, LoopTick, Pass, GivesUp, Next, Loop, Tick
<1>2. CASE Environment \/ Clock
  BY <1>2 DEF Environment, Starts, Clock, Next, Simulator
<1>3. CASE ControllerAnswers
  BY <1>3, AnswerFits DEF ControllerAnswers, AnyController, Next
<1>4. CASE ControllerEnds \/ UNCHANGED loopVars
  BY <1>4 DEF ControllerEnds, loopVars
<1>. QED  BY <1>1, <1>2, <1>3, <1>4 DEF LoopNext

LEMMA LoopStarts ==
  ASSUME LoopInit PROVE LoopInv
<1>1. Init /\ C!Init /\ startAt = [j \in Job |-> 0] /\ faults = 0  BY DEF LoopInit
<1>2. IndInv  BY <1>1, InitInd
<1>3. /\ held = << >> /\ seen = {} /\ released = {} /\ lastNow = 0 /\ alive = TRUE
  BY <1>1 DEF C!Init
<1>4. P!ControllerInv
  <2>1. P!Init  BY <1>1 DEF P!Init, C!Init
  <2>. QED  BY <2>1, LoopConstants, P!InitKeeps
<1>5. now = 0 /\ reply = NoReply /\ todo = << >> /\ table = {} /\ submitted = {} /\ reported = {} /\ pc = "events"
  BY <1>1 DEF Init
<1>6. DOMAIN held = {}  BY <1>3
<1>7. Memory  BY <1>1, <1>3, <1>4, <1>5, <1>6, LoopConstants DEF Memory
<1>8. InStep
  <2>1. Ids(<< >>) = {}  BY DEF Ids
  <2>2. reply.rel = << >>  BY <1>5 DEF NoReply
  <2>. QED  BY <1>3, <1>5, <2>1, <2>2 DEF InStep
<1>. QED  BY <1>2, <1>5, <1>6, <1>7, <1>8 DEF LoopInv, ReplyFits, Covers

\* What the controller keeps outlives every step that leaves it alone.
LEMMA MemoryStays ==
  ASSUME Memory, UNCHANGED controller, startAt' \in [Job -> Nat], faults' \in Nat,
         now' \in 0..MaxTime, now' >= now
  PROVE  Memory'
<1>1. UNCHANGED <<held, alive, lastNow>>  BY DEF controller
<1>2. ASSUME alive PROVE P!ControllerInv' /\ lastNow <= now'
  <2>1. P!ControllerInv /\ lastNow <= now /\ now \in 0..MaxTime  BY <1>2 DEF Memory
  <2>2. UNCHANGED P!cvars  BY DEF controller, P!cvars
  <2>3. P!ControllerInv'  BY <2>1, <2>2, LoopConstants, P!NextKeeps
  <2>4. lastNow \in Nat  BY <2>1 DEF P!ControllerInv, P!OneFate, P!TypeOK
  <2>. QED  BY <2>1, <2>3, <2>4, LoopConstants
<1>. QED  BY <1>1, <1>2 DEF Memory

\* The steps that leave the reply, the table and the controller alone.
LEMMA FrameKeeps ==
  ASSUME LoopInv, IndInv', UNCHANGED <<controller, reply, todo, table, submitted, reported, wake, failed>>,
         startAt' \in [Job -> Nat], faults' \in Nat, now' \in 0..MaxTime, now' >= now,
         reply = NoReply, pc' # "fallback" \/ failed
  PROVE  LoopInv'
<1>1. Memory'  BY MemoryStays DEF LoopInv
<1>2. UNCHANGED <<alive, seen, released, held>>  BY DEF controller
<1>3. InStep'  BY <1>2 DEF LoopInv, InStep
<1>4. ReplyFits' /\ Covers'  BY <1>2 DEF LoopInv, ReplyFits, Covers, Pending
<1>. QED  BY <1>1, <1>3, <1>4 DEF LoopInv

LEMMA AnswersKeeps ==
  ASSUME LoopInv, IndInv', ControllerAnswers
  PROVE  LoopInv'
<1>1. UNCHANGED <<pc, now, sleepTill, allDone, queued, bridge, slurm, submits, startAt, faults>> /\ pc = "wait"
  BY DEF ControllerAnswers
<1>2. todo' = << >> /\ Ids(<< >>) = {}  BY <1>1 DEF LoopInv, IndInv, TodoHeld, bridge, Ids
<1>3. alive  BY DEF ControllerAnswers, C!Answer
<1>4. Memory'
  <2>1. DOMAIN held' \subseteq Job /\ \A j \in DOMAIN held' : held'[j] \in Nat
    BY AnswerFits DEF P!ControllerInv, P!OneFate, P!TypeOK
  <2>2. now \in 0..MaxTime /\ lastNow' <= now'  BY <1>1, AnswerFits, LoopConstants DEF LoopInv, Memory
  <2>. QED  BY <1>1, <2>1, <2>2, AnswerFits DEF LoopInv, Memory
<1>5. InStep'  BY <1>1, <1>2, AnswerFits DEF InStep, bridge
<1>6. ReplyFits' /\ Covers'  BY <1>1, AnswerFits DEF ReplyFits, Covers, ValidReleases, Pending, bridge
<1>. QED  BY <1>1, <1>4, <1>5, <1>6 DEF LoopInv, bridge

\* An end of the controller forgets all but the history of its holds.
LEMMA EndedMemory ==
  ASSUME Memory, Ended, startAt' = startAt, faults' \in Nat, now' = now
  PROVE  Memory'
BY DEF Memory, Ended

LEMMA FaultCounts ==
  ASSUME LoopInv, Fault \/ UNCHANGED faults
  PROVE  faults' \in Nat /\ (faults' = 0 => UNCHANGED faults)
BY LoopConstants DEF LoopInv, Memory, Fault

LEMMA EndsKeeps ==
  ASSUME LoopInv, IndInv', ControllerEnds
  PROVE  LoopInv'
<1>1. Ended /\ UNCHANGED <<vars, startAt>> /\ (Fault \/ UNCHANGED faults)  BY DEF ControllerEnds
<1>2. Memory'  BY <1>1, EndedMemory, FaultCounts DEF LoopInv, vars
<1>3. alive' = FALSE /\ held' = held  BY <1>1 DEF Ended
<1>4. InStep' /\ ReplyFits' /\ Covers'
  BY <1>1, <1>3 DEF InStep, ReplyFits, Covers, LoopInv, ValidReleases, Pending, vars, bridge
<1>. QED  BY <1>1, <1>2, <1>4 DEF LoopInv, vars, bridge

\* The bridge gives up only on a controller that has not answered.
LEMMA GivesUpWithout ==
  ASSUME LoopInv, TickBadReply
  PROVE  reply = NoReply
BY DEF LoopInv, ReplyFits, TickBadReply

LEMMA GivesUpKeeps ==
  ASSUME LoopInv, IndInv', GivesUp, UNCHANGED startAt
  PROVE  LoopInv'
<1>1. TickBadReply /\ Ended /\ reply = NoReply /\ (Fault \/ UNCHANGED faults)
  BY GivesUpWithout DEF GivesUp
<1>2. /\ UNCHANGED <<now, table, submitted, wake>> /\ failed' = TRUE /\ reply' = NoReply
  BY <1>1 DEF TickBadReply, Fail
<1>3. Memory'  BY <1>1, <1>2, EndedMemory, FaultCounts DEF LoopInv
<1>4. alive' = FALSE /\ held' = held  BY <1>1 DEF Ended
<1>5. InStep' /\ ReplyFits' /\ Covers'
  BY <1>1, <1>2, <1>4 DEF InStep, ReplyFits, Covers, LoopInv, Pending
<1>. QED  BY <1>2, <1>3, <1>5 DEF LoopInv

LEMMA ReadKeeps ==
  ASSUME LoopInv, IndInv', TickReply, UNCHANGED <<controller, startAt, faults>>
  PROVE  LoopInv' /\ UNCHANGED failed
<1>1. /\ pc = "wait" /\ reply.kind = "line" /\ ValidReleases(reply.rel) /\ reported' = table /\ wake' = reply.next
      /\ UNCHANGED <<now, table, submitted>>
  BY DEF TickReply
<1>2. reply # NoReply  BY <1>1 DEF NoReply
<1>3. reply.next > now /\ \A j \in DOMAIN held : reply.next <= held[j]  BY <1>2 DEF LoopInv, ReplyFits
<1>4. reply.next \in Int /\ now \in Nat
  <2>1. reply \in ReplyType  BY <1>2, BridgeAssumption DEF LoopInv, IndInv, TypeOK
  <2>. QED  BY <2>1 DEF ReplyType, LoopInv, IndInv, TypeOK
<1>5. ~PastWake(reply)  BY <1>3, <1>4 DEF PastWake
<1>6. todo' = reply.rel /\ pc' = "release" /\ reply' = NoReply /\ UNCHANGED failed  BY <1>5 DEF TickReply
<1>7. Memory'
  <2>1. now \in 0..MaxTime /\ startAt \in [Job -> Nat] /\ faults \in Nat  BY DEF LoopInv, Memory
  <2>2. now' >= now  BY <1>1, <1>4
  <2>. QED  BY <1>1, <2>1, <2>2, MemoryStays DEF LoopInv
<1>8. UNCHANGED <<alive, seen, released, held>>  BY DEF controller
<1>9. InStep'
  <2>1. todo = << >> /\ Ids(<< >>) = {} /\ NoReply.rel = << >>  BY <1>1 DEF LoopInv, IndInv, TodoHeld, Ids, NoReply
  <2>. QED  BY <1>1, <1>2, <1>6, <1>8, <2>1 DEF InStep, LoopInv
<1>10. ReplyFits' /\ Covers'  BY <1>1, <1>3, <1>6, <1>8 DEF ReplyFits, Covers
<1>. QED  BY <1>6, <1>7, <1>9, <1>10 DEF LoopInv

LEMMA ConnectFailsKeeps ==
  ASSUME LoopInv, IndInv', TickUnsent, Fault, UNCHANGED <<controller, startAt>>
  PROVE  LoopInv'
<1>1. /\ pc = "tick" /\ reply' = NoReply /\ failed' = TRUE /\ UNCHANGED <<now, table, submitted, wake>>
  BY DEF TickUnsent, TickDue, Fail
<1>2. reply = NoReply  BY <1>1 DEF LoopInv, ReplyFits
<1>3. Memory'
  <2>1. now \in 0..MaxTime /\ startAt \in [Job -> Nat] /\ MaxTime \in Nat  BY LoopConstants DEF LoopInv, Memory
  <2>2. now' >= now  BY <1>1, <2>1
  <2>. QED  BY <1>1, <2>1, <2>2, MemoryStays, FaultCounts DEF LoopInv
<1>4. InStep' /\ ReplyFits' /\ Covers'
  BY <1>1, <1>2 DEF InStep, ReplyFits, Covers, LoopInv, Pending, controller
<1>. QED  BY <1>1, <1>3, <1>4 DEF LoopInv

\* The steps of the bridge that leave controller and clock alone.
LEMMA Still ==
  ASSUME LoopInv, UNCHANGED <<now, controller, startAt, faults>>
  PROVE  Memory'
<1>1. now \in 0..MaxTime /\ startAt \in [Job -> Nat] /\ faults \in Nat /\ MaxTime \in Nat
  BY LoopConstants DEF LoopInv, Memory
<1>2. now' >= now  BY <1>1
<1>. QED  BY <1>1, <1>2, MemoryStays DEF LoopInv

LEMMA PopKeeps ==
  ASSUME LoopInv, IndInv', NEW j \in Job, PopArrival(j), UNCHANGED <<controller, startAt, faults>>
  PROVE  LoopInv'
<1>1. pc \in {"events", "sched"} /\ UNCHANGED <<pc, now>> /\ Arrive(j)  BY DEF PopArrival
<1>2. reply = NoReply  BY <1>1 DEF LoopInv, ReplyFits
<1>3. Memory'  BY <1>1, Still
<1>4. UNCHANGED <<alive, seen, released, held>>  BY DEF controller
<1>5. CASE Cardinality(table) >= MaxJobs
  <2>1. failed' = TRUE /\ reply' = NoReply /\ UNCHANGED <<table, submitted, wake>>  BY <1>1, <1>5 DEF Arrive, Fail
  <2>2. InStep' /\ ReplyFits' /\ Covers'
    BY <1>2, <1>4, <2>1 DEF InStep, ReplyFits, Covers, LoopInv, Pending
  <2>. QED  BY <1>1, <1>3, <2>1, <2>2 DEF LoopInv
<1>6. CASE ~(Cardinality(table) >= MaxJobs)
  <2>1. wake' = 0 /\ UNCHANGED <<submitted, reported, todo, failed, reply>>  BY <1>1, <1>6 DEF Arrive
  <2>2. InStep' /\ ReplyFits'  BY <1>2, <1>4, <2>1 DEF InStep, ReplyFits, LoopInv
  <2>3. \A k \in DOMAIN held : held[k] \in Nat  BY DEF LoopInv, Memory
  <2>4. Covers'  BY <1>4, <2>1, <2>3 DEF Covers
  <2>. QED  BY <1>1, <1>3, <2>1, <2>2, <2>4 DEF LoopInv
<1>. QED  BY <1>5, <1>6

LEMMA ReleaseKeeps ==
  ASSUME LoopInv, IndInv', Release, UNCHANGED <<controller, startAt, faults>>
  PROVE  LoopInv'
<1>1. /\ pc = "release" /\ todo # << >> /\ submitted' = submitted \union {Head(todo)} /\ todo' = Tail(todo)
      /\ UNCHANGED <<pc, now, table, reported, wake, failed, reply>>
  BY DEF Release
<1>2. reply = NoReply  BY <1>1 DEF LoopInv, ReplyFits
<1>3. Ids(todo) = {Head(todo)} \union Ids(Tail(todo))
  <2>1. todo \in Seq(Job)  BY DEF LoopInv, IndInv, TypeOK
  <2>2. /\ Len(todo) \in Nat /\ Len(todo) >= 1 /\ Head(todo) = todo[1] /\ Len(Tail(todo)) = Len(todo) - 1
        /\ \A i \in 1..Len(Tail(todo)) : Tail(todo)[i] = todo[i + 1]
    BY <1>1, <2>1
  <2>3. Ids(todo) \subseteq {Head(todo)} \union Ids(Tail(todo))
    <3>. SUFFICES ASSUME NEW i \in 1..Len(todo), i # 1 PROVE todo[i] \in Ids(Tail(todo))
      BY <2>2 DEF Ids
    <3>1. i - 1 \in 1..Len(Tail(todo)) /\ (i - 1) + 1 = i  BY <2>2
    <3>2. Tail(todo)[i - 1] = todo[i]  BY <2>2, <3>1
    <3>. QED  BY <3>1, <3>2 DEF Ids
  <2>4. Ids(Tail(todo)) \subseteq Ids(todo)
    <3>. SUFFICES ASSUME NEW i \in 1..Len(Tail(todo)) PROVE Tail(todo)[i] \in Ids(todo)
      BY DEF Ids
    <3>1. i + 1 \in 1..Len(todo)  BY <2>2
    <3>. QED  BY <2>2, <3>1 DEF Ids
  <2>5. Head(todo) \in Ids(todo)  BY <2>2 DEF Ids
  <2>. QED  BY <2>3, <2>4, <2>5
<1>4. Memory'  BY <1>1, Still
<1>5. UNCHANGED <<alive, seen, released, held>>  BY DEF controller
<1>6. InStep'  BY <1>1, <1>3, <1>5 DEF InStep, LoopInv
<1>7. ReplyFits' /\ Covers'  BY <1>1, <1>2, <1>5 DEF ReplyFits, Covers, LoopInv, Pending
<1>. QED  BY <1>1, <1>4, <1>6, <1>7 DEF LoopInv

LEMMA FallbackKeeps ==
  ASSUME LoopInv, IndInv', FallbackDone \/ (\E j \in Job : Fallback(j)), UNCHANGED <<controller, startAt, faults>>
  PROVE  LoopInv'
<1>1. pc = "fallback" /\ failed  BY DEF FallbackDone, Fallback, LoopInv
<1>2. reply = NoReply  BY <1>1 DEF LoopInv, ReplyFits
<1>3. Memory'  BY Still DEF FallbackDone, Fallback
<1>4. UNCHANGED <<alive, seen, released, held, failed, reply, table>> /\ (pc' # "fallback" \/ failed')
  BY <1>1 DEF controller, FallbackDone, Fallback
<1>5. InStep' /\ ReplyFits'  BY <1>1, <1>2, <1>4 DEF InStep, ReplyFits
<1>6. Covers'
  <2>1. CASE FallbackDone  BY <1>4, <2>1 DEF Covers, Pending, FallbackDone
  <2>2. CASE \E j \in Job : Fallback(j)
    <3>1. wake' = wake /\ Pending' \subseteq Pending  BY <2>2 DEF Fallback, Pending
    <3>. QED  BY <1>2, <1>4, <3>1 DEF Covers, LoopInv
  <2>. QED  BY <2>1, <2>2
<1>. QED  BY <1>3, <1>4, <1>5, <1>6 DEF LoopInv

\* The other steps touch neither the table nor the controller.
LEMMA OthersKeep ==
  ASSUME LoopInv, IndInv', UNCHANGED <<controller, faults>>, startAt' \in [Job -> Nat],
         \/ TickQuiet \/ TickFailed \/ TickSend
         \/ EventsDone \/ ReleaseDone \/ SchedDone \/ CheckExit \/ SkipTime \/ NoSkip \/ Exited
         \/ NestedCheckExit \/ Elapse
         \/ \E j \in Job : CompleteJob(j) \/ StartJob(j)
  PROVE  LoopInv'
<1>0. now \in 0..MaxTime /\ faults \in Nat /\ MaxTime \in Nat  BY LoopConstants DEF LoopInv, Memory
<1>1. UNCHANGED <<reply, todo, table, submitted, reported, wake, failed>>
  BY DEF TickQuiet, TickFailed, TickSend, EventsDone, ReleaseDone, SchedDone, CheckExit, SkipTime, NoSkip,
         Exited, NestedCheckExit, Elapse, CompleteJob, StartJob, ExitTest, vars, bridge
<1>2. pc # "wait"
  BY DEF TickQuiet, TickFailed, TickSend, TickDue, EventsDone, ReleaseDone, SchedDone, CheckExit, SkipTime, NoSkip,
         Exited, NestedCheckExit, Elapse, CompleteJob, StartJob
<1>3. reply = NoReply  BY <1>2 DEF LoopInv, ReplyFits
<1>4. now' \in 0..MaxTime /\ now' >= now
  <2>1. CASE SkipTime  BY <1>0, <2>1 DEF SkipTime
  <2>2. CASE Elapse  BY <1>0, <2>2 DEF Elapse
  <2>3. CASE UNCHANGED now  BY <1>0, <2>3
  <2>. QED
    BY <2>1, <2>2, <2>3 DEF TickQuiet, TickFailed, TickSend, EventsDone, ReleaseDone, SchedDone, CheckExit, NoSkip,
         Exited, NestedCheckExit, CompleteJob, StartJob, ExitTest, vars
<1>5. pc' # "fallback" \/ failed
  BY DEF LoopInv, TickQuiet, TickFailed, TickSend, EventsDone, ReleaseDone, SchedDone, CheckExit, SkipTime, NoSkip,
         Exited, NestedCheckExit, Elapse, CompleteJob, StartJob, ExitTest, vars
<1>6. faults' \in Nat  BY <1>0
<1>. QED  BY <1>1, <1>3, <1>4, <1>5, <1>6, FrameKeeps

LEMMA LoopKeeps ==
  ASSUME LoopInv, [LoopNext]_loopVars
  PROVE  LoopInv'
<1>1. IndInv'  BY BridgeStep, NextInd DEF LoopInv
<1>2. startAt \in [Job -> Nat] /\ now \in Nat  BY LoopConstants DEF LoopInv, Memory
<1>3. CASE Thread
  <2>1. CASE GivesUp  BY <1>1, <1>3, <2>1, GivesUpKeeps DEF Thread
  <2>2. CASE TickUnsent /\ Fault /\ UNCHANGED controller
    BY <1>1, <1>3, <2>2, ConnectFailsKeeps DEF Thread
  <2>3. CASE TickReply /\ UNCHANGED <<controller, faults>>
    BY <1>1, <1>3, <2>3, ReadKeeps DEF Thread
  <2>4. CASE (TickQuiet \/ TickFailed \/ TickSend) /\ UNCHANGED <<controller, faults>>
    BY <1>1, <1>2, <1>3, <2>4, OthersKeep DEF Thread
  <2>5. CASE Pass /\ UNCHANGED <<controller, faults>>
    <3>1. UNCHANGED <<controller, startAt, faults>> /\ startAt' \in [Job -> Nat]  BY <1>2, <1>3, <2>5 DEF Thread
    <3>2. CASE \E j \in Job : PopArrival(j)  BY <1>1, <3>1, <3>2, PopKeeps
    <3>3. CASE Release  BY <1>1, <3>1, <3>3, ReleaseKeeps
    <3>4. CASE FallbackDone \/ (\E j \in Job : Fallback(j))  BY <1>1, <3>1, <3>4, FallbackKeeps
    <3>5. CASE EventsDone \/ ReleaseDone \/ SchedDone \/ CheckExit \/ SkipTime \/ NoSkip \/ Exited
      BY <1>1, <3>1, <3>5, OthersKeep
    <3>. QED  BY <2>5, <3>2, <3>3, <3>4, <3>5 DEF Pass, Releases
  <2>. QED  BY <1>3, <2>1, <2>2, <2>3, <2>4, <2>5 DEF Thread, LoopTick
<1>4. CASE Environment \/ Clock
  <2>1. startAt' \in [Job -> Nat] /\ UNCHANGED <<controller, faults>>
    BY <1>2, <1>4 DEF Environment, Starts, Clock
  <2>2. (\E j \in Job : CompleteJob(j) \/ StartJob(j)) \/ NestedCheckExit \/ Elapse
    BY <1>4 DEF Environment, Starts, Clock
  <2>. QED  BY <1>1, <2>1, <2>2, OthersKeep
<1>5. CASE UNCHANGED loopVars
  <2>1. UNCHANGED <<vars, controller, startAt, faults>>  BY <1>5 DEF loopVars
  <2>2. Memory'  BY <2>1, Still DEF vars
  <2>3. UNCHANGED <<alive, seen, released, held, pc, now, reply, todo, table, submitted, reported, wake, failed>>
    BY <2>1 DEF vars, bridge, controller
  <2>4. InStep' /\ ReplyFits' /\ Covers'
    BY <2>3 DEF LoopInv, InStep, ReplyFits, Covers, ValidReleases, Pending
  <2>. QED  BY <1>1, <2>2, <2>3, <2>4 DEF LoopInv
<1>. QED  BY <1>1, <1>3, <1>4, <1>5, AnswersKeeps, EndsKeeps DEF LoopNext

\* The inductive invariant of the loop: what the controller knows is what the
\* bridge has done, a line in the socket is one it accepts, and it wakes in time.
THEOREM LoopInvariance == LoopSpec => []LoopInv
  BY LoopStarts, LoopKeeps, PTL DEF LoopSpec

\* Controller and bridge agree between ticks, and the bridge wakes for every
\* release the controller has planned, also when the controller is gone.
THEOREM ProgramsAgree == LoopSpec => []Agreement
<1>1. ASSUME LoopInv PROVE Agreement
  <2>1. ASSUME pc \notin {"wait", "release"}, ~failed, alive
        PROVE  DOMAIN held = reported \ submitted /\ released = submitted
    <3>1. todo = << >> /\ reply = NoReply  BY <1>1, <2>1 DEF LoopInv, IndInv, TodoHeld, ReplyFits
    <3>2. Ids(<< >>) = {} /\ NoReply.rel = << >>  BY DEF Ids, NoReply
    <3>3. seen = reported /\ released = submitted  BY <1>1, <2>1, <3>1, <3>2 DEF LoopInv, InStep
    <3>4. seen = DOMAIN held \union released /\ DOMAIN held \cap released = {}
      BY <1>1, <2>1 DEF LoopInv, Memory, P!ControllerInv, P!OneFate
    <3>. QED  BY <3>3, <3>4
  <2>2. WakeCoversHolds  BY <1>1 DEF WakeCoversHolds, LoopInv, ReplyFits, Covers
  <2>. QED  BY <2>1, <2>2 DEF Agreement
<1>. QED  BY <1>1, LoopInvariance, PTL

\* The loop implements the bridge with an arbitrary controller.
THEOREM LoopIsBridge == LoopSpec => BridgeSafety
<1>1. LoopInit => Init  BY DEF LoopInit
<1>2. LoopInv /\ [LoopNext]_loopVars => [Next]_vars  BY BridgeStep
<1>. QED  BY <1>1, <1>2, LoopInvariance, PTL DEF LoopSpec, BridgeSafety

\* What the bridge keeps for every controller it keeps for this one.
THEOREM LoopKeepsBridge == LoopSpec => [](SubmitOnce /\ UnreportedWakes /\ ExitComplete)
<1>1. LoopInv => SubmitOnce /\ UnreportedWakes /\ ExitComplete
  BY IndInvExit DEF LoopInv, IndInv
<1>. QED  BY <1>1, LoopInvariance, PTL

\* A table that has room for every job is never full when one arrives.
LEMMA RoomLeft ==
  ASSUME LoopInv, Cardinality(Job) <= MaxJobs, NEW j \in Job, PopArrival(j)
  PROVE  UNCHANGED failed
<1>1. j \in queued /\ j \notin table /\ table \in SUBSET Job
  BY DEF PopArrival, NextArrivals, LoopInv, IndInv, Custody, TypeOK
<1>2. IsFiniteSet(Job)  BY LoopConstants
<1>3. IsFiniteSet(table) /\ Cardinality(table) <= Cardinality(Job) /\ Cardinality(table) # Cardinality(Job)
  <2>1. table # Job  BY <1>1
  <2>. QED  BY <1>1, <1>2, <2>1, FS_Subset
<1>4. Cardinality(table) \in Nat /\ Cardinality(Job) \in Nat /\ MaxJobs \in Nat
  BY <1>2, <1>3, FS_CardinalityType, BridgeAssumption
<1>5. ~(Cardinality(table) >= MaxJobs)  BY <1>3, <1>4
<1>. QED  BY <1>5 DEF PopArrival, Arrive

Undisturbed == faults = 0 => ~failed /\ alive

LEMMA UndisturbedKeeps ==
  ASSUME LoopInv, Cardinality(Job) <= MaxJobs, Undisturbed, [LoopNext]_loopVars
  PROVE  Undisturbed'
<1>0. ASSUME Fault PROVE faults' # 0  BY <1>0 DEF Fault, LoopInv, Memory
<1>1. CASE Thread
  <2>1. CASE GivesUp
    <3>1. reply = NoReply  BY <2>1, GivesUpWithout DEF GivesUp
    <3>. QED  BY <1>0, <2>1, <3>1 DEF GivesUp, Undisturbed
  <2>2. CASE TickUnsent /\ Fault  BY <1>0, <2>2 DEF Undisturbed
  <2>3. CASE TickReply /\ UNCHANGED <<controller, faults>>
    <3>1. IndInv'  BY BridgeStep, NextInd DEF LoopInv
    <3>2. UNCHANGED failed  BY <1>1, <2>3, <3>1, ReadKeeps DEF Thread
    <3>. QED  BY <2>3, <3>2 DEF Undisturbed, controller
  <2>4. CASE (TickQuiet \/ TickFailed \/ TickSend) /\ UNCHANGED <<controller, faults>>
    BY <2>4 DEF Undisturbed, controller, TickQuiet, TickFailed, TickSend
  <2>5. CASE Pass /\ UNCHANGED <<controller, faults>>
    <3>1. UNCHANGED failed
      <4>1. CASE \E j \in Job : PopArrival(j)  BY <4>1, RoomLeft
      <4>2. CASE ~(\E j \in Job : PopArrival(j))
        BY <2>5, <4>2 DEF Pass, Releases, EventsDone, Release, ReleaseDone, Fallback, FallbackDone, SchedDone,
                         CheckExit, ExitTest, SkipTime, NoSkip, Exited, vars, bridge
      <4>. QED  BY <4>1, <4>2
    <3>. QED  BY <2>5, <3>1 DEF Undisturbed, controller
  <2>. QED  BY <1>1, <2>1, <2>2, <2>3, <2>4, <2>5 DEF Thread, LoopTick
<1>2. CASE Environment \/ Clock
  BY <1>2 DEF Environment, Clock, Starts, StartJob, CompleteJob, NestedCheckExit, ExitTest, Elapse, Undisturbed,
              bridge, controller
<1>3. CASE ControllerAnswers
  <2>1. UNCHANGED <<failed, alive, faults>>  BY <1>3, AnswerFits DEF ControllerAnswers, bridge
  <2>. QED  BY <2>1 DEF Undisturbed
<1>4. CASE ControllerEnds
  <2>1. CASE Fault  BY <1>0, <2>1 DEF Undisturbed
  <2>2. CASE pc = "wait" /\ reply = NoReply /\ C!Raises(Arrivals, Snapshot, now) /\ UNCHANGED faults
    <3>. SUFFICES ASSUME faults = 0 PROVE FALSE  BY <2>2 DEF Undisturbed
    <3>1. alive /\ ~failed  BY DEF Undisturbed
    <3>2. todo = << >> /\ Ids(<< >>) = {} /\ NoReply.rel = << >>
      BY <2>2 DEF LoopInv, IndInv, TodoHeld, Ids, NoReply
    <3>3. seen = reported /\ released = submitted  BY <2>2, <3>1, <3>2 DEF LoopInv, InStep
    <3>4. lastNow <= now /\ lastNow \in Nat /\ now \in 0..MaxTime
      BY <3>1 DEF LoopInv, Memory, P!ControllerInv, P!OneFate, P!TypeOK
    <3>5. \A s \in Snapshot : s.id \in submitted  BY DEF Snapshot
    <3>. QED  BY <2>2, <3>3, <3>4, <3>5, LoopConstants DEF C!Raises, Arrivals
  <2>. QED  BY <1>4, <2>1, <2>2 DEF ControllerEnds
<1>5. CASE UNCHANGED loopVars  BY <1>5 DEF Undisturbed, loopVars, vars, bridge, controller
<1>. QED  BY <1>1, <1>2, <1>3, <1>4, <1>5 DEF LoopNext

\* With room in the table for the whole trace, a controller that is left to
\* answer never makes the bridge fail safe, and the bridge never makes it raise.
THEOREM NeitherFails ==
  ASSUME Cardinality(Job) <= MaxJobs
  PROVE  LoopSpec => []NoFailsafe
<1>1. LoopInit => Undisturbed  BY DEF LoopInit, Init, C!Init, Undisturbed
<1>2. LoopInv /\ Undisturbed /\ [LoopNext]_loopVars => Undisturbed'  BY UndisturbedKeeps
<1>3. Undisturbed => NoFailsafe  BY DEF Undisturbed, NoFailsafe
<1>. QED  BY <1>1, <1>2, <1>3, LoopInvariance, PTL DEF LoopSpec
=============================================================================
