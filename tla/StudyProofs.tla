----------------------------- MODULE StudyProofs -----------------------------
(***************************************************************************)
(* Proofs about Study: the policy keeps every user's budget, results that   *)
(* pass are about the right jobs, and a table is priced just if it covers   *)
(* the horizon, each instant and node once.                                 *)
(*                                                                         *)
(* The two folds of calculate_carbon.py are followed element by element: a  *)
(* sequence h of the values in between (Merges, Advances) starts with the   *)
(* base and ends with the value of the fold, and what is claimed of h[k] is *)
(* shown along k.                                                           *)
(***************************************************************************)
EXTENDS Study, SumsProofs

N == Cardinality(Job)

LEMMA Constants ==
  /\ IsFiniteSet(Job) /\ Job = 1..N /\ N \in Nat /\ UserOf \in [Job -> User]
  /\ Eligible \in [Job -> Nat] /\ Allowance \in [Job -> Nat] /\ Category \in [Job -> Nat]
  /\ Step \in Nat \ {0} /\ UserBudget \in Nat /\ JobLimit \in Nat \ {0}
BY StudyAssumption, FS_CardinalityType DEF N

-----------------------------------------------------------------------------
(* The order of the jobs *)

\* Rows are ordered as Precedes says: all of them, and none before itself.
LEMMA PrecedesOrders ==
  ASSUME release \in [Job -> Nat]
  PROVE  /\ \A j \in Job : ~Precedes(j, j)
         /\ \A j, k \in Job : j # k => Precedes(j, k) \/ Precedes(k, j)
         /\ \A i, j, k \in Job : Precedes(i, j) /\ Precedes(j, k) => Precedes(i, k)
<1>1. \A j \in Job : j \in Nat /\ release[j] \in Nat /\ Category[j] \in Nat  BY Constants
<1>. QED  BY <1>1 DEF Precedes

\* The sorted trace holds each row once.
LEMMA TraceHoldsAll ==
  ASSUME release \in [Job -> Nat]
  PROVE  /\ InOrder \in [1..N -> Job]
         /\ \A i, k \in 1..N : InOrder[i] = InOrder[k] => i = k
         /\ \A j \in Job : \E i \in 1..N : InOrder[i] = j
<1>. DEFINE R == {p \in Job \X Job : Precedes(p[1], p[2])}
<1>1. \A j, k \in Job : <<j, k>> \in R <=> Precedes(j, k)  OBVIOUS
<1>. HIDE DEF R
<1>2. Orders(R, Job)  BY <1>1, PrecedesOrders DEF Orders
<1>3. PICK q : SortedBy(q, R, Job)  BY <1>2, Constants, OrderExists
<1>4. q \in [1..N -> Job] /\ \A i, k \in 1..N : i < k => Precedes(q[i], q[k])
  BY <1>1, <1>3 DEF SortedBy, N
<1>5. InOrder \in [1..N -> Job] /\ \A i, k \in DOMAIN InOrder : i < k => Precedes(InOrder[i], InOrder[k])
  BY <1>4 DEF InOrder, Sorted, N
<1>6. DOMAIN InOrder = 1..N /\ \A i \in 1..N : InOrder[i] \in Job  BY <1>5
<1>7. SortedBy(InOrder, R, Job)  BY <1>1, <1>5, <1>6 DEF SortedBy, N
<1>. QED  BY <1>2, <1>5, <1>7, Constants, SortedHoldsAll DEF N

-----------------------------------------------------------------------------
(* The policy *)

Moved(u) == {j \in OfUser(u) : Wait[j] > 0}

\* What the policy has counted is what its releases say; rows still to be
\* decided have not moved.
PolicyInv ==
  /\ decided \in 0..N
  /\ release \in [Job -> Nat] /\ waited \in [User -> Nat] /\ moved \in [User -> Nat]
  /\ \A j \in Job : Wait[j] >= 0 /\ (j > decided => Wait[j] = 0)
  /\ \A u \in User : /\ waited[u] = Total(Wait, OfUser(u)) /\ waited[u] <= UserBudget
                     /\ moved[u] = Cardinality(Moved(u)) /\ moved[u] <= JobLimit

LEMMA OfUserFinite ==
  \A u \in User : /\ OfUser(u) \subseteq Job /\ IsFiniteSet(OfUser(u))
                  /\ IsFiniteSet(Moved(u)) /\ Moved(u) \subseteq OfUser(u)
<1>1. ASSUME NEW u \in User
      PROVE  /\ OfUser(u) \subseteq Job /\ IsFiniteSet(OfUser(u))
             /\ IsFiniteSet(Moved(u)) /\ Moved(u) \subseteq OfUser(u)
  <2>1. OfUser(u) \in SUBSET Job /\ Moved(u) \in SUBSET Job  BY DEF OfUser, Moved
  <2>. QED  BY <2>1, Constants, FS_Subset DEF Moved
<1>. QED  BY <1>1

LEMMA PolicyInit ==
  ASSUME Init PROVE PolicyInv
<1>1. \A j \in Job : Eligible[j] \in Nat /\ release[j] = Eligible[j]  BY Constants DEF Init
<1>2. \A j \in Job : Wait[j] = 0  BY <1>1 DEF Wait
<1>3. ASSUME NEW u \in User PROVE Total(Wait, OfUser(u)) = 0 /\ Cardinality(Moved(u)) = 0
  <2>1. Moved(u) = {}  BY <1>2 DEF Moved, OfUser
  <2>. QED  BY <1>2, <2>1, OfUserFinite, TotalZero, FS_EmptySet
<1>. QED  BY <1>2, <1>3, Constants DEF PolicyInv, Init

\* A delay that is tried fits into what is left of the user's budget.
LEMMA DelayFits ==
  ASSUME PolicyInv, NEW j \in Job, NEW delay \in Delays(j)
  PROVE  /\ delay \in Nat \ {0}
         /\ waited[UserOf[j]] + delay <= UserBudget
         /\ moved[UserOf[j]] < JobLimit
<1>. DEFINE u == UserOf[j]
<1>1. u \in User /\ waited[u] \in Nat /\ waited[u] <= UserBudget /\ moved[u] \in Nat
  BY Constants DEF PolicyInv
<1>2. UserBudget \in Nat /\ JobLimit \in Nat /\ Step \in Nat \ {0} /\ Allowance[j] \in Nat  BY Constants
<1>. HIDE DEF u
<1>3. WaitBudget(j) \in Nat /\ WaitBudget(j) <= UserBudget - waited[u]
  BY <1>1, <1>2 DEF WaitBudget, Smaller, Larger, u
<1>4. PICK i \in 1..(WaitBudget(j) \div Step) : delay = i * Step  BY DEF Delays
<1>5. ~(moved[u] >= JobLimit)  BY DEF Delays, u
<1>6. i \in Nat \ {0} /\ i <= WaitBudget(j) \div Step  BY <1>2, <1>3, <1>4
<1>7. i * Step <= WaitBudget(j)  BY <1>2, <1>3, <1>6, Quotient
<1>8. delay \in Nat /\ delay > 0  BY <1>2, <1>4, <1>6, Product
<1>. QED  BY <1>1, <1>2, <1>3, <1>4, <1>5, <1>7, <1>8 DEF u

\* Moving a row that has not moved adds its delay to its user's account only.
LEMMA Move ==
  ASSUME PolicyInv, NEW j \in Job, Wait[j] = 0, NEW delay \in Nat \ {0},
         release' = [release EXCEPT ![j] = Eligible[j] + delay]
  PROVE  /\ \A k \in Job : Wait'[k] = IF k = j THEN delay ELSE Wait[k]
         /\ \A u \in User :
              /\ Total(Wait', OfUser(u)) = Total(Wait, OfUser(u)) + (IF u = UserOf[j] THEN delay ELSE 0)
              /\ Cardinality(Moved(u)') = Cardinality(Moved(u)) + (IF u = UserOf[j] THEN 1 ELSE 0)
<1>1. \A k \in Job : Eligible[k] \in Nat /\ release[k] \in Nat  BY Constants DEF PolicyInv
<1>2. \A k \in Job : Wait'[k] = IF k = j THEN delay ELSE Wait[k]
  BY <1>1 DEF Wait, PolicyInv
<1>3. \A k \in Job : Wait[k] \in Int /\ Wait'[k] \in Int  BY <1>1, <1>2 DEF Wait
<1>4. ASSUME NEW u \in User
      PROVE  /\ Total(Wait', OfUser(u)) = Total(Wait, OfUser(u)) + (IF u = UserOf[j] THEN delay ELSE 0)
             /\ Cardinality(Moved(u)') = Cardinality(Moved(u)) + (IF u = UserOf[j] THEN 1 ELSE 0)
  <2>0. OfUser(u) \subseteq Job /\ IsFiniteSet(OfUser(u)) /\ IsFiniteSet(Moved(u))  BY OfUserFinite
  <2>01. Total(Wait, OfUser(u)) \in Int /\ Cardinality(Moved(u)) \in Nat
    BY <1>3, <2>0, TotalInt, FS_CardinalityType
  <2>1. CASE u # UserOf[j]
    <3>1. \A k \in OfUser(u) : Wait'[k] = Wait[k]  BY <1>2, <2>1 DEF OfUser
    <3>2. Total(Wait', OfUser(u)) = Total(Wait, OfUser(u))  BY <2>0, <3>1, TotalSame
    <3>3. Moved(u)' = Moved(u)  BY <3>1 DEF Moved, OfUser
    <3>. QED  BY <2>01, <2>1, <3>2, <3>3
  <2>2. CASE u = UserOf[j]
    <3>. DEFINE Rest == OfUser(u) \ {j}
    <3>1. j \in OfUser(u) /\ Rest \in SUBSET OfUser(u) /\ IsFiniteSet(Rest) /\ (\A k \in Rest : k \in Job /\ k # j)
      BY <2>0, <2>2, FS_Subset DEF OfUser
    <3>2. Total(Wait', Rest) = Total(Wait, Rest)  BY <1>2, <3>1, TotalSame
    <3>3. Total(Wait', OfUser(u)) = Wait'[j] + Total(Wait', Rest)  BY <1>3, <2>0, <3>1, TotalRemove
    <3>4. Total(Wait, OfUser(u)) = Wait[j] + Total(Wait, Rest)  BY <1>3, <2>0, <3>1, TotalRemove
    <3>5. Moved(u)' = Moved(u) \cup {j} /\ j \notin Moved(u)  BY <1>2, <3>1 DEF Moved, OfUser
    <3>6. Cardinality(Moved(u)') = Cardinality(Moved(u)) + 1
      <4>1. Cardinality(Moved(u) \cup {j}) = Cardinality(Moved(u)) + 1  BY <2>0, <3>5, FS_AddElement
      <4>. QED  BY <3>5, <4>1
    <3>7. Total(Wait, Rest) \in Int  BY <1>3, <3>1, TotalInt
    <3>. QED  BY <1>2, <2>2, <3>2, <3>3, <3>4, <3>6, <3>7
  <2>. QED  BY <2>1, <2>2
<1>. QED  BY <1>2, <1>4

LEMMA PolicyNext ==
  ASSUME PolicyInv, [Next]_vars
  PROVE  PolicyInv'
<1>1. CASE Decide /\ UNCHANGED <<waited, moved, release>>
  <2>1. decided' \in 0..N /\ decided' >= decided  BY <1>1, Constants DEF Decide, PolicyInv, N
  <2>2. \A u \in User : Moved(u)' = Moved(u)  BY <1>1 DEF Moved, Wait, OfUser
  <2>3. Wait' = Wait  BY <1>1 DEF Wait
  <2>4. \A j \in Job : j > decided' => j > decided  BY <2>1, Constants DEF PolicyInv
  <2>. QED  BY <1>1, <2>1, <2>2, <2>3, <2>4 DEF PolicyInv, OfUser
<1>2. CASE Decide /\ ~UNCHANGED <<waited, moved, release>>
  <2>. DEFINE j == decided + 1
  <2>1. decided' = j /\ j \in Job /\ decided \in Nat
    <3>1. decided \in 0..N /\ decided < N /\ N \in Nat /\ decided' = decided + 1
      BY <1>2, Constants DEF Decide, PolicyInv, N
    <3>2. j \in 1..N  BY <3>1
    <3>. QED  BY <3>1, <3>2, Constants
  <2>2. PICK delay \in Delays(j) : /\ release' = [release EXCEPT ![j] = Eligible[j] + delay]
                                  /\ waited' = [waited EXCEPT ![UserOf[j]] = @ + delay]
                                  /\ moved' = [moved EXCEPT ![UserOf[j]] = @ + 1]
    BY <1>2 DEF Decide
  <2>. HIDE DEF j
  <2>3. /\ delay \in Nat \ {0} /\ waited[UserOf[j]] + delay <= UserBudget
        /\ moved[UserOf[j]] < JobLimit
    BY <2>1, <2>2, DelayFits
  <2>4. Wait[j] = 0  BY <2>1 DEF PolicyInv, j
  <2>5. /\ \A k \in Job : Wait'[k] = IF k = j THEN delay ELSE Wait[k]
        /\ \A u \in User :
             /\ Total(Wait', OfUser(u)) = Total(Wait, OfUser(u)) + (IF u = UserOf[j] THEN delay ELSE 0)
             /\ Cardinality(Moved(u)') = Cardinality(Moved(u)) + (IF u = UserOf[j] THEN 1 ELSE 0)
    BY <2>1, <2>2, <2>3, <2>4, Move
  <2>6. UserOf[j] \in User /\ Eligible[j] \in Nat /\ UserBudget \in Nat /\ JobLimit \in Nat  BY <2>1, Constants
  <2>7. release' \in [Job -> Nat] /\ waited' \in [User -> Nat] /\ moved' \in [User -> Nat]
    <3>1. Eligible[j] + delay \in Nat  BY <2>3, <2>6
    <3>2. waited[UserOf[j]] + delay \in Nat /\ moved[UserOf[j]] + 1 \in Nat  BY <2>3, <2>6 DEF PolicyInv
    <3>. QED  BY <2>2, <3>1, <3>2 DEF PolicyInv
  <2>8. ASSUME NEW k \in Job PROVE Wait'[k] >= 0 /\ (k > decided' => Wait'[k] = 0)
    <3>1. k \in Nat /\ (k > decided' => k > decided /\ k # j)  BY <2>1, Constants DEF j
    <3>. QED  BY <2>3, <2>5, <3>1 DEF PolicyInv
  <2>9. ASSUME NEW u \in User
        PROVE  /\ waited'[u] = Total(Wait', OfUser(u)) /\ waited'[u] <= UserBudget
               /\ moved'[u] = Cardinality(Moved(u)') /\ moved'[u] <= JobLimit
    <3>1. /\ waited[u] \in Nat /\ moved[u] \in Nat
          /\ waited[u] = Total(Wait, OfUser(u)) /\ waited[u] <= UserBudget
          /\ moved[u] = Cardinality(Moved(u)) /\ moved[u] <= JobLimit
      BY DEF PolicyInv
    <3>2. /\ waited'[u] = waited[u] + (IF u = UserOf[j] THEN delay ELSE 0)
          /\ moved'[u] = moved[u] + (IF u = UserOf[j] THEN 1 ELSE 0)
      BY <2>2, <2>3, <2>6, <3>1 DEF PolicyInv
    <3>3. CASE u = UserOf[j]  BY <2>3, <2>5, <2>6, <3>1, <3>2, <3>3
    <3>4. CASE u # UserOf[j]  BY <2>3, <2>5, <2>6, <3>1, <3>2, <3>4
    <3>. QED  BY <3>3, <3>4
  <2>10. decided' \in 0..N
    <3>1. j \in 1..N /\ N \in Nat  BY <2>1, Constants
    <3>. QED  BY <2>1, <3>1
  <2>. QED  BY <2>7, <2>8, <2>9, <2>10 DEF PolicyInv, OfUser
<1>3. CASE UNCHANGED policy
  <2>1. \A u \in User : Moved(u)' = Moved(u)  BY <1>3 DEF Moved, Wait, OfUser, policy
  <2>. QED  BY <1>3, <2>1 DEF PolicyInv, Wait, OfUser, policy
<1>. QED  BY <1>1, <1>2, <1>3 DEF Next, vars, Finalize, Submit, Run, Replay, Analyse, Price, Finished, profile

\* No user's jobs wait longer for the policy, and no more of them are moved, than
\* the budgets of apply_safe_rolling_balanced say, over any trace.
THEOREM BudgetsAreKept == Spec => []UserBudgetKept
<1>1. PolicyInv => UserBudgetKept  BY DEF PolicyInv, UserBudgetKept, Moved
<1>. QED  BY PolicyInit, PolicyNext, <1>1, PTL DEF Spec

-----------------------------------------------------------------------------
(* The replay and its results *)

Lines == [state : {"silent", "submitted", "started", "completed", "timed_out"},
          wait : Waits \cup {0}, nodes : Allocation \cup {{}}]

\* The trace holds each row once, and expected is a row's place in it.
Numbers ==
  /\ trace \in [1..N -> Job]
  /\ \A i, k \in 1..N : trace[i] = trace[k] => i = k
  /\ \A j \in Job : \E i \in 1..N : trace[i] = j
  /\ \A i \in 1..N : expected[trace[i]] = i

\* While the policy decides, nothing is submitted.  An id that the log shows was
\* used up; and as long as none was skipped, a row has the id of its place, or
\* the log is silent about that id.
ReplayInv ==
  /\ stage \in {"policy", "replay", "results", "priced"}
  /\ sent \in 0..N /\ nextId \in 1..(sent + 1) /\ DOMAIN given = Job /\ log \in [Job -> Lines]
  /\ stage = "policy" => sent = 0 /\ \A id \in Job : log[id].state = "silent"
  /\ stage # "policy" => Numbers
  /\ \A id \in Job : log[id].state # "silent" => id < nextId
  /\ nextId = sent + 1 => \A i \in 1..sent : given[trace[i]] = i \/ log[i].state = "silent"
  /\ stage \in {"results", "priced"} => results = [j \in Job |-> log[expected[j]]]

LEMMA ReplayInit ==
  ASSUME Init PROVE ReplayInv
<1>1. N \in Nat  BY Constants
<1>2. log \in [Job -> Lines] /\ \A id \in Job : log[id].state = "silent"  BY DEF Init, Silent, Lines
<1>. QED  BY <1>1, <1>2 DEF Init, ReplayInv

LEMMA FinalizeKeeps ==
  ASSUME PolicyInv, ReplayInv, Finalize
  PROVE  ReplayInv'
<1>0. N \in Nat  BY Constants
<1>1. /\ trace' \in [1..N -> Job] /\ \A i, k \in 1..N : trace'[i] = trace'[k] => i = k
      /\ \A j \in Job : \E i \in 1..N : trace'[i] = j
  BY TraceHoldsAll DEF PolicyInv, Finalize
<1>2. expected' = Numbered(trace')  BY DEF Finalize
<1>3. ASSUME NEW i \in 1..N PROVE expected'[trace'[i]] = i
  <2>1. DOMAIN trace' = 1..N /\ trace'[i] \in Job  BY <1>1
  <2>2. expected'[trace'[i]] = CHOOSE k \in 1..N : trace'[k] = trace'[i]  BY <1>2, <2>1 DEF Numbered
  <2>. QED  BY <1>1, <2>2
<1>4. Numbers'  BY <1>1, <1>3, Zenon DEF Numbers
<1>5. sent' = 0 /\ UNCHANGED replay /\ stage' = "replay"  BY DEF Finalize, ReplayInv, replay
<1>. QED  BY <1>0, <1>4, <1>5 DEF ReplayInv, replay

LEMMA SubmitKeeps ==
  ASSUME ReplayInv, Submit
  PROVE  ReplayInv'
<1>0. N \in Nat /\ Job = 1..N  BY Constants
<1>1. Numbers /\ stage = "replay" /\ UNCHANGED <<stage, trace, expected, results>>
  BY DEF ReplayInv, Submit, Replay, profile
<1>2. Numbers'  BY <1>1 DEF Numbers
<1>3. trace \in Seq(Job) /\ Len(trace) = N
  <2>1. N \in Nat /\ trace \in [1..N -> Job]  BY <1>1, Constants DEF Numbers
  <2>2. trace \in Seq(Job) /\ DOMAIN trace = 1..N  BY <2>1
  <2>3. DOMAIN trace = 1..Len(trace) /\ Len(trace) \in Nat  BY <2>2
  <2>. QED  BY <2>1, <2>2, <2>3
<1>4. /\ sent \in Nat /\ sent < N /\ sent' = sent + 1 /\ sent' \in 0..N /\ nextId \in Nat
      /\ nextId >= 1 /\ nextId <= sent + 1 /\ nextId \in Job /\ sent + 1 \in 1..N
  <2>1. sent \in 0..N /\ sent < Len(trace) /\ sent' = sent + 1 /\ nextId \in 1..(sent + 1)
    BY DEF Submit, ReplayInv
  <2>2. nextId \in 1..N  BY <1>0, <1>3, <2>1
  <2>3. nextId \in Job  BY <1>0, <2>2
  <2>. QED  BY <1>0, <1>3, <2>1, <2>3
<1>. DEFINE j == trace[sent + 1]
<1>5. j \in Job /\ \A i \in 1..sent : trace[i] # j
  <2>1. \A i \in 1..sent : i \in 1..N /\ i # sent + 1  BY <1>0, <1>4
  <2>. QED  BY <1>1, <1>4, <2>1 DEF Numbers
<1>6. ASSUME given' = [given EXCEPT ![j] = nextId], nextId' = nextId + 1,
             log' = [log EXCEPT ![nextId].state = "submitted"]
      PROVE  ReplayInv'
  <2>1. log[nextId] \in Lines  BY <1>4 DEF ReplayInv
  <2>2. [log[nextId] EXCEPT !.state = "submitted"] \in Lines  BY <2>1 DEF Lines
  <2>3. /\ log' \in [Job -> Lines] /\ log'[nextId].state = "submitted"
        /\ \A id \in Job : id # nextId => log'[id] = log[id]
    BY <1>4, <1>6, <2>1, <2>2 DEF ReplayInv, Lines
  <2>4. \A id \in Job : log'[id].state # "silent" => id < nextId'
    <3>1. \A id \in Job : id \in Nat  BY <1>0
    <3>. QED  BY <1>4, <1>6, <2>3, <3>1 DEF ReplayInv
  <2>5. ASSUME nextId' = sent' + 1, NEW i \in 1..sent'
        PROVE  given'[trace'[i]] = i \/ log'[i].state = "silent"
    <3>1. nextId = sent + 1  BY <1>4, <1>6, <2>5
    <3>2. CASE i = sent + 1  BY <1>1, <1>5, <1>6, <3>1, <3>2 DEF ReplayInv
    <3>3. CASE i # sent + 1
      <4>1. i \in 1..sent /\ i \in 1..N /\ i # nextId  BY <1>0, <1>4, <3>1, <3>3
      <4>2. given[trace[i]] = i \/ log[i].state = "silent"  BY <3>1, <4>1 DEF ReplayInv
      <4>3. log'[i] = log[i]  BY <1>0, <2>3, <4>1
      <4>4. trace[i] \in Job /\ trace[i] # j  BY <1>1, <1>5, <4>1 DEF Numbers
      <4>5. given'[trace[i]] = given[trace[i]]  BY <1>6, <4>4 DEF ReplayInv
      <4>. QED  BY <1>1, <4>2, <4>3, <4>5
    <3>. QED  BY <3>2, <3>3
  <2>6. nextId' \in 1..(sent' + 1) /\ DOMAIN given' = Job  BY <1>4, <1>6 DEF ReplayInv
  <2>. QED  BY <1>1, <1>2, <1>4, <2>3, <2>4, <2>5, <2>6 DEF ReplayInv
<1>7. ASSUME nextId' \in {nextId, nextId + 1}, UNCHANGED <<given, log>>
      PROVE  ReplayInv'
  <2>1. nextId' \in 1..(sent' + 1) /\ nextId' >= nextId /\ nextId' \in Nat  BY <1>4, <1>7
  <2>2. \A id \in Job : log'[id].state # "silent" => id < nextId'
    <3>1. \A id \in Job : id \in Nat  BY <1>0
    <3>. QED  BY <1>4, <1>7, <2>1, <3>1 DEF ReplayInv
  <2>3. ASSUME nextId' = sent' + 1, NEW i \in 1..sent'
        PROVE  given'[trace'[i]] = i \/ log'[i].state = "silent"
    <3>1. nextId = sent + 1  BY <1>4, <1>7, <2>3
    <3>2. CASE i = sent + 1
      <4>1. log[nextId].state = "silent"  BY <1>4 DEF ReplayInv
      <4>. QED  BY <1>7, <3>1, <3>2, <4>1
    <3>3. CASE i # sent + 1
      <4>1. i \in 1..sent  BY <1>4, <3>3
      <4>. QED  BY <1>1, <1>7, <3>1, <4>1 DEF ReplayInv
    <3>. QED  BY <3>2, <3>3
  <2>. QED  BY <1>1, <1>2, <1>4, <1>7, <2>1, <2>2, <2>3 DEF ReplayInv
<1>. QED  BY <1>6, <1>7 DEF Submit

LEMMA RunKeeps ==
  ASSUME ReplayInv, NEW id \in Job, Run(id)
  PROVE  ReplayInv'
<1>1. /\ stage = "replay" /\ log[id].state = "submitted"
      /\ UNCHANGED <<stage, trace, expected, results, sent, nextId, given>>
  BY DEF Run, Replay, profile
<1>2. PICK nodes \in Allocation, wait \in Waits, state \in {"started", "completed", "timed_out"} :
        log' = [log EXCEPT ![id] = [state |-> state, wait |-> wait, nodes |-> nodes]]
  BY DEF Run
<1>3. log' \in [Job -> Lines] /\ \A k \in Job : log'[k].state = "silent" <=> log[k].state = "silent"
  BY <1>1, <1>2 DEF ReplayInv, Lines
<1>4. Numbers'  BY <1>1 DEF Numbers, ReplayInv
<1>5. \A i \in 1..sent : i \in Job
  <2>1. N \in Nat /\ Job = 1..N /\ sent \in 0..N  BY Constants DEF ReplayInv
  <2>. QED  BY <2>1
<1>. QED  BY <1>1, <1>3, <1>4, <1>5 DEF ReplayInv

LEMMA ReplayNext ==
  ASSUME PolicyInv, ReplayInv, [Next]_vars
  PROVE  ReplayInv'
<1>1. CASE Decide
  <2>1. UNCHANGED <<stage, trace, expected, sent, nextId, given, log, results>> /\ stage = "policy"
    BY <1>1 DEF Decide, replay
  <2>. QED  BY <2>1 DEF ReplayInv
<1>2. CASE Analyse
  <2>1. UNCHANGED <<trace, expected, sent, nextId, given, log>> /\ stage = "replay" /\ stage' = "results"
    BY <1>2 DEF Analyse, profile, replay
  <2>2. Numbers'  BY <2>1 DEF Numbers, ReplayInv
  <2>. QED  BY <1>2, <2>1, <2>2 DEF ReplayInv, Analyse
<1>3. CASE Price
  <2>1. /\ UNCHANGED <<trace, expected, sent, nextId, given, log, results>>
        /\ stage = "results" /\ stage' = "priced"
    BY <1>3 DEF Price, profile, replay
  <2>2. Numbers'  BY <2>1 DEF Numbers, ReplayInv
  <2>. QED  BY <2>1, <2>2 DEF ReplayInv
<1>4. CASE UNCHANGED vars
  <2>1. UNCHANGED <<stage, trace, expected, sent, nextId, given, log, results>>
    BY <1>4 DEF vars, profile, replay
  <2>. QED  BY <2>1 DEF ReplayInv, Numbers
<1>. QED  BY <1>1, <1>2, <1>3, <1>4, FinalizeKeeps, SubmitKeeps, RunKeeps DEF Next, Finished

\* If every row of job_results.csv is complete, each row is what the log shows of
\* the id that Slurm gave to its job, whatever submissions were refused.
THEOREM ResultsAreOfTheirJobs == Spec => []RowsMatch
<1>1. ASSUME ReplayInv PROVE RowsMatch
  <2>. SUFFICES ASSUME stage \in {"results", "priced"}, Complete, NEW j \in Job
                PROVE  expected[j] = given[j]
    BY DEF RowsMatch
  <2>1. N \in Nat /\ Job = 1..N  BY Constants
  <2>2. Numbers /\ results = [k \in Job |-> log[expected[k]]]  BY <1>1 DEF ReplayInv
  <2>3. ASSUME NEW i \in 1..N PROVE log[i].state = "completed"
    <3>1. trace[i] \in Job /\ expected[trace[i]] = i  BY <2>2 DEF Numbers
    <3>. QED  BY <2>2, <3>1 DEF Complete
  <2>4. nextId = sent + 1 /\ sent = N
    <3>1. N \in Job /\ N \in 1..N  BY <2>1
    <3>2. log[N].state # "silent"  BY <2>3, <3>1
    <3>3. N < nextId  BY <1>1, <3>1, <3>2 DEF ReplayInv
    <3>4. sent \in 0..N /\ nextId \in 1..(sent + 1)  BY <1>1 DEF ReplayInv
    <3>. QED  BY <2>1, <3>3, <3>4
  <2>5. PICK i \in 1..N : trace[i] = j  BY <2>2 DEF Numbers
  <2>6. given[trace[i]] = i  BY <1>1, <2>3, <2>4 DEF ReplayInv
  <2>7. expected[trace[i]] = i  BY <2>2 DEF Numbers
  <2>. QED  BY <2>5, <2>6, <2>7
<1>2. PolicyInv /\ ReplayInv /\ [Next]_vars => PolicyInv' /\ ReplayInv'  BY PolicyNext, ReplayNext
<1>. QED  BY PolicyInit, ReplayInit, <1>1, <1>2, PTL DEF Spec

-----------------------------------------------------------------------------
(* The horizon                                                              *)

\* What Price reads has its type.
Replayed ==
  /\ release \in [Job -> Nat]
  /\ \A j \in Job : results[j].wait \in Int /\ results[j].nodes \subseteq UNION Allocation

\* The horizon holds every job, and is not empty.
LEMMA Horizon ==
  ASSUME Replayed
  PROVE  /\ HorizonStart \in Int /\ HorizonEnd \in Int /\ HorizonStart < HorizonEnd
         /\ \A j \in Job : /\ From(j) \in Int /\ To(j) \in Int /\ From(j) < To(j)
                           /\ HorizonStart <= From(j) /\ To(j) <= HorizonEnd
<1>0. IsFiniteSet(Job) /\ Job # {} /\ HalfHour \in Nat \ {0} /\ Runtime \in [Job -> Nat \ {0}]
  BY StudyAssumption
<1>1. \A j \in Job : From(j) \in Int /\ To(j) \in Int /\ From(j) < To(j)
  BY <1>0 DEF Replayed, From, To, Larger
<1>. DEFINE F == {From(j) : j \in Job}
            T == {To(j) : j \in Job}
<1>2. IsFiniteSet(F) /\ F # {} /\ F \subseteq Int
  <2>1. IsFiniteSet(F)
    <3>. DEFINE g == [j \in Job |-> From(j)]
    <3>1. g \in Surjection(Job, F)  BY DEF Surjection
    <3>. QED  BY <1>0, <3>1, FS_Surjection
  <2>. QED  BY <1>0, <1>1, <2>1
<1>3. IsFiniteSet(T) /\ T # {} /\ T \subseteq Int
  <2>1. IsFiniteSet(T)
    <3>. DEFINE g == [j \in Job |-> To(j)]
    <3>1. g \in Surjection(Job, T)  BY DEF Surjection
    <3>. QED  BY <1>0, <3>1, FS_Surjection
  <2>. QED  BY <1>0, <1>1, <2>1
<1>4. \A j \in Job : From(j) \in F /\ To(j) \in T  OBVIOUS
<1>. HIDE DEF F, T
<1>5. Min(F) \in Int /\ Max(T) \in Int  BY <1>2, <1>3, MinMax
<1>6. \A j \in Job : Min(F) <= From(j) /\ To(j) <= Max(T)  BY <1>2, <1>3, <1>4, MinMax
<1>7. HorizonStart \in Int /\ HorizonStart <= Min(F)
  BY <1>0, <1>5, Floor DEF HorizonStart, F
<1>8. HorizonEnd \in Int /\ Max(T) <= HorizonEnd
  BY <1>0, <1>5, Ceiling DEF HorizonEnd, T
<1>9. \A j \in Job : HorizonStart <= From(j) /\ To(j) <= HorizonEnd
  BY <1>1, <1>5, <1>6, <1>7, <1>8
<1>10. PICK j \in Job : TRUE  BY <1>0
<1>11. HorizonStart < HorizonEnd  BY <1>1, <1>7, <1>8, <1>9, <1>10
<1>. QED  BY <1>1, <1>7, <1>8, <1>9, <1>11

-----------------------------------------------------------------------------
(* The fold of Busy: what the merged intervals measure                      *)

\* what the fold carries, the fold, and the recursion that it is
Acc == [sum : Int, from : Int, to : Int]
MergeF(base, q) == FoldLeft(Merge, base, q)
MergeAt(q, base, g, s) == IF s = {} THEN base ELSE Merge(g[s \ {Max(s)}], q[Max(s)])

\* h[k] is the value behind the k-th element
Merges(base, q, n, h) ==
  /\ h \in [0..n -> Acc] /\ h[0] = base /\ h[n] = MergeF(base, q)
  /\ \A k \in 1..n : h[k] = Merge(h[k - 1], q[k])

\* The values keep their type.
LEMMA MergeType ==
  ASSUME NEW acc \in Acc, NEW i \in Row PROVE Merge(acc, i) \in Acc
BY DEF Merge, Acc, Row, Larger

\* Merging goes from interval to interval.
LEMMA MergeSteps ==
  ASSUME NEW n \in Nat, NEW q \in [1..n -> Row], NEW base \in Acc
  PROVE  \E h : Merges(base, q, n, h)
<1>. DEFINE D == 1..n
            f == [p \in Acc \X D |-> Merge(p[1], q[p[2]])]
            g == CHOOSE g : g = [s \in SUBSET D |-> MergeAt(q, base, g, s)]
            h == [k \in 0..n |-> g[1..k]]
<1>1. \E e : e = [s \in SUBSET D |-> MergeAt(q, base, e, s)]
  <2>1. f \in [Acc \X D -> Acc]
    <3>1. ASSUME NEW p \in Acc \X D PROVE Merge(p[1], q[p[2]]) \in Acc
      <4>1. p[1] \in Acc /\ q[p[2]] \in Row  OBVIOUS
      <4>. QED  BY <4>1, MergeType
    <3>. QED  BY <3>1
  <2>2. PICK e : e = [s \in SUBSET D |-> Folding(f, base, e, s)] /\ \A s \in SUBSET D : e[s] \in Acc
    <3>. HIDE DEF f
    <3>1. f \in [Acc \X (1..n) -> Acc] /\ base \in Acc  BY <2>1
    <3>2. \E e : IsFolding(f, base, n, e) /\ \A s \in SUBSET (1..n) : e[s] \in Acc
      BY <3>1, FoldingExists
    <3>. QED  BY <3>2 DEF IsFolding
  <2>3. ASSUME NEW s \in SUBSET D PROVE Folding(f, base, e, s) = MergeAt(q, base, e, s)
    <3>1. CASE s = {}  BY <3>1 DEF Folding, MergeAt
    <3>2. CASE s # {}
      <4>1. Max(s) \in D /\ s \ {Max(s)} \in SUBSET D  BY <3>2, MaxIn
      <4>2. <<e[s \ {Max(s)}], Max(s)>> \in Acc \X D  BY <2>2, <4>1
      <4>3. f[<<e[s \ {Max(s)}], Max(s)>>] = Merge(e[s \ {Max(s)}], q[Max(s)])  BY <4>2
      <4>. QED  BY <3>2, <4>3 DEF Folding, MergeAt
    <3>. QED  BY <3>1, <3>2
  <2>4. e = [s \in SUBSET D |-> MergeAt(q, base, e, s)]
    <3>. HIDE DEF f
    <3>. QED  BY <2>2, <2>3
  <2>. QED  BY <2>4
<1>2. g = [s \in SUBSET D |-> MergeAt(q, base, g, s)]  BY <1>1
<1>3. MergeF(base, q) = g[D]
  BY DEF MergeF, FoldLeft, MapThenFoldSet, MergeAt
<1>. HIDE DEF g
<1>4. h[0] = base
  <2>1. 1..0 = {} /\ {} \in SUBSET D  OBVIOUS
  <2>2. g[{}] = base  BY <1>2, <2>1 DEF MergeAt
  <2>. QED  BY <2>1, <2>2
<1>5. ASSUME NEW k \in 1..n PROVE h[k] = Merge(h[k - 1], q[k])
  <2>1. g[1..k] = MergeAt(q, base, g, 1..k)  BY <1>2, Positions
  <2>2. g[1..k] = Merge(g[1..(k - 1)], q[k])  BY <2>1, Positions DEF MergeAt
  <2>. QED  BY <2>2
<1>6. h[n] = MergeF(base, q)  BY <1>3
<1>. HIDE DEF h
<1>7. h \in [0..n -> Acc]
  <2>. DEFINE P == {k \in Nat : k <= n => h[k] \in Acc}
  <2>1. 0 \in P  BY <1>4
  <2>2. ASSUME NEW k \in P PROVE k + 1 \in P
    <3>1. SUFFICES ASSUME k + 1 <= n PROVE h[k + 1] \in Acc  OBVIOUS
    <3>2. k + 1 \in 1..n /\ (k + 1) - 1 = k /\ h[k] \in Acc  BY <3>1
    <3>3. h[k + 1] = Merge(h[k], q[k + 1])  BY <1>5, <3>2
    <3>. QED  BY <3>2, <3>3, MergeType
  <2>. HIDE DEF P
  <2>3. P = Nat
    <3>1. P \in SUBSET Nat  BY DEF P
    <3>. QED  BY <2>1, <2>2, <3>1, Inductive
  <2>4. \A k \in 0..n : h[k] \in Acc  BY <2>3 DEF P
  <2>5. h = [k \in 0..n |-> h[k]]  BY DEF h
  <2>. QED  BY <2>4, <2>5
<1>8. Merges(base, q, n, h)  BY <1>4, <1>5, <1>6, <1>7 DEF Merges
<1>. QED  BY <1>8

\* The accumulator measures the instants met so far: those of the interval that
\* is still open are the last of them.
Measures(acc, U) ==
  /\ IsFiniteSet(U) /\ U \subseteq Int /\ Cardinality(U) = acc.sum + (acc.to - acc.from)
  /\ acc.from < acc.to /\ acc.from..(acc.to - 1) \subseteq U /\ \A t \in U : t < acc.to

\* One interval more, which does not begin before the open one.
LEMMA MergeMeasures ==
  ASSUME NEW acc \in Acc, NEW i \in Row, i.from < i.to, acc.from <= i.from, NEW U, Measures(acc, U)
  PROVE  Measures(Merge(acc, i), U \cup (i.from..(i.to - 1))) /\ Merge(acc, i).from <= i.from
<1>. DEFINE a == Merge(acc, i)
            V == U \cup (i.from..(i.to - 1))
<1>1. /\ acc.sum \in Int /\ acc.from \in Int /\ acc.to \in Int /\ i.from \in Int /\ i.to \in Int
      /\ Cardinality(U) \in Nat
  BY FS_CardinalityType DEF Acc, Row, Measures
<1>2. CASE i.from > acc.to
  <2>1. a = [sum |-> acc.sum + (acc.to - acc.from), from |-> i.from, to |-> i.to]
    BY <1>1, <1>2 DEF Merge
  <2>2. IsFiniteSet(i.from..(i.to - 1)) /\ Cardinality(i.from..(i.to - 1)) = i.to - i.from
    BY <1>1, Span
  <2>3. U \cap (i.from..(i.to - 1)) = {}
    <3>1. \A t \in U : t \in Int /\ t < acc.to  BY DEF Measures
    <3>. QED  BY <1>1, <1>2, <3>1
  <2>4. IsFiniteSet(V) /\ Cardinality(V) = Cardinality(U) + (i.to - i.from)
    BY <2>2, <2>3, DisjointUnion DEF Measures
  <2>5. \A t \in V : t \in Int /\ t < i.to
    <3>1. \A t \in U : t \in Int /\ t < acc.to  BY DEF Measures
    <3>. QED  BY <1>1, <1>2, <3>1
  <2>6. i.from..(i.to - 1) \subseteq V  OBVIOUS
  <2>7. Cardinality(U) = acc.sum + (acc.to - acc.from)  BY DEF Measures
  <2>8. a.sum = acc.sum + (acc.to - acc.from) /\ a.from = i.from /\ a.to = i.to  BY <2>1
  <2>. HIDE DEF V, a
  <2>9. a.sum + (a.to - a.from) = Cardinality(V)  BY <1>1, <2>4, <2>7, <2>8
  <2>10. Measures(a, V)  BY <1>1, <2>4, <2>5, <2>6, <2>8, <2>9 DEF Measures
  <2>11. a.from <= i.from  BY <1>1, <2>8
  <2>. QED  BY <2>10, <2>11 DEF V, a
<1>3. CASE i.from <= acc.to /\ i.to <= acc.to
  <2>1. a = [acc EXCEPT !.to = acc.to]  BY <1>1, <1>3 DEF Merge, Larger
  <2>2. a.sum = acc.sum /\ a.from = acc.from /\ a.to = acc.to  BY <2>1 DEF Acc
  <2>3. i.from..(i.to - 1) \subseteq acc.from..(acc.to - 1)  BY <1>1, <1>3
  <2>4. V = U  BY <2>3 DEF Measures
  <2>. QED  BY <2>2, <2>4 DEF Measures
<1>4. CASE i.from <= acc.to /\ i.to > acc.to
  <2>1. a = [acc EXCEPT !.to = i.to]  BY <1>1, <1>4 DEF Merge, Larger
  <2>2. a.sum = acc.sum /\ a.from = acc.from /\ a.to = i.to  BY <2>1 DEF Acc
  <2>. DEFINE T == acc.to..(i.to - 1)
  <2>3. V = U \cup T
    <3>1. i.from..(i.to - 1) \subseteq acc.from..(acc.to - 1) \cup T  BY <1>1, <1>4
    <3>2. T \subseteq i.from..(i.to - 1)  BY <1>1, <1>4
    <3>. QED  BY <3>1, <3>2 DEF Measures
  <2>4. IsFiniteSet(T) /\ Cardinality(T) = i.to - acc.to
    BY <1>1, <1>4, Span
  <2>5. U \cap T = {}
    <3>1. \A t \in U : t \in Int /\ t < acc.to  BY DEF Measures
    <3>. QED  BY <1>1, <3>1
  <2>6. \A t \in U \cup T : t \in Int /\ t < i.to
    <3>1. \A t \in U : t \in Int /\ t < acc.to  BY DEF Measures
    <3>. QED  BY <1>1, <1>4, <3>1
  <2>7. acc.from..(i.to - 1) \subseteq U \cup T
    <3>1. acc.from..(i.to - 1) \subseteq acc.from..(acc.to - 1) \cup T  BY <1>1
    <3>. QED  BY <3>1 DEF Measures
  <2>. HIDE DEF T
  <2>8. IsFiniteSet(U \cup T) /\ Cardinality(U \cup T) = Cardinality(U) + (i.to - acc.to)
    BY <2>4, <2>5, DisjointUnion DEF Measures
  <2>9. Cardinality(U) = acc.sum + (acc.to - acc.from) /\ acc.from < acc.to  BY DEF Measures
  <2>. HIDE DEF V, a
  <2>12. a.sum + (a.to - a.from) = Cardinality(U \cup T)  BY <1>1, <2>2, <2>8, <2>9
  <2>13. a.from < a.to  BY <1>1, <1>4, <2>2, <2>9
  <2>10. Measures(a, U \cup T)  BY <2>2, <2>6, <2>7, <2>8, <2>12, <2>13 DEF Measures
  <2>11. a.from <= i.from  BY <2>2
  <2>. QED  BY <2>3, <2>10, <2>11 DEF V, a
<1>. QED  BY <1>1, <1>2, <1>3, <1>4

\* the instants of the first m intervals
Until(q, m) == {t \in Int : \E i \in 1..m : q[i].from <= t /\ t < q[i].to}

\* The length of the merged intervals is the number of the instants in some of them.
LEMMA MergedIsUnion ==
  ASSUME NEW n \in Nat \ {0}, NEW q \in [1..n -> Row],
         \A i \in 1..n : q[i].from < q[i].to, \A i, k \in 1..n : i < k => q[i].from <= q[k].from,
         NEW last, last = MergeF([sum |-> 0, from |-> q[1].from, to |-> q[1].to], Tail(q))
  PROVE  IsFiniteSet(Until(q, n)) /\ last.sum + (last.to - last.from) = Cardinality(Until(q, n))
<1>. DEFINE base == [sum |-> 0, from |-> q[1].from, to |-> q[1].to]
<1>1. 1 \in 1..n /\ n - 1 \in Nat /\ \A i \in 1..n : q[i] \in Row /\ q[i].from \in Int /\ q[i].to \in Int
  BY DEF Row
<1>2. base \in Acc /\ base.sum = 0 /\ base.from = q[1].from /\ base.to = q[1].to  BY <1>1 DEF Acc
<1>3. Tail(q) \in [1..(n - 1) -> Row] /\ \A k \in 1..(n - 1) : Tail(q)[k] = q[k + 1]
  <2>1. q \in Seq(Row) /\ Len(q) = n /\ q # <<>>  OBVIOUS
  <2>2. Tail(q) \in Seq(Row) /\ Len(Tail(q)) = n - 1 /\ \A k \in 1..(n - 1) : Tail(q)[k] = q[k + 1]
    BY <1>1, <2>1
  <2>3. Tail(q) \in [1..(n - 1) -> Row]
    <3>. DEFINE rest == Tail(q)
    <3>1. rest \in Seq(Row) /\ Len(rest) = n - 1  BY <2>2
    <3>. HIDE DEF rest
    <3>2. rest \in [1..Len(rest) -> Row]  BY <3>1
    <3>. QED  BY <3>1, <3>2 DEF rest
  <2>. QED  BY <2>2, <2>3
<1>. HIDE DEF base
<1>4. PICK h \in [0..(n - 1) -> Acc] :
        /\ h[0] = base /\ h[n - 1] = MergeF(base, Tail(q))
        /\ \A k \in 1..(n - 1) : h[k] = Merge(h[k - 1], Tail(q)[k])
  <2>. DEFINE m == n - 1
              rest == Tail(q)
  <2>1. m \in Nat /\ rest \in [1..m -> Row]  BY <1>1, <1>3
  <2>. HIDE DEF m, rest
  <2>2. \E h : Merges(base, rest, m, h)  BY <1>2, <2>1, MergeSteps
  <2>. QED  BY <2>2 DEF m, rest, Merges
<1>. DEFINE Good(k) == Measures(h[k], Until(q, k + 1)) /\ h[k].from <= q[k + 1].from
            P == {k \in Nat : k <= n - 1 => Good(k)}
<1>5. Good(0)
  <2>1. Until(q, 0 + 1) = q[1].from..(q[1].to - 1)  BY <1>1 DEF Until
  <2>. DEFINE U == q[1].from..(q[1].to - 1)
  <2>2. IsFiniteSet(U) /\ Cardinality(U) = q[1].to - q[1].from
    <3>1. q[1].to \in Int /\ q[1].from \in Int /\ q[1].from < q[1].to  BY <1>1
    <3>. QED  BY <3>1, Span
  <2>3. \A t \in U : t \in Int /\ t < q[1].to  BY <1>1
  <2>. HIDE DEF U
  <2>4. Measures(base, U)  BY <1>1, <1>2, <2>2, <2>3 DEF Measures, U
  <2>. QED  BY <1>1, <1>2, <1>4, <2>1, <2>4 DEF U
<1>6. ASSUME NEW k \in P PROVE k + 1 \in P
  <2>1. SUFFICES ASSUME k + 1 <= n - 1 PROVE Good(k + 1)  OBVIOUS
  <2>2. /\ k + 1 \in 1..(n - 1) /\ (k + 1) - 1 = k /\ k \in 0..(n - 1)
        /\ k + 1 \in 1..n /\ k + 2 \in 1..n /\ (k + 1) + 1 = k + 2
    BY <2>1
  <2>3. Good(k)  BY <2>2
  <2>. DEFINE i == q[k + 2]
  <2>4. h[k + 1] = Merge(h[k], i)  BY <1>3, <1>4, <2>2
  <2>5. i \in Row /\ i.from < i.to /\ h[k] \in Acc /\ h[k].from <= i.from
    <3>1. q[k + 1].from <= i.from  BY <2>2
    <3>2. h[k] \in Acc /\ h[k].from \in Int /\ h[k].from <= q[k + 1].from  BY <2>2, <2>3 DEF Acc
    <3>3. q[k + 1].from \in Int /\ i.from \in Int  BY <1>1, <2>2
    <3>4. h[k].from <= i.from
      <4>. HIDE DEF i
      <4>. QED  BY <3>1, <3>2, <3>3
    <3>. QED  BY <1>1, <2>2, <3>2, <3>4
  <2>6. Until(q, k + 2) = Until(q, k + 1) \cup (i.from..(i.to - 1))
    <3>1. \A m : m \in 1..(k + 2) <=> m \in 1..(k + 1) \/ m = k + 2  BY <2>2
    <3>2. i.from \in Int /\ i.to \in Int  BY <1>1, <2>2
    <3>3. \A t \in Int : t \in Until(q, k + 2) <=> t \in Until(q, k + 1) \/ (i.from <= t /\ t < i.to)
      BY <3>1 DEF Until
    <3>4. Until(q, k + 2) \subseteq Int /\ Until(q, k + 1) \subseteq Int  BY DEF Until
    <3>. HIDE DEF i
    <3>. QED  BY <3>2, <3>3, <3>4
  <2>7. Measures(h[k + 1], Until(q, k + 2)) /\ h[k + 1].from <= i.from
    <3>. HIDE DEF i
    <3>. QED  BY <2>3, <2>4, <2>5, <2>6, MergeMeasures
  <2>. QED  BY <2>2, <2>7
<1>. HIDE DEF P
<1>7. n - 1 \in P /\ n - 1 <= n - 1
  <2>1. P \in SUBSET Nat /\ 0 \in P  BY <1>5 DEF P
  <2>2. P = Nat  BY <1>6, <2>1, Inductive
  <2>. QED  BY <1>1, <2>2
<1>8. Good(n - 1)  BY <1>7 DEF P
<1>9. (n - 1) + 1 = n /\ h[n - 1] = last  BY <1>1, <1>4 DEF base
<1>10. Measures(last, Until(q, n))  BY <1>8, <1>9
<1>. QED  BY <1>10 DEF Measures

-----------------------------------------------------------------------------
(* The fold of Covering: where the cursor gets to                           *)

\* what the fold carries, the fold, and the recursion that it is
Cursor == Int \cup {None}
AdvanceF(base, q) == FoldLeft(Advance, base, q)
AdvanceAt(q, base, g, s) == IF s = {} THEN base ELSE Advance(g[s \ {Max(s)}], q[Max(s)])

\* h[k] is the value behind the k-th element
Advances(base, q, n, h) ==
  /\ h \in [0..n -> Cursor] /\ h[0] = base /\ h[n] = AdvanceF(base, q)
  /\ \A k \in 1..n : h[k] = Advance(h[k - 1], q[k])

\* The values keep their type.
LEMMA AdvanceType ==
  ASSUME NEW acc \in Cursor, NEW i \in Row PROVE Advance(acc, i) \in Cursor
BY DEF Advance, Cursor, Row, Follows

\* The cursor goes from row to row.
LEMMA AdvanceSteps ==
  ASSUME NEW n \in Nat, NEW q \in [1..n -> Row], NEW base \in Cursor
  PROVE  \E h : Advances(base, q, n, h)
<1>. DEFINE D == 1..n
            f == [p \in Cursor \X D |-> Advance(p[1], q[p[2]])]
            g == CHOOSE g : g = [s \in SUBSET D |-> AdvanceAt(q, base, g, s)]
            h == [k \in 0..n |-> g[1..k]]
<1>1. \E e : e = [s \in SUBSET D |-> AdvanceAt(q, base, e, s)]
  <2>1. f \in [Cursor \X D -> Cursor]
    <3>1. ASSUME NEW p \in Cursor \X D PROVE Advance(p[1], q[p[2]]) \in Cursor
      <4>1. p[1] \in Cursor /\ q[p[2]] \in Row  OBVIOUS
      <4>. QED  BY <4>1, AdvanceType
    <3>. QED  BY <3>1
  <2>2. PICK e : e = [s \in SUBSET D |-> Folding(f, base, e, s)] /\ \A s \in SUBSET D : e[s] \in Cursor
    <3>. HIDE DEF f
    <3>1. f \in [Cursor \X (1..n) -> Cursor] /\ base \in Cursor  BY <2>1
    <3>2. \E e : IsFolding(f, base, n, e) /\ \A s \in SUBSET (1..n) : e[s] \in Cursor
      BY <3>1, FoldingExists
    <3>. QED  BY <3>2 DEF IsFolding
  <2>3. ASSUME NEW s \in SUBSET D PROVE Folding(f, base, e, s) = AdvanceAt(q, base, e, s)
    <3>1. CASE s = {}  BY <3>1 DEF Folding, AdvanceAt
    <3>2. CASE s # {}
      <4>1. Max(s) \in D /\ s \ {Max(s)} \in SUBSET D  BY <3>2, MaxIn
      <4>2. <<e[s \ {Max(s)}], Max(s)>> \in Cursor \X D  BY <2>2, <4>1
      <4>3. f[<<e[s \ {Max(s)}], Max(s)>>] = Advance(e[s \ {Max(s)}], q[Max(s)])  BY <4>2
      <4>. QED  BY <3>2, <4>3 DEF Folding, AdvanceAt
    <3>. QED  BY <3>1, <3>2
  <2>4. e = [s \in SUBSET D |-> AdvanceAt(q, base, e, s)]
    <3>. HIDE DEF f
    <3>. QED  BY <2>2, <2>3
  <2>. QED  BY <2>4
<1>2. g = [s \in SUBSET D |-> AdvanceAt(q, base, g, s)]  BY <1>1
<1>3. AdvanceF(base, q) = g[D]
  BY DEF AdvanceF, FoldLeft, MapThenFoldSet, AdvanceAt
<1>. HIDE DEF g
<1>4. h[0] = base
  <2>1. 1..0 = {} /\ {} \in SUBSET D  OBVIOUS
  <2>2. g[{}] = base  BY <1>2, <2>1 DEF AdvanceAt
  <2>. QED  BY <2>1, <2>2
<1>5. ASSUME NEW k \in 1..n PROVE h[k] = Advance(h[k - 1], q[k])
  <2>1. g[1..k] = AdvanceAt(q, base, g, 1..k)  BY <1>2, Positions
  <2>2. g[1..k] = Advance(g[1..(k - 1)], q[k])  BY <2>1, Positions DEF AdvanceAt
  <2>. QED  BY <2>2
<1>6. h[n] = AdvanceF(base, q)  BY <1>3
<1>. HIDE DEF h
<1>7. h \in [0..n -> Cursor]
  <2>. DEFINE P == {k \in Nat : k <= n => h[k] \in Cursor}
  <2>1. 0 \in P  BY <1>4
  <2>2. ASSUME NEW k \in P PROVE k + 1 \in P
    <3>1. SUFFICES ASSUME k + 1 <= n PROVE h[k + 1] \in Cursor  OBVIOUS
    <3>2. k + 1 \in 1..n /\ (k + 1) - 1 = k /\ h[k] \in Cursor  BY <3>1
    <3>3. h[k + 1] = Advance(h[k], q[k + 1])  BY <1>5, <3>2
    <3>. QED  BY <3>2, <3>3, AdvanceType
  <2>. HIDE DEF P
  <2>3. P = Nat
    <3>1. P \in SUBSET Nat  BY DEF P
    <3>. QED  BY <2>1, <2>2, <3>1, Inductive
  <2>4. \A k \in 0..n : h[k] \in Cursor  BY <2>3 DEF P
  <2>5. h = [k \in 0..n |-> h[k]]  BY DEF h
  <2>. QED  BY <2>4, <2>5
<1>8. Advances(base, q, n, h)  BY <1>4, <1>5, <1>6, <1>7 DEF Advances
<1>. QED  BY <1>8

\* instants of a row
In(t, row) == row.from <= t /\ t < row.to

\* rows in the order of their beginning, in start .. end
InRow(c, n, start, end) ==
  /\ \A i, k \in 1..n : i < k => c[i].from <= c[k].from
  /\ \A k \in 1..n : start <= c[k].from /\ c[k].to <= end

\* no row is empty, and every instant is in one
Once(c, n, start, end) ==
  /\ \A k \in 1..n : c[k].from < c[k].to
  /\ \A t \in start..(end - 1) : \E k \in 1..n : In(t, c[k])
  /\ \A t \in start..(end - 1) : \A i, k \in 1..n : In(t, c[i]) /\ In(t, c[k]) => i = k

\* A cursor that gets to the end has met every instant, each in one row.
LEMMA ChainCovers ==
  ASSUME NEW n \in Nat, NEW c \in [1..n -> Row], NEW start \in Int, NEW end \in Int,
         NEW h, Advances(start, c, n, h), h[n] = end
  PROVE  Once(c, n, start, end)
<1>. h \in [0..n -> Cursor] /\ h[0] = start /\ \A k \in 1..n : h[k] = Advance(h[k - 1], c[k])
  BY DEF Advances
<1>0. None \notin Int  BY StudyAssumption
<1>1. \A m \in 0..n : h[n - m] \in Int
  <2>. DEFINE P == {m \in Nat : m <= n => h[n - m] \in Int}
  <2>1. 0 \in P  OBVIOUS
  <2>2. ASSUME NEW m \in P PROVE m + 1 \in P
    <3>1. SUFFICES ASSUME m + 1 <= n PROVE h[n - (m + 1)] \in Int  OBVIOUS
    <3>2. n - m \in 1..n /\ h[n - m] \in Int /\ (n - m) - 1 = n - (m + 1) /\ n - (m + 1) \in 0..n  BY <3>1
    <3>3. h[n - m] = Advance(h[(n - m) - 1], c[n - m])  BY <3>2
    <3>4. h[n - (m + 1)] # None  BY <1>0, <3>2, <3>3 DEF Advance
    <3>. QED  BY <3>2, <3>4 DEF Cursor
  <2>. HIDE DEF P
  <2>3. P = Nat
    <3>1. P \in SUBSET Nat  BY DEF P
    <3>. QED  BY <2>1, <2>2, <3>1, Inductive
  <2>4. \A m \in 0..n : m \in P  BY <2>3
  <2>. QED  BY <2>4 DEF P
<1>2. \A k \in 0..n : h[k] \in Int
  <2>1. SUFFICES ASSUME NEW k \in 0..n PROVE h[k] \in Int  OBVIOUS
  <2>2. n - k \in 0..n /\ n - (n - k) = k  OBVIOUS
  <2>. QED  BY <1>1, <2>2
<1>3. \A k \in 1..n : c[k].from = h[k - 1] /\ c[k].to = h[k] /\ h[k - 1] < h[k]
  <2>1. SUFFICES ASSUME NEW k \in 1..n PROVE c[k].from = h[k - 1] /\ c[k].to = h[k] /\ h[k - 1] < h[k]
    OBVIOUS
  <2>2. k \in 0..n /\ k - 1 \in 0..n  OBVIOUS
  <2>3. h[k] \in Int /\ h[k - 1] \in Int /\ h[k] = Advance(h[k - 1], c[k])  BY <1>2, <2>2
  <2>4. c[k].from \in Int /\ c[k].to \in Int  BY DEF Row
  <2>. QED  BY <1>0, <2>3, <2>4 DEF Advance, Follows
<1>4. \A k \in 0..n : \A i \in 0..n : i <= k => h[i] <= h[k]
  <2>. DEFINE P == {k \in Nat : k <= n => \A i \in 0..n : i <= k => h[i] <= h[k]}
  <2>1. 0 \in P  BY <1>2
  <2>2. ASSUME NEW k \in P PROVE k + 1 \in P
    <3>1. SUFFICES ASSUME k + 1 <= n, NEW i \in 0..n, i <= k + 1 PROVE h[i] <= h[k + 1]  OBVIOUS
    <3>2. k + 1 \in 1..n /\ k + 1 \in 0..n /\ k \in 0..n /\ (k + 1) - 1 = k  BY <3>1
    <3>3. h[k] < h[k + 1] /\ h[k] \in Int /\ h[k + 1] \in Int /\ h[i] \in Int  BY <1>2, <1>3, <3>2
    <3>4. i <= k => h[i] <= h[k]  BY <3>2
    <3>5. i <= k \/ i = k + 1  BY <3>1
    <3>. QED  BY <3>3, <3>4, <3>5
  <2>. HIDE DEF P
  <2>3. P = Nat
    <3>1. P \in SUBSET Nat  BY DEF P
    <3>. QED  BY <2>1, <2>2, <3>1, Inductive
  <2>4. \A k \in 0..n : k \in P /\ k <= n  BY <2>3
  <2>. QED  BY <2>4 DEF P
<1>5. ASSUME NEW t \in start..(end - 1) PROVE \E k \in 1..n : In(t, c[k])
  <2>. DEFINE S == {k \in 0..n : h[k] > t}
  <2>1. S \in SUBSET Nat /\ n \in S  OBVIOUS
  <2>2. PICK k \in S : \A m \in S : k <= m
    <3>. HIDE DEF S
    <3>. QED  BY <2>1, LeastNatural
  <2>3. k \in 1..n /\ k - 1 \in 0..n /\ k - 1 \notin S  BY <2>2
  <2>4. h[k - 1] <= t /\ t < h[k]  BY <1>2, <2>2, <2>3
  <2>. QED  BY <1>3, <2>3, <2>4 DEF In
<1>6. ASSUME NEW t \in start..(end - 1), NEW i \in 1..n, NEW k \in 1..n, In(t, c[i]), In(t, c[k]), i < k PROVE FALSE
  <2>1. i \in 0..n /\ k - 1 \in 0..n /\ i <= k - 1  BY <1>6
  <2>2. h[i] <= h[k - 1] /\ h[i] \in Int /\ h[k - 1] \in Int  BY <1>2, <1>4, <2>1
  <2>3. t < h[i] /\ h[k - 1] <= t  BY <1>3, <1>6 DEF In
  <2>. QED  BY <2>2, <2>3
<1>7. ASSUME NEW t \in start..(end - 1), NEW i \in 1..n, NEW k \in 1..n, In(t, c[i]), In(t, c[k]) PROVE i = k
  <2>1. ~(i < k) /\ ~(k < i)  BY <1>6, <1>7
  <2>. QED  BY <2>1
<1>8. \A k \in 1..n : c[k].from < c[k].to
  <2>1. SUFFICES ASSUME NEW k \in 1..n PROVE c[k].from < c[k].to  OBVIOUS
  <2>. QED  BY <1>3
<1>. QED  BY <1>5, <1>7, <1>8 DEF Once

\* If every instant is in one row, the cursor gets to the end.
LEMMA CoverChains ==
  ASSUME NEW n \in Nat, NEW c \in [1..n -> Row], NEW start \in Int, NEW end \in Int, start <= end,
         NEW h, Advances(start, c, n, h), InRow(c, n, start, end), Once(c, n, start, end)
  PROVE  h[n] = end
<1>. h \in [0..n -> Cursor] /\ h[0] = start /\ \A k \in 1..n : h[k] = Advance(h[k - 1], c[k])
  BY DEF Advances
<1>. \A i, k \in 1..n : i < k => c[i].from <= c[k].from
  BY DEF InRow
<1>. \A k \in 1..n : start <= c[k].from /\ c[k].to <= end /\ c[k].from < c[k].to
  BY DEF InRow, Once
<1>. /\ \A t \in start..(end - 1) : \E k \in 1..n : In(t, c[k])
     /\ \A t \in start..(end - 1) : \A i, k \in 1..n : In(t, c[i]) /\ In(t, c[k]) => i = k
  BY DEF Once
<1>0. None \notin Int /\ \A k \in 1..n : c[k].from \in Int /\ c[k].to \in Int  BY StudyAssumption DEF Row
<1>. DEFINE Good(k) == /\ h[k] \in start..end
                       /\ \A i \in 1..k : c[i].to <= h[k]
                       /\ \A t \in start..(h[k] - 1) : \E i \in 1..k : In(t, c[i])
            P == {k \in Nat : k <= n => Good(k)}
<1>1. 0 \in P  BY <1>0
<1>2. ASSUME NEW k \in P PROVE k + 1 \in P
  <2>1. SUFFICES ASSUME k + 1 <= n PROVE Good(k + 1)  OBVIOUS
  <2>. DEFINE m == k + 1
  <2>2. m \in 1..n /\ m - 1 = k /\ m \in Nat /\ k \in Nat /\ k < m /\ Good(k)  BY <2>1
  <2>. HIDE DEF m
  <2>02. h[k] \in start..end /\ \A i \in 1..k : c[i].to <= h[k]  BY <2>2
  <2>03. \A t \in start..(h[k] - 1) : \E i \in 1..k : In(t, c[i])  BY <2>2
  <2>04. c[m].from \in Int /\ c[m].to \in Int /\ h[k] \in Int  BY <1>0, <2>2, <2>02
  <2>3. c[m].from \in start..(end - 1) /\ In(c[m].from, c[m])  BY <1>0, <2>2 DEF In
  <2>4. h[k] <= c[m].from
    <3>1. SUFFICES ASSUME c[m].from < h[k] PROVE FALSE  BY <1>0, <2>2
    <3>. DEFINE t == c[m].from
    <3>02. t \in start..(h[k] - 1)  BY <2>3, <2>04, <3>1
    <3>. HIDE DEF t
    <3>03. \E i \in 1..k : In(t, c[i])  BY <2>03, <3>02
    <3>2. PICK i \in 1..k : In(c[m].from, c[i])  BY <3>03 DEF t
    <3>3. i \in 1..n /\ i # m  BY <2>1, <2>2
    <3>. QED  BY <2>2, <2>3, <3>2, <3>3
  <2>5. c[m].from <= h[k]
    <3>1. SUFFICES ASSUME h[k] < c[m].from PROVE FALSE  BY <1>0, <2>2
    <3>2. h[k] \in start..(end - 1)  BY <2>2, <2>3, <3>1
    <3>3. PICK i \in 1..n : In(h[k], c[i])  BY <3>2
    <3>4. ~(i <= k)
      <4>1. i <= k => i \in 1..k  OBVIOUS
      <4>2. i \in 1..k => c[i].to <= h[k]  BY <2>2
      <4>. QED  BY <1>0, <3>2, <3>3, <4>1, <4>2 DEF In
    <3>5. m <= i  BY <2>2, <3>4
    <3>6. c[m].from <= c[i].from
      <4>1. m = i \/ m < i  BY <2>2, <3>5
      <4>2. m < i => c[m].from <= c[i].from  BY <2>2
      <4>3. c[i].from \in Int  BY <1>0
      <4>. QED  BY <2>04, <4>1, <4>2, <4>3
    <3>7. c[i].from <= h[k] /\ c[i].from \in Int  BY <1>0, <3>3 DEF In
    <3>. QED  BY <2>04, <3>1, <3>6, <3>7
  <2>6. h[k] = c[m].from /\ h[k] # None  BY <1>0, <2>2, <2>4, <2>5
  <2>7. h[m] = c[m].to  BY <1>0, <2>2, <2>6 DEF Advance, Follows
  <2>8. h[m] \in start..end /\ h[k] < h[m]  BY <1>0, <2>2, <2>6, <2>7
  <2>9. \A i \in 1..m : c[i].to <= h[m]
    <3>1. SUFFICES ASSUME NEW i \in 1..m PROVE c[i].to <= h[m]  OBVIOUS
    <3>2. i = m \/ i \in 1..k  BY <2>2
    <3>3. i \in 1..n  BY <2>2
    <3>4. c[i].to \in Int /\ h[m] \in Int  BY <1>0, <2>8, <3>3
    <3>5. i \in 1..k => c[i].to <= h[k]  BY <2>02
    <3>6. CASE i = m  BY <2>7, <3>4, <3>6
    <3>7. CASE i \in 1..k
      <4>1. c[i].to <= h[k] /\ h[k] < h[m]  BY <2>8, <3>5, <3>7
      <4>. QED  BY <2>04, <3>4, <4>1
    <3>. QED  BY <3>2, <3>6, <3>7
  <2>10. \A t \in start..(h[m] - 1) : \E i \in 1..m : In(t, c[i])
    <3>1. SUFFICES ASSUME NEW t \in start..(h[m] - 1) PROVE \E i \in 1..m : In(t, c[i])  OBVIOUS
    <3>2. CASE t < h[k]
      <4>1. t \in start..(h[k] - 1)  BY <2>04, <3>2
      <4>2. PICK i \in 1..k : In(t, c[i])  BY <2>03, <4>1
      <4>3. i \in 1..m  BY <2>2
      <4>. QED  BY <4>2, <4>3
    <3>3. CASE h[k] <= t
      <4>1. m \in 1..m /\ In(t, c[m])  BY <1>0, <2>2, <2>6, <2>7, <2>8, <3>3 DEF In
      <4>. QED  BY <4>1
    <3>. QED  BY <2>2, <2>8, <3>2, <3>3
  <2>. QED  BY <2>8, <2>9, <2>10 DEF m
<1>. HIDE DEF P
<1>3. Good(n)
  <2>1. P \in SUBSET Nat  BY DEF P
  <2>2. P = Nat  BY <1>1, <1>2, <2>1, Inductive
  <2>3. n \in P /\ n <= n  BY <2>2
  <2>. QED  BY <2>3 DEF P
<1>4. SUFFICES ASSUME h[n] < end PROVE FALSE  BY <1>3
<1>5. h[n] \in start..(end - 1)  BY <1>3, <1>4
<1>6. PICK i \in 1..n : In(h[n], c[i])  BY <1>5
<1>. QED  BY <1>0, <1>3, <1>5, <1>6 DEF In

-----------------------------------------------------------------------------
(* The relevant rows                                                        *)

\* the rows that meet the horizon, and their order, as Relevant takes them
Meeting(table) == {i \in DOMAIN table : table[i].to > HorizonStart /\ table[i].from < HorizonEnd}
Before(table, i, k) == table[i].from < table[k].from \/ (table[i].from = table[k].from /\ i < k)
Order(table) ==
  CHOOSE order \in [1..Cardinality(Meeting(table)) -> Meeting(table)] :
    \A i, k \in DOMAIN order : i < k => Before(table, order[i], order[k])

\* place[k] is the row of the table that is the k-th of Relevant
Places(table, n, place) ==
  /\ n \in Nat /\ place \in [1..n -> Meeting(table)]
  /\ \A i, k \in 1..n : place[i] = place[k] => i = k
  /\ \A x \in Meeting(table) : \E i \in 1..n : place[i] = x
  /\ \A i, k \in 1..n : i < k => table[place[i]].from <= table[place[k]].from
  /\ Relevant(table) = [i \in 1..n |-> Clip(table[place[i]], HorizonStart, HorizonEnd)]

\* The rows of a table are of integers.
LEMMA RowsOf ==
  ASSUME NEW table \in Seq(Row)
  PROVE  /\ DOMAIN table = 1..Len(table) /\ Len(table) \in Nat
         /\ \A i \in DOMAIN table : table[i] \in Row /\ table[i].from \in Int /\ table[i].to \in Int
<1>1. DOMAIN table = 1..Len(table) /\ Len(table) \in Nat /\ \A i \in DOMAIN table : table[i] \in Row
  OBVIOUS
<1>2. \A r \in Row : r.from \in Int /\ r.to \in Int  BY DEF Row
<1>. QED  BY <1>1, <1>2

\* The relevant rows are those that meet the horizon, each once and in order.
LEMMA PlacesExist ==
  ASSUME NEW table \in Seq(Row)
  PROVE  \E n, place : Places(table, n, place)
<1>. DEFINE S == Meeting(table)
            R == {p \in S \X S : Before(table, p[1], p[2])}
            n == Cardinality(S)
            place == Order(table)
<1>1. \A i \in S : i \in DOMAIN table /\ i \in Int /\ table[i].from \in Int
  BY RowsOf DEF Meeting
<1>2. IsFiniteSet(S) /\ n \in Nat
  <2>1. IsFiniteSet(DOMAIN table)  BY RowsOf, FS_Interval
  <2>2. S \in SUBSET DOMAIN table  BY DEF Meeting
  <2>. HIDE DEF S
  <2>. QED  BY <2>1, <2>2, FS_Subset, FS_CardinalityType
<1>3. Relevant(table) = [i \in DOMAIN place |-> Clip(table[place[i]], HorizonStart, HorizonEnd)]
  BY DEF Relevant, Order, Meeting, Before, Sorted
<1>. HIDE DEF S
<1>4. \A i, k \in S : <<i, k>> \in R <=> Before(table, i, k)  OBVIOUS
<1>. HIDE DEF R
<1>5. Orders(R, S)  BY <1>1, <1>4 DEF Orders, Before
<1>6. PICK q : SortedBy(q, R, S)  BY <1>2, <1>5, OrderExists
<1>7. q \in [1..n -> S] /\ \A i, k \in 1..n : i < k => Before(table, q[i], q[k])
  BY <1>4, <1>6 DEF SortedBy
<1>8. place \in [1..n -> S] /\ \A i, k \in DOMAIN place : i < k => Before(table, place[i], place[k])
  BY <1>7 DEF Order, S, n
<1>. HIDE DEF place, n
<1>9. DOMAIN place = 1..n /\ \A i \in 1..n : place[i] \in S  BY <1>8
<1>10. SortedBy(place, R, S)  BY <1>4, <1>8, <1>9 DEF SortedBy, n
<1>11. /\ \A i, k \in 1..n : place[i] = place[k] => i = k
       /\ \A x \in S : \E i \in 1..n : place[i] = x
  BY <1>2, <1>5, <1>10, SortedHoldsAll DEF n
<1>12. \A i, k \in 1..n : i < k => table[place[i]].from <= table[place[k]].from
  BY <1>1, <1>8, <1>9 DEF Before
<1>13. Places(table, n, place)
  BY <1>2, <1>3, <1>8, <1>9, <1>11, <1>12 DEF Places, S
<1>. QED  BY <1>13

\* Cut to the horizon, the rows stay in order, and meet the same instants of it.
LEMMA RelevantRows ==
  ASSUME Replayed, NEW table \in Seq(Row), NEW n, NEW place, Places(table, n, place)
  PROVE  /\ n \in Nat /\ Relevant(table) \in [1..n -> Row]
         /\ \A i, k \in 1..n : i < k => Relevant(table)[i].from <= Relevant(table)[k].from
         /\ \A k \in 1..n : HorizonStart <= Relevant(table)[k].from /\ Relevant(table)[k].to <= HorizonEnd
         /\ \A t \in HorizonStart..(HorizonEnd - 1) : \A k \in 1..n :
              In(t, Relevant(table)[k]) <=> In(t, table[place[k]])
<1>. DEFINE c == Relevant(table)
            a == HorizonStart
            b == HorizonEnd
<1>1. n \in Nat /\ c = [i \in 1..n |-> Clip(table[place[i]], a, b)] /\ a \in Int /\ b \in Int
  BY Horizon DEF Places
<1>2. \A k \in 1..n : table[place[k]].from \in Int /\ table[place[k]].to \in Int
  BY RowsOf DEF Places, Meeting
<1>. HIDE DEF c, a, b
<1>3. \A k \in 1..n : c[k] = [from |-> Larger(table[place[k]].from, a), to |-> Smaller(table[place[k]].to, b)]
  BY <1>1 DEF Clip
<1>4. \A k \in 1..n : c[k].from = Larger(table[place[k]].from, a) /\ c[k].to = Smaller(table[place[k]].to, b)
  <2>1. SUFFICES ASSUME NEW k \in 1..n
                 PROVE  c[k].from = Larger(table[place[k]].from, a) /\ c[k].to = Smaller(table[place[k]].to, b)
    OBVIOUS
  <2>2. c[k] = [from |-> Larger(table[place[k]].from, a), to |-> Smaller(table[place[k]].to, b)]  BY <1>3
  <2>. QED  BY <2>2
<1>5. \A k \in 1..n : c[k].from \in Int /\ c[k].to \in Int
  BY <1>1, <1>2, <1>4 DEF Larger, Smaller
<1>6. c \in [1..n -> Row]
  <2>1. \A k \in 1..n : c[k] \in Row
    <3>1. SUFFICES ASSUME NEW k \in 1..n PROVE c[k] \in Row  OBVIOUS
    <3>2. c[k] = [from |-> c[k].from, to |-> c[k].to]  BY <1>3, <1>4
    <3>3. c[k].from \in Int /\ c[k].to \in Int  BY <1>5
    <3>. QED  BY <3>2, <3>3 DEF Row
  <2>2. c = [i \in 1..n |-> c[i]]  BY <1>1
  <2>. QED  BY <2>1, <2>2
<1>7. \A i, k \in 1..n : i < k => c[i].from <= c[k].from
  <2>1. SUFFICES ASSUME NEW i \in 1..n, NEW k \in 1..n, i < k PROVE c[i].from <= c[k].from  OBVIOUS
  <2>2. table[place[i]].from <= table[place[k]].from  BY <2>1 DEF Places
  <2>. QED  BY <1>1, <1>2, <1>4, <2>2 DEF Larger
<1>8. \A k \in 1..n : a <= c[k].from /\ c[k].to <= b
  <2>1. SUFFICES ASSUME NEW k \in 1..n PROVE a <= c[k].from /\ c[k].to <= b  OBVIOUS
  <2>2. c[k].from = Larger(table[place[k]].from, a) /\ c[k].to = Smaller(table[place[k]].to, b)  BY <1>4
  <2>3. table[place[k]].from \in Int /\ table[place[k]].to \in Int  BY <1>2
  <2>. QED  BY <1>1, <2>2, <2>3 DEF Larger, Smaller
<1>9. \A t \in a..(b - 1) : \A k \in 1..n : In(t, c[k]) <=> In(t, table[place[k]])
  BY <1>1, <1>2, <1>4 DEF Larger, Smaller, In
<1>. QED  BY <1>1, <1>6, <1>7, <1>8, <1>9 DEF a, b, c

\* An instant has one row of the table if it has one relevant row.
LEMMA OneRow ==
  ASSUME Replayed, NEW table \in Seq(Row), NEW n, NEW place, Places(table, n, place),
         NEW t \in HorizonStart..(HorizonEnd - 1)
  PROVE  Cardinality({i \in DOMAIN table : table[i].from <= t /\ t < table[i].to}) = 1
           <=> /\ \E k \in 1..n : In(t, Relevant(table)[k])
               /\ \A i, k \in 1..n : In(t, Relevant(table)[i]) /\ In(t, Relevant(table)[k]) => i = k
<1>. DEFINE S == {i \in DOMAIN table : table[i].from <= t /\ t < table[i].to}
<1>1. /\ n \in Nat /\ place \in [1..n -> Meeting(table)]
      /\ \A i, k \in 1..n : place[i] = place[k] => i = k
      /\ \A x \in Meeting(table) : \E i \in 1..n : place[i] = x
  BY DEF Places
<1>2. \A k \in 1..n : In(t, Relevant(table)[k]) <=> place[k] \in S
  <2>1. SUFFICES ASSUME NEW k \in 1..n PROVE In(t, Relevant(table)[k]) <=> place[k] \in S
    OBVIOUS
  <2>2. In(t, Relevant(table)[k]) <=> In(t, table[place[k]])  BY RelevantRows
  <2>3. place[k] \in DOMAIN table  BY <1>1 DEF Meeting
  <2>. QED  BY <2>2, <2>3 DEF In
<1>3. \A x \in S : x \in Meeting(table)
  <2>1. HorizonStart \in Int /\ HorizonEnd \in Int  BY Horizon
  <2>2. \A i \in DOMAIN table : table[i].from \in Int /\ table[i].to \in Int  BY RowsOf
  <2>. QED  BY <2>1, <2>2 DEF Meeting
<1>4. IsFiniteSet(S)
  <2>1. IsFiniteSet(DOMAIN table)  BY RowsOf, FS_Interval
  <2>2. S \in SUBSET DOMAIN table  OBVIOUS
  <2>. HIDE DEF S
  <2>. QED  BY <2>1, <2>2, FS_Subset
<1>. HIDE DEF S
<1>5. Cardinality(S) = 1 <=> \E x : S = {x}  BY <1>4, FS_Singleton
<1>6. (\E x : S = {x}) <=> /\ \E k \in 1..n : place[k] \in S
                           /\ \A i, k \in 1..n : place[i] \in S /\ place[k] \in S => i = k
  <2>1. ASSUME NEW x, S = {x}
        PROVE  /\ \E k \in 1..n : place[k] \in S
               /\ \A i, k \in 1..n : place[i] \in S /\ place[k] \in S => i = k
    BY <1>1, <1>3, <2>1
  <2>2. ASSUME NEW k \in 1..n, place[k] \in S, \A i, j \in 1..n : place[i] \in S /\ place[j] \in S => i = j
        PROVE  S = {place[k]}
    BY <1>1, <1>3, <2>2
  <2>. QED  BY <2>1, <2>2
<1>7. (\A i, k \in 1..n : place[i] \in S /\ place[k] \in S => i = k)
        <=> \A i, k \in 1..n : In(t, Relevant(table)[i]) /\ In(t, Relevant(table)[k]) => i = k
  BY <1>2
<1>8. (\E k \in 1..n : place[k] \in S) <=> \E k \in 1..n : In(t, Relevant(table)[k])  BY <1>2
<1>9. Cardinality(S) = 1
        <=> /\ \E k \in 1..n : In(t, Relevant(table)[k])
            /\ \A i, k \in 1..n : In(t, Relevant(table)[i]) /\ In(t, Relevant(table)[k]) => i = k
  BY <1>5, <1>6, <1>7, <1>8
<1>. QED  BY <1>9 DEF S

\* the instants t have a row each
RowAt(table, t) == Cardinality({i \in DOMAIN table : table[i].from <= t /\ t < table[i].to}) = 1
Whole(table) ==
  /\ \A t \in HorizonStart..(HorizonEnd - 1) : RowAt(table, t)
  /\ \A i \in DOMAIN Relevant(table) : Relevant(table)[i].from < Relevant(table)[i].to

\* The cursor of build_intervals gets to the end just if every instant has one row.
LEMMA CoveringIsWhole ==
  ASSUME Replayed, NEW table \in Seq(Row), NEW n, NEW place, Places(table, n, place)
  PROVE  /\ Covering(table) <=> Whole(table)
         /\ Covering(table) => Once(Relevant(table), n, HorizonStart, HorizonEnd)
<1>. DEFINE c == Relevant(table)
            a == HorizonStart
            b == HorizonEnd
<1>1. /\ n \in Nat /\ c \in [1..n -> Row] /\ DOMAIN c = 1..n
      /\ \A i, k \in 1..n : i < k => c[i].from <= c[k].from
      /\ \A k \in 1..n : a <= c[k].from /\ c[k].to <= b
  BY RelevantRows
<1>2. a \in Int /\ b \in Int /\ a <= b  BY Horizon
<1>3. \A t \in a..(b - 1) :
        RowAt(table, t) <=> /\ \E k \in 1..n : In(t, c[k])
                            /\ \A i, k \in 1..n : In(t, c[i]) /\ In(t, c[k]) => i = k
  BY OneRow DEF RowAt
<1>4. Covering(table) <=> AdvanceF(a, c) = b  BY DEF Covering, AdvanceF
<1>. HIDE DEF a, b, c
<1>5. PICK h : Advances(a, c, n, h)
  <2>1. a \in Cursor  BY <1>2 DEF Cursor
  <2>. QED  BY <1>1, <2>1, AdvanceSteps
<1>6. h[n] = AdvanceF(a, c)  BY <1>5 DEF Advances
<1>61. InRow(c, n, a, b)  BY <1>1 DEF InRow
<1>7. h[n] = b => Once(c, n, a, b)  BY <1>1, <1>2, <1>5, ChainCovers
<1>8. Once(c, n, a, b) => h[n] = b  BY <1>1, <1>2, <1>5, <1>61, CoverChains
<1>9. Whole(table) <=> Once(c, n, a, b)
  <2>1. Whole(table) <=> /\ \A t \in a..(b - 1) : RowAt(table, t)
                         /\ \A k \in 1..n : c[k].from < c[k].to
    BY <1>1 DEF Whole, a, b, c
  <2>2. (\A t \in a..(b - 1) : RowAt(table, t))
          <=> /\ \A t \in a..(b - 1) : \E k \in 1..n : In(t, c[k])
              /\ \A t \in a..(b - 1) : \A i, k \in 1..n : In(t, c[i]) /\ In(t, c[k]) => i = k
    BY <1>3
  <2>. QED  BY <2>1, <2>2 DEF Once
<1>10. (Covering(table) <=> Whole(table)) /\ (Covering(table) => Once(c, n, a, b))
  BY <1>4, <1>6, <1>7, <1>8, <1>9
<1>. QED  BY <1>10 DEF a, b, c

-----------------------------------------------------------------------------
(* The time of the nodes                                                    *)

\* jobs that had a node, and what of a job lies in a row
JobsOn(n) == {k \in Job : n \in results[k].nodes}
Piece(j, row) == Clip([from |-> From(j), to |-> To(j)], row.from, row.to)

\* the instants of a row at which a node has a job
Instants(n, row) == {t \in Int : In(t, row) /\ \E j \in JobsOn(n) : From(j) <= t /\ t < To(j)}

\* The intervals on a node meet the instants at which it has a job.
LEMMA Pieces ==
  ASSUME Replayed, NEW n, NEW row \in Row
  PROVE  /\ IsFiniteSet(OnNode(n, row)) /\ OnNode(n, row) \subseteq Row
         /\ \A i \in OnNode(n, row) : i.from < i.to
         /\ \A t \in Int : t \in Instants(n, row) <=> \E i \in OnNode(n, row) : In(t, i)
<1>. DEFINE S == OnNode(n, row)
            All == {Piece(j, row) : j \in JobsOn(n)}
<1>1. S = {i \in All : i.to > i.from}  BY DEF OnNode, Piece, JobsOn
<1>2. \A j \in JobsOn(n) : j \in Job /\ From(j) \in Int /\ To(j) \in Int
  BY Horizon DEF JobsOn
<1>3. row.from \in Int /\ row.to \in Int  BY DEF Row
<1>4. IsFiniteSet(JobsOn(n))
  <2>1. JobsOn(n) \in SUBSET Job  BY DEF JobsOn
  <2>. QED  BY <2>1, StudyAssumption, FS_Subset
<1>5. IsFiniteSet(All)
  <2>. DEFINE g == [j \in JobsOn(n) |-> Piece(j, row)]
  <2>1. g \in Surjection(JobsOn(n), All)  BY DEF Surjection
  <2>. QED  BY <1>4, <2>1, FS_Surjection
<1>6. \A j \in JobsOn(n) : /\ Piece(j, row) \in Row
                           /\ Piece(j, row).from = Larger(From(j), row.from)
                           /\ Piece(j, row).to = Smaller(To(j), row.to)
  <2>1. SUFFICES ASSUME NEW j \in JobsOn(n)
                 PROVE  /\ Piece(j, row) \in Row
                        /\ Piece(j, row).from = Larger(From(j), row.from)
                        /\ Piece(j, row).to = Smaller(To(j), row.to)
    OBVIOUS
  <2>2. Piece(j, row) = [from |-> Larger(From(j), row.from), to |-> Smaller(To(j), row.to)]
    BY DEF Piece, Clip
  <2>3. Larger(From(j), row.from) \in Int /\ Smaller(To(j), row.to) \in Int
    BY <1>2, <1>3 DEF Larger, Smaller
  <2>. QED  BY <2>2, <2>3 DEF Row
<1>7. \A x \in All : \E j \in JobsOn(n) : x = Piece(j, row)  OBVIOUS
<1>8. \A j \in JobsOn(n) : Piece(j, row) \in All  OBVIOUS
<1>. HIDE DEF S, All
<1>9. IsFiniteSet(S)
  <2>1. S \in SUBSET All  BY <1>1
  <2>. QED  BY <1>5, <2>1, FS_Subset
<1>10. S \subseteq Row /\ \A i \in S : i \in All /\ i.from < i.to
  <2>1. SUFFICES ASSUME NEW i \in S PROVE i \in Row /\ i \in All /\ i.from < i.to  OBVIOUS
  <2>2. i \in All /\ i.to > i.from  BY <1>1
  <2>3. i \in Row  BY <1>6, <1>7, <2>2
  <2>4. i.from \in Int /\ i.to \in Int  BY <2>3 DEF Row
  <2>. QED  BY <2>2, <2>3, <2>4
<1>11. ASSUME NEW t \in Int
       PROVE  t \in Instants(n, row) <=> \E i \in S : In(t, i)
  <2>1. \A j \in JobsOn(n) : In(t, Piece(j, row)) <=> In(t, row) /\ From(j) <= t /\ t < To(j)
    <3>1. SUFFICES ASSUME NEW j \in JobsOn(n)
                   PROVE  In(t, Piece(j, row)) <=> In(t, row) /\ From(j) <= t /\ t < To(j)
      OBVIOUS
    <3>2. Piece(j, row).from = Larger(From(j), row.from) /\ Piece(j, row).to = Smaller(To(j), row.to)
      BY <1>6
    <3>3. From(j) \in Int /\ To(j) \in Int  BY <1>2
    <3>. QED  BY <1>3, <3>2, <3>3 DEF In, Larger, Smaller
  <2>2. ASSUME t \in Instants(n, row) PROVE \E i \in S : In(t, i)
    <3>1. PICK j \in JobsOn(n) : In(t, row) /\ From(j) <= t /\ t < To(j)  BY <2>2 DEF Instants
    <3>2. In(t, Piece(j, row)) /\ Piece(j, row) \in All /\ Piece(j, row) \in Row  BY <1>6, <1>8, <2>1, <3>1
    <3>3. Piece(j, row).from \in Int /\ Piece(j, row).to \in Int  BY <3>2 DEF Row
    <3>4. Piece(j, row).to > Piece(j, row).from  BY <3>2, <3>3 DEF In
    <3>. QED  BY <1>1, <3>2, <3>4
  <2>3. ASSUME NEW i \in S, In(t, i) PROVE t \in Instants(n, row)
    <3>1. PICK j \in JobsOn(n) : i = Piece(j, row)  BY <1>7, <1>10
    <3>. QED  BY <2>1, <2>3, <3>1 DEF Instants
  <2>. QED  BY <2>2, <2>3
<1>. QED  BY <1>9, <1>10, <1>11 DEF S

\* The time of a row for which a node has some job, whatever jobs overlap on it.
LEMMA BusyIs ==
  ASSUME Replayed, NEW n, NEW row \in Row
  PROVE  IsFiniteSet(Instants(n, row)) /\ Busy(n, row) = Cardinality(Instants(n, row))
<1>. DEFINE S == OnNode(n, row)
            R == {p \in S \X S : Sooner(p[1], p[2])}
            m == Cardinality(S)
            q == Sorted(S, Sooner)
            last == MergeF([sum |-> 0, from |-> q[1].from, to |-> q[1].to], Tail(q))
<1>1. /\ IsFiniteSet(S) /\ S \subseteq Row /\ m \in Nat /\ (m = 0 <=> S = {})
      /\ \A i \in S : i.from < i.to /\ i.from \in Int /\ i.to \in Int
  <2>1. IsFiniteSet(S) /\ S \subseteq Row /\ \A i \in S : i.from < i.to  BY Pieces
  <2>2. \A i \in S : i.from \in Int /\ i.to \in Int
    <3>. HIDE DEF S
    <3>. QED  BY <2>1 DEF Row
  <2>. HIDE DEF S
  <2>. QED  BY <2>1, <2>2, FS_CardinalityType, FS_EmptySet
<1>2. Instants(n, row) \subseteq Int  BY DEF Instants
<1>3. \A t \in Int : t \in Instants(n, row) <=> \E i \in S : In(t, i)  BY Pieces
<1>4. CASE S = {}
  <2>1. Busy(n, row) = 0  BY <1>4 DEF Busy
  <2>2. Instants(n, row) = {}
    <3>. HIDE DEF S
    <3>. QED  BY <1>2, <1>3, <1>4
  <2>. QED  BY <2>1, <2>2, FS_EmptySet
<1>5. CASE S # {}
  <2>1. Busy(n, row) = last.sum + (last.to - last.from)  BY <1>5 DEF Busy, MergeF
  <2>. HIDE DEF S, last
  <2>2. \A a, b \in S : <<a, b>> \in R <=> Sooner(a, b)  OBVIOUS
  <2>. HIDE DEF R
  <2>3. \A a, b \in S : a.from = b.from /\ a.to = b.to => a = b
    <3>1. \A a \in S : a \in [from : Int, to : Int]  BY <1>1 DEF Row
    <3>. QED  BY <3>1
  <2>4. Orders(R, S)
    <3>1. \A a \in S : ~Sooner(a, a)  BY <1>1 DEF Sooner
    <3>2. \A a, b \in S : a # b => Sooner(a, b) \/ Sooner(b, a)  BY <1>1, <2>3 DEF Sooner
    <3>3. \A a, b, c \in S : Sooner(a, b) /\ Sooner(b, c) => Sooner(a, c)  BY <1>1 DEF Sooner
    <3>. QED  BY <2>2, <3>1, <3>2, <3>3 DEF Orders
  <2>5. PICK e : SortedBy(e, R, S)  BY <1>1, <2>4, OrderExists
  <2>6. e \in [1..m -> S] /\ \A i, k \in 1..m : i < k => Sooner(e[i], e[k])
    BY <2>2, <2>5 DEF SortedBy
  <2>7. q \in [1..m -> S] /\ \A i, k \in DOMAIN q : i < k => Sooner(q[i], q[k])
    BY <2>6 DEF Sorted
  <2>. HIDE DEF q
  <2>8. DOMAIN q = 1..m /\ \A i \in 1..m : q[i] \in S  BY <2>7
  <2>9. SortedBy(q, R, S)  BY <2>2, <2>7, <2>8 DEF SortedBy
  <2>10. \A x \in S : \E i \in 1..m : q[i] = x  BY <1>1, <2>4, <2>9, SortedHoldsAll
  <2>. HIDE DEF m
  <2>11. /\ m \in Nat \ {0} /\ q \in [1..m -> Row]
         /\ \A i \in 1..m : q[i].from < q[i].to
         /\ \A i, k \in 1..m : i < k => q[i].from <= q[k].from
    BY <1>1, <1>5, <2>7, <2>8 DEF Sooner
  <2>12. IsFiniteSet(Until(q, m)) /\ last.sum + (last.to - last.from) = Cardinality(Until(q, m))
    BY <2>11, MergedIsUnion DEF last
  <2>13. Until(q, m) = Instants(n, row)
    <3>1. Until(q, m) \subseteq Int  BY DEF Until
    <3>2. \A t \in Int : t \in Until(q, m) <=> \E i \in 1..m : In(t, q[i])  BY DEF Until, In
    <3>3. \A t \in Int : t \in Until(q, m) <=> t \in Instants(n, row)
      <4>1. SUFFICES ASSUME NEW t \in Int
                     PROVE  (\E i \in 1..m : In(t, q[i])) <=> \E i \in S : In(t, i)
        BY <1>3, <3>2
      <4>. QED  BY <2>8, <2>10
    <3>. QED  BY <1>2, <3>1, <3>3
  <2>. QED  BY <2>1, <2>12, <2>13
<1>. QED  BY <1>4, <1>5

\* the nodes
Nodes == UNION Allocation

\* the instants of a row at which a node has a job, with the node
Uses(row) == {use \in Nodes \X Int : use[2] \in Instants(use[1], row)}

\* The occupation of a row is the number of its instants, counted per node.
LEMMA OccupiedIs ==
  ASSUME Replayed, NEW row \in Row
  PROVE  /\ IsFiniteSet(Uses(row)) /\ Occupied(row) = Cardinality(Uses(row)) /\ Occupied(row) \in Nat
<1>. DEFINE X == [n \in Nodes |-> {n} \X Instants(n, row)]
            f == [n \in Nodes |-> Busy(n, row)]
<1>0. IsFiniteSet(Nodes)  BY StudyAssumption DEF Nodes
<1>1. \A n \in Nodes : /\ IsFiniteSet(X[n]) /\ f[n] = Cardinality(X[n])
  <2>1. SUFFICES ASSUME NEW n \in Nodes PROVE IsFiniteSet(X[n]) /\ f[n] = Cardinality(X[n])  OBVIOUS
  <2>2. X[n] = {n} \X Instants(n, row) /\ f[n] = Busy(n, row)  OBVIOUS
  <2>3. IsFiniteSet(Instants(n, row)) /\ Busy(n, row) = Cardinality(Instants(n, row))  BY BusyIs
  <2>. DEFINE T == Instants(n, row)
  <2>. HIDE DEF T, X, f
  <2>4. IsFiniteSet({n} \X T) /\ Cardinality({n} \X T) = Cardinality(T)  BY <2>3, Tagged DEF T
  <2>. QED  BY <2>2, <2>3, <2>4 DEF T
<1>2. \A i, k \in Nodes : i # k => X[i] \cap X[k] = {}  OBVIOUS
<1>3. Parts(X, Nodes) = Uses(row)
  <2>1. \A use \in Parts(X, Nodes) : use \in Uses(row)
    <3>1. SUFFICES ASSUME NEW n \in Nodes, NEW use \in X[n] PROVE use \in Uses(row)  BY DEF Parts
    <3>2. PICK t \in Instants(n, row) : use = <<n, t>>  OBVIOUS
    <3>3. t \in Int  BY DEF Instants
    <3>. QED  BY <3>2, <3>3 DEF Uses
  <2>2. \A use \in Uses(row) : use \in Parts(X, Nodes)
    <3>1. SUFFICES ASSUME NEW use \in Uses(row) PROVE use \in Parts(X, Nodes)  OBVIOUS
    <3>2. use[1] \in Nodes /\ use[2] \in Instants(use[1], row) /\ use = <<use[1], use[2]>>  BY DEF Uses
    <3>3. use \in X[use[1]]  BY <3>2
    <3>. QED  BY <3>2, <3>3 DEF Parts
  <2>. QED  BY <2>1, <2>2
<1>4. Occupied(row) = Total(f, Nodes)  BY DEF Occupied, Nodes
<1>. HIDE DEF X, f
<1>5. IsFiniteSet(Parts(X, Nodes)) /\ Total(f, Nodes) = Cardinality(Parts(X, Nodes))
  BY <1>0, <1>1, <1>2, TotalOfParts
<1>. QED  BY <1>3, <1>4, <1>5, FS_CardinalityType

\* the node time of the jobs, over the whole horizon
AllUses == {use \in (UNION Allocation) \X (HorizonStart..(HorizonEnd - 1)) :
              \E j \in Job : /\ use[1] \in results[j].nodes
                             /\ From(j) <= use[2] /\ use[2] < To(j)}

\* Rows that hold every instant of the horizon once have all the node time together.
LEMMA RowsAddUp ==
  ASSUME Replayed, NEW n \in Nat, NEW c \in [1..n -> Row],
         InRow(c, n, HorizonStart, HorizonEnd), Once(c, n, HorizonStart, HorizonEnd),
         NEW f, \A i \in 1..n : f[i] = Occupied(c[i])
  PROVE  Total(f, 1..n) = Cardinality(AllUses)
<1>. DEFINE X == [i \in 1..n |-> Uses(c[i])]
            a == HorizonStart
            b == HorizonEnd
<1>0. IsFiniteSet(1..n) /\ a \in Int /\ b \in Int  BY FS_Interval, Horizon
<1>1. \A i \in 1..n : IsFiniteSet(X[i]) /\ f[i] = Cardinality(X[i])  BY OccupiedIs
<1>2. \A i \in 1..n : \A use \in X[i] : /\ use[1] \in Nodes /\ use[2] \in Int /\ use = <<use[1], use[2]>>
                                        /\ In(use[2], c[i])
                                        /\ \E j \in JobsOn(use[1]) : From(j) <= use[2] /\ use[2] < To(j)
  BY DEF Uses, Instants
<1>3. \A i \in 1..n : \A t \in Int : In(t, c[i]) => t \in a..(b - 1)
  <2>1. SUFFICES ASSUME NEW i \in 1..n, NEW t \in Int, In(t, c[i]) PROVE t \in a..(b - 1)  OBVIOUS
  <2>2. a <= c[i].from /\ c[i].to <= b  BY DEF InRow
  <2>3. c[i].from \in Int /\ c[i].to \in Int  BY DEF Row
  <2>4. c[i].from <= t /\ t < c[i].to  BY <2>1 DEF In
  <2>. HIDE DEF a, b
  <2>. QED  BY <1>0, <2>2, <2>3, <2>4
<1>4. \A i, k \in 1..n : i # k => X[i] \cap X[k] = {}
  <2>1. SUFFICES ASSUME NEW i \in 1..n, NEW k \in 1..n, NEW use \in X[i], use \in X[k] PROVE i = k
    OBVIOUS
  <2>. DEFINE t == use[2]
  <2>2. In(t, c[i]) /\ In(t, c[k]) /\ t \in Int  BY <1>2, <2>1
  <2>3. t \in a..(b - 1)  BY <1>3, <2>2
  <2>. HIDE DEF t
  <2>. QED  BY <2>2, <2>3 DEF Once
<1>5. Parts(X, 1..n) = AllUses
  <2>1. ASSUME NEW i \in 1..n, NEW use \in X[i] PROVE use \in AllUses
    <3>1. /\ use[1] \in Nodes /\ use[2] \in Int /\ use = <<use[1], use[2]>> /\ In(use[2], c[i])
          /\ \E j \in JobsOn(use[1]) : From(j) <= use[2] /\ use[2] < To(j)
      BY <1>2
    <3>2. use[2] \in a..(b - 1)  BY <1>3, <3>1
    <3>3. use \in (UNION Allocation) \X (a..(b - 1))  BY <3>1, <3>2 DEF Nodes
    <3>4. \E j \in Job : use[1] \in results[j].nodes /\ From(j) <= use[2] /\ use[2] < To(j)
      BY <3>1 DEF JobsOn
    <3>. QED  BY <3>3, <3>4 DEF AllUses
  <2>2. ASSUME NEW use \in AllUses PROVE \E i \in 1..n : use \in X[i]
    <3>1. /\ use[1] \in Nodes /\ use[2] \in a..(b - 1) /\ use = <<use[1], use[2]>>
          /\ \E j \in Job : use[1] \in results[j].nodes /\ From(j) <= use[2] /\ use[2] < To(j)
      BY DEF AllUses, Nodes
    <3>2. PICK i \in 1..n : In(use[2], c[i])  BY <3>1 DEF Once
    <3>3. use[2] \in Int  BY <1>0, <3>1
    <3>4. use[2] \in Instants(use[1], c[i])  BY <3>1, <3>2, <3>3 DEF Instants, JobsOn
    <3>5. use \in Uses(c[i])  BY <3>1, <3>3, <3>4 DEF Uses
    <3>. QED  BY <3>5
  <2>. HIDE DEF X
  <2>. QED  BY <2>1, <2>2 DEF Parts
<1>. HIDE DEF X
<1>6. Total(f, 1..n) = Cardinality(Parts(X, 1..n))  BY <1>0, <1>1, <1>4, TotalOfParts
<1>. QED  BY <1>5, <1>6

\* what Price writes
Pricing(table) ==
  [table |-> table,
   rows  |-> IF Covering(table)
             THEN [i \in DOMAIN Relevant(table) |->
                     [span |-> Relevant(table)[i], busy |-> Occupied(Relevant(table)[i])]]
             ELSE None]

\* What is written of any table is right.
LEMMA PricingIsRight ==
  ASSUME Replayed, NEW table \in Tables, priced = Pricing(table)
  PROVE  PricedOnce
<1>1. table \in Seq(Row) /\ None \notin Seq([span : Row, busy : Int])  BY StudyAssumption
<1>2. PICK n, place : Places(table, n, place)  BY <1>1, PlacesExist
<1>. DEFINE c == Relevant(table)
            rows == [i \in 1..n |-> [span |-> c[i], busy |-> Occupied(c[i])]]
            f == [i \in 1..n |-> rows[i].busy]
<1>3. /\ n \in Nat /\ c \in [1..n -> Row] /\ DOMAIN c = 1..n
      /\ \A i, k \in 1..n : i < k => c[i].from <= c[k].from
      /\ \A k \in 1..n : HorizonStart <= c[k].from /\ c[k].to <= HorizonEnd
  BY <1>1, <1>2, RelevantRows
<1>4. InRow(c, n, HorizonStart, HorizonEnd)  BY <1>3 DEF InRow
<1>5. /\ Covering(table) <=> Whole(table)
      /\ Covering(table) => Once(c, n, HorizonStart, HorizonEnd)
  BY <1>1, <1>2, CoveringIsWhole
<1>6. priced.table = table /\ priced.rows = IF Covering(table) THEN rows ELSE None
  BY <1>3 DEF Pricing
<1>. HIDE DEF c
<1>7. \A i \in 1..n : Occupied(c[i]) \in Nat  BY <1>3, OccupiedIs
<1>8. rows # None
  <2>. DEFINE T == [span : Row, busy : Int]
  <2>1. rows \in [1..n -> T]  BY <1>3, <1>7
  <2>. HIDE DEF rows, T
  <2>2. rows \in Seq(T)  BY <1>3, <2>1
  <2>. QED  BY <1>1, <2>2 DEF T
<1>9. (priced.rows # None) <=> Covering(table)  BY <1>6, <1>8
<1>10. DOMAIN rows = 1..n /\ \A i \in 1..n : f[i] = Occupied(c[i])  OBVIOUS
<1>11. Covering(table) => Total(f, 1..n) = Cardinality(AllUses)
  <2>. HIDE DEF f
  <2>. QED  BY <1>3, <1>4, <1>5, <1>10, RowsAddUp
<1>12. priced.rows # None =>
         Total([i \in DOMAIN priced.rows |-> priced.rows[i].busy], DOMAIN priced.rows) = Cardinality(AllUses)
  <2>1. SUFFICES ASSUME priced.rows # None
                 PROVE  Total([i \in DOMAIN priced.rows |-> priced.rows[i].busy], DOMAIN priced.rows)
                          = Cardinality(AllUses)
    OBVIOUS
  <2>2. priced.rows = rows /\ Covering(table)  BY <1>6, <1>9, <2>1
  <2>3. [i \in DOMAIN rows |-> rows[i].busy] = f /\ DOMAIN rows = 1..n  BY <1>10
  <2>. HIDE DEF f, rows
  <2>. QED  BY <1>11, <2>2, <2>3
<1>. HIDE DEF rows, f
<1>. QED  BY <1>5, <1>6, <1>9, <1>12 DEF PricedOnce, Whole, RowAt, AllUses

\* The rows are those of a table, as Price found the results, which stay.
PriceInv == priced # None => stage = "priced" /\ \E table \in Tables : priced = Pricing(table)

\* The results have their type.
LEMMA ReplayedThen ==
  ASSUME PolicyInv, ReplayInv, stage \in {"results", "priced"}
  PROVE  Replayed
<1>1. N \in Nat /\ Job = 1..N  BY Constants
<1>2. Numbers /\ log \in [Job -> Lines] /\ results = [j \in Job |-> log[expected[j]]]  BY DEF ReplayInv
<1>3. ASSUME NEW j \in Job PROVE results[j] \in Lines
  <2>1. PICK i \in 1..N : trace[i] = j  BY <1>2 DEF Numbers
  <2>2. expected[j] = i  BY <1>2, <2>1 DEF Numbers
  <2>. QED  BY <1>1, <1>2, <2>1, <2>2
<1>4. ASSUME NEW j \in Job PROVE results[j].wait \in Int /\ results[j].nodes \subseteq UNION Allocation
  <2>1. results[j].wait \in Waits \cup {0} /\ results[j].nodes \in Allocation \cup {{}}  BY <1>3 DEF Lines
  <2>2. \A w \in Waits \cup {0} : w \in Int  BY StudyAssumption
  <2>3. results[j].wait \in Int  BY <2>1, <2>2, Zenon
  <2>4. results[j].nodes \subseteq UNION Allocation  BY <2>1, Zenon
  <2>. QED  BY <2>3, <2>4
<1>. QED  BY <1>4 DEF Replayed, PolicyInv

\* The prices of a table depend on the releases and the results only.
LEMMA PricingSame ==
  ASSUME UNCHANGED <<release, results>>, NEW table
  PROVE  Pricing(table)' = Pricing(table)
<1>1. HorizonStart' = HorizonStart /\ HorizonEnd' = HorizonEnd
  BY DEF HorizonStart, HorizonEnd, From, To
<1>2. Relevant(table)' = Relevant(table)
  <2>1. Meeting(table)' = Meeting(table)  BY <1>1 DEF Meeting
  <2>2. Order(table)' = Order(table)  BY <2>1 DEF Order, Before
  <2>. DEFINE Rows == [i \in DOMAIN Order(table) |-> Clip(table[Order(table)[i]], HorizonStart, HorizonEnd)]
  <2>3. Relevant(table) = Rows  BY DEF Relevant, Order, Meeting, Before, Sorted
  <2>4. Relevant(table)' = Rows'  BY DEF Relevant, Order, Meeting, Before, Sorted
  <2>5. Rows' = Rows  BY <1>1, <2>2 DEF Clip
  <2>. QED  BY <2>3, <2>4, <2>5
<1>3. Covering(table)' = Covering(table)
  BY <1>1, <1>2 DEF Covering
<1>4. \A row : Occupied(row)' = Occupied(row)
  <2>1. ASSUME NEW row, NEW n PROVE Busy(n, row)' = Busy(n, row)
    <3>1. OnNode(n, row)' = OnNode(n, row)  BY DEF OnNode, From, To
    <3>. QED  BY <3>1 DEF Busy
  <2>. QED  BY <2>1 DEF Occupied
<1>. QED  BY <1>2, <1>3, <1>4 DEF Pricing

\* Only Price writes it.
LEMMA PriceNext ==
  ASSUME PolicyInv, ReplayInv, PriceInv, [Next]_vars
  PROVE  PriceInv'
<1>1. CASE Price
  <2>1. UNCHANGED <<release, results>> /\ stage' = "priced"  BY <1>1 DEF Price, profile, policy
  <2>2. PICK table \in Tables : priced' = Pricing(table)  BY <1>1 DEF Price, Pricing
  <2>3. priced' = Pricing(table)'  BY <2>1, <2>2, PricingSame
  <2>. QED  BY <2>1, <2>3 DEF PriceInv
<1>2. CASE UNCHANGED <<stage, release, results, priced>>
  <2>1. ASSUME priced' # None PROVE \E table \in Tables : priced' = Pricing(table)'
    <3>1. PICK table \in Tables : priced = Pricing(table)  BY <1>2, <2>1 DEF PriceInv
    <3>. QED  BY <1>2, <3>1, PricingSame
  <2>. QED  BY <1>2, <2>1 DEF PriceInv
<1>3. CASE stage # "priced" /\ UNCHANGED priced  BY <1>3 DEF PriceInv
<1>. QED
  BY <1>1, <1>2, <1>3
  DEF Next, vars, Decide, Finalize, Submit, Run, Replay, Analyse, Finished, profile, policy

\* A table is priced just if every instant of the horizon has one row of it, and
\* then the rows of build_intervals add up to the time for which a node had a job,
\* each instant and node once, whatever jobs overlap.
THEOREM EveryInstantIsPricedOnce == Spec => []PricedOnce
<1>1. Init => PriceInv  BY DEF Init, PriceInv
<1>2. PolicyInv /\ ReplayInv /\ PriceInv => PricedOnce
  <2>1. SUFFICES ASSUME PolicyInv, ReplayInv, PriceInv, priced # None PROVE PricedOnce
    BY DEF PricedOnce
  <2>2. Replayed /\ \E table \in Tables : priced = Pricing(table)  BY <2>1, ReplayedThen DEF PriceInv
  <2>. QED  BY <2>2, PricingIsRight
<1>3. PolicyInv /\ ReplayInv /\ PriceInv /\ [Next]_vars => PolicyInv' /\ ReplayInv' /\ PriceInv'
  BY PolicyNext, ReplayNext, PriceNext
<1>. QED  BY PolicyInit, ReplayInit, <1>1, <1>2, <1>3, PTL DEF Spec
==============================================================================
