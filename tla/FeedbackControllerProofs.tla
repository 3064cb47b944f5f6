---------------------- MODULE FeedbackControllerProofs ----------------------
(***************************************************************************)
(* Proofs about FeedbackController: every job has one fate, the users'     *)
(* waiting budgets are kept and the holds stay within their bounds.        *)
(***************************************************************************)
EXTENDS FeedbackController, SumsProofs

LEMMA Constants ==
  /\ Job \subseteq Nat /\ IsFiniteSet(Job)
  /\ \A j \in Job : /\ Arrival[j] \in Nat /\ UserOf[j] \in User
                    /\ Runtime[j] \in Nat \ {0} /\ Fraction[j] \in Nat \ {0}
  /\ Capacity \in Nat \ {0} /\ CarbonEnd \in Nat
  /\ \A t \in 0..(CarbonEnd - 1) : Intensity[t] \in Nat
  /\ TickS \in Nat \ {0} /\ MaxDelay \in Nat /\ UserBudget \in Nat /\ MinSaving \in Nat
  /\ RatioNum \in Nat /\ RatioDen \in Nat \ {0} /\ IdleWake \in Nat \ {0}
BY ControllerAssumption

-----------------------------------------------------------------------------
(* Releases of the grid *)

\* Every release of the grid is still to come, later than the arrival and
\* within both bounds of the job's delay.
LEMMA GridBound ==
  ASSUME NEW j \in Job, NEW now \in Nat, NEW r \in Grid(j, now)
  PROVE  /\ r \in Nat /\ r > now /\ r > Arrival[j]
         /\ Reservation(j, r) <= MaxDelay
         /\ Reservation(j, r) * RatioDen <= Runtime[j] * RatioNum
<1>. DEFINE A == MaxDelay * RatioDen
            B == Runtime[j] * RatioNum
            D == TickS * RatioDen
            a == Smaller(A, B)
<1>1. A \in Nat /\ B \in Nat /\ D \in Nat \ {0}
  <2>1. MaxDelay \in Nat /\ RatioDen \in Nat \ {0} /\ RatioNum \in Nat /\ Runtime[j] \in Nat /\ TickS \in Nat \ {0}
    BY Constants
  <2>2. TickS * RatioDen > 0  BY <2>1, Product
  <2>. QED  BY <2>1, <2>2
<1>2. PICK i \in 1..AllowedTicks(j) : r = Arrival[j] + i * TickS  BY DEF Grid
<1>3. r > now  BY DEF Grid
<1>4. TickS \in Nat \ {0} /\ Arrival[j] \in Nat /\ MaxDelay \in Nat /\ RatioDen \in Nat \ {0}  BY Constants
<1>5. a \in Nat /\ a <= A /\ a <= B  BY <1>1 DEF Smaller
<1>6. i \in Nat \ {0} /\ i * D <= a
  <2>. HIDE DEF a, D
  <2>1. AllowedTicks(j) = a \div D  BY DEF AllowedTicks, a, D
  <2>2. a \div D \in Nat  BY <1>1, <1>5
  <2>3. i \in Nat \ {0} /\ i <= a \div D  BY <1>2, <2>1, <2>2
  <2>. QED  BY <1>1, <1>5, <2>3, Quotient
<1>. DEFINE w == i * TickS
<1>7. w \in Nat /\ w > 0  BY <1>4, <1>6, Product
<1>8. i * D = w * RatioDen  BY <1>4, <1>6
<1>9. r = Arrival[j] + w  BY <1>2
<1>. HIDE DEF w
<1>10. Reservation(j, r) = w  BY <1>4, <1>7, <1>9 DEF Reservation
<1>11. w * RatioDen \in Nat  BY <1>4, <1>7
<1>12. w * RatioDen <= B /\ w * RatioDen <= A
  <2>. HIDE DEF a, A, B, D
  <2>. QED  BY <1>1, <1>5, <1>6, <1>8, <1>11
<1>13. w <= MaxDelay
  <2>1. (MaxDelay - w) * RatioDen >= 0
    <3>1. (MaxDelay - w) * RatioDen = MaxDelay * RatioDen - w * RatioDen  BY <1>4, <1>7
    <3>2. MaxDelay * RatioDen \in Nat  BY <1>4
    <3>. QED  BY <1>11, <1>12, <3>1, <3>2
  <2>2. MaxDelay - w \in Int  BY <1>4, <1>7
  <2>3. MaxDelay - w >= 0  BY <1>4, <2>1, <2>2, Product
  <2>. QED  BY <1>4, <1>7, <2>3
<1>. QED  BY <1>3, <1>4, <1>7, <1>9, <1>10, <1>12, <1>13

-----------------------------------------------------------------------------
(* The forecast *)

\* what a snapshot may be: finitely many of the jobs, with their start times
GoodStates(states) == IsFiniteSet(states) /\ \A s \in states : s.id \in Job /\ s.start \in Int

LEMMA StartType ==
  ASSUME NEW states, GoodStates(states), NEW now \in Nat, NEW j \in Job
  PROVE  BaselineStart(j, states, now) \in Int
<1>. DEFINE pool    == {s \in states : PoolOf[s.id] = PoolOf[j]}
            running == {s \in pool : s.state = "running"}
            pending == {s \in pool : s.state = "pending"}
            left(s) == Larger(Runtime[s.id] - Larger(now - s.start, 0), TickS)
            w1 == [s \in running |-> Fraction[s.id] * left(s)]
            w2 == [s \in pending |-> Fraction[s.id] * Runtime[s.id]]
            w3 == [s \in running |-> Fraction[s.id]]
            work == Total(w1, running) + Total(w2, pending)
            load == Total(w3, running)
<1>1. IsFiniteSet(running) /\ IsFiniteSet(pending)  BY FS_Subset DEF GoodStates
<1>2. \A s \in states : /\ Fraction[s.id] \in Int /\ Runtime[s.id] \in Int
                        /\ left(s) \in Int
  <2>1. SUFFICES ASSUME NEW s \in states
                 PROVE  Fraction[s.id] \in Int /\ Runtime[s.id] \in Int /\ left(s) \in Int
    OBVIOUS
  <2>2. s.id \in Job /\ s.start \in Int  BY DEF GoodStates
  <2>3. \A i \in Job : Fraction[i] \in Int /\ Runtime[i] \in Int  BY Constants
  <2>4. TickS \in Int  BY Constants
  <2>. QED  BY <2>2, <2>3, <2>4 DEF Larger
<1>. HIDE DEF left
<1>3. /\ \A s \in running : w1[s] \in Int
      /\ \A s \in pending : w2[s] \in Int
  BY <1>2
<1>. HIDE DEF running, pending, w1, w2
<1>4. Total(w1, running) \in Int /\ Total(w2, pending) \in Int  BY <1>1, <1>3, TotalInt
<1>5. work \in Int  BY <1>4
<1>6. Backlog(j, states, now) = IF pending # {} \/ load + Fraction[j] > Capacity THEN work \div Capacity ELSE 0
  BY DEF Backlog, running, pending, w1, w2, left
<1>. HIDE DEF work, load
<1>7. work \div Capacity \in Int  BY <1>5, Constants
<1>8. Backlog(j, states, now) \in Int  BY <1>6, <1>7
<1>. QED  BY <1>8 DEF BaselineStart

LEMMA EmissionType ==
  ASSUME NEW start \in Int, NEW duration \in Int, Covered(start, duration)
  PROVE  Emission(start, duration) \in Int
<1>. DEFINE S == start..(start + duration - 1)
<1>1. S \subseteq 0..(CarbonEnd - 1)  BY Constants DEF Covered
<1>2. \A t \in S : Intensity[t] \in Int  BY <1>1, Constants
<1>3. IsFiniteSet(S)  BY FS_Interval
<1>4. Total(Intensity, S) \in Int  BY <1>2, <1>3, TotalInt
<1>. QED  BY <1>4 DEF Emission

-----------------------------------------------------------------------------
(* The candidates and their order *)

Of(c, jobs, states, now) ==
  /\ c.job \in jobs /\ c.release \in Grid(c.job, now)
  /\ c = [job |-> c.job, release |-> c.release,
          worth |-> Saved(c.job, states, now, c.release) * Fraction[c.job], pause |-> Larger(c.release - now, 1)]
  /\ c.worth \in Int /\ c.pause \in Nat \ {0}

LEMMA CandidateIs ==
  ASSUME NEW states, GoodStates(states), NEW now \in Nat, NEW jobs \in SUBSET Job,
         NEW c \in Candidates(jobs, states, now)
  PROVE  Of(c, jobs, states, now)
<1>1a. PICK j \in jobs : \E r \in FeasibleReleases(j, states, now) :
        c = [job |-> j, release |-> r,
             worth |-> Saved(j, states, now, r) * Fraction[j], pause |-> Larger(r - now, 1)]
  BY DEF Candidates
<1>1. PICK r \in FeasibleReleases(j, states, now) :
        c = [job |-> j, release |-> r,
             worth |-> Saved(j, states, now, r) * Fraction[j], pause |-> Larger(r - now, 1)]
  BY <1>1a
<1>2. j \in Job /\ c.job = j /\ c.release = r
      /\ c.worth = Saved(j, states, now, r) * Fraction[j] /\ c.pause = Larger(r - now, 1)
  BY <1>1
<1>3. r \in Grid(j, now) /\ GainOK(j, states, now, r)  BY DEF FeasibleReleases, Feasible
<1>4. r \in Nat  BY <1>2, <1>3, GridBound
<1>5. Saved(j, states, now, r) \in Int
  <2>1. BaselineStart(j, states, now) \in Int  BY <1>2, StartType
  <2>2. PredictedStart(j, states, now, r) \in Int  BY <1>4, <2>1 DEF PredictedStart, Larger
  <2>3. Runtime[j] \in Int  BY <1>2, Constants
  <2>. QED  BY <1>3, <2>1, <2>2, <2>3, EmissionType DEF Saved, GainOK
<1>6. Fraction[j] \in Int  BY <1>2, Constants
<1>7. c.worth \in Int  BY <1>2, <1>5, <1>6
<1>8. c.pause \in Nat \ {0}  BY <1>2, <1>4 DEF Larger
<1>. QED  BY <1>1, <1>2, <1>3, <1>7, <1>8 DEF Of

\* Quotients are compared by their cross products, transitively.
LEMMA Crosswise ==
  ASSUME NEW x \in Int, NEW y \in Int, NEW z \in Int,
         NEW p \in Nat \ {0}, NEW q \in Nat \ {0}, NEW r \in Nat \ {0},
         x * q >= y * p, y * r >= z * q
  PROVE  /\ x * r >= z * p
         /\ x * q > y * p \/ y * r > z * q => x * r > z * p
         /\ x * q = y * p /\ y * r = z * q => x * r = z * p
<1>1. x * q - y * p \in Int /\ y * r - z * q \in Int /\ x * r - z * p \in Int  OBVIOUS
<1>2. (x * r - z * p) * q = (x * q - y * p) * r + (y * r - z * q) * p  OBVIOUS
<1>. DEFINE a == x * q - y * p
            b == y * r - z * q
            c == x * r - z * p
<1>3. a >= 0 /\ b >= 0  OBVIOUS
<1>4. /\ a * r \in Int /\ b * p \in Int
      /\ a * r >= 0 /\ b * p >= 0 /\ (a * r > 0 <=> a > 0) /\ (b * p > 0 <=> b > 0)
  <2>. HIDE DEF a, b
  <2>. QED  BY <1>1, <1>3, Product DEF a, b
<1>5. c * q = a * r + b * p  BY <1>2
<1>6. (c * q > 0 <=> c > 0) /\ (c * q >= 0 <=> c >= 0)
  <2>. HIDE DEF c
  <2>. QED  BY <1>1, Product DEF c
<1>. HIDE DEF a, b, c
<1>7. /\ c >= 0
      /\ a > 0 \/ b > 0 => c > 0
      /\ a = 0 /\ b = 0 => c = 0
  <2>0. a \in Int /\ b \in Int /\ c \in Int  BY <1>1 DEF a, b, c
  <2>1. c * q >= 0  BY <1>4, <1>5
  <2>2. a > 0 \/ b > 0 => c * q > 0  BY <1>4, <1>5
  <2>3. a = 0 /\ b = 0 => ~(c * q > 0)  BY <1>4, <1>5
  <2>. QED  BY <2>0, <2>1, <2>2, <2>3, <1>6
<1>8. x * q \in Int /\ y * p \in Int /\ y * r \in Int /\ z * q \in Int /\ x * r \in Int /\ z * p \in Int  OBVIOUS
<1>. QED  BY <1>7, <1>8 DEF a, b, c

LEMMA BeforeIsOrder ==
  ASSUME NEW states, GoodStates(states), NEW now \in Nat, NEW jobs \in SUBSET Job,
         NEW c \in Candidates(jobs, states, now), NEW d \in Candidates(jobs, states, now),
         NEW e \in Candidates(jobs, states, now)
  PROVE  /\ ~Before(c, c)
         /\ c # d => Before(c, d) \/ Before(d, c)
         /\ Before(c, d) /\ Before(d, e) => Before(c, e)
<1>1. Of(c, jobs, states, now) /\ Of(d, jobs, states, now) /\ Of(e, jobs, states, now)  BY CandidateIs
<1>2. /\ c.worth \in Int /\ c.pause \in Nat \ {0} /\ c.job \in Nat /\ c.release \in Nat
      /\ d.worth \in Int /\ d.pause \in Nat \ {0} /\ d.job \in Nat /\ d.release \in Nat
      /\ e.worth \in Int /\ e.pause \in Nat \ {0} /\ e.job \in Nat /\ e.release \in Nat
  BY <1>1, Constants, GridBound DEF Of
<1>3. /\ c.worth * d.pause \in Int /\ d.worth * c.pause \in Int
      /\ d.worth * e.pause \in Int /\ e.worth * d.pause \in Int
      /\ c.worth * e.pause \in Int /\ e.worth * c.pause \in Int
      /\ c.worth * c.pause \in Int
  BY <1>2
<1>4. ~Before(c, c)  BY <1>2, <1>3 DEF Before
<1>5. c # d => Before(c, d) \/ Before(d, c)
  <2>1. c.job = d.job /\ c.release = d.release => c = d  BY <1>1 DEF Of
  <2>. QED  BY <1>2, <1>3, <2>1 DEF Before
<1>6. Before(c, d) /\ Before(d, e) => Before(c, e)
  <2>. SUFFICES ASSUME Before(c, d), Before(d, e) PROVE Before(c, e)  OBVIOUS
  <2>1. c.worth * d.pause >= d.worth * c.pause /\ d.worth * e.pause >= e.worth * d.pause
    BY <1>3 DEF Before
  <2>2. /\ c.worth * e.pause >= e.worth * c.pause
        /\ c.worth * d.pause > d.worth * c.pause \/ d.worth * e.pause > e.worth * d.pause
             => c.worth * e.pause > e.worth * c.pause
        /\ c.worth * d.pause = d.worth * c.pause /\ d.worth * e.pause = e.worth * d.pause
             => c.worth * e.pause = e.worth * c.pause
    <3>. DEFINE x == c.worth  y == d.worth  z == e.worth
                p == c.pause  q == d.pause  r == e.pause
    <3>1. /\ x \in Int /\ y \in Int /\ z \in Int
          /\ p \in Nat \ {0} /\ q \in Nat \ {0} /\ r \in Nat \ {0}
          /\ x * q >= y * p /\ y * r >= z * q
      BY <1>2, <2>1
    <3>. HIDE DEF x, y, z, p, q, r
    <3>2. /\ x * r >= z * p
          /\ x * q > y * p \/ y * r > z * q => x * r > z * p
          /\ x * q = y * p /\ y * r = z * q => x * r = z * p
      BY <3>1, Crosswise
    <3>. QED  BY <3>2 DEF x, y, z, p, q, r
  <2>. QED  BY <1>2, <1>3, <2>1, <2>2 DEF Before
<1>. QED  BY <1>4, <1>5, <1>6

\* The grid of a job is finite, and so are the candidates.
LEMMA CandidatesFinite ==
  ASSUME NEW states, GoodStates(states), NEW now \in Nat, NEW jobs \in SUBSET Job
  PROVE  IsFiniteSet(Candidates(jobs, states, now))
<1>. DEFINE S == Candidates(jobs, states, now)
            T == 0..MaxDelay
            f == [c \in S |-> <<c.job, c.release - Arrival[c.job]>>]
<1>3. IsFiniteSet(T)
  <2>1. 0 \in Int /\ MaxDelay \in Int  BY Constants
  <2>. QED  BY <2>1, FS_Interval
<1>4. \A c \in S : /\ c.job \in Job /\ c.release \in Int /\ Arrival[c.job] \in Int
                   /\ c.release - Arrival[c.job] \in T
  <2>1. SUFFICES ASSUME NEW c \in S
                 PROVE  /\ c.job \in Job /\ c.release \in Int /\ Arrival[c.job] \in Int
                        /\ c.release - Arrival[c.job] \in T
    OBVIOUS
  <2>2. c.job \in Job /\ c.release \in Grid(c.job, now)  BY CandidateIs DEF Of
  <2>. DEFINE i == c.job
              r == c.release
  <2>3. /\ r \in Nat /\ r > Arrival[i] /\ r - Arrival[i] <= MaxDelay
        /\ Arrival[i] \in Nat /\ MaxDelay \in Nat
    BY <2>2, GridBound, Constants DEF Reservation
  <2>. HIDE DEF i, r
  <2>4. r - Arrival[i] \in 0..MaxDelay  BY <2>3
  <2>. QED  BY <2>2, <2>3, <2>4 DEF i, r
<1>5. f \in [S -> Job \X T]  BY <1>4
<1>6. \A c, d \in S : f[c] = f[d] => c = d
  <2>1. SUFFICES ASSUME NEW c \in S, NEW d \in S, f[c] = f[d] PROVE c = d  OBVIOUS
  <2>2. c.job = d.job /\ c.release - Arrival[c.job] = d.release - Arrival[c.job]  BY <2>1
  <2>3. c.release = d.release  BY <1>4, <2>2
  <2>. QED  BY <2>2, <2>3, CandidateIs DEF Of
<1>. HIDE DEF f, S, T
<1>7. f \in Injection(S, Job \X T)  BY <1>5, <1>6 DEF Injection, IsInjective
<1>8. IsFiniteSet(Job \X T)  BY <1>3, Constants, FS_Product
<1>. QED  BY <1>7, <1>8, FS_Injection DEF S

\* Every position of the ranking is taken by a candidate.
LEMMA RankedIs ==
  ASSUME NEW states, GoodStates(states), NEW now \in Nat, NEW jobs \in SUBSET Job
  PROVE  LET S == Candidates(jobs, states, now) IN
         /\ Cardinality(S) \in Nat /\ DOMAIN Ranked(S) = 1..Cardinality(S)
         /\ \A i \in 1..Cardinality(S) : Ranked(S)[i] \in S
<1>. DEFINE S == Candidates(jobs, states, now)
            n == Cardinality(S)
            Less(c) == {d \in S : Before(d, c)}
            rank == [c \in S |-> Cardinality(Less(c)) + 1]
<1>1. IsFiniteSet(S) /\ n \in Nat  BY CandidatesFinite, FS_CardinalityType
<1>2. \A c, d, e \in S : /\ ~Before(c, c)
                         /\ c # d => Before(c, d) \/ Before(d, c)
                         /\ Before(c, d) /\ Before(d, e) => Before(c, e)
  BY BeforeIsOrder
<1>. HIDE DEF S
<1>3. \A c \in S : IsFiniteSet(Less(c)) /\ Cardinality(Less(c)) \in Nat /\ Cardinality(Less(c)) < n
  <2>1. SUFFICES ASSUME NEW c \in S
                 PROVE  IsFiniteSet(Less(c)) /\ Cardinality(Less(c)) \in Nat /\ Cardinality(Less(c)) < n
    OBVIOUS
  <2>2. Less(c) \in SUBSET S /\ Less(c) # S  BY <1>2
  <2>. HIDE DEF Less
  <2>. QED  BY <1>1, <2>2, FS_Subset, FS_CardinalityType
<1>4. \A c, d \in S : Before(c, d) => Cardinality(Less(c)) < Cardinality(Less(d))
  <2>1. SUFFICES ASSUME NEW c \in S, NEW d \in S, Before(c, d)
                 PROVE  Cardinality(Less(c)) < Cardinality(Less(d))
    OBVIOUS
  <2>2. Less(c) \in SUBSET Less(d) /\ Less(c) # Less(d)  BY <1>2, <2>1
  <2>. HIDE DEF Less
  <2>. QED  BY <1>3, <2>2, FS_Subset
<1>5. rank \in [S -> 1..n]  BY <1>1, <1>3
<1>6. \A c, d \in S : rank[c] = rank[d] => c = d
  <2>. HIDE DEF Less
  <2>. QED  BY <1>2, <1>3, <1>4
<1>7. IsFiniteSet(1..n) /\ Cardinality(1..n) = n
  <2>1. 1 \in Int /\ n \in Int  BY <1>1
  <2>2. IsFiniteSet(1..n) /\ Cardinality(1..n) = IF 1 > n THEN 0 ELSE n - 1 + 1
    BY <2>1, FS_Interval
  <2>. QED  BY <1>1, <2>2
<1>8. rank \in Surjection(S, 1..n)
  <2>. HIDE DEF rank
  <2>1. rank \in Injection(S, 1..n)  BY <1>5, <1>6 DEF Injection, IsInjective
  <2>. QED  BY <1>7, <2>1, FS_Injection
<1>9. \A i \in 1..n : \E c \in S : Cardinality({d \in S : Before(d, c)}) = i - 1
  <2>1. SUFFICES ASSUME NEW i \in 1..n PROVE \E c \in S : Cardinality(Less(c)) = i - 1  OBVIOUS
  <2>. HIDE DEF rank
  <2>2. PICK c \in S : rank[c] = i  BY <1>8 DEF Surjection
  <2>3. Cardinality(Less(c)) + 1 = i /\ Cardinality(Less(c)) \in Nat  BY <1>3, <2>2 DEF rank
  <2>. HIDE DEF Less
  <2>4. Cardinality(Less(c)) = i - 1  BY <2>3
  <2>. QED  BY <2>4
<1>. QED  BY <1>1, <1>9 DEF Ranked, S

-----------------------------------------------------------------------------
(* The fold of Plan: a recursive function that takes the last position     *)
(* first; what Admit preserves holds of its value.                         *)

Iteration(used, base, seq, g, s) ==
  IF s = {} THEN base ELSE Admit(used, g[s \ {Max(s)}], seq[Max(s)])
Folded(used, base, seq) == FoldLeft(LAMBDA acc, c : Admit(used, acc, c), base, seq)
IsIteration(used, base, seq, D, g) == g = [s \in SUBSET D |-> Iteration(used, base, seq, g, s)]

LEMMA IterationExists ==
  ASSUME NEW used, NEW base, NEW seq, NEW n \in Nat
  PROVE  \E g : IsIteration(used, base, seq, 1..n, g)
<1>. DEFINE D == 1..n
            It(g, s) == Iteration(used, base, seq, g, s)
            Upto(k, g) == \A s \in SUBSET D : Cardinality(s) <= k => g[s] = It(g, s)
            P == {k \in Nat : \E g : Upto(k, g)}
<1>0. \A s \in SUBSET D : IsFiniteSet(s) /\ Cardinality(s) \in Nat /\ (Cardinality(s) = 0 <=> s = {})
  <2>1. IsFiniteSet(D)
    <3>1. 1 \in Int /\ n \in Int  OBVIOUS
    <3>. QED  BY <3>1, FS_Interval
  <2>. HIDE DEF D
  <2>. QED  BY <2>1, FS_Subset, FS_CardinalityType, FS_EmptySet
<1>01. \A s \in SUBSET D : s # {} => s \ {Max(s)} \in SUBSET D /\ Cardinality(s \ {Max(s)}) = Cardinality(s) - 1
  BY <1>0, MaxIn, FS_RemoveElement
<1>. HIDE DEF D
<1>1. 0 \in P
  <2>. DEFINE g == [s \in SUBSET D |-> base]
  <2>1. Upto(0, g)  BY <1>0 DEF Iteration
  <2>. QED  BY <2>1
<1>2. ASSUME NEW k \in P PROVE k + 1 \in P
  <2>1. PICK g : Upto(k, g)  OBVIOUS
  <2>. DEFINE h == [s \in SUBSET D |-> It(g, s)]
  <2>2. ASSUME NEW s \in SUBSET D, Cardinality(s) <= k + 1 PROVE h[s] = It(h, s)
    <3>1. CASE s = {}  BY <3>1 DEF Iteration
    <3>2. CASE s # {}
      <4>. DEFINE t == s \ {Max(s)}
      <4>1. t \in SUBSET D /\ Cardinality(t) = Cardinality(s) - 1  BY <1>01, <3>2
      <4>2. h[t] = g[t]
        <5>1. Cardinality(t) <= k  BY <1>0, <2>2, <4>1
        <5>. QED  BY <2>1, <4>1, <5>1
      <4>. QED  BY <3>2, <4>2 DEF Iteration
    <3>. QED  BY <3>1, <3>2
  <2>3. Upto(k + 1, h)  BY <2>2
  <2>. HIDE DEF h
  <2>4. \E f : Upto(k + 1, f)  BY <2>3
  <2>. QED  BY <2>4
<1>3. Cardinality(D) \in P
  <2>. HIDE DEF P
  <2>1. P \in SUBSET Nat  BY DEF P
  <2>2. P = Nat  BY <1>1, <1>2, <2>1, Inductive
  <2>. QED  BY <1>0, <2>2
<1>4. PICK g : Upto(Cardinality(D), g)  BY <1>3
<1>. DEFINE h == [s \in SUBSET D |-> g[s]]
<1>5. \A s \in SUBSET D : Cardinality(s) <= Cardinality(D)  BY <1>0, FS_Subset
<1>6. ASSUME NEW s \in SUBSET D PROVE h[s] = It(h, s)
  <2>1. h[s] = It(g, s)  BY <1>4, <1>5
  <2>2. s \ {Max(s)} \in SUBSET D  OBVIOUS
  <2>. QED  BY <2>1, <2>2 DEF Iteration
<1>7. h = [s \in SUBSET D |-> It(h, s)]  BY <1>6
<1>. QED  BY <1>7 DEF IsIteration, D

LEMMA FoldKeeps ==
  ASSUME NEW used, NEW base, NEW seq, NEW n \in Nat, DOMAIN seq = 1..n,
         NEW I, base \in I, \A acc \in I : \A i \in 1..n : Admit(used, acc, seq[i]) \in I
  PROVE  Folded(used, base, seq) \in I
<1>. DEFINE D == 1..n
            g == CHOOSE g : IsIteration(used, base, seq, D, g)
            P == {k \in Nat : \A s \in SUBSET D : Cardinality(s) <= k => g[s] \in I}
<1>1. IsIteration(used, base, seq, D, g)  BY IterationExists
<1>2. Folded(used, base, seq) = g[D]
  BY DEF Folded, FoldLeft, MapThenFoldSet, IsIteration, Iteration
<1>. HIDE DEF g
<1>3. \A s \in SUBSET D : IsFiniteSet(s) /\ Cardinality(s) \in Nat /\ (Cardinality(s) = 0 <=> s = {})
  <2>1. IsFiniteSet(D)
    <3>1. 1 \in Int /\ n \in Int  OBVIOUS
    <3>. QED  BY <3>1, FS_Interval
  <2>. HIDE DEF D
  <2>. QED  BY <2>1, FS_Subset, FS_CardinalityType, FS_EmptySet
<1>4. \A s \in SUBSET D : g[s] = Iteration(used, base, seq, g, s)  BY <1>1 DEF IsIteration
<1>5. 0 \in P
  <2>1. SUFFICES ASSUME NEW s \in SUBSET D, Cardinality(s) <= 0 PROVE g[s] \in I  OBVIOUS
  <2>2. s = {}  BY <1>3, <2>1
  <2>. QED  BY <1>4, <2>2 DEF Iteration
<1>6. ASSUME NEW k \in P PROVE k + 1 \in P
  <2>1. SUFFICES ASSUME NEW s \in SUBSET D, Cardinality(s) <= k + 1 PROVE g[s] \in I  OBVIOUS
  <2>2. CASE s = {}  BY <1>4, <2>2 DEF Iteration
  <2>3. CASE s # {}
    <3>1. Max(s) \in s  BY <2>3, MaxIn
    <3>2. s \ {Max(s)} \in SUBSET D /\ Cardinality(s \ {Max(s)}) = Cardinality(s) - 1
      BY <1>3, <3>1, FS_RemoveElement
    <3>3. Cardinality(s \ {Max(s)}) <= k  BY <1>3, <2>1, <3>2
    <3>4. g[s \ {Max(s)}] \in I  BY <3>2, <3>3
    <3>5. Admit(used, g[s \ {Max(s)}], seq[Max(s)]) \in I  BY <3>1, <3>4
    <3>. QED  BY <1>4, <2>3, <3>5 DEF Iteration
  <2>. QED  BY <2>2, <2>3
<1>. HIDE DEF P
<1>7. P = Nat
  <2>1. P \in SUBSET Nat  BY DEF P
  <2>. QED  BY <1>5, <1>6, <2>1, Inductive
<1>8. g[D] \in I
  <2>1. D \in SUBSET D /\ Cardinality(D) \in P  BY <1>3, <1>7
  <2>2. Cardinality(D) <= Cardinality(D)  BY <1>3
  <2>. QED  BY <2>1, <2>2 DEF P
<1>. QED  BY <1>2, <1>8

-----------------------------------------------------------------------------
(* The inductive invariant: beside the properties, a hold is later than    *)
(* its arrival, so that reservations are positive, and still to come.      *)

HoldOK(j, r, now) ==
  /\ r \in Nat /\ r > now /\ r > Arrival[j]
  /\ Reservation(j, r) <= MaxDelay
  /\ Reservation(j, r) * RatioDen <= Runtime[j] * RatioNum
  /\ Flexible[j] /\ Reliable[j] /\ ~Baseline

ControllerInv ==
  /\ OneFate
  /\ \A j \in DOMAIN held : HoldOK(j, held[j], lastNow)
  /\ DOMAIN held # {} => answer.wake > lastNow /\ \A j \in DOMAIN held : answer.wake <= held[j]
  /\ BudgetKept

\* what a request may be, whoever sends it
GoodRequest(arrivals, states, now) == arrivals \subseteq Job /\ GoodStates(states) /\ now \in Nat

\* what the holds of h reserve of the budget of u
Reserves(h, u) == Total([j \in DOMAIN h |-> Reservation(j, h[j])], OfUser(u, DOMAIN h))
\* what the bridge came late with the holds of set
Lateness(set, now, u) == Total([j \in set |-> Larger(now - held[j], 0)], OfUser(u, set))

\* what the fold of Plan keeps of its accumulator: holds that are within their
\* bounds and whose reservations the account holds, within the budget
PlanOK(acc, arrivals, states, now) ==
  LET ending == Ending(states, now) IN
  /\ DOMAIN held \ ending \subseteq DOMAIN acc.held
  /\ DOMAIN acc.held \subseteq (DOMAIN held \ ending) \union arrivals
  /\ \A j \in DOMAIN acc.held : HoldOK(j, acc.held[j], now)
  /\ \A u \in User :
       /\ acc.reserved[u] = Reserves(acc.held, u)
       /\ SettleSpent(ending, now)[u] + acc.reserved[u] <= UserBudget + late[u] + Lateness(ending, now, u)

Plans(arrivals, states, now) ==
  {acc \in [held : UNION {[D -> Nat] : D \in SUBSET Job}, reserved : [User -> Int]] :
     PlanOK(acc, arrivals, states, now)}

LEMMA OfUserFinite ==
  ASSUME NEW u, NEW jobs \in SUBSET Job
  PROVE  IsFiniteSet(jobs) /\ IsFiniteSet(OfUser(u, jobs)) /\ OfUser(u, jobs) \subseteq jobs
<1>1. IsFiniteSet(jobs)  BY Constants, FS_Subset
<1>2. OfUser(u, jobs) \in SUBSET jobs  BY DEF OfUser
<1>. QED  BY <1>1, <1>2, FS_Subset

\* The holds that do not end, and the accounts without those that do.
LEMMA KeptIsPlan ==
  ASSUME ControllerInv, NEW arrivals, NEW states, NEW now, GoodRequest(arrivals, states, now)
  PROVE  LET ending == Ending(states, now) IN
         [held |-> [j \in DOMAIN held \ ending |-> held[j]], reserved |-> SettleReserved(ending)]
           \in Plans(arrivals, states, now)
<1>. DEFINE ending == Ending(states, now)
            rest == DOMAIN held \ ending
            kept == [j \in rest |-> held[j]]
            R == [j \in DOMAIN held |-> Reservation(j, held[j])]
<1>1. /\ DOMAIN held \subseteq Job /\ ending \subseteq DOMAIN held
      /\ \A j \in rest : now < held[j]
  <2>1. DOMAIN held \subseteq Job  BY DEF ControllerInv, OneFate, TypeOK
  <2>2. \A j \in rest : ~(now >= held[j])  BY DEF Ending
  <2>3. \A j \in DOMAIN held : held[j] \in Nat  BY DEF ControllerInv, OneFate, TypeOK
  <2>. QED  BY <2>1, <2>2, <2>3 DEF Ending, GoodRequest
<1>2. \A j \in DOMAIN held : HoldOK(j, held[j], lastNow) /\ held[j] \in Nat /\ Arrival[j] \in Nat /\ held[j] > Arrival[j]
  BY <1>1, Constants DEF ControllerInv, HoldOK
<1>3. \A j \in rest : HoldOK(j, kept[j], now)  BY <1>1, <1>2 DEF HoldOK
<1>4. now \in Nat  BY DEF GoodRequest
<1>. HIDE DEF ending
<1>5. \A u \in User :
        LET Re == Total(R, OfUser(u, ending)) IN
        /\ reserved[u] \in Int /\ Re \in Int /\ spent[u] \in Int /\ late[u] \in Int
        /\ SettleReserved(ending)[u] = reserved[u] - Re
        /\ reserved[u] = Re + Reserves(kept, u)
        /\ Reserves(kept, u) \in Int
        /\ SettleSpent(ending, now)[u] - spent[u] <= Re + Lateness(ending, now, u)
        /\ SettleSpent(ending, now)[u] \in Int /\ Lateness(ending, now, u) \in Int
        /\ spent[u] + reserved[u] <= UserBudget + late[u]
  <2>. SUFFICES ASSUME NEW u \in User
                PROVE  LET Re == Total(R, OfUser(u, ending)) IN
                       /\ reserved[u] \in Int /\ Re \in Int /\ spent[u] \in Int /\ late[u] \in Int
                       /\ SettleReserved(ending)[u] = reserved[u] - Re
                       /\ reserved[u] = Re + Reserves(kept, u)
                       /\ Reserves(kept, u) \in Int
                       /\ SettleSpent(ending, now)[u] - spent[u] <= Re + Lateness(ending, now, u)
                       /\ SettleSpent(ending, now)[u] \in Int /\ Lateness(ending, now, u) \in Int
                       /\ spent[u] + reserved[u] <= UserBudget + late[u]
    OBVIOUS
  <2>. DEFINE all == OfUser(u, DOMAIN held)
              gone == OfUser(u, ending)
              stay == OfUser(u, rest)
              G == [j \in ending |-> Reservation(j, held[j])]
              W == [j \in ending |-> Larger(now - Arrival[j], 0)]
              L == [j \in ending |-> Larger(now - held[j], 0)]
              K == [j \in DOMAIN kept |-> Reservation(j, kept[j])]
  <2>1. /\ IsFiniteSet(all) /\ IsFiniteSet(gone) /\ IsFiniteSet(stay)
        /\ all \subseteq DOMAIN held /\ gone \subseteq ending /\ stay \subseteq rest
    BY <1>1, OfUserFinite
  <2>2. \A j \in DOMAIN held : R[j] \in Int  BY <1>2 DEF Reservation
  <2>3. gone \in SUBSET all /\ all \ gone = stay  BY <1>1 DEF OfUser
  <2>4. reserved[u] = Total(R, all)  BY DEF ControllerInv, BudgetKept, ReservedIsHeld
  <2>5. Total(R, all) = Total(R, gone) + Total(R, stay)
    <3>. HIDE DEF all, gone, stay, R
    <3>1. \A j \in all : R[j] \in Int  BY <2>1, <2>2
    <3>2. Total(R, all) = Total(R, gone) + Total(R, all \ gone)  BY <2>1, <2>3, <3>1, TotalSplit
    <3>. QED  BY <2>3, <3>2
  <2>6. Total(R, gone) \in Int /\ Total(R, stay) \in Int
    <3>1. (\A j \in gone : R[j] \in Int) /\ (\A j \in stay : R[j] \in Int)
      <4>. HIDE DEF all, gone, stay, R
      <4>. QED  BY <1>1, <2>1, <2>2
    <3>. HIDE DEF all, gone, stay, R
    <3>. QED  BY <2>1, <3>1, TotalInt
  <2>7. Total(R, stay) = Reserves(kept, u)
    <3>1. \A j \in stay : R[j] = K[j]  BY <2>1
    <3>2. Reserves(kept, u) = Total(K, stay)  BY DEF Reserves
    <3>3. Total(R, stay) = Total(K, stay)
      <4>. HIDE DEF R, K, stay
      <4>. QED  BY <2>1, <3>1, TotalSame
    <3>. QED  BY <3>2, <3>3
  <2>8. SettleReserved(ending)[u] = reserved[u] - Total(R, gone)
    <3>1. SettleReserved(ending)[u] = reserved[u] - Total(G, gone)  BY DEF SettleReserved
    <3>2. \A j \in gone : R[j] = G[j]  BY <1>1, <2>1
    <3>3. Total(R, gone) = Total(G, gone)
      <4>. HIDE DEF R, G, gone
      <4>. QED  BY <2>1, <3>2, TotalSame
    <3>. QED  BY <3>1, <3>3
  <2>9. SettleSpent(ending, now)[u] = spent[u] + Total(W, gone)  BY DEF SettleSpent
  <2>10. Lateness(ending, now, u) = Total(L, gone)  BY DEF Lateness
  <2>11. \A j \in gone : W[j] \in Int /\ R[j] \in Int /\ L[j] \in Int /\ W[j] <= R[j] + L[j]
    <3>1. SUFFICES ASSUME NEW j \in gone
                   PROVE  W[j] \in Int /\ R[j] \in Int /\ L[j] \in Int /\ W[j] <= R[j] + L[j]
      OBVIOUS
    <3>2. j \in ending /\ j \in DOMAIN held  BY <1>1, <2>1
    <3>3. W[j] = Larger(now - Arrival[j], 0) /\ R[j] = held[j] - Arrival[j] /\ L[j] = Larger(now - held[j], 0)
      BY <3>2 DEF Reservation
    <3>4. held[j] \in Nat /\ Arrival[j] \in Nat /\ held[j] > Arrival[j]  BY <1>2, <3>2
    <3>. HIDE DEF W, R, L
    <3>. QED  BY <1>4, <3>3, <3>4 DEF Larger
  <2>12. /\ Total(W, gone) <= Total(R, gone) + Total(L, gone)
         /\ Total(W, gone) \in Int /\ Total(L, gone) \in Int
    <3>. HIDE DEF W, R, L, gone
    <3>. QED  BY <2>1, <2>11, TotalAtMost, TotalInt
  <2>13. spent[u] \in Int /\ late[u] \in Int /\ reserved[u] \in Int /\ spent[u] + reserved[u] <= UserBudget + late[u]
    BY DEF ControllerInv, OneFate, TypeOK, BudgetKept
  <2>14. SettleSpent(ending, now)[u] - spent[u] <= Total(R, gone) + Lateness(ending, now, u)
    <3>. HIDE DEF W, R, L, gone
    <3>. QED  BY <2>6, <2>9, <2>10, <2>12, <2>13
  <2>15. reserved[u] = Total(R, gone) + Reserves(kept, u)
    <3>. HIDE DEF R, gone, stay, all, kept
    <3>. QED  BY <2>4, <2>5, <2>7
  <2>. HIDE DEF W, R, L, gone, G, K, kept, stay, all
  <2>. QED  BY <2>6, <2>7, <2>8, <2>9, <2>10, <2>12, <2>13, <2>14, <2>15 DEF gone
<1>. DEFINE acc == [held |-> kept, reserved |-> SettleReserved(ending)]
<1>6. /\ kept \in [rest -> Nat] /\ rest \in SUBSET Job /\ DOMAIN kept = rest
  BY <1>1, <1>2
<1>7. SettleReserved(ending) \in [User -> Int]
  <2>1. \A u \in User : SettleReserved(ending)[u] \in Int
    <3>. HIDE DEF R, kept
    <3>. QED  BY <1>5
  <2>2. SettleReserved(ending) = [u \in User |-> SettleReserved(ending)[u]]  BY DEF SettleReserved
  <2>. QED  BY <2>1, <2>2
<1>8. \A u \in User : /\ SettleReserved(ending)[u] = Reserves(kept, u)
                      /\ SettleSpent(ending, now)[u] + SettleReserved(ending)[u]
                           <= UserBudget + late[u] + Lateness(ending, now, u)
  <2>1. UserBudget \in Nat  BY Constants
  <2>. HIDE DEF R, kept
  <2>. QED  BY <1>5, <2>1
<1>9. PlanOK(acc, arrivals, states, now)
  <2>1. acc.held = kept /\ acc.reserved = SettleReserved(ending)  OBVIOUS
  <2>2. \A j \in DOMAIN kept : HoldOK(j, kept[j], now)  BY <1>3, <1>6
  <2>. HIDE DEF acc, kept
  <2>. QED  BY <1>6, <1>8, <2>1, <2>2 DEF PlanOK, ending
<1>10. acc \in [held : UNION {[D -> Nat] : D \in SUBSET Job}, reserved : [User -> Int]]
  <2>. HIDE DEF kept, rest
  <2>. QED  BY <1>6, <1>7
<1>. QED  BY <1>9, <1>10 DEF Plans, ending

\* One more candidate: it is admitted only where the budget has room.
LEMMA AdmitKeeps ==
  ASSUME ControllerInv, NEW arrivals, NEW states, NEW now, GoodRequest(arrivals, states, now),
         NEW acc \in Plans(arrivals, states, now),
         NEW c \in Candidates(arrivals \ Immediate(arrivals, states, now), states, now)
  PROVE  Admit(SettleSpent(Ending(states, now), now), acc, c) \in Plans(arrivals, states, now)
<1>. DEFINE ending == Ending(states, now)
            used == SettleSpent(ending, now)
            waiting == arrivals \ Immediate(arrivals, states, now)
            j == c.job
            r == c.release
            v == UserOf[j]
            H == [i \in DOMAIN acc.held \union {j} |-> IF i = j THEN r ELSE acc.held[i]]
            Z == [acc.reserved EXCEPT ![v] = @ + Reservation(j, r)]
            Inside(f) == f \in [held : UNION {[D -> Nat] : D \in SUBSET Job}, reserved : [User -> Int]]
<1>1. CASE j \in DOMAIN acc.held \/ ~Affordable(used, acc, c)  BY <1>1 DEF Admit
<1>2. CASE j \notin DOMAIN acc.held /\ Affordable(used, acc, c)
  <2>1. Admit(used, acc, c) = [held |-> H, reserved |-> Z]  BY <1>2 DEF Admit
  <2>2. Inside(acc) /\ PlanOK(acc, arrivals, states, now)  BY DEF Plans
  <2>3. PICK D \in SUBSET Job : acc.held \in [D -> Nat]  BY <2>2
  <2>4. /\ j \in waiting /\ j \in Job /\ r \in Grid(j, now) /\ now \in Nat /\ v \in User
    <3>1. waiting \in SUBSET Job /\ GoodStates(states) /\ now \in Nat  BY DEF GoodRequest
    <3>2. j \in waiting /\ r \in Grid(j, now)  BY <3>1, CandidateIs DEF Of
    <3>3. j \in Job  BY <3>1, <3>2
    <3>. QED  BY <3>1, <3>2, <3>3, Constants
  <2>5. HoldOK(j, r, now)
    <3>1. Flexible[j] /\ Reliable[j] /\ ~Baseline  BY <2>4 DEF Immediate
    <3>. QED  BY <2>4, <3>1, GridBound DEF HoldOK
  <2>. DEFINE E == D \union {j}
  <2>6. /\ DOMAIN H = E /\ j \notin D /\ DOMAIN acc.held = D /\ H[j] = r
        /\ \A i \in D : H[i] = acc.held[i]
        /\ H \in [E -> Nat]
    <3>1. DOMAIN acc.held = D /\ j \notin D  BY <1>2, <2>3
    <3>2. r \in Nat  BY <2>5 DEF HoldOK
    <3>. QED  BY <2>3, <3>1, <3>2
  <2>. HIDE DEF H
  <2>7. acc.reserved \in [User -> Int] /\ Reservation(j, r) \in Int
    <3>1. acc.reserved \in [User -> Int]  BY <2>2
    <3>2. r \in Nat /\ Arrival[j] \in Nat  BY <2>4, <2>5, Constants DEF HoldOK
    <3>. QED  BY <3>1, <3>2 DEF Reservation
  <2>8. /\ Z \in [User -> Int] /\ Z[v] = acc.reserved[v] + Reservation(j, r)
        /\ \A u \in User : u # v => Z[u] = acc.reserved[u]
    BY <2>4, <2>7
  <2>9. \A i \in E : HoldOK(i, H[i], now)
    BY <2>2, <2>5, <2>6 DEF PlanOK
  <2>. DEFINE f == [i \in DOMAIN H |-> Reservation(i, H[i])]
              g == [i \in DOMAIN acc.held |-> Reservation(i, acc.held[i])]
  <2>10. \A i \in D : f[i] = g[i] /\ f[i] \in Int
    <3>1. \A i \in D : f[i] = Reservation(i, H[i]) /\ g[i] = Reservation(i, H[i])  BY <2>6
    <3>2. \A i \in D : H[i] \in Nat /\ Arrival[i] \in Nat  BY <2>6, Constants
    <3>. HIDE DEF f, g
    <3>. QED  BY <3>1, <3>2 DEF Reservation
  <2>11. f[j] = Reservation(j, r)  BY <2>6
  <2>12. \A u \in User : Total(f, OfUser(u, D)) = Reserves(acc.held, u)
    <3>1. SUFFICES ASSUME NEW u \in User PROVE Total(f, OfUser(u, D)) = Reserves(acc.held, u)  OBVIOUS
    <3>2. Reserves(acc.held, u) = Total(g, OfUser(u, D))  BY <2>6 DEF Reserves
    <3>3. IsFiniteSet(OfUser(u, D)) /\ OfUser(u, D) \subseteq D  BY OfUserFinite
    <3>. HIDE DEF f, g
    <3>. QED  BY <2>10, <3>2, <3>3, TotalSame
  <2>13. \A u \in User : Reserves(H, u) = Total(f, OfUser(u, E))  BY <2>6 DEF Reserves
  <2>14. \A u \in User : u # v => OfUser(u, E) = OfUser(u, D)  BY DEF OfUser
  <2>15. Reserves(H, v) = Reservation(j, r) + Reserves(acc.held, v)
    <3>1. OfUser(v, E) = OfUser(v, D) \union {j} /\ j \notin OfUser(v, D)  BY <2>6 DEF OfUser
    <3>2. IsFiniteSet(OfUser(v, D)) /\ OfUser(v, D) \subseteq D  BY OfUserFinite
    <3>3. \A i \in OfUser(v, D) \union {j} : f[i] \in Int
      <4>. HIDE DEF f
      <4>. QED  BY <2>7, <2>10, <2>11, <3>2
    <3>4. Total(f, OfUser(v, D) \union {j}) = f[j] + Total(f, OfUser(v, D))
      <4>. HIDE DEF f, j
      <4>. QED  BY <3>1, <3>2, <3>3, TotalAdd
    <3>. HIDE DEF f
    <3>. QED  BY <2>4, <2>11, <2>12, <2>13, <3>1, <3>4
  <2>. HIDE DEF f, g
  <2>16. \A u \in User : /\ Z[u] = Reserves(H, u)
                         /\ used[u] + Z[u] <= UserBudget + late[u] + Lateness(ending, now, u)
    <3>1. SUFFICES ASSUME NEW u \in User
                   PROVE  /\ Z[u] = Reserves(H, u)
                          /\ used[u] + Z[u] <= UserBudget + late[u] + Lateness(ending, now, u)
      OBVIOUS
    <3>2. /\ acc.reserved[u] = Reserves(acc.held, u)
          /\ used[u] + acc.reserved[u] <= UserBudget + late[u] + Lateness(ending, now, u)
      BY <2>2 DEF PlanOK
    <3>3. CASE u # v
      <4>1. Reserves(H, u) = Reserves(acc.held, u)  BY <2>12, <2>13, <2>14, <3>3
      <4>. QED  BY <2>8, <3>2, <3>3, <4>1
    <3>4. CASE u = v
      <4>1. used[v] + acc.reserved[v] + Reservation(j, r) <= UserBudget  BY <1>2 DEF Affordable
      <4>2. late[v] \in Nat  BY <2>4 DEF ControllerInv, OneFate, TypeOK
      <4>3. Lateness(ending, now, v) \in Nat
        <5>. DEFINE L == [i \in ending |-> Larger(now - held[i], 0)]
        <5>1. ending \subseteq DOMAIN held /\ DOMAIN held \subseteq Job /\ \A i \in DOMAIN held : held[i] \in Nat
          BY DEF Ending, ControllerInv, OneFate, TypeOK
        <5>. HIDE DEF ending
        <5>2. IsFiniteSet(OfUser(v, ending)) /\ OfUser(v, ending) \subseteq ending  BY <5>1, OfUserFinite
        <5>3. \A i \in ending : L[i] \in Nat  BY <2>4, <5>1 DEF Larger
        <5>4. \A i \in OfUser(v, ending) : L[i] \in Nat  BY <5>2, <5>3
        <5>. HIDE DEF L, v
        <5>5. Total(L, OfUser(v, ending)) \in Nat  BY <5>2, <5>4, TotalNat
        <5>. QED  BY <5>5 DEF Lateness, L
      <4>4. used[v] \in Int /\ acc.reserved[v] \in Int
        <5>1. acc.reserved[v] \in Int  BY <2>4, <2>7
        <5>2. used[v] \in Int
          <6>. DEFINE W == [i \in ending |-> Larger(now - Arrival[i], 0)]
          <6>1. ending \subseteq Job  BY DEF Ending, ControllerInv, OneFate, TypeOK
          <6>2. spent[v] \in Int  BY <2>4 DEF ControllerInv, OneFate, TypeOK
          <6>. HIDE DEF ending
          <6>3. IsFiniteSet(OfUser(v, ending)) /\ OfUser(v, ending) \subseteq ending  BY <6>1, OfUserFinite
          <6>4. \A i \in ending : W[i] \in Int
            <7>1. \A i \in ending : Arrival[i] \in Nat  BY <6>1, Constants
            <7>. QED  BY <2>4, <7>1 DEF Larger
          <6>5. \A i \in OfUser(v, ending) : W[i] \in Int  BY <6>3, <6>4
          <6>6. Total(W, OfUser(v, ending)) \in Int
            <7>. HIDE DEF W, v
            <7>. QED  BY <6>3, <6>5, TotalInt
          <6>7. used[v] = spent[v] + Total(W, OfUser(v, ending))  BY <2>4 DEF SettleSpent
          <6>. HIDE DEF W, v, used
          <6>. QED  BY <6>2, <6>6, <6>7
        <5>. QED  BY <5>1, <5>2
      <4>. HIDE DEF used, v, Z, ending
      <4>5. UserBudget \in Nat  BY Constants
      <4>. QED  BY <2>7, <2>8, <2>15, <3>2, <3>4, <4>1, <4>2, <4>3, <4>4, <4>5
    <3>. QED  BY <3>3, <3>4
  <2>. DEFINE new == [held |-> H, reserved |-> Z]
  <2>17. PlanOK(new, arrivals, states, now)
    <3>1. new.held = H /\ new.reserved = Z  OBVIOUS
    <3>2. DOMAIN held \ ending \subseteq E /\ E \subseteq (DOMAIN held \ ending) \union arrivals
      BY <2>2, <2>4, <2>6 DEF PlanOK
    <3>. HIDE DEF Z, new, E
    <3>. QED  BY <2>6, <2>9, <2>16, <3>1, <3>2 DEF PlanOK
  <2>18. Inside(new)
    <3>1. E \in SUBSET Job  BY <2>4
    <3>. HIDE DEF E, Z
    <3>. QED  BY <2>6, <2>8, <3>1
  <2>. QED  BY <2>1, <2>17, <2>18 DEF Plans
<1>. QED  BY <1>1, <1>2

LEMMA PlanIs ==
  ASSUME ControllerInv, NEW arrivals, NEW states, NEW now, GoodRequest(arrivals, states, now)
  PROVE  Plan(arrivals, states, now) \in Plans(arrivals, states, now)
<1>. DEFINE ending == Ending(states, now)
            used == SettleSpent(ending, now)
            base == [held |-> [j \in DOMAIN held \ ending |-> held[j]], reserved |-> SettleReserved(ending)]
            S == Candidates(arrivals \ Immediate(arrivals, states, now), states, now)
            seq == Ranked(S)
            n == Cardinality(S)
            I == Plans(arrivals, states, now)
<1>1. base \in I  BY KeptIsPlan
<1>2. n \in Nat /\ DOMAIN seq = 1..n /\ \A i \in 1..n : seq[i] \in S
  <2>1. arrivals \ Immediate(arrivals, states, now) \in SUBSET Job /\ GoodStates(states) /\ now \in Nat
    BY DEF GoodRequest
  <2>. QED  BY <2>1, RankedIs
<1>3. \A acc \in I : \A i \in 1..n : Admit(used, acc, seq[i]) \in I
  <2>1. SUFFICES ASSUME NEW acc \in I, NEW i \in 1..n PROVE Admit(used, acc, seq[i]) \in I  OBVIOUS
  <2>2. seq[i] \in S  BY <1>2
  <2>. HIDE DEF seq
  <2>. QED  BY <2>2, AdmitKeeps
<1>4. Plan(arrivals, states, now) = Folded(used, base, seq)
  BY DEF Plan, Folded
<1>. HIDE DEF base, seq, n, I, used
<1>5. Folded(used, base, seq) \in I
  BY <1>1, <1>2, <1>3, FoldKeeps
<1>. QED  BY <1>4, <1>5 DEF I

-----------------------------------------------------------------------------
(* The steps *)

\* The wake-up is to come, and no hold is planned before it.
LEMMA WakeInTime ==
  ASSUME NEW holds, NEW now \in Nat, \A j \in DOMAIN holds : holds[j] \in Nat /\ holds[j] > now
  PROVE  /\ NextWake(holds, now) \in Nat /\ NextWake(holds, now) > now
         /\ NextWake(holds, now) <= now + Larger(IdleWake, TickS)
         /\ \A j \in DOMAIN holds : NextWake(holds, now) <= holds[j]
<1>0. TickS \in Nat \ {0} /\ IdleWake \in Nat \ {0}  BY Constants
<1>1. CASE DOMAIN holds = {}  BY <1>0, <1>1 DEF NextWake, Larger
<1>2. CASE DOMAIN holds # {}
  <2>. DEFINE S == {holds[j] : j \in DOMAIN holds} \union {now + TickS}
  <2>1. /\ S \in SUBSET Nat /\ S # {} /\ \A m \in S : m > now
        /\ now + TickS \in S /\ \A j \in DOMAIN holds : holds[j] \in S
    BY <1>0
  <2>. HIDE DEF S
  <2>2. \E m \in S : \A n \in S : m <= n  BY <2>1, LeastNatural
  <2>3. Min(S) \in S /\ \A n \in S : Min(S) <= n  BY <2>2 DEF Min
  <2>4. NextWake(holds, now) = Min(S)  BY <1>2 DEF NextWake, S
  <2>5. Min(S) \in Nat /\ Min(S) <= now + TickS  BY <2>1, <2>3
  <2>. QED  BY <1>0, <1>2, <2>1, <2>3, <2>4, <2>5 DEF Larger
<1>. QED  BY <1>1, <1>2

\* An answer to any good request, whoever sends it.
LEMMA AnswerKeeps ==
  ASSUME ControllerInv, NEW arrivals, NEW states, NEW now, GoodRequest(arrivals, states, now),
         Answer(arrivals, states, now)
  PROVE  ControllerInv'
<1>. DEFINE ending == Ending(states, now)
            plan == Plan(arrivals, states, now)
            output == Output(ending, arrivals, states, now, plan.held)
<1>1. /\ held' = plan.held /\ reserved' = plan.reserved
      /\ spent' = SettleSpent(ending, now)
      /\ released' = released \union output
      /\ answer' = [release |-> output, wake |-> NextWake(plan.held, now)]
      /\ late' = [u \in User |-> late[u] + Lateness(ending, now, u)]
      /\ seen' = seen \union arrivals /\ lastNow' = now /\ alive' = alive
      /\ arrivals \cap seen = {}
  BY DEF Answer, Raises, Lateness
<1>2. plan \in Plans(arrivals, states, now)  BY PlanIs
<1>. HIDE DEF plan
<1>3. PlanOK(plan, arrivals, states, now)
      /\ plan.reserved \in [User -> Int] /\ \E D \in SUBSET Job : plan.held \in [D -> Nat]
  BY <1>2 DEF Plans
<1>4. PICK D \in SUBSET Job : held' \in [D -> Nat]  BY <1>1, <1>3
<1>5. now \in Nat /\ arrivals \subseteq Job  BY DEF GoodRequest
<1>6. /\ DOMAIN held' = D /\ ending \subseteq DOMAIN held
      /\ DOMAIN held \ ending \subseteq D /\ D \subseteq (DOMAIN held \ ending) \union arrivals
      /\ \A j \in D : HoldOK(j, held'[j], now)
  BY <1>1, <1>3, <1>4 DEF PlanOK, Ending
<1>7. \A u \in User : /\ reserved'[u] = Reserves(held', u)
                      /\ spent'[u] + reserved'[u] <= UserBudget + late[u] + Lateness(ending, now, u)
  BY <1>1, <1>3 DEF PlanOK
<1>8. /\ DOMAIN held \subseteq Job /\ \A j \in DOMAIN held : held[j] \in Nat
      /\ seen \subseteq Job /\ released \subseteq Job
      /\ spent \in [User -> Nat] /\ late \in [User -> Nat] /\ alive \in BOOLEAN
      /\ seen = DOMAIN held \union released /\ DOMAIN held \cap released = {}
  BY DEF ControllerInv, OneFate, TypeOK
<1>. HIDE DEF ending
<1>9. \A u \in User : Lateness(ending, now, u) \in Nat /\ SettleSpent(ending, now)[u] \in Nat
  <2>1. SUFFICES ASSUME NEW u \in User
                 PROVE  Lateness(ending, now, u) \in Nat /\ SettleSpent(ending, now)[u] \in Nat
    OBVIOUS
  <2>. DEFINE L == [i \in ending |-> Larger(now - held[i], 0)]
              W == [i \in ending |-> Larger(now - Arrival[i], 0)]
              U == OfUser(u, ending)
  <2>2. IsFiniteSet(U) /\ U \subseteq ending  BY <1>6, <1>8, OfUserFinite
  <2>3. \A i \in ending : L[i] \in Nat /\ W[i] \in Nat
    <3>1. \A i \in ending : held[i] \in Nat /\ Arrival[i] \in Nat  BY <1>6, <1>8, Constants
    <3>. QED  BY <1>5, <3>1 DEF Larger
  <2>4. Total(L, U) \in Nat /\ Total(W, U) \in Nat
    <3>. HIDE DEF L, W, U
    <3>1. \A i \in U : L[i] \in Nat /\ W[i] \in Nat  BY <2>2, <2>3
    <3>. QED  BY <2>2, <3>1, TotalNat
  <2>5. Lateness(ending, now, u) = Total(L, U)  BY DEF Lateness
  <2>6. SettleSpent(ending, now)[u] = spent[u] + Total(W, U)  BY DEF SettleSpent
  <2>7. spent[u] \in Nat  BY <1>8
  <2>. HIDE DEF L, W, U
  <2>. QED  BY <2>4, <2>5, <2>6, <2>7
<1>10. late' \in [User -> Nat] /\ spent' \in [User -> Nat]
  <2>1. spent' = [u \in User |-> SettleSpent(ending, now)[u]]  BY <1>1 DEF SettleSpent
  <2>. QED  BY <1>1, <1>8, <1>9, <2>1
<1>11. reserved' \in [User -> Nat]
  <2>1. SUFFICES ASSUME NEW u \in User PROVE reserved'[u] \in Nat
    BY <1>1, <1>3
  <2>. DEFINE f == [j \in DOMAIN held' |-> Reservation(j, held'[j])]
  <2>2. \A j \in D : f[j] \in Nat
    <3>1. SUFFICES ASSUME NEW j \in D PROVE f[j] \in Nat  OBVIOUS
    <3>2. f[j] = held'[j] - Arrival[j]  BY <1>6 DEF Reservation
    <3>3. held'[j] \in Nat /\ held'[j] > Arrival[j] /\ Arrival[j] \in Nat
      BY <1>4, <1>6, Constants DEF HoldOK
    <3>. HIDE DEF f
    <3>. QED  BY <3>2, <3>3
  <2>3. IsFiniteSet(OfUser(u, D)) /\ OfUser(u, D) \subseteq D  BY OfUserFinite
  <2>4. Total(f, OfUser(u, D)) \in Nat
    <3>. HIDE DEF f
    <3>1. \A j \in OfUser(u, D) : f[j] \in Nat  BY <2>2, <2>3
    <3>. QED  BY <2>3, <3>1, TotalNat
  <2>5. reserved'[u] = Total(f, OfUser(u, D))  BY <1>6, <1>7 DEF Reserves
  <2>. QED  BY <2>4, <2>5
<1>12. output = ending \union (arrivals \ D)  BY <1>1, <1>6 DEF Output
<1>13. answer'.release = output /\ answer'.wake = NextWake(held', now)  BY <1>1
<1>14. /\ NextWake(held', now) \in Nat
       /\ D # {} => NextWake(held', now) > now /\ \A j \in D : NextWake(held', now) <= held'[j]
  <2>1. \A j \in DOMAIN held' : held'[j] \in Nat /\ held'[j] > now  BY <1>4, <1>6 DEF HoldOK
  <2>. QED  BY <1>5, <1>6, <2>1, WakeInTime
<1>. HIDE DEF output
<1>15. TypeOK'
  <2>1. DOMAIN held' \subseteq Job /\ \A j \in DOMAIN held' : held'[j] \in Nat  BY <1>4
  <2>2. output \subseteq Job  BY <1>5, <1>6, <1>8, <1>12
  <2>. QED  BY <1>1, <1>5, <1>8, <1>10, <1>11, <1>13, <1>14, <2>1, <2>2 DEF TypeOK
<1>16. OneFate'
  <2>1. seen' = D \union released' /\ D \cap released' = {}
    BY <1>1, <1>6, <1>8, <1>12
  <2>. QED  BY <1>6, <1>15, <2>1 DEF OneFate
<1>17. BudgetKept'
  <2>1. ReservedIsHeld'  BY <1>7 DEF ReservedIsHeld, Reserves
  <2>2. \A u \in User : spent'[u] + reserved'[u] <= UserBudget + late'[u]
    <3>1. SUFFICES ASSUME NEW u \in User PROVE spent'[u] + reserved'[u] <= UserBudget + late'[u]
      OBVIOUS
    <3>2. late'[u] = late[u] + Lateness(ending, now, u)  BY <1>1
    <3>3. UserBudget \in Nat /\ late[u] \in Nat /\ Lateness(ending, now, u) \in Nat
          /\ spent'[u] \in Nat /\ reserved'[u] \in Nat
      BY <1>8, <1>9, <1>10, <1>11, Constants
    <3>. QED  BY <1>7, <3>2, <3>3
  <2>. QED  BY <2>1, <2>2 DEF BudgetKept
<1>. QED  BY <1>1, <1>6, <1>13, <1>14, <1>16, <1>17 DEF ControllerInv

\* An answer releases holds and arrivals, and wakes the bridge after now, but
\* not beyond a tick or the idle time.
LEMMA AnswerIs ==
  ASSUME ControllerInv, NEW arrivals, NEW states, NEW now, GoodRequest(arrivals, states, now),
         Answer(arrivals, states, now)
  PROVE  /\ answer'.release \subseteq DOMAIN held \union arrivals
         /\ released' = released \union answer'.release
         /\ seen' = seen \union arrivals /\ lastNow' = now /\ alive' = alive
         /\ answer'.wake \in Nat /\ answer'.wake > now
         /\ answer'.wake <= now + Larger(IdleWake, TickS)
         /\ \A j \in DOMAIN held' : answer'.wake <= held'[j]
<1>. DEFINE ending == Ending(states, now)
            plan == Plan(arrivals, states, now)
            output == Output(ending, arrivals, states, now, plan.held)
<1>1. /\ held' = plan.held /\ released' = released \union output
      /\ answer' = [release |-> output, wake |-> NextWake(plan.held, now)]
      /\ seen' = seen \union arrivals /\ lastNow' = now /\ alive' = alive
  BY DEF Answer
<1>2. output \subseteq DOMAIN held \union arrivals  BY DEF Output, Ending
<1>. HIDE DEF plan, output
<1>3. now \in Nat /\ \A j \in DOMAIN held' : held'[j] \in Nat /\ held'[j] > now
  BY <1>1, AnswerKeeps DEF ControllerInv, HoldOK, GoodRequest
<1>. QED  BY <1>1, <1>2, <1>3, WakeInTime

\* A snapshot that shows a job once is finite.
LEMMA SnapshotIsGood ==
  ASSUME NEW S, \A s \in S : s.id \in Job /\ s.start \in Int, \A s, t \in S : s.id = t.id => s = t
  PROVE  GoodStates(S)
<1>. DEFINE f == [s \in S |-> s.id]
<1>1. f \in Injection(S, Job)  BY DEF Injection, IsInjective
<1>2. IsFiniteSet(S)  BY <1>1, Constants, FS_Injection
<1>. QED  BY <1>2 DEF GoodStates

\* What a bridge that obeys the protocol sends is a good request.
LEMMA ServeIsGood ==
  ASSUME ControllerInv, NEW now \in lastNow..(lastNow + MaxStep),
         NEW arrivals \in SUBSET {j \in Job \ seen : Arrival[j] <= now},
         NEW state, NEW start \in {lastNow, now}
  PROVE  GoodRequest(arrivals, {[id |-> j, state |-> state[j], start |-> start] : j \in released}, now)
<1>. DEFINE S == {[id |-> j, state |-> state[j], start |-> start] : j \in released}
<1>1. released \subseteq Job /\ lastNow \in Nat  BY DEF ControllerInv, OneFate, TypeOK
<1>2. now \in Nat /\ start \in Int  BY <1>1
<1>3. /\ \A s \in S : s.id \in Job /\ s.start \in Int
      /\ \A s, t \in S : s.id = t.id => s = t
  BY <1>1, <1>2
<1>. HIDE DEF S
<1>4. GoodStates(S)  BY <1>3, SnapshotIsGood
<1>. QED  BY <1>2, <1>4 DEF GoodRequest, S

\* A request that breaks the protocol ends the process: it is never answered.
LEMMA MisuseRaises ==
  ASSUME ControllerInv, Misuse
  PROVE  alive' = FALSE /\ UNCHANGED <<held, seen, released, spent, reserved, lastNow, answer, late>>
<1>0. lastNow \in Nat  BY DEF ControllerInv, OneFate, TypeOK
<1>1. CASE Step({}, {}, lastNow - 1)
  <2>1. Raises({}, {}, lastNow - 1)  BY <1>0 DEF Raises
  <2>. QED  BY <1>1, <2>1 DEF Step, Raise, Answer
<1>2. CASE \E j \in seen : Step({j}, {}, lastNow)
  <2>1. PICK j \in seen : Step({j}, {}, lastNow)  BY <1>2
  <2>2. Raises({j}, {}, lastNow)  BY DEF Raises
  <2>. QED  BY <2>1, <2>2 DEF Step, Raise, Answer
<1>3. CASE \E j \in Job \ released :
             Step({}, {[id |-> j, state |-> "running", start |-> lastNow]}, lastNow)
  <2>1. PICK j \in Job \ released :
          Step({}, {[id |-> j, state |-> "running", start |-> lastNow]}, lastNow)
    BY <1>3
  <2>2. Raises({}, {[id |-> j, state |-> "running", start |-> lastNow]}, lastNow)  BY DEF Raises
  <2>. QED  BY <2>1, <2>2 DEF Step, Raise, Answer
<1>. QED  BY <1>1, <1>2, <1>3 DEF Misuse

LEMMA RaiseKeeps ==
  ASSUME ControllerInv, alive' = FALSE,
         UNCHANGED <<held, seen, released, spent, reserved, lastNow, answer, late>>
  PROVE  ControllerInv'
<1>1. TypeOK'  BY DEF ControllerInv, OneFate, TypeOK
<1>2. OneFate'  BY <1>1 DEF ControllerInv, OneFate
<1>3. BudgetKept'  BY DEF ControllerInv, BudgetKept, ReservedIsHeld
<1>. QED  BY <1>2, <1>3 DEF ControllerInv

LEMMA InitKeeps == Init => ControllerInv
<1>. SUFFICES ASSUME Init PROVE ControllerInv  OBVIOUS
<1>1. DOMAIN held = {}  BY DEF Init
<1>2. TypeOK  BY <1>1 DEF Init, TypeOK
<1>3. OneFate  BY <1>1, <1>2 DEF Init, OneFate
<1>4. ReservedIsHeld
  <2>1. SUFFICES ASSUME NEW u \in User
                 PROVE  Total([j \in DOMAIN held |-> Reservation(j, held[j])], OfUser(u, DOMAIN held)) = 0
    BY DEF Init, ReservedIsHeld
  <2>2. OfUser(u, DOMAIN held) = {}  BY <1>1 DEF OfUser
  <2>. QED  BY <2>2, TotalEmpty
<1>5. BudgetKept  BY <1>4, Constants DEF Init, BudgetKept
<1>. QED  BY <1>1, <1>3, <1>5 DEF ControllerInv

LEMMA NextKeeps ==
  ASSUME ControllerInv, [Next]_cvars
  PROVE  ControllerInv'
<1>1. CASE Serve
  <2>1. PICK now \in lastNow..(lastNow + MaxStep) :
          \E arrivals \in SUBSET {j \in Job \ seen : Arrival[j] <= now},
             state \in [released -> {"pending", "running", "completed"}],
             start \in {lastNow, now} : Request(arrivals, now, state, start)
    BY <1>1 DEF Serve
  <2>2. PICK arrivals \in SUBSET {j \in Job \ seen : Arrival[j] <= now},
             state \in [released -> {"pending", "running", "completed"}],
             start \in {lastNow, now} : Request(arrivals, now, state, start)
    BY <2>1
  <2>. DEFINE states == {[id |-> j, state |-> state[j], start |-> start] : j \in released}
  <2>3. GoodRequest(arrivals, states, now)  BY ServeIsGood
  <2>4. Raise(arrivals, states, now) \/ Answer(arrivals, states, now)  BY <2>2 DEF Request, Step
  <2>. HIDE DEF states
  <2>5. CASE Raise(arrivals, states, now)  BY <2>5, RaiseKeeps DEF Raise
  <2>6. CASE Answer(arrivals, states, now)  BY <2>3, <2>6, AnswerKeeps
  <2>. QED  BY <2>4, <2>5, <2>6
<1>2. CASE Misuse  BY <1>2, MisuseRaises, RaiseKeeps
<1>3. CASE UNCHANGED cvars
  <2>1. TypeOK'  BY <1>3 DEF ControllerInv, OneFate, TypeOK, cvars
  <2>2. OneFate'  BY <1>3, <2>1 DEF ControllerInv, OneFate, cvars
  <2>3. BudgetKept'  BY <1>3 DEF ControllerInv, BudgetKept, ReservedIsHeld, cvars
  <2>. QED  BY <1>3, <2>2, <2>3 DEF ControllerInv, cvars
<1>. QED  BY <1>1, <1>2, <1>3 DEF Next

THEOREM ControllerInvariance == Spec => []ControllerInv
<1>1. Init => ControllerInv  BY InitKeeps
<1>2. ControllerInv /\ [Next]_cvars => ControllerInv'  BY NextKeeps
<1>. QED  BY <1>1, <1>2, PTL DEF Spec

\* Controller.step never forgets a job it was told of and never answers for one
\* twice: each is held or released, and not both.
THEOREM EveryJobHasOneFate == Spec => []OneFate
<1>1. ControllerInv => OneFate  BY DEF ControllerInv
<1>. QED  BY <1>1, ControllerInvariance, PTL

\* What a user's jobs have waited and are promised to wait stays within
\* user_budget_s, but for the time the bridge came late, and the reservations
\* are exactly those of the outstanding holds.
THEOREM BudgetsAreKept == Spec => []BudgetKept
<1>1. ControllerInv => BudgetKept  BY DEF ControllerInv
<1>. QED  BY <1>1, ControllerInvariance, PTL

\* Every hold is of a job that may be held, within the bounds of its delay, and
\* is looked at again before its planned release has passed.
THEOREM HoldsStayInTime == Spec => []HoldsInTime
<1>1. ControllerInv => HoldsInTime  BY DEF ControllerInv, HoldsInTime, HoldOK
<1>. QED  BY <1>1, ControllerInvariance, PTL

=============================================================================
