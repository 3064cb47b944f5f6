------------------------- MODULE FeedbackController -------------------------
(***************************************************************************)
(* Controller.step of policy_v2/feedback.py: admission control from the    *)
(* jobs that have arrived and the Slurm states the bridge observed.  It    *)
(* releases a held job at its planned time, or before when the expected    *)
(* carbon gain has gone, and holds a new job to the feasible release that  *)
(* saves most per second, as long as its user's waiting budget lasts.      *)
(*                                                                         *)
(* Times are integers.  The carbon signal is constant on each unit of      *)
(* time, so that Signal.mean times the duration is a sum; comparisons of   *)
(* means and of utilities are cross-multiplied.                            *)
(***************************************************************************)
EXTENDS Integers, FiniteSets, FiniteSetsExt, SequencesExt, Sums

CONSTANTS
  Job,          \* the jobs of the configuration, ordered like their names
  User,
  Arrival,      \* Arrival[j]: when the job's submit event fired
  UserOf, PoolOf, Flexible, Reliable,
  Runtime,      \* predicted_runtime_s
  Fraction,     \* Fraction[j] parts in Capacity of the pool
  Capacity,
  Intensity,    \* carbon intensity on [t, t + 1), for t in 0 .. CarbonEnd - 1
  CarbonEnd,    \* carbon_end_s
  TickS, MaxDelay, UserBudget, MinSaving,
  RatioNum, RatioDen,   \* runtime_delay_ratio
  Baseline,     \* the baseline arm never holds a job
  IdleWake,     \* 86400, the wake-up when nothing is held
  MaxStep, MaxNow       \* bounds: of a request's lag and of the clock

ASSUME ControllerAssumption ==
  /\ Job \subseteq Nat /\ IsFiniteSet(Job)
  /\ Arrival \in [Job -> Nat] /\ UserOf \in [Job -> User]
  /\ Flexible \in [Job -> BOOLEAN] /\ Reliable \in [Job -> BOOLEAN]
  /\ Runtime \in [Job -> Nat \ {0}] /\ Fraction \in [Job -> Nat \ {0}]
  /\ Capacity \in Nat \ {0} /\ CarbonEnd \in Nat
  /\ Intensity \in [0..(CarbonEnd - 1) -> Nat]
  /\ TickS \in Nat \ {0} /\ MaxDelay \in Nat /\ UserBudget \in Nat /\ MinSaving \in Nat
  /\ RatioNum \in Nat /\ RatioDen \in Nat \ {0} /\ Baseline \in BOOLEAN
  /\ IdleWake \in Nat \ {0}

VARIABLES
  held,       \* the planned release of each job that is held
  seen, released,
  spent, reserved,   \* waiting time used and promised, per user
  lastNow,
  answer,     \* the last line written: the releases and the next wake-up
  alive,      \* FALSE once step has raised: serve has no handler
  late        \* history: time the bridge released after a planned release

cvars == <<held, seen, released, spent, reserved, lastNow, answer, alive, late>>

-----------------------------------------------------------------------------
(* The forecast of one option *)

Larger(a, b) == IF a >= b THEN a ELSE b
Smaller(a, b) == IF a <= b THEN a ELSE b

\* Signal.mean is None outside the coverage
Covered(start, duration) == duration > 0 /\ start >= 0 /\ start + duration <= CarbonEnd
Emission(start, duration) == Total(Intensity, start..(start + duration - 1))

\* pressure: the backlog of the job's pool in capacity-seconds
Backlog(j, states, now) ==
  LET pool    == {s \in states : PoolOf[s.id] = PoolOf[j]}
      running == {s \in pool : s.state = "running"}
      pending == {s \in pool : s.state = "pending"}
      left(s) == Larger(Runtime[s.id] - Larger(now - s.start, 0), TickS)
      work    == Total([s \in running |-> Fraction[s.id] * left(s)], running)
                   + Total([s \in pending |-> Fraction[s.id] * Runtime[s.id]], pending)
      load    == Total([s \in running |-> Fraction[s.id]], running)
  IN  IF pending # {} \/ load + Fraction[j] > Capacity THEN work \div Capacity ELSE 0

\* option: the job would start after the backlog, or at its release if later
BaselineStart(j, states, now) == now + Backlog(j, states, now)
PredictedStart(j, states, now, release) == Larger(release, BaselineStart(j, states, now))

Saved(j, states, now, release) ==
  Emission(BaselineStart(j, states, now), Runtime[j])
    - Emission(PredictedStart(j, states, now, release), Runtime[j])

\* gain_pct >= minimum_saving_pct; the gain is -inf without coverage or carbon
GainOK(j, states, now, release) ==
  LET base == BaselineStart(j, states, now) IN
  /\ Covered(base, Runtime[j])
  /\ Covered(PredictedStart(j, states, now, release), Runtime[j])
  /\ Emission(base, Runtime[j]) > 0
  /\ 100 * Saved(j, states, now, release) >= MinSaving * Emission(base, Runtime[j])

\* the gates of choose
Feasible(j, states, now, release) ==
  /\ GainOK(j, states, now, release)
  /\ PredictedStart(j, states, now, release) > BaselineStart(j, states, now)

\* the grid of releases, anchored at the arrival and bounded by the allowance
AllowedTicks(j) ==
  Smaller(MaxDelay * RatioDen, Runtime[j] * RatioNum) \div (TickS * RatioDen)
Grid(j, now) == {r \in {Arrival[j] + i * TickS : i \in 1..AllowedTicks(j)} : r > now}

\* the order of candidates: utility downwards, then release, then job
Before(c, d) ==
  LET x == c.worth * d.pause
      y == d.worth * c.pause
  IN  \/ x > y
      \/ x = y /\ c.release < d.release
      \/ x = y /\ c.release = d.release /\ c.job < d.job

Ranked(S) ==
  [i \in 1..Cardinality(S) |->
     CHOOSE c \in S : Cardinality({d \in S : Before(d, c)}) = i - 1]

-----------------------------------------------------------------------------
(* Controller.step *)

OfUser(u, jobs) == {j \in jobs : UserOf[j] = u}
Reservation(j, release) == release - Arrival[j]

\* holds that end now: their time has come, or the benefit has gone
Ending(states, now) ==
  {j \in DOMAIN held : now >= held[j] \/ ~GainOK(j, states, now, held[j])}

FeasibleReleases(j, states, now) == {r \in Grid(j, now) : Feasible(j, states, now, r)}

\* arrivals that are not held back: baseline arm, protected, unpredictable, or
\* without a feasible candidate
Immediate(arrivals, states, now) ==
  {j \in arrivals : Baseline \/ ~Flexible[j] \/ ~Reliable[j] \/ FeasibleReleases(j, states, now) = {}}

Candidates(jobs, states, now) ==
  UNION {{[job |-> j, release |-> r,
           worth |-> Saved(j, states, now, r) * Fraction[j], pause |-> Larger(r - now, 1)]
          : r \in FeasibleReleases(j, states, now)} : j \in jobs}

\* the accounts once the holds of set are over
SettleReserved(set) ==
  [u \in User |-> reserved[u] - Total([j \in set |-> Reservation(j, held[j])], OfUser(u, set))]
SettleSpent(set, now) ==
  [u \in User |-> spent[u] + Total([j \in set |-> Larger(now - Arrival[j], 0)], OfUser(u, set))]

\* Mutant of Affordable: the waiting time already used is forgotten
AffordableAnew(used, acc, c) ==
  acc.reserved[UserOf[c.job]] + Reservation(c.job, c.release) <= UserBudget

\* within the user's budget: what is spent and reserved already leaves room
Affordable(used, acc, c) ==
  LET u == UserOf[c.job] IN
  used[u] + acc.reserved[u] + Reservation(c.job, c.release) <= UserBudget

\* candidates in rank order: hold the job at the first release that fits
Admit(used, acc, c) ==
  IF c.job \in DOMAIN acc.held \/ ~Affordable(used, acc, c)
  THEN acc
  ELSE [held     |-> [j \in DOMAIN acc.held \union {c.job} |-> IF j = c.job THEN c.release ELSE acc.held[j]],
        reserved |-> [acc.reserved EXCEPT ![UserOf[c.job]] = @ + Reservation(c.job, c.release)]]

\* Mutant of NextWake: a tick later, whatever is planned before
NextWakeByTick(holds, now) == IF DOMAIN holds = {} THEN now + IdleWake ELSE now + TickS

\* with holds outstanding the bridge comes back after a tick at the latest
NextWake(holds, now) ==
  IF DOMAIN holds = {} THEN now + IdleWake
  ELSE Min({holds[j] : j \in DOMAIN holds} \union {now + TickS})

Raises(arrivals, states, now) ==
  \/ now < lastNow
  \/ \E s \in states : s.id \notin released
  \/ arrivals \cap seen # {}

\* the exception ends serve; the reader sees the end of the stream
Raise(arrivals, states, now) ==
  /\ alive /\ Raises(arrivals, states, now)
  /\ alive' = FALSE
  /\ UNCHANGED <<held, seen, released, spent, reserved, lastNow, answer, late>>

\* the holds and reservations the request leaves behind
Plan(arrivals, states, now) ==
  LET ending  == Ending(states, now)
      waiting == arrivals \ Immediate(arrivals, states, now)
      kept    == [j \in DOMAIN held \ ending |-> held[j]]
      used    == SettleSpent(ending, now)
  IN  FoldLeft(LAMBDA acc, c : Admit(used, acc, c),
               [held |-> kept, reserved |-> SettleReserved(ending)],
               Ranked(Candidates(waiting, states, now)))

\* Mutant of Output: the jobs that lost the competition for the budget are forgotten
OutputWithoutLosers(ending, arrivals, states, now, holds) ==
  ending \union Immediate(arrivals, states, now)

\* the releases of the answer: holds that ended, and arrivals that are not held
Output(ending, arrivals, states, now, holds) == ending \union (arrivals \ DOMAIN holds)

Answer(arrivals, states, now) ==
  /\ alive /\ ~Raises(arrivals, states, now)
  /\ \E ending \in {Ending(states, now)}, plan \in {Plan(arrivals, states, now)} :
       LET output == Output(ending, arrivals, states, now, plan.held) IN
       /\ held' = plan.held
       /\ reserved' = plan.reserved
       /\ spent' = SettleSpent(ending, now)
       /\ released' = released \union output
       /\ answer' = [release |-> output, wake |-> NextWake(plan.held, now)]
       /\ late' = [u \in User |-> late[u]
                    + Total([j \in ending |-> Larger(now - held[j], 0)], OfUser(u, ending))]
  /\ seen' = seen \union arrivals
  /\ lastNow' = now
  /\ UNCHANGED alive

Step(arrivals, states, now) == Raise(arrivals, states, now) \/ Answer(arrivals, states, now)

-----------------------------------------------------------------------------
(* The controller alone, asked by any bridge that obeys the protocol: the  *)
(* clock does not go back, an arrival is reported once, and the snapshot   *)
(* holds the released jobs in whatever state Slurm may have them.          *)

Init ==
  /\ held = << >> /\ seen = {} /\ released = {}
  /\ spent = [u \in User |-> 0] /\ reserved = [u \in User |-> 0]
  /\ lastNow = 0 /\ answer = [release |-> {}, wake |-> 0]
  /\ alive = TRUE /\ late = [u \in User |-> 0]

Request(arrivals, now, state, start) ==
  Step(arrivals, {[id |-> j, state |-> state[j], start |-> start] : j \in released}, now)

Serve ==
  \E now \in lastNow..(lastNow + MaxStep) :
    /\ now <= MaxNow
    /\ \E arrivals \in SUBSET {j \in Job \ seen : Arrival[j] <= now},
          state \in [released -> {"pending", "running", "completed"}],
          start \in {lastNow, now} :
         Request(arrivals, now, state, start)

\* a bridge that breaks the protocol: step refuses, and the process ends
Misuse ==
  \/ Step({}, {}, lastNow - 1)
  \/ \E j \in seen : Step({j}, {}, lastNow)
  \/ \E j \in Job \ released :
       Step({}, {[id |-> j, state |-> "running", start |-> lastNow]}, lastNow)

Next == Serve \/ Misuse

Spec == Init /\ [][Next]_cvars

-----------------------------------------------------------------------------
(* Properties *)

TypeOK ==
  /\ DOMAIN held \subseteq Job /\ \A j \in DOMAIN held : held[j] \in Nat
  /\ seen \subseteq Job /\ released \subseteq Job
  /\ spent \in [User -> Nat] /\ reserved \in [User -> Nat] /\ late \in [User -> Nat]
  /\ lastNow \in Nat /\ alive \in BOOLEAN
  /\ answer.release \subseteq Job /\ answer.wake \in Nat

\* Every job the controller has been told of is held or released, never both
\* and never neither: no path of step forgets a job or answers for it twice.
OneFate ==
  /\ TypeOK
  /\ seen = DOMAIN held \union released
  /\ DOMAIN held \cap released = {}

\* self.reserved is exactly what the outstanding holds of the user reserve:
\* every release gives its reservation back, whatever its reason.
ReservedIsHeld ==
  \A u \in User :
    reserved[u] = Total([j \in DOMAIN held |-> Reservation(j, held[j])], OfUser(u, DOMAIN held))

\* user_budget_s bounds what a user's jobs wait for admission: what is spent
\* and promised to the holds exceeds it only by the time the bridge itself came
\* late, and the account of promises is that of the holds.
BudgetKept ==
  /\ ReservedIsHeld
  /\ \A u \in User : spent[u] + reserved[u] <= UserBudget + late[u]

\* No hold is overdue, none lies beyond the job's allowance, the wake-up in the
\* answer is still to come and no later than any planned release, and no
\* protected job, or one without a reliable prediction, is among the holds.
HoldsInTime ==
  DOMAIN held # {} =>
    /\ answer.wake > lastNow
    /\ \A j \in DOMAIN held :
         /\ answer.wake <= held[j]
         /\ Reservation(j, held[j]) <= MaxDelay
         /\ Reservation(j, held[j]) * RatioDen <= Runtime[j] * RatioNum
         /\ Flexible[j] /\ Reliable[j] /\ ~Baseline
=============================================================================
