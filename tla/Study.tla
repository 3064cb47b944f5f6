------------------------------- MODULE Study -------------------------------
(***************************************************************************)
(* One scenario of the static study, from the baseline profile to the      *)
(* table that is priced: apply_safe_rolling_balanced decides releases,     *)
(* finalize_profile orders the trace and numbers the jobs, the simulator   *)
(* replays it, analyze_simulation.py reads its log and calculate_carbon.py *)
(* the results.  The scripts meet in files only, which are the variables.  *)
(*                                                                         *)
(* The forecasts are left open: any option may turn out to be the best, or *)
(* none acceptable.  The simulator is what its log can show.               *)
(***************************************************************************)
EXTENDS Integers, FiniteSets, Sequences, FiniteSetsExt, SequencesExt, Sums

CONSTANTS
  Job,        \* rows of the baseline profile, numbered; without any, analyze_simulation.py raises
  User, UserOf,
  Eligible,   \* eligible_dt_s, which is the baseline's release_dt_s
  Category,   \* carry_in_type: running, queued, held, evaluation as 0 .. 3
  Flexible,   \* is_flexible
  Allowance,  \* the least of max_delay, the q75 runtime and the declared limit
  Runtime,    \* runtime_s, the configured duration
  Step, UserBudget, JobLimit,   \* candidate_step, user_delay_budget, user_delayed_job_limit
  Allocation, \* sets of nodes a job may get
  HalfHour,   \* what the horizon is rounded to
  Tables,     \* carbon tables: sequences of [from, to]
  Waits,      \* from the line of the submission to that of the start; may be negative
  None        \* no value

Row == [from : Int, to : Int]

ASSUME StudyAssumption ==
  /\ IsFiniteSet(Job) /\ Job # {} /\ Job = 1..Cardinality(Job) /\ UserOf \in [Job -> User]
  /\ \A f \in {Eligible, Allowance, Category} : f \in [Job -> Nat]
  /\ Flexible \in [Job -> BOOLEAN] /\ Runtime \in [Job -> Nat \ {0}]
  /\ \A j \in Job : Flexible[j] => Category[j] = 3
  /\ \A j, k \in Job : j < k => Eligible[j] <= Eligible[k]
  /\ Step \in Nat \ {0} /\ UserBudget \in Nat /\ JobLimit \in Nat \ {0}
  /\ {} \notin Allocation /\ IsFiniteSet(UNION Allocation)
  /\ HalfHour \in Nat \ {0} /\ Waits \subseteq Int /\ Tables \subseteq Seq(Row)
  /\ None \notin Int /\ None \notin Seq([span : Row, busy : Int])

VARIABLES
  stage,
  decided, waited, moved,   \* the policy's place, user_delay_s, user_delayed_jobs
  release,    \* release_dt_s
  trace,      \* the order of the rows of workload_profile.csv and of sim.events
  expected,   \* slurm_job_id_expected
  sent,       \* the replay: how many events were submitted
  nextId,     \* the id Slurm gives next
  given,      \* the id Slurm gave
  log,        \* what slurmctld.log shows of each id
  results,    \* job_results.csv
  priced      \* the rows of the carbon table that were priced

policy == <<decided, waited, moved, release>>
profile == <<policy, trace, expected>>
replay == <<sent, nextId, given, log>>
vars == <<stage, profile, replay, results, priced>>

Silent == [state |-> "silent", wait |-> 0, nodes |-> {}]

Init ==
  /\ stage = "policy"
  /\ decided = 0 /\ waited = [u \in User |-> 0] /\ moved = [u \in User |-> 0] /\ release = Eligible
  /\ trace = <<>> /\ expected = [j \in Job |-> None]
  /\ sent = 0 /\ nextId = 1 /\ given = [j \in Job |-> None]
  /\ log = [id \in Job |-> Silent]
  /\ results = [j \in Job |-> Silent] /\ priced = None

\* sort, sort_values: the elements of a set in the order that Before gives them
Sorted(S, Before(_, _)) ==
  CHOOSE order \in [1..Cardinality(S) -> S] :
    \A i, k \in DOMAIN order : i < k => Before(order[i], order[k])

-----------------------------------------------------------------------------
(* generate_safe_rolling_scenario.py *)

Larger(x, y) == IF x >= y THEN x ELSE y
Smaller(x, y) == IF x <= y THEN x ELSE y

\* Mutant of WaitBudget: what the user has used is forgotten
WaitBudgetAnew(j) == Smaller(Allowance[j], UserBudget)

\* budget_s
WaitBudget(j) == Smaller(Allowance[j], Larger(UserBudget - waited[UserOf[j]], 0))

\* the delays that are tried, unless there is a reason to abstain
Delays(j) ==
  IF ~Flexible[j] \/ moved[UserOf[j]] >= JobLimit THEN {}
  ELSE {i * Step : i \in 1..(WaitBudget(j) \div Step)}

\* one row, in the order of the profile: the best option, or the job stays
Decide ==
  /\ stage = "policy" /\ decided < Cardinality(Job) /\ decided' = decided + 1
  /\ LET j == decided + 1 IN
     \/ UNCHANGED <<waited, moved, release>>
     \/ \E delay \in Delays(j) :
          /\ release' = [release EXCEPT ![j] = Eligible[j] + delay]
          /\ waited' = [waited EXCEPT ![UserOf[j]] = @ + delay]
          /\ moved' = [moved EXCEPT ![UserOf[j]] = @ + 1]
  /\ UNCHANGED <<stage, trace, expected, replay, results, priced>>

\* release, then what occupies the cluster at the start first, then the baseline's order
Precedes(j, k) ==
  \/ release[j] < release[k]
  \/ release[j] = release[k] /\ Category[j] < Category[k]
  \/ release[j] = release[k] /\ Category[j] = Category[k] /\ j < k

\* Mutant of Numbered: the ids of the baseline are kept
NumberedAsBefore(order) == [j \in Job |-> j]

Numbered(order) == [j \in Job |-> CHOOSE i \in DOMAIN order : order[i] = j]

\* the rows sorted
InOrder == Sorted(Job, Precedes)

\* finalize_profile, write_scenario
Finalize ==
  /\ stage = "policy" /\ decided = Cardinality(Job) /\ stage' = "replay"
  /\ trace' = InOrder /\ expected' = Numbered(trace')
  /\ UNCHANGED <<policy, replay, results, priced>>

-----------------------------------------------------------------------------
(* The replay, as its log shows it.  Lines of different jobs do not bear on *)
(* each other, so that their order is left out.                             *)

Replay == stage = "replay" /\ UNCHANGED <<stage, profile, results, priced>>

\* the next event.  Slurm accepts the job, or refuses it, with or without using
\* up an id.
Submit ==
  /\ Replay /\ sent < Len(trace) /\ sent' = sent + 1
  /\ \/ /\ given' = [given EXCEPT ![trace[sent + 1]] = nextId] /\ nextId' = nextId + 1
        /\ log' = [log EXCEPT ![nextId].state = "submitted"]
     \/ nextId' \in {nextId, nextId + 1} /\ UNCHANGED <<given, log>>

\* it starts on some nodes, and ends, runs into its limit, or neither
Run(id) ==
  /\ Replay /\ log[id].state = "submitted"
  /\ \E nodes \in Allocation, wait \in Waits, state \in {"started", "completed", "timed_out"} :
       log' = [log EXCEPT ![id] = [state |-> state, wait |-> wait, nodes |-> nodes]]
  /\ UNCHANGED <<sent, nextId, given>>

-----------------------------------------------------------------------------
(* analyze_simulation.py *)

\* parse_log, terminal_status, build_results, once the simulator has exited or was
\* killed: a job is what the log shows of its expected id
Analyse ==
  /\ stage = "replay" /\ stage' = "results"
  /\ results' = [j \in Job |-> log[expected[j]]]
  /\ UNCHANGED <<profile, replay, priced>>

-----------------------------------------------------------------------------
(* calculate_carbon.py *)

\* model_start_offsets, model_end_utc
From(j) == release[j] + Larger(results[j].wait, 0)
To(j) == From(j) + Runtime[j]

\* floor and ceil
HorizonStart == HalfHour * (Min({From(j) : j \in Job}) \div HalfHour)
HorizonEnd == HalfHour * ((Max({To(j) : j \in Job}) + HalfHour - 1) \div HalfHour)

Clip(row, from, to) == [from |-> Larger(row.from, from), to |-> Smaller(row.to, to)]

\* the rows that meet the horizon, in order of time and cut to it.  Of two that begin
\* together sort_values may take either first, which does not matter: neither is accepted
\* behind the other.
Relevant(table) ==
  LET meeting     == {i \in DOMAIN table : table[i].to > HorizonStart /\ table[i].from < HorizonEnd}
      sooner(i, k) == table[i].from < table[k].from \/ (table[i].from = table[k].from /\ i < k)
      order       == Sorted(meeting, sooner)
  IN  [i \in DOMAIN order |-> Clip(table[order[i]], HorizonStart, HorizonEnd)]

\* Mutant of Follows: a row that begins before the cursor is accepted
FollowsOverlapping(cursor, row) == row.from <= cursor /\ row.to > cursor

Follows(cursor, row) == row.from = cursor /\ row.to > row.from

Advance(cursor, row) == IF cursor # None /\ Follows(cursor, row) THEN row.to ELSE None

\* the cursor goes from row to row, to the end of the horizon
Covering(table) == FoldLeft(Advance, HorizonStart, Relevant(table)) = HorizonEnd

\* by_node: intervals of the jobs on one node that meet a row, and their order
OnNode(n, row) ==
  {i \in {Clip([from |-> From(j), to |-> To(j)], row.from, row.to) : j \in {k \in Job : n \in results[k].nodes}} :
     i.to > i.from}
Sooner(a, b) == a.from < b.from \/ (a.from = b.from /\ a.to < b.to)

\* merged_start, merged_end: what overlaps or touches is one
Merge(acc, i) ==
  IF i.from <= acc.to THEN [acc EXCEPT !.to = Larger(@, i.to)]
  ELSE [sum |-> acc.sum + (acc.to - acc.from), from |-> i.from, to |-> i.to]

Busy(n, row) ==
  IF OnNode(n, row) = {} THEN 0
  ELSE LET q    == Sorted(OnNode(n, row), Sooner)
           last == FoldLeft(Merge, [sum |-> 0, from |-> q[1].from, to |-> q[1].to], Tail(q))
       IN  last.sum + (last.to - last.from)

\* allocated_node_utilization_for_interval
Occupied(row) == Total([n \in UNION Allocation |-> Busy(n, row)], UNION Allocation)

Complete == \A j \in Job : results[j].state = "completed"

\* build_intervals raises, or prices each relevant row
Price ==
  /\ stage = "results" /\ Complete /\ stage' = "priced"
  /\ \E table \in Tables :
       LET rows == Relevant(table) IN
       priced' = [table |-> table,
                  rows  |-> IF Covering(table)
                            THEN [i \in DOMAIN rows |-> [span |-> rows[i], busy |-> Occupied(rows[i])]]
                            ELSE None]
  /\ UNCHANGED <<profile, replay, results>>

\* load_scenario raises unless every job is complete
Finished == (stage = "priced" \/ (stage = "results" /\ ~Complete)) /\ UNCHANGED vars

Next ==
  \/ Decide \/ Finalize
  \/ Submit \/ (\E id \in Job : Run(id))
  \/ Analyse \/ Price
  \/ Finished

Spec == Init /\ [][Next]_vars

-----------------------------------------------------------------------------
(* Properties *)

OfUser(u) == {j \in Job : UserOf[j] = u}
Wait == [j \in Job |-> release[j] - Eligible[j]]

\* Over the whole trace, no user's jobs wait longer for the policy, and no more
\* of them are moved, than user_delay_budget and user_delayed_job_limit say,
\* although each row is decided by itself; no job is released early.
UserBudgetKept ==
  /\ \A j \in Job : Wait[j] >= 0
  /\ \A u \in User :
       /\ Total(Wait, OfUser(u)) <= UserBudget
       /\ Cardinality({j \in OfUser(u) : Wait[j] > 0}) <= JobLimit

\* Results in which every job is complete are about the right jobs: each row
\* holds what the log shows of the id Slurm gave to that job.  A submission that
\* was refused, and the ids it shifts, always show as a job that is not complete.
RowsMatch ==
  stage \in {"results", "priced"} /\ Complete =>
    \A j \in Job : expected[j] = given[j]

\* "Every part of the common horizon must be priced exactly once"
\* (calculate_carbon.py:250), which is all that is asked of a table; and the rows
\* add up to the time for which a node had some job, counted once per node.
PricedOnce ==
  priced # None =>
    LET table == priced.table
        times == HorizonStart..(HorizonEnd - 1)
        covers(t) == {i \in DOMAIN table : table[i].from <= t /\ t < table[i].to}
    IN  /\ (priced.rows # None) <=>
             /\ \A t \in times : Cardinality(covers(t)) = 1
             /\ \A i \in DOMAIN Relevant(table) : Relevant(table)[i].from < Relevant(table)[i].to
        /\ priced.rows # None =>
             Total([i \in DOMAIN priced.rows |-> priced.rows[i].busy], DOMAIN priced.rows)
               = Cardinality({use \in (UNION Allocation) \X times :
                                \E j \in Job : /\ use[1] \in results[j].nodes
                                              /\ From(j) <= use[2] /\ use[2] < To(j)})
=============================================================================
