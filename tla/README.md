# A verification project for the carbon-aware Slurm simulator

The repository replays accounting traces of an HPC cluster in a simulator built
from Slurm, delays flexible jobs towards hours of low carbon intensity, and
compares the outcome. Several parts of it keep state over time, talk to each other
and can fail half-way: the **simulator**, the **feedback policy** (a bridge inside
the simulator and a controller process), the **campaign runners**, which replay many
days in containers, and the **budget** that the pilots of the feedback policy share.
They are modelled here in TLA+, checked with TLC on small instances and, for all safety
properties, proved with TLAPS for every value of the constants. A last module
follows one scenario of the **static study** from the policy's decisions to the priced
table.

Paths are relative to `src/simulator/slurm_policy_experiments/` (`policy_v2/` below
it) or, for C files, to
`src/simulator/slurm_simulator_source_legacy_desktop/contribs/sim/`.

## 1. The system

| Part | State | Operations | Talks to | Model |
|---|---|---|---|---|
| Event engine: `sim_events.c`, `sim_jobs.c`, `sim_sbatch.c`, `slurmctld_agent.c` | list of events, list of active jobs | insert, pop, submit, launch, complete, epilog, kill at limit | called by the loop and, through wrapped functions, by Slurm | `SimEngine` |
| Event loop: `slurmctld_controller.c` | `all_done`, recursion depth, `sim_main_thread_sleep_till` | one pass: events, schedulers, exit test, time skip; nested pass from the backfiller | everything in the simulator | `SimEngine`; as the bridge sees it, `FeedbackBridge` |
| Clock: `sim_time.c` | shift and scale | get, set, freeze | loop, bridge | actions `Elapse`, `SkipTime` |
| Feedback bridge: `policy_v2/feedback_bridge.h`, put into the loop by `prepare_build.py` | table of arrived jobs, wake-up, socket, failed flag | arrive, tick (request and reply), release, fail safe | loop; controller over a socket pair | `FeedbackBridge` |
| Feedback controller: `policy_v2/feedback.py`, `selection.py` | holds, seen, released, budgets per user | `step`: one request, one answer | bridge | `FeedbackController`; both together, `FeedbackLoop` |
| Serial campaign: `run_multiday_campaign.py` | records of replays and days in memory and in `state.json`; containers | day after day: replay with its attempts, compare, correct the day's status, save | Docker | `SerialCampaign` |
| Parallel campaign: `run_multiday_parallel.py` over it, `process_status.py` | records of replays and days in memory and in `state.json`; containers | drain, collect, guard, analyse, launch, save; a worker per replay; adoption after a restart | Docker; a queue from workers to the main thread | `ParallelCampaign` |
| Budget and pilots: `policy_v2/bounded.py`, `run_pilot.py`, `close_experiment.py` | `budget.json`, a log per phase, `phases.jsonl`, `finished.json` | run a phase, close | Docker; phases meet in files | `Budget` |
| Static policies: `generate_*_scenario.py` | budgets per user within one pass | a greedy pass over a trace; order and numbering of the jobs | files | the safe rolling one: `Study` |
| Log analysis and carbon: `analyze_simulation.py`, `calculate_carbon.py` | none | pure functions on tables | files | `Study` |
| Workload construction | none | pure functions on tables | files | no |
| History model, evidence, reports, EDA, maintenance tools | none | one-shot scripts | files | no |

What is hard in it: the loop is re-entered from inside the backfiller, so that jobs
arrive and end in the middle of another pass; events point to structures that
other handlers free; the clock jumps; the controller may stall, die or answer
nonsense while jobs are held; the runners and the phases may be killed at any
instruction while their containers go on; and a chain of scripts trusts that a job has
the id its place in a file suggests. `PROJECT.json` lists these hazards by line, each with the
properties that would catch it.

## 2. Modules

### FeedbackBridge

The main thread's position in a pass is `pc`: `events`, `tick`, `wait` (the request is
sent), `release`/`fallback` (releasing one job after the other), `sched`, `exit`,
`skip`. `table`, `submitted`, `reported`, `state` are the fields of `v2_jobs`; `wake`,
`fd`, `failed` the static variables; `todo` the part of `indices` not yet
released. `direct` and `submits` are history: jobs passed around a full table, and
how often `submit_job` ran for a job. `Arrive` is `v2_arrive`; `TickQuiet`, `TickFailed`,
`TickSend`, `TickUnsent`, `TickReply`, `TickBadReply` are the paths of `v2_tick`;
`AllDone`, `SkipTarget` and the place of the tick are the edits of `prepare_build.py`.
An arrival in the nested loop is not followed by a tick (`recursion_depth==1`).

The controller is an arbitrary peer: it writes any line of `Replies` at any time,
or none. A line is a wake-up and a sequence of ids, or `garbled` for anything
`strtoll` cannot read. At most one line is in the socket.

### FeedbackController

`Answer` is `Controller.step` in full: holds whose time has come or whose gain has gone
(`Ending`), new jobs that are protected, unreliable or without feasible candidate
(`Immediate`), the candidates of all others in order of utility (`Ranked`), each
admitted if the user's budget allows (`Admit`), losers released. `Raise` is an exception
of `step`, which ends the process. `Serve` is the environment of the module alone: any
bridge that obeys the protocol; `Misuse`, one that does not. Times are integers and the
carbon signal is constant over each unit, so that means are sums; comparisons
of quotients are cross-multiplied. `late` is history: by how much releases came after
their planned time.

### FeedbackLoop

The bridge with the real controller in the place of the arbitrary peer: the request is
composed from the table (`Arrivals`, `Snapshot`), the answer becomes a line. Up to
`MaxFaults` times the controller may also not start, be killed (even between two
requests, with a line it has written still in the socket) or miss the timeout; with
its socket closed it ends. `BridgeSafety` states that this composition is a behaviour of
`FeedbackBridge`, so that what is proved of the bridge holds of it. For that the lines the
controller can write (`Lines`) must be among those the bridge may read (`Replies`), which
`LoopAssumption` says; the run sets `Replies` to `Lines`.

### SimEngine

`events` is the list from `sim_next_event` on, `heap` the `sim_job_t` structures by address.
An event other than a submission names an address, as in the code; reading an
address whose structure was freed gives its old id or none (`ReadId`), and an address
can be used again. `StartJob` is `launch_job` up to `sim_insert_event_comp_job`;
`CompleteJob` and `EpilogComplete` are the handlers; `TimeOut` is `job_time_limit` with the
kill request it makes; `BackgroundDone` the rest of `_slurmctld_background`, where records
may be purged. `EnterMiniLoop` and `depth` are the nested loop. `swept` is history: up to
where events have been handled; `Elapse` lets the scaled clock run, by at most `Lag`
beyond it.

### CampaignPromise, ParallelCampaign, SerialCampaign

`CampaignPromise` is what both runners promise of `state.json`: a replay once recorded as
complete stays so, and the campaign is called complete only with all its replays.
Both refine it (`KeepsPromise`), with `done` the complete replays of the file and
`complete` its status.

In `ParallelCampaign`, `pc` is the main thread's place in `run`; `records`, `dates`,
`active`, `context`, `failed` its variables; `wpc` and `mine` a worker's place and its
record; `mail[k]` the last record in the queue of worker `k` (the queue is only drained
whole, so that earlier ones have no effect); `saved` is `state.json`; `live` the
containers, which belong to Docker and survive a `Crash`; `output` what a replay's
directory holds. `Restart` loads the file and verifies the artifacts of complete
replays. Progress updates during a command (`Poll`) save too. A replay in `Diagnostic`, the
control of the secondary context, guards the campaign but is none of those its day waits
for (`run_multiday_parallel.py:316`). `Removal` is a `docker rm` or `docker stop` whose result
nobody looks at, as after a failed attempt (`run_multiday_campaign.py:200`), or an `inspect`
that finds no container where there is one (line 156): either way the container may go on. `Prompt`,
`Answers` and `Removes` are assumptions a run may make, see below.

In `SerialCampaign`, `pc` is the place in `run` and `replay`, `day` and `at` the loop
variables, `names` and `errors` its locals, which a crash loses. `Replay` verifies a complete
replay again or goes into the attempts (`Attempt`, `Clear`, `StartContainer`, `Wait`, `Check`);
`Raised` is an exception that leaves `replay` or `generate`: one of a policy is noted in
`errors`, any other ends the day. An invalid initial state (`CarryInValidationError`)
passes all handlers but that of `main`, which blocks the campaign (`Blocked`). `Analyse`
saves the day as complete, `Correct` looks at `errors`, `CloseDay` saves again. `compared[d]`
is history: what the comparison of the day was made of. Which replays a container
can fail for, or find invalid, are constants; one of a replay that can fail may also be left running
by the removal after a failed attempt, or by that before the next.

### Budget

Each phase is a process: `Start`, `Create`, `Fill`, `Read` are `Budget.__init__`; `Prepare` is
`run_pilot.run` up to its call of `Budget.run`; `Check`, `Launch`, the wait (`Returns`,
`Expires`, `Interrupt`), `Remove` and `Record` are `Budget.run`. `child` is the command it
started: for a pilot the docker client, whose container (`live`) has its own limit and
outlives it; `Interrupt` and `Expires` kill the client's process group, not the container.
`Remove` may fail without being noticed (`check=False`) or exceed its 15 seconds. `Crash`
kills the process and neither client nor container. `Close...` are the steps of
`close_experiment.py`, which only looks. `limit[p]` is a duration until the container starts
and then the time it ends at; likewise `until[p]`. Time passes only as long as nothing is later than `Lag`.

### Study

`Decide` is one row of `apply_safe_rolling_balanced`: the delays that are tried follow from
the user's remaining budget, the number of moved jobs and the row's own limits; which of
them is taken, if any, is left open, because it hangs on forecasts. `Finalize` orders and
numbers the jobs (`finalize_profile`). `Submit` is the next line of `sim.events`: Slurm gives the
job the next id, or refuses it, with or without using up an id; `Run` is what its log then
shows. The simulator may be killed with the log incomplete, so that `Analyse` may come at
any time. `Analyse` looks up each job under the id it was expected to get. `From` to `Price` are
`calculate_carbon.py`: the horizon, the relevant rows (`Relevant`, in the order that `Sorted`
chooses), the check with the cursor (`Covering`, a fold of `Advance`), and the union of
intervals per node (`Busy`, a fold of `Merge`). The log's lines of different jobs are independent in the analysis,
so that their order is left out; a wait may be negative, because the two times come
from two clocks.

### Sums and the proofs

`Sums` has the sum of a function on a finite set, which is what the accounts of the
controller and the study are compared with. Theorems are in modules of their own, named
after the module they are about (`FeedbackBridgeProofs` has those of the loop too), and
`SumsProofs` has the lemmas they share; see section 5.

## 3. Runs

| Run | Question | Bounds |
|---|---|---|
| `bridge` | With any controller: is each job submitted once, is an unreported job noticed in time, does the exit wait for held jobs, and does a failsafe drain? | 3 jobs, two arriving together and one later; a table of 2, so that it overflows; every reply of up to 2 ids, with repetitions, and 3 wake-ups; clock to 3 |
| `controller` | Do holds, budgets and releases agree, for any sequence of requests? | 4 jobs of 2 users, one protected; budgets that do not cover all; carbon that falls twice; requests up to 3 late |
| `loop` | Does the real controller ever make the bridge fail safe, or the reverse? Do they agree? Is every job submitted, also when the controller fails? | 2 jobs of one user, which compete for its budget and are held for different times; 1 fault; clock to 5 |
| `engine_safe` | Are events, structures and Slurm's jobs consistent, and does a job run exactly as long as it should? | 4 jobs, one to its limit, one short, one refused by Slurm; 4 addresses; nested loops; clock to 8 |
| `engine_live` | Does the simulator exit, and only when all is done? | 2 jobs, one to its limit; clock to 14, beyond every exit |
| `engine_overrun` | the finding below | 2 jobs |
| `campaign_faults` | Are memory and file consistent when replays, guards and commands may fail and the process be killed at any step? Is the promise kept, and does each session end? | 4 replays: two baselines, a policy that depends on the first and guards the campaign, and a diagnostic control that does so too and is bound to the second context; 2 days, 2 contexts of one slot, 1 attempt, 1 crash; the first baseline, the guards and the commands of the main thread can fail; neither `Prompt` nor `Answers` nor `Removes` |
| `campaign_resumes` | Is a campaign in which only the process dies completed, without a second container for a replay or too many in a context? | 3 replays with 3 attempts on 2 contexts of one slot, so that a later replay can run where an earlier one would start again; 2 crashes; `Prompt` |
| `campaign_moved` | the finding below | 2 replays on 2 contexts |
| `serial` | Is what is compared sound, is a day called complete complete, is the promise kept, and does each session end? | 2 days, one with a baseline, a policy, a control and the repetition of the policy; 2 attempts; everything can fail, the policy can turn out invalid; 3 sessions |
| `budget` | Is there one deadline, does nothing run beyond it, is what is recorded over and evidence kept, and does each phase end? | a pilot that is started twice and a regression test, units of 15 s with the code's reserves, limits shortened; clock to 11 with a budget of 9; 1 process killed, any number of interrupts |
| `study` | Are the budgets per user kept, are results that pass about the right jobs, and is every instant priced once? | 4 jobs, of which 3 of one user can move, budget 3 and at most 2 moved; 2 nodes; every table of up to 3 rows out of 4, which overlap, leave gaps or reach beyond the horizon |

The bounds are enough for the cases the properties are about: two jobs compete for one
budget and a third does not; an event is stale and its memory reused; a table
overflows; a phase is killed and started again beside its container; a submission in the
middle of a trace is refused; a crash hits each step of a replay, and the next session adopts, retries
or launches beside it. Fewer crashes than attempts is the bound of `Resumes` also in substance: each crash
in a replay uses up one of its attempts (`run_multiday_campaign.py:148`), so that as
many crashes as attempts can leave a campaign blocked. `BackfillTime` bounds only how far
the clock runs inside the nested loop.

`CHECK_DEADLOCK FALSE` is set where a model ends at its bound of time (`engine_safe`,
`engine_overrun`, `budget`) or of requests (`controller`). Elsewhere the exit of the program is a step
that stutters.

`OneFate`, `FileConsistent`, `ComparedSound` and `Accounted` contain the type invariants
of their modules; `BudgetKept` says also that what is reserved is what is held, `HoldsInTime`
that no protected or unreliable job is held, `Agreement` that the bridge wakes in time for every
hold.

Every passing property has a mutant in `PROJECT.json`: a definition changed as a bug would
change it, under which the same run fails.

### Fairness

* Bridge and loop: the main thread goes on (`sim_slurmctld_event_main_loop` never
  blocks except in `poll` with a timeout, which is the action `TickBadReply`), the clock
  goes on, and a controller that is asked answers or ends.
* Engine: the thread and the clock go on; the backfiller does not call the nested loop for
  ever (it does so once per yield interval of a finite pass); Slurm starts a job it can
  start (the traces ask for nothing the cluster does not have).
* Campaign: threads go on; a container ends (`timeout -s KILL` in
  `process_status.py:9`); somebody starts the parallel runner again (for `Resumes` only). The
  serial runner goes on once it is started, and its containers end likewise.
* Budget: processes and containers go on, the clock runs. That a phase is started
  or that a command other than a pilot ends by itself is not assumed: `PhasesEnd` is about
  the timeouts.

### Assumptions a run makes

* `campaign_resumes` and `campaign_moved` assume `Prompt`: no command of the main thread
  fails, and a record is saved before its container starts. Without it a process killed
  between `docker run` and the next save, up to five seconds later or longer while an
  analysis fails, leaves a container of which `state.json` knows nothing; the next session
  may start the replay in the other context (`OneContainer` fails) or another one beside
  it (`SlotsKept` fails). `campaign_faults` makes no such assumption.
* In `campaign_resumes` nothing fails but the process. With failures, `ContainersKept` and
  `SlotsKept` need two things more: `Answers`, nothing raises while a worker adopts, and
  `Removes`, Docker does remove, stop and find what it is asked to, where nobody looks at the
  result (`run_multiday_campaign.py:156` and `:200`, `run_multiday_parallel.py:124`). With both they
  hold in the configuration of `campaign_moved`; with either one `FALSE`, both fail there. Without
  `Answers` it is the finding of that run. Without `Removes` a container may go on beside a
  record that says `failed`: `choose_backend` then counts no slot for it, may launch another
  replay beside it, and the next session may start the same one in the other context. The runs and
  theorems about records, the file and the promise make neither assumption.
* `serial` assumes, with `Between = FALSE`, that the process is not killed between the save in
  `analyse` (line 237) and the one that follows the correction of the day's status (line
  285) while `errors` is not empty. See the findings.
* `budget` assumes `Alone`: no phase is started a second time while its first process
  runs; and `LagAssumption`: a step of a process, starting a container included, is late by
  at most half the 30 s that `Budget.run` keeps and a third of the 90 s that a pilot leaves.
* `engine_safe` satisfies `Headroom`, the hypothesis of the engine's theorems: every job that
  ends by itself has a limit more than `Lag` above its walltime (and more than `Lag` + 1), any
  other a walltime of a year that is not below its limit. With less the limit check can get in before a completion that is due;
  `generate_empirical_workload.py:389` provides this headroom, except for jobs
  close to the partition's maximum, where line 397 caps it to one minute.
* `engine_overrun` violates `Headroom`: it has a job with a walltime between its limit and a
  year.
* Every model states in an `ASSUME` what its constants are. What goes beyond types: in a
  day's plan a repetition comes after what it repeats (`SerialAssumption`;
  `run_multiday_campaign.py` builds its list of replays so); the backends are a sequence of contexts that is not empty, and no
  diagnostic replay depends on another (`CampaignAssumption`; `run_multiday_parallel.py:183` makes at most one); there is an address for every job (`EngineAssumption`); a job
  later in the trace is not eligible earlier, there is a job (without any,
  `analyze_simulation.py:180` raises) and there are finitely many nodes (`StudyAssumption`).

## 4. Findings

* `engine_overrun` (`sim_events.c:489`): a job that reaches its limit before its walltime
  leaves two completion events for one structure. The handler of the first frees it; the
  second reads freed memory, and may complete the job that lies there by then.
* `campaign_moved` (`run_multiday_parallel.py:303`): when a worker fails while it adopts a live
  replay, the record becomes `failed`, and the next session may start the same replay in
  the other Docker context while the first still writes.

Known divergences that the runs assume away, and what shows them:

* A job Slurm refuses stays in the active list (`sim_sbatch.c:300-303`), and the simulator
  never exits, although `run-sim.sh:11` says it "exits on its own once every job has
  finished": with `Rejected = {jobC}` in `SimEngine_live.cfg`, `Exits` fails. `engine_safe` has
  a refused job; what it checks, and the theorems, hold with any.
* `run_multiday_campaign.py` saves a day as complete in `analyse` and as incomplete only at
  line 285. A process killed in between leaves a day with a failed policy that every later
  session skips (line 244), so that the campaign may be called complete; the
  `STATUS.md` it writes promises (line 57) not to hide unfavourable results. With `Between = TRUE` in
  `SerialCampaign.cfg`, `DayHonest` fails.
* The parallel runner overlooks a `docker rm -f` that fails (`run_multiday_campaign.py:200`),
  so that a container of a failed attempt may go on; section 3 says with what consequence.
* Two processes that start one phase at the same time may both pass the check for its log
  (`bounded.py:34`). The loser's docker client is refused the name, and its `docker rm -f`
  then removes the winner's container. With `Alone = FALSE` in `Budget.cfg`, `EvidenceKept`
  fails.
* A phase that has passed the check for `finished.json` (`bounded.py:27`) goes on after
  the experiment is closed; closing only looks for containers that run.
* A phase that is no pilot, and whose process is killed, has nothing that limits its command;
  `InTime` leaves it out.

## 5. Proofs

Each theorem holds for every value of the constants that satisfies the `ASSUME` of its
module, and of the hypotheses named here. Each follows from an inductive invariant, which
holds initially and is kept by each action; the proof of a step takes the actions one by
one. TLC finds no state of the runs' instances that violates one of the invariants.

| Theorem | States | Hypothesis |
|---|---|---|
| **`FeedbackBridgeProofs`**: `TypeCorrect`, `SubmittedOnce`, `ArrivalWakes`, `ExitIsComplete` | `TypeOK`, `SubmitOnce`, `UnreportedWakes`, `ExitComplete` | |
| `FailsafeIsFinal` | `FailedDisconnected`, which no run checks | |
| `LoopIsBridge` | `BridgeSafety`: the loop implements the bridge | |
| `ProgramsAgree` | `Agreement` | |
| `NeitherFails` | `NoFailsafe` | `Cardinality(Job) <= MaxJobs` |
| **`FeedbackControllerProofs`**: `EveryJobHasOneFate`, `BudgetsAreKept`, `HoldsStayInTime` | `OneFate`, `BudgetKept`, `HoldsInTime` | |
| **`SimEngineProofs`**: `ListStaysOrdered` | `Ordered` | |
| `EventsPointToActiveJobs`, `AccountsAgree`, `JobsRunTheirWalltime`, `TimeoutsAreMeant`, `ExitLeavesNothing` | `NoDangling`, `Accounted`, `RunsItsWalltime`, `NoFalseTimeout`, `ExitComplete` | `Headroom` |
| **`ParallelCampaignProofs`**: `RunningIsLookedAfter`, `FileIsConsistent`, `CompleteIsWhole`, `PromiseKept` | `RunningIsActive`, `FileConsistent`, `CompleteMeansAll`, `KeepsPromise` | |
| `ContainersStayKept`, `SlotsStayKept` | `ContainersKept`, `SlotsKept` | `Prompt`, and nothing fallible or both `Answers` and `Removes` |
| **`SerialCampaignProofs`**: `ComparisonsSound`, `CompleteStays` | `ComparedSound`; no step takes a complete replay back | |
| `DaysHonest`, `PromiseKept` | `DayHonest`, `KeepsPromise` | `~Between` |
| **`BudgetProofs`**: `TypeCorrect`, `DeadlineIsShared`, `BudgetIsKept`, `RecordsAreFinal` | `TypeOK`, `OneDeadline`, `InTime`, `RecordedIsOver` | |
| `EvidenceStays` | `EvidenceKept` | `Alone` |
| **`StudyProofs`**: `BudgetsAreKept`, `ResultsAreOfTheirJobs`, `EveryInstantIsPricedOnce` | `UserBudgetKept`, `RowsMatch`, `PricedOnce` | |

The hypotheses are those of the runs (section 3), and the findings and divergences of
section 4 show that those about the engine, the campaigns and the budget are needed. A run
satisfies each of them.

### Why the properties hold

**Bridge** (`IndInv`). `SubmitOnce` needs to know that what is left of an accepted reply
(`todo`) names distinct jobs of the table that are not yet submitted, and that the rest is
only worked off at `release`; `ExitComplete`, that a job is in exactly one of the event
list, the table and `direct`, and that Slurm's state of a job is `absent` as long as it was
not submitted.

**Controller** (`ControllerInv`). Beside the properties: each hold lies after its job's
arrival and after the last request, so that what it reserves is positive and what an ending
hold gives back never exceeds what it used, except by the lateness of the bridge. `Plan`
folds over the ranked candidates; the proof shows that admitting one more keeps the accounts
and the bounds (`AdmitKeeps`), whatever the order, and that the ranking lists each candidate
(`RankedIs`).

**Loop** (`LoopInv`). In each phase of a tick, what the controller was told of and has
released is what the bridge has reported and submitted, with the line in the socket and the
rest of an accepted one accounted for (`InStep`); the line names distinct jobs of the table
and a wake-up to come (`ReplyFits`); and the bridge wakes for every hold (`Covers`). The
controller's lemmas are used through an instance, `P`, with lemmas `Same...` that its
operators are those of the loop's controller `C`. `LoopIsBridge` maps each step of the loop
to one of the bridge or a stutter; the controller's answer is the bridge's environment
writing a line of `Replies`. Its corollary `LoopKeepsBridge` carries the bridge's theorems
over.

**Engine** (`ListInv`, `EngineInv`). The order of the list needs types only, and holds for
every trace. The others hold together or not at all: an event that is no submission points
to a structure in use whose job runs, and then is its one completion, at its start plus its
walltime, or is completing (`EventOK`); a job has one structure, and none before its
submission (`CellOK`); the completion of a running job is not overdue by more than the pass
over the events under way (`JobOK`). The last is what makes `TimeOut` harmless under
`Headroom`, and so keeps a second completion from pointing to a structure the first has
freed.

**Parallel campaign** (`RecordInv`, `DockerInv`). The main thread knows of a worker what is
in its queue (`WorkerSound`), dependencies were complete at the launch (`DepsSound`), and
the process knows at least what the file says (`Remembers`, but for diagnostic replays, of
which no day tells). That a complete campaign has its diagnostic replays too follows from the loop: it
ends with nothing launched and nothing failed, and then nothing is left to launch
(`NothingDue`). The second invariant is about
containers: each that runs is recorded in the file and by whoever will adopt it, with its
context (`LiveKnown`), so that a new session counts it before it fills the slots (`Fits`, on
cardinalities). `PromiseKept` maps every step to a step of `CampaignPromise` or a stutter.

**Serial campaign** (`SafeInv`, `HonestInv`). What the process has in memory is what the
file holds, except for the day it closes (`Synced`), and a replay under way is not recorded
as complete (`Working`). For the status of a day: without errors, all replays so far were
passed (`AllPassed`), and a day about to be closed as complete is (`CloseHonest`).

**Budget** (`FileInv`, `TimeInv`, `EvidenceInv`). One process at a time fills `budget.json`,
and whoever has read it has its deadline. `InTime` is a chain of inequalities, one per place
of `Budget.run`: the time a process set for itself, counted from the step that set it, may
slip by one `Lag` per step and stays within what is kept in reserve (`InReserve`,
`WaitSound`, `ContainerSound`). `EvidenceKept` needs that a log opened is the first of its
phase (`TriedOnce`).

**Study** (`PolicyInv`, `ReplayInv`, `PriceInv`). What the policy counts of a user is the sum of its
jobs' waits and the number of those moved. For the results: the ids Slurm has given lie in
the order of the submissions (`Numbers`), and as long as none was skipped or refused without
being used up they are the places in the trace; if one was, some job expected has no
complete row.

`PricedOnce` is about what three loops of `calculate_carbon.py` compute, and holds of every
table and all results that have their types (`PricingIsRight`); the invariant only says that
the rows are those of a table, and that releases and results have not changed since
(`PriceInv`, `PricingSame`). The argument: sorted and cut, the relevant rows are those that
meet the horizon, each once, and meet the same instants of it (`PlacesExist`,
`RelevantRows`, `OneRow`). The cursor gets to the end just if no row is empty and each
instant is in one row: what it has passed is covered, and the rows begin where it stands
(`ChainCovers`, `CoverChains`, `CoveringIsWhole`). Merging the sorted intervals of a node
measures their union, because the open interval is the last part of what was met
(`MergeMeasures`, `MergedIsUnion`, `BusyIs`). Disjoint unions over nodes and over rows then
give the total (`OccupiedIs`, `RowsAddUp`, both from `TotalOfParts`).

### Sums, orders and folds

`BudgetKept` and `UserBudgetKept` compare counters with sums over sets, and `Plan` is a fold
over a sequence. The library's induction theorems take an operator as a parameter, which the
provers cannot instantiate, so the lemmas do without: a set of naturals that is not empty
has a least element (`LeastNatural`, from the well-foundedness of `<`), and the least size
at which a claim fails leads to a contradiction. `SumsProofs` shows so that the recursive
function behind `MapThenFoldSet` exists and is unique, that `Total` may take any element
first (`TotalRemove`), and what follows from it; `IterationExists` and `FoldKeeps` do the
same for the fold of `Plan`, `FoldingExists` for the folds of the study (`MergeSteps`,
`AdvanceSteps`). A finite set can be sorted by any strict total order, and a sorted sequence
holds each element once (`OrderExists`, `SortedHoldsAll`): the place of an element is the
number of those before it, plus one.

### Only model-checked

* Liveness (`FailsafeDrains`, `EventuallySubmitted`, `Exits`, `SessionEnds`, `Resumes`,
  `PhasesEnd`), which is out of the prover's reach.
* The findings of section 4, which are counterexamples.

## 6. What is left out

* Formatting and parsing of the bridge's lines, audit files and log lines; microseconds and
  floating point (a wake-up truncated to a microsecond, the clock's double).
* Cyclic events, the database agent, priorities, job steps and the choice of nodes in the
  simulator. The exit test reads the counts of jobs afresh; the code's are up to 30 s
  old, which can only delay the exit.
* In the campaign: how `task_graph` makes the graph, which is a constant here, `--launch`, the
  lock file (one process at a time is what it ensures), stopping the secondary environment
  when all is done, and the day status `carry_in_audit_failed`: the audit of a day
  repeats, on the same files, those its complete replays have passed.
* In the serial campaign: what `generate` and `repeat_inputs` write, and `--launch`.
* In the budget: the hashes of inputs and sources, and what the analysis of pilots computes.
* In the study: the forecasts and utilities, the other strategies, power and carbon in
  floating point, horizons given on the command line, a horizon over several scenarios
  (`calculate_carbon.py:440-445` takes the earliest and latest of all that are loaded, the module
  that of one), the cap of a utilisation at 1, the sort used where types of carry-in are missing,
  and the fallback to the logged start
  for a job without a wait, which a complete job always has.
* Of the 680 000 lines of C and Python most are Slurm, vendored with the simulator. The
  modules model what this project adds to it, and of Slurm what those parts call or are
  called by.
* One-shot scripts that only read and write tables; see the components in `PROJECT.json`.

## 7. Plan

All modules planned are written, and every safety property the passing runs check is a
theorem. What is left is not modelled: the arithmetic of `sim_time.c` at bounded precision,
and the classification of carry-in jobs with its audit.
