----------------------------- MODULE SimEngine -----------------------------
(***************************************************************************)
(* The life of a job in the simulator: contribs/sim/sim_events.c (event    *)
(* list), sim_jobs.c (active jobs), sim_sbatch.c (submission),             *)
(* slurmctld_agent.c (faked requests to the nodes) and the event loop of   *)
(* slurmctld_controller.c with the background pass that enforces time      *)
(* limits.  All of it runs in one thread; the loop is entered a second     *)
(* time from inside the backfiller (sim_mini_loop).                        *)
(*                                                                         *)
(* An event refers to a job by a pointer to its sim_job_t.  The heap is    *)
(* explicit, so that an event that outlives the structure reads what the   *)
(* program would read: the old id, that of a job that reuses the memory,   *)
(* or anything else.                                                       *)
(***************************************************************************)
EXTENDS Integers, Sequences, FiniteSets

CONSTANTS
  Job, NoJob,     \* NoJob: the id 0, or the id of no job
  Addr,           \* where sim_job_t structures can lie
  Arrival,        \* Arrival[j]: the time of the submit event
  Wall, Year,     \* sim_job->walltime; a year or more means until the limit
  Limit,          \* the job's time limit
  Rejected,       \* jobs that Slurm refuses
  CompDelay, LimitDelay, Grace,   \* comp_job_delay, timelimit_delay, time_after_all_events_done
  Quantum,        \* pause of the main thread between background passes
  Period,         \* PERIODIC_TIMEOUT between two checks of the time limits
  Lag,            \* bound: how far the scaled clock runs while the thread works
  StartDelay,     \* bound: how long Slurm leaves a job pending
  BackfillTime,   \* bound: how far beyond sleepTill the backfiller is at work
  MaxTime         \* bound: of the clock

ASSUME EngineAssumption ==
  /\ IsFiniteSet(Job) /\ NoJob \notin Job
  /\ IsFiniteSet(Addr) /\ Cardinality(Job) <= Cardinality(Addr)
  /\ Arrival \in [Job -> Nat] /\ Wall \in [Job -> Nat] /\ Limit \in [Job -> Nat]
  /\ Year \in Nat /\ Rejected \subseteq Job
  /\ CompDelay \in Nat /\ LimitDelay \in Nat /\ Grace \in Nat
  /\ Quantum \in Nat \ {0} /\ Period \in Nat \ {0}
  /\ Lag \in Nat /\ StartDelay \in Nat /\ BackfillTime \in Nat /\ MaxTime \in Nat

VARIABLES
  pc, depth,      \* where the thread is, and in which of the two nested loops
  now, swept,     \* the clock; history: every event due before swept has been popped
  sleepTill,      \* sim_main_thread_sleep_till
  lastCheck,      \* last_timelimit_time
  allDone,        \* all_done, 0 while not set
  events,         \* the list from sim_next_event on
  heap,           \* the sim_job_t structures; those in use are the active jobs
  slurm,          \* the job's state in Slurm
  startAt, endAt, \* start_time and end_time of its record
  timedOut        \* jobs that ended in JOB_TIMEOUT

loop == <<pc, depth, sleepTill, lastCheck, allDone>>
jobs == <<events, heap, slurm, startAt, endAt, timedOut>>
vars == <<loop, now, swept, jobs>>

Event == [when : Nat, type : {"submit"}, what : Job]
           \union [when : Nat, type : {"complete", "epilog"}, what : Addr]
Cell == [used : BOOLEAN, job : Job \union {NoJob}, id : Job \union {NoJob},
         start : Nat, comp : BOOLEAN, kill : BOOLEAN]
SlurmState == {"absent", "pending", "running", "completing", "done", "purged"}

TypeOK ==
  /\ pc \in {"events", "sched", "exit", "skip", "loop", "background", "done"} /\ depth \in {1, 2}
  /\ now \in Nat /\ swept \in Nat /\ sleepTill \in Nat /\ lastCheck \in Nat /\ allDone \in Nat
  /\ events \in Seq(Event)
  /\ heap \in [Addr -> Cell]
  /\ slurm \in [Job -> SlurmState]
  /\ startAt \in [Job -> Nat] /\ endAt \in [Job -> Nat] /\ timedOut \subseteq Job

-----------------------------------------------------------------------------
(* The event list *)

\* Mutant of InsertEvent: new events go to the end
InsertLast(q, e) == Append(q, e)

\* sim_insert_event2: behind the events that are due no later
InsertEvent(q, e) ==
  LET n == Cardinality({i \in DOMAIN q : \A k \in 1..i : q[k].when <= e.when}) IN
  [i \in 1..(Len(q) + 1) |-> IF i <= n THEN q[i] ELSE IF i = n + 1 THEN e ELSE q[i - 1]]

\* the submit events of the trace, in order of time
Traces ==
  {[i \in DOMAIN order |-> [when |-> Arrival[order[i]], type |-> "submit", what |-> order[i]]]
   : order \in {o \in [1..Cardinality(Job) -> Job] :
                  /\ \A j \in Job : \E i \in DOMAIN o : o[i] = j
                  /\ \A i, k \in DOMAIN o : i < k => Arrival[o[i]] <= Arrival[o[k]]}}

Free == [used |-> FALSE, job |-> NoJob, id |-> NoJob, start |-> 0, comp |-> FALSE, kill |-> FALSE]

Init ==
  /\ pc = "events" /\ depth = 1
  /\ now = 1 /\ swept = 1 /\ sleepTill = 1 + Quantum /\ lastCheck = 1 /\ allDone = 0
  /\ events \in Traces
  /\ heap = [a \in Addr |-> Free]
  /\ slurm = [j \in Job |-> "absent"]
  /\ startAt = [j \in Job |-> 0] /\ endAt = [j \in Job |-> 0] /\ timedOut = {}

-----------------------------------------------------------------------------
(* The active jobs *)

\* sim_find_active_sim_job: the structures in use that carry the id
Find(id) == {a \in Addr : heap[a].used /\ heap[a].id = id}

\* Mutant of Removed: a job that waits for its epilog keeps its structure
RemovedUnlessComp(id) ==
  [a \in Addr |-> IF a \in Find(id) /\ ~heap[a].comp THEN [heap[a] EXCEPT !.used = FALSE] ELSE heap[a]]

\* sim_remove_active_sim_job frees the structure; its contents stay readable
Removed(id) == [a \in Addr |-> IF a \in Find(id) THEN [heap[a] EXCEPT !.used = FALSE] ELSE heap[a]]

\* what payload->job_id gives: of a freed structure the old id, or anything
ReadId(a) == IF heap[a].used THEN {heap[a].id} ELSE {heap[a].id, NoJob}

\* find_job_record succeeds
Known(id) == id # NoJob /\ slurm[id] \notin {"absent", "purged"}

Due(type) == pc = "events" /\ events # << >> /\ Head(events).type = type /\ Head(events).when <= now

-----------------------------------------------------------------------------
(* The handlers of the events *)

\* submit_job: an active job with id 0, which gets its id when Slurm answers;
\* a refused submission returns and leaves it there
SubmitJob ==
  /\ Due("submit")
  /\ LET j == Head(events).what IN
     \E a \in {b \in Addr : ~heap[b].used} :
       /\ heap' = [heap EXCEPT ![a] = [used |-> TRUE, job |-> j, id |-> IF j \in Rejected THEN NoJob ELSE j,
                                       start |-> 0, comp |-> FALSE, kill |-> FALSE]]
       /\ slurm' = IF j \in Rejected THEN slurm ELSE [slurm EXCEPT ![j] = "pending"]
  /\ events' = Tail(events)
  /\ UNCHANGED <<loop, now, swept, startAt, endAt, timedOut>>

\* sim_insert_event_rpc_epilog_complete
WithEpilog(q, id) ==
  IF \E a \in Find(id) : ~heap[a].comp
  THEN LET a == CHOOSE b \in Find(id) : TRUE
       IN  InsertEvent(q, [when |-> now + CompDelay, type |-> "epilog", what |-> a])
  ELSE q
MarkedComp(id) == [a \in Addr |-> IF a \in Find(id) THEN [heap[a] EXCEPT !.comp = TRUE] ELSE heap[a]]

\* Mutant of AfterTerminate: the cleanup completes the job a second time
AfterTerminateTwice(q, id) ==
  IF Find(id) = {} THEN q
  ELSE InsertEvent(q, [when |-> now + LimitDelay, type |-> "complete", what |-> CHOOSE a \in Find(id) : TRUE])

\* REQUEST_TERMINATE_JOB, which job_complete sends to the nodes, is dropped
AfterTerminate(q, id) == q

\* job_complete and the epilog on every node: the job is done, unless a node
\* does not answer in the first pass
CompleteRunning(id) ==
  /\ endAt' = [endAt EXCEPT ![id] = now]
  /\ \/ /\ slurm' = [slurm EXCEPT ![id] = "done"]
        /\ heap' = Removed(id)
        /\ events' = AfterTerminate(Tail(events), id)
     \/ /\ slurm' = [slurm EXCEPT ![id] = "completing"]
        /\ heap' = MarkedComp(id)
        /\ events' = WithEpilog(AfterTerminate(Tail(events), id), id)

\* sim_rpc_epilog_complete of a job that is completing
FinishEpilog(id) ==
  /\ slurm' \in {[slurm EXCEPT ![id] = s] : s \in {"done", "completing"}}
  /\ heap' = Removed(id)
  /\ events' = Tail(events)
  /\ UNCHANGED endAt

\* no record, or neither running nor completing: only the active job is dropped
DropActive(id) == heap' = Removed(id) /\ events' = Tail(events) /\ UNCHANGED <<slurm, endAt>>

\* SIM_COMPLETE_BATCH_SCRIPT: sim_complete_job
CompleteJob ==
  /\ Due("complete")
  /\ \E id \in ReadId(Head(events).what) :
       \/ Known(id) /\ slurm[id] = "running" /\ CompleteRunning(id)
       \/ Known(id) /\ slurm[id] = "completing" /\ FinishEpilog(id)
       \/ (Known(id) => slurm[id] \notin {"running", "completing"}) /\ DropActive(id)
  /\ UNCHANGED <<loop, now, swept, startAt, timedOut>>

\* SIM_EPILOG_COMPLETE: sim_rpc_epilog_complete
EpilogComplete ==
  /\ Due("epilog")
  /\ \E id \in ReadId(Head(events).what) :
       \/ Known(id) /\ slurm[id] = "completing" /\ FinishEpilog(id)
       \/ (Known(id) => slurm[id] # "completing") /\ DropActive(id)
  /\ UNCHANGED <<loop, now, swept, startAt, timedOut>>

EventsDone ==
  /\ pc = "events" /\ (events # << >> => Head(events).when > now)
  /\ pc' = "sched" /\ swept' = now + 1
  /\ UNCHANGED <<depth, now, sleepTill, lastCheck, allDone, jobs>>

-----------------------------------------------------------------------------
(* The schedulers *)

\* Mutant of CompletionTime: counted from the submission
CompletionTimeFromArrival(j) == Arrival[j] + Wall[j]

CompletionTime(j) == now + Wall[j]

\* REQUEST_BATCH_JOB_LAUNCH: sim_insert_event_comp_job
AfterLaunch(j) ==
  IF Find(j) # {} /\ Wall[j] < Year
  THEN InsertEvent(events, [when |-> CompletionTime(j), type |-> "complete", what |-> CHOOSE a \in Find(j) : TRUE])
  ELSE events

\* the main scheduler or the backfiller starts a pending job
StartJob(j) ==
  /\ pc = "sched" /\ slurm[j] = "pending"
  /\ slurm' = [slurm EXCEPT ![j] = "running"]
  /\ startAt' = [startAt EXCEPT ![j] = now]
  /\ heap' = [a \in Addr |-> IF a \in Find(j) THEN [heap[a] EXCEPT !.start = now] ELSE heap[a]]
  /\ events' = AfterLaunch(j)
  /\ UNCHANGED <<loop, now, swept, endAt, timedOut>>

\* sim_mini_loop: the backfiller lets the events of the meantime happen
EnterMiniLoop ==
  /\ pc = "sched" /\ depth = 1 /\ now <= sleepTill + BackfillTime
  /\ depth' = 2 /\ pc' = "events"
  /\ UNCHANGED <<now, swept, sleepTill, lastCheck, allDone, jobs>>

SchedDone ==
  /\ pc = "sched" /\ pc' = "exit"
  /\ UNCHANGED <<depth, now, swept, sleepTill, lastCheck, allDone, jobs>>

-----------------------------------------------------------------------------
(* The end of a pass of the loop *)

\* Mutant of AllDone: what Slurm has is not looked at
AllDoneByEvents == events = << >>

AllDone ==
  /\ events = << >>
  /\ \A a \in Addr : ~heap[a].used
  /\ \A j \in Job : slurm[j] \notin {"pending", "running"}

CheckExit ==
  /\ pc = "exit"
  /\ LET done == IF AllDone /\ allDone = 0 THEN now + Grace ELSE allDone IN
     /\ allDone' = done
     /\ pc' = IF AllDone /\ done < now THEN "done" ELSE IF depth = 1 THEN "skip" ELSE "loop"
  /\ UNCHANGED <<depth, now, swept, sleepTill, lastCheck, jobs>>

\* Mutant of SkipTarget: the skip does not stop at an event
SkipTargetBlind == sleepTill

SkipTarget == IF events # << >> /\ Head(events).when < sleepTill THEN Head(events).when ELSE sleepTill

\* a pending job is started in time
Patient(t) == \A j \in Job : slurm[j] = "pending" => t <= Arrival[j] + StartDelay

\* the clock jumps to the next deadline; those of the backfiller, of the
\* scheduler and of the database agent may lie before the ones modelled
SkipTime ==
  /\ pc = "skip" /\ sleepTill > now /\ allDone = 0
  /\ \E t \in (now + 1)..SkipTarget :
       /\ t <= MaxTime /\ Patient(t)
       /\ now' = t /\ swept' = IF t > swept THEN t ELSE swept
  /\ pc' = "loop"
  /\ UNCHANGED <<depth, sleepTill, lastCheck, allDone, jobs>>

NoSkip ==
  /\ pc = "skip" /\ pc' = "loop"
  /\ UNCHANGED <<depth, now, swept, sleepTill, lastCheck, allDone, jobs>>

\* the main loop goes round until sleepTill and then runs the background pass;
\* the mini loop runs it if the main thread is meant to be asleep, and returns
LoopEnd ==
  /\ pc = "loop"
  /\ \/ depth = 1 /\ sleepTill > now /\ pc' = "events" /\ UNCHANGED depth
     \/ depth = 1 /\ sleepTill <= now /\ pc' = "background" /\ UNCHANGED depth
     \/ depth = 2 /\ sleepTill > now /\ pc' = "background" /\ UNCHANGED depth
     \/ depth = 2 /\ sleepTill <= now /\ pc' = "sched" /\ depth' = 1
  /\ UNCHANGED <<now, swept, sleepTill, lastCheck, allDone, jobs>>

-----------------------------------------------------------------------------
(* _slurmctld_background *)

CheckDue == now - lastCheck >= Period
Expired == {j \in Job : slurm[j] = "running" /\ startAt[j] + Limit[j] <= now}

KillPayload(j) == CHOOSE a \in Find(j) : TRUE

\* job_time_limit and _job_timed_out, whose REQUEST_KILL_TIMELIMIT becomes an
\* event unless one was requested already (sim_job_requested_kill_timelimit)
TimeOut(j) ==
  /\ pc = "background" /\ CheckDue /\ j \in Expired
  /\ slurm' = [slurm EXCEPT ![j] = "completing"]
  /\ endAt' = [endAt EXCEPT ![j] = now]
  /\ timedOut' = timedOut \union {j}
  /\ events' = IF \E a \in Find(j) : ~heap[a].kill
               THEN InsertEvent(events, [when |-> now + LimitDelay, type |-> "complete", what |-> KillPayload(j)])
               ELSE events
  /\ heap' = [a \in Addr |-> IF a \in Find(j) THEN [heap[a] EXCEPT !.kill = TRUE] ELSE heap[a]]
  /\ UNCHANGED <<loop, now, swept, startAt>>

\* the rest of the pass: records of jobs that are done may be purged, and the
\* main thread sleeps again
BackgroundDone ==
  /\ pc = "background" /\ (CheckDue => Expired = {})
  /\ lastCheck' = IF CheckDue THEN now ELSE lastCheck
  /\ \E old \in SUBSET {j \in Job : slurm[j] = "done"} :
       slurm' = [j \in Job |-> IF j \in old THEN "purged" ELSE slurm[j]]
  /\ IF depth = 1
     THEN sleepTill' = now + Quantum /\ pc' = "events" /\ UNCHANGED depth
     ELSE pc' = "sched" /\ depth' = 1 /\ UNCHANGED sleepTill
  /\ UNCHANGED <<now, swept, allDone, events, heap, startAt, endAt, timedOut>>

-----------------------------------------------------------------------------
\* the scaled clock runs on while the thread works, but no further than Lag
\* beyond the last pass over the events
Elapse ==
  /\ pc \notin {"background", "done"}
  /\ now < MaxTime /\ now < swept + Lag /\ Patient(now + 1)
  /\ now' = now + 1
  /\ UNCHANGED <<loop, swept, jobs>>

Exited == pc = "done" /\ UNCHANGED vars

Thread ==
  \/ SubmitJob \/ CompleteJob \/ EpilogComplete \/ EventsDone
  \/ (\E j \in Job : StartJob(j)) \/ EnterMiniLoop \/ SchedDone
  \/ CheckExit \/ SkipTime \/ NoSkip \/ LoopEnd
  \/ (\E j \in Job : TimeOut(j)) \/ BackgroundDone
  \/ Exited

Next == Thread \/ Elapse

(* The thread runs, the clock does not stand still while it does, the         *)
(* backfiller calls the mini loop only so often, and Slurm starts the jobs it *)
(* can start.                                                                 *)
Fairness ==
  /\ WF_vars(Thread) /\ SF_vars(Elapse)
  /\ SF_vars(SchedDone /\ depth = 1)
  /\ \A j \in Job : SF_vars(StartJob(j))

Spec == Init /\ [][Next]_vars /\ Fairness

-----------------------------------------------------------------------------
(* Properties *)

\* The list stays ordered, whatever is inserted while events are handled: the
\* loop stops at the first event that is not due, so one out of order is late.
Ordered == \A i, k \in DOMAIN events : i < k => events[i].when <= events[k].when

\* No event outlives the structure it points to: each handler that frees a
\* sim_job_t does so when no other event of the job is in the list.
NoDangling == \A i \in DOMAIN events : events[i].type # "submit" => heap[events[i].what].used

\* A job that runs has one active structure and, unless it runs to its limit,
\* one completion in the list, at the end of its walltime: without it the job
\* would hold its nodes to the limit, with two the second would hit another.
RunningCompletes ==
  \A j \in Job : slurm[j] = "running" =>
    /\ Cardinality(Find(j)) = 1
    /\ Cardinality({i \in DOMAIN events : events[i].type = "complete" /\ events[i].what \in Find(j)})
         = IF Wall[j] < Year THEN 1 ELSE 0
    /\ \A i \in DOMAIN events :
         (events[i].type = "complete" /\ events[i].what \in Find(j)) => events[i].when = startAt[j] + Wall[j]

\* A structure in use belongs to a job Slurm has not finished with, or to one
\* Slurm refused: nothing else keeps the simulator from its exit.
ActiveUnfinished ==
  \A a \in Addr : heap[a].used =>
    \/ heap[a].job \in Rejected /\ heap[a].id = NoJob
    \/ heap[a].id = heap[a].job /\ slurm[heap[a].job] \in {"pending", "running", "completing"}

\* The three accounts of a job, in Slurm, in the active list and in the event
\* list, agree in both directions, although each handler changes them one by one.
Accounted == TypeOK /\ RunningCompletes /\ ActiveUnfinished

\* A job runs for its walltime, or to its time limit if that is shorter
\* (sim_jobs.h:11): no event of another job and no check ends it before.
RunsItsWalltime ==
  \A j \in Job : slurm[j] \in {"completing", "done", "purged"} =>
    endAt[j] >= startAt[j] + (IF Wall[j] < Limit[j] THEN Wall[j] ELSE Limit[j])

\* No job whose walltime is below its limit is timed out: the time-limit check
\* never gets in before a completion that is due
\* (generate_empirical_workload.py:389).
NoFalseTimeout == \A j \in timedOut : Wall[j] >= Limit[j]

\* The simulator exits with nothing left to do: no job in the queue or running.
ExitComplete ==
  pc = "done" => events = << >> /\ \A j \in Job : slurm[j] \in {"completing", "done", "purged"}

\* The simulator exits on its own once every job has finished (run-sim.sh:11).
Exits == <>(pc = "done")
=============================================================================
